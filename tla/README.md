# A verification of the Obsidian messenger

TLA+ modules, TLC configurations and TLAPS proofs for the end-to-end encrypted
messenger in this repository: a FastAPI server over SQLite (`server/`), a
command-line client (`client/`) and the shared message envelope (`shared/`).

| To find | Look at |
|---|---|
| what the system consists of and what is hard about it | Inventory |
| which threads and steps the models have | Concurrency |
| which module stands for which code | Modules |
| what TLC checks, and the disagreements it found | Runs, Where code and documents disagree |
| what is proved | Theorems |
| what is left | Not modelled, Plan |

## Inventory

| Component | State | Operations | Talks to | What is hard | What makes it correct |
|---|---|---|---|---|---|
| Contact graph (`server/main.py` 423-715) | tables `friend_requests`, `contacts`, `blocks` | send, respond, cancel, remove, block, unblock | notifications over the WebSocket | handlers of two kinds interleave between their SELECT and their writes | links in pairs; one open request per pair, none between contacts; blocking severs |
| Messages (`main.py` 139-291, 722-828) | `messages`, `delivery_receipts`, `conversations`, time of the last sweep | send, ack, sweep, drop on block | contact graph, connection manager | deletions by sweep and block between a handler's steps; a copied summary | one receipt per delivery; summary is the latest message; deletions justified |
| History and read marks (`main.py` 831-971, `cli.py` 205-245) | `messages.is_read`; the client's cursor | pull, mark read, conversations, open, more | messages, CLI | rows arrive, expire and are read between SELECT and UPDATE; a client gives up and asks again | the cursor skips nothing and repeats nothing; only what was selected is read |
| WebSocket endpoint and manager (`main.py` 974-1028, `ws_manager.py`) | registered sockets per user, pushes under way | connect, flush, push, disconnect | messages, clients | registration, commit, snapshot and flush race; pushes repeat until acked | nothing undelivered is missed by a live socket |
| Accounts and sessions (`main.py` 81-118, 297-386, `security.py`) | `users`, `otp_secrets`, `sessions`, `login_challenges` | register, password login, OTP login, logout, token check | rate limiter | handlers on several threads use one challenge or name; time and restarts | one account per name; one session per challenge; a token that was refused stays refused |
| Rate limiter (`rate_limit.py`) | time stamps per key | allow | login, register | the time is read before the lock | grants are spaced by the window; a refusal has cause |
| Peer trust (`client/e2ee_client.py` 77-341) | trusted keys, verified records, re-verifications due | first use, gate, verify, reset-trust, status | server's key directory, state file | command and listener threads share dictionaries over slow requests | pinned keys stay pinned; verified and to-be-verified exclude each other; refusals hold |
| Replay detection (`e2ee_client.py` 166-237) | tokens seen, per peer | classify, record, trim | state file, push handler | kill between show, save and ack; bounded cache; threads share it without a lock | an acknowledged message is not shown as new again; a copy is blocked; the cache forgets the oldest |
| State file (`client/state.py`) | `client_state.json`, its `.tmp` | load, save | every process and thread of a checkout | one temporary name; merge of some sections, overwrite of others | a save is atomic and loses nothing |
| CLI and listener (`cli.py`, `ws_client.py`) | logged-in user, page cursors, timers | commands, push handler, reconnect | all of the client | callbacks in another thread than commands; `ws` read twice | one active listener, which can be stopped; nothing left after a logout |
| Envelope and cryptography (`shared/e2ee.py`) | none | encrypt, decrypt, parse, derive keys | trust, CLI | library primitives | accepts exactly what encrypt produces |
| TLS (`server/tls.py`, `run_tls.py`, `client/tls.py`) | four files | ensure, regenerate | operators | files written one by one | files on disk match each other |
| Schemas, config, HTTP client | none | field limits, settings, one request per method | | | |

`PROJECT.json` lists the same components with the status of each, and the
hazards at their lines with the properties that would catch them.

## Concurrency

**Server.** `async def` handlers (friend send and respond, `messages_send`,
`messages_ack`, the WebSocket endpoint) share one event loop and give it up
only at an `await`. None awaits inside its database section, so at most one is
between two of its database statements: `loop` in `ContactGraph`, `msgLoop` in
`Messaging`, never both. `def` handlers (register, logins, logout, cancel,
remove, block, unblock, pull, mark read) run on pool threads, truly between any
two statements of that one and of one another: `threads`, `task` and `req` hold
what each has read. SQLite in Python's legacy isolation mode opens the
transaction at the first INSERT, UPDATE or DELETE and holds the write lock until
the commit, so the statements from there on are one step, and every SELECT
before it is a step of its own. A handler that writes without having read a
changing table first is a single step. The rate limiter takes a lock, but reads
the time before it: a step of its own. Restarts lose what is in flight and keep
what is committed. Waiting for SQLite's lock beyond its timeout, which makes a
request fail without effect, is left out.

**Client.** A process has the thread that reads commands and one WebSocket
thread per listener; a listener that was told to stop ends only at its next
look, so several may live for a while. They share the state dictionary, `api`
and `ws` without a lock. A step is one access to what is shared: in `PeerTrust`
a thread may be overtaken at each request to the server and between the writes
to two stores; in `ReplayCache` between looking a token up, recording it, and
choosing and deleting an entry; in `ClientState` between the file operations of
a save; in `ClientSession` between the two reads of `ws` and between the places
a token is cleared from.

## Modules

| Module | Code | Contents |
|---|---|---|
| `ContactGraph` | `server/main.py`, `server/db.py` | requests, contacts, blocks and their handlers |
| `Messaging` | `server/main.py`, `server/ws_manager.py` | EXTENDS `ContactGraph`: messages, receipts, summaries, sweep, sockets, pushes |
| `Mailbox` | | abstract: the life of a message, implemented by `Messaging` |
| `RateLimiter` | `server/rate_limit.py` | the sliding window of time stamps |
| `Auth` | `server/main.py`, `server/db.py` | EXTENDS `RateLimiter`: accounts, challenges, sessions |
| `Sessions` | | abstract: the life of a token, implemented by `Auth` |
| `HistoryPaging` | `server/main.py`, `client/cli.py` | pages of history, read marks, the client's cursor |
| `PeerTrust` | `client/e2ee_client.py`, commands of `client/cli.py` | the trust kept for one peer |
| `ReplayCache` | `client/e2ee_client.py`, `client/cli.py`, `client/state.py`, `shared/e2ee.py` | the replay cache for one peer and its two callers |
| `ClientState` | `client/state.py`, push handler of `client/cli.py` | memory and file of the processes of a checkout |
| `ClientSession` | `client/cli.py`, `client/ws_client.py` | login, logout, listeners, auth_failed |
| `MC...` | | small instances of each, for TLC |
| `...Proofs` | | the theorems about each |

### ContactGraph

`requests` is the table `friend_requests` (id, from, to, status), `contacts`
and `blocks` are sets of ordered pairs. `friend_request_send` is SendBegin,
three checks and SendInsert; the first block check is in SendBegin, since
everything before it is a lookup of users, who never change. Respond is
RespondRead and AcceptCommit, AcceptAbort or DeclineCommit: `Close` is the
DELETE and UPDATE, `CancelOthers` the clean-up of reciprocal requests, and
AcceptAbort the rollback when their outcome violates UNIQUE. Cancel is
CancelRead and CancelCommit on a pool thread. `nextRequestId` is the
AUTOINCREMENT counter, which a database keeps when rows are deleted.

### Messaging and Mailbox

`messages` maps an id to its row, with the number of its `delivered` receipts.
`summary` is `conversations.last_message_id`. Every handler that begins with
`cleanup_expired_messages` begins with `Sweep`, which is throttled by
`SweepInterval` as the code is; SendMessageBegin, AckBegin, Connect and
ReadRequest (pull, mark read and conversations, as far as they touch
delivery) all do. `push[id]` is a `send_to_user` in progress with the sockets
of its snapshot it has not awaited yet; `conn[s].todo` is the flush list of a
connection. `block_user` is BlockAndDrop, the BlockUser of the contact graph
with the drop of undelivered messages.

Two abstract specifications. `ContactGraph!ContactSpec`, whose variables
`Messaging` shares by EXTENDS, so the refinement mapping is the identity on the
tables and hides the rest. `Mailbox`, by INSTANCE: a message is unsent, then
waiting, then perhaps delivered, then perhaps gone; the mapping reads the state
of an id from the table and the AUTOINCREMENT counter, and `heard` from what
the clients' sockets have received. It says that ids are given out once and in
order, that a row is marked delivered only while some client holds the message,
and that nothing comes back.

### RateLimiter, Auth and Sessions

`events` is the deque of a key and `call` what a thread that is in `allow` has
read: AskLimiter reads the clock, Grant and Deny are the rest, under the lock.
`MaxDelay` bounds how long a thread may take in between (LimiterTick); the
code has no such bound, and the properties say how much each second of delay
costs. `Auth` runs it in front of its handlers (Request, Admit, Refuse).
Register and `login_otp` are a SELECT and a write (RegisterRead,
RegisterInsert; OtpRead, OtpWrite), `login_password` writes once (Challenge),
logout is the token check and the UPDATE (LogoutRead, LogoutWrite). Passwords,
codes and tokens are right or not. `welcomed` counts the registrations that
were answered with success; `overlapped` holds the challenges that two handlers
had read as unused. `Sessions` is the life of a token: unknown, accepted, over;
`ImplementsSessions` maps it to the rows and the clock.

### HistoryPaging

One conversation of Reader and Peer. A handler is Start (with the throttled
sweep), Select and Mark, on a pool thread; a client has one request out, and
GiveUp is its 15 s time-out, after which the handler goes on alone. `Page` is
the query (newest `limit` rows below the cursor), `NextBefore` the cursor the
CLI keeps in `paging`; `Beyond` asks for the newest page and `End` is the cursor
of an exhausted history. Insert, Sweep by others, and requests of other clients
of the same user change the table in between. `newest`, `shown` and `selected`
are history variables.

### PeerTrust

Keys stand for public keys (records are compared by key alone), `NoKey` for no
record. A thread's task holds what it has read: `known`, the trusted key, and
`current`, the server's answer. `Remember` and `Clean` are the two halves of
`_remember_trusted_peer`, `Gate` the two lookups with their deletions and the
refusal, `Confirm` and `Require` the ends of `mark_peer_verified` and
`reset_peer_trust`, both followed by the status report that the CLI prints.
Other peers' records are independent, since every store is indexed by peer.

### ReplayCache

`cache` and `disk` map a token to the id it came with and when it was last met.
Rendering an id is Unreadable (an envelope that cannot be read records nothing),
Legacy, Known (a duplicate, or a copy under another id) or New followed by
Record and by the trim: TrimChoose, TrimDelete, or TrimFails and TrimMissed when
another thread changes the dictionary meanwhile. A pushed message is printed and
then saved (Show, Save), a page of `open` or `more` saved and then printed.
A save merges memory over the file and cuts the result (`Merged`, `Trimmed`).
History variables: `fate` of the text of one id, whichever it is (`Watched`);
`passed`, the ids let through; `raced`, tokens two threads were at; `seenAt` and
`savedAt`, when a token was last met.

### ClientState

A document has two sections: `kept` (what `save_state` merges: secrets, device
keys, trusted keys, replay tokens) and `verified` (what it takes from memory
alone). `temp` and `file` are what the two names lead to: a document, an empty
or garbled file, or nothing. A writer that has opened the temporary file keeps
its handle when another thread renames it (POSIX), so its `target` becomes the
state file itself. Push handling is Receive, Classify (a token in memory is a
duplicate, any other is recorded), Show or Refuse, the save, and Ack.
`shown`, `acked` and `reset` are history variables. RestartProcess covers a
kill at any point: between kill and launch the process takes no step. The trim
at 2048 is in `ReplayCache`, the session in `ClientSession`.

### ClientSession

A token is a number in the order given out, and is in `api`, in memory (`mem`)
and in the file (`saved`). `main` is the command in progress: login and logout
go through MainSetsApi, MainSetsState and MainPersists with the listener stopped
or replaced in between (StartWs, ReplaceWs, CreateWs, RunWs, MainStopsWs), and
Publish may fail and leave a login half way. A listener is connecting,
listening, handling an event, sleeping, or in one of the steps of `auth_failed`,
which runs the same `_stop_ws` in its own thread. EndSession is the server
ending a token at any time. `raced` says that an `auth_failed` overlapped a
command of this process.

## Runs

These pass, with deadlock checked:

| Run | Instance | Distinct states | Shows |
|---|---|---|---|
| `contact_graph` | 2 users, 2 pool threads, a database with reciprocal and cancelled requests of an older version, ids up to 5 | 0.20 M | symmetry, no request between contacts, no two rows with one key, through the clean-up and the rollback of an accept |
| `messaging_contacts` | 2 users, 1 pool thread, 3 requests, 1 message, a database this version created | 0.09 M | refinement of the contact graph; one open request per pair; accept never meets UNIQUE |
| `messaging_delivery` | 2 users, 2 sockets, 1 message without expiry, fair | 0.05 M | no missed message, and every message offered to a socket that stays |
| `messaging_ttl` | 2 users, 1 socket, 2 expiring messages, clock to 3, sweeps 2 apart | 0.43 M | summary, receipts, deletions, refinement of `Mailbox` |
| `auth` | 1 user, 2 threads, 1 challenge, 2 sessions, window 2, delay 1, clock to 2, restarts; limit 2 for `login_otp`, else 1 | 0.6 M | accounts, sessions per challenge, both sides of the limiter, refinement of `Sessions` |
| `history_paging` | 2 threads, pages of 2, 3 messages that expire or not, clock to 1, sweeps 1 apart | 1.3 M | nothing skipped, nothing twice, only the selected read |
| `peer_trust_listeners` | command thread and 2 listeners, 2 keys | 0.08 M | the records exclude each other, commands stay gated |
| `replay_cache` | command thread and 1 listener, 4 ids of which one is a copy and one legacy, 2 tokens, a cache of 1, clock to 1, five pages, kills | 1.9 M | the oldest is forgotten, a copy is blocked, what is remembered was shown |
| `client_state_serial` | 1 thread for commands and pushes, 2 tokens, kills | 0.02 M | atomic saves, acknowledged is not shown again, verified records kept |
| `client_state_shared` | both threads, 1 token, kills | 0.05 M | memory holds what the file holds |
| `client_session` | 2 listeners per process, 3 logins, restarts, fair | 0.09 M | one active listener, complete logout, a stopped listener ends |

One more run, `pinned_key_replaced`, ends with a counterexample (next section).

**Bounds.** Two users exhaust the contact graph's conflicts: every statement
concerns one pair, in one direction or the other, and no handler relates two
pairs. The older database starts with three rows and allows two more; three ids
on a fresh one allow a request to be sent, closed and sent again with the first
row still there, which is what the UNIQUE constraint is about. Two sockets are a
user with two, or two users with one each; two messages (`messaging_ttl`) are
needed for a flush list with one element left and for a summary to go back to
an older message. A clock of 3 with an interval of 2 has an expiry before, at
and after a sweep. One message is enough for offering, a property of each
message, since pushes of messages are independent but for the loop, to which
fairness applies. In `auth` two threads race for one name, one challenge and one
place in the window; limits of 1 and 2 have a window with one stamp and with an
older one behind a newer; a clock of 2 passes the life of a session, a window
and the life of a challenge. In `history_paging` three messages are a full page
and the start of another, so that the page after it is short; two threads are an
answer the client waits for and one it gave up on. Two keys are the pinned and
the new one. A second listener races the first without the command thread. In
`replay_cache` two tokens in a cache of one make every second message trim; ids
1 and 3 carry the same token, 0 none. In `client_state_serial` one thread does
the work of the command thread and of a listener in turn, which is every
behaviour of the two in which handlers do not overlap: the properties are about
those, and need two tokens for one to be acknowledged while another is saved.
In `client_session` two listeners are the one that is stopped and its
successor, and three logins make one after a failed one; a process that has used
up its listeners can be launched again. The bounds are the constants
`MaxRequestId`, `MaxMessageId`, `MaxMessages`, `MaxClock`, `MaxChallenges`,
`MaxSessions`, `Pages`, `Listeners` and `MaxTokens`; the proofs give them no
value.

**Fairness.** `FairSpec`: a handler that has begun runs on: weak fairness of
the steps of coroutines that hold the loop. A push or flush waits for its
socket and is put on the loop's FIFO ready queue, where no other task can pass
it forever although its step may be disabled for a while whenever another
handler has the loop: strong fairness for each. Nothing makes a client
connect, acknowledge or stay. `SessionSpec`: a listener thread is scheduled,
weakly fair, since each of its waits has a time-out (`open_timeout` 5 s, `recv`
1 s, `sleep` 2 s, HTTP 15 s); nothing is assumed of the user. `FairTrustSpec`
lets a thread that has begun go on, for the same reason; `pinned_key_replaced`
uses it, so that its counterexample is not an artefact of a stopped system.

## Where code and documents disagree

The properties are stated in the modules with the words "what ... says". One has
a run of its own that TLC ends with a counterexample: `pinned_key_replaced`
(`PinnedUntilReset`), where two threads in a first use both find no trusted key,
and the later overwrites the key the earlier pinned and used.

TLC refutes the others too, when each takes the place of the properties in the
configuration named, with SYMMETRY left out:

| Property | Configuration | What happens |
|---|---|---|
| `BlockSeversContacts` | (1) | an accept that read its row before a block inserts the links after it |
| `BlockClearsRequests` | (1) | a send that passed its check before a block inserts after it |
| `OnlyPendingIsCancelled` | (1) | cancel updates by id a row answered since its check (`main.py` 606-607) |
| `CancelledIsNotAnswered` | (1) | respond updates by id a row cancelled since its check (`main.py` 533-546) |
| `AcceptNeverAborts` | `contact_graph` | on the older database the clean-up of reciprocal requests meets UNIQUE with a cancelled row |
| `ExpiredIsNotFlushed` | (2) | a throttled sweep before the flush leaves expired messages to it |
| `BlockedMessagesAreDropped` | (2) | a message that passed its checks before a block is stored after it |
| `ReverifyUntilVerified` | `pinned_key_replaced` | a first use that began before reset-trust deletes the re-verification it requires |
| `StoredIsKept` | `client_state_shared` | two saves overlap in the temporary file, and an empty file replaces the state |
| `VerifiedIsKept` | `client_state_serial` with processes `{p1, p2}`, command threads `{main1, main2}`, `Of <- TwoOf` | a process saves over the verified record of another |
| `ShownOnce` | `client_state_serial` | a process killed between showing and saving shows a message as new again |
| `IgnoredWasProcessed` | `replay_cache` | a process killed between saving a page and printing it ignores the push of a message nobody saw |
| `NoticeIsTrue` | `history_paging` | an expired message left out of a page makes the notice say that history ends (`cli.py` 242-245; `Tech_Doc/CLI_PAGINATION_IMPLEMENTATION.md` 3.3 says when it may) |
| `ClearedWasInvalid` | `client_session` | a listener that a login has just stopped, or one that a login left active when its publication failed, still handles its auth_failed, and clears the fresh token (comment at `cli.py` 294) |

(1) is `contact_graph` with one pool thread, `MaxRequestId = 2` and
`InitialRequests <- NoRequests`. (2) is `messaging_ttl` with `FairSpec`, one
message, `MaxClock = 2`.

No document promises that a challenge gives one session; the code leaves two
overlapping requests open, which is why `OneSessionPerChallenge` excepts them
(`overlapped`). The same goes for `raced` in `ReplayCache` and `ClientSession`.

A conditional UPDATE (`... AND status = 'pending'`, `... AND used_at IS NULL`), a
check of `blocks` inside the writing transaction, a lock around the client's
stores and a temporary name per save would remove most of them; `ShownOnce` and
`IgnoredWasProcessed` cannot both hold when the process may be killed at any
point.

## Theorems

Proved by TLAPS for every value of the constants that satisfies the named
assumptions; TLC checks the same properties on the runs above, and the
inductive invariants were checked with it before they were proved.

**`ContactGraphProofs`** assumes that the initial tables satisfy the schema's
constraints, that links in them are symmetric and no request is pending
between contacts (`InitialRequestsAssumption`, `InitialContactsAssumption`).
`ContactInv` adds to the properties `SendKnowledge` (what send has learnt from
its SELECTs stays true until it inserts: only the loop adds links and rows)
and `TasksNameTheirRows`. From it: `ContactTypeCorrect`, `ContactSymmetry`,
`NoRequestBetweenContacts`, `RequestRowsUnique`. With the further assumption
`NoReciprocalRequests`, true of a database that this version created,
`OnePending` and `AcceptCommits`; the older database shows that both need it.
Two theorems say how much of the table of disagreements above the overlaps
account for: `BlockingHoldsWhenAlone` (`BlockInv`: what a send or an answer in
flight still has to add is between users of whom none has blocked the other)
has both claims about blocking when no block overlaps a send or an answer of
its pair, `AnsweredOrCancelled` (`StillOpen`) both claims about cancelling
when no answer overlaps a cancel of its request. The hypotheses are
statements about steps or states of the same behaviour (`[][BlockAlone]`,
`[]AnswersApart`), so any lock or transaction that excludes the overlap will do.

**`MessagingProofs`**. `ImplementsContactGraph`: each step of `Messaging` is a
step of the contact graph or leaves it unchanged; hence
`ContactsStaySymmetric` without another induction. `MessagingInv` adds
`OneOnLoop`, `AckIsFirst` (the row an ack has read as undelivered is still so
when it writes) and `AliveIsRegistered` (a client that is still there is in
the registry) to the properties: `TypeCorrect`, `SummariesAreRight`,
`ReceiptsAreRight`, `NothingIsMissed`, and the action property
`DeletionIsJustified`. `MessagesImplementMailbox`: with `CopiesInv` (what
clients hold, and what an ack under way is about, has been sent) each action is
a step of `Mailbox` or a stutter. `BlockedAreDroppedWhenAlone`: when no block
runs while a message of the blocked user is between its checks and its INSERT,
nothing undelivered waits for somebody who blocks its sender (`DropInv`).

**`AuthProofs`**. `LimiterInv` says what the queue is of all that was granted:
a suffix of it (`KeepsSuffix`), what was dropped is older than the window less
the delay (`DroppedAreOld`), and stamps are out of order by no more than the
delay (`NearlyOrdered`). `GrantsAreSpacedAlways` and `DenialIsAlwaysDue` follow
for any limits, window, delay and number of threads. `AuthInv` adds what a
handler's read still tells it at its write: `OneAccountPerNameAlways`,
`OneSessionPerChallengeAlways`, `SessionsHaveChallengesAlways`, and the
refinement `AuthImplementsSessions`. `OneSessionWhenApart`: without two
`login_otp` handlers of one challenge between SELECT and UPDATE
(`[]OtpApart`), a challenge gives one session, with no exception.

**`HistoryProofs`**. `HistoryInv` adds what the answer under way reaches
(`AskedOK`: its page lies below the cursor and leaves out only older rows),
that nothing printed is below the cursor (`ShownAbove`) and that what is to be
marked was selected: `NothingIsSkipped`, `NothingIsTwice`, `ReadIsSelected`, for
any limits, sweeps and number of threads. The lemma on `Page` is by counting
(finite-set theorems). `NoticeInv` adds what is known of a page that has
everything below the cursor; `NoticeIsTrueOfWholePages`: the end-of-history
notice can be wrong only when a message of the page has expired by the time it
is printed, and `NoticeIsTrueWithoutExpiry` draws the conclusion where no message
has a time to live.

**`ReplayProofs`**. `ReplayInv` adds `PassedIsKnown` (an id let through is the
one of its entry, but for a raced token) and `SavedWasShown` (the file remembers
nothing that memory could not): `CopyIsAlwaysBlocked`,
`RememberedWasAlwaysShown`, for any threads, cache size and pages.
`RecentInv` counts: whatever memory or the file no longer holds up to date has
been outlived by as many tokens as the cache has room for (`Outlived`), each by
its own history of when tokens were met, and so has what a trim is about to delete
(`VictimsOK`), until two threads are at one token; from it
`RecentIsAlwaysRemembered`.

**`PeerTrustProofs`**, for any number of keys and listeners. `TrustInv` adds
`PathsOK` and the fact that no re-verification is due while the command thread
is on the path of a first use, since only that thread makes one due:
`TrustTypeCorrect`, `RecordsExclusive`, `CommandsGated`. `PinIsKept`: once a
key is pinned and no handler holds an older view of it (`Settled`), only
reset-trust replaces it, and only verify or reset-trust ends a re-verification that
is due, so that the races of a listener are confined to what began before.
`PinnedWithoutListener`: with no listener the command thread never holds an older
view (`MainView`), and `PinnedUntilReset` and `ReverifyUntilVerified` hold.

**`ClientStateProofs`**. `StateTypeCorrect` for any processes and threads.
`FileIsInMemory` for one process with any threads: `HoldInv` adds that what a
thread is about to write is in memory, and that so is the temporary file's
content once some thread of this run has opened it, since opening truncates
what an earlier run left. `SavesAtomic`, `AckedStaysHidden` and
`VerifiedStays` for one thread (`OneThread`): `AloneInv` describes where the
save and the push have got to; `StoredIsKept` in `client_state_shared` shows
that the assumption is needed. `StoredWhenSerial` and `AckedIsStored` replace it by
what a lock around `save_state` would give (`[]Serial`: no two saves overlap),
for any processes and threads: nothing stored is lost, and what is acknowledged
is in the file (`SerialInv`). `StoredStays` is the case of one thread.

**`ClientSessionProofs`**, for any number of listeners and logins. `Alone` says
that the active listener is the one `ws` refers to, and that there is none
while `ws` changes; `LoggingOut` says what each step of a logout has cleared so
far and that no listener can put it back: `OneActiveListener`,
`LogoutLeavesNothing`. `ClearedIsInvalid`: an auth_failed that overlaps no
command and follows no failed login clears only a token that the server refuses
(`TokenRefused`, `OwnSession`).

**Conditional theorems.** `BlockingHoldsWhenAlone`, `AnsweredOrCancelled`,
`BlockedAreDroppedWhenAlone`, `OneSessionWhenApart`, `StoredWhenSerial`,
`NoticeIsTrueOfWholePages`, `ClearedIsInvalid` and `PinIsKept` are about claims of
the documents that the code does not keep. Each names the one overlap (or
expiry, or failed login) without which the claim holds in every run; TLC finds
the counterexample as soon as the condition is dropped, and none with it on the
instances above.

**Only model-checked.** `EveryMessageIsOffered` and `StoppedEnds`, since
liveness under fairness is beyond the prover; and all violations, which are
counterexamples of instances. Of the claims in the table above no conditional
form is proved for `ExpiredIsNotFlushed` (the clock may pass an expiry between
the sweep and any later send of the flush), `ShownOnce` and
`IgnoredWasProcessed` (both are about a process killed at one point).

## Not modelled

- Cryptographic primitives, password hashing, key derivation, certificate
  generation: library calls without control flow of this program. Of the
  envelope only what the replay check depends on is modelled: whether it can be
  read and has a token.
- TLS material (`server/tls.py`): written file by file by one process at start,
  with nothing concurrent; a stop in between leaves files that do not match,
  which the operator sees at the next start.
- Schemas, configuration and the HTTP client: declarations and one request per
  method. Its time-out is GiveUp in `HistoryPaging`.
- Notifications of friend requests and acks: sent after the commit, and no
  state depends on their arrival.
- Self-destruct timers of the client: they only print. Commands that pass a
  request on and print the answer.
- Several accounts used in turn by one client process, clock skew between the
  machines, and SQLite's lock time-out.
- Sockets that outlive the session they were opened with: the server closes
  none at logout, and no document says that it does.
- `is_offline_queued` on a delivered row and the abort of a flush on a deleted
  message are in the model, with no property that forbids them.

## Plan

Done: all modules above, each with its instances, runs and proofs. What could
follow, in this order:

1. `Auth` composed with `Messaging`, for sockets and the sessions they were
   opened with.
2. `ShownOnce` and `IgnoredWasProcessed` for processes that are not killed between
   showing and saving, from the invariants of `ClientStateProofs` and
   `ReplayProofs`.
3. An abstract trust store (unknown, trusted, verified, to be verified),
   implemented by `PeerTrust` without listeners.
4. The envelope checks as pure operators against a reference over bounded
   inputs, and the TLS files with a stop between two of them.
