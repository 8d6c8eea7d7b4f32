--------------------------- MODULE HistoryPaging ----------------------------
(***************************************************************************)
(* The history of one conversation, read page by page: messages_pull,      *)
(* mark_read and conversations of server/main.py, and the commands open    *)
(* and more of client/cli.py.                                              *)
(*                                                                         *)
(* The handlers run in a thread pool.  Each deletes expired messages (at   *)
(* most once in an interval), selects its rows, and marks those of them    *)
(* that were unread; other requests, new messages and deletions come in    *)
(* between.  One client, logged in as Reader, has at most one request out; *)
(* it may give up waiting for the answer while the handler goes on.  The   *)
(* requests of other clients of Reader are seen by what they do to the     *)
(* table, and those of Peer not at all: they mark rows that Reader's never *)
(* touch.  Membership checks and the wording of pages are left out.  Time  *)
(* is whole seconds, the same on both sides.                               *)
(***************************************************************************)
EXTENDS Naturals, Sequences, FiniteSets

CONSTANTS Threads,       \* of the server's pool
          NoThread,
          Reader, Peer,  \* the members of the conversation
          Limits,        \* values of limit in requests
          TTLs,          \* ttl_seconds of new messages; Never for none
          SweepInterval, \* EXPIRY_CLEANUP_INTERVAL_SECONDS
          MaxMessages,   \* bound: no message beyond this id is stored
          MaxClock       \* bound: the clock stops here, and no message expires later

Never == 0   \* the NULL of ttl_seconds and expires_at

ASSUME HistoryAssumption ==
    /\ NoThread \notin Threads
    /\ Limits \subseteq Nat \ {0}
    /\ TTLs \subseteq Nat /\ SweepInterval \in Nat
    /\ MaxMessages \in Nat /\ MaxClock \in Nat

VARIABLES messages,  \* what was inserted under each id
          stored,    \* the ids still in the table
          read,      \* ids with is_read = 1
          clock,
          lastSweep, \* _last_expiry_cleanup_monotonic
          req,       \* what each thread works on
          asked,     \* the thread whose answer the client waits for
          paging,    \* the client's _history_paging for the conversation
          newest,    \* history: the newest id when the last page of open was selected
          shown,     \* history: ids printed since
          selected   \* history: ids a handler has selected for their receiver

table == <<messages, stored, read, clock, lastSweep>>
client == <<asked, paging, newest, shown>>
pagingVars == <<table, req, client, selected>>

Users == {Reader, Peer}
LastId == Len(messages)
Messages == [to : Users, expires : Nat]

\* Ids count from 1.  "Older than Beyond" asks for the newest page; nothing is
\* older than End, the cursor that an empty page leaves.
Beyond == MaxMessages + 1
End == 0

Requests == [step : {"select", "mark", "reply"}, op : {"open", "more", "mark_read"},
             before : 0 .. Beyond, limit : Limits \cup {0},
             page : SUBSET (1 .. MaxMessages), unread : SUBSET (1 .. MaxMessages),
             newest : 0 .. MaxMessages]
Idle == [step |-> "idle"]
Asking(op, before, limit) ==
    [step |-> "select", op |-> op, before |-> before, limit |-> limit,
     page |-> {}, unread |-> {}, newest |-> 0]

Expired(id) == messages[id].expires # Never /\ messages[id].expires <= clock
Live == {id \in stored : ~Expired(id)}

-----------------------------------------------------------------------------
(* The table *)

\* messages_send: AUTOINCREMENT never gives an id twice.
Insert(to, ttl) ==
    /\ LastId < MaxMessages /\ clock + ttl <= MaxClock
    /\ messages' = Append(messages, [to |-> to, expires |-> IF ttl = Never THEN Never
                                                            ELSE clock + ttl])
    /\ stored' = stored \cup {LastId + 1}
    /\ UNCHANGED <<read, clock, lastSweep, req, client, selected>>

\* cleanup_expired_messages.
Sweep ==
    IF clock - lastSweep >= SweepInterval
    THEN stored' = Live /\ read' = read \cap Live /\ lastSweep' = clock
    ELSE UNCHANGED <<stored, read, lastSweep>>

\* The cleanup of any other handler, such as conversations.
CleanupElsewhere ==
    /\ Sweep
    /\ UNCHANGED <<messages, clock, req, client, selected>>

HistoryTick ==
    /\ clock < MaxClock
    /\ clock' = clock + 1
    /\ UNCHANGED <<messages, stored, read, lastSweep, req, client, selected>>

-----------------------------------------------------------------------------
(* The handlers *)

\* Every handler starts with the cleanup.
Start(t, op, before, limit) ==
    /\ req[t] = Idle
    /\ req' = [req EXCEPT ![t] = Asking(op, before, limit)]
    /\ Sweep
    /\ UNCHANGED <<messages, clock, paging, newest, shown, selected>>

\* Mutants: the id of the cursor is on the page again; the oldest rows come first.
PageFrom(before, limit) ==
    LET older == {id \in stored : id <= before}
    IN  {id \in older : Cardinality({other \in older : other > id}) < limit}
PageOfOldest(before, limit) ==
    LET older == {id \in stored : id < before}
    IN  {id \in older : Cardinality({other \in older : other < id}) < limit}

\* WHERE m.id < before ORDER BY m.id DESC LIMIT limit.
Page(before, limit) ==
    LET older == {id \in stored : id < before}
    IN  {id \in older : Cardinality({other \in older : other > id}) < limit}

Unread(ids) == {id \in ids : messages[id].to = Reader /\ id \notin read}

\* Only a page the client waits for is kept.
Select(t) ==
    /\ req[t].step = "select"
    /\ LET r == req[t]
           page == IF r.op = "mark_read" THEN {} ELSE Page(r.before, r.limit)
           unread == Unread(IF r.op = "mark_read" THEN stored ELSE page)
       IN  /\ req' = [req EXCEPT ![t] = [r EXCEPT !.step = "mark", !.unread = unread,
                                                  !.page = IF asked = t THEN page ELSE {},
                                                  !.newest = IF asked = t THEN LastId ELSE 0]]
           /\ selected' = selected \cup unread
    /\ UNCHANGED <<table, client>>

\* Mutant: whatever is unread when the update runs is marked.
MarkUnread(t) ==
    /\ req[t].step = "mark"
    /\ read' = read \cup Unread(stored)
    /\ req' = [req EXCEPT ![t] = IF asked = t THEN [req[t] EXCEPT !.step = "reply", !.unread = {}]
                                 ELSE Idle]
    /\ UNCHANGED <<messages, stored, clock, lastSweep, client, selected>>

\* The update is by id, of what was selected and is still there.
Mark(t) ==
    /\ req[t].step = "mark"
    /\ read' = read \cup (req[t].unread \cap stored)
    /\ req' = [req EXCEPT ![t] = IF asked = t THEN [req[t] EXCEPT !.step = "reply", !.unread = {}]
                                 ELSE Idle]
    /\ UNCHANGED <<messages, stored, clock, lastSweep, client, selected>>

\* Mutant: the client waits on.
HandlerFailsSilently(t) ==
    /\ req[t] # Idle
    /\ req' = [req EXCEPT ![t] = Idle]
    /\ UNCHANGED <<table, client, selected>>

\* A statement fails ("database is locked"), or the answer is lost.
HandlerFails(t) ==
    /\ req[t] # Idle
    /\ req' = [req EXCEPT ![t] = Idle]
    /\ asked' = IF asked = t THEN NoThread ELSE asked
    /\ UNCHANGED <<table, paging, newest, shown, selected>>

-----------------------------------------------------------------------------
(* The client *)

Ask(t, op, before, limit) ==
    /\ asked = NoThread
    /\ Start(t, op, before, limit)
    /\ asked' = t

Open(t, limit) == Ask(t, "open", Beyond, limit)

\* Refused before the first page; at the end of history it only prints that no older
\* messages remain.
More(t, limit) == paging \notin {Beyond, End} /\ Ask(t, "more", paging, limit)

\* next_before_id.
Oldest(page) == CHOOSE id \in page : \A other \in page : id <= other
NextBefore(page) == IF page = {} THEN End ELSE Oldest(page)

\* _pull_conversation_page: what has expired since it was selected is not printed, and
\* what is printed decides on the notice under the page.
Printed(r) == {id \in r.page : ~Expired(id)}
SaysHistoryEnds(r) == Cardinality(Printed(r)) < r.limit

Receive ==
    /\ asked # NoThread
    /\ LET r == req[asked]
       IN  /\ r.step = "reply"
           /\ paging' = NextBefore(r.page)
           /\ newest' = IF r.op = "open" THEN r.newest ELSE newest
           /\ shown' = Printed(r) \cup (IF r.op = "open" THEN {} ELSE shown)
    /\ req' = [req EXCEPT ![asked] = Idle]
    /\ asked' = NoThread
    /\ UNCHANGED <<table, selected>>

\* The time-out of the HTTP client: the handler goes on.
GiveUp ==
    /\ asked # NoThread
    /\ asked' = NoThread
    /\ req' = IF req[asked].step = "reply" THEN [req EXCEPT ![asked] = Idle] ELSE req
    /\ UNCHANGED <<table, paging, newest, shown, selected>>

\* Logout, or the end of the process, forgets the cursor.
ForgetPaging ==
    /\ asked = NoThread
    /\ paging' = Beyond
    /\ newest' = 0 /\ shown' = {}
    /\ UNCHANGED <<table, req, asked, selected>>

-----------------------------------------------------------------------------
HistoryInit ==
    /\ messages = <<>> /\ stored = {} /\ read = {}
    /\ clock = 0 /\ lastSweep = 0
    /\ req = [t \in Threads |-> Idle]
    /\ asked = NoThread /\ paging = Beyond
    /\ newest = 0 /\ shown = {}
    /\ selected = {}

HandlerNext(t) == Select(t) \/ Mark(t) \/ HandlerFails(t)

ClientNext ==
    \/ \E t \in Threads, limit \in Limits : Open(t, limit) \/ More(t, limit)
    \/ Receive \/ GiveUp \/ ForgetPaging

TableNext ==
    \/ \E to \in Users, ttl \in TTLs : Insert(to, ttl)
    \/ CleanupElsewhere \/ HistoryTick

\* Another client pulls the newest page, or marks all as read.
OtherNext ==
    \E t \in Threads :
        /\ \/ \E limit \in Limits : Start(t, "open", Beyond, limit)
           \/ Start(t, "mark_read", Beyond, 0)
        /\ UNCHANGED asked

HistoryNext == TableNext \/ OtherNext \/ ClientNext \/ \E t \in Threads : HandlerNext(t)

HistorySpec == HistoryInit /\ [][HistoryNext]_pagingVars

-----------------------------------------------------------------------------
(* Properties *)

\* Every variable has its type: only what is stored is read, and a client that waits for
\* an answer waits for a handler that runs.
HistoryTypeOK ==
    /\ messages \in Seq(Messages) /\ LastId <= MaxMessages
    /\ stored \subseteq 1 .. LastId /\ read \subseteq stored
    /\ clock \in Nat /\ lastSweep \in 0 .. clock
    /\ req \in [Threads -> Requests \cup {Idle}]
    /\ asked \in Threads \cup {NoThread}
    /\ asked # NoThread => req[asked] # Idle
    /\ paging \in 0 .. Beyond
    /\ newest \in 0 .. LastId /\ shown \subseteq 1 .. LastId
    /\ selected \subseteq 1 .. LastId

\* Following the cursor skips nothing: of the messages that were there when the newest
\* page was selected, those down to the cursor that have not expired and were not
\* deleted have all been printed, whatever arrived, expired, failed or was asked for
\* meanwhile, with any limits.  At the end of history that is all of them.
NothingSkipped ==
    \A id \in Live : paging <= id /\ id <= newest => id \in shown

\* Following the cursor shows nothing twice: the page of a `more` on its way to the client
\* has no message that was printed since the last `open`, though the page may be the
\* second answer to that `more` when the client gave up on the first.
NothingTwice ==
    asked # NoThread /\ req[asked] # Idle /\ req[asked].op = "more" => req[asked].page \cap shown = {}

\* A message is marked as read only if a handler had selected it for its receiver: one
\* that arrives between the select and the update of a handler stays unread.
ReadWasSelected == read \subseteq selected

\* What the notice under a page says ("no older messages remain", "end of currently
\* available history"): all that was there when the newest page was selected, and still
\* is, has been printed.  The code derives it from the number of messages printed.
NoticeIsTrue ==
    [][Receive /\ SaysHistoryEnds(req[asked]) => \A id \in Live : id <= newest' => id \in shown']_pagingVars

=============================================================================
