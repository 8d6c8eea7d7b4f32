---------------------------- MODULE ContactGraph ----------------------------
(***************************************************************************)
(* The friend-request, contact and block tables of the server and the      *)
(* handlers that change them (server/main.py, server/db.py).               *)
(*                                                                         *)
(* `async def` handlers (send, respond) run on the one event loop and do   *)
(* not await inside their database section: at most one is in flight, in   *)
(* `loop`.  `def` handlers (cancel, remove, block, unblock) run on worker  *)
(* threads between any two steps of that handler and of each other.  A     *)
(* SELECT is a step of its own; SQLite holds the write lock from the first *)
(* DML statement to the commit, so those statements are one step.          *)
(* Handlers whose writes follow no SELECT of a changing table are atomic.  *)
(* User rows never change once registered, so lookups of users are not     *)
(* steps.                                                                  *)
(***************************************************************************)
EXTENDS Integers

CONSTANTS Users,           \* registered accounts
          Threads,         \* worker threads that may hold a cancel in flight
          MaxRequestId,    \* bound: no friend request beyond this id is sent
          InitialRequests, \* friend requests in the database file at startup
          InitialContacts  \* contact links in it

Statuses == {"pending", "accepted", "declined", "cancelled"}
SendSteps == {"send_check_own_block", "send_check_contact",
              "send_check_pending", "send_insert"}

FriendRequests == [id : Nat, from : Users, to : Users, status : Statuses]
\* What a handler has read and the step it does next; `id` is the request it
\* answers or cancels (0 in a send).
Idle == [op |-> "idle"]
LoopTasks == [op : SendSteps \cup {"accept", "decline"},
              from : Users, to : Users, id : Nat]
ThreadTasks == [op : {"cancel"}, from : Users, to : Users, id : Nat]

DistinctIds(rows) == \A r, s \in rows : r.id = s.id => r = s

\* UNIQUE(from_user_id, to_user_id, status) of the table.
UniqueKey(rows) ==
    \A r, s \in rows : r.from = s.from /\ r.to = s.to /\ r.status = s.status
                          => r = s

ASSUME InitialRequestsAssumption ==
    /\ InitialRequests \subseteq FriendRequests
    /\ DistinctIds(InitialRequests)
    /\ UniqueKey(InitialRequests)
    /\ \A r \in InitialRequests : r.from # r.to
    /\ MaxRequestId \in Nat
    /\ \A r \in InitialRequests : r.id <= MaxRequestId

ASSUME InitialContactsAssumption ==
    /\ InitialContacts \subseteq Users \X Users
    /\ \A a, b \in Users : <<a, b>> \in InitialContacts => <<b, a>> \in InitialContacts
    /\ \A r \in InitialRequests : r.status = "pending"
                                     => <<r.from, r.to>> \notin InitialContacts

VARIABLES requests,       \* rows of friend_requests
          nextRequestId,  \* AUTOINCREMENT counter of friend_requests
          contacts,       \* active rows of contacts: <<user, contact_user>>
          blocks,         \* rows of blocks: <<user, blocked_user>>
          loop,           \* async handler between two of its database steps
          threads         \* cancel handler each worker thread is running

contactVars == <<requests, nextRequestId, contacts, blocks, loop, threads>>

-----------------------------------------------------------------------------
(* Rows and queries *)

Between(r, a, b) == \/ r.from = a /\ r.to = b
                    \/ r.from = b /\ r.to = a

\* Mutant: the query of friend_request_send misses the other direction.
PendingOneWay(rows, a, b) ==
    {r \in rows : r.status = "pending" /\ r.from = a /\ r.to = b}

PendingBetween(rows, a, b) ==
    {r \in rows : r.status = "pending" /\ Between(r, a, b)}

IsBlocked(by, target) == <<by, target>> \in blocks
AreFriends(a, b) == <<a, b>> \in contacts
Links(a, b) == {<<a, b>>, <<b, a>>}

\* Mutant: remove_contact_links deletes the caller's row only.
WithoutOwnLink(a, b) == contacts \ {<<a, b>>}

\* contacts once remove_contact_links has run for the pair
WithoutLinks(a, b) == contacts \ Links(a, b)

\* Mutant: the DELETE before the UPDATE is dropped.
CloseKeepingRows(rows, task, status) ==
    {IF r.id = task.id THEN [r EXCEPT !.status = status] ELSE r : r \in rows}

\* Shared by respond and cancel: delete the pair's other rows that already
\* have the new status, then give the row its new status.
Close(rows, task, status) ==
    {IF r.id = task.id THEN [r EXCEPT !.status = status] ELSE r :
        r \in {s \in rows : ~ /\ s.id # task.id
                              /\ s.from = task.from /\ s.to = task.to
                              /\ s.status = status}}

\* Mutant: the last UPDATE of an accept is dropped.
CancelNone(rows, task) == rows

\* The last UPDATE of an accept: other pending rows of the pair are cancelled.
CancelOthers(rows, task) ==
    {IF /\ r.status = "pending"
        /\ r.id # task.id
        /\ Between(r, task.from, task.to)
     THEN [r EXCEPT !.status = "cancelled"] ELSE r : r \in rows}

AcceptedRows(task) == CancelOthers(Close(requests, task, "accepted"), task)

-----------------------------------------------------------------------------
ContactInit ==
    /\ requests = InitialRequests
    /\ nextRequestId \in 1..(MaxRequestId + 1)
    /\ \A r \in InitialRequests : r.id < nextRequestId
    /\ contacts = InitialContacts
    /\ blocks = {}
    /\ loop = Idle
    /\ threads = [t \in Threads |-> Idle]

(* friend_request_send: four SELECTs, each able to refuse, then the INSERT. *)

SendBegin(me, target) ==
    /\ loop = Idle
    /\ nextRequestId <= MaxRequestId
    /\ me # target
    /\ ~IsBlocked(target, me)
    /\ loop' = [op |-> "send_check_own_block", from |-> me, to |-> target, id |-> 0]
    /\ UNCHANGED <<requests, nextRequestId, contacts, blocks, threads>>

\* One SELECT of the handler: go on to the next step or refuse the request.
SendCheck(step, refused, next) ==
    /\ loop.op = step
    /\ loop' = IF refused THEN Idle ELSE [loop EXCEPT !.op = next]
    /\ UNCHANGED <<requests, nextRequestId, contacts, blocks, threads>>

SendCheckOwnBlock ==
    SendCheck("send_check_own_block", IsBlocked(loop.from, loop.to),
              "send_check_contact")
SendCheckContact ==
    SendCheck("send_check_contact", AreFriends(loop.from, loop.to),
              "send_check_pending")
SendCheckPending ==
    SendCheck("send_check_pending",
              PendingBetween(requests, loop.from, loop.to) # {}, "send_insert")

\* Mutant: the table is declared without AUTOINCREMENT and reuses an id.
SendInsertReusingId ==
    /\ loop.op = "send_insert"
    /\ requests' = requests \cup {[id |-> nextRequestId, from |-> loop.from,
                                   to |-> loop.to, status |-> "pending"]}
    /\ loop' = Idle
    /\ UNCHANGED <<nextRequestId, contacts, blocks, threads>>

SendInsert ==
    /\ loop.op = "send_insert"
    /\ requests' = requests \cup {[id |-> nextRequestId, from |-> loop.from,
                                   to |-> loop.to, status |-> "pending"]}
    /\ nextRequestId' = nextRequestId + 1
    /\ loop' = Idle
    /\ UNCHANGED <<contacts, blocks, threads>>

(* friend_request_respond: one SELECT with its guards, then one transaction. *)

RespondRead(me, answer, r) ==
    /\ loop = Idle
    /\ r.to = me
    /\ r.status = "pending"
    /\ loop' = [op |-> answer, from |-> r.from, to |-> me, id |-> r.id]
    /\ UNCHANGED <<requests, nextRequestId, contacts, blocks, threads>>

AcceptCommit ==
    /\ loop.op = "accept"
    /\ UniqueKey(AcceptedRows(loop))
    /\ requests' = AcceptedRows(loop)
    /\ contacts' = contacts \cup Links(loop.from, loop.to)
    /\ loop' = Idle
    /\ UNCHANGED <<nextRequestId, blocks, threads>>

\* The UNIQUE constraint refuses the last UPDATE: rollback, HTTP 500.
AcceptAbort ==
    /\ loop.op = "accept"
    /\ ~UniqueKey(AcceptedRows(loop))
    /\ loop' = Idle
    /\ UNCHANGED <<requests, nextRequestId, contacts, blocks, threads>>

DeclineCommit ==
    /\ loop.op = "decline"
    /\ requests' = Close(requests, loop, "declined")
    /\ loop' = Idle
    /\ UNCHANGED <<nextRequestId, contacts, blocks, threads>>

(* friend_request_cancel, on a worker thread. *)

CancelRead(t, me, r) ==
    /\ threads[t] = Idle
    /\ r.from = me
    /\ r.status = "pending"
    /\ threads' = [threads EXCEPT ![t] = [op |-> "cancel", from |-> me,
                                          to |-> r.to, id |-> r.id]]
    /\ UNCHANGED <<requests, nextRequestId, contacts, blocks, loop>>

CancelCommit(t) ==
    /\ threads[t].op = "cancel"
    /\ requests' = Close(requests, threads[t], "cancelled")
    /\ threads' = [threads EXCEPT ![t] = Idle]
    /\ UNCHANGED <<nextRequestId, contacts, blocks, loop>>

(* Single-transaction handlers on worker threads. *)

RemoveContact(me, target) ==
    /\ me # target
    /\ contacts' = WithoutLinks(me, target)
    /\ UNCHANGED <<requests, nextRequestId, blocks, loop, threads>>

\* The same transaction also drops undelivered messages: see Messaging.
BlockUser(me, target) ==
    /\ me # target
    /\ blocks' = blocks \cup {<<me, target>>}
    /\ contacts' = WithoutLinks(me, target)
    /\ requests' = requests \ PendingBetween(requests, me, target)
    /\ UNCHANGED <<nextRequestId, loop, threads>>

UnblockUser(me, target) ==
    /\ me # target
    /\ blocks' = blocks \ {<<me, target>>}
    /\ UNCHANGED <<requests, nextRequestId, contacts, loop, threads>>

\* The process dies and is started again: transactions in flight are lost.
Restart ==
    /\ loop' = Idle
    /\ threads' = [t \in Threads |-> Idle]
    /\ UNCHANGED <<requests, nextRequestId, contacts, blocks>>

-----------------------------------------------------------------------------
SendStep == SendCheckOwnBlock \/ SendCheckContact \/ SendCheckPending \/ SendInsert
AnswerStep == AcceptCommit \/ AcceptAbort \/ DeclineCommit

\* The worker-thread handlers other than block_user, which also touches messages.
ThreadStep ==
    \/ \E t \in Threads : \/ \E r \in requests : CancelRead(t, r.from, r)
                          \/ CancelCommit(t)
    \/ \E me, target \in Users : \/ RemoveContact(me, target)
                                 \/ UnblockUser(me, target)

LoopStep ==
    \/ \E me, target \in Users : SendBegin(me, target)
    \/ SendStep
    \/ \E r \in requests, answer \in {"accept", "decline"} :
          RespondRead(r.to, answer, r)
    \/ AnswerStep

ContactNext ==
    \/ LoopStep
    \/ ThreadStep
    \/ \E me, target \in Users : BlockUser(me, target)
    \/ Restart

ContactSpec == ContactInit /\ [][ContactNext]_contactVars

-----------------------------------------------------------------------------
(* Properties *)

\* Every variable has its type, and AUTOINCREMENT ids identify rows and stay
\* below the counter.
ContactTypeOK ==
    /\ requests \subseteq FriendRequests
    /\ DistinctIds(requests)
    /\ \A r \in requests : r.id < nextRequestId
    /\ nextRequestId \in Nat
    /\ contacts \subseteq Users \X Users
    /\ blocks \subseteq Users \X Users
    /\ loop \in LoopTasks \cup {Idle}
    /\ threads \in [Threads -> ThreadTasks \cup {Idle}]

\* A contact link always exists in both directions, whatever handlers add and
\* remove links at the same time (accept, remove, block).
ContactsSymmetric ==
    \A a, b \in Users : AreFriends(a, b) => AreFriends(b, a)

\* At most one request is pending between two users, in either direction:
\* send's check and its INSERT are separate statements, and only the event loop
\* keeps another send from running between them.
OnePendingPerPair ==
    \A r, s \in requests :
        r.status = "pending" /\ s.status = "pending" /\ Between(s, r.from, r.to)
            => r = s

\* No request is pending between two contacts: accepting one request leaves no
\* other to answer, and send cannot be overtaken by an accept.
NoPendingBetweenContacts ==
    \A r \in requests : r.status = "pending" => ~AreFriends(r.from, r.to)

\* The UNIQUE constraint of friend_requests holds without being enforced: no
\* INSERT or cancel can make it fail.
UniqueRows == UniqueKey(requests)

\* An accept that has passed its guards commits: its UPDATEs do not trip the
\* UNIQUE constraint, so the accepted request becomes a contact.
AcceptNeverAborts == loop.op = "accept" => UniqueKey(AcceptedRows(loop))

\* What the documentation of blocking says (not what the code does): a user and
\* somebody the user blocks are not contacts.
BlockSeversContacts == \A a, b \in Users : IsBlocked(a, b) => ~AreFriends(a, b)

\* What the documentation of blocking says (not what the code does): no request
\* is pending between a user and somebody the user blocks.
BlockClearsRequests ==
    \A a, b \in Users : IsBlocked(a, b) => PendingBetween(requests, a, b) = {}

\* What the cancel handler's refusal says (not what the code does): only a
\* pending request is ever cancelled.
OnlyPendingIsCancelled ==
    [][\A r \in requests, s \in requests' :
          r.id = s.id /\ s.status = "cancelled" => r.status \in {"pending", "cancelled"}
      ]_contactVars

\* What the respond handler's refusal says (not what the code does): a request
\* that has been cancelled is never answered.
CancelledIsNotAnswered ==
    [][\A r \in requests, s \in requests' :
          r.id = s.id /\ r.status = "cancelled" => s.status = "cancelled"
      ]_contactVars

=============================================================================
