------------------------- MODULE ContactGraphProofs -------------------------
(***************************************************************************)
(* Safety of ContactGraph for every set of users, any number of worker     *)
(* threads and every initial request table the database constraint allows, *)
(* and what the documentation says of blocking and of cancelling, in the   *)
(* runs in which the handlers concerned do not overlap.                    *)
(***************************************************************************)
EXTENDS ContactGraph, TLAPS

\* What a send handler knows from the SELECTs it has run stays true until it
\* inserts: only the event loop adds links and pending rows.
SendKnowledge ==
    /\ loop.op \in {"send_check_pending", "send_insert"}
          => ~AreFriends(loop.from, loop.to)
    /\ loop.op = "send_insert"
          => PendingBetween(requests, loop.from, loop.to) = {}

\* A handler in flight still names the users of the row it has read.
NamesItsRow(task) ==
    task.op \in {"accept", "decline", "cancel"} =>
        /\ task.id < nextRequestId
        /\ \A r \in requests : r.id = task.id => r.from = task.from /\ r.to = task.to
TasksNameTheirRows ==
    /\ NamesItsRow(loop)
    /\ \A t \in Threads : NamesItsRow(threads[t])

ContactInv ==
    /\ ContactTypeOK
    /\ ContactsSymmetric
    /\ NoPendingBetweenContacts
    /\ UniqueRows
    /\ SendKnowledge
    /\ TasksNameTheirRows

-----------------------------------------------------------------------------
(* What the operators on rows do *)

\* Every row Close returns is a row it was given, with the new status if it is
\* the task's row and unchanged otherwise.
LEMMA CloseRows ==
    ASSUME NEW rows, rows \subseteq FriendRequests, NEW task, NEW status,
           NEW x \in Close(rows, task, status)
    PROVE  \E r \in rows :
              /\ x.id = r.id /\ x.from = r.from /\ x.to = r.to
              /\ r.id = task.id => x.status = status
              /\ r.id # task.id =>
                    /\ x = r
                    /\ ~(r.from = task.from /\ r.to = task.to /\ r.status = status)
              /\ status \in Statuses => x \in FriendRequests
  BY DEF Close, FriendRequests

\* Every row CancelOthers returns is a row it was given; the pair's pending rows
\* other than the task's come back cancelled, the others unchanged.
LEMMA CancelOthersRows ==
    ASSUME NEW rows, rows \subseteq FriendRequests, NEW task,
           NEW x \in CancelOthers(rows, task)
    PROVE  \E r \in rows :
              /\ x.id = r.id /\ x.from = r.from /\ x.to = r.to
              /\ x \in FriendRequests
              /\ IF r.status = "pending" /\ r.id # task.id
                       /\ Between(r, task.from, task.to)
                    THEN x.status = "cancelled" ELSE x = r
  BY DEF CancelOthers, FriendRequests, Statuses

-----------------------------------------------------------------------------
(* The inductive invariant *)

\* The database found at startup satisfies the invariant.
LEMMA ContactInitInv == ContactInit => ContactInv
  BY InitialRequestsAssumption, InitialContactsAssumption
  DEF ContactInit, ContactInv, ContactTypeOK, ContactsSymmetric, AreFriends,
      NoPendingBetweenContacts, UniqueRows, SendKnowledge, TasksNameTheirRows,
      NamesItsRow, Idle, LoopTasks, ThreadTasks

\* A send SELECT only moves the loop on, having learnt what SendKnowledge says.
LEMMA SendCheckInv ==
    ContactInv /\ (SendCheckOwnBlock \/ SendCheckContact \/ SendCheckPending)
        => ContactInv'
  <1> SUFFICES ASSUME ContactInv,
                      SendCheckOwnBlock \/ SendCheckContact \/ SendCheckPending
               PROVE  ContactInv'
    OBVIOUS
  <1> USE DEF ContactInv, ContactTypeOK
  <1>1. /\ UNCHANGED <<requests, nextRequestId, contacts, blocks, threads>>
        /\ loop' = Idle \/ /\ loop' \in LoopTasks
                           /\ loop'.op \in SendSteps
                           /\ loop'.from = loop.from /\ loop'.to = loop.to
    BY DEF SendCheckOwnBlock, SendCheckContact, SendCheckPending, SendCheck,
           LoopTasks, SendSteps, Idle
  <1>2. SendKnowledge'
    BY DEF SendCheckOwnBlock, SendCheckContact, SendCheckPending, SendCheck,
           SendKnowledge, LoopTasks, SendSteps, Idle, AreFriends
  <1>3. TasksNameTheirRows'
    BY <1>1 DEF TasksNameTheirRows, NamesItsRow, Idle, SendSteps
  <1>4. QED
    BY <1>1, <1>2, <1>3 DEF ContactsSymmetric, AreFriends,
       NoPendingBetweenContacts, UniqueRows, UniqueKey, DistinctIds

\* The first SELECT of a send only puts the handler on the loop.
LEMMA SendBeginInv ==
    ASSUME ContactInv, NEW me \in Users, NEW target \in Users,
           SendBegin(me, target)
    PROVE  ContactInv'
  <1> USE DEF ContactInv, ContactTypeOK, SendBegin
  <1>1. loop' \in LoopTasks /\ loop'.op = "send_check_own_block"
    BY DEF LoopTasks, SendSteps
  <1>2. SendKnowledge' /\ TasksNameTheirRows'
    BY <1>1 DEF SendKnowledge, TasksNameTheirRows, NamesItsRow
  <1>3. QED
    BY <1>1, <1>2 DEF ContactsSymmetric, AreFriends,
       NoPendingBetweenContacts, UniqueRows, UniqueKey, DistinctIds

\* The INSERT of a send adds a pending row with a new id between two users that the
\* event loop kept from becoming contacts since the handler looked.
LEMMA SendInsertInv == ContactInv /\ SendInsert => ContactInv'
  <1> SUFFICES ASSUME ContactInv, SendInsert PROVE ContactInv'
    OBVIOUS
  <1> USE DEF ContactInv, ContactTypeOK, SendInsert
  <1> DEFINE new == [id |-> nextRequestId, from |-> loop.from,
                     to |-> loop.to, status |-> "pending"]
  <1>1. loop \in LoopTasks /\ new \in FriendRequests
    BY DEF Idle, LoopTasks, FriendRequests, Statuses
  <1>2. ContactTypeOK'
    BY <1>1 DEF DistinctIds, FriendRequests, Idle
  <1>3. ContactsSymmetric'
    BY DEF ContactsSymmetric, AreFriends
  <1>4. NoPendingBetweenContacts'
    BY <1>1 DEF NoPendingBetweenContacts, SendKnowledge, AreFriends
  <1>5. UniqueRows'
    <2>1. \A r \in requests : r.status = "pending" /\ r.from = loop.from
                                 => r.to # loop.to
      BY DEF SendKnowledge, PendingBetween, Between
    <2>2. QED
      BY <1>1, <2>1 DEF UniqueRows, UniqueKey
  <1>6. SendKnowledge' /\ TasksNameTheirRows'
    BY <1>1 DEF SendKnowledge, TasksNameTheirRows, NamesItsRow, Idle,
       ThreadTasks, FriendRequests
  <1>7. QED
    BY <1>2, <1>3, <1>4, <1>5, <1>6

\* Rewriting the rows of one handler's request keeps the type, the ids and the
\* users of every row, and makes no row pending.
LEMMA CloseKeeps ==
    ASSUME ContactInv, NEW task, NEW status \in Statuses \ {"pending"},
           requests' = Close(requests, task, status),
           UNCHANGED nextRequestId
    PROVE  /\ requests' \subseteq FriendRequests
           /\ DistinctIds(requests')
           /\ \A x \in requests' : \E r \in requests :
                /\ x.id = r.id /\ x.from = r.from /\ x.to = r.to
                /\ x.status = "pending" => x = r
           /\ \A x \in requests' : x.id < nextRequestId
  <1> USE DEF ContactInv, ContactTypeOK
  <1>1. \A x \in requests' : x \in FriendRequests
    BY CloseRows
  <1>2. \A x \in requests' : \E r \in requests :
                /\ x.id = r.id /\ x.from = r.from /\ x.to = r.to
                /\ r.id = task.id => x.status = status
                /\ r.id # task.id => x = r
    BY CloseRows
  <1>3. DistinctIds(requests')
    <2> SUFFICES ASSUME NEW x \in requests', NEW y \in requests', x.id = y.id
                 PROVE  x = y
      BY DEF DistinctIds
    <2>1. x.id = y.id /\ x.from = y.from /\ x.to = y.to /\ x.status = y.status
      BY <1>2 DEF DistinctIds
    <2>2. QED
      BY <1>1, <2>1 DEF FriendRequests
  <1>4. QED
    BY <1>1, <1>2, <1>3

\* Closing a request never breaks the UNIQUE constraint, because the rows it
\* could clash with are deleted first.
LEMMA CloseUnique ==
    ASSUME ContactInv, NEW task, NEW status \in Statuses,
           \A r \in requests : r.id = task.id => r.from = task.from /\ r.to = task.to
    PROVE  UniqueKey(Close(requests, task, status))
  <1> USE DEF ContactInv, ContactTypeOK
  <1> SUFFICES ASSUME NEW x \in Close(requests, task, status),
                      NEW y \in Close(requests, task, status),
                      x.from = y.from, x.to = y.to, x.status = y.status
               PROVE  x = y
    BY DEF UniqueKey
  <1>1. PICK r \in requests :
              /\ x.id = r.id /\ x.from = r.from /\ x.to = r.to
              /\ r.id = task.id => x.status = status
              /\ r.id # task.id =>
                    /\ x = r
                    /\ ~(r.from = task.from /\ r.to = task.to /\ r.status = status)
              /\ x \in FriendRequests
    BY CloseRows
  <1>2. PICK s \in requests :
              /\ y.id = s.id /\ y.from = s.from /\ y.to = s.to
              /\ s.id = task.id => y.status = status
              /\ s.id # task.id =>
                    /\ y = s
                    /\ ~(s.from = task.from /\ s.to = task.to /\ s.status = status)
              /\ y \in FriendRequests
    BY CloseRows
  <1>3. CASE r.id = task.id /\ s.id = task.id
    BY <1>1, <1>2, <1>3 DEF FriendRequests
  <1>4. CASE r.id # task.id /\ s.id # task.id
    BY <1>1, <1>2, <1>4 DEF UniqueRows, UniqueKey
  <1>5. CASE r.id = task.id /\ s.id # task.id
    BY <1>1, <1>2, <1>5
  <1>6. CASE r.id # task.id /\ s.id = task.id
    BY <1>1, <1>2, <1>6
  <1>7. QED
    BY <1>3, <1>4, <1>5, <1>6

\* respond's SELECT puts on the loop a task about a row that was pending then.
LEMMA RespondReadInv ==
    ASSUME ContactInv, NEW r \in requests, NEW answer \in {"accept", "decline"},
           RespondRead(r.to, answer, r)
    PROVE  ContactInv'
  <1> USE DEF ContactInv, ContactTypeOK, RespondRead
  <1>1. loop' \in LoopTasks /\ loop'.op \in {"accept", "decline"}
    BY DEF LoopTasks, FriendRequests
  <1>2. SendKnowledge' /\ TasksNameTheirRows'
    BY <1>1 DEF SendKnowledge, TasksNameTheirRows, NamesItsRow, DistinctIds
  <1>3. QED
    BY <1>1, <1>2 DEF ContactsSymmetric, AreFriends,
       NoPendingBetweenContacts, UniqueRows, UniqueKey, DistinctIds

\* A decline closes one row and leaves the contacts alone.
LEMMA DeclineCommitInv == ContactInv /\ DeclineCommit => ContactInv'
  <1> SUFFICES ASSUME ContactInv, DeclineCommit PROVE ContactInv'
    OBVIOUS
  <1> USE DEF ContactInv, ContactTypeOK, DeclineCommit
  <1>1. /\ requests' \subseteq FriendRequests
        /\ DistinctIds(requests')
        /\ \A x \in requests' : \E r \in requests :
             /\ x.id = r.id /\ x.from = r.from /\ x.to = r.to
             /\ x.status = "pending" => x = r
        /\ \A x \in requests' : x.id < nextRequestId
    BY CloseKeeps DEF Statuses
  <1>2. ContactTypeOK' /\ ContactsSymmetric'
    BY <1>1 DEF ContactsSymmetric, AreFriends
  <1>3. UniqueRows'
    BY CloseUnique DEF UniqueRows, TasksNameTheirRows, NamesItsRow, Statuses
  <1>4. NoPendingBetweenContacts'
    BY <1>1 DEF NoPendingBetweenContacts, AreFriends
  <1>5. SendKnowledge' /\ TasksNameTheirRows'
    BY <1>1 DEF SendKnowledge, TasksNameTheirRows, NamesItsRow, Idle
  <1>6. QED
    BY <1>2, <1>3, <1>4, <1>5

\* An accept turns the pair into contacts and leaves none of its requests pending.
LEMMA AcceptCommitInv == ContactInv /\ AcceptCommit => ContactInv'
  <1> SUFFICES ASSUME ContactInv, AcceptCommit PROVE ContactInv'
    OBVIOUS
  <1> USE DEF ContactInv, ContactTypeOK, AcceptCommit
  <1> DEFINE closed == Close(requests, loop, "accepted")
  <1>1. loop \in LoopTasks
    BY DEF Idle
  <1>2. /\ closed \subseteq FriendRequests
        /\ \A y \in closed : \E r \in requests :
             /\ y.id = r.id /\ y.from = r.from /\ y.to = r.to
             /\ r.id = loop.id => y.status = "accepted"
             /\ r.id # loop.id => y = r
    BY CloseRows DEF Statuses
  <1>3. /\ requests' \subseteq FriendRequests
        /\ \A x \in requests' : \E y \in closed :
             /\ x.id = y.id /\ x.from = y.from /\ x.to = y.to
             /\ IF y.status = "pending" /\ y.id # loop.id
                      /\ Between(y, loop.from, loop.to)
                   THEN x.status = "cancelled" ELSE x = y
    <2>1. requests' = CancelOthers(closed, loop)
      BY DEF AcceptedRows
    <2> HIDE DEF closed
    <2>2. QED
      BY <1>2, <2>1, CancelOthersRows
  <1> HIDE DEF closed
  <1>4. \A x \in requests' : \E r \in requests :
             /\ x.id = r.id /\ x.from = r.from /\ x.to = r.to
             /\ x.status = "pending" =>
                  x = r /\ ~Between(r, loop.from, loop.to)
    <2> SUFFICES ASSUME NEW x \in requests'
                 PROVE  \E r \in requests :
                           /\ x.id = r.id /\ x.from = r.from /\ x.to = r.to
                           /\ x.status = "pending" =>
                                x = r /\ ~Between(r, loop.from, loop.to)
      OBVIOUS
    <2>1. PICK y \in closed :
             /\ x.id = y.id /\ x.from = y.from /\ x.to = y.to
             /\ IF y.status = "pending" /\ y.id # loop.id
                      /\ Between(y, loop.from, loop.to)
                   THEN x.status = "cancelled" ELSE x = y
      BY <1>3
    <2>2. PICK r \in requests :
             /\ y.id = r.id /\ y.from = r.from /\ y.to = r.to
             /\ r.id = loop.id => y.status = "accepted"
             /\ r.id # loop.id => y = r
      BY <1>2
    <2>3. QED
      BY <2>1, <2>2
  <1>5. DistinctIds(requests')
    <2> SUFFICES ASSUME NEW x \in requests', NEW z \in requests', x.id = z.id
                 PROVE  x = z
      BY DEF DistinctIds
    <2>1. \A y1, y2 \in closed : y1.id = y2.id => y1 = y2
      <3> SUFFICES ASSUME NEW y1 \in closed, NEW y2 \in closed, y1.id = y2.id
                   PROVE  y1 = y2
        OBVIOUS
      <3>1. /\ y1.from = y2.from /\ y1.to = y2.to /\ y1.status = y2.status
        BY <1>2 DEF DistinctIds
      <3>2. QED
        BY <1>2, <3>1 DEF FriendRequests
    <2>2. x.from = z.from /\ x.to = z.to /\ x.status = z.status
      BY <1>3, <2>1
    <2>3. QED
      BY <1>3, <2>2 DEF FriendRequests
  <1>6. ContactTypeOK'
    <2>1. \A x \in requests' : x.id < nextRequestId
      BY <1>4
    <2>2. contacts' \subseteq Users \X Users
      BY <1>1 DEF Links, LoopTasks
    <2>3. QED
      BY <1>3, <1>5, <2>1, <2>2
  <1>7. ContactsSymmetric'
    BY DEF ContactsSymmetric, AreFriends, Links
  <1>8. NoPendingBetweenContacts'
    BY <1>4 DEF NoPendingBetweenContacts, AreFriends, Links, Between
  <1>9. UniqueRows'
    BY DEF UniqueRows
  <1>10. SendKnowledge' /\ TasksNameTheirRows'
    BY <1>4 DEF SendKnowledge, TasksNameTheirRows, NamesItsRow, Idle
  <1>11. QED
    BY <1>6, <1>7, <1>8, <1>9, <1>10

\* A rolled-back accept leaves the tables as they were.
LEMMA AcceptAbortInv == ContactInv /\ AcceptAbort => ContactInv'
  BY DEF AcceptAbort, ContactInv, ContactTypeOK, ContactsSymmetric, AreFriends,
     NoPendingBetweenContacts, UniqueRows, UniqueKey, DistinctIds,
     SendKnowledge, TasksNameTheirRows, NamesItsRow, Idle

\* cancel's SELECT gives a thread a task about a row that was pending then.
LEMMA CancelReadInv ==
    ASSUME ContactInv, NEW t \in Threads, NEW r \in requests,
           CancelRead(t, r.from, r)
    PROVE  ContactInv'
  <1> USE DEF ContactInv, ContactTypeOK, CancelRead
  <1>1. threads' \in [Threads -> ThreadTasks \cup {Idle}]
    BY DEF ThreadTasks, FriendRequests
  <1>2. TasksNameTheirRows'
    <2>1. NamesItsRow(loop)'
      BY DEF TasksNameTheirRows, NamesItsRow
    <2>2. ASSUME NEW u \in Threads PROVE NamesItsRow(threads[u])'
      <3>1. CASE u = t
        BY <3>1 DEF NamesItsRow, DistinctIds
      <3>2. CASE u # t
        BY <3>2 DEF TasksNameTheirRows, NamesItsRow
      <3>3. QED
        BY <3>1, <3>2
    <2>3. QED
      BY <2>1, <2>2 DEF TasksNameTheirRows
  <1>3. QED
    BY <1>1, <1>2 DEF ContactsSymmetric, AreFriends, SendKnowledge,
       NoPendingBetweenContacts, UniqueRows, UniqueKey, DistinctIds

\* The facts every step that only removes rows and links, or closes one request,
\* has in common.
LEMMA ShrinkKeeps ==
    ASSUME ContactInv, UNCHANGED <<nextRequestId, loop>>,
           \A x \in requests' : \E r \in requests :
             /\ x.id = r.id /\ x.from = r.from /\ x.to = r.to
             /\ x.status = "pending" => x = r,
           contacts' \subseteq contacts
    PROVE  /\ NoPendingBetweenContacts'
           /\ SendKnowledge'
           /\ NamesItsRow(loop)'
           /\ \A t \in Threads : threads'[t] \in {threads[t], Idle}
                => NamesItsRow(threads[t])'
  <1> USE DEF ContactInv, ContactTypeOK
  <1>1. NoPendingBetweenContacts'
    BY DEF NoPendingBetweenContacts, AreFriends
  <1>2. SendKnowledge'
    BY DEF SendKnowledge, PendingBetween, Between, AreFriends
  <1>3. NamesItsRow(loop)'
    BY DEF TasksNameTheirRows, NamesItsRow
  <1>4. \A t \in Threads : threads'[t] \in {threads[t], Idle}
           => NamesItsRow(threads[t])'
    BY DEF TasksNameTheirRows, NamesItsRow, Idle
  <1>5. QED
    BY <1>1, <1>2, <1>3, <1>4

\* A cancel closes its row, whatever has become of it since the SELECT.
LEMMA CancelCommitInv ==
    ASSUME ContactInv, NEW t \in Threads, CancelCommit(t)
    PROVE  ContactInv'
  <1> USE DEF ContactInv, ContactTypeOK, CancelCommit
  <1>1. /\ requests' \subseteq FriendRequests
        /\ DistinctIds(requests')
        /\ \A x \in requests' : \E r \in requests :
             /\ x.id = r.id /\ x.from = r.from /\ x.to = r.to
             /\ x.status = "pending" => x = r
        /\ \A x \in requests' : x.id < nextRequestId
    BY CloseKeeps DEF Statuses
  <1>2. threads' \in [Threads -> ThreadTasks \cup {Idle}]
    OBVIOUS
  <1>3. UniqueRows'
    BY CloseUnique DEF UniqueRows, TasksNameTheirRows, NamesItsRow, Statuses
  <1>4. NoPendingBetweenContacts' /\ SendKnowledge' /\ TasksNameTheirRows'
    BY <1>1, ShrinkKeeps DEF TasksNameTheirRows
  <1>5. QED
    BY <1>1, <1>2, <1>3, <1>4 DEF ContactsSymmetric, AreFriends

\* Removing a contact deletes both of its links.
LEMMA RemoveContactInv ==
    ASSUME ContactInv, NEW me \in Users, NEW target \in Users,
           RemoveContact(me, target)
    PROVE  ContactInv'
  <1> USE DEF ContactInv, ContactTypeOK, RemoveContact
  <1>1. NoPendingBetweenContacts' /\ SendKnowledge' /\ TasksNameTheirRows'
    BY ShrinkKeeps DEF TasksNameTheirRows, WithoutLinks
  <1>2. QED
    BY <1>1 DEF ContactsSymmetric, AreFriends, WithoutLinks, Links,
       UniqueRows, UniqueKey, DistinctIds

\* A block takes away links and pending requests and adds neither.
LEMMA BlockUserInv ==
    ASSUME ContactInv, NEW me \in Users, NEW target \in Users,
           BlockUser(me, target)
    PROVE  ContactInv'
  <1> USE DEF ContactInv, ContactTypeOK, BlockUser
  <1>1. NoPendingBetweenContacts' /\ SendKnowledge' /\ TasksNameTheirRows'
    BY ShrinkKeeps DEF TasksNameTheirRows, WithoutLinks
  <1>2. QED
    BY <1>1 DEF ContactsSymmetric, AreFriends, WithoutLinks, Links,
       UniqueRows, UniqueKey, DistinctIds

\* Unblocking touches the blocks only.
LEMMA UnblockUserInv ==
    ASSUME ContactInv, NEW me \in Users, NEW target \in Users,
           UnblockUser(me, target)
    PROVE  ContactInv'
  BY DEF UnblockUser, ContactInv, ContactTypeOK, ContactsSymmetric, AreFriends,
     NoPendingBetweenContacts, UniqueRows, UniqueKey, DistinctIds,
     SendKnowledge, TasksNameTheirRows, NamesItsRow

\* A restart drops the handlers in flight and keeps the tables.
LEMMA RestartInv == ContactInv /\ Restart => ContactInv'
  BY DEF Restart, ContactInv, ContactTypeOK, ContactsSymmetric, AreFriends,
     NoPendingBetweenContacts, UniqueRows, UniqueKey, DistinctIds,
     SendKnowledge, TasksNameTheirRows, NamesItsRow, Idle

\* Every step of the contact handlers preserves the invariant.
LEMMA ContactNextInv == ContactInv /\ [ContactNext]_contactVars => ContactInv'
  <1> SUFFICES ASSUME ContactInv, [ContactNext]_contactVars PROVE ContactInv'
    OBVIOUS
  <1>1. CASE LoopStep
    BY <1>1, SendBeginInv, SendCheckInv, SendInsertInv, RespondReadInv,
       AcceptCommitInv, AcceptAbortInv, DeclineCommitInv
    DEF LoopStep, SendStep, AnswerStep
  <1>2. CASE ThreadStep
    BY <1>2, CancelReadInv, CancelCommitInv, RemoveContactInv, UnblockUserInv
    DEF ThreadStep
  <1>3. CASE \E me, target \in Users : BlockUser(me, target)
    BY <1>3, BlockUserInv
  <1>4. CASE Restart
    BY <1>4, RestartInv
  <1>5. CASE UNCHANGED contactVars
    BY <1>5 DEF contactVars, ContactInv, ContactTypeOK, ContactsSymmetric,
       AreFriends, NoPendingBetweenContacts, UniqueRows, UniqueKey, DistinctIds,
       SendKnowledge, TasksNameTheirRows, NamesItsRow
  <1>6. QED
    BY <1>1, <1>2, <1>3, <1>4, <1>5 DEF ContactNext

\* ContactInv is an invariant, whatever the database holds at startup.
THEOREM ContactInvariance == ContactSpec => []ContactInv
  BY ContactInitInv, ContactNextInv, PTL DEF ContactSpec

\* Every reachable state is well typed and ids identify friend requests.
THEOREM ContactTypeCorrect == ContactSpec => []ContactTypeOK
  BY ContactInvariance, PTL DEF ContactInv

\* remove_contact_links, the two INSERTs of an accept and the block transaction
\* always leave contact links in both directions or in none.
THEOREM ContactSymmetry == ContactSpec => []ContactsSymmetric
  BY ContactInvariance, PTL DEF ContactInv

\* Contacts have no friend request left to answer.
THEOREM NoRequestBetweenContacts == ContactSpec => []NoPendingBetweenContacts
  BY ContactInvariance, PTL DEF ContactInv

\* No INSERT or cancel of a friend request ever meets the UNIQUE constraint.
THEOREM RequestRowsUnique == ContactSpec => []UniqueRows
  BY ContactInvariance, PTL DEF ContactInv

-----------------------------------------------------------------------------
(* Databases that hold no reciprocal requests at startup *)

NoReciprocalRequests ==
    \A r, s \in InitialRequests :
        r.status = "pending" /\ s.status = "pending" /\ Between(s, r.from, r.to)
            => r = s

\* While an accept is in flight, its request is the only one of the pair that
\* can be pending: nothing but the event loop inserts requests.
AcceptIsSole ==
    loop.op = "accept" =>
        \A r \in requests : r.status = "pending" /\ Between(r, loop.from, loop.to)
                               => r.id = loop.id

PendingInv == OnePendingPerPair /\ AcceptIsSole

\* Steps that make no row pending keep PendingInv if the loop's accept, if any,
\* was already in flight.
LEMMA PendingShrinks ==
    ASSUME PendingInv,
           \A x \in requests' : x.status = "pending" => x \in requests,
           loop'.op = "accept" => loop' = loop
    PROVE  PendingInv'
  BY DEF PendingInv, OnePendingPerPair, AcceptIsSole, Between

\* Answering or cancelling a request makes no row pending.
LEMMA CommitMakesNonePending ==
    ASSUME ContactInv,
           \/ DeclineCommit \/ AcceptCommit
           \/ \E t \in Threads : CancelCommit(t)
    PROVE  \A x \in requests' : x.status = "pending" => x \in requests
  <1> USE DEF ContactInv, ContactTypeOK
  <1>1. ASSUME NEW rows, NEW task, NEW status \in Statuses \ {"pending"},
               rows \subseteq FriendRequests, NEW x \in Close(rows, task, status),
               x.status = "pending"
        PROVE  x \in rows
    BY <1>1, CloseRows
  <1>2. CASE AcceptCommit
    <2> DEFINE closed == Close(requests, loop, "accepted")
    <2>1. \A x \in closed : x \in FriendRequests
      BY CloseRows DEF Statuses
    <2>2. \A x \in closed : x.status = "pending" => x \in requests
      BY <1>1 DEF Statuses
    <2>3. requests' = CancelOthers(closed, loop)
      BY <1>2 DEF AcceptCommit, AcceptedRows
    <2> HIDE DEF closed
    <2>4. \A x \in requests' : x.status = "pending" => x \in closed
      BY <2>1, <2>3, CancelOthersRows
    <2>5. QED
      BY <2>2, <2>4
  <1>3. QED
    BY <1>1, <1>2 DEF DeclineCommit, CancelCommit, Statuses

\* Every step keeps at most one pending request per pair, also when cancels run
\* between the check and the INSERT of a send.
LEMMA PendingNextInv ==
    ContactInv /\ PendingInv /\ [ContactNext]_contactVars => PendingInv'
  <1> SUFFICES ASSUME ContactInv, PendingInv, [ContactNext]_contactVars
               PROVE  PendingInv'
    OBVIOUS
  <1> USE DEF ContactInv, ContactTypeOK
  <1>1. ASSUME NEW me \in Users, NEW target \in Users, SendBegin(me, target)
        PROVE  PendingInv'
    BY <1>1, PendingShrinks DEF SendBegin
  <1>2. CASE SendCheckOwnBlock \/ SendCheckContact \/ SendCheckPending
    BY <1>2, PendingShrinks DEF SendCheckOwnBlock, SendCheckContact,
       SendCheckPending, SendCheck, LoopTasks, Idle
  <1>3. CASE SendInsert
    BY <1>3 DEF SendInsert, SendKnowledge, PendingInv, OnePendingPerPair,
       AcceptIsSole, PendingBetween, Between, Idle
  <1>4. ASSUME NEW r \in requests, NEW answer \in {"accept", "decline"},
               RespondRead(r.to, answer, r)
        PROVE  PendingInv'
    BY <1>4 DEF RespondRead, PendingInv, OnePendingPerPair, AcceptIsSole, Between
  <1>5. CASE AcceptCommit \/ DeclineCommit
    BY <1>5, CommitMakesNonePending, PendingShrinks
    DEF AcceptCommit, DeclineCommit, Idle
  <1>6. CASE AcceptAbort
    BY <1>6, PendingShrinks DEF AcceptAbort, Idle
  <1>7. CASE ThreadStep
    <2>1. ASSUME NEW t \in Threads, CancelCommit(t) PROVE PendingInv'
      BY <2>1, CommitMakesNonePending, PendingShrinks DEF CancelCommit
    <2>2. ASSUME NEW t \in Threads, NEW r \in requests, CancelRead(t, r.from, r)
          PROVE  PendingInv'
      BY <2>2, PendingShrinks DEF CancelRead
    <2>3. ASSUME NEW me \in Users, NEW target \in Users,
                 RemoveContact(me, target) \/ UnblockUser(me, target)
          PROVE  PendingInv'
      BY <2>3, PendingShrinks DEF RemoveContact, UnblockUser
    <2>4. QED
      BY <1>7, <2>1, <2>2, <2>3 DEF ThreadStep
  <1>8. ASSUME NEW me \in Users, NEW target \in Users, BlockUser(me, target)
        PROVE  PendingInv'
    BY <1>8, PendingShrinks DEF BlockUser
  <1>9. CASE Restart
    BY <1>9, PendingShrinks DEF Restart, Idle
  <1>10. CASE UNCHANGED contactVars
    BY <1>10, PendingShrinks DEF contactVars
  <1>11. QED
    BY <1>1, <1>2, <1>3, <1>4, <1>5, <1>6, <1>7, <1>8, <1>9, <1>10
    DEF ContactNext, LoopStep, SendStep, AnswerStep

\* PendingInv is an invariant of a database that starts without reciprocal
\* requests.
THEOREM PendingInvariance ==
    NoReciprocalRequests /\ ContactSpec => []PendingInv
  <1>1. NoReciprocalRequests /\ ContactInit => PendingInv
    BY DEF NoReciprocalRequests, ContactInit, PendingInv, OnePendingPerPair,
       AcceptIsSole, Idle
  <1>2. QED
    BY <1>1, ContactInvariance, PendingNextInv, PTL DEF ContactSpec

\* friend_request_send never leaves two requests pending between two users: its
\* check and its INSERT are atomic for every other send on the event loop.
THEOREM OnePending ==
    NoReciprocalRequests /\ ContactSpec => []OnePendingPerPair
  BY PendingInvariance, PTL DEF PendingInv

\* friend_request_respond never fails with a constraint error, unless the
\* database already held reciprocal requests.
THEOREM AcceptCommits ==
    NoReciprocalRequests /\ ContactSpec => []AcceptNeverAborts
  <1>1. ASSUME ContactInv, PendingInv, loop.op = "accept"
        PROVE  UniqueKey(AcceptedRows(loop))
    <2> USE DEF ContactInv, ContactTypeOK
    <2> DEFINE closed == Close(requests, loop, "accepted")
    <2>1. UniqueKey(closed)
      BY <1>1, CloseUnique DEF TasksNameTheirRows, NamesItsRow, Statuses
    <2>2. ASSUME NEW x \in closed
          PROVE  ~(x.status = "pending" /\ x.id # loop.id
                     /\ Between(x, loop.from, loop.to))
      BY <1>1, <2>2, CloseRows DEF PendingInv, AcceptIsSole, Statuses
    <2> HIDE DEF closed
    <2>3. CancelOthers(closed, loop) = closed
      BY <2>2 DEF CancelOthers
    <2>4. QED
      BY <2>1, <2>3 DEF AcceptedRows, closed
  <1>2. ContactInv /\ PendingInv => AcceptNeverAborts
    BY <1>1 DEF AcceptNeverAborts
  <1>3. QED
    BY <1>2, ContactInvariance, PendingInvariance, PTL

-----------------------------------------------------------------------------
(* Blocks that overlap no send or answer of their pair *)

\* A send or an answer between the two users is in flight.
Handles(a, b) == loop # Idle /\ {loop.from, loop.to} = {a, b}

BlockAlone == \A me, target \in Users : BlockUser(me, target) => ~Handles(me, target)

\* Nothing is left between two users of whom one blocks the other, and no handler in flight
\* will add anything.
BlockInv ==
    /\ BlockSeversContacts
    /\ BlockClearsRequests
    /\ loop # Idle =>
          /\ ~IsBlocked(loop.to, loop.from)
          /\ loop.op # "send_check_own_block" => ~IsBlocked(loop.from, loop.to)

\* Steps that add no block, no link and no pending row.
LEMMA BlockShrinks ==
    ASSUME BlockInv, blocks' \subseteq blocks, contacts' \subseteq contacts,
           \A x \in requests' : x.status = "pending" => x \in requests,
           loop' \in {loop, Idle}
    PROVE  BlockInv'
  BY DEF BlockInv, BlockSeversContacts, BlockClearsRequests, IsBlocked, AreFriends,
     PendingBetween

\* A send looks at both directions before it inserts.
LEMMA SendBlockInv ==
    ASSUME ContactInv, BlockInv,
           \/ \E me, target \in Users : SendBegin(me, target)
           \/ SendStep
    PROVE  BlockInv'
  <1> USE DEF ContactInv, ContactTypeOK, IsBlocked
  <1>1. CASE \E me, target \in Users : SendBegin(me, target)
    BY <1>1 DEF SendBegin, BlockInv, BlockSeversContacts, BlockClearsRequests, AreFriends,
       PendingBetween, Idle
  <1>2. CASE SendCheckOwnBlock \/ SendCheckContact \/ SendCheckPending
    <2>1. UNCHANGED <<requests, contacts, blocks>> /\ loop # Idle
      BY <1>2 DEF SendCheckOwnBlock, SendCheckContact, SendCheckPending, SendCheck, Idle
    <2>2. loop' = Idle \/ /\ loop'.from = loop.from /\ loop'.to = loop.to
                          /\ ~IsBlocked(loop.from, loop.to)
      BY <1>2, <2>1 DEF SendCheckOwnBlock, SendCheckContact, SendCheckPending, SendCheck,
         LoopTasks, BlockInv
    <2>3. QED
      BY <2>1, <2>2 DEF BlockInv, BlockSeversContacts, BlockClearsRequests, AreFriends,
         PendingBetween
  <1>3. CASE SendInsert
    <2>1. /\ loop # Idle /\ loop' = Idle /\ UNCHANGED <<contacts, blocks>>
          /\ ~IsBlocked(loop.to, loop.from) /\ ~IsBlocked(loop.from, loop.to)
      BY <1>3 DEF SendInsert, BlockInv, Idle
    <2>2. BlockClearsRequests'
      BY <1>3, <2>1 DEF SendInsert, BlockInv, BlockClearsRequests, PendingBetween, Between
    <2>3. QED
      BY <2>1, <2>2 DEF BlockInv, BlockSeversContacts, AreFriends
  <1>4. QED
    BY <1>1, <1>2, <1>3 DEF SendStep

\* An answer finds a pending request, so nobody blocks between its users, and none does
\* until its links are there.
LEMMA AnswerBlockInv ==
    ASSUME ContactInv, BlockInv,
           \/ \E r \in requests, answer \in {"accept", "decline"} : RespondRead(r.to, answer, r)
           \/ AnswerStep
    PROVE  BlockInv'
  <1> USE DEF ContactInv, ContactTypeOK, IsBlocked
  <1>1. ASSUME NEW r \in requests, NEW answer \in {"accept", "decline"},
               RespondRead(r.to, answer, r)
        PROVE  BlockInv'
    <2>1. r.from \in Users /\ r.to \in Users
      BY DEF FriendRequests
    <2>2. ~IsBlocked(r.from, r.to) /\ ~IsBlocked(r.to, r.from)
      BY <1>1, <2>1 DEF RespondRead, BlockInv, BlockClearsRequests, PendingBetween, Between
    <2>3. QED
      BY <1>1, <2>2 DEF RespondRead, BlockInv, BlockSeversContacts, BlockClearsRequests,
         AreFriends, PendingBetween
  <1>2. CASE AcceptCommit
    <2>1. /\ loop # Idle /\ loop' = Idle /\ blocks' = blocks
          /\ contacts' = contacts \cup Links(loop.from, loop.to)
          /\ ~IsBlocked(loop.to, loop.from) /\ ~IsBlocked(loop.from, loop.to)
      BY <1>2 DEF AcceptCommit, BlockInv, Idle
    <2>2. BlockSeversContacts'
      BY <2>1 DEF BlockInv, BlockSeversContacts, AreFriends, Links
    <2>3. BlockClearsRequests'
      BY <1>2, <2>1, CommitMakesNonePending DEF BlockInv, BlockClearsRequests, PendingBetween
    <2>4. QED
      BY <2>1, <2>2, <2>3 DEF BlockInv
  <1>3. CASE DeclineCommit
    BY <1>3, CommitMakesNonePending, BlockShrinks DEF DeclineCommit
  <1>4. CASE AcceptAbort
    BY <1>4, BlockShrinks DEF AcceptAbort
  <1>5. QED
    BY <1>1, <1>2, <1>3, <1>4 DEF AnswerStep

\* A block clears its pair, and overlaps no handler of it.
LEMMA BlockUserBlockInv ==
    ASSUME ContactInv, BlockInv, NEW me \in Users, NEW target \in Users,
           BlockUser(me, target), ~Handles(me, target)
    PROVE  BlockInv'
  <1>1. /\ blocks' = blocks \cup {<<me, target>>} /\ loop' = loop
        /\ contacts' = contacts \ Links(me, target)
        /\ requests' = requests \ PendingBetween(requests, me, target)
    BY DEF BlockUser, WithoutLinks
  <1>2. BlockSeversContacts'
    BY <1>1 DEF BlockInv, BlockSeversContacts, IsBlocked, AreFriends, Links
  <1>3. BlockClearsRequests'
    BY <1>1 DEF BlockInv, BlockClearsRequests, IsBlocked, PendingBetween, Between
  <1>4. loop # Idle => <<loop.to, loop.from>> # <<me, target>> /\ <<loop.from, loop.to>> # <<me, target>>
    BY DEF Handles
  <1>5. QED
    BY <1>1, <1>2, <1>3, <1>4 DEF BlockInv, IsBlocked

LEMMA BlockNextInv ==
    ContactInv /\ BlockInv /\ [ContactNext]_contactVars /\ [BlockAlone]_contactVars => BlockInv'
  <1> SUFFICES ASSUME ContactInv, BlockInv, [ContactNext]_contactVars, [BlockAlone]_contactVars
               PROVE  BlockInv'
    OBVIOUS
  <1>1. CASE UNCHANGED contactVars
    BY <1>1, BlockShrinks DEF contactVars
  <1>2. CASE LoopStep
    BY <1>2, SendBlockInv, AnswerBlockInv DEF LoopStep
  <1>3. CASE ThreadStep
    <2>1. ASSUME NEW t \in Threads, CancelCommit(t) PROVE BlockInv'
      BY <2>1, CommitMakesNonePending, BlockShrinks DEF CancelCommit
    <2>2. ASSUME NEW t \in Threads, NEW r \in requests, CancelRead(t, r.from, r)
          PROVE  BlockInv'
      BY <2>2, BlockShrinks DEF CancelRead
    <2>3. ASSUME NEW me \in Users, NEW target \in Users,
                 RemoveContact(me, target) \/ UnblockUser(me, target)
          PROVE  BlockInv'
      BY <2>3, BlockShrinks DEF RemoveContact, WithoutLinks, UnblockUser
    <2>4. QED
      BY <1>3, <2>1, <2>2, <2>3 DEF ThreadStep
  <1>4. ASSUME NEW me \in Users, NEW target \in Users, BlockUser(me, target) PROVE BlockInv'
    BY <1>1, <1>4, BlockUserBlockInv DEF BlockAlone
  <1>5. CASE Restart
    BY <1>5, BlockShrinks DEF Restart
  <1>6. QED
    BY <1>1, <1>2, <1>3, <1>4, <1>5 DEF ContactNext

\* What the documentation says of blocking holds as long as no block runs while a send or an
\* answer between the same two users is in flight (friend_request_send,
\* friend_request_respond, block_user): blocked users are not contacts and have no request.
THEOREM BlockingHoldsWhenAlone ==
    ContactSpec /\ [][BlockAlone]_contactVars => [](BlockSeversContacts /\ BlockClearsRequests)
  <1>1. ContactInit => BlockInv
    BY DEF ContactInit, BlockInv, BlockSeversContacts, BlockClearsRequests, IsBlocked
  <1>2. BlockInv => BlockSeversContacts /\ BlockClearsRequests
    BY DEF BlockInv
  <1>3. QED
    BY <1>1, <1>2, BlockNextInv, ContactInvariance, PTL DEF ContactSpec

-----------------------------------------------------------------------------
(* Answers that overlap no cancel of their request *)

AnswersApart ==
    \A t \in Threads :
        loop.op \in {"accept", "decline"} /\ threads[t] # Idle => loop.id # threads[t].id

\* A request in an answer is still pending, and one in a cancel has not been answered.
StillOpen ==
    /\ loop.op \in {"accept", "decline"} =>
          \A r \in requests : r.id = loop.id => r.status = "pending"
    /\ \A t \in Threads : threads[t] # Idle =>
          \A r \in requests : r.id = threads[t].id => r.status \in {"pending", "cancelled"}

\* Only a pending row gets another status.
RowsKeepStatus ==
    \A r \in requests, s \in requests' :
        r.id = s.id => s = r \/ r.status = "pending"
                       \/ (r.status = "cancelled" /\ s.status = "cancelled")

\* The row that Close gives its status is the one of the task.
LEMMA CloseFate ==
    ASSUME ContactTypeOK, NEW task, NEW status \in Statuses,
           NEW r \in requests, NEW s \in Close(requests, task, status), r.id = s.id
    PROVE  /\ r.id = task.id => s.status = status
           /\ r.id # task.id => s = r
           /\ s \in FriendRequests
  <1>1. PICK q \in requests : /\ s.id = q.id
                              /\ q.id = task.id => s.status = status
                              /\ q.id # task.id => s = q
                              /\ s \in FriendRequests
    BY CloseRows DEF ContactTypeOK
  <1>2. q = r
    BY <1>1 DEF ContactTypeOK, DistinctIds
  <1>3. QED
    BY <1>1, <1>2

\* An accept also cancels the other pending rows of its pair.
LEMMA AcceptFate ==
    ASSUME ContactTypeOK, NEW task, NEW r \in requests, NEW s \in AcceptedRows(task), r.id = s.id
    PROVE  \/ r.id = task.id
           \/ r.id # task.id /\ s = r
           \/ r.id # task.id /\ r.status = "pending" /\ s.status = "cancelled"
  <1> DEFINE closed == Close(requests, task, "accepted")
  <1>1. closed \subseteq FriendRequests
    BY CloseRows DEF ContactTypeOK, Statuses
  <1>2. s \in CancelOthers(closed, task)
    BY DEF AcceptedRows
  <1> HIDE DEF closed
  <1>3. PICK q \in closed : /\ s.id = q.id
                            /\ IF q.status = "pending" /\ q.id # task.id
                                    /\ Between(q, task.from, task.to)
                                 THEN s.status = "cancelled" ELSE s = q
    BY <1>1, <1>2, CancelOthersRows
  <1>4. r.id # task.id => q = r
    BY <1>3, CloseFate DEF closed, Statuses
  <1>5. QED
    BY <1>3, <1>4

\* Steps that change no row but delete some, and begin no handler.
LEMMA OpenShrinks ==
    ASSUME ContactInv, StillOpen, requests' \subseteq requests,
           loop' = loop \/ loop'.op \notin {"accept", "decline"},
           \A t \in Threads : threads'[t] \in {threads[t], Idle}
    PROVE  StillOpen' /\ RowsKeepStatus
  BY DEF ContactInv, ContactTypeOK, DistinctIds, StillOpen, RowsKeepStatus

LEMMA OpenLoopStep ==
    ASSUME ContactInv, StillOpen, AnswersApart, LoopStep
    PROVE  StillOpen' /\ RowsKeepStatus
  <1> USE DEF ContactInv, ContactTypeOK
  <1>1. ASSUME NEW me \in Users, NEW target \in Users, SendBegin(me, target)
        PROVE  StillOpen' /\ RowsKeepStatus
    BY <1>1, OpenShrinks DEF SendBegin
  <1>2. CASE SendCheckOwnBlock \/ SendCheckContact \/ SendCheckPending
    BY <1>2, OpenShrinks DEF SendCheckOwnBlock, SendCheckContact, SendCheckPending, SendCheck,
       LoopTasks, Idle
  <1>3. CASE SendInsert
    BY <1>3 DEF SendInsert, StillOpen, RowsKeepStatus, DistinctIds, Idle
  <1>4. ASSUME NEW r \in requests, NEW answer \in {"accept", "decline"},
               RespondRead(r.to, answer, r)
        PROVE  StillOpen' /\ RowsKeepStatus
    BY <1>4 DEF RespondRead, StillOpen, RowsKeepStatus, DistinctIds
  <1>5. CASE AcceptAbort
    BY <1>5, OpenShrinks DEF AcceptAbort, Idle
  <1>6. CASE AcceptCommit \/ DeclineCommit
    <2>1. /\ loop.op \in {"accept", "decline"} /\ loop' = Idle /\ threads' = threads
          /\ \A r \in requests : r.id = loop.id => r.status = "pending"
      BY <1>6 DEF AcceptCommit, DeclineCommit, StillOpen
    <2>2. ASSUME NEW r \in requests, NEW s \in requests', r.id = s.id
          PROVE  r.id = loop.id \/ (r.id # loop.id /\ (s = r \/ (r.status = "pending" /\ s.status = "cancelled")))
      BY <1>6, <2>2, AcceptFate, CloseFate DEF AcceptCommit, DeclineCommit, Statuses
    <2>3. \A s \in requests' : \E r \in requests : r.id = s.id
      <3>1. \A status \in {"accepted", "declined"} : \A s \in Close(requests, loop, status) :
              s \in FriendRequests /\ \E r \in requests : r.id = s.id
        BY CloseRows DEF Statuses
      <3>2. \A s \in AcceptedRows(loop) : \E r \in requests : r.id = s.id
        <4>1. Close(requests, loop, "accepted") \subseteq FriendRequests
          BY <3>1
        <4>2. QED
          BY <3>1, <4>1, CancelOthersRows DEF AcceptedRows
      <3>3. QED
        BY <1>6, <3>1, <3>2 DEF AcceptCommit, DeclineCommit
    <2>4. RowsKeepStatus
      BY <2>1, <2>2 DEF RowsKeepStatus
    <2>5. ASSUME NEW t \in Threads, threads[t] # Idle, NEW s \in requests', s.id = threads[t].id
          PROVE  s.status \in {"pending", "cancelled"}
      <3>1. PICK r \in requests : r.id = s.id
        BY <2>3
      <3>2. r.id # loop.id /\ r.status \in {"pending", "cancelled"}
        BY <2>1, <2>5, <3>1 DEF AnswersApart, StillOpen
      <3>3. QED
        BY <2>2, <3>1, <3>2
    <2>6. QED
      BY <2>1, <2>4, <2>5 DEF StillOpen, Idle
  <1>7. QED
    BY <1>1, <1>2, <1>3, <1>4, <1>5, <1>6 DEF LoopStep, SendStep, AnswerStep

LEMMA OpenThreadStep ==
    ASSUME ContactInv, StillOpen, AnswersApart, ThreadStep
    PROVE  StillOpen' /\ RowsKeepStatus
  <1> USE DEF ContactInv, ContactTypeOK
  <1>1. ASSUME NEW t \in Threads, NEW r \in requests, CancelRead(t, r.from, r)
        PROVE  StillOpen' /\ RowsKeepStatus
    BY <1>1 DEF CancelRead, StillOpen, RowsKeepStatus, DistinctIds
  <1>2. ASSUME NEW t \in Threads, CancelCommit(t)
        PROVE  StillOpen' /\ RowsKeepStatus
    <2>1. /\ threads[t] # Idle /\ loop' = loop
          /\ threads' = [threads EXCEPT ![t] = Idle]
          /\ requests' = Close(requests, threads[t], "cancelled")
      BY <1>2 DEF CancelCommit, Idle
    <2>2. ASSUME NEW s \in requests'
          PROVE  \E r \in requests : /\ r.id = s.id
                                     /\ r.id = threads[t].id => s.status = "cancelled"
                                     /\ r.id # threads[t].id => s = r
      BY <2>1, CloseRows
    <2>3. \A r \in requests : r.id = threads[t].id => r.status \in {"pending", "cancelled"}
      BY <2>1 DEF StillOpen
    <2>4. RowsKeepStatus
      BY <2>2, <2>3 DEF RowsKeepStatus, DistinctIds
    <2>5. loop'.op \in {"accept", "decline"} =>
             \A s \in requests' : s.id = loop'.id => s.status = "pending"
      BY <2>1, <2>2 DEF StillOpen, AnswersApart
    <2>6. ASSUME NEW u \in Threads, threads'[u] # Idle, NEW s \in requests', s.id = threads'[u].id
          PROVE  s.status \in {"pending", "cancelled"}
      BY <2>1, <2>2, <2>6 DEF StillOpen
    <2>7. QED
      BY <2>4, <2>5, <2>6 DEF StillOpen
  <1>3. ASSUME NEW me \in Users, NEW target \in Users,
               RemoveContact(me, target) \/ UnblockUser(me, target)
        PROVE  StillOpen' /\ RowsKeepStatus
    BY <1>3, OpenShrinks DEF RemoveContact, UnblockUser
  <1>4. QED
    BY <1>1, <1>2, <1>3 DEF ThreadStep

LEMMA OpenNext ==
    ContactInv /\ StillOpen /\ AnswersApart /\ [ContactNext]_contactVars
        => StillOpen' /\ RowsKeepStatus
  <1> SUFFICES ASSUME ContactInv, StillOpen, AnswersApart, [ContactNext]_contactVars
               PROVE  StillOpen' /\ RowsKeepStatus
    OBVIOUS
  <1>1. ASSUME NEW me \in Users, NEW target \in Users, BlockUser(me, target)
        PROVE  StillOpen' /\ RowsKeepStatus
    BY <1>1, OpenShrinks DEF BlockUser
  <1>2. CASE Restart
    BY <1>2, OpenShrinks DEF Restart, Idle
  <1>3. CASE UNCHANGED contactVars
    BY <1>3, OpenShrinks DEF contactVars
  <1>4. QED
    BY <1>1, <1>2, <1>3, OpenLoopStep, OpenThreadStep DEF ContactNext

\* What the refusals of cancel and respond say holds as long as the two are never in flight
\* for one request at the same time, however often either is repeated: only a pending
\* request is cancelled, and a cancelled one is not answered.
THEOREM AnsweredOrCancelled ==
    ContactSpec /\ []AnswersApart => OnlyPendingIsCancelled /\ CancelledIsNotAnswered
  <1>1. ContactInit => StillOpen
    BY DEF ContactInit, StillOpen, Idle
  <1>2. RowsKeepStatus =>
          /\ \A r \in requests, s \in requests' :
                r.id = s.id /\ s.status = "cancelled" => r.status \in {"pending", "cancelled"}
          /\ \A r \in requests, s \in requests' :
                r.id = s.id /\ r.status = "cancelled" => s.status = "cancelled"
    BY DEF RowsKeepStatus
  <1>3. QED
    BY <1>1, <1>2, OpenNext, ContactInvariance, PTL
       DEF ContactSpec, OnlyPendingIsCancelled, CancelledIsNotAnswered


=============================================================================
