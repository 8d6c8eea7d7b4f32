-------------------------- MODULE MessagingProofs ---------------------------
(***************************************************************************)
(* Safety of Messaging for every set of users, sockets and TTLs and every  *)
(* bound; which connections it closes; its refinement of Mailbox; and what *)
(* a block does to messages that no handler is sending at the time.        *)
(***************************************************************************)
EXTENDS Messaging, ContactGraphProofs, WellFoundedInduction

-----------------------------------------------------------------------------
(* The contact tables *)

\* Messaging is written on top of ContactGraph: each of its steps contains a step of the
\* contact handlers or leaves their tables and tasks alone.  So what is proved of the
\* contact graph alone holds beside the message handlers.
LEMMA ImplementsContactGraph == Spec => ContactSpec
  <1>1. Init => ContactInit
    BY DEF Init
  <1>2. [Next]_vars => [ContactNext]_contactVars
    <2> SUFFICES ASSUME [Next]_vars PROVE [ContactNext]_contactVars
      OBVIOUS
    <2>1. CASE ContactHandlers
      BY <2>1 DEF ContactHandlers, ContactNext
    <2>2. CASE MessageHandlers
      BY <2>2 DEF MessageHandlers, MessageStep, SendMessageBegin, AckBegin,
         MsgCheckOwnBlock, MsgCheckContact, MsgCheck, InsertMessage, MarkQueued,
         AckWrite, AckRollback, ReadRequest, BlockAndDrop, ContactNext
    <2>3. CASE Deliveries
      BY <2>3 DEF Deliveries, PushEnd, PushStep, PushTo, PushLost, Connect,
         FlushStep, FlushNext, FlushAborts, FlushDone, ClientGone, Disconnect
    <2>4. CASE RestartServer
      BY <2>4 DEF RestartServer, ContactNext
    <2>5. CASE Tick
      BY <2>5 DEF Tick
    <2>6. CASE UNCHANGED vars
      BY <2>6 DEF vars
    <2>7. QED
      BY <2>1, <2>2, <2>3, <2>4, <2>5, <2>6 DEF Next
  <1>3. QED
    BY <1>1, <1>2, PTL DEF Spec, ContactSpec

-----------------------------------------------------------------------------
(* Newest messages *)

\* A nonempty set of naturals with a bound has a greatest element.
LEMMA GreatestExists ==
    ASSUME NEW n \in Nat, NEW T, T \subseteq 0..n, T # {}
    PROVE  \E x \in T : \A y \in T : y <= x
  <1> DEFINE less == {ss \in Nat \X Nat : ss[1] < ss[2]}
             below == {k \in Nat : n - k \in T}
  <1>1. IsWellFoundedOn(less, Nat)
    <2>1. less = OpToRel(<, Nat)
      BY DEF OpToRel
    <2>2. QED
      BY <2>1, NatLessThanWellFounded
  <1>2. below \subseteq Nat /\ below # {}
    <2>1. PICK x \in T : TRUE
      OBVIOUS
    <2>2. x \in Int /\ n - x \in Nat /\ n - (n - x) = x
      OBVIOUS
    <2>3. n - x \in below
      BY <2>2
    <2>4. QED
      BY <2>3
  <1>3. PICK m \in below : \A k \in below : ~(<<k, m>> \in less)
    <2> HIDE DEF less, below
    <2> QED
      BY <1>1, <1>2, WFMin
  <1>4. ASSUME NEW y \in T PROVE y <= n - m
    <2>1. y \in Int /\ n - y \in Nat /\ n - (n - y) = y
      OBVIOUS
    <2>2. n - y \in below /\ m \in Nat
      BY <2>1
    <2>3. ~(n - y < m)
      BY <1>3, <2>2
    <2>4. QED
      BY <2>1, <2>2, <2>3
  <1>5. QED
    BY <1>4

\* refresh_conversation_summary finds an id or NULL.
LEMMA LatestIdType ==
    ASSUME NEW n \in Nat, NEW rows, DOMAIN rows \subseteq 1..n, NEW c
    PROVE  LatestId(rows, c) \in Nat
  <1> DEFINE ids == {id \in DOMAIN rows : Conversation(rows[id]) = c}
  <1>1. CASE ids = {}
    BY <1>1 DEF LatestId, Never
  <1>2. CASE ids # {}
    <2>1. ids \subseteq 0..n
      OBVIOUS
    <2>2. \E x \in ids : \A y \in ids : y <= x
      <3> HIDE DEF ids
      <3> QED
        BY <1>2, <2>1, GreatestExists
    <2>3. LatestId(rows, c) \in ids
      BY <1>2, <2>2 DEF LatestId, Max
    <2>4. QED
      BY <2>1, <2>3
  <1>3. QED
    BY <1>1, <1>2

\* LatestId depends only on the conversation's rows.
LEMMA LatestIdSame ==
    ASSUME NEW rows, NEW others, NEW c,
           {id \in DOMAIN rows : Conversation(rows[id]) = c}
             = {id \in DOMAIN others : Conversation(others[id]) = c}
    PROVE  LatestId(rows, c) = LatestId(others, c)
  BY DEF LatestId

\* What deleting rows and refreshing their conversations leaves.
LEMMA DeleteKeeps ==
    ASSUME MessagingTypeOK, SummaryIsLatest, NEW gone, gone \subseteq Ids,
           DeleteMessages(gone)
    PROVE  /\ Ids' = Ids \ gone
           /\ \A id \in Ids' : messages'[id] = messages[id]
           /\ messages' \in [Ids' -> Messages]
           /\ summary' \in [Conversations -> Nat]
           /\ SummaryIsLatest'
  <1> USE DEF MessagingTypeOK, DeleteMessages, Restrict, Ids
  <1>1. /\ Ids' = Ids \ gone
        /\ \A id \in Ids' : messages'[id] = messages[id]
        /\ messages' \in [Ids' -> Messages]
    OBVIOUS
  <1>2. ASSUME NEW c \in Conversations
        PROVE  summary'[c] = LatestId(messages', c)
    <2>1. CASE \E id \in gone : Conversation(messages[id]) = c
      BY <2>1
    <2>2. CASE ~\E id \in gone : Conversation(messages[id]) = c
      <3>1. {id \in DOMAIN messages : Conversation(messages[id]) = c}
              = {id \in DOMAIN messages' : Conversation(messages'[id]) = c}
        BY <1>1, <2>2
      <3>2. LatestId(messages, c) = LatestId(messages', c)
        <4> HIDE DEF MessagingTypeOK, DeleteMessages, Restrict, Ids
        <4> QED
          BY <3>1, LatestIdSame, Zenon
      <3>3. QED
        BY <2>2, <3>2 DEF SummaryIsLatest
    <2>3. QED
      BY <2>1, <2>2
  <1>3. \A c \in Conversations : LatestId(messages', c) \in Nat
    <2>1. DOMAIN messages' \subseteq 1..lastMessageId
      BY <1>1
    <2>2. QED
      BY <2>1, LatestIdType
  <1>4. summary' \in [Conversations -> Nat]
    BY <1>2, <1>3
  <1>5. QED
    BY <1>1, <1>2, <1>4 DEF SummaryIsLatest

-----------------------------------------------------------------------------
(* The inductive invariant *)

\* One coroutine has the loop: no contact handler and message handler are both
\* between two of their database steps.
OneOnLoop == loop = Idle \/ msgLoop = Idle

\* The row a messages_ack handler is about to write is still undelivered, if it
\* still exists: only the event loop marks messages delivered.
AckIsFirst ==
    msgLoop.op = "ack_write" /\ msgLoop.id \in Ids => ~messages[msgLoop.id].delivered

\* A client that is still there is in the registry.
AliveIsRegistered == \A s \in Sockets : conn[s].alive => conn[s].phase # "closed"

MessagingInv ==
    /\ MessagingTypeOK
    /\ OneOnLoop
    /\ SummaryIsLatest
    /\ OneReceiptPerDelivery
    /\ AckIsFirst
    /\ AliveIsRegistered
    /\ NoMissedMessage

\* The server starts with no message and no connection.
LEMMA MessagingInitInv == Init => MessagingInv
  <1> SUFFICES ASSUME Init PROVE MessagingInv
    OBVIOUS
  <1> USE DEF Init
  <1>1. Ids = {} /\ DOMAIN push = {}
    BY DEF Ids
  <1>2. MessagingTypeOK
    BY <1>1, MessagingAssumption DEF MessagingTypeOK, Conns, Never, Ids
  <1>3. SummaryIsLatest
    BY <1>1 DEF SummaryIsLatest, LatestId, Ids
  <1>4. AliveIsRegistered /\ NoMissedMessage
    BY DEF AliveIsRegistered, NoMissedMessage
  <1>5. OneOnLoop /\ OneReceiptPerDelivery /\ AckIsFirst
    BY <1>1 DEF OneOnLoop, OneReceiptPerDelivery, AckIsFirst, Idle
  <1>6. QED
    BY <1>2, <1>3, <1>4, <1>5 DEF MessagingInv

\* Deleting rows takes nothing away from what the invariant says of the others.
LEMMA FewerRows ==
    ASSUME MessagingInv, Ids' \subseteq Ids,
           \A id \in Ids' : messages'[id] = messages[id],
           UNCHANGED <<push, conn>>
    PROVE  /\ OneReceiptPerDelivery'
           /\ AliveIsRegistered'
           /\ NoMissedMessage'
           /\ msgLoop' = msgLoop => AckIsFirst'
  <1>1. OneReceiptPerDelivery' /\ AliveIsRegistered'
    BY DEF MessagingInv, OneReceiptPerDelivery, AliveIsRegistered
  <1>2. NoMissedMessage'
    BY DEF MessagingInv, NoMissedMessage, Undelivered, Ids
  <1>3. msgLoop' = msgLoop => AckIsFirst'
    BY DEF MessagingInv, AckIsFirst
  <1>4. QED
    BY <1>1, <1>2, <1>3

\* The throttled cleanup deletes some rows and leaves the summaries right.
LEMMA SweepKeeps ==
    ASSUME MessagingInv, Sweep
    PROVE  /\ Ids' \subseteq Ids
           /\ \A id \in Ids' : messages'[id] = messages[id]
           /\ messages' \in [Ids' -> Messages]
           /\ summary' \in [Conversations -> Nat]
           /\ SummaryIsLatest'
           /\ lastSweep' \in Nat
  <1>1. CASE clock - lastSweep >= SweepInterval
    <2>1. DeleteMessages(ExpiredIds) /\ lastSweep' = clock
      BY <1>1 DEF Sweep
    <2>2. ExpiredIds \subseteq Ids
      BY DEF ExpiredIds
    <2>3. QED
      BY <2>1, <2>2, DeleteKeeps DEF MessagingInv, MessagingTypeOK
  <1>2. CASE ~(clock - lastSweep >= SweepInterval)
    <2>1. UNCHANGED <<messages, summary, lastSweep>>
      BY <1>2 DEF Sweep
    <2>2. QED
      BY <2>1 DEF MessagingInv, MessagingTypeOK, SummaryIsLatest, Ids
  <1>3. QED
    BY <1>1, <1>2

\* The contact handlers leave everything about messages alone.
LEMMA ContactHandlersInv == MessagingInv /\ ContactHandlers => MessagingInv'
  <1> SUFFICES ASSUME MessagingInv, ContactHandlers PROVE MessagingInv'
    OBVIOUS
  <1>1. UNCHANGED msgVars
    BY DEF ContactHandlers
  <1>2. OneOnLoop'
    BY <1>1 DEF ContactHandlers, MessagingInv, OneOnLoop, msgVars, ThreadStep,
       CancelRead, CancelCommit, RemoveContact, UnblockUser
  <1>3. QED
    BY <1>1, <1>2 DEF MessagingInv, msgVars, tableVars, deliveryVars, timeVars,
       MessagingTypeOK, SummaryIsLatest, OneReceiptPerDelivery, AckIsFirst,
       AliveIsRegistered, NoMissedMessage, Undelivered, Ids

\* A send starts by sweeping and adds nothing to what is waited for.
LEMMA SendMessageBeginInv ==
    ASSUME MessagingInv, NEW me \in Users, NEW target \in Users, NEW ttl \in TTLs,
           SendMessageBegin(me, target, ttl)
    PROVE  MessagingInv'
  <1> USE DEF SendMessageBegin
  <1>1. msgLoop' \in MsgTasks /\ msgLoop'.op = "msg_check_own_block"
    BY MessagingAssumption DEF MsgTasks, MessagingInv, MessagingTypeOK, Never
  <1>2. MessagingTypeOK' /\ SummaryIsLatest'
    BY <1>1, SweepKeeps DEF MessagingInv, MessagingTypeOK, deliveryVars
  <1>3. OneReceiptPerDelivery' /\ AliveIsRegistered' /\ NoMissedMessage'
    BY SweepKeeps, FewerRows DEF deliveryVars
  <1>4. OneOnLoop' /\ AckIsFirst'
    BY <1>1 DEF OneOnLoop, AckIsFirst, LoopFree, contactVars
  <1>5. QED
    BY <1>2, <1>3, <1>4 DEF MessagingInv

\* A SELECT of messages_send goes on or refuses, and changes no table.
LEMMA MsgCheckInv ==
    MessagingInv /\ (MsgCheckOwnBlock \/ MsgCheckContact) => MessagingInv'
  <1> SUFFICES ASSUME MessagingInv, MsgCheckOwnBlock \/ MsgCheckContact
               PROVE  MessagingInv'
    OBVIOUS
  <1>1. /\ UNCHANGED <<contactVars, tableVars, deliveryVars, timeVars>>
        /\ \/ msgLoop' = Idle
           \/ /\ msgLoop' \in MsgTasks /\ msgLoop # Idle
              /\ msgLoop'.op \in {"msg_check_contact", "msg_insert"}
    BY DEF MsgCheckOwnBlock, MsgCheckContact, MsgCheck, MessagingInv,
       MessagingTypeOK, MsgTasks, Idle
  <1>2. MessagingTypeOK'
    BY <1>1 DEF MessagingInv, MessagingTypeOK, tableVars, deliveryVars, timeVars, Ids
  <1>3. OneOnLoop' /\ AckIsFirst'
    BY <1>1 DEF MessagingInv, OneOnLoop, AckIsFirst, contactVars, Idle
  <1>4. QED
    BY <1>1, <1>2, <1>3 DEF MessagingInv, tableVars, deliveryVars, SummaryIsLatest,
       OneReceiptPerDelivery, AliveIsRegistered, NoMissedMessage, Undelivered, Ids

\* The new message is the newest of its conversation, and is being pushed to every
\* connection its receiver has.
LEMMA InsertMessageInv == MessagingInv /\ InsertMessage => MessagingInv'
  <1> SUFFICES ASSUME MessagingInv, InsertMessage PROVE MessagingInv'
    OBVIOUS
  <1> DEFINE new == lastMessageId + 1
             row == [from |-> msgLoop.from, to |-> msgLoop.to,
                     expires |-> msgLoop.expires, delivered |-> FALSE,
                     queued |-> FALSE, receipts |-> 0]
             conversation == {msgLoop.from, msgLoop.to}
  <1>1. msgLoop \in MsgTasks /\ msgLoop.op = "msg_insert" /\ msgLoop # Idle
    BY DEF InsertMessage, MessagingInv, MessagingTypeOK, Idle
  <1>2. row \in Messages /\ conversation \in Conversations
    BY <1>1 DEF MsgTasks, Messages, Conversations
  <1>3. /\ lastMessageId' = new
        /\ Ids' = Ids \cup {new}
        /\ messages'[new] = row
        /\ \A id \in Ids : id # new /\ messages'[id] = messages[id]
        /\ summary' = [summary EXCEPT ![conversation] = new]
        /\ UNCHANGED <<contactVars, conn, timeVars>>
    BY DEF InsertMessage, MessagingInv, MessagingTypeOK, Ids
  <1>4. /\ \/ /\ Registered(msgLoop.to) = {}
              /\ msgLoop' = [op |-> "mark_queued", id |-> new]
              /\ push' = push
           \/ /\ msgLoop' = Idle
              /\ push' = [i \in DOMAIN push \cup {new} |->
                            IF i = new THEN [left |-> Registered(msgLoop.to),
                                             taken |-> FALSE, stale |-> {}]
                            ELSE push[i]]
    BY DEF InsertMessage
  <1>5. MessagingTypeOK'
    <2>1. messages' \in [Ids' -> Messages]
      <3>1. \A id \in Ids' : messages'[id] \in Messages
        BY <1>2, <1>3 DEF MessagingInv, MessagingTypeOK
      <3>2. messages' = [i \in Ids' |-> messages'[i]]
        BY <1>3 DEF InsertMessage, Ids
      <3>3. QED
        BY <3>1, <3>2
    <2>2. summary' \in [Conversations -> Nat]
      BY <1>2, <1>3 DEF MessagingInv, MessagingTypeOK
    <2>3. msgLoop' \in MsgTasks \cup {Idle}
      BY <1>4 DEF MsgTasks, MessagingInv, MessagingTypeOK
    <2>4. push' \in [DOMAIN push' -> Pushes] /\ DOMAIN push' \subseteq 1..new
      <3>1. Registered(msgLoop.to) \subseteq Sockets
        BY DEF Registered
      <3>2. [left |-> Registered(msgLoop.to), taken |-> FALSE, stale |-> {}] \in Pushes
        BY <3>1 DEF Pushes
      <3>3. DOMAIN push \subseteq 1..lastMessageId /\ lastMessageId \in Nat
            /\ push \in [DOMAIN push -> Pushes]
        BY DEF MessagingInv, MessagingTypeOK
      <3>4. CASE push' = push
        BY <3>3, <3>4
      <3>5. CASE push' = [i \in DOMAIN push \cup {new} |->
                            IF i = new THEN [left |-> Registered(msgLoop.to),
                                             taken |-> FALSE, stale |-> {}]
                            ELSE push[i]]
        BY <3>2, <3>3, <3>5
      <3>6. QED
        BY <1>4, <3>4, <3>5
    <2>5. QED
      BY <1>3, <2>1, <2>2, <2>3, <2>4 DEF MessagingInv, MessagingTypeOK, timeVars
  <1>6. SummaryIsLatest'
    <2> SUFFICES ASSUME NEW c \in Conversations
                 PROVE  summary'[c] = LatestId(messages', c)
      BY DEF SummaryIsLatest
    <2>1. CASE c = conversation
      <3> DEFINE ids == {id \in DOMAIN messages' : Conversation(messages'[id]) = c}
      <3>1. new \in ids
        BY <1>3, <2>1 DEF Conversation, Ids
      <3>2. \A id \in ids : id \in Nat /\ id <= new
        BY <1>3 DEF MessagingInv, MessagingTypeOK, Ids
      <3>3. Max(ids) = new
        <4>1. \A x \in ids : (\A y \in ids : x >= y) => x = new
          BY <3>1, <3>2
        <4> HIDE DEF ids, new
        <4>2. QED
          BY <3>1, <3>2, <4>1 DEF Max
      <3>4. LatestId(messages', c) = new
        BY <3>1, <3>3 DEF LatestId
      <3>5. QED
        BY <1>2, <1>3, <2>1, <3>4 DEF MessagingInv, MessagingTypeOK
    <2>2. CASE c # conversation
      <3>1. {id \in DOMAIN messages : Conversation(messages[id]) = c}
              = {id \in DOMAIN messages' : Conversation(messages'[id]) = c}
        BY <1>3, <2>2 DEF Conversation, Ids
      <3>2. LatestId(messages, c) = LatestId(messages', c)
        BY <3>1, LatestIdSame, Zenon
      <3>3. summary'[c] = summary[c]
        BY <1>3, <2>2 DEF MessagingInv, MessagingTypeOK
      <3>4. QED
        BY <3>2, <3>3 DEF MessagingInv, SummaryIsLatest
    <2>3. QED
      BY <2>1, <2>2
  <1>7. OneReceiptPerDelivery'
    BY <1>3 DEF MessagingInv, OneReceiptPerDelivery
  <1>8. NoMissedMessage'
    <2> SUFFICES ASSUME NEW s \in Sockets, conn[s].alive,
                        NEW id \in Undelivered(messages', conn[s].user)
                 PROVE  \/ id \in conn[s].got \cup conn[s].todo
                        \/ id \in DOMAIN push' /\ s \in push'[id].left
      BY <1>3 DEF NoMissedMessage
    <2>1. CASE id = new
      <3>1. s \in Registered(msgLoop.to)
        BY <1>3, <2>1 DEF Registered, Undelivered, MessagingInv, AliveIsRegistered
      <3>2. QED
        BY <1>4, <2>1, <3>1
    <2>2. CASE id # new
      <3>1. id \in Undelivered(messages, conn[s].user)
        BY <1>3, <2>2 DEF Undelivered, Ids
      <3>2. \/ id \in conn[s].got \cup conn[s].todo
            \/ id \in DOMAIN push /\ s \in push[id].left
        BY <3>1 DEF MessagingInv, NoMissedMessage
      <3>3. QED
        BY <1>4, <2>2, <3>2
    <2>3. QED
      BY <2>1, <2>2
  <1>9. OneOnLoop' /\ AckIsFirst' /\ AliveIsRegistered'
    BY <1>1, <1>3, <1>4 DEF MessagingInv, OneOnLoop, AckIsFirst, AliveIsRegistered,
       contactVars, Idle
  <1>10. QED
    BY <1>5, <1>6, <1>7, <1>8, <1>9 DEF MessagingInv

\* Steps that change one row without changing who it is for, whether it is
\* delivered, or the deliveries in progress.
LEMMA MarkQueuedInv == MessagingInv /\ MarkQueued => MessagingInv'
  <1> SUFFICES ASSUME MessagingInv, MarkQueued PROVE MessagingInv'
    OBVIOUS
  <1>1. /\ Ids' = Ids
        /\ messages' \in [Ids' -> Messages]
        /\ \A id \in Ids :
              /\ messages'[id].from = messages[id].from
              /\ messages'[id].to = messages[id].to
              /\ messages'[id].delivered = messages[id].delivered
              /\ messages'[id].receipts = messages[id].receipts
        /\ UNCHANGED <<contactVars, lastMessageId, summary, deliveryVars, timeVars>>
        /\ msgLoop' = Idle
    <2>1. messages \in [Ids -> Messages]
      BY DEF MessagingInv, MessagingTypeOK
    <2>2. CASE msgLoop.id \in Ids
      <3>1. messages' = [messages EXCEPT ![msgLoop.id] =
                           [messages[msgLoop.id] EXCEPT !.queued = TRUE]]
        BY <2>2 DEF MarkQueued, SetRow
      <3>2. [messages[msgLoop.id] EXCEPT !.queued = TRUE] \in Messages
        BY <2>1, <2>2 DEF Messages
      <3>3. Ids' = Ids /\ messages' \in [Ids' -> Messages]
        BY <2>1, <3>1, <3>2 DEF Ids
      <3>4. QED
        BY <2>1, <2>2, <3>1, <3>3 DEF MarkQueued, Messages
    <2>3. CASE msgLoop.id \notin Ids
      BY <2>1, <2>3 DEF MarkQueued, Ids
    <2>4. QED
      BY <2>2, <2>3
  <1>2. MessagingTypeOK'
    BY <1>1 DEF MessagingInv, MessagingTypeOK, deliveryVars, timeVars
  <1>3. SummaryIsLatest'
    <2> SUFFICES ASSUME NEW c \in Conversations
                 PROVE  summary'[c] = LatestId(messages', c)
      BY DEF SummaryIsLatest
    <2>1. {id \in DOMAIN messages : Conversation(messages[id]) = c}
            = {id \in DOMAIN messages' : Conversation(messages'[id]) = c}
      BY <1>1 DEF Conversation, Ids
    <2>2. LatestId(messages, c) = LatestId(messages', c)
      BY <2>1, LatestIdSame, Zenon
    <2>3. QED
      BY <1>1, <2>2 DEF MessagingInv, SummaryIsLatest
  <1>4. NoMissedMessage'
    BY <1>1 DEF MessagingInv, NoMissedMessage, Undelivered, Ids, deliveryVars
  <1>5. QED
    BY <1>1, <1>2, <1>3, <1>4 DEF MessagingInv, OneOnLoop, OneReceiptPerDelivery,
       AckIsFirst, AliveIsRegistered, deliveryVars, Idle

\* An acknowledgement goes on to its UPDATE only for a row not yet delivered.
LEMMA AckBeginInv ==
    ASSUME MessagingInv, NEW me \in Users, NEW id \in 1..lastMessageId,
           AckBegin(me, id)
    PROVE  MessagingInv'
  <1> USE DEF AckBegin
  <1>1. msgLoop' \in MsgTasks \cup {Idle}
    BY DEF MsgTasks, MessagingInv, MessagingTypeOK
  <1>2. MessagingTypeOK' /\ SummaryIsLatest'
    BY <1>1, SweepKeeps DEF MessagingInv, MessagingTypeOK, deliveryVars
  <1>3. OneReceiptPerDelivery' /\ AliveIsRegistered' /\ NoMissedMessage'
    BY SweepKeeps, FewerRows DEF deliveryVars
  <1>4. OneOnLoop' /\ AckIsFirst'
    BY DEF OneOnLoop, AckIsFirst, LoopFree, contactVars, Undelivered, Ids, Idle
  <1>5. QED
    BY <1>2, <1>3, <1>4 DEF MessagingInv

\* The first acknowledgement marks the row and adds its only receipt.
LEMMA AckWriteInv == MessagingInv /\ AckWrite => MessagingInv'
  <1> SUFFICES ASSUME MessagingInv, AckWrite PROVE MessagingInv'
    OBVIOUS
  <1> DEFINE id == msgLoop.id
  <1>1. /\ id \in Ids /\ messages[id] \in Messages /\ ~messages[id].delivered
        /\ messages[id].receipts = 0
    BY DEF AckWrite, MessagingInv, AckIsFirst, OneReceiptPerDelivery, MessagingTypeOK
  <1>2. /\ Ids' = Ids
        /\ messages' \in [Ids' -> Messages]
        /\ \A i \in Ids : i # id => messages'[i] = messages[i]
        /\ messages'[id].from = messages[id].from
        /\ messages'[id].to = messages[id].to
        /\ messages'[id].delivered
        /\ messages'[id].receipts = 1
        /\ UNCHANGED <<contactVars, lastMessageId, summary, deliveryVars, timeVars>>
        /\ msgLoop' = Idle
    <2>1. messages \in [Ids -> Messages]
      BY DEF MessagingInv, MessagingTypeOK
    <2>2. messages' = [messages EXCEPT ![id] =
             [messages[id] EXCEPT !.delivered = TRUE, !.queued = FALSE,
                                  !.receipts = @ + 1]]
      BY DEF AckWrite, SetRow
    <2>3. messages[id].receipts + 1 = 1
      BY <1>1 DEF Messages
    <2>4. [messages[id] EXCEPT !.delivered = TRUE, !.queued = FALSE,
                               !.receipts = 1] \in Messages
      BY <1>1 DEF Messages
    <2>5. Ids' = Ids /\ messages' \in [Ids' -> Messages]
      BY <2>1, <2>2, <2>3, <2>4 DEF Ids
    <2>6. QED
      BY <1>1, <2>1, <2>2, <2>3, <2>5 DEF AckWrite, Messages
  <1>3. MessagingTypeOK'
    BY <1>2 DEF MessagingInv, MessagingTypeOK, deliveryVars, timeVars
  <1>4. SummaryIsLatest'
    <2> SUFFICES ASSUME NEW c \in Conversations
                 PROVE  summary'[c] = LatestId(messages', c)
      BY DEF SummaryIsLatest
    <2>1. {i \in DOMAIN messages : Conversation(messages[i]) = c}
            = {i \in DOMAIN messages' : Conversation(messages'[i]) = c}
      BY <1>2 DEF Conversation, Ids
    <2>2. LatestId(messages, c) = LatestId(messages', c)
      BY <2>1, LatestIdSame, Zenon
    <2>3. QED
      BY <1>2, <2>2 DEF MessagingInv, SummaryIsLatest
  <1>5. NoMissedMessage' /\ OneReceiptPerDelivery'
    BY <1>2 DEF MessagingInv, NoMissedMessage, OneReceiptPerDelivery, Undelivered,
       Ids, deliveryVars
  <1>6. QED
    BY <1>2, <1>3, <1>4, <1>5 DEF MessagingInv, OneOnLoop,
       AckIsFirst, AliveIsRegistered, deliveryVars, Idle

\* An acknowledgement of a deleted row leaves the tables as they were.
LEMMA AckRollbackInv == MessagingInv /\ AckRollback => MessagingInv'
  BY DEF AckRollback, MessagingInv, MessagingTypeOK, OneOnLoop, SummaryIsLatest,
     OneReceiptPerDelivery, AckIsFirst, AliveIsRegistered, NoMissedMessage,
     Undelivered, Ids, tableVars, deliveryVars, timeVars, Idle

-----------------------------------------------------------------------------
(* Deliveries leave the tables alone *)

\* Steps that leave the tables and the loop alone keep what the invariant says of
\* them.
LEMMA SameTables ==
    ASSUME MessagingInv, UNCHANGED <<contactVars, tableVars, timeVars>>,
           push' \in [DOMAIN push' -> Pushes], DOMAIN push' \subseteq DOMAIN push,
           conn' \in [Sockets -> Conns],
           \/ msgLoop' = msgLoop
           \/ /\ LoopFree /\ msgLoop' \in MsgTasks \cup {Idle}
              /\ msgLoop'.op # "ack_write",
           AliveIsRegistered', NoMissedMessage'
    PROVE  MessagingInv'
  <1>1. MessagingTypeOK'
    BY DEF MessagingInv, MessagingTypeOK, tableVars, timeVars, Ids
  <1>2. OneOnLoop' /\ AckIsFirst'
    BY DEF MessagingInv, OneOnLoop, AckIsFirst, LoopFree, contactVars, tableVars, Ids
  <1>3. QED
    BY <1>1, <1>2 DEF MessagingInv, SummaryIsLatest, OneReceiptPerDelivery,
       tableVars, Ids

\* What NoMissedMessage needs of a step that changes connections or pushes only.
LEMMA StillOffered ==
    ASSUME MessagingInv, UNCHANGED messages,
           \A s \in Sockets : conn'[s].alive =>
              /\ conn[s].alive /\ conn'[s].user = conn[s].user
              /\ \A id \in Ids :
                   \/ id \in conn[s].got \cup conn[s].todo
                   \/ id \in DOMAIN push /\ s \in push[id].left
                   => \/ id \in conn'[s].got \cup conn'[s].todo
                      \/ id \in DOMAIN push' /\ s \in push'[id].left
    PROVE  NoMissedMessage'
  BY DEF MessagingInv, NoMissedMessage, Undelivered, Ids

\* Pushing to one socket either gives its client the message or finds it gone.
LEMMA PushStepInv ==
    ASSUME MessagingInv, NEW s \in Sockets, NEW id \in DOMAIN push,
           PushStep(id, s)
    PROVE  MessagingInv'
  <1> DEFINE taken == [push EXCEPT ![id].left = @ \ {s}, ![id].taken = TRUE]
             raised == [push EXCEPT ![id].left = @ \ {s}, ![id].stale = @ \cup {s}]
  <1>1. /\ conn \in [Sockets -> Conns] /\ push \in [DOMAIN push -> Pushes]
        /\ DOMAIN push \subseteq 1..lastMessageId /\ lastMessageId \in Nat
    BY DEF MessagingInv, MessagingTypeOK
  <1>2. /\ taken \in [DOMAIN push -> Pushes] /\ DOMAIN taken = DOMAIN push
        /\ raised \in [DOMAIN push -> Pushes] /\ DOMAIN raised = DOMAIN push
        /\ \A i \in DOMAIN push :
             /\ taken[i].left = IF i = id THEN push[i].left \ {s} ELSE push[i].left
             /\ raised[i].left = IF i = id THEN push[i].left \ {s} ELSE push[i].left
    BY <1>1 DEF Pushes
  <1> HIDE DEF taken, raised
  <1>3. CASE PushTo(id, s)
    <2>1. push' = taken /\ conn' = [conn EXCEPT ![s].got = @ \cup {id}]
      BY <1>3 DEF PushTo, taken
    <2>2. id \in Nat
      BY <1>1
    <2>3. /\ conn' \in [Sockets -> Conns]
          /\ \A t \in Sockets : /\ conn'[t].alive = conn[t].alive
                                /\ conn'[t].user = conn[t].user
                                /\ conn'[t].phase = conn[t].phase
                                /\ conn'[t].todo = conn[t].todo
                                /\ conn[t].got \subseteq conn'[t].got
                                /\ t = s => id \in conn'[t].got
      BY <1>1, <2>1, <2>2 DEF Conns
    <2>4. NoMissedMessage'
      BY <1>2, <1>3, <2>1, <2>3, StillOffered DEF PushTo, tableVars
    <2>5. AliveIsRegistered'
      BY <2>3 DEF MessagingInv, AliveIsRegistered
    <2>6. QED
      BY <1>2, <1>3, <2>1, <2>3, <2>4, <2>5, SameTables DEF PushTo
  <1>4. CASE PushLost(id, s)
    <2>1. (push' = taken \/ push' = raised) /\ conn' = conn /\ ~conn[s].alive
      BY <1>4 DEF PushLost, taken, raised
    <2>2. NoMissedMessage'
      BY <1>2, <1>4, <2>1, StillOffered DEF PushLost, tableVars
    <2>3. AliveIsRegistered'
      BY <2>1 DEF MessagingInv, AliveIsRegistered
    <2>4. QED
      BY <1>1, <1>2, <1>4, <2>1, <2>2, <2>3, SameTables DEF PushLost
  <1>5. QED
    BY <1>3, <1>4 DEF PushStep

\* Closing connections: their clients are gone, the others keep what they have.
LEMMA ClosedConns ==
    ASSUME MessagingInv, NEW closing, NEW c,
           c = [s \in Sockets |-> IF s \in closing THEN Closed(conn[s]) ELSE conn[s]]
    PROVE  /\ c \in [Sockets -> Conns]
           /\ \A s \in Sockets : IF s \in closing THEN ~c[s].alive ELSE c[s] = conn[s]
  BY DEF MessagingInv, MessagingTypeOK, Closed, Conns

\* The end of a push unregisters only connections whose clients are gone.
LEMMA PushEndInv ==
    ASSUME MessagingInv, NEW id \in DOMAIN push, PushEnd(id)
    PROVE  MessagingInv'
  <1>1. /\ push' \in [DOMAIN push' -> Pushes] /\ DOMAIN push' = DOMAIN push \ {id}
        /\ \A i \in DOMAIN push' : push'[i] = push[i]
        /\ push[id].left = {}
    BY DEF PushEnd, Restrict, MessagingInv, MessagingTypeOK
  <1>2. /\ conn' \in [Sockets -> Conns]
        /\ \A s \in Sockets : conn'[s].alive => conn'[s] = conn[s]
    BY ClosedConns DEF PushEnd
  <1>3. NoMissedMessage'
    BY <1>1, <1>2, StillOffered DEF PushEnd, tableVars
  <1>4. AliveIsRegistered'
    BY <1>2 DEF MessagingInv, AliveIsRegistered
  <1>5. /\ msgLoop' \in MsgTasks \cup {Idle} /\ msgLoop'.op # "ack_write"
        /\ LoopFree
    BY DEF PushEnd, MsgTasks, Idle, MessagingInv, MessagingTypeOK
  <1>6. QED
    BY <1>1, <1>2, <1>3, <1>4, <1>5, SameTables DEF PushEnd

\* Steps that end connections and change nothing else.
LEMMA ClosingInv ==
    ASSUME MessagingInv, UNCHANGED <<contactVars, tableVars, msgLoop, push, timeVars>>,
           conn' \in [Sockets -> Conns],
           \A s \in Sockets : conn'[s].alive => conn'[s] = conn[s]
    PROVE  MessagingInv'
  <1>1. NoMissedMessage'
    BY StillOffered DEF tableVars
  <1>2. AliveIsRegistered'
    BY DEF MessagingInv, AliveIsRegistered
  <1>3. QED
    BY <1>1, <1>2, SameTables DEF MessagingInv, MessagingTypeOK

\* The end of a connection, seen by its client or by the server, loses no message
\* of a live one.
LEMMA CloseOneInv ==
    ASSUME MessagingInv, NEW s \in Sockets, FlushAborts(s) \/ Disconnect(s) \/ ClientGone(s)
    PROVE  MessagingInv'
  <1>1. UNCHANGED <<contactVars, tableVars, msgLoop, push, timeVars>>
    BY DEF FlushAborts, Disconnect, ClientGone
  <1>2. /\ conn' \in [Sockets -> Conns]
        /\ \A t \in Sockets : conn'[t].alive => conn'[t] = conn[t]
    <2>1. conn \in [Sockets -> Conns]
      BY DEF MessagingInv, MessagingTypeOK
    <2>2. /\ Closed(conn[s]) \in Conns /\ ~Closed(conn[s]).alive
          /\ [conn[s] EXCEPT !.alive = FALSE] \in Conns
          /\ ~[conn[s] EXCEPT !.alive = FALSE].alive
      BY <2>1 DEF Closed, Conns
    <2>3. \/ conn' = [conn EXCEPT ![s] = Closed(conn[s])]
          \/ conn' = [conn EXCEPT ![s] = [conn[s] EXCEPT !.alive = FALSE]]
      BY DEF FlushAborts, Disconnect, ClientGone
    <2> HIDE DEF Conns, Closed
    <2>4. QED
      BY <2>1, <2>2, <2>3
  <1>3. QED
    BY <1>1, <1>2, ClosingInv

\* A flush moves ids from what it has to send to what its client was sent.
LEMMA FlushInv ==
    ASSUME MessagingInv, NEW s \in Sockets, FlushNext(s) \/ FlushDone(s)
    PROVE  MessagingInv'
  <1>1. UNCHANGED <<contactVars, tableVars, msgLoop, push, timeVars>>
    BY DEF FlushNext, FlushDone
  <1>2. Ids \subseteq Nat
    BY DEF MessagingInv, MessagingTypeOK
  <1>3. /\ conn' \in [Sockets -> Conns]
        /\ \A t \in Sockets :
             conn'[t].alive => /\ conn[t].alive /\ conn'[t].user = conn[t].user
                               /\ conn'[t].phase # "closed"
                               /\ conn[t].got \cup conn[t].todo
                                    \subseteq conn'[t].got \cup conn'[t].todo
    <2>1. conn \in [Sockets -> Conns] /\ AliveIsRegistered
      BY DEF MessagingInv, MessagingTypeOK
    <2>2. CASE FlushDone(s)
      BY <2>1, <2>2 DEF FlushDone, Conns, AliveIsRegistered
    <2>3. CASE FlushNext(s)
      <3>1. PICK id \in Ids :
              conn' = [conn EXCEPT ![s].todo = @ \ {id},
                          ![s].got = IF conn[s].alive THEN @ \cup {id} ELSE @]
        BY <2>3 DEF FlushNext
      <3>2. id \in Nat /\ conn[s] \in Conns
        BY <1>2, <2>1
      <3>3. /\ conn'[s] \in Conns
            /\ conn'[s].alive = conn[s].alive /\ conn'[s].user = conn[s].user
            /\ conn'[s].phase = conn[s].phase
            /\ conn[s].alive => conn[s].got \cup conn[s].todo
                                   \subseteq conn'[s].got \cup conn'[s].todo
        BY <2>1, <3>1, <3>2 DEF Conns
      <3>4. /\ \A t \in Sockets : t # s => conn'[t] = conn[t]
            /\ conn' \in [Sockets -> Conns]
        BY <2>1, <3>1, <3>3
      <3> HIDE DEF Conns
      <3>5. QED
        BY <2>1, <3>3, <3>4 DEF AliveIsRegistered
    <2>4. QED
      BY <2>2, <2>3
  <1>4. NoMissedMessage'
    BY <1>1, <1>3, StillOffered DEF tableVars
  <1>5. AliveIsRegistered'
    BY <1>3 DEF AliveIsRegistered
  <1>6. QED
    BY <1>1, <1>3, <1>4, <1>5, SameTables DEF MessagingInv, MessagingTypeOK

\* A new connection starts with everything undelivered in its flush.
LEMMA ConnectInv ==
    ASSUME MessagingInv, NEW s \in Sockets, NEW me \in Users, Connect(s, me)
    PROVE  MessagingInv'
  <1> DEFINE fresh == [user |-> me, phase |-> "flushing", alive |-> TRUE,
                       todo |-> Undelivered(messages', me), got |-> {}]
  <1>1. /\ conn' = [conn EXCEPT ![s] = fresh] /\ Sweep
        /\ UNCHANGED <<contactVars, lastMessageId, msgLoop, push, clock>>
    BY DEF Connect
  <1>2. Undelivered(messages', me) \subseteq Ids'
    BY DEF Undelivered, Ids
  <1>3. Ids' \subseteq Nat
    BY SweepKeeps, <1>1 DEF MessagingInv, MessagingTypeOK
  <1>4. conn' \in [Sockets -> Conns]
    BY <1>1, <1>2, <1>3 DEF MessagingInv, MessagingTypeOK, Conns
  <1>5. MessagingTypeOK' /\ SummaryIsLatest'
    BY <1>1, <1>4, SweepKeeps DEF MessagingInv, MessagingTypeOK
  <1>6. AliveIsRegistered'
    BY <1>1 DEF MessagingInv, MessagingTypeOK, AliveIsRegistered
  <1>7. OneReceiptPerDelivery'
    BY <1>1, SweepKeeps DEF MessagingInv, OneReceiptPerDelivery
  <1>8. NoMissedMessage'
    <2> SUFFICES ASSUME NEW t \in Sockets, conn'[t].alive,
                        NEW id \in Undelivered(messages', conn'[t].user)
                 PROVE  \/ id \in conn'[t].got \cup conn'[t].todo
                        \/ id \in DOMAIN push' /\ t \in push'[id].left
      BY DEF NoMissedMessage
    <2>1. CASE t = s
      BY <1>1, <2>1 DEF MessagingInv, MessagingTypeOK
    <2>2. CASE t # s
      <3>1. conn'[t] = conn[t]
        BY <1>1, <2>2 DEF MessagingInv, MessagingTypeOK
      <3>2. id \in Undelivered(messages, conn[t].user)
        BY <1>1, <3>1, SweepKeeps DEF Undelivered, Ids
      <3>3. QED
        BY <1>1, <3>1, <3>2 DEF MessagingInv, NoMissedMessage
    <2>3. QED
      BY <2>1, <2>2
  <1>9. OneOnLoop' /\ AckIsFirst'
    BY <1>1 DEF Connect, LoopFree, OneOnLoop, AckIsFirst, contactVars, Idle
  <1>10. QED
    BY <1>5, <1>6, <1>7, <1>8, <1>9 DEF MessagingInv

-----------------------------------------------------------------------------
(* Worker threads, restart, time *)

\* The read handlers only sweep.
LEMMA ReadRequestInv == MessagingInv /\ ReadRequest => MessagingInv'
  <1> SUFFICES ASSUME MessagingInv, ReadRequest PROVE MessagingInv'
    OBVIOUS
  <1> USE DEF ReadRequest
  <1>1. MessagingTypeOK' /\ SummaryIsLatest'
    BY SweepKeeps DEF MessagingInv, MessagingTypeOK, deliveryVars
  <1>2. OneReceiptPerDelivery' /\ AliveIsRegistered' /\ NoMissedMessage' /\ AckIsFirst'
    BY SweepKeeps, FewerRows DEF deliveryVars
  <1>3. QED
    BY <1>1, <1>2 DEF MessagingInv, OneOnLoop, contactVars

\* A block drops rows and refreshes the summary of their conversation.
LEMMA BlockAndDropInv ==
    ASSUME MessagingInv, NEW me \in Users, NEW target \in Users,
           BlockAndDrop(me, target)
    PROVE  MessagingInv'
  <1> DEFINE gone == {id \in Undelivered(messages, me) : messages[id].from = target}
  <1>1. DeleteMessages(gone) /\ gone \subseteq Ids
    BY DEF BlockAndDrop, Undelivered, Ids
  <1> HIDE DEF gone
  <1>2. /\ Ids' \subseteq Ids
        /\ \A id \in Ids' : messages'[id] = messages[id]
        /\ messages' \in [Ids' -> Messages]
        /\ summary' \in [Conversations -> Nat]
        /\ SummaryIsLatest'
    BY <1>1, DeleteKeeps DEF MessagingInv
  <1>3. UNCHANGED <<loop, lastMessageId, msgLoop, push, conn, clock, lastSweep>>
    BY DEF BlockAndDrop, BlockUser, deliveryVars, timeVars
  <1>4. MessagingTypeOK'
    BY <1>2, <1>3 DEF MessagingInv, MessagingTypeOK
  <1>5. OneReceiptPerDelivery' /\ AliveIsRegistered' /\ NoMissedMessage' /\ AckIsFirst'
    BY <1>2, <1>3, FewerRows
  <1>6. QED
    BY <1>2, <1>3, <1>4, <1>5 DEF MessagingInv, OneOnLoop

\* A restart sweeps, closes every connection and forgets every push.
LEMMA RestartServerInv == MessagingInv /\ RestartServer => MessagingInv'
  <1> SUFFICES ASSUME MessagingInv, RestartServer PROVE MessagingInv'
    OBVIOUS
  <1>1. /\ Ids' \subseteq Ids
        /\ \A id \in Ids' : messages'[id] = messages[id]
        /\ messages' \in [Ids' -> Messages]
        /\ summary' \in [Conversations -> Nat]
        /\ SummaryIsLatest'
    BY DeleteKeeps DEF MessagingInv, RestartServer, ExpiredIds
  <1>2. /\ UNCHANGED <<lastMessageId, clock>> /\ lastSweep' = clock
        /\ loop' = Idle /\ msgLoop' = Idle
    BY DEF RestartServer, Restart
  <1>3. DOMAIN push' = {} /\ push' \in [DOMAIN push' -> Pushes]
    BY DEF RestartServer, Restrict
  <1>4. /\ conn' \in [Sockets -> Conns]
        /\ \A s \in Sockets : ~conn'[s].alive
    <2>1. conn' = [s \in Sockets |-> IF s \in Sockets THEN Closed(conn[s]) ELSE conn[s]]
      BY DEF RestartServer
    <2>2. QED
      BY <2>1, ClosedConns
  <1>5. MessagingTypeOK'
    BY <1>1, <1>2, <1>3, <1>4 DEF MessagingInv, MessagingTypeOK
  <1>6. AliveIsRegistered' /\ NoMissedMessage'
    BY <1>4 DEF AliveIsRegistered, NoMissedMessage
  <1>7. OneReceiptPerDelivery' /\ OneOnLoop' /\ AckIsFirst'
    BY <1>1, <1>2 DEF MessagingInv, OneReceiptPerDelivery, OneOnLoop, AckIsFirst, Idle
  <1>8. QED
    BY <1>1, <1>5, <1>6, <1>7 DEF MessagingInv

\* Time passing changes nothing the invariant speaks of.
LEMMA TickInv == MessagingInv /\ (Tick \/ UNCHANGED vars) => MessagingInv'
  BY DEF Tick, vars, msgVars, contactVars, tableVars, deliveryVars, timeVars,
     MessagingInv, MessagingTypeOK, OneOnLoop, SummaryIsLatest,
     OneReceiptPerDelivery, AckIsFirst, AliveIsRegistered, NoMissedMessage,
     Undelivered, Ids

\* Every step of the server preserves the invariant.
LEMMA MessagingNextInv == MessagingInv /\ [Next]_vars => MessagingInv'
  <1> SUFFICES ASSUME MessagingInv, [Next]_vars PROVE MessagingInv'
    OBVIOUS
  <1>1. CASE ContactHandlers
    BY <1>1, ContactHandlersInv
  <1>2. CASE MessageHandlers
    BY <1>2, SendMessageBeginInv, AckBeginInv, MsgCheckInv, InsertMessageInv,
       MarkQueuedInv, AckWriteInv, AckRollbackInv, ReadRequestInv, BlockAndDropInv
    DEF MessageHandlers, MessageStep
  <1>3. CASE Deliveries
    BY <1>3, PushEndInv, PushStepInv, ConnectInv, FlushInv, CloseOneInv
    DEF Deliveries, FlushStep
  <1>4. CASE RestartServer
    BY <1>4, RestartServerInv
  <1>5. CASE Tick \/ UNCHANGED vars
    BY <1>5, TickInv
  <1>6. QED
    BY <1>1, <1>2, <1>3, <1>4, <1>5 DEF Next

\* MessagingInv is an invariant of the server, for any users, sockets and TTLs.
THEOREM MessagingInvariance == Spec => []MessagingInv
  BY MessagingInitInv, MessagingNextInv, PTL DEF Spec

\* Every reachable state is well typed.
THEOREM TypeCorrect == Spec => []TypeOK
  <1>1. Spec => []ContactTypeOK
    BY ImplementsContactGraph, ContactTypeCorrect, PTL
  <1>2. ContactTypeOK /\ MessagingInv => TypeOK
    BY DEF TypeOK, MessagingInv
  <1>3. QED
    BY <1>1, <1>2, MessagingInvariance, PTL

\* Sends, sweeps, blocks and restarts, in any order, leave last_message_id at the
\* newest message of each conversation.
THEOREM SummariesAreRight == Spec => []SummaryIsLatest
  BY MessagingInvariance, PTL DEF MessagingInv

\* messages_ack records each delivery once, whoever repeats it and whatever is
\* deleted under it.
THEOREM ReceiptsAreRight == Spec => []OneReceiptPerDelivery
  BY MessagingInvariance, PTL DEF MessagingInv

\* No message slips between the registration of a connection and its flush.
THEOREM NothingIsMissed == Spec => []NoMissedMessage
  BY MessagingInvariance, PTL DEF MessagingInv

\* The contact links stay symmetric when the message handlers run beside the
\* contact handlers.
THEOREM ContactsStaySymmetric == Spec => []ContactsSymmetric
  BY ImplementsContactGraph, ContactSymmetry, PTL

\* Only expiry and a block ever delete a message.
THEOREM DeletionIsJustified == Spec => OnlyExpiredOrBlockedDeleted
  <1> DEFINE Justified ==
        \A id \in Ids : id \notin Ids' =>
           \/ Expired(messages[id])
           \/ /\ ~messages[id].delivered
              /\ <<messages[id].to, messages[id].from>> \in blocks'
  <1>1. ASSUME MessagingInv, [Next]_vars PROVE Justified
    <2>1. ASSUME Sweep PROVE Justified
      <3>1. CASE DeleteMessages(ExpiredIds)
        <4>1. ExpiredIds \subseteq Ids /\ \A id \in ExpiredIds : Expired(messages[id])
          BY DEF ExpiredIds
        <4>2. Ids' = Ids \ ExpiredIds
          BY <1>1, <3>1, <4>1, DeleteKeeps DEF MessagingInv
        <4>3. QED
          BY <4>1, <4>2
      <3>2. CASE UNCHANGED messages
        BY <3>2 DEF Ids
      <3>3. QED
        BY <2>1, <3>1, <3>2 DEF Sweep
    <2>2. CASE ContactHandlers
      BY <2>2 DEF ContactHandlers, msgVars, tableVars, Ids
    <2>3. CASE MessageHandlers
      <3>1. ASSUME NEW me \in Users, NEW target \in Users, BlockAndDrop(me, target)
            PROVE  Justified
        <4> DEFINE gone == {id \in Undelivered(messages, me) : messages[id].from = target}
        <4>1. DeleteMessages(gone) /\ gone \subseteq Ids
          BY <3>1 DEF BlockAndDrop, Undelivered, Ids
        <4>2. \A id \in gone : /\ ~messages[id].delivered
                               /\ <<messages[id].to, messages[id].from>> = <<me, target>>
          BY DEF Undelivered
        <4> HIDE DEF gone
        <4>3. Ids' = Ids \ gone
          BY <1>1, <4>1, DeleteKeeps DEF MessagingInv
        <4>4. <<me, target>> \in blocks'
          BY <3>1 DEF BlockAndDrop, BlockUser
        <4>5. QED
          BY <4>2, <4>3, <4>4
      <3>2. ASSUME MessageStep PROVE Ids \subseteq Ids'
        BY <3>2 DEF MessageStep, MsgCheckOwnBlock, MsgCheckContact, MsgCheck,
           InsertMessage, MarkQueued, AckWrite, AckRollback, SetRow, tableVars, Ids
      <3>3. MessageStep => Justified
        BY <3>2
      <3> HIDE DEF Justified
      <3>4. ASSUME NEW me \in Users, NEW target \in Users, NEW ttl \in TTLs,
                   SendMessageBegin(me, target, ttl)
            PROVE  Justified
        BY <2>1, <3>4 DEF SendMessageBegin
      <3>5. ASSUME NEW me \in Users, NEW id \in 1..lastMessageId, AckBegin(me, id)
            PROVE  Justified
        BY <2>1, <3>5 DEF AckBegin
      <3>6. ReadRequest => Justified
        BY <2>1 DEF ReadRequest
      <3>7. QED
        BY <2>3, <3>1, <3>3, <3>4, <3>5, <3>6 DEF MessageHandlers
    <2>4. CASE Deliveries
      BY <2>1, <2>4 DEF Deliveries, PushEnd, PushStep, PushTo, PushLost, Connect,
         FlushStep, FlushNext, FlushAborts, FlushDone, ClientGone, Disconnect,
         tableVars, Ids
    <2>5. CASE RestartServer
      BY <1>1, <2>5, DeleteKeeps DEF RestartServer, MessagingInv, ExpiredIds
    <2>6. CASE Tick \/ UNCHANGED vars
      BY <2>6 DEF Tick, vars, msgVars, tableVars, Ids
    <2>7. QED
      BY <1>1, <2>2, <2>3, <2>4, <2>5, <2>6 DEF Next
  <1>2. MessagingInv /\ [Next]_vars => [Justified]_vars
    BY <1>1
  <1>3. Spec => [][Justified]_vars
    BY <1>2, MessagingInvariance, PTL DEF Spec
  <1>4. QED
    BY <1>3 DEF OnlyExpiredOrBlockedDeleted

-----------------------------------------------------------------------------
(* Connections of live clients *)

\* A socket a push has found broken is not that of a live client, now or until PushEnd.
StaleAreGone == \A id \in DOMAIN push : \A s \in push[id].stale : ~conn[s].alive

\* The handlers that leave the connections alone, and the insertion, which starts a push.
LEMMA QuietOnConns ==
    ASSUME MessagingInv, [Next]_vars, ~Deliveries, ~RestartServer
    PROVE  /\ conn' = conn
           /\ \/ push' = push
              \/ \E id : /\ DOMAIN push' = DOMAIN push \cup {id} /\ push'[id].stale = {}
                         /\ \A i \in DOMAIN push' \ {id} : push'[i] = push[i]
  <1>1. CASE InsertMessage
    <2>1. conn' = conn
      BY <1>1 DEF InsertMessage
    <2>2. CASE Registered(msgLoop.to) = {}
      BY <1>1, <2>1, <2>2 DEF InsertMessage
    <2>3. CASE Registered(msgLoop.to) # {}
      <3> DEFINE id == lastMessageId + 1
      <3>1. push' = [i \in DOMAIN push \cup {id} |->
                       IF i = id THEN [left |-> Registered(msgLoop.to), taken |-> FALSE,
                                       stale |-> {}]
                       ELSE push[i]]
        BY <1>1, <2>3 DEF InsertMessage
      <3> HIDE DEF id
      <3>2. /\ DOMAIN push' = DOMAIN push \cup {id} /\ push'[id].stale = {}
            /\ \A i \in DOMAIN push' \ {id} : push'[i] = push[i]
        BY <3>1
      <3>3. QED
        BY <2>1, <3>2
    <2>4. QED
      BY <2>2, <2>3
  <1>2. CASE ~InsertMessage
    BY <1>2 DEF Next, ContactHandlers, MessageHandlers, MessageStep, SendMessageBegin, AckBegin,
       MsgCheckOwnBlock, MsgCheckContact, MsgCheck, MarkQueued, AckWrite, AckRollback,
       ReadRequest, BlockAndDrop, Tick, vars, msgVars, deliveryVars
  <1>3. QED
    BY <1>1, <1>2

\* The connections a step leaves alive were alive, but for a new one, which no push holds.
LEMMA StaleNextInv == MessagingInv /\ StaleAreGone /\ [Next]_vars => StaleAreGone'
  <1> SUFFICES ASSUME MessagingInv, StaleAreGone, [Next]_vars PROVE StaleAreGone'
    OBVIOUS
  <1>0. /\ conn \in [Sockets -> Conns] /\ push \in [DOMAIN push -> Pushes]
    BY DEF MessagingInv, MessagingTypeOK
  <1>1. CASE ~Deliveries /\ ~RestartServer
    BY <1>1, QuietOnConns DEF StaleAreGone
  <1>2. CASE RestartServer
    BY <1>2 DEF RestartServer, Restrict, StaleAreGone
  <1>3. ASSUME NEW id \in DOMAIN push, PushEnd(id) PROVE StaleAreGone'
    <2>1. /\ DOMAIN push' = DOMAIN push \ {id} /\ \A i \in DOMAIN push' : push'[i] = push[i]
      BY <1>3 DEF PushEnd, Restrict
    <2>2. \A i \in DOMAIN push' : push'[i].stale \subseteq Sockets
      BY <1>0, <2>1 DEF Pushes
    <2>3. \A s \in Sockets : conn'[s].alive => conn[s].alive
      BY <1>0, <1>3 DEF PushEnd, Closed, Conns
    <2>4. QED
      BY <2>1, <2>2, <2>3 DEF StaleAreGone
  <1>4. ASSUME NEW id \in DOMAIN push, NEW s \in Sockets, PushStep(id, s) PROVE StaleAreGone'
    <2>1. /\ DOMAIN push' = DOMAIN push
          /\ \A i \in DOMAIN push :
               \/ push'[i].stale = push[i].stale
               \/ ~conn[s].alive /\ push'[i].stale = push[i].stale \cup {s}
      BY <1>0, <1>4 DEF PushStep, PushTo, PushLost, Pushes
    <2>2. \A t \in Sockets : conn'[t].alive = conn[t].alive
      BY <1>0, <1>4 DEF PushStep, PushTo, PushLost, Conns
    <2>3. \A i \in DOMAIN push : push[i].stale \subseteq Sockets
      BY <1>0 DEF Pushes
    <2>4. QED
      BY <2>1, <2>2, <2>3 DEF StaleAreGone
  <1>5. ASSUME NEW s \in Sockets, NEW me \in Users, Connect(s, me) PROVE StaleAreGone'
    <2>1. push' = push /\ \A id \in DOMAIN push : s \notin push[id].stale
      BY <1>5 DEF Connect
    <2>2. \A t \in Sockets : t # s => conn'[t] = conn[t]
      BY <1>0, <1>5 DEF Connect
    <2>3. \A id \in DOMAIN push : push[id].stale \subseteq Sockets
      BY <1>0 DEF Pushes
    <2>4. QED
      BY <2>1, <2>2, <2>3 DEF StaleAreGone
  <1>6. ASSUME NEW s \in Sockets, FlushStep(s) \/ ClientGone(s) \/ Disconnect(s)
        PROVE  StaleAreGone'
    <2>1. push' = push
      BY <1>6 DEF FlushStep, FlushNext, FlushAborts, FlushDone, ClientGone, Disconnect
    <2>2. \A t \in Sockets : conn'[t].alive => conn[t].alive
      BY <1>0, <1>6 DEF FlushStep, FlushNext, FlushAborts, FlushDone, ClientGone, Disconnect,
         Closed, Conns
    <2>3. \A id \in DOMAIN push : push[id].stale \subseteq Sockets
      BY <1>0 DEF Pushes
    <2>4. QED
      BY <2>1, <2>2, <2>3 DEF StaleAreGone
  <1>7. QED
    BY <1>1, <1>2, <1>3, <1>4, <1>5, <1>6 DEF Deliveries

\* A push closes no connection of a live client, however long it takes over its sockets
\* and whatever connects meanwhile; only a flush whose next message is gone, and a restart, do.
THEOREM LiveConnectionsStay == Spec => HealthyStaysOpen
  <1> DEFINE Kept(s) ==
        conn[s].alive /\ conn'[s].phase = "closed" =>
            \/ RestartServer
            \/ conn[s].phase = "flushing" /\ conn[s].todo # {} /\ NextToFlush(s) \notin Ids
  <1>1. Init => StaleAreGone
    BY DEF Init, StaleAreGone
  <1>2. ASSUME MessagingInv, StaleAreGone, [Next]_vars PROVE \A s \in Sockets : Kept(s)
    <2> SUFFICES ASSUME NEW s \in Sockets, conn[s].alive, conn'[s].phase = "closed",
                        ~RestartServer
                 PROVE  FlushAborts(s)
      BY DEF FlushAborts
    <2>1. conn \in [Sockets -> Conns] /\ conn[s].phase # "closed"
      BY <1>2 DEF MessagingInv, MessagingTypeOK, AliveIsRegistered
    <2>2. Deliveries
      BY <1>2, <2>1, QuietOnConns
    <2>3. ASSUME NEW id \in DOMAIN push, PushEnd(id) PROVE FALSE
      BY <1>2, <2>1, <2>3 DEF PushEnd, StaleAreGone
    <2>4. ASSUME NEW id \in DOMAIN push, NEW t \in Sockets, PushStep(id, t) PROVE FALSE
      BY <2>1, <2>4 DEF PushStep, PushTo, PushLost, Conns
    <2>5. ASSUME NEW t \in Sockets, NEW me \in Users, Connect(t, me) PROVE FALSE
      BY <2>1, <2>5 DEF Connect
    <2>6. ASSUME NEW t \in Sockets, FlushNext(t) \/ FlushDone(t) \/ ClientGone(t) \/ Disconnect(t)
          PROVE  FALSE
      BY <2>1, <2>6 DEF FlushNext, FlushDone, ClientGone, Disconnect, Conns
    <2>7. ASSUME NEW t \in Sockets, FlushAborts(t) PROVE t = s
      BY <2>1, <2>7 DEF FlushAborts
    <2>8. QED
      BY <2>2, <2>3, <2>4, <2>5, <2>6, <2>7 DEF Deliveries, FlushStep
  <1>3. MessagingInv /\ StaleAreGone /\ [Next]_vars => [\A s \in Sockets : Kept(s)]_vars
    BY <1>2
  <1>4. Spec => [][\A s \in Sockets : Kept(s)]_vars
    BY <1>1, <1>3, StaleNextInv, MessagingInvariance, PTL DEF Spec
  <1>5. QED
    BY <1>4 DEF HealthyStaysOpen

-----------------------------------------------------------------------------
(* Refinement: the life of a message *)

Copies == UNION {conn[s].got : s \in Sockets}
RowStates == [id \in 1..MaxMessageId |-> Status(id)]

\* Clients were sent only messages there have been, an id is free for a handler on its
\* way to the INSERT, and the message about to be marked delivered was sent to someone.
CopiesInv ==
    /\ \A s \in Sockets : conn[s].got \cup conn[s].todo \subseteq 1..lastMessageId
    /\ lastMessageId <= MaxMessageId
    /\ msgLoop.op \in {"msg_check_own_block", "msg_check_contact", "msg_insert"}
          => lastMessageId < MaxMessageId
    /\ msgLoop.op = "ack_write" => msgLoop.id \in Copies

\* Rows may go, and copies with their connections, while nothing else about the
\* messages changes.
LEMMA DropMaps ==
    ASSUME MessagingInv, MessagingInv', CopiesInv,
           lastMessageId' = lastMessageId, Ids' \subseteq Ids,
           \A id \in Ids' : messages'[id].delivered = messages[id].delivered,
           Copies' \subseteq Copies
    PROVE  Box!MailboxNext
  <1>1. PICK gone, lost \in SUBSET (1..MaxMessageId) :
           /\ gone = {id \in 1..MaxMessageId : id \in Ids \ Ids'}
           /\ lost = {id \in 1..MaxMessageId : id \in Copies \ Copies'}
    OBVIOUS
  <1>2. lastMessageId \in Nat /\ MaxMessageId \in Nat /\ Ids \subseteq 1..lastMessageId
    BY MessagingAssumption DEF MessagingInv, MessagingTypeOK
  <1>3. Copies \subseteq 1..MaxMessageId
    BY <1>2 DEF CopiesInv, Copies
  <1>4. \A id \in gone : RowStates[id] \in {"waiting", "delivered"}
    BY <1>1, <1>2 DEF RowStates, Status
  <1>5. RowStates' = [id \in 1..MaxMessageId |-> IF id \in gone THEN "gone" ELSE RowStates[id]]
    <2>1. ASSUME NEW id \in 1..MaxMessageId
          PROVE  RowStates'[id] = IF id \in gone THEN "gone" ELSE RowStates[id]
      BY <1>1, <1>2 DEF RowStates, Status
    <2>2. QED
      BY <2>1 DEF RowStates
  <1>6. Copies' = Copies \ lost
    BY <1>1, <1>3
  <1>7. Box!Drop(gone, lost)
    BY <1>4, <1>5, <1>6 DEF Box!Drop, RowStates, Copies
  <1>8. QED
    BY <1>7 DEF Box!MailboxNext

\* A client is sent a message there has been.
LEMMA HearMaps ==
    ASSUME MessagingInv, CopiesInv, UNCHANGED tableVars, NEW s \in Sockets,
           NEW id \in 1..lastMessageId,
           \A r \in Sockets : conn'[r].got = IF r = s THEN conn[r].got \cup {id}
                                             ELSE conn[r].got
    PROVE  Box!MailboxNext
  <1>1. id \in 1..MaxMessageId /\ lastMessageId \in Nat
    BY MessagingAssumption DEF MessagingInv, MessagingTypeOK, CopiesInv
  <1>2. RowStates' = RowStates /\ RowStates[id] # "unsent"
    BY <1>1 DEF RowStates, Status, tableVars, Ids
  <1>3. Copies' = Copies \cup {id}
    <2>1. \A x : x \in Copies' <=> \E r \in Sockets : x \in conn'[r].got
      BY DEF Copies
    <2>2. \A x : x \in Copies <=> \E r \in Sockets : x \in conn[r].got
      BY DEF Copies
    <2>3. ASSUME NEW x PROVE x \in Copies' <=> x \in Copies \cup {id}
      BY <2>1, <2>2
    <2>4. QED
      BY <2>3
  <1>4. Box!Hear(id)
    BY <1>2, <1>3 DEF Box!Hear, RowStates, Copies
  <1>5. QED
    BY <1>1, <1>4 DEF Box!MailboxNext

\* The INSERT takes the next id.
LEMMA InsertMaps ==
    ASSUME MessagingInv, CopiesInv, InsertMessage PROVE Box!MailboxNext
  <1> DEFINE new == lastMessageId + 1
  <1>1. /\ lastMessageId \in Nat /\ MaxMessageId \in Nat /\ Ids \subseteq 1..lastMessageId
        /\ lastMessageId < MaxMessageId
    BY MessagingAssumption DEF MessagingInv, MessagingTypeOK, CopiesInv, InsertMessage
  <1>2. /\ lastMessageId' = new /\ Ids' = Ids \cup {new} /\ ~messages'[new].delivered
        /\ \A id \in Ids : messages'[id] = messages[id]
        /\ conn' = conn
    BY <1>1 DEF InsertMessage, Ids
  <1>3. new \in 1..MaxMessageId /\ new \notin Ids
    BY <1>1
  <1>4. RowStates[new] = "unsent" /\ \A id \in 1..MaxMessageId : id < new => RowStates[id] # "unsent"
    BY <1>1, <1>3 DEF RowStates, Status
  <1>5. RowStates' = [RowStates EXCEPT ![new] = "waiting"]
    <2>1. ASSUME NEW id \in 1..MaxMessageId
          PROVE  RowStates'[id] = IF id = new THEN "waiting" ELSE RowStates[id]
      BY <1>1, <1>2, <1>3 DEF RowStates, Status
    <2>2. QED
      BY <2>1, <1>3 DEF RowStates
  <1> HIDE DEF new
  <1>6. Box!Send(new)
    BY <1>2, <1>4, <1>5 DEF Box!Send, RowStates, Copies
  <1>7. QED
    BY <1>3, <1>6 DEF Box!MailboxNext

\* The write of an acknowledgement marks a message that was sent and is waiting.
LEMMA AckMaps ==
    ASSUME MessagingInv, CopiesInv, AckWrite PROVE Box!MailboxNext
  <1>1. PICK id \in Ids : id = msgLoop.id
    BY DEF AckWrite
  <1>2. /\ lastMessageId \in Nat /\ Ids \subseteq 1..lastMessageId /\ lastMessageId <= MaxMessageId
        /\ messages \in [Ids -> Messages] /\ MaxMessageId \in Nat
    BY MessagingAssumption DEF MessagingInv, MessagingTypeOK, CopiesInv
  <1>3. id \in 1..MaxMessageId /\ id <= lastMessageId
    BY <1>2
  <1>4. id \in Copies /\ ~messages[id].delivered
    BY <1>1 DEF AckWrite, CopiesInv, MessagingInv, AckIsFirst
  <1>5. /\ Ids' = Ids /\ messages'[id].delivered /\ lastMessageId' = lastMessageId /\ conn' = conn
        /\ \A other \in Ids : other # id => messages'[other] = messages[other]
    BY <1>1, <1>2 DEF AckWrite, SetRow, Ids, deliveryVars, Messages
  <1>6. RowStates[id] = "waiting"
    BY <1>2, <1>3, <1>4 DEF RowStates, Status
  <1>7. RowStates' = [RowStates EXCEPT ![id] = "delivered"]
    <2>1. ASSUME NEW other \in 1..MaxMessageId
          PROVE  RowStates'[other] = IF other = id THEN "delivered" ELSE RowStates[other]
      BY <1>2, <1>3, <1>5 DEF RowStates, Status
    <2>2. QED
      BY <2>1, <1>3 DEF RowStates
  <1>8. Box!Deliver(id)
    BY <1>4, <1>5, <1>6, <1>7 DEF Box!Deliver, RowStates, Copies
  <1>9. QED
    BY <1>3, <1>8 DEF Box!MailboxNext

CheckSteps == {"msg_check_own_block", "msg_check_contact", "msg_insert"}

\* A step that sends no message to a client and writes no new row.
LEMMA QuietMaps ==
    ASSUME MessagingInv, MessagingInv', CopiesInv,
           lastMessageId' = lastMessageId, Ids' \subseteq Ids,
           \A id \in Ids' : messages'[id].delivered = messages[id].delivered,
           \A s \in Sockets : /\ conn'[s].got \subseteq conn[s].got
                             /\ conn'[s].todo \subseteq 1..lastMessageId,
           msgLoop'.op \in CheckSteps => lastMessageId < MaxMessageId,
           msgLoop'.op = "ack_write" => msgLoop'.id \in Copies'
    PROVE  CopiesInv' /\ Box!MailboxNext
  <1>1. Copies' \subseteq Copies
    <2>1. \A x : x \in Copies' <=> \E s \in Sockets : x \in conn'[s].got
      BY DEF Copies
    <2>2. \A x : x \in Copies <=> \E s \in Sockets : x \in conn[s].got
      BY DEF Copies
    <2>3. ASSUME NEW x \in Copies' PROVE x \in Copies
      BY <2>1, <2>2
    <2>4. QED
      BY <2>3
  <1>2. CopiesInv'
    <2>1. \A s \in Sockets : conn[s].got \subseteq 1..lastMessageId
      BY DEF CopiesInv
    <2>2. lastMessageId <= MaxMessageId
      BY DEF CopiesInv
    <2>3. QED
      BY <2>1, <2>2 DEF CopiesInv, CheckSteps
  <1>3. QED
    BY <1>1, <1>2, DropMaps

\* The handlers that do not send: they sweep, check, or write another column.
LEMMA QuietHandlersMap ==
    ASSUME MessagingInv, MessagingInv', CopiesInv,
           \/ \E me, target \in Users, ttl \in TTLs : SendMessageBegin(me, target, ttl)
           \/ \E me \in Users, id \in 1..lastMessageId : AckBegin(me, id)
           \/ MsgCheckOwnBlock \/ MsgCheckContact \/ MarkQueued \/ AckRollback
           \/ ReadRequest
           \/ \E me, target \in Users : BlockAndDrop(me, target)
           \/ ContactHandlers \/ Tick \/ UNCHANGED vars
    PROVE  CopiesInv' /\ Box!MailboxNext
  <1>1. conn' = conn /\ lastMessageId' = lastMessageId
    BY DEF SendMessageBegin, AckBegin, MsgCheckOwnBlock, MsgCheckContact, MsgCheck,
       MarkQueued, AckRollback, ReadRequest, BlockAndDrop, ContactHandlers, Tick, vars,
       msgVars, tableVars, deliveryVars
  <1>2. \A s \in Sockets : /\ conn'[s].got \subseteq conn[s].got
                          /\ conn'[s].todo \subseteq 1..lastMessageId
    BY <1>1 DEF CopiesInv
  <1>3. Ids' \subseteq Ids /\ \A id \in Ids' : messages'[id].delivered = messages[id].delivered
    <2>1. Sweep => Ids' \subseteq Ids /\ \A id \in Ids' : messages'[id] = messages[id]
      BY SweepKeeps
    <2>2. ASSUME NEW me \in Users, NEW target \in Users, BlockAndDrop(me, target)
          PROVE  Ids' \subseteq Ids /\ \A id \in Ids' : messages'[id] = messages[id]
      <3> DEFINE gone == {id \in Undelivered(messages, me) : messages[id].from = target}
      <3>1. DeleteMessages(gone) /\ gone \subseteq Ids
        BY <2>2 DEF BlockAndDrop, Undelivered, Ids
      <3> HIDE DEF gone
      <3>2. QED
        BY <3>1, DeleteKeeps DEF MessagingInv
    <2>3. MarkQueued => Ids' = Ids /\ \A id \in Ids : messages'[id].delivered = messages[id].delivered
      <3>1. messages \in [Ids -> Messages]
        BY DEF MessagingInv, MessagingTypeOK
      <3>2. QED
        BY <3>1 DEF MarkQueued, SetRow, Ids, Messages
    <2>4. MsgCheckOwnBlock \/ MsgCheckContact \/ AckRollback \/ ContactHandlers \/ Tick
             \/ UNCHANGED vars => messages' = messages /\ Ids' = Ids
      BY DEF MsgCheckOwnBlock, MsgCheckContact, MsgCheck, AckRollback, ContactHandlers, Tick,
         vars, msgVars, tableVars, Ids
    <2>5. QED
      BY <2>1, <2>2, <2>3, <2>4 DEF SendMessageBegin, AckBegin, ReadRequest
  <1>4. /\ msgLoop'.op \in CheckSteps => lastMessageId < MaxMessageId
        /\ msgLoop'.op = "ack_write" => msgLoop'.id \in Copies
    <2>1. ASSUME NEW me \in Users, NEW target \in Users, NEW ttl \in TTLs,
                 SendMessageBegin(me, target, ttl)
          PROVE  lastMessageId < MaxMessageId /\ msgLoop'.op # "ack_write"
      BY <2>1 DEF SendMessageBegin
    <2>2. ASSUME NEW me \in Users, NEW id \in 1..lastMessageId, AckBegin(me, id)
          PROVE  /\ msgLoop'.op \notin CheckSteps
                 /\ msgLoop'.op = "ack_write" => msgLoop'.id \in Copies
      <3>1. id \in Copies
        BY <2>2 DEF AckBegin, Received, Copies
      <3>2. msgLoop' = [op |-> "ack_write", id |-> id] \/ msgLoop' = Idle
        BY <2>2 DEF AckBegin
      <3>3. QED
        BY <3>1, <3>2 DEF Idle, CheckSteps
    <2>3. ASSUME MsgCheckOwnBlock \/ MsgCheckContact
          PROVE  lastMessageId < MaxMessageId /\ msgLoop'.op # "ack_write"
      <3>1. msgLoop \in MsgTasks \cup {Idle} /\ lastMessageId < MaxMessageId
        BY <2>3 DEF MsgCheckOwnBlock, MsgCheckContact, MsgCheck, CopiesInv, MessagingInv,
           MessagingTypeOK
      <3>2. QED
        BY <2>3, <3>1 DEF MsgCheckOwnBlock, MsgCheckContact, MsgCheck, MsgTasks, Idle
    <2>4. ASSUME MarkQueued \/ AckRollback PROVE msgLoop' = Idle
      BY <2>4 DEF MarkQueued, AckRollback
    <2>5. ASSUME ReadRequest \/ (\E me, target \in Users : BlockAndDrop(me, target))
                 \/ ContactHandlers \/ Tick \/ UNCHANGED vars
          PROVE  msgLoop' = msgLoop
      BY <2>5 DEF ReadRequest, BlockAndDrop, ContactHandlers, Tick, vars, msgVars
    <2>6. QED
      BY <2>1, <2>2, <2>3, <2>4, <2>5 DEF CopiesInv, Idle, CheckSteps
  <1>5. Copies' = Copies
    BY <1>1 DEF Copies
  <1>6. QED
    BY <1>1, <1>2, <1>3, <1>4, <1>5, QuietMaps

\* Connections that open, close or lose their client, and a restart of the server.
LEMMA ConnectionsMap ==
    ASSUME MessagingInv, MessagingInv', CopiesInv,
           \/ \E s \in Sockets, me \in Users : Connect(s, me)
           \/ \E s \in Sockets : FlushAborts(s) \/ FlushDone(s) \/ ClientGone(s) \/ Disconnect(s)
           \/ \E id \in DOMAIN push : PushEnd(id) \/ \E s \in Sockets : PushLost(id, s)
           \/ RestartServer
    PROVE  CopiesInv' /\ Box!MailboxNext
  <1>1. conn \in [Sockets -> Conns] /\ Ids \subseteq 1..lastMessageId
    BY DEF MessagingInv, MessagingTypeOK
  <1>2. lastMessageId' = lastMessageId
    BY DEF Connect, FlushAborts, FlushDone, ClientGone, Disconnect, PushEnd, PushLost,
       RestartServer, tableVars
  <1>3. Ids' \subseteq Ids /\ \A id \in Ids' : messages'[id] = messages[id]
    <2>1. Sweep => Ids' \subseteq Ids /\ \A id \in Ids' : messages'[id] = messages[id]
      BY SweepKeeps
    <2>2. RestartServer => Ids' \subseteq Ids /\ \A id \in Ids' : messages'[id] = messages[id]
      <3>1. ExpiredIds \subseteq Ids
        BY DEF ExpiredIds
      <3>2. QED
        BY <3>1, DeleteKeeps DEF RestartServer, MessagingInv
    <2>3. QED
      BY <2>1, <2>2 DEF Connect, FlushAborts, FlushDone, ClientGone, Disconnect, PushEnd,
         PushLost, tableVars, Ids
  <1>4. \A s \in Sockets : Closed(conn[s]).got = conn[s].got /\ Closed(conn[s]).todo = {}
    BY <1>1 DEF Closed, Conns
  <1>5. \A s \in Sockets : /\ conn'[s].got \subseteq conn[s].got
                          /\ conn'[s].todo \subseteq 1..lastMessageId
    <2>1. ASSUME NEW s \in Sockets, NEW me \in Users, Connect(s, me)
          PROVE  \A r \in Sockets : /\ conn'[r].got \subseteq conn[r].got
                                   /\ conn'[r].todo \subseteq 1..lastMessageId
      <3>1. Undelivered(messages', me) \subseteq 1..lastMessageId
        BY <1>1, <1>3 DEF Undelivered, Ids
      <3>2. QED
        BY <2>1, <3>1, <1>1 DEF Connect, CopiesInv
    <2>2. ASSUME NEW s \in Sockets, FlushAborts(s) \/ Disconnect(s)
          PROVE  conn' = [conn EXCEPT ![s] = Closed(conn[s])]
      BY <2>2 DEF FlushAborts, Disconnect
    <2>3. ASSUME NEW s \in Sockets, FlushDone(s) \/ ClientGone(s)
          PROVE  \A r \in Sockets : conn'[r].got = conn[r].got /\ conn'[r].todo = conn[r].todo
      BY <2>3, <1>1 DEF FlushDone, ClientGone, Conns
    <2>4. ASSUME NEW id \in DOMAIN push, PushEnd(id)
          PROVE  \A r \in Sockets : conn'[r] = conn[r] \/ conn'[r] = Closed(conn[r])
      BY <2>4 DEF PushEnd
    <2>5. RestartServer => \A r \in Sockets : conn'[r] = Closed(conn[r])
      BY DEF RestartServer
    <2>6. ASSUME NEW id \in DOMAIN push, NEW s \in Sockets, PushLost(id, s) PROVE conn' = conn
      BY <2>6 DEF PushLost
    <2>7. \A s \in Sockets : conn[s].todo \subseteq 1..lastMessageId
      BY DEF CopiesInv
    <2>8. QED
      BY <2>1, <2>2, <2>3, <2>4, <2>5, <2>6, <2>7, <1>1, <1>4
  <1>6. Copies' = Copies \/ LoopFree \/ msgLoop' = Idle
    <2>1. ASSUME NEW s \in Sockets, ClientGone(s) PROVE Copies' = Copies
      <3>1. \A r \in Sockets : conn'[r].got = conn[r].got
        BY <2>1, <1>1 DEF ClientGone, Conns
      <3>2. QED
        BY <3>1 DEF Copies
    <2>2. ASSUME NEW s \in Sockets, NEW me \in Users,
                 Connect(s, me) \/ FlushAborts(s) \/ FlushDone(s) \/ Disconnect(s)
          PROVE  LoopFree
      BY <2>2 DEF Connect, FlushAborts, FlushDone, Disconnect
    <2>3. ASSUME NEW id \in DOMAIN push, NEW s \in Sockets, PushEnd(id) \/ PushLost(id, s)
          PROVE  LoopFree
      BY <2>3 DEF PushEnd, PushLost
    <2>4. ASSUME NEW id \in DOMAIN push, PushEnd(id) PROVE LoopFree
      BY <2>4 DEF PushEnd
    <2>5. ASSUME NEW s \in Sockets, FlushAborts(s) \/ FlushDone(s) \/ Disconnect(s)
          PROVE  LoopFree
      BY <2>5 DEF FlushAborts, FlushDone, Disconnect
    <2>6. RestartServer => msgLoop' = Idle
      BY DEF RestartServer
    <2>7. QED
      BY <2>1, <2>2, <2>3, <2>4, <2>5, <2>6
  <1>7. msgLoop' \in {msgLoop, Idle} \/ msgLoop'.op = "mark_queued"
    <2>1. ASSUME NEW s \in Sockets, NEW me \in Users,
                 Connect(s, me) \/ FlushAborts(s) \/ FlushDone(s) \/ ClientGone(s) \/ Disconnect(s)
          PROVE  msgLoop' = msgLoop
      BY <2>1 DEF Connect, FlushAborts, FlushDone, ClientGone, Disconnect
    <2>2. ASSUME NEW s \in Sockets, FlushAborts(s) \/ FlushDone(s) \/ ClientGone(s) \/ Disconnect(s)
          PROVE  msgLoop' = msgLoop
      BY <2>2 DEF FlushAborts, FlushDone, ClientGone, Disconnect
    <2>3. ASSUME NEW id \in DOMAIN push, NEW s \in Sockets, PushLost(id, s)
          PROVE  msgLoop' = msgLoop
      BY <2>3 DEF PushLost
    <2>4. ASSUME NEW id \in DOMAIN push, PushEnd(id)
          PROVE  msgLoop' = Idle \/ msgLoop'.op = "mark_queued"
      BY <2>4 DEF PushEnd
    <2>5. RestartServer => msgLoop' = Idle
      BY DEF RestartServer
    <2>6. QED
      BY <2>1, <2>2, <2>3, <2>4, <2>5
  <1>8. /\ msgLoop'.op \in CheckSteps => lastMessageId < MaxMessageId
        /\ msgLoop'.op = "ack_write" => msgLoop'.id \in Copies'
    <2>1. Idle.op \notin CheckSteps \cup {"ack_write"}
      BY DEF Idle, CheckSteps
    <2>2. LoopFree => msgLoop = Idle
      BY DEF LoopFree
    <2>3. CASE msgLoop' = Idle
      BY <2>1, <2>3
    <2>4. CASE msgLoop'.op = "mark_queued"
      BY <2>4 DEF CheckSteps
    <2>5. CASE msgLoop' = msgLoop /\ msgLoop # Idle
      <3>1. Copies' = Copies
        BY <1>6, <2>2, <2>5
      <3>2. QED
        BY <2>5, <3>1 DEF CopiesInv, CheckSteps
    <2>6. QED
      BY <1>7, <2>3, <2>4, <2>5
  <1>9. QED
    BY <1>2, <1>3, <1>5, <1>8, QuietMaps

\* A client is sent a message by a push or by the flush of its connection.
LEMMA SendingMaps ==
    ASSUME MessagingInv, MessagingInv', CopiesInv, NEW s \in Sockets,
           FlushNext(s) \/ \E id \in DOMAIN push : PushTo(id, s)
    PROVE  CopiesInv' /\ Box!MailboxNext
  <1>1. /\ conn \in [Sockets -> Conns] /\ Ids \subseteq 1..lastMessageId
        /\ DOMAIN push \subseteq 1..lastMessageId
    BY DEF MessagingInv, MessagingTypeOK
  <1>2. UNCHANGED tableVars /\ msgLoop' = msgLoop /\ msgLoop = Idle
    BY DEF FlushNext, PushTo, LoopFree
  <1>3. Idle.op \notin CheckSteps \cup {"ack_write"}
    BY DEF Idle, CheckSteps
  <1>4. ASSUME NEW id \in Ids \cup DOMAIN push,
               \A r \in Sockets :
                  /\ conn'[r].got = IF r = s THEN conn[r].got \cup {id} ELSE conn[r].got
                  /\ conn'[r].todo \subseteq conn[r].todo
        PROVE  CopiesInv' /\ Box!MailboxNext
    <2>1. id \in 1..lastMessageId
      BY <1>1
    <2>2. Box!MailboxNext
      BY <1>2, <1>4, <2>1, HearMaps
    <2>3. CopiesInv'
      BY <1>2, <1>3, <1>4, <2>1 DEF CopiesInv, CheckSteps, tableVars
    <2>4. QED
      BY <2>2, <2>3
  <1>5. ASSUME NEW id \in DOMAIN push, PushTo(id, s) PROVE CopiesInv' /\ Box!MailboxNext
    <2>1. \A r \in Sockets :
             /\ conn'[r].got = IF r = s THEN conn[r].got \cup {id} ELSE conn[r].got
             /\ conn'[r].todo \subseteq conn[r].todo
      BY <1>1, <1>5 DEF PushTo, Conns
    <2>2. QED
      BY <1>4, <2>1
  <1>6. ASSUME FlushNext(s), conn[s].alive PROVE CopiesInv' /\ Box!MailboxNext
    <2>1. PICK id \in Ids : id = NextToFlush(s)
      BY <1>6 DEF FlushNext
    <2>2. \A r \in Sockets :
             /\ conn'[r].got = IF r = s THEN conn[r].got \cup {id} ELSE conn[r].got
             /\ conn'[r].todo \subseteq conn[r].todo
      BY <1>1, <1>6, <2>1 DEF FlushNext, Conns
    <2>3. QED
      BY <1>4, <2>2
  <1>7. ASSUME FlushNext(s), ~conn[s].alive PROVE CopiesInv' /\ Box!MailboxNext
    <2>1. \A r \in Sockets : /\ conn'[r].got = conn[r].got
                            /\ conn'[r].todo \subseteq conn[r].todo
      BY <1>1, <1>7 DEF FlushNext, Conns
    <2>2. \A r \in Sockets : /\ conn'[r].got \subseteq conn[r].got
                            /\ conn'[r].todo \subseteq 1..lastMessageId
      BY <2>1 DEF CopiesInv
    <2>3. lastMessageId' = lastMessageId /\ messages' = messages /\ Ids' = Ids
      BY <1>2 DEF tableVars, Ids
    <2>4. QED
      BY <1>2, <1>3, <2>2, <2>3, QuietMaps
  <1>8. QED
    BY <1>5, <1>6, <1>7

\* The two writes keep what the mapping rests on.
LEMMA WritesKeepCopies ==
    ASSUME MessagingInv, MessagingInv', CopiesInv, InsertMessage \/ AckWrite
    PROVE  CopiesInv'
  <1>1. lastMessageId \in Nat /\ MaxMessageId \in Nat /\ conn' = conn
    BY MessagingAssumption DEF MessagingInv, MessagingTypeOK, InsertMessage, AckWrite, deliveryVars
  <1>2. lastMessageId' \in lastMessageId..MaxMessageId
    BY <1>1 DEF CopiesInv, InsertMessage, AckWrite
  <1>3. msgLoop'.op \notin {"msg_check_own_block", "msg_check_contact", "msg_insert", "ack_write"}
    BY DEF InsertMessage, AckWrite, Idle
  <1>4. 1..lastMessageId \subseteq 1..lastMessageId'
    BY <1>1, <1>2
  <1>5. QED
    BY <1>1, <1>2, <1>3, <1>4 DEF CopiesInv

\* The messages table, with the copies clients hold, implements the life of a message.
THEOREM MessagesImplementMailbox == Spec => ImplementsMailbox
  <1>1. Init => CopiesInv /\ Box!MailboxInit
    <2> SUFFICES ASSUME Init PROVE CopiesInv /\ Box!MailboxInit
      OBVIOUS
    <2>1. \A s \in Sockets : conn[s].got = {} /\ conn[s].todo = {}
      BY DEF Init
    <2>2. lastMessageId = 0 /\ MaxMessageId \in Nat /\ msgLoop = Idle
      BY MessagingAssumption DEF Init
    <2>3. CopiesInv
      BY <2>1, <2>2 DEF CopiesInv, Idle
    <2>4. RowStates = [id \in 1..MaxMessageId |-> "unsent"] /\ Copies = {}
      BY <2>1, <2>2 DEF RowStates, Copies, Status
    <2>5. QED
      BY <2>3, <2>4 DEF Box!MailboxInit, RowStates, Copies
  <1>2. MessagingInv /\ MessagingInv' /\ CopiesInv /\ [Next]_vars
           => CopiesInv' /\ Box!MailboxNext
    <2> SUFFICES ASSUME MessagingInv, MessagingInv', CopiesInv, [Next]_vars
                 PROVE  CopiesInv' /\ Box!MailboxNext
      OBVIOUS
    <2>1. CASE ContactHandlers \/ Tick \/ UNCHANGED vars
      BY <2>1, QuietHandlersMap
    <2>2. CASE MessageHandlers
      BY <2>2, QuietHandlersMap, InsertMaps, AckMaps, WritesKeepCopies
         DEF MessageHandlers, MessageStep
    <2>3. CASE Deliveries
      BY <2>3, ConnectionsMap, SendingMaps DEF Deliveries, PushStep, FlushStep
    <2>4. CASE RestartServer
      BY <2>4, ConnectionsMap
    <2>5. QED
      BY <2>1, <2>2, <2>3, <2>4 DEF Next
  <1>3. Spec => Box!MailboxInit /\ [][Box!MailboxNext]_(Box!mailbox)
    BY <1>1, <1>2, MessagingInvariance, PTL DEF Spec
  <1>4. QED
    BY <1>3 DEF ImplementsMailbox, Box!MailboxSpec

-----------------------------------------------------------------------------
(* Blocks that overlap no message of the blocked user *)

\* A message of a to b has been let through by the first check and is not yet inserted.
Sending(a, b) ==
    msgLoop.op \in CheckSteps /\ msgLoop.from = a /\ msgLoop.to = b

DropAlone == \A me, target \in Users : BlockAndDrop(me, target) => ~Sending(target, me)

\* Nothing waits for a blocker, and the message about to be inserted will not.
DropInv ==
    /\ BlockedMessagesAreDropped
    /\ msgLoop.op \in CheckSteps => ~IsBlocked(msgLoop.to, msgLoop.from)

\* Rows may go or become delivered; blocks may be lifted.
LEMMA DropsKept ==
    ASSUME DropInv, blocks' \subseteq blocks, Ids' \subseteq Ids,
           \A id \in Ids' : /\ messages'[id].from = messages[id].from
                            /\ messages'[id].to = messages[id].to
                            /\ messages[id].delivered => messages'[id].delivered,
           \/ msgLoop' = msgLoop
           \/ msgLoop'.op \notin CheckSteps
           \/ ~IsBlocked(msgLoop'.to, msgLoop'.from)
    PROVE  DropInv'
  BY DEF DropInv, BlockedMessagesAreDropped, IsBlocked

\* The handlers of a message and of its acknowledgement.
LEMMA MessageStepDropInv == MessagingInv /\ DropInv /\ MessageStep => DropInv'
  <1> SUFFICES ASSUME MessagingInv, DropInv, MessageStep PROVE DropInv'
    OBVIOUS
  <1>1. blocks' = blocks
    BY DEF MessageStep, MsgCheckOwnBlock, MsgCheckContact, MsgCheck, InsertMessage,
       MarkQueued, AckWrite, AckRollback, contactVars
  <1>2. /\ messages \in [Ids -> Messages] /\ Ids \subseteq 1..lastMessageId
        /\ lastMessageId \in Nat /\ msgLoop \in MsgTasks \cup {Idle}
    BY DEF MessagingInv, MessagingTypeOK
  <1>3. CASE MsgCheckOwnBlock \/ MsgCheckContact
    <2>1. messages' = messages /\ Ids' = Ids
      BY <1>3 DEF MsgCheckOwnBlock, MsgCheckContact, MsgCheck, tableVars, Ids
    <2>2. msgLoop.op \in CheckSteps
      BY <1>3 DEF MsgCheckOwnBlock, MsgCheckContact, MsgCheck, CheckSteps
    <2>3. \/ msgLoop' = Idle
          \/ msgLoop'.from = msgLoop.from /\ msgLoop'.to = msgLoop.to
      BY <1>2, <1>3, <2>2
         DEF MsgCheckOwnBlock, MsgCheckContact, MsgCheck, MsgTasks, Idle, CheckSteps
    <2>4. msgLoop'.op \notin CheckSteps \/ ~IsBlocked(msgLoop'.to, msgLoop'.from)
      BY <2>2, <2>3 DEF DropInv, Idle, CheckSteps
    <2>5. QED
      BY <1>1, <2>1, <2>4, DropsKept
  <1>4. CASE InsertMessage
    <2> DEFINE new == lastMessageId + 1
    <2>1. /\ Ids' = Ids \cup {new}
          /\ \A id \in Ids : messages'[id] = messages[id]
          /\ messages'[new].from = msgLoop.from /\ messages'[new].to = msgLoop.to
      BY <1>2, <1>4 DEF InsertMessage, Ids
    <2>2. msgLoop'.op \notin CheckSteps
      BY <1>4 DEF InsertMessage, Idle, CheckSteps
    <2>3. ~IsBlocked(msgLoop.to, msgLoop.from)
      BY <1>4 DEF InsertMessage, DropInv, CheckSteps
    <2> HIDE DEF new
    <2>4. QED
      BY <1>1, <2>1, <2>2, <2>3 DEF DropInv, BlockedMessagesAreDropped, IsBlocked
  <1>5. CASE MarkQueued \/ AckWrite \/ AckRollback
    <2>1. msgLoop'.op \notin CheckSteps
      BY <1>5 DEF MarkQueued, AckWrite, AckRollback, Idle, CheckSteps
    <2>2. CASE AckRollback \/ UNCHANGED messages
      BY <1>1, <2>1, <2>2, DropsKept DEF AckRollback, tableVars, Ids
    <2>3. ASSUME NEW row, msgLoop.id \in Ids, SetRow(msgLoop.id, row),
                 row.from = messages[msgLoop.id].from, row.to = messages[msgLoop.id].to,
                 messages[msgLoop.id].delivered => row.delivered
          PROVE  DropInv'
      <3>1. /\ Ids' = Ids
            /\ \A id \in Ids : messages'[id] = IF id = msgLoop.id THEN row ELSE messages[id]
        BY <1>2, <2>3 DEF SetRow, Ids
      <3>2. QED
        BY <1>1, <2>1, <2>3, <3>1, DropsKept
    <2>4. CASE MarkQueued /\ msgLoop.id \in Ids
      <3> DEFINE row == [messages[msgLoop.id] EXCEPT !.queued = TRUE]
      <3>1. /\ row.delivered = messages[msgLoop.id].delivered
            /\ row.from = messages[msgLoop.id].from /\ row.to = messages[msgLoop.id].to
        BY <1>2, <2>4 DEF Messages
      <3>2. SetRow(msgLoop.id, row)
        BY <2>4 DEF MarkQueued
      <3> HIDE DEF row
      <3>3. QED
        BY <2>3, <2>4, <3>1, <3>2
    <2>5. CASE AckWrite
      <3> DEFINE row == [messages[msgLoop.id] EXCEPT
                           !.delivered = TRUE, !.queued = FALSE, !.receipts = @ + 1]
      <3>1. /\ msgLoop.id \in Ids /\ row.delivered
            /\ row.from = messages[msgLoop.id].from /\ row.to = messages[msgLoop.id].to
        BY <1>2, <2>5 DEF AckWrite, Messages
      <3>2. SetRow(msgLoop.id, row)
        BY <2>5 DEF AckWrite
      <3> HIDE DEF row
      <3>3. QED
        BY <2>3, <3>1, <3>2
    <2>6. QED
      BY <1>5, <2>2, <2>4, <2>5 DEF MarkQueued
  <1>6. QED
    BY <1>3, <1>4, <1>5 DEF MessageStep

\* block_user drops what waits for the blocker in the transaction that adds the block.
LEMMA BlockAndDropDropInv ==
    ASSUME MessagingInv, DropInv, NEW me \in Users, NEW target \in Users,
           BlockAndDrop(me, target), ~Sending(target, me)
    PROVE  DropInv'
  <1> DEFINE gone == {id \in Undelivered(messages, me) : messages[id].from = target}
  <1>1. DeleteMessages(gone) /\ gone \subseteq Ids
    BY DEF BlockAndDrop, Undelivered, Ids
  <1>2. \A id \in Ids \ gone :
          messages[id].to = me /\ messages[id].from = target => messages[id].delivered
    BY DEF Undelivered, Ids
  <1> HIDE DEF gone
  <1>3. Ids' = Ids \ gone /\ \A id \in Ids' : messages'[id] = messages[id]
    BY <1>1, DeleteKeeps DEF MessagingInv
  <1>4. blocks' = blocks \cup {<<me, target>>} /\ msgLoop' = msgLoop
    BY DEF BlockAndDrop, BlockUser
  <1>5. BlockedMessagesAreDropped'
    BY <1>2, <1>3, <1>4 DEF DropInv, BlockedMessagesAreDropped, IsBlocked
  <1>6. (msgLoop.op \in CheckSteps => ~IsBlocked(msgLoop.to, msgLoop.from))'
    BY <1>4 DEF DropInv, IsBlocked, Sending
  <1>7. QED
    BY <1>5, <1>6 DEF DropInv

LEMMA DropNextInv ==
    MessagingInv /\ DropInv /\ [Next]_vars /\ [DropAlone]_vars => DropInv'
  <1> SUFFICES ASSUME MessagingInv, DropInv, [Next]_vars, [DropAlone]_vars PROVE DropInv'
    OBVIOUS
  <1>1. Sweep => Ids' \subseteq Ids /\ \A id \in Ids' : messages'[id] = messages[id]
    BY SweepKeeps
  <1>2. CASE UNCHANGED vars
    BY <1>2, DropsKept DEF vars, contactVars, msgVars, tableVars, Ids
  <1>3. CASE ContactHandlers
    <2>1. blocks' \subseteq blocks
      BY <1>3 DEF ContactHandlers, LoopStep, ThreadStep, SendBegin, SendStep, SendCheckOwnBlock,
         SendCheckContact, SendCheckPending, SendCheck, SendInsert, RespondRead, AnswerStep,
         AcceptCommit, AcceptAbort, DeclineCommit, CancelRead, CancelCommit, RemoveContact,
         UnblockUser
    <2>2. messages' = messages /\ Ids' = Ids /\ msgLoop' = msgLoop
      BY <1>3 DEF ContactHandlers, msgVars, tableVars, Ids
    <2>3. QED
      BY <2>1, <2>2, DropsKept
  <1>4. CASE MessageHandlers
    <2>1. ASSUME NEW me \in Users, NEW target \in Users, NEW ttl \in TTLs,
                 SendMessageBegin(me, target, ttl)
          PROVE  DropInv'
      <3>1. blocks' = blocks /\ Sweep /\ ~IsBlocked(msgLoop'.to, msgLoop'.from)
        BY <2>1 DEF SendMessageBegin, contactVars, IsBlocked
      <3>2. QED
        BY <1>1, <3>1, DropsKept
    <2>2. ASSUME NEW me \in Users, NEW id \in 1..lastMessageId, AckBegin(me, id)
          PROVE  DropInv'
      <3>1. blocks' = blocks /\ Sweep /\ msgLoop'.op \notin CheckSteps
        BY <2>2 DEF AckBegin, contactVars, Idle, CheckSteps
      <3>2. QED
        BY <1>1, <3>1, DropsKept
    <2>3. CASE ReadRequest
      BY <1>1, <2>3, DropsKept DEF ReadRequest, contactVars
    <2>4. ASSUME NEW me \in Users, NEW target \in Users, BlockAndDrop(me, target)
          PROVE  DropInv'
      <3>1. CASE UNCHANGED vars
        BY <1>2, <3>1
      <3>2. CASE DropAlone
        BY <2>4, <3>2, BlockAndDropDropInv DEF DropAlone
      <3>3. QED
        BY <3>1, <3>2
    <2>5. QED
      BY <1>4, <2>1, <2>2, <2>3, <2>4, MessageStepDropInv DEF MessageHandlers
  <1>5. CASE Deliveries
    <2>1. blocks' = blocks
      BY <1>5 DEF Deliveries, PushEnd, PushStep, PushTo, PushLost, Connect, FlushStep,
         FlushNext, FlushAborts, FlushDone, ClientGone, Disconnect, contactVars
    <2>2. Sweep \/ UNCHANGED messages
      BY <1>5 DEF Deliveries, PushEnd, PushStep, PushTo, PushLost, Connect, FlushStep,
         FlushNext, FlushAborts, FlushDone, ClientGone, Disconnect, tableVars
    <2>3. msgLoop' = msgLoop \/ msgLoop'.op \notin CheckSteps
      <3>1. ASSUME NEW id \in DOMAIN push, PushEnd(id) PROVE msgLoop'.op \notin CheckSteps
        BY <3>1 DEF PushEnd, Idle, CheckSteps
      <3>2. (\E id \in DOMAIN push : PushEnd(id)) \/ msgLoop' = msgLoop
        BY <1>5 DEF Deliveries, PushStep, PushTo, PushLost, Connect, FlushStep, FlushNext,
           FlushAborts, FlushDone, ClientGone, Disconnect
      <3>3. QED
        BY <3>1, <3>2
    <2>4. QED
      BY <1>1, <2>1, <2>2, <2>3, DropsKept DEF Ids
  <1>6. CASE RestartServer
    <2>1. blocks' = blocks /\ msgLoop'.op \notin CheckSteps
      BY <1>6 DEF RestartServer, Restart, Idle, CheckSteps
    <2>2. Ids' \subseteq Ids /\ \A id \in Ids' : messages'[id] = messages[id]
      <3>1. ExpiredIds \subseteq Ids /\ DeleteMessages(ExpiredIds)
        BY <1>6 DEF RestartServer, ExpiredIds
      <3>2. QED
        BY <3>1, DeleteKeeps DEF MessagingInv
    <2>3. QED
      BY <2>1, <2>2, DropsKept
  <1>7. CASE Tick
    BY <1>7, DropsKept DEF Tick, contactVars, tableVars, Ids
  <1>8. QED
    BY <1>2, <1>3, <1>4, <1>5, <1>6, <1>7 DEF Next

\* What the documentation says of blocking and messages holds as long as no block runs
\* while a message of the blocked user is between its checks and its INSERT
\* (messages_send, block_user): nothing undelivered waits for somebody who blocks its sender.
THEOREM BlockedAreDroppedWhenAlone ==
    Spec /\ [][DropAlone]_vars => []BlockedMessagesAreDropped
  <1>1. Init => DropInv
    BY DEF Init, ContactInit, DropInv, BlockedMessagesAreDropped, Idle, CheckSteps, Ids
  <1>2. DropInv => BlockedMessagesAreDropped
    BY DEF DropInv
  <1>3. QED
    BY <1>1, <1>2, DropNextInv, MessagingInvariance, PTL DEF Spec

=============================================================================
