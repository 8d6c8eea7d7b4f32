----------------------------- MODULE Messaging ------------------------------
(***************************************************************************)
(* Storage and delivery of messages by the server: messages_send,          *)
(* messages_ack, messages_pull, mark_read, conversations, the WebSocket    *)
(* endpoint, the connection manager and the throttled expiry cleanup       *)
(* (server/main.py, server/ws_manager.py), together with the contact       *)
(* handlers of ContactGraph, whose tables and threads they share.          *)
(*                                                                         *)
(* The event loop runs one coroutine at a time.  A coroutine gives the     *)
(* loop up only where it awaits a socket, so `loop` and `msgLoop` are not  *)
(* both busy, while a push (send_to_user) and the flush of a new           *)
(* connection interleave with everything at each socket they await.        *)
(*                                                                         *)
(* Ciphertext, sizes, rate limits and read marks are left out: pull,       *)
(* mark_read and conversations appear as what they do to the rest, which   *)
(* is to run the cleanup.  Time is whole seconds.                          *)
(***************************************************************************)
EXTENDS ContactGraph, Functions, FiniteSetsExt

CONSTANTS Sockets,         \* WebSocket connections there can be at one time
          TTLs,            \* values of ttl_seconds in requests; Never for none
          MaxMessageId,    \* bound: no message beyond this id is sent
          MaxClock,        \* bound: the clock stops here
          SweepInterval    \* EXPIRY_CLEANUP_INTERVAL_SECONDS

Never == 0   \* the NULL of ttl_seconds, expires_at and last_message_id

ASSUME MessagingAssumption ==
    /\ TTLs \subseteq Nat
    /\ MaxMessageId \in Nat /\ MaxClock \in Nat /\ SweepInterval \in Nat

VARIABLES messages,   \* rows of messages, with the number of 'delivered' receipts
          lastMessageId, \* AUTOINCREMENT counter of messages
          summary,    \* conversations.last_message_id, by the pair of users
          msgLoop,    \* send or ack handler between two of its database steps
          push,       \* send_to_user calls in progress, by message id
          conn,       \* the connections: registry, endpoint and client side
          clock,      \* seconds
          lastSweep   \* _last_expiry_cleanup_monotonic

tableVars == <<messages, lastMessageId, summary>>
deliveryVars == <<push, conn>>
timeVars == <<clock, lastSweep>>
msgVars == <<tableVars, msgLoop, deliveryVars, timeVars>>
vars == <<contactVars, msgVars>>

Conversations == {{a, b} : a, b \in Users}
Messages == [from : Users, to : Users, expires : Nat, delivered : BOOLEAN,
             queued : BOOLEAN, receipts : Nat]
MsgTasks ==
    [op : {"msg_check_own_block", "msg_check_contact", "msg_insert"},
     from : Users, to : Users, expires : Nat]
    \cup [op : {"ack_write", "mark_queued"}, id : Nat]
Pushes == [left : SUBSET Sockets, taken : BOOLEAN, stale : SUBSET Sockets]
\* phase: the endpoint coroutine; todo: ids its flush has still to send;
\* alive: the client is at the other end; got: ids this client was sent.
Conns == [user : Users, phase : {"closed", "flushing", "open"}, alive : BOOLEAN,
          todo : SUBSET Nat, got : SUBSET Nat]

-----------------------------------------------------------------------------
(* Rows *)

Ids == DOMAIN messages
Conversation(m) == {m.from, m.to}
Expired(m) == m.expires # Never /\ m.expires <= clock
\* Mutant: the query asks for is_offline_queued as well.
UndeliveredQueued(rows, user) ==
    {id \in DOMAIN rows : rows[id].to = user /\ ~rows[id].delivered /\ rows[id].queued}

Undelivered(rows, user) ==
    {id \in DOMAIN rows : rows[id].to = user /\ ~rows[id].delivered}

\* refresh_conversation_summary: the newest row of the conversation, or NULL.
LatestId(rows, conversation) ==
    LET ids == {id \in DOMAIN rows : Conversation(rows[id]) = conversation}
    IN  IF ids = {} THEN Never ELSE Max(ids)

\* Mutant: the conversations are not refreshed.
DeleteWithoutRefresh(gone) ==
    messages' = Restrict(messages, Ids \ gone) /\ summary' = summary

\* DELETE of the rows in `gone`, then a refresh of the conversations they were in.
DeleteMessages(gone) ==
    LET kept == Restrict(messages, Ids \ gone)
    IN  /\ messages' = kept
        /\ summary' = [c \in Conversations |->
                         IF \E id \in gone : Conversation(messages[id]) = c
                         THEN LatestId(kept, c) ELSE summary[c]]

ExpiredIds == {id \in Ids : Expired(messages[id])}

\* cleanup_expired_messages at the start of a handler: throttled.
Sweep ==
    IF clock - lastSweep >= SweepInterval
    THEN DeleteMessages(ExpiredIds) /\ lastSweep' = clock
    ELSE UNCHANGED <<messages, summary, lastSweep>>

SetRow(id, row) == messages' = [messages EXCEPT ![id] = row]

-----------------------------------------------------------------------------
(* The event loop *)

LoopFree == loop = Idle /\ msgLoop = Idle

\* Mutant: the endpoint registers its socket after the flush.
RegisteredAfterFlush(user) == {s \in Sockets : conn[s].user = user /\ conn[s].phase = "open"}

\* Sockets the registry holds for a user: the snapshot send_to_user takes.
Registered(user) == {s \in Sockets : conn[s].user = user /\ conn[s].phase # "closed"}

(* messages_send *)

SendMessageBegin(me, target, ttl) ==
    /\ LoopFree
    /\ lastMessageId < MaxMessageId
    /\ me # target
    /\ Sweep
    /\ ~IsBlocked(target, me)
    /\ msgLoop' = [op |-> "msg_check_own_block", from |-> me, to |-> target,
                   expires |-> IF ttl = Never THEN Never ELSE clock + ttl]
    /\ UNCHANGED <<contactVars, lastMessageId, deliveryVars, clock>>

MsgCheck(step, refused, next) ==
    /\ msgLoop.op = step
    /\ msgLoop' = IF refused THEN Idle ELSE [msgLoop EXCEPT !.op = next]
    /\ UNCHANGED <<contactVars, tableVars, deliveryVars, timeVars>>

MsgCheckOwnBlock ==
    MsgCheck("msg_check_own_block", IsBlocked(msgLoop.from, msgLoop.to),
             "msg_check_contact")
MsgCheckContact ==
    MsgCheck("msg_check_contact", ~AreFriends(msgLoop.from, msgLoop.to), "msg_insert")

\* The transaction, its commit and the snapshot of send_to_user, which follow
\* without giving up the loop.  With no socket the handler keeps the loop.
InsertMessage ==
    /\ msgLoop.op = "msg_insert"
    /\ LET id == lastMessageId + 1
           from == msgLoop.from
           to == msgLoop.to
       IN  /\ lastMessageId' = id
           /\ messages' = [i \in Ids \cup {id} |->
                 IF i = id
                 THEN [from |-> from, to |-> to, expires |-> msgLoop.expires,
                       delivered |-> FALSE, queued |-> FALSE, receipts |-> 0]
                 ELSE messages[i]]
           /\ summary' = [summary EXCEPT ![{from, to}] = id]
           /\ IF Registered(to) = {}
              THEN /\ msgLoop' = [op |-> "mark_queued", id |-> id]
                   /\ push' = push
              ELSE /\ msgLoop' = Idle
                   /\ push' = [i \in DOMAIN push \cup {id} |->
                        IF i = id THEN [left |-> Registered(to), taken |-> FALSE,
                                        stale |-> {}]
                        ELSE push[i]]
    /\ UNCHANGED <<contactVars, conn, timeVars>>

\* The second transaction of messages_send, when no socket took the message.
MarkQueued ==
    /\ msgLoop.op = "mark_queued"
    /\ IF msgLoop.id \in Ids
       THEN SetRow(msgLoop.id, [messages[msgLoop.id] EXCEPT !.queued = TRUE])
       ELSE UNCHANGED messages
    /\ msgLoop' = Idle
    /\ UNCHANGED <<contactVars, lastMessageId, summary, deliveryVars, timeVars>>

(* send_to_user: one await per socket of the snapshot, in any order. *)

\* Mutant: the socket is put among the stale ones whether or not it took the frame.
PushToStale(id, s) ==
    /\ LoopFree
    /\ id \in DOMAIN push /\ s \in push[id].left
    /\ conn[s].alive
    /\ conn' = [conn EXCEPT ![s].got = @ \cup {id}]
    /\ push' = [push EXCEPT ![id].left = @ \ {s}, ![id].taken = TRUE, ![id].stale = @ \cup {s}]
    /\ UNCHANGED <<contactVars, tableVars, msgLoop, timeVars>>

PushTo(id, s) ==
    /\ LoopFree
    /\ id \in DOMAIN push /\ s \in push[id].left
    /\ conn[s].alive
    /\ conn' = [conn EXCEPT ![s].got = @ \cup {id}]
    /\ push' = [push EXCEPT ![id].left = @ \ {s}, ![id].taken = TRUE]
    /\ UNCHANGED <<contactVars, tableVars, msgLoop, timeVars>>

\* The client is gone: the transport may still take the frame, or raise.
PushLost(id, s) ==
    /\ LoopFree
    /\ id \in DOMAIN push /\ s \in push[id].left
    /\ ~conn[s].alive
    /\ \/ push' = [push EXCEPT ![id].left = @ \ {s}, ![id].taken = TRUE]
       \/ push' = [push EXCEPT ![id].left = @ \ {s}, ![id].stale = @ \cup {s}]
    /\ UNCHANGED <<contactVars, tableVars, msgLoop, conn, timeVars>>

Closed(c) == [c EXCEPT !.phase = "closed", !.alive = FALSE, !.todo = {}]

PushEnd(id) ==
    /\ LoopFree
    /\ id \in DOMAIN push /\ push[id].left = {}
    /\ conn' = [s \in Sockets |-> IF s \in push[id].stale THEN Closed(conn[s])
                                  ELSE conn[s]]
    /\ push' = Restrict(push, DOMAIN push \ {id})
    /\ msgLoop' = IF push[id].taken THEN Idle
                  ELSE [op |-> "mark_queued", id |-> id]
    /\ UNCHANGED <<contactVars, tableVars, timeVars>>

(* messages_ack *)

\* Assumed of the clients, as client/cli.py does it: what is acknowledged was received on
\* a connection.  The handler itself does not ask.
Received(me, id) == \E s \in Sockets : conn[s].user = me /\ id \in conn[s].got

AckBegin(me, id) ==
    /\ LoopFree
    /\ Received(me, id)
    /\ Sweep
    /\ msgLoop' = IF id \in Undelivered(messages', me)
                  THEN [op |-> "ack_write", id |-> id] ELSE Idle
    /\ UNCHANGED <<contactVars, lastMessageId, deliveryVars, clock>>

\* Mutant: the receipt is written but the row is left undelivered.
AckWriteReceiptOnly ==
    /\ msgLoop.op = "ack_write"
    /\ msgLoop.id \in Ids
    /\ SetRow(msgLoop.id, [messages[msgLoop.id] EXCEPT !.queued = FALSE, !.receipts = @ + 1])
    /\ msgLoop' = Idle
    /\ UNCHANGED <<contactVars, lastMessageId, summary, deliveryVars, timeVars>>

AckWrite ==
    /\ msgLoop.op = "ack_write"
    /\ msgLoop.id \in Ids
    /\ SetRow(msgLoop.id, [messages[msgLoop.id] EXCEPT
                             !.delivered = TRUE, !.queued = FALSE, !.receipts = @ + 1])
    /\ msgLoop' = Idle
    /\ UNCHANGED <<contactVars, lastMessageId, summary, deliveryVars, timeVars>>

\* A worker thread has deleted the row since the SELECT: the receipt's foreign
\* key fails and the transaction is rolled back.
AckRollback ==
    /\ msgLoop.op = "ack_write"
    /\ msgLoop.id \notin Ids
    /\ msgLoop' = Idle
    /\ UNCHANGED <<contactVars, tableVars, deliveryVars, timeVars>>

(* websocket_endpoint *)

\* Registration, cleanup and the SELECT of what is undelivered follow each other
\* on the event loop without an await that gives it up.
Connect(s, me) ==
    /\ LoopFree
    /\ conn[s].phase = "closed"
    /\ \A id \in DOMAIN push : s \notin push[id].left \cup push[id].stale
    /\ Sweep
    /\ conn' = [conn EXCEPT ![s] = [user |-> me, phase |-> "flushing", alive |-> TRUE,
                                    todo |-> Undelivered(messages', me), got |-> {}]]
    /\ UNCHANGED <<contactVars, lastMessageId, msgLoop, push, clock>>

\* The flush sends the oldest id it has left.
NextToFlush(s) == Min(conn[s].todo)

FlushNext(s) ==
    /\ LoopFree
    /\ conn[s].phase = "flushing" /\ conn[s].todo # {}
    /\ LET id == NextToFlush(s)
       IN  /\ id \in Ids
           /\ conn' = [conn EXCEPT ![s].todo = @ \ {id},
                                   ![s].got = IF conn[s].alive THEN @ \cup {id} ELSE @]
    /\ UNCHANGED <<contactVars, tableVars, msgLoop, push, timeVars>>

\* build_message_payload raises 404 for a row deleted since the SELECT; the
\* endpoint unregisters and closes the connection.
FlushAborts(s) ==
    /\ LoopFree
    /\ conn[s].phase = "flushing" /\ conn[s].todo # {}
    /\ NextToFlush(s) \notin Ids
    /\ conn' = [conn EXCEPT ![s] = Closed(@)]
    /\ UNCHANGED <<contactVars, tableVars, msgLoop, push, timeVars>>

FlushDone(s) ==
    /\ LoopFree
    /\ conn[s].phase = "flushing" /\ conn[s].todo = {}
    /\ conn' = [conn EXCEPT ![s].phase = "open"]
    /\ UNCHANGED <<contactVars, tableVars, msgLoop, push, timeVars>>

\* The client closes, dies or loses the network; the server has not noticed.
ClientGone(s) ==
    /\ conn[s].alive
    /\ conn' = [conn EXCEPT ![s].alive = FALSE]
    /\ UNCHANGED <<contactVars, tableVars, msgLoop, push, timeVars>>

\* receive_text or send_json of the endpoint raises.
Disconnect(s) ==
    /\ LoopFree
    /\ conn[s].phase # "closed" /\ ~conn[s].alive
    /\ conn' = [conn EXCEPT ![s] = Closed(@)]
    /\ UNCHANGED <<contactVars, tableVars, msgLoop, push, timeVars>>

-----------------------------------------------------------------------------
(* Worker threads, restart, time *)

\* messages_pull, mark_read, conversations.
ReadRequest ==
    /\ Sweep
    /\ UNCHANGED <<contactVars, lastMessageId, msgLoop, deliveryVars, clock>>

\* Mutant: block_user drops delivered messages too.
BlockAndDropAll(me, target) ==
    /\ BlockUser(me, target)
    /\ DeleteMessages({id \in Ids : messages[id].to = me /\ messages[id].from = target})
    /\ UNCHANGED <<lastMessageId, msgLoop, deliveryVars, timeVars>>

\* The rest of block_user's transaction: drop_undelivered_incoming_messages.
BlockAndDrop(me, target) ==
    /\ BlockUser(me, target)
    /\ DeleteMessages({id \in Undelivered(messages, me) : messages[id].from = target})
    /\ UNCHANGED <<lastMessageId, msgLoop, deliveryVars, timeVars>>

\* Mutant: ids of messages are counted in memory and start again.
RestartCounting ==
    /\ Restart
    /\ DeleteMessages(ExpiredIds)
    /\ lastSweep' = clock
    /\ msgLoop' = Idle
    /\ push' = Restrict(push, {})
    /\ conn' = [s \in Sockets |-> Closed(conn[s])]
    /\ lastMessageId' = 0
    /\ UNCHANGED clock

\* The process dies and starts again: init_db, then a forced cleanup.
RestartServer ==
    /\ Restart
    /\ DeleteMessages(ExpiredIds)
    /\ lastSweep' = clock
    /\ msgLoop' = Idle
    /\ push' = Restrict(push, {})
    /\ conn' = [s \in Sockets |-> Closed(conn[s])]
    /\ UNCHANGED <<lastMessageId, clock>>

Tick ==
    /\ clock < MaxClock
    /\ clock' = clock + 1
    /\ UNCHANGED <<contactVars, tableVars, msgLoop, deliveryVars, lastSweep>>

-----------------------------------------------------------------------------
Init ==
    /\ ContactInit
    /\ messages = [id \in {} |-> Never]
    /\ lastMessageId = 0
    /\ summary = [c \in Conversations |-> Never]
    /\ msgLoop = Idle
    /\ push = [id \in {} |-> Never]
    /\ conn \in [Sockets -> [user : Users, phase : {"closed"}, alive : {FALSE},
                             todo : {{}}, got : {{}}]]
    /\ clock = 0
    /\ lastSweep = 0

\* A coroutine that has the loop and is not waiting for a socket.
MessageStep ==
    \/ MsgCheckOwnBlock \/ MsgCheckContact \/ InsertMessage
    \/ MarkQueued \/ AckWrite \/ AckRollback
ContactStep == (SendStep \/ AnswerStep) /\ UNCHANGED msgVars

FlushStep(s) == FlushNext(s) \/ FlushAborts(s) \/ FlushDone(s)
PushStep(id, s) == PushTo(id, s) \/ PushLost(id, s)

ContactHandlers ==
    /\ \/ LoopStep /\ msgLoop = Idle
       \/ ThreadStep
    /\ UNCHANGED msgVars

MessageHandlers ==
    \/ \E me, target \in Users, ttl \in TTLs : SendMessageBegin(me, target, ttl)
    \/ \E me \in Users, id \in 1..lastMessageId : AckBegin(me, id)
    \/ MessageStep
    \/ ReadRequest
    \/ \E me, target \in Users : BlockAndDrop(me, target)

Deliveries ==
    \/ \E id \in DOMAIN push : PushEnd(id) \/ \E s \in Sockets : PushStep(id, s)
    \/ \E s \in Sockets : \/ \E me \in Users : Connect(s, me)
                          \/ FlushStep(s)
                          \/ ClientGone(s)
                          \/ Disconnect(s)

Next == ContactHandlers \/ MessageHandlers \/ Deliveries \/ RestartServer \/ Tick

Spec == Init /\ [][Next]_vars

\* A handler in flight runs to its end.  A coroutine that waits for its socket is
\* put on the loop's FIFO ready queue, so no other can pass it over for ever.
FairSpec ==
    /\ Spec
    /\ WF_vars(MessageStep)
    /\ WF_vars(ContactStep)
    /\ \A s \in Sockets : SF_vars(FlushStep(s))
    /\ \A id \in 1..MaxMessageId : /\ SF_vars(PushEnd(id))
                                   /\ \A s \in Sockets : SF_vars(PushStep(id, s))

-----------------------------------------------------------------------------
(* Properties *)

\* The part of the type invariant that is about the variables of this module.
MessagingTypeOK ==
    /\ lastMessageId \in Nat
    /\ Ids \subseteq 1..lastMessageId
    /\ messages \in [Ids -> Messages]
    /\ summary \in [Conversations -> Nat]
    /\ msgLoop \in MsgTasks \cup {Idle}
    /\ DOMAIN push \subseteq 1..lastMessageId
    /\ push \in [DOMAIN push -> Pushes]
    /\ conn \in [Sockets -> Conns]
    /\ clock \in Nat /\ lastSweep \in Nat

\* Every variable has its type.
TypeOK == ContactTypeOK /\ MessagingTypeOK

\* last_message_id is the newest message left in the conversation, or NULL when
\* there is none, whatever sends, expiry sweeps and blocks come between.
SummaryIsLatest ==
    \A c \in Conversations : summary[c] = LatestId(messages, c)

\* A message has exactly one 'delivered' receipt if it is marked delivered and none
\* otherwise, however often clients acknowledge it and whatever is deleted meanwhile.
OneReceiptPerDelivery ==
    \A id \in Ids : messages[id].receipts = IF messages[id].delivered THEN 1 ELSE 0

\* No undelivered message is missed by a live connection of its receiver: it was
\* sent on it, is in its flush, or is being pushed to it.  Registering before
\* reading what is undelivered, and committing before taking the snapshot of
\* sockets, leave no gap for a message that arrives while the user connects.
NoMissedMessage ==
    \A s \in Sockets : conn[s].alive =>
        \A id \in Undelivered(messages, conn[s].user) :
            \/ id \in conn[s].got \cup conn[s].todo
            \/ id \in DOMAIN push /\ s \in push[id].left

\* The server ends the connection of a client that is still there only in a restart, or when
\* the next message of its flush has been deleted since the flush was read: a socket that a
\* push has put among the stale ones, which PushEnd closes several steps later, is never that
\* of a live client.
HealthyStaysOpen ==
    [][\A s \in Sockets :
          conn[s].alive /\ conn'[s].phase = "closed" =>
              \/ RestartServer
              \/ conn[s].phase = "flushing" /\ conn[s].todo # {} /\ NextToFlush(s) \notin Ids
      ]_vars

\* A message leaves the table only because it has expired, or because its receiver
\* blocks its sender before it was delivered.
OnlyExpiredOrBlockedDeleted ==
    [][\A id \in Ids : id \notin Ids' =>
          \/ Expired(messages[id])
          \/ /\ ~messages[id].delivered
             /\ <<messages[id].to, messages[id].from>> \in blocks'
      ]_vars

Status(id) ==
    IF id > lastMessageId THEN "unsent"
    ELSE IF id \notin Ids THEN "gone"
    ELSE IF messages[id].delivered THEN "delivered" ELSE "waiting"

Box == INSTANCE Mailbox
           WITH MessageIds <- 1..MaxMessageId,
                state <- [id \in 1..MaxMessageId |-> Status(id)],
                heard <- UNION {conn[s].got : s \in Sockets}

\* The table implements the life of a message: ids are given out once and in order, a
\* row is marked delivered only after a client was sent it, and none comes back.
ImplementsMailbox == Box!MailboxSpec

\* Every message sent to a user is offered to each connection that user keeps:
\* it reaches the client unless it is deleted, delivered elsewhere, or the
\* connection ends.
EveryMessageIsOffered ==
    \A s \in Sockets, id \in 1..MaxMessageId, u \in Users :
        /\ id \in Undelivered(messages, u)
        /\ conn[s].user = u /\ conn[s].alive
        ~> \/ id \in conn[s].got
           \/ id \notin Undelivered(messages, u)
           \/ conn[s].user # u \/ ~conn[s].alive

\* What the documentation of self-destruct messages says (not what the code does):
\* a flush never sends a message that has already expired.
ExpiredIsNotFlushed ==
    [][\A s \in Sockets :
          conn[s].phase = "flushing" /\ conn'[s].phase = "flushing" =>
              \A id \in (conn'[s].got \cap conn[s].todo) \ conn[s].got :
                  ~Expired(messages[id])
      ]_vars

\* What the documentation of blocking says (not what the code does): while a block
\* stands, no undelivered message of the blocked user waits for the blocker.
BlockedMessagesAreDropped ==
    \A id \in Ids : IsBlocked(messages[id].to, messages[id].from)
                        => messages[id].delivered

=============================================================================
