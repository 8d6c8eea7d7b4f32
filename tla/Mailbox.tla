------------------------------ MODULE Mailbox -------------------------------
(***************************************************************************)
(* What the server promises about a message: it is sent once, in the order *)
(* of the ids, is marked delivered only when some client was sent it, and  *)
(* once it is gone it stays gone.                                          *)
(***************************************************************************)
EXTENDS Naturals

CONSTANT MessageIds

VARIABLES state,   \* of a message
          heard    \* ids that clients hold a copy of

mailbox == <<state, heard>>

MailboxInit ==
    /\ state = [id \in MessageIds |-> "unsent"]
    /\ heard = {}

Send(id) ==
    /\ state[id] = "unsent"
    /\ \A older \in MessageIds : older < id => state[older] # "unsent"
    /\ state' = [state EXCEPT ![id] = "waiting"]
    /\ UNCHANGED heard

Hear(id) ==
    /\ state[id] # "unsent"
    /\ heard' = heard \cup {id}
    /\ UNCHANGED state

Deliver(id) ==
    /\ state[id] = "waiting"
    /\ id \in heard
    /\ state' = [state EXCEPT ![id] = "delivered"]
    /\ UNCHANGED heard

\* Expiry, a block or a restart takes rows; a client that goes takes its copies.
Drop(ids, copies) ==
    /\ \A id \in ids : state[id] \in {"waiting", "delivered"}
    /\ state' = [id \in MessageIds |-> IF id \in ids THEN "gone" ELSE state[id]]
    /\ heard' = heard \ copies

MailboxNext ==
    \/ \E id \in MessageIds : Send(id) \/ Hear(id) \/ Deliver(id)
    \/ \E ids, copies \in SUBSET MessageIds : Drop(ids, copies)

MailboxSpec == MailboxInit /\ [][MailboxNext]_mailbox

=============================================================================
