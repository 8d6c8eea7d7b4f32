--------------------------- MODULE MCReplayCache ----------------------------
(* Small instances of ReplayCache for TLC. *)
EXTENDS ReplayCache, TLC

CONSTANTS main, ws, x, y

\* Message 0 is a legacy one; the envelope of message 1 is stored again as message 3.
Copied == [id \in MessageIds |-> CASE id = 0 -> NoToken [] id \in {1, 3} -> x [] id = 2 -> y]

\* Message 1 reaches both threads, the other message with it on a page; its copy comes on a
\* page of its own.
SmallPages == (main :> {{1, 2}, {3}}) @@ (ws :> {{0}, {1}})

=============================================================================
