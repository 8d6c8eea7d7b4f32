--------------------------- MODULE MCContactGraph ---------------------------
(* Small instances of ContactGraph for TLC. *)
EXTENDS ContactGraph, TLC

CONSTANTS alice, bob, w1, w2

TwoUsers == {alice, bob}
ThreadSymmetry == Permutations({w1, w2})

NoRequests == {}
NoContacts == {}

\* A database written by a version that did not look for a request in the other
\* direction: two reciprocal pending requests and an old cancelled one.
LegacyRequests ==
    {[id |-> 1, from |-> bob, to |-> alice, status |-> "cancelled"],
     [id |-> 2, from |-> alice, to |-> bob, status |-> "pending"],
     [id |-> 3, from |-> bob, to |-> alice, status |-> "pending"]}

=============================================================================
