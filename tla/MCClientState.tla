--------------------------- MODULE MCClientState ----------------------------
(* Small instances of ClientState for TLC. *)
EXTENDS ClientState, TLC

CONSTANTS p1, p2, main1, main2, ws1, a, b, x

\* One process, or two; the command thread of each, and a listener of the first.
OneOf == [t \in Threads |-> p1]
TwoOf == [t \in Threads |-> IF t = main2 THEN p2 ELSE p1]

TokenSymmetry == Permutations(Tokens)

=============================================================================
