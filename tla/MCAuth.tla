------------------------------- MODULE MCAuth --------------------------------
(* Small instances of Auth for TLC. *)
EXTENDS Auth, TLC

CONSTANTS alice, w1, w2

OneUser == {alice}
\* LOGIN_RATE_LIMIT is twice REGISTER_RATE_LIMIT.
Limits == [key \in AuthKeys |-> IF key[1] = "login_otp" THEN 2 ELSE 1]
ThreadSymmetry == Permutations(Threads)

=============================================================================
