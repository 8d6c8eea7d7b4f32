---------------------------- MODULE MCMessaging -----------------------------
(* Small instances of Messaging for TLC. *)
EXTENDS Messaging, TLC

CONSTANTS alice, bob, s1, s2, w1

TwoUsers == {alice, bob}
NoRequests == {}
NoContacts == {}
MutualContacts == {<<alice, bob>>, <<bob, alice>>}

UserSymmetry == Permutations({alice, bob})

=============================================================================
