------------------------------ MODULE Sessions ------------------------------
(***************************************************************************)
(* What the server promises about access tokens: a token is issued once,   *)
(* is good until it ends, by logout or by time, and never comes back.      *)
(***************************************************************************)
CONSTANT Tokens

VARIABLE session   \* state of a token

States == {"none", "live", "ended"}

SessionsInit == session = [token \in Tokens |-> "none"]

Issue(token) ==
    /\ session[token] = "none"
    /\ session' = [session EXCEPT ![token] = "live"]

\* Sessions that were opened together may expire together.
End(tokens) ==
    /\ \A token \in tokens : session[token] = "live"
    /\ session' = [token \in Tokens |-> IF token \in tokens THEN "ended" ELSE session[token]]

SessionsNext ==
    \/ \E token \in Tokens : Issue(token)
    \/ \E tokens \in SUBSET Tokens : End(tokens)

SessionsSpec == SessionsInit /\ [][SessionsNext]_session

=============================================================================
