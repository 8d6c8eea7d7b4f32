------------------------ MODULE ClientSessionProofs -------------------------
(***************************************************************************)
(* Proofs about ClientSession, for any number of listeners and logins: the *)
(* type invariant, that one listener at most is active, that a logout      *)
(* leaves nothing of the session, and whose token auth_failed clears.      *)
(***************************************************************************)
EXTENDS ClientSession, TLAPS

-----------------------------------------------------------------------------
(* Types *)

Listener == [token : 0 .. lastToken, stop : BOOLEAN, phase : Phases]
Command == [cmd : Commands, step : MainSteps, token : 0 .. lastToken]

\* Where the command thread may go, and setting the stop flag of ws, are well-typed.
LEMMA CommandTyped ==
    ASSUME SessionTypeOK, UNCHANGED lastToken, NEW step \in MainSteps,
           MainTo(step) \/ MainFails
    PROVE  main' \in Command'
BY DEF SessionTypeOK, Command, MainTo, MainFails, Commands, MainSteps

LEMMA StoppedTyped ==
    ASSUME SessionTypeOK, ws # NoWs
    PROVE  /\ Stopped(ws) \in [Listeners -> Listener]
           /\ \A l \in Listeners : Stopped(ws)[l].phase = listeners[l].phase
BY DEF SessionTypeOK, Stopped, Listener

LEMMA StartedTyped ==
    ASSUME NEW r \in Listener
    PROVE  [r EXCEPT !.stop = FALSE, !.phase = "connecting"] \in Listener
BY DEF Listener, Phases

LEMMA NoneTyped == lastToken \in Nat => [l \in Listeners |-> NoListener] \in [Listeners -> Listener]
BY DEF NoListener, NoToken, Listener, Phases

SaveRecord == [open : BOOLEAN, token : 0 .. lastToken, alone : BOOLEAN]

\* The steps of a save are well-typed.
LEMMA MergeTyped ==
    ASSUME SessionTypeOK, NEW t \in Savers, Merge(t)
    PROVE  saves' \in [Savers -> SaveRecord] /\ UNCHANGED <<saved, crossed>>
<1>1. \A u \in Savers : [saves[u] EXCEPT !.alone = FALSE] \in SaveRecord
  BY DEF SessionTypeOK, SaveRecord
<1>2. \A alone \in BOOLEAN : [open |-> TRUE, token |-> mem, alone |-> alone] \in SaveRecord
  BY DEF SessionTypeOK, SaveRecord
<1> QED BY <1>1, <1>2 DEF Merge

LEMMA ClosedTyped ==
    ASSUME SessionTypeOK, NEW t \in Savers, saves' = [saves EXCEPT ![t] = NoSave]
    PROVE  saves' \in [Savers -> SaveRecord]
BY DEF SessionTypeOK, NoSave, NoToken, SaveRecord

LEMMA LandTyped ==
    ASSUME SessionTypeOK, NEW t \in Savers, Land(t)
    PROVE  saves' \in [Savers -> SaveRecord] /\ saved' \in 0 .. lastToken
<1>1. saves' \in [Savers -> SaveRecord]
  BY ClosedTyped DEF Land
<1>2. \A u \in Savers : saves[u].token \in 0 .. lastToken
  BY DEF SessionTypeOK
<1>3. NoToken \in 0 .. lastToken
  BY ClientAssumption DEF SessionTypeOK, NoToken
<1> QED BY <1>1, <1>2, <1>3 DEF Land

\* Every step of the command thread preserves the types.
LEMMA MainTypes ==
    ASSUME SessionTypeOK, MainNext, Noted
    PROVE  SessionTypeOK'
<1> USE ClientAssumption DEF Tokens, StopSteps, ClearSteps, Phases, MainSteps, Commands,
                             NoToken, NoWs, store
<1>0. raced' \in BOOLEAN BY DEF SessionTypeOK, Noted
<1>1. CASE Login
  <2>1. lastToken' = lastToken + 1 /\ lastToken' \in 0 .. MaxTokens
    BY <1>1 DEF Login, SessionTypeOK
  <2>2. valid' \subseteq 1 .. lastToken'
    BY <1>1, <2>1 DEF Login, SessionTypeOK
  <2>3. main' \in [cmd : Commands, step : MainSteps, token : 0 .. lastToken']
    BY <1>1, <2>1 DEF Login, SessionTypeOK
  <2>4. \A l \in Listeners : listeners[l] \in [token : 0 .. lastToken', stop : BOOLEAN, phase : Phases]
    BY <2>1 DEF SessionTypeOK
  <2>5. listeners' \in [Listeners -> [token : 0 .. lastToken', stop : BOOLEAN, phase : Phases]]
    BY <1>1, <2>4 DEF Login, SessionTypeOK
  <2>6. saves \in [Savers -> [open : BOOLEAN, token : 0 .. lastToken', alone : BOOLEAN]]
    <3>1. \A t \in Savers : saves[t] \in [open : BOOLEAN, token : 0 .. lastToken', alone : BOOLEAN]
      BY <2>1 DEF SessionTypeOK
    <3> QED BY <3>1 DEF SessionTypeOK
  <2> QED BY <1>0, <1>1, <2>1, <2>2, <2>3, <2>5, <2>6 DEF Login, local, SessionTypeOK
<1>2. CASE Logout
  BY <1>0, <1>2 DEF Logout, local, SessionTypeOK
<1>3. CASE MainSetsApi
  BY <1>0, <1>3 DEF MainSetsApi, MainAt, MainTo, server, SessionTypeOK
<1>4. CASE MainSetsState
  BY <1>0, <1>4 DEF MainSetsState, MainAt, MainTo, server, SessionTypeOK
<1>5. CASE MainMerges \/ MainLands \/ MainSaveFails
  <2>1. main' \in Command'
    <3>1. MainTo("write") \/ MainTo("publish") \/ MainTo("stop?") \/ MainFails
      BY <1>5 DEF MainMerges, MainLands, MainSaveFails
    <3>2. UNCHANGED lastToken
      BY <1>5 DEF MainMerges, MainLands, MainSaveFails, server
    <3> QED BY <3>1, <3>2, CommandTyped
  <2>2. /\ saves' \in [Savers -> SaveRecord] /\ saved' \in 0 .. lastToken /\ crossed' \in BOOLEAN
        /\ UNCHANGED <<server, api, mem, ws, listeners>>
    <3>1. MainThread \in Savers
      BY DEF Savers
    <3>2. CASE MainMerges
      BY <3>1, <3>2, MergeTyped DEF MainMerges, SessionTypeOK
    <3>3. CASE MainLands
      <4>1. saves[MainThread].alone \in BOOLEAN
        BY <3>1 DEF SessionTypeOK
      <4> QED BY <3>1, <3>3, <4>1, LandTyped DEF MainLands
    <3>4. CASE MainSaveFails
      BY <3>1, <3>4, ClosedTyped DEF MainSaveFails, Drop, SessionTypeOK
    <3> QED BY <1>5, <3>2, <3>3, <3>4
  <2> QED BY <1>0, <2>1, <2>2 DEF server, Command, SaveRecord, SessionTypeOK
<1>6. CASE Publish
  BY <1>0, <1>6 DEF Publish, MainAt, MainTo, MainFails, server, local, SessionTypeOK
<1>7. CASE StartWs
  BY <1>0, <1>7 DEF StartWs, MainAt, MainTo, server, local, SessionTypeOK
<1>8. CASE ReplaceWs
  <2>1. main' \in Command'
    BY <1>8, CommandTyped DEF ReplaceWs, server
  <2>2. ws \in Listeners \cup {NoWs} /\ UNCHANGED <<ws, lastToken>>
    BY <1>8 DEF ReplaceWs, server, SessionTypeOK
  <2>3. listeners' \in [Listeners -> Listener]' /\ (ws # NoWs => listeners'[ws].phase # "none")
    BY <1>8, <2>2, StoppedTyped DEF ReplaceWs, Listener, SessionTypeOK
  <2> QED
    BY <1>0, <1>8, <2>1, <2>2, <2>3
       DEF ReplaceWs, server, local, Command, Listener, SessionTypeOK
<1>9. CASE RunWs
  <2>1. main' \in Command'
    BY <1>9, CommandTyped DEF RunWs, server
  <2>2. ws \in Listeners \cup {NoWs} /\ UNCHANGED <<ws, lastToken>>
    BY <1>9 DEF RunWs, server, SessionTypeOK
  <2>3. listeners' \in [Listeners -> Listener]' /\ (ws # NoWs => listeners'[ws].phase # "none")
    <3>1. CASE ws = NoWs
      BY <1>9, <2>2, <3>1 DEF RunWs, Listener, SessionTypeOK
    <3>2. CASE ws # NoWs
      <4>1. [listeners[ws] EXCEPT !.stop = FALSE, !.phase = "connecting"] \in Listener
        <5>1. listeners[ws] \in Listener
          BY <2>2, <3>2 DEF Listener, SessionTypeOK
        <5> QED BY <5>1, StartedTyped
      <4>2. /\ listeners' \in [Listeners -> Listener]
            /\ listeners'[ws] = [listeners[ws] EXCEPT !.stop = FALSE, !.phase = "connecting"]
        <5>1. listeners \in [Listeners -> Listener] /\ ws \in Listeners
          BY <2>2, <3>2 DEF Listener, SessionTypeOK
        <5>2. listeners' = [listeners EXCEPT
                              ![ws] = [listeners[ws] EXCEPT !.stop = FALSE, !.phase = "connecting"]]
          BY <1>9, <3>2 DEF RunWs
        <5> HIDE DEF Listener
        <5> QED BY <4>1, <5>1, <5>2
      <4>3. listeners'[ws].phase = "connecting"
        BY <2>2, <3>2, <4>2 DEF SessionTypeOK
      <4> QED BY <2>2, <4>2, <4>3 DEF Listener
    <3> QED BY <3>1, <3>2
  <2> QED
    BY <1>0, <1>9, <2>1, <2>2, <2>3 DEF RunWs, server, local, Command, Listener, SessionTypeOK
<1>10. CASE MainStopsWs
  <2>1. main' \in Command'
    BY <1>10, CommandTyped DEF MainStopsWs, server
  <2>2. ws' \in Listeners \cup {NoWs} /\ UNCHANGED lastToken
    BY <1>10 DEF MainStopsWs, server, SessionTypeOK
  <2>3. listeners' \in [Listeners -> Listener]' /\ (ws' # NoWs => listeners'[ws'].phase # "none")
    BY <1>10, <2>2, StoppedTyped DEF MainStopsWs, Listener, SessionTypeOK
  <2> QED
    BY <1>0, <1>10, <2>1, <2>2, <2>3
       DEF MainStopsWs, server, local, Command, Listener, SessionTypeOK
<1>11. ASSUME NEW l \in Listeners, CreateWs(l) PROVE SessionTypeOK'
  BY <1>0, <1>11 DEF CreateWs, MainAt, MainTo, server, local, SessionTypeOK
<1> QED
  BY <1>1, <1>2, <1>3, <1>4, <1>5, <1>6, <1>7, <1>8, <1>9, <1>10, <1>11 DEF MainNext

\* Every step of a listener preserves the types.
LEMMA ListenerTypes ==
    ASSUME SessionTypeOK, NEW l \in Listeners, ListenerNext(l), Noted
    PROVE  SessionTypeOK'
<1> USE ClientAssumption DEF StopSteps, ClearSteps, Phases, NoToken, NoWs, At, To, Unless, store
<1>0. raced' \in BOOLEAN BY DEF SessionTypeOK, Noted
<1>1. CASE Connect(l)
  BY <1>0, <1>1 DEF Connect, server, local, SessionTypeOK
<1>2. CASE Listen(l)
  <2>1. listeners' \in [Listeners -> Listener] /\ (ws # NoWs => listeners'[ws].phase # "none")
    BY <1>2 DEF Listen, Listener, SessionTypeOK
  <2> QED BY <1>0, <1>2, <2>1 DEF Listen, server, local, Listener, SessionTypeOK
<1> DEFINE Saves ==
      /\ saves' \in [Savers -> SaveRecord] /\ saved' \in 0 .. lastToken /\ crossed' \in BOOLEAN
<1>9. /\ Merge(l) => Saves
      /\ Land(l) /\ UNCHANGED crossed => Saves
      /\ Drop(l) => Saves
  <2>1. l \in Savers
    BY DEF Savers
  <2> QED BY <2>1, MergeTyped, LandTyped, ClosedTyped DEF Drop, SessionTypeOK
<1>3. CASE Handle(l) \/ HandleLands(l) \/ HandleFails(l)
  <2>1. Saves
    BY <1>3, <1>9 DEF Handle, HandleLands, HandleFails, SessionTypeOK, SaveRecord
  <2>2. listeners' \in [Listeners -> Listener] /\ UNCHANGED <<server, api, mem, ws, main>>
    BY <1>3 DEF Handle, HandleLands, HandleFails, SessionTypeOK, Listener
  <2>3. ws # NoWs => listeners'[ws].phase # "none"
    BY <1>3 DEF Handle, HandleLands, HandleFails, SessionTypeOK
  <2> QED BY <1>0, <2>1, <2>2, <2>3 DEF server, SaveRecord, Listener, SessionTypeOK
<1>4. CASE Sleep(l)
  BY <1>0, <1>4 DEF Sleep, server, local, SessionTypeOK
<1>5. CASE AuthFailedStopsWs(l)
  <2>1. ws' \in Listeners \cup {NoWs} /\ UNCHANGED lastToken
    BY <1>5 DEF AuthFailedStopsWs, server, SessionTypeOK
  <2>2. listeners' \in [Listeners -> Listener]' /\ (ws' # NoWs => listeners'[ws'].phase # "none")
    <3>1. CASE At(l, "stop") /\ ws # NoWs
      <4>1. /\ Stopped(ws) \in [Listeners -> Listener] /\ UNCHANGED ws
            /\ listeners' = [Stopped(ws) EXCEPT ![l].phase = "forget"]
        BY <1>5, <3>1, StoppedTyped DEF AuthFailedStopsWs
      <4>2. \A k \in Listeners : Stopped(ws)[k].phase = listeners[k].phase
        BY <3>1, StoppedTyped
      <4>3. listeners' \in [Listeners -> Listener]
        BY <4>1 DEF Listener
      <4>4. ws # NoWs => listeners'[ws].phase # "none"
        BY <4>1, <4>2 DEF Listener, SessionTypeOK
      <4> QED BY <2>1, <4>1, <4>3, <4>4 DEF Listener
    <3>2. CASE ~(At(l, "stop") /\ ws # NoWs)
      <4>1. /\ ws' \in {ws, NoWs}
            /\ \E phase \in {"api", "stop", "ended"} : To(l, phase)
        BY <1>5, <3>2 DEF AuthFailedStopsWs
      <4>2. /\ listeners' \in [Listeners -> Listener]
            /\ ws # NoWs => listeners'[ws].phase # "none"
        BY <4>1 DEF Listener, SessionTypeOK
      <4> QED BY <2>1, <4>1, <4>2 DEF Listener
    <3> QED BY <3>1, <3>2
  <2> QED
    BY <1>0, <1>5, <2>1, <2>2 DEF AuthFailedStopsWs, server, local, Listener, SessionTypeOK
<1>6. CASE AuthFailedClearsApi(l)
  BY <1>0, <1>6 DEF AuthFailedClearsApi, server, SessionTypeOK
<1>7. CASE AuthFailedClearsState(l)
  BY <1>0, <1>7 DEF AuthFailedClearsState, server, SessionTypeOK
<1>8. CASE AuthFailedMerges(l) \/ AuthFailedLands(l) \/ AuthFailedSaveFails(l)
  <2>1. Saves
    BY <1>8, <1>9 DEF AuthFailedMerges, AuthFailedLands, AuthFailedSaveFails
  <2>2. listeners' \in [Listeners -> Listener] /\ UNCHANGED <<server, api, mem, ws, main>>
    BY <1>8 DEF AuthFailedMerges, AuthFailedLands, AuthFailedSaveFails, SessionTypeOK, Listener
  <2>3. ws # NoWs => listeners'[ws].phase # "none"
    BY <1>8 DEF AuthFailedMerges, AuthFailedLands, AuthFailedSaveFails, SessionTypeOK
  <2> QED BY <1>0, <2>1, <2>2, <2>3 DEF server, SaveRecord, Listener, SessionTypeOK
<1> QED BY <1>1, <1>2, <1>3, <1>4, <1>5, <1>6, <1>7, <1>8 DEF ListenerNext

\* The type invariant is inductive.
LEMMA SessionTypeStep == SessionTypeOK /\ [SessionNext]_sessionVars => SessionTypeOK'
<1> SUFFICES ASSUME SessionTypeOK, [SessionNext]_sessionVars PROVE SessionTypeOK'
  OBVIOUS
<1>1. CASE MainNext /\ Noted
  BY <1>1, MainTypes
<1>2. ASSUME NEW l \in Listeners, ListenerNext(l), Noted PROVE SessionTypeOK'
  BY <1>2, ListenerTypes
<1>3. CASE RestartProcess /\ raced' = FALSE
  <2>1. main' \in Command' /\ lastToken' \in Nat
    BY <1>3, ClientAssumption
       DEF RestartProcess, server, SessionTypeOK, NoToken, Command, Commands, MainSteps
  <2>2. listeners' \in [Listeners -> Listener]'
    BY <1>3, <2>1, NoneTyped DEF RestartProcess, Listener, server
  <2>3. saves' \in [Savers -> SaveRecord]' /\ crossed' \in BOOLEAN
    <3>1. NoSave \in SaveRecord'
      BY <2>1 DEF NoSave, NoToken, SaveRecord
    <3> QED BY <1>3, <3>1 DEF RestartProcess
  <2> QED
    BY <1>3, <2>1, <2>2, <2>3
       DEF RestartProcess, server, Command, Listener, SaveRecord, SessionTypeOK, NoWs
<1>4. ASSUME NEW token \in valid, EndSession(token), Noted PROVE SessionTypeOK'
  BY <1>4 DEF EndSession, Noted, SessionTypeOK, local, store
<1>5. ASSUME NEW t \in Savers, SaveSpills(t), Noted PROVE SessionTypeOK'
  <2>1. saved' \in 0 .. lastToken /\ raced' \in BOOLEAN
    BY <1>5, ClientAssumption DEF SaveSpills, Noted, SessionTypeOK, NoToken
  <2> QED BY <1>5, <2>1 DEF SaveSpills, server, SessionTypeOK
<1>6. CASE UNCHANGED sessionVars
  BY <1>6 DEF sessionVars, server, local, store, SessionTypeOK
<1> QED BY <1>1, <1>2, <1>3, <1>4, <1>5, <1>6 DEF SessionNext

\* Every token the client knows was given out by the server, and ws is always a listener of
\* the process, at every step of every command.
THEOREM SessionTypeCorrect == SessionSpec => []SessionTypeOK
<1>1. SessionInit => SessionTypeOK
  <2> SUFFICES ASSUME SessionInit PROVE SessionTypeOK
    OBVIOUS
  <2>1. main \in Command /\ lastToken = 0 /\ MaxTokens \in Nat
    BY ClientAssumption DEF SessionInit, Command, Commands, MainSteps, NoToken
  <2>2. listeners \in [Listeners -> Listener]
    BY <2>1, NoneTyped DEF SessionInit
  <2>3. valid \subseteq 1 .. lastToken /\ {api, mem, saved} \subseteq 0 .. lastToken
    BY <2>1 DEF SessionInit, NoToken
  <2>4. lastToken \in 0 .. MaxTokens /\ ws = NoWs /\ raced = FALSE /\ crossed = FALSE
    BY <2>1 DEF SessionInit
  <2>5. saves \in [Savers -> SaveRecord]
    BY <2>1 DEF SessionInit, NoSave, NoToken, SaveRecord
  <2> QED BY <2>1, <2>2, <2>3, <2>4, <2>5 DEF Command, Listener, SaveRecord, SessionTypeOK
<1> QED BY <1>1, SessionTypeStep, PTL DEF SessionSpec

-----------------------------------------------------------------------------
(* One listener *)

Quiet == \A l \in Listeners : ~Active(l)

\* While no auth_failed is handled during a command, the only listener that may be active is
\* the one ws refers to; none is while ws changes.
Alone ==
    ~raced =>
        /\ ~Overlap
        /\ \A l \in Listeners : Active(l) => l = ws
        /\ main.step \in {"create", "run", "forget"} => Quiet
        /\ (\E l \in Listeners : At(l, "forget")) => Quiet

\* A step that starts no listener and does not touch ws keeps active ones to those that were.
LEMMA NoneStarted ==
    ASSUME SessionTypeOK, Alone, Noted, ~raced', UNCHANGED ws,
           \A l \in Listeners : Active(l)' => Active(l),
           main'.step \in {"create", "run", "forget"} => Quiet',
           (\E l \in Listeners : At(l, "forget")') => Quiet'
    PROVE  Alone'
BY DEF Alone, Noted

\* The steps of a command.
LEMMA MainAlone ==
    ASSUME SessionTypeOK, Alone, MainNext, Noted
    PROVE  Alone'
<1> SUFFICES ASSUME ~raced' PROVE Alone'
  BY DEF Alone
<1>0. ~raced /\ ~Overlap' /\ ~Overlap
  BY DEF Noted, Alone
<1>1. CASE UNCHANGED <<ws, listeners>> /\ main'.step \notin {"create", "run", "forget"}
  BY <1>0, <1>1 DEF Alone, Quiet, Active, Running, At
<1>2. CASE StartWs /\ main'.step = "create"
  <2>1. ws = NoWs
    BY <1>2 DEF StartWs, MainTo, SessionTypeOK
  <2>2. Quiet
    BY <1>0, <2>1, ClientAssumption DEF Alone, Quiet, NoWs
  <2> QED BY <1>0, <1>2, <2>2 DEF StartWs, Alone, Quiet, Active, Running, At
<1>3. CASE ReplaceWs
  <2>1. CASE ws = NoWs
    BY <1>0, <1>1, <1>3, <2>1 DEF ReplaceWs, MainFails, SessionTypeOK
  <2>2. CASE ws # NoWs
    <3>1. ws' = ws /\ listeners' = Stopped(ws) /\ ws \in Listeners
      BY <1>3, <2>2 DEF ReplaceWs, SessionTypeOK
    <3>2. Quiet'
      BY <1>0, <3>1 DEF Alone, Quiet, Active, Running, Stopped, SessionTypeOK
    <3> QED BY <1>0, <3>2 DEF Alone, Quiet
  <2> QED BY <2>1, <2>2
<1>4. ASSUME NEW l \in Listeners, CreateWs(l) PROVE Alone'
  <2>1. Quiet
    BY <1>0, <1>4 DEF Alone, CreateWs, MainAt
  <2>2. Quiet'
    BY <2>1, <1>4 DEF CreateWs, Quiet, Active, Running, SessionTypeOK
  <2> QED BY <1>0, <2>2 DEF Alone, Quiet
<1>5. CASE RunWs
  <2>1. CASE ws = NoWs
    BY <1>0, <1>1, <1>5, <2>1 DEF RunWs, MainFails, SessionTypeOK
  <2>2. CASE ws # NoWs
    <3>1. /\ Quiet /\ main.step = "run" /\ main'.step = "idle" /\ ws' = ws /\ ws \in Listeners
          /\ listeners' = [listeners EXCEPT ![ws] = [@ EXCEPT !.stop = FALSE, !.phase = "connecting"]]
      BY <1>0, <1>5, <2>2 DEF RunWs, MainAt, MainTo, Alone, SessionTypeOK
    <3>2. \A l \in Listeners : Active(l)' => l = ws'
      BY <3>1 DEF Quiet, Active, Running, SessionTypeOK
    <3>3. \A l \in Listeners : ~At(l, "forget")
      BY <1>0, <3>1 DEF Overlap, InAuthFailed, At, StopSteps
    <3>4. \A l \in Listeners : ~At(l, "forget")'
      BY <3>1, <3>3 DEF At, SessionTypeOK
    <3> QED BY <1>0, <3>1, <3>2, <3>4 DEF Alone
  <2> QED BY <2>1, <2>2
<1>6. CASE MainStopsWs
  <2>1. CASE MainAt("stop") /\ ws # NoWs
    <3>1. ws' = ws /\ listeners' = Stopped(ws) /\ ws \in Listeners
      BY <1>6, <2>1 DEF MainStopsWs, MainAt, SessionTypeOK
    <3>2. Quiet'
      BY <1>0, <3>1 DEF Alone, Quiet, Active, Running, Stopped, SessionTypeOK
    <3> QED BY <1>0, <3>2 DEF Alone, Quiet
  <2>2. CASE MainAt("forget")
    <3>1. Quiet /\ UNCHANGED listeners
      BY <1>0, <1>6, <2>2 DEF MainStopsWs, MainAt, Alone
    <3>2. Quiet'
      BY <3>1 DEF Quiet, Active, Running
    <3> QED BY <1>0, <3>2 DEF Alone, Quiet
  <2> QED
    BY <1>1, <1>6, <2>1, <2>2 DEF MainStopsWs, MainAt, MainTo, MainFails, SessionTypeOK
<1>7. CASE StartWs
  BY <1>1, <1>2, <1>7 DEF StartWs, MainTo, SessionTypeOK
<1>8. CASE Login \/ Logout
  BY <1>1, <1>8 DEF Login, Logout
<1>9. CASE MainSetsApi \/ MainSetsState \/ MainMerges \/ MainLands \/ MainSaveFails \/ Publish
  BY <1>1, <1>9
     DEF MainSetsApi, MainSetsState, MainMerges, MainLands, MainSaveFails, Publish, MainTo,
         MainFails, SessionTypeOK
<1> QED BY <1>3, <1>4, <1>5, <1>6, <1>7, <1>8, <1>9 DEF MainNext

\* The steps of a listener: none starts one.
LEMMA ListenerAlone ==
    ASSUME SessionTypeOK, Alone, NEW l \in Listeners, ListenerNext(l), Noted
    PROVE  Alone'
<1> SUFFICES ASSUME ~raced' PROVE Alone'
  BY DEF Alone
<1> USE DEF At, To, Unless
<1>0. ~raced /\ ~Overlap' /\ ~Overlap /\ UNCHANGED main
  BY DEF Noted, Alone, ListenerNext, Connect, Listen, Handle, HandleLands, HandleFails, Sleep,
         AuthFailedStopsWs, AuthFailedClearsApi, AuthFailedClearsState, AuthFailedMerges,
         AuthFailedLands, AuthFailedSaveFails
<1>1. ASSUME NEW phase \in Phases, To(l, phase), UNCHANGED ws, Running(l), phase # "forget"
      PROVE  Alone'
  <2>1. \A k \in Listeners : Active(k)' => Active(k)
    BY <1>1 DEF Active, Running, SessionTypeOK
  <2>2. \A k \in Listeners : At(k, "forget")' => At(k, "forget")
    BY <1>1 DEF SessionTypeOK
  <2>3. Quiet => Quiet'
    BY <2>1 DEF Quiet
  <2> QED BY <1>0, <1>1, <2>1, <2>2, <2>3 DEF Alone
<1> USE DEF Phases, StopSteps, ClearSteps
<1>2. CASE Connect(l)
  BY <1>1, <1>2 DEF Connect, Running
<1>3. CASE Listen(l)
  BY <1>1, <1>3 DEF Listen, Running
<1>4. CASE Handle(l) \/ HandleLands(l) \/ HandleFails(l)
  BY <1>1, <1>4 DEF Handle, HandleLands, HandleFails, Running
<1>5. CASE Sleep(l)
  BY <1>1, <1>5 DEF Sleep, Running
<1>6. CASE AuthFailedStopsWs(l)
  <2>1. CASE At(l, "stop") /\ ws # NoWs
    <3>1. /\ ws' = ws /\ ws \in Listeners
          /\ listeners' = [Stopped(ws) EXCEPT ![l].phase = "forget"]
      BY <1>6, <2>1 DEF AuthFailedStopsWs, SessionTypeOK
    <3>2. ASSUME NEW k \in Listeners, Active(k)' PROVE FALSE
      <4>1. k # ws => listeners'[k].stop = listeners[k].stop
        BY <3>1 DEF Stopped, SessionTypeOK
      <4>2. k # ws => Running(k)
        BY <2>1, <3>1, <3>2 DEF Active, Running, Stopped, SessionTypeOK
      <4>3. k # ws => Active(k)
        BY <3>2, <4>1, <4>2 DEF Active
      <4>4. k = ws => listeners'[k].stop
        BY <3>1 DEF Stopped, SessionTypeOK
      <4> QED BY <1>0, <3>2, <4>3, <4>4 DEF Active, Alone
    <3> QED BY <1>0, <3>2 DEF Alone, Quiet
  <2>2. CASE At(l, "forget")
    <3>1. Quiet /\ To(l, "api")
      BY <1>0, <1>6, <2>2 DEF AuthFailedStopsWs, Alone
    <3>2. Quiet'
      BY <2>2, <3>1 DEF Quiet, Active, Running, SessionTypeOK
    <3> QED BY <1>0, <3>2 DEF Alone, Quiet
  <2> QED BY <1>1, <1>6, <2>1, <2>2 DEF AuthFailedStopsWs, Running
<1>7. CASE AuthFailedClearsApi(l)
  BY <1>1, <1>7 DEF AuthFailedClearsApi, Running
<1>8. CASE AuthFailedClearsState(l)
  BY <1>1, <1>8 DEF AuthFailedClearsState, Running
<1>9. CASE AuthFailedMerges(l) \/ AuthFailedLands(l) \/ AuthFailedSaveFails(l)
  BY <1>1, <1>9 DEF AuthFailedMerges, AuthFailedLands, AuthFailedSaveFails, Running
<1> QED BY <1>2, <1>3, <1>4, <1>5, <1>6, <1>7, <1>8, <1>9 DEF ListenerNext

\* A new process has no listener.
LEMMA RestartAlone == RestartProcess => Quiet' /\ ~Overlap'
BY DEF RestartProcess, Quiet, Active, Running, NoListener, Overlap, InAuthFailed, StopSteps,
       ClearSteps

\* Alone is inductive.
LEMMA AloneStep == SessionTypeOK /\ Alone /\ [SessionNext]_sessionVars => Alone'
<1> SUFFICES ASSUME SessionTypeOK, Alone, [SessionNext]_sessionVars PROVE Alone'
  OBVIOUS
<1>1. CASE MainNext /\ Noted
  BY <1>1, MainAlone
<1>2. ASSUME NEW l \in Listeners, ListenerNext(l), Noted PROVE Alone'
  BY <1>2, ListenerAlone
<1>3. CASE RestartProcess /\ raced' = FALSE
  BY <1>3, RestartAlone DEF Alone, Quiet
<1>4. ASSUME NEW token \in valid, EndSession(token), Noted PROVE Alone'
  BY <1>4 DEF EndSession, Noted, Alone, Quiet, Active, Running, At
<1>5. ASSUME NEW t \in Savers, SaveSpills(t), Noted PROVE Alone'
  BY <1>5 DEF SaveSpills, Noted, Alone, Quiet, Active, Running, At
<1>6. CASE UNCHANGED sessionVars
  BY <1>6 DEF sessionVars, Alone, Overlap, InAuthFailed, Quiet, Active, Running, At
<1> QED BY <1>1, <1>2, <1>3, <1>4, <1>5, <1>6 DEF SessionNext

-----------------------------------------------------------------------------
(* Logout *)

\* The command thread is in a save just at its step; a save that is alone is the only one.
Apart ==
    /\ saves[MainThread].open => MainAt("write")
    /\ \A t \in Savers :
         saves[t].alone => saves[t].open /\ \A u \in Savers : saves[u].open => u = t

\* What each step of a logout has cleared so far.
LoggingOut ==
    main.cmd = "logout" =>
        /\ main.token = NoToken
        /\ main.step \in {"idle"} \cup ClearSteps \cup StopSteps
        /\ main.step # "api" => api = NoToken
        /\ main.step \notin {"api", "mem"} => mem = NoToken
        /\ main.step = "write" => saves[MainThread].open /\ saves[MainThread].token = NoToken
        /\ main.step \notin ClearSteps /\ ~crossed =>
             saved = NoToken /\ \A t \in Savers : saves[t].open => saves[t].token = NoToken
        /\ main.step = "idle" /\ ~raced => Quiet

\* What the steps of a save of thread t do to the saves.
LEMMA MergeEffect ==
    ASSUME SessionTypeOK, NEW t \in Savers, Merge(t)
    PROVE  /\ saves'[t].open /\ saves'[t].token = mem
           /\ saves'[t].alone => \A u \in Savers : ~saves[u].open
           /\ \A u \in Savers \ {t} : /\ saves'[u].open = saves[u].open /\ ~saves'[u].alone
                                      /\ saves'[u].token = saves[u].token
           /\ UNCHANGED <<saved, crossed>>
BY DEF Merge, SessionTypeOK

LEMMA ClosedEffect ==
    ASSUME SessionTypeOK, NEW t \in Savers, saves' = [saves EXCEPT ![t] = NoSave]
    PROVE  ~saves'[t].open /\ ~saves'[t].alone /\ \A u \in Savers \ {t} : saves'[u] = saves[u]
BY DEF SessionTypeOK, NoSave

\* Between its steps the command thread saves nothing; the steps of a listener save for it.
ListenerStores(l) == UNCHANGED store \/ Merge(l) \/ (Land(l) /\ UNCHANGED crossed) \/ Drop(l)

LEMMA ListenerStoring ==
    ASSUME NEW l \in Listeners, ListenerNext(l)
    PROVE  ListenerStores(l)
BY DEF ListenerNext, Connect, Listen, Handle, HandleLands, HandleFails, Sleep, AuthFailedStopsWs,
       AuthFailedClearsApi, AuthFailedClearsState, AuthFailedMerges, AuthFailedLands,
       AuthFailedSaveFails, ListenerStores, local

LEMMA MainStoring ==
    ASSUME MainNext
    PROVE  MainMerges \/ MainLands \/ MainSaveFails
           \/ (UNCHANGED store /\ main.step # "write")
BY DEF MainNext, Login, Logout, MainSetsApi, MainSetsState, Publish, StartWs, ReplaceWs, CreateWs,
       RunWs, MainStopsWs, MainAt, local

\* A save that begins leaves none alone but itself; one that ends leaves the others.
LEMMA MergeApart ==
    ASSUME SessionTypeOK, Apart, NEW t \in Savers, Merge(t)
    PROVE  \A v \in Savers :
             saves'[v].alone => saves'[v].open /\ \A u \in Savers : saves'[u].open => u = v
<1> SUFFICES ASSUME NEW v \in Savers, saves'[v].alone
             PROVE  saves'[v].open /\ \A u \in Savers : saves'[u].open => u = v
  OBVIOUS
<1>1. v = t
  BY MergeEffect
<1>2. \A u \in Savers : u # t => ~saves'[u].open
  BY <1>1, MergeEffect
<1> QED BY <1>1, <1>2, MergeEffect

LEMMA CloseApart ==
    ASSUME SessionTypeOK, Apart, NEW t \in Savers, saves' = [saves EXCEPT ![t] = NoSave]
    PROVE  \A v \in Savers :
             saves'[v].alone => saves'[v].open /\ \A u \in Savers : saves'[u].open => u = v
<1> SUFFICES ASSUME NEW v \in Savers, saves'[v].alone
             PROVE  saves'[v].open /\ \A u \in Savers : saves'[u].open => u = v
  OBVIOUS
<1>1. v # t /\ \A u \in Savers : saves'[u].open => u # t
  BY ClosedEffect
<1>2. \A u \in Savers \ {t} : saves'[u] = saves[u]
  BY ClosedEffect
<1> QED BY <1>1, <1>2 DEF Apart

\* Apart is inductive.
LEMMA ApartStep == SessionTypeOK /\ Apart /\ [SessionNext]_sessionVars => Apart'
<1> SUFFICES ASSUME SessionTypeOK, Apart, [SessionNext]_sessionVars PROVE Apart'
  OBVIOUS
<1>0. MainThread \in Savers /\ MainThread \notin Listeners /\ Listeners \subseteq Savers
  BY ClientAssumption DEF Savers, MainThread
<1>1. CASE MainNext
  <2>1. CASE MainMerges
    <3>1. MainAt("write")'
      BY <2>1 DEF MainMerges, MainTo, MainAt, SessionTypeOK
    <3>2. Merge(MainThread)
      BY <2>1 DEF MainMerges
    <3> QED BY <1>0, <3>1, <3>2, MergeApart DEF Apart
  <2>2. CASE MainLands \/ MainSaveFails
    <3>1. saves' = [saves EXCEPT ![MainThread] = NoSave]
      BY <2>2 DEF MainLands, MainSaveFails, Land, Drop
    <3> QED BY <1>0, <3>1, CloseApart, ClosedEffect DEF Apart
  <2>3. CASE UNCHANGED store /\ main.step # "write"
    BY <2>3 DEF store, Apart, MainAt
  <2> QED BY <1>1, <2>1, <2>2, <2>3, MainStoring
<1>2. ASSUME NEW l \in Listeners, ListenerNext(l) PROVE Apart'
  <2>0. UNCHANGED main
    BY <1>2
       DEF ListenerNext, Connect, Listen, Handle, HandleLands, HandleFails, Sleep, AuthFailedStopsWs,
           AuthFailedClearsApi, AuthFailedClearsState, AuthFailedMerges, AuthFailedLands,
           AuthFailedSaveFails
  <2>1. CASE UNCHANGED store
    BY <2>0, <2>1 DEF store, Apart, MainAt
  <2>2. CASE Merge(l)
    <3>1. saves'[MainThread].open = saves[MainThread].open
      BY <1>0, <2>2, MergeEffect
    <3> QED BY <1>0, <2>0, <2>2, <3>1, MergeApart DEF Apart, MainAt
  <2>3. CASE Land(l) \/ Drop(l)
    <3>1. saves' = [saves EXCEPT ![l] = NoSave]
      BY <2>3 DEF Land, Drop
    <3>2. saves'[MainThread] = saves[MainThread]
      BY <1>0, <3>1, ClosedEffect
    <3> QED BY <1>0, <2>0, <3>1, <3>2, CloseApart DEF Apart, MainAt
  <2> QED BY <1>2, <2>1, <2>2, <2>3, ListenerStoring DEF ListenerStores
<1>3. CASE RestartProcess
  BY <1>0, <1>3 DEF RestartProcess, NoSave, Apart
<1>4. ASSUME NEW token \in valid, EndSession(token) PROVE Apart'
  BY <1>4 DEF EndSession, Apart, MainAt, local, store
<1>5. ASSUME NEW t \in Savers, SaveSpills(t) PROVE Apart'
  BY <1>5 DEF SaveSpills, Apart, MainAt
<1>6. CASE UNCHANGED sessionVars
  BY <1>6 DEF sessionVars, Apart, MainAt, local, store
<1> QED BY <1>1, <1>2, <1>3, <1>4, <1>5, <1>6 DEF SessionNext

\* Once the logout's own save has landed alone, what listeners save is without a token.
LEMMA ListenerStoresNothing ==
    ASSUME SessionTypeOK, Apart, NEW l \in Listeners, ListenerStores(l), mem = NoToken, saved = NoToken,
           \A t \in Savers : saves[t].open => saves[t].token = NoToken
    PROVE  saved' = NoToken /\ \A t \in Savers : saves'[t].open => saves'[t].token = NoToken
<1>0. l \in Savers
  BY DEF Savers
<1>1. CASE UNCHANGED store
  BY <1>1 DEF store
<1>2. CASE Merge(l)
  BY <1>0, <1>2, MergeEffect
<1>3. CASE Land(l)
  <2>1. saves[l].alone => saves[l].token = NoToken
    BY <1>0 DEF Apart
  <2>2. saved' = NoToken
    BY <1>3, <2>1 DEF Land
  <2> QED BY <1>0, <1>3, <2>2, ClosedEffect DEF Land
<1>4. CASE Drop(l)
  BY <1>0, <1>4, ClosedEffect DEF Drop
<1> QED BY <1>1, <1>2, <1>3, <1>4 DEF ListenerStores

\* A listener can only clear a token, or save what is in memory; none wakes up.
LEMMA ListenerLoggingOut ==
    ASSUME SessionTypeOK, Apart, LoggingOut, NEW l \in Listeners, ListenerNext(l), Noted
    PROVE  LoggingOut'
<1> SUFFICES ASSUME main'.cmd = "logout" PROVE LoggingOut'
  BY DEF LoggingOut
<1>0. l # MainThread /\ l \in Savers /\ MainThread \in Savers
  BY ClientAssumption DEF Savers, MainThread
<1>1. UNCHANGED main /\ (raced => raced')
  BY DEF Noted, ListenerNext, Connect, Listen, Handle, HandleLands, HandleFails, Sleep,
         AuthFailedStopsWs, AuthFailedClearsApi, AuthFailedClearsState, AuthFailedMerges,
         AuthFailedLands, AuthFailedSaveFails
<1>2. Quiet => Quiet'
  BY DEF Quiet, Active, Running, Stopped, SessionTypeOK, At, To, Unless,
         ListenerNext, Connect, Listen, Handle, HandleLands, HandleFails, Sleep,
         AuthFailedStopsWs, AuthFailedClearsApi, AuthFailedClearsState, AuthFailedMerges,
         AuthFailedLands, AuthFailedSaveFails
<1>3. api' \in {api, NoToken} /\ mem' \in {mem, NoToken}
  BY DEF local, ListenerNext, Connect, Listen, Handle, HandleLands, HandleFails, Sleep,
         AuthFailedStopsWs, AuthFailedClearsApi, AuthFailedClearsState, AuthFailedMerges,
         AuthFailedLands, AuthFailedSaveFails
<1>4. ListenerStores(l) /\ UNCHANGED crossed
  BY ListenerStoring DEF ListenerStores, store, Merge, Drop
<1>5. saves'[MainThread].open = saves[MainThread].open /\ saves'[MainThread].token = saves[MainThread].token
  BY <1>0, <1>4, MergeEffect, ClosedEffect DEF ListenerStores, store, Land, Drop
<1>6. main.step \notin ClearSteps /\ ~crossed =>
          saved' = NoToken /\ \A t \in Savers : saves'[t].open => saves'[t].token = NoToken
  BY <1>1, <1>4, ListenerStoresNothing DEF LoggingOut, ClearSteps
<1> QED BY <1>1, <1>2, <1>3, <1>4, <1>5, <1>6 DEF LoggingOut, ClearSteps

\* LoggingOut is preserved by the steps of a command.
LEMMA MainLoggingOut ==
    ASSUME SessionTypeOK, Alone, Apart, LoggingOut, MainNext, Noted
    PROVE  LoggingOut'
<1> SUFFICES ASSUME main'.cmd = "logout" PROVE LoggingOut'
  BY DEF LoggingOut
<1>0. MainThread \in Savers
  BY DEF Savers
<1> USE DEF MainAt, MainTo, StopSteps, ClearSteps
<1>1. CASE Logout
  BY <1>1 DEF Logout, LoggingOut
<1>2. CASE MainSetsApi
  BY <1>2 DEF MainSetsApi, LoggingOut, SessionTypeOK
<1>3. CASE MainSetsState
  BY <1>3 DEF MainSetsState, LoggingOut, SessionTypeOK
<1>4. CASE MainMerges
  <2>1. saves'[MainThread].open /\ saves'[MainThread].token = mem
    BY <1>0, <1>4, MergeEffect DEF MainMerges
  <2> QED BY <1>4, <2>1 DEF MainMerges, LoggingOut, SessionTypeOK
<1>7. CASE MainLands
  <2>1. /\ main.cmd = "logout" /\ main.step = "write" /\ main'.step = "stop?"
        /\ main'.token = main.token /\ UNCHANGED <<api, mem>>
    BY <1>7 DEF MainLands, SessionTypeOK
  <2>2. ASSUME ~crossed'
        PROVE  saved' = NoToken /\ \A t \in Savers : saves'[t].open => saves'[t].token = NoToken
    <3>1. saves[MainThread].alone /\ saves[MainThread].open /\ saves[MainThread].token = NoToken
      BY <1>7, <2>1, <2>2 DEF MainLands, LoggingOut
    <3>2. saved' = NoToken
      BY <1>7, <3>1 DEF MainLands, Land
    <3>3. saves' = [saves EXCEPT ![MainThread] = NoSave]
      BY <1>7 DEF MainLands, Land
    <3>4. \A t \in Savers : ~saves'[t].open
      BY <1>0, <3>1, <3>3, ClosedEffect DEF Apart
    <3> QED BY <3>2, <3>4
  <2> QED BY <2>1, <2>2 DEF LoggingOut
<1>8. ~MainSaveFails
  BY DEF MainSaveFails, MainFails, SessionTypeOK
<1>5. CASE MainStopsWs
  <2>1. /\ main.cmd = "logout" /\ main'.token = main.token /\ UNCHANGED <<api, mem, store>>
        /\ main.step \in StopSteps /\ main'.step \in {"idle", "stop", "forget"}
    BY <1>5 DEF MainStopsWs, MainFails, local, SessionTypeOK
  <2>2. main'.step = "idle" /\ ~raced' => Quiet'
    <3> SUFFICES ASSUME main'.step = "idle", ~raced' PROVE Quiet'
      OBVIOUS
    <3>1. ~raced
      BY DEF Noted
    <3>2. UNCHANGED listeners
      BY <1>5 DEF MainStopsWs, MainFails, SessionTypeOK
    <3>3. main.step = "forget" \/ (main.step = "stop?" /\ ws = NoWs)
      BY <1>5, <2>1 DEF MainStopsWs, MainFails, SessionTypeOK
    <3>4. Quiet
      BY <3>1, <3>3, ClientAssumption DEF Alone, Quiet, NoWs
    <3> QED BY <3>2, <3>4 DEF Quiet, Active, Running
  <2> QED BY <2>1, <2>2 DEF LoggingOut, store
<1>6. CASE Login \/ Publish \/ StartWs \/ ReplaceWs \/ RunWs \/ \E l \in Listeners : CreateWs(l)
  <2>1. main'.cmd = "login" \/ main'.cmd = main.cmd \/ main'.cmd = "failed"
    <3>1. \A step : MainTo(step) => main'.cmd = main.cmd
      BY DEF SessionTypeOK
    <3>2. MainFails => main'.cmd = "failed"
      BY DEF MainFails, SessionTypeOK
    <3> HIDE DEF MainTo
    <3> QED BY <1>6, <3>1, <3>2 DEF Login, Publish, StartWs, ReplaceWs, CreateWs, RunWs
  <2>2. CASE ~Login
    <3>1. main.step \in {"publish", "start?", "replace", "run", "create"}
      BY <1>6, <2>2 DEF Publish, StartWs, ReplaceWs, CreateWs, RunWs
    <3> QED BY <2>1, <3>1 DEF LoggingOut
  <2> QED BY <2>2 DEF Login
<1> QED BY <1>1, <1>2, <1>3, <1>4, <1>5, <1>6, <1>7, <1>8 DEF MainNext

\* LoggingOut is inductive.
LEMMA LoggingOutStep ==
    SessionTypeOK /\ Alone /\ Apart /\ LoggingOut /\ [SessionNext]_sessionVars => LoggingOut'
<1> SUFFICES ASSUME SessionTypeOK, Alone, Apart, LoggingOut, [SessionNext]_sessionVars
             PROVE  LoggingOut'
  OBVIOUS
<1>1. CASE MainNext /\ Noted
  BY <1>1, MainLoggingOut
<1>2. ASSUME NEW l \in Listeners, ListenerNext(l), Noted PROVE LoggingOut'
  BY <1>2, ListenerLoggingOut
<1>3. CASE RestartProcess /\ raced' = FALSE
  BY <1>3 DEF RestartProcess, LoggingOut
<1>4. ASSUME NEW token \in valid, EndSession(token), Noted PROVE LoggingOut'
  BY <1>4 DEF EndSession, Noted, LoggingOut, Quiet, Active, Running, local, store
<1>5. ASSUME NEW t \in Savers, SaveSpills(t), Noted PROVE LoggingOut'
  <2>1. /\ saves[t].open /\ saved' \in {saves[t].token, NoToken} /\ (raced => raced')
        /\ UNCHANGED <<api, mem, saves, crossed, main, listeners>>
    BY <1>5 DEF SaveSpills, Noted
  <2>2. Quiet => Quiet'
    BY <2>1 DEF Quiet, Active, Running
  <2> QED BY <2>1, <2>2 DEF LoggingOut
<1>6. CASE UNCHANGED sessionVars
  BY <1>6 DEF sessionVars, LoggingOut, Quiet, Active, Running, local, store
<1> QED BY <1>1, <1>2, <1>3, <1>4, <1>5, <1>6 DEF SessionNext

-----------------------------------------------------------------------------
SessionInv == SessionTypeOK /\ Alone /\ Apart /\ LoggingOut

\* The inductive invariant holds throughout.
LEMMA SessionInvariant == SessionSpec => []SessionInv
<1>1. SessionInit => Alone /\ Apart /\ LoggingOut
  <2>1. SessionInit => Alone /\ LoggingOut
    BY DEF SessionInit, Alone, LoggingOut, Overlap, InAuthFailed, Quiet, Active, Running, At,
           NoListener, StopSteps, ClearSteps
  <2>2. SessionInit => Apart
    BY DEF SessionInit, Apart, NoSave, Savers
  <2> QED BY <2>1, <2>2
<1>2. SessionTypeOK /\ Alone /\ Apart /\ LoggingOut /\ [SessionNext]_sessionVars
        => Alone' /\ Apart' /\ LoggingOut'
  BY AloneStep, ApartStep, LoggingOutStep
<1> QED BY <1>1, <1>2, SessionTypeCorrect, PTL DEF SessionInv, SessionSpec

\* However logins, failed logins, logouts, restarts and auth_failed events follow one
\* another, one listener at most is active and ws refers to it (as long as no auth_failed is
\* handled during a command), so that _stop_ws always stops the one there is.
THEOREM OneActiveListener == SessionSpec => []OneListener
<1>1. SessionInv => OneListener
  BY DEF SessionInv, Alone, OneListener
<1> QED BY <1>1, SessionInvariant, PTL

\* When logout returns, no token is left in memory and, unless a listener's save overlapped
\* the one of the logout, none in the file: what listeners save before and after it does not
\* bring one back.  No listener is active, unless an auth_failed was handled during a command.
THEOREM LogoutLeavesNothing == SessionSpec => []LogoutIsComplete
<1>1. SessionInv => LogoutIsComplete
  BY DEF SessionInv, LoggingOut, LogoutIsComplete, MainAt, Quiet, ClearSteps
<1> QED BY <1>1, SessionInvariant, PTL

-----------------------------------------------------------------------------
(* Whose token auth_failed clears *)

\* A listener that handles auth_failed connected with a token the server no longer accepts.
TokenRefused == \A l \in Listeners : InAuthFailed(l) => listeners[l].token \notin valid

\* Between commands ws is the listener of the session of api, unless the last command failed;
\* so is the listener that handles auth_failed.
OwnSession ==
    ~raced =>
        /\ main.step = "run" /\ ws # NoWs => listeners[ws].token = api
        /\ main.step = "idle" /\ main.cmd # "failed" /\ ws # NoWs
               => api \in {listeners[ws].token, NoToken}
        /\ \A l \in Listeners :
               InAuthFailed(l) /\ main.cmd # "failed" => api \in {listeners[l].token, NoToken}

\* Starting the listener changes its phase only.
LEMMA RunKeepsTokens ==
    ASSUME SessionTypeOK, RunWs, ws # NoWs
    PROVE  /\ main'.step = "idle" /\ ws \in Listeners /\ UNCHANGED <<ws, api>>
           /\ listeners'[ws].token = listeners[ws].token /\ listeners'[ws].phase = "connecting"
           /\ \A l \in Listeners : l # ws => listeners'[l] = listeners[l]
<1>1. listeners \in [Listeners -> Listener] /\ ws \in Listeners
  BY DEF Listener, SessionTypeOK
<1>2. PICK started : started = [listeners[ws] EXCEPT !.stop = FALSE, !.phase = "connecting"]
  OBVIOUS
<1>3. started.token = listeners[ws].token /\ started.phase = "connecting"
  BY <1>1, <1>2 DEF Listener
<1>4. listeners' = [listeners EXCEPT ![ws] = started]
  BY <1>2 DEF RunWs
<1>5. main'.step = "idle" /\ UNCHANGED <<ws, api>>
  BY DEF RunWs, MainTo, local, SessionTypeOK
<1> QED BY <1>1, <1>3, <1>4, <1>5

\* No step changes the token of a listener that is there, and auth_failed begins with a
\* token the server has refused.
LEMMA AuthFailedBegins ==
    ASSUME SessionTypeOK, [SessionNext]_sessionVars, NEW l \in Listeners, InAuthFailed(l)'
    PROVE  /\ listeners'[l].token = listeners[l].token
           /\ \/ InAuthFailed(l)
              \/ Connect(l) /\ listeners[l].token \notin valid /\ ~listeners[l].stop
<1> USE DEF InAuthFailed, StopSteps, ClearSteps
<1>1. CASE UNCHANGED listeners
  BY <1>1
<1>2. CASE MainNext
  <2>1. ASSUME ws \in Listeners, listeners' = Stopped(ws)
        PROVE  listeners'[l].token = listeners[l].token /\ InAuthFailed(l)
    BY <2>1 DEF Stopped, SessionTypeOK
  <2>2. ASSUME NEW k \in Listeners, CreateWs(k)
        PROVE  listeners'[l].token = listeners[l].token /\ InAuthFailed(l)
    BY <2>2 DEF CreateWs, SessionTypeOK
  <2>3. CASE RunWs /\ ws # NoWs
    BY <2>3, RunKeepsTokens
  <2>4. CASE ReplaceWs
    BY <1>1, <2>1, <2>4 DEF ReplaceWs, SessionTypeOK
  <2>5. CASE MainStopsWs
    BY <1>1, <2>1, <2>5 DEF MainStopsWs, SessionTypeOK
  <2> QED
    BY <1>1, <1>2, <2>2, <2>3, <2>4, <2>5
       DEF MainNext, Login, Logout, MainSetsApi, MainSetsState, MainMerges, MainLands,
           MainSaveFails, Publish, StartWs, RunWs
<1>3. ASSUME NEW k \in Listeners, ListenerNext(k)
      PROVE  /\ listeners'[l].token = listeners[l].token
             /\ InAuthFailed(l) \/ (Connect(l) /\ listeners[l].token \notin valid /\ ~listeners[l].stop)
  <2> USE DEF At, To, Unless
  <2>1. CASE Connect(k)
    BY <2>1 DEF Connect, SessionTypeOK
  <2>2. CASE AuthFailedStopsWs(k)
    BY <2>2 DEF AuthFailedStopsWs, Stopped, SessionTypeOK
  <2>3. CASE Listen(k) \/ Handle(k) \/ HandleLands(k) \/ HandleFails(k) \/ Sleep(k)
    BY <2>3 DEF Listen, Handle, HandleLands, HandleFails, Sleep, SessionTypeOK
  <2>4. CASE AuthFailedClearsApi(k) \/ AuthFailedClearsState(k)
    BY <2>4 DEF AuthFailedClearsApi, AuthFailedClearsState, SessionTypeOK
  <2>5. CASE AuthFailedMerges(k) \/ AuthFailedLands(k) \/ AuthFailedSaveFails(k)
    BY <2>5 DEF AuthFailedMerges, AuthFailedLands, AuthFailedSaveFails, SessionTypeOK
  <2> QED BY <1>3, <2>1, <2>2, <2>3, <2>4, <2>5 DEF ListenerNext
<1>4. ~RestartProcess
  BY DEF RestartProcess, NoListener
<1> QED BY <1>1, <1>2, <1>3, <1>4 DEF SessionNext, EndSession, SaveSpills, sessionVars

\* The server accepts no token again: it only gives out new ones.
LEMMA NoTokenComesBack ==
    ASSUME SessionTypeOK, [SessionNext]_sessionVars
    PROVE  \A token \in 0 .. lastToken : token \in valid' => token \in valid
<1>1. lastToken \in Nat
  BY DEF SessionTypeOK
<1>2. valid' \subseteq valid \/ Login
  <2>1. ASSUME NEW l \in Listeners, ListenerNext(l) PROVE valid' = valid
    BY <2>1
       DEF ListenerNext, Connect, Listen, Handle, HandleLands, HandleFails, Sleep, AuthFailedStopsWs,
           AuthFailedClearsApi, AuthFailedClearsState, AuthFailedMerges, AuthFailedLands,
           AuthFailedSaveFails, server
  <2>2. MainNext => valid' \subseteq valid \/ Login
    BY DEF MainNext, Logout, MainSetsApi, MainSetsState, MainMerges, MainLands, MainSaveFails,
           Publish, StartWs, ReplaceWs, CreateWs, RunWs, MainStopsWs, server
  <2> QED
    BY <2>1, <2>2 DEF SessionNext, SaveSpills, RestartProcess, EndSession, server, sessionVars
<1> QED BY <1>1, <1>2 DEF Login

LEMMA TokenRefusedStep ==
    SessionTypeOK /\ TokenRefused /\ [SessionNext]_sessionVars => TokenRefused'
<1> SUFFICES ASSUME SessionTypeOK, TokenRefused, [SessionNext]_sessionVars,
                    NEW l \in Listeners, InAuthFailed(l)'
             PROVE  listeners'[l].token \notin valid'
  BY DEF TokenRefused
<1>1. listeners'[l].token = listeners[l].token /\ listeners[l].token \notin valid
  BY AuthFailedBegins DEF TokenRefused
<1>2. listeners[l].token \in 0 .. lastToken
  BY DEF SessionTypeOK
<1> QED BY <1>1, <1>2, NoTokenComesBack

\* A command runs alone, or not at all, while no auth_failed overlaps it.
LEMMA MainOwn ==
    ASSUME SessionTypeOK, Alone, OwnSession, MainNext, Noted
    PROVE  OwnSession'
<1> SUFFICES ASSUME ~raced' PROVE OwnSession'
  BY DEF OwnSession
<1>0. ~raced /\ ~Overlap /\ ~Overlap' /\ [SessionNext]_sessionVars
  BY DEF Noted, Alone, SessionNext
<1>1. \A l \in Listeners : ~InAuthFailed(l)'
  <2> SUFFICES ASSUME NEW l \in Listeners, InAuthFailed(l)' PROVE FALSE
    OBVIOUS
  <2>1. main'.step = "idle"
    BY <1>0 DEF Overlap
  <2>2. main.step # "idle"
    BY <2>1 DEF MainNext, Login, Logout, MainSetsApi, MainSetsState, MainMerges, MainLands,
                MainSaveFails, Publish, StartWs, ReplaceWs, CreateWs, RunWs, MainStopsWs, MainAt
  <2>3. ~InAuthFailed(l)
    BY <1>0, <2>2 DEF Overlap
  <2>4. ~Connect(l)
    BY <2>1, <2>2 DEF Connect
  <2> QED BY <1>0, <2>3, <2>4, AuthFailedBegins
<1> USE DEF MainAt, MainTo, MainFails
<1>2. CASE main'.step \notin {"run", "idle"} \/ (main'.step = "idle" /\ main'.cmd = "failed")
  BY <1>1, <1>2 DEF OwnSession
<1>3. CASE StartWs
  BY <1>1, <1>2, <1>3 DEF StartWs, OwnSession, SessionTypeOK, local
<1>4. ASSUME NEW l \in Listeners, CreateWs(l) PROVE OwnSession'
  BY <1>1, <1>4 DEF CreateWs, OwnSession, SessionTypeOK, local
<1>5. CASE RunWs
  <2>1. CASE ws = NoWs
    BY <1>2, <1>5, <2>1 DEF RunWs, SessionTypeOK
  <2>2. CASE ws # NoWs
    <3>1. listeners[ws].token = api
      BY <1>0, <1>5, <2>2 DEF OwnSession, RunWs
    <3>2. main'.step = "idle" /\ api' = listeners'[ws'].token
      BY <1>5, <2>2, <3>1, RunKeepsTokens
    <3> QED BY <1>1, <3>2 DEF OwnSession
  <2> QED BY <2>1, <2>2
<1>6. CASE MainStopsWs
  BY <1>1, <1>2, <1>6, ClientAssumption DEF MainStopsWs, OwnSession, SessionTypeOK, NoWs
<1>7. CASE Login \/ Logout \/ MainSetsApi \/ MainSetsState
  BY <1>2, <1>7 DEF Login, Logout, MainSetsApi, MainSetsState, SessionTypeOK
<1>9. CASE MainMerges \/ MainLands \/ MainSaveFails
  BY <1>2, <1>9 DEF MainMerges, MainLands, MainSaveFails, SessionTypeOK
<1>8. CASE Publish \/ ReplaceWs
  BY <1>2, <1>8 DEF Publish, ReplaceWs, SessionTypeOK
<1> QED BY <1>3, <1>4, <1>5, <1>6, <1>7, <1>8, <1>9 DEF MainNext

\* The listener that begins auth_failed was not stopped, so it is the one ws refers to.
LEMMA ListenerOwn ==
    ASSUME SessionTypeOK, Alone, OwnSession, NEW l \in Listeners, ListenerNext(l), Noted
    PROVE  OwnSession'
<1> SUFFICES ASSUME ~raced' PROVE OwnSession'
  BY DEF OwnSession
<1>0. ~raced /\ ~Overlap /\ ~Overlap' /\ [SessionNext]_sessionVars
  BY DEF Noted, Alone, SessionNext
<1> USE DEF ListenerNext, Connect, Listen, Handle, HandleLands, HandleFails, Sleep,
            AuthFailedStopsWs, AuthFailedClearsApi, AuthFailedClearsState, AuthFailedMerges,
            AuthFailedLands, AuthFailedSaveFails
<1>1. /\ UNCHANGED main /\ ws' \in {ws, NoWs}
      /\ \/ api' = api
         \/ api' = NoToken /\ At(l, "api")
  BY DEF local
<1>2. ASSUME NEW k \in Listeners PROVE listeners'[k].token = listeners[k].token
  <2>1. \A phase : To(l, phase) => listeners'[k].token = listeners[k].token
    BY <1>2 DEF To, SessionTypeOK
  <2>2. CASE listeners' = [Stopped(ws) EXCEPT ![l].phase = "forget"]
    BY <1>2, <2>2 DEF Stopped, SessionTypeOK
  <2> HIDE DEF To
  <2> QED BY <1>0, <2>1, <2>2 DEF Unless
<1>3. ASSUME main.step = "run", ws' # NoWs PROVE listeners'[ws'].token = api'
  <2>1. ~At(l, "api")
    BY <1>0, <1>3 DEF Overlap, InAuthFailed, At, ClearSteps
  <2> QED BY <1>0, <1>1, <1>2, <1>3, <2>1 DEF OwnSession, SessionTypeOK
<1>4. ASSUME main.step = "idle", main.cmd # "failed", ws' # NoWs
      PROVE  api' \in {listeners'[ws'].token, NoToken}
  BY <1>0, <1>1, <1>2, <1>4 DEF OwnSession, SessionTypeOK
<1>5. ASSUME NEW k \in Listeners, InAuthFailed(k)', main.cmd # "failed"
      PROVE  api' \in {listeners'[k].token, NoToken}
  <2>1. CASE InAuthFailed(k)
    BY <1>0, <1>1, <1>2, <1>5, <2>1 DEF OwnSession
  <2>2. CASE ~InAuthFailed(k)
    <3>1. Connect(k) /\ ~listeners[k].stop
      BY <1>0, <1>5, <2>2, AuthFailedBegins
    <3>2. k = ws /\ ws # NoWs
      BY <1>0, <3>1, ClientAssumption DEF Alone, Active, Running, At, NoWs
    <3>3. main.step = "idle"
      BY <1>0, <1>1, <1>5 DEF Overlap
    <3> QED BY <1>0, <1>1, <1>2, <1>5, <3>2, <3>3 DEF OwnSession
  <2> QED BY <2>1, <2>2
<1> QED BY <1>1, <1>3, <1>4, <1>5 DEF OwnSession

LEMMA OwnSessionStep ==
    SessionTypeOK /\ Alone /\ OwnSession /\ [SessionNext]_sessionVars => OwnSession'
<1> SUFFICES ASSUME SessionTypeOK, Alone, OwnSession, [SessionNext]_sessionVars
             PROVE  OwnSession'
  OBVIOUS
<1>1. CASE MainNext /\ Noted
  BY <1>1, MainOwn
<1>2. ASSUME NEW l \in Listeners, ListenerNext(l), Noted PROVE OwnSession'
  BY <1>2, ListenerOwn
<1>3. CASE RestartProcess /\ raced' = FALSE
  BY <1>3 DEF RestartProcess, OwnSession, InAuthFailed, NoListener, StopSteps, ClearSteps
<1>4. ASSUME NEW token \in valid, EndSession(token), Noted PROVE OwnSession'
  BY <1>4 DEF EndSession, Noted, OwnSession, InAuthFailed, local
<1>5. ASSUME NEW t \in Savers, SaveSpills(t), Noted PROVE OwnSession'
  BY <1>5 DEF SaveSpills, Noted, OwnSession, InAuthFailed
<1>6. CASE UNCHANGED sessionVars
  BY <1>6 DEF sessionVars, OwnSession, InAuthFailed, local
<1> QED BY <1>1, <1>2, <1>3, <1>4, <1>5, <1>6 DEF SessionNext

\* The token that auth_failed clears is one the server refuses, as _handle_event says, unless
\* the event overlapped a command of this process or the last command failed: a login whose
\* publication fails leaves the listener of the session before (execute, _handle_event).
THEOREM ClearedIsInvalid ==
    SessionSpec =>
        [][\A l \in Listeners :
             AuthFailedClearsApi(l) /\ ~raced /\ main.cmd # "failed" => api \notin valid]_sessionVars
<1>1. SessionInit => TokenRefused /\ OwnSession
  BY DEF SessionInit, TokenRefused, OwnSession, InAuthFailed, NoListener, StopSteps, ClearSteps
<1>2. SessionInv /\ TokenRefused /\ OwnSession /\ [SessionNext]_sessionVars
        => TokenRefused' /\ OwnSession'
  BY TokenRefusedStep, OwnSessionStep DEF SessionInv
<1>3. SessionInv /\ TokenRefused /\ OwnSession =>
        (\A l \in Listeners :
           AuthFailedClearsApi(l) /\ ~raced /\ main.cmd # "failed" => api \notin valid)
  <2> SUFFICES ASSUME SessionInv, TokenRefused, OwnSession, NEW l \in Listeners,
                      AuthFailedClearsApi(l), ~raced, main.cmd # "failed"
               PROVE  api \notin valid
    OBVIOUS
  <2>1. InAuthFailed(l)
    BY DEF AuthFailedClearsApi, At, InAuthFailed, ClearSteps
  <2>2. NoToken \notin valid
    BY DEF SessionInv, SessionTypeOK, NoToken
  <2> QED BY <2>1, <2>2 DEF TokenRefused, OwnSession
<1> QED BY <1>1, <1>2, <1>3, SessionInvariant, PTL DEF SessionSpec


=============================================================================
