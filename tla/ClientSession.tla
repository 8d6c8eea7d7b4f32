--------------------------- MODULE ClientSession ----------------------------
(***************************************************************************)
(* The session of one client process: the commands login and logout of     *)
(* client/cli.py, its WebSocket listeners (client/ws_client.py), the       *)
(* auth_failed event by which a listener ends the session, and the         *)
(* session kept in client_state.json.                                      *)
(*                                                                         *)
(* The thread that reads commands and the listener threads share api, the  *)
(* state dictionary and ws without a lock; each step below is one access   *)
(* to them.  A username is set and cleared next to its token and is left   *)
(* out, as are cursors and timers, and the other commands, which save the  *)
(* token they find.  A save takes the token of the state and later puts it *)
(* into the file, which saves that overlap may leave as any of them would, *)
(* or unreadable; ClientState has the steps inside.  Which tokens the      *)
(* server accepts is external here and the subject of Auth: any of them    *)
(* may end at any time.                                                    *)
(***************************************************************************)
EXTENDS Naturals, FiniteSets

CONSTANTS Listeners,   \* bound: the listeners one process creates
          MaxTokens    \* bound: logins

ASSUME ClientAssumption == Listeners \subseteq Nat \ {0} /\ MaxTokens \in Nat

NoToken == 0   \* None of access_token
NoWs == 0      \* None of ws
MainThread == 0
Savers == {MainThread} \cup Listeners

VARIABLES valid,     \* tokens the server accepts
          lastToken, \* the last token given out
          api,       \* ApiClient.access_token
          mem,       \* state['access_token'] in memory
          saved,     \* the same in client_state.json
          saves,     \* the save each thread is in, and whether it is the only one so far
          ws,        \* the listener the client refers to
          listeners, \* WebSocketListener objects and their threads
          main,      \* the command in progress, or the last one
          raced,     \* history: an auth_failed overlapped a command of this process
          crossed    \* history: the last save of a command overlapped a listener's

server == <<valid, lastToken>>
store == <<saved, saves, crossed>>
local == <<api, mem, store>>
sessionVars == <<server, local, ws, listeners, main, raced>>

Tokens == 1 .. MaxTokens
StopSteps == {"stop?", "stop", "forget"}
ClearSteps == {"api", "mem", "persist", "write"}
\* handling: on_event runs; saving: it saves; then the steps of auth_failed.
Phases == {"none", "created", "connecting", "listening", "handling", "saving", "sleeping", "ended"}
              \cup StopSteps \cup ClearSteps
MainSteps == {"idle", "publish", "start?", "replace", "create", "run"} \cup StopSteps \cup ClearSteps
Commands == {"launch", "login", "logout", "failed"}
NoListener == [token |-> NoToken, stop |-> FALSE, phase |-> "none"]
NoSave == [open |-> FALSE, token |-> NoToken, alone |-> FALSE]

InAuthFailed(l) == listeners[l].phase \in StopSteps \cup ClearSteps
Overlap == main.step # "idle" /\ \E l \in Listeners : InAuthFailed(l)

-----------------------------------------------------------------------------
(* save_state *)

\* The token is taken from the state ...
Merge(t) ==
    /\ saves' = [u \in Savers |->
                    IF u = t THEN [open |-> TRUE, token |-> mem,
                                   alone |-> \A v \in Savers : ~saves[v].open]
                    ELSE [saves[u] EXCEPT !.alone = FALSE]]
    /\ UNCHANGED <<saved, crossed>>

\* ... and put into the file.  A temporary file that another save has opened or is writing
\* may hold the token of that one, or be cut short, and then no token is read from it.
Land(t) ==
    /\ saved' \in IF saves[t].alone THEN {saves[t].token}
                  ELSE {saves[u].token : u \in {v \in Savers : saves[v].open}} \cup {NoToken}
    /\ saves' = [saves EXCEPT ![t] = NoSave]

\* The file cannot be written, or another save has renamed it.
Drop(t) ==
    /\ saves' = [saves EXCEPT ![t] = NoSave]
    /\ UNCHANGED <<saved, crossed>>

\* Another save has renamed the file this one has open: what it writes goes into place.
SaveSpills(t) ==
    /\ saves[t].open /\ ~saves[t].alone
    /\ saved' \in {saves[t].token, NoToken}
    /\ UNCHANGED <<server, api, mem, saves, crossed, ws, listeners, main>>

-----------------------------------------------------------------------------
(* The thread that reads commands *)

MainAt(step) == main.step = step
MainTo(step) == main' = [main EXCEPT !.step = step]
\* AttributeError: ws is None; or the server does not answer.
MainFails == main' = [main EXCEPT !.cmd = "failed", !.step = "idle"]
Stopped(l) == [listeners EXCEPT ![l].stop = TRUE]

\* Both steps of login have succeeded.
Login ==
    /\ MainAt("idle")
    /\ lastToken < MaxTokens
    /\ lastToken' = lastToken + 1
    /\ valid' = valid \cup {lastToken'}
    /\ main' = [cmd |-> "login", step |-> "api", token |-> lastToken']
    /\ UNCHANGED <<local, ws, listeners>>

\* api.logout revokes the session; when it fails nothing else is done.
Logout ==
    /\ MainAt("idle")
    /\ api \in valid
    /\ valid' = valid \ {api}
    /\ main' = [cmd |-> "logout", step |-> "api", token |-> NoToken]
    /\ UNCHANGED <<lastToken, local, ws, listeners>>

MainSetsApi ==
    /\ MainAt("api") /\ MainTo("mem")
    /\ api' = main.token
    /\ UNCHANGED <<server, mem, store, ws, listeners>>

MainSetsState ==
    /\ MainAt("mem") /\ MainTo("persist")
    /\ mem' = main.token
    /\ UNCHANGED <<server, api, store, ws, listeners>>

\* Mutant: what is saved is the state before the command.
MainMergesEarly ==
    /\ MainAt("mem") /\ MainTo("write")
    /\ Merge(MainThread)
    /\ mem' = main.token
    /\ UNCHANGED <<server, api, ws, listeners>>

\* _persist; when it fails the rest of the command is skipped.
MainMerges ==
    /\ MainAt("persist") /\ MainTo("write")
    /\ Merge(MainThread)
    /\ UNCHANGED <<server, api, mem, ws, listeners>>

MainLands ==
    /\ MainAt("write") /\ MainTo(IF main.cmd = "login" THEN "publish" ELSE "stop?")
    /\ Land(MainThread)
    /\ crossed' = ~saves[MainThread].alone
    /\ UNCHANGED <<server, api, mem, ws, listeners>>

MainSaveFails ==
    /\ main.step \in {"persist", "write"} /\ MainFails
    /\ Drop(MainThread)
    /\ UNCHANGED <<server, api, mem, ws, listeners>>

\* _ensure_identity_ready.
Publish ==
    /\ MainAt("publish")
    /\ MainTo("start?") \/ MainFails
    /\ UNCHANGED <<server, local, ws, listeners>>

\* Mutant: the listener of the session before is left running.
StartWsBeside ==
    /\ MainAt("start?")
    /\ MainTo(IF api = NoToken THEN "idle" ELSE "create")
    /\ UNCHANGED <<server, local, ws, listeners>>

\* _start_ws.
StartWs ==
    /\ MainAt("start?")
    /\ MainTo(IF api = NoToken THEN "idle" ELSE IF ws # NoWs THEN "replace" ELSE "create")
    /\ UNCHANGED <<server, local, ws, listeners>>

ReplaceWs ==
    /\ MainAt("replace")
    /\ IF ws = NoWs THEN MainFails /\ UNCHANGED listeners
       ELSE MainTo("create") /\ listeners' = Stopped(ws)
    /\ UNCHANGED <<server, local, ws>>

CreateWs(l) ==
    /\ MainAt("create") /\ MainTo("run")
    /\ listeners[l].phase = "none"
    /\ listeners' = [listeners EXCEPT ![l] = [token |-> api, stop |-> FALSE, phase |-> "created"]]
    /\ ws' = l
    /\ UNCHANGED <<server, local>>

\* start clears the stop flag.
RunWs ==
    /\ MainAt("run")
    /\ IF ws = NoWs THEN MainFails /\ UNCHANGED listeners
       ELSE /\ MainTo("idle")
            /\ listeners' = [listeners EXCEPT ![ws] = [@ EXCEPT !.stop = FALSE, !.phase = "connecting"]]
    /\ UNCHANGED <<server, local, ws>>

\* _stop_ws reads ws twice.
MainStopsWs ==
    /\ \/ MainAt("stop?") /\ MainTo(IF ws = NoWs THEN "idle" ELSE "stop") /\ UNCHANGED <<ws, listeners>>
       \/ MainAt("stop") /\ ws = NoWs /\ MainFails /\ UNCHANGED <<ws, listeners>>
       \/ MainAt("stop") /\ ws # NoWs /\ MainTo("forget") /\ listeners' = Stopped(ws) /\ UNCHANGED ws
       \/ MainAt("forget") /\ MainTo("idle") /\ ws' = NoWs /\ UNCHANGED listeners
    /\ UNCHANGED <<server, local>>

\* Mutant: ws is not reset.
RestartKeepingWs ==
    /\ api' = saved /\ mem' = saved
    /\ listeners' = [l \in Listeners |-> NoListener]
    /\ main' = [cmd |-> "launch", step |-> IF saved = NoToken THEN "idle" ELSE "start?",
                token |-> NoToken]
    /\ saves' = [t \in Savers |-> NoSave] /\ crossed' = FALSE
    /\ UNCHANGED <<server, saved, ws>>

\* The process ends, at any point, and is launched again (__init__).
RestartProcess ==
    /\ api' = saved /\ mem' = saved
    /\ ws' = NoWs
    /\ listeners' = [l \in Listeners |-> NoListener]
    /\ main' = [cmd |-> "launch", step |-> IF saved = NoToken THEN "idle" ELSE "start?",
                token |-> NoToken]
    /\ saves' = [t \in Savers |-> NoSave] /\ crossed' = FALSE
    /\ UNCHANGED <<server, saved>>

-----------------------------------------------------------------------------
(* A listener *)

At(l, phase) == listeners[l].phase = phase
To(l, phase) == listeners' = [listeners EXCEPT ![l].phase = phase]
\* `while not self._stop.is_set()`, or the test in the handler of an exception.
Unless(l, phase) == To(l, IF listeners[l].stop THEN "ended" ELSE phase)

Connect(l) ==
    /\ At(l, "connecting")
    /\ \/ listeners[l].token \in valid /\ To(l, "listening")
       \/ listeners[l].token \notin valid /\ Unless(l, "stop?")
       \/ Unless(l, "sleeping")
    /\ UNCHANGED <<server, local, ws, main>>

\* Mutant: the flag is only looked at when the connection is lost.
ListenAnyway(l) ==
    /\ At(l, "listening")
    /\ To(l, "handling") \/ To(l, "listening") \/ Unless(l, "sleeping")
    /\ UNCHANGED <<server, local, ws, main>>

\* recv times out every second, brings an event, or fails with the connection.
Listen(l) ==
    /\ At(l, "listening")
    /\ IF listeners[l].stop THEN To(l, "ended") ELSE To(l, "handling") \/ To(l, "sleeping")
    /\ UNCHANGED <<server, local, ws, main>>

\* A new_message event is rendered and saved; others only print.
Handle(l) ==
    /\ At(l, "handling")
    /\ \/ To(l, "listening") /\ UNCHANGED store
       \/ To(l, "saving") /\ Merge(l)
    /\ UNCHANGED <<server, api, mem, ws, main>>

HandleLands(l) ==
    /\ At(l, "saving") /\ To(l, "listening")
    /\ Land(l)
    /\ UNCHANGED <<server, api, mem, crossed, ws, main>>

\* The save raises: _run treats it as a lost connection.
HandleFails(l) ==
    /\ listeners[l].phase \in {"handling", "saving"} /\ Unless(l, "sleeping")
    /\ Drop(l)
    /\ UNCHANGED <<server, api, mem, ws, main>>

Sleep(l) ==
    /\ At(l, "sleeping") /\ Unless(l, "connecting")
    /\ UNCHANGED <<server, local, ws, main>>

\* auth_failed: _stop_ws stops the listener that ws refers to now; an AttributeError ends
\* the thread.
AuthFailedStopsWs(l) ==
    /\ \/ At(l, "stop?") /\ To(l, IF ws = NoWs THEN "api" ELSE "stop") /\ UNCHANGED ws
       \/ At(l, "stop") /\ ws = NoWs /\ To(l, "ended") /\ UNCHANGED ws
       \/ /\ At(l, "stop") /\ ws # NoWs
          /\ listeners' = [Stopped(ws) EXCEPT ![l].phase = "forget"]
          /\ UNCHANGED ws
       \/ At(l, "forget") /\ To(l, "api") /\ ws' = NoWs
    /\ UNCHANGED <<server, local, main>>

AuthFailedClearsApi(l) ==
    /\ At(l, "api") /\ To(l, "mem")
    /\ api' = NoToken
    /\ UNCHANGED <<server, mem, store, ws, main>>

AuthFailedClearsState(l) ==
    /\ At(l, "mem") /\ To(l, "persist")
    /\ mem' = NoToken
    /\ UNCHANGED <<server, api, store, ws, main>>

AuthFailedMerges(l) ==
    /\ At(l, "persist") /\ To(l, "write")
    /\ Merge(l)
    /\ UNCHANGED <<server, api, mem, ws, main>>

AuthFailedLands(l) ==
    /\ At(l, "write") /\ To(l, "ended")
    /\ Land(l)
    /\ UNCHANGED <<server, api, mem, crossed, ws, main>>

\* The exception ends the thread.
AuthFailedSaveFails(l) ==
    /\ listeners[l].phase \in {"persist", "write"} /\ To(l, "ended")
    /\ Drop(l)
    /\ UNCHANGED <<server, api, mem, ws, main>>

\* A session expires, or is revoked by a logout elsewhere.
EndSession(token) ==
    /\ token \in valid
    /\ valid' = valid \ {token}
    /\ UNCHANGED <<lastToken, local, ws, listeners, main>>

-----------------------------------------------------------------------------
SessionInit ==
    /\ valid = {} /\ lastToken = 0
    /\ api = NoToken /\ mem = NoToken /\ saved = NoToken
    /\ ws = NoWs
    /\ listeners = [l \in Listeners |-> NoListener]
    /\ main = [cmd |-> "launch", step |-> "idle", token |-> NoToken]
    /\ saves = [t \in Savers |-> NoSave]
    /\ raced = FALSE /\ crossed = FALSE

MainNext ==
    \/ Login \/ Logout \/ MainSetsApi \/ MainSetsState
    \/ MainMerges \/ MainLands \/ MainSaveFails \/ Publish
    \/ StartWs \/ ReplaceWs \/ RunWs \/ MainStopsWs
    \/ \E l \in Listeners : CreateWs(l)

ListenerNext(l) ==
    \/ Connect(l) \/ Listen(l) \/ Handle(l) \/ HandleLands(l) \/ HandleFails(l) \/ Sleep(l)
    \/ AuthFailedStopsWs(l) \/ AuthFailedClearsApi(l) \/ AuthFailedClearsState(l)
    \/ AuthFailedMerges(l) \/ AuthFailedLands(l) \/ AuthFailedSaveFails(l)

Noted == raced' = (raced \/ Overlap')

SessionNext ==
    \/ MainNext /\ Noted
    \/ \E l \in Listeners : ListenerNext(l) /\ Noted
    \/ \E t \in Savers : SaveSpills(t) /\ Noted
    \/ RestartProcess /\ raced' = FALSE
    \/ \E token \in valid : EndSession(token) /\ Noted

\* A listener thread is scheduled: each of its waits has a time-out (open_timeout, recv,
\* sleep, the HTTP client).
SessionSpec ==
    /\ SessionInit /\ [][SessionNext]_sessionVars
    /\ \A l \in Listeners : WF_sessionVars(ListenerNext(l) /\ Noted)

-----------------------------------------------------------------------------
(* Properties *)

\* Every variable has its type; the tokens the client knows are ones the server gave out,
\* and ws is a listener of this process.
SessionTypeOK ==
    /\ valid \subseteq 1 .. lastToken /\ lastToken \in 0 .. MaxTokens
    /\ {api, mem, saved} \subseteq 0 .. lastToken
    /\ listeners \in [Listeners -> [token : 0 .. lastToken, stop : BOOLEAN, phase : Phases]]
    /\ ws \in Listeners \cup {NoWs} /\ (ws # NoWs => listeners[ws].phase # "none")
    /\ main \in [cmd : Commands, step : MainSteps, token : 0 .. lastToken]
    /\ saves \in [Savers -> [open : BOOLEAN, token : 0 .. lastToken, alone : BOOLEAN]]
    /\ raced \in BOOLEAN /\ crossed \in BOOLEAN

Running(l) == listeners[l].phase \notin {"none", "created", "ended"}
Active(l) == Running(l) /\ ~listeners[l].stop

\* Of the listeners of a process one at most is active, so that a push is not handled
\* twice, and it is the one the client can stop: through logins on top of one another,
\* failed logins and auth_failed events, as long as no auth_failed is handled during a
\* command.
OneListener == ~raced => \A l \in Listeners : Active(l) => l = ws

\* After a logout no token is left in memory; none in the file, whoever saves it then,
\* unless a listener's save overlapped the one of the logout, which it may overwrite with the
\* token it took before; and no listener is active, unless an auth_failed was handled during
\* a command.
LogoutIsComplete ==
    main.cmd = "logout" /\ MainAt("idle") =>
        /\ api = NoToken /\ mem = NoToken
        /\ crossed \/ saved = NoToken
        /\ raced \/ \A l \in Listeners : ~Active(l)

\* A listener that was stopped ends.
StoppedEnds ==
    \A l \in Listeners :
        Running(l) /\ listeners[l].stop ~> ~Running(l) \/ ~listeners[l].stop

\* What the comment in _handle_event says: the token that an auth_failed event clears is
\* stale or invalid.  The code does it only while commands and the event do not overlap, and
\* not after a login that failed at its publication, beside the listener of the session before.
ClearedWasInvalid ==
    [][\A l \in Listeners : AuthFailedClearsApi(l) => api \notin valid]_sessionVars

=============================================================================
