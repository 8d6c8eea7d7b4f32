-------------------------- MODULE PeerTrustProofs ---------------------------
(***************************************************************************)
(* Safety of PeerTrust for every set of keys and of listener threads: the  *)
(* two records of a peer stand together only within verify, which with     *)
(* reset-trust leaves at most one of them, and commands are refused        *)
(* while a re-verification is due.  What makes the second one inductive is *)
(* that only Main makes a re-verification due, so none can become due      *)
(* between the moment Main found no trusted key and the moment it uses the *)
(* key it fetched.                                                         *)
(***************************************************************************)
EXTENDS PeerTrust, TLAPS

FirstUse == {"send", "decrypt"}

\* Main is on the path of a first use: it read that no key was trusted.
MainFirstUse ==
    /\ task[Main].step \in {"fetch", "remember", "clean"}
    /\ task[Main].op \in FirstUse
    /\ task[Main].step = "fetch" => task[Main].known = NoKey

\* decrypt asks the server only when no key is trusted, and nothing is confirmed,
\* required or cleaned before a key is trusted.
PathsOK ==
    \A t \in Threads :
        /\ At(t, "fetch") /\ task[t].op = "decrypt" => task[t].known = NoKey
        /\ task[t].step \in {"clean", "confirm", "lift", "withdraw", "require"}
              => trusted # NoKey

\* reset-trust has dropped the verified record, which only Main puts.
Withdrawn == At(Main, "require") => verified = NoKey

TrustInv ==
    /\ TrustTypeOK
    /\ Withdrawn
    /\ PathsOK
    /\ MainFirstUse => reverify = NoKey
    /\ CommandsAreGated

\* The stores a process loads satisfy the invariant.
LEMMA TrustInitInv == TrustInit => TrustInv
  BY TrustAssumption DEF TrustInit, TrustInv, TrustTypeOK, KeyOrNone, Threads, Idle,
     Withdrawn, PathsOK, MainFirstUse, CommandsAreGated, At

\* The peer publishing a key changes nothing the process holds.
LEMMA PublishKeyInv ==
    ASSUME TrustInv, NEW k \in Keys, PublishKey(k) PROVE TrustInv'
  BY DEF PublishKey, stores, TrustInv, TrustTypeOK, KeyOrNone, Withdrawn, PathsOK,
     MainFirstUse, CommandsAreGated, At

\* A handler that starts has read what is trusted now.
LEMMA StartInv ==
    ASSUME TrustInv, NEW t \in Threads, NEW op \in Ops, NEW step \in {"fetch", "gate"},
           Goto(t, Start(op, step)), UNCHANGED <<serverKey, stores>>,
           step = "fetch" /\ op = "decrypt" => trusted = NoKey
    PROVE  TrustInv'
  <1>1. task' = [task EXCEPT ![t] = Start(op, step)] /\ Start(op, step) \in Tasks
    BY DEF Goto, Start, Tasks, Steps, TrustInv, TrustTypeOK, KeyOrNone
  <1>2. TrustTypeOK'
    BY <1>1 DEF stores, TrustInv, TrustTypeOK, Start
  <1>3. Withdrawn' /\ PathsOK'
    BY <1>1 DEF stores, TrustInv, TrustTypeOK, Withdrawn, PathsOK, At, Start
  <1>4. (MainFirstUse => reverify = NoKey)' /\ CommandsAreGated'
    BY <1>1 DEF stores, TrustInv, TrustTypeOK, MainFirstUse, CommandsAreGated, At,
       Start, FirstUse, Threads
  <1>5. QED
    BY <1>2, <1>3, <1>4 DEF TrustInv

\* Where a handler goes after its request.
LEMMA AfterFetchStep ==
    ASSUME NEW op \in Ops, NEW known \in KeyOrNone, NEW key \in Keys
    PROVE  /\ AfterFetch(op, known, key) \in {"report", "remember", "idle", "gate", "confirm"}
           /\ AfterFetch(op, known, key) = "remember" /\ op = "send" => known = NoKey
           /\ AfterFetch(op, known, key) = "confirm" => known = key /\ op = "verify"
  BY DEF AfterFetch, Ops

\* The server's answer sends a handler on, or refuses it.
LEMMA FetchInv == ASSUME TrustInv, NEW t \in Threads, Fetch(t) PROVE TrustInv'
  <1> DEFINE known == IF task[t].op = "verify" THEN trusted ELSE task[t].known
             step == AfterFetch(task[t].op, known, serverKey)
             next == [task[t] EXCEPT !.step = step, !.known = known, !.current = serverKey]
  <1>1. /\ task[t] \in Tasks /\ task[t].step = "fetch" /\ serverKey \in Keys
        /\ task' = [task EXCEPT ![t] = IF step = "idle" THEN Idle ELSE next]
        /\ UNCHANGED <<serverKey, trusted, verified, reverify>>
    BY DEF Fetch, At, Goto, Published, stores, TrustInv, TrustTypeOK, KeyOrNone, Tasks, Idle
  <1>2. /\ known \in KeyOrNone
        /\ step \in {"report", "remember", "idle", "gate", "confirm"}
        /\ step = "remember" /\ task[t].op = "send" => known = NoKey
        /\ step = "confirm" => known = serverKey /\ task[t].op = "verify"
    <2>1. task[t].op \in Ops /\ known \in KeyOrNone
      BY <1>1 DEF Tasks, TrustInv, TrustTypeOK
    <2>2. QED
      BY <1>1, <2>1, AfterFetchStep
  <1> HIDE DEF step, known
  <1>3. step # "idle" => /\ next \in Tasks
                         /\ next.step = step /\ next.current = serverKey
                         /\ next.op = task[t].op /\ next.known = known
    BY <1>1, <1>2 DEF Tasks, Steps, KeyOrNone
  <1>4. known = IF task[t].op = "verify" THEN trusted ELSE task[t].known
    BY DEF known
  <1> HIDE DEF next
  <1>5. TrustTypeOK'
    BY <1>1, <1>2, <1>3 DEF TrustInv, TrustTypeOK, Idle
  <1>6. Withdrawn' /\ PathsOK'
    BY <1>1, <1>2, <1>3, <1>4, TrustAssumption
    DEF TrustInv, TrustTypeOK, Withdrawn, PathsOK, At, Idle
  <1>7. (MainFirstUse => reverify = NoKey)' /\ CommandsAreGated'
    BY <1>1, <1>2, <1>3, <1>4
    DEF TrustInv, TrustTypeOK, PathsOK, MainFirstUse, FirstUse, CommandsAreGated, At,
        Idle, Threads
  <1>8. QED
    BY <1>5, <1>6, <1>7 DEF TrustInv

\* A handler that ends leaves the stores alone.
LEMMA EndInv ==
    ASSUME TrustInv, NEW t \in Threads, Goto(t, Idle), UNCHANGED <<serverKey, stores>>
    PROVE  TrustInv'
  BY DEF Goto, stores, TrustInv, TrustTypeOK, Withdrawn, PathsOK, MainFirstUse, FirstUse,
     CommandsAreGated, At, Idle, Threads

\* Pinning the fetched key leaves the records alone.
LEMMA RememberInv == ASSUME TrustInv, NEW t \in Threads, Remember(t) PROVE TrustInv'
  <1> DEFINE next == [task[t] EXCEPT !.step = "clean"]
  <1>1. /\ task[t] \in Tasks /\ task[t].step = "remember" /\ task[t].current \in Keys
        /\ task' = [task EXCEPT ![t] = next]
        /\ trusted' = task[t].current
        /\ UNCHANGED <<serverKey, verified, reverify>>
    BY DEF Remember, At, Goto, TrustInv, TrustTypeOK, Tasks, Idle
  <1>2. /\ next \in Tasks /\ next.step = "clean" /\ next.current = task[t].current
        /\ next.op = task[t].op /\ next.known = task[t].known
    BY <1>1 DEF Tasks, Steps
  <1> HIDE DEF next
  <1>3. TrustTypeOK'
    BY <1>1, <1>2, TrustAssumption DEF TrustInv, TrustTypeOK, KeyOrNone
  <1>4. Withdrawn' /\ PathsOK'
    BY <1>1, <1>2, TrustAssumption DEF TrustInv, TrustTypeOK, Withdrawn, PathsOK, At
  <1>5. (MainFirstUse => reverify = NoKey)' /\ CommandsAreGated'
    BY <1>1, <1>2 DEF TrustInv, TrustTypeOK, MainFirstUse, CommandsAreGated, At, Threads
  <1>6. QED
    BY <1>3, <1>4, <1>5 DEF TrustInv

\* Records only disappear when the stores are cleaned, and a first use on Main ends
\* without a re-verification due.
LEMMA CleanInv == ASSUME TrustInv, NEW t \in Threads, Clean(t) PROVE TrustInv'
  <1> DEFINE op == task[t].op
             step == CASE op \in {"send", "decrypt"} -> "use"
                       [] op = "reset" -> "withdraw"
                       [] op = "verify" /\ trusted = task[t].current -> "confirm"
                       [] OTHER -> "idle"
             next == [task[t] EXCEPT !.step = step, !.known = trusted]
  <1>1. /\ task[t] \in Tasks /\ task[t].step = "clean"
        /\ task' = [task EXCEPT ![t] = IF step = "idle" THEN Idle ELSE next]
        /\ UNCHANGED <<serverKey, trusted>>
        /\ verified' \in {verified, NoKey} /\ reverify' \in {reverify, NoKey}
    BY DEF Clean, At, Goto, KeepIf, TrustInv, TrustTypeOK, Tasks, Idle
  <1>2. /\ step \in {"use", "withdraw", "confirm", "idle"}
        /\ step = "use" => op \in FirstUse
    BY DEF FirstUse
  <1> HIDE DEF step
  <1>3. step # "idle" => /\ next \in Tasks /\ next.step = step
                         /\ next.op = task[t].op /\ next.known = trusted
    BY <1>1, <1>2 DEF Tasks, Steps, TrustInv, TrustTypeOK, KeyOrNone
  <1> HIDE DEF next
  <1>4. trusted # NoKey
    BY <1>1 DEF TrustInv, PathsOK
  <1>5. TrustTypeOK'
    BY <1>1, <1>2, <1>3 DEF TrustInv, TrustTypeOK, KeyOrNone, Idle
  <1>6. Withdrawn' /\ PathsOK'
    BY <1>1, <1>2, <1>3, <1>4 DEF TrustInv, TrustTypeOK, Withdrawn, PathsOK, At, Idle
  <1>7. (MainFirstUse => reverify = NoKey)' /\ CommandsAreGated'
    BY <1>1, <1>2, <1>3
    DEF TrustInv, TrustTypeOK, MainFirstUse, CommandsAreGated, At, Threads, Idle
  <1>8. QED
    BY <1>5, <1>6, <1>7 DEF TrustInv

\* A pinned key is used only when no re-verification of it is due.
LEMMA GateInv == ASSUME TrustInv, NEW t \in Threads, Gate(t) PROVE TrustInv'
  <1> DEFINE next == [task[t] EXCEPT !.step = "use"]
  <1>1. /\ task[t] \in Tasks /\ task[t].step = "gate"
        /\ task' = [task EXCEPT ![t] = IF reverify = task[t].known THEN Idle ELSE next]
        /\ UNCHANGED <<serverKey, trusted>>
        /\ verified' \in {verified, NoKey} /\ reverify' \in {reverify, NoKey}
    BY DEF Gate, Refused, At, Goto, KeepIf, TrustInv, TrustTypeOK, Tasks, Idle
  <1>2. next \in Tasks /\ next.step = "use" /\ next.op = task[t].op
        /\ next.known = task[t].known
    BY <1>1 DEF Tasks, Steps
  <1> HIDE DEF next
  <1>3. TrustTypeOK'
    BY <1>1, <1>2 DEF TrustInv, TrustTypeOK, KeyOrNone, Idle
  <1>4. Withdrawn' /\ PathsOK'
    BY <1>1, <1>2 DEF TrustInv, TrustTypeOK, Withdrawn, PathsOK, At, Idle
  <1>5. (MainFirstUse => reverify = NoKey)' /\ CommandsAreGated'
    BY <1>1, <1>2
    DEF TrustInv, TrustTypeOK, MainFirstUse, CommandsAreGated, At, Threads, Idle
  <1>6. QED
    BY <1>3, <1>4, <1>5 DEF TrustInv

\* A status only deletes records.
LEMMA ReportInv == ASSUME TrustInv, NEW t \in Threads, Report(t) PROVE TrustInv'
  BY DEF Report, At, Goto, KeepIf, TrustInv, TrustTypeOK, KeyOrNone, Withdrawn, PathsOK,
     MainFirstUse, FirstUse, CommandsAreGated, Idle, Threads

\* The writes of verify and reset-trust.
Decide == Confirm \/ Lift \/ Withdraw \/ Require

\* verify and reset-trust replace one record by the other.
LEMMA DecideInv == ASSUME TrustInv, Decide PROVE TrustInv'
  <1> DEFINE old == task[Main]
  <1>1. /\ old \in Tasks /\ old.step \in {"confirm", "lift", "withdraw", "require"}
        /\ UNCHANGED <<serverKey, trusted>>
        /\ verified' \in {verified, NoKey, old.known}
        /\ reverify' \in {reverify, NoKey, old.known}
        /\ old.step = "withdraw" => verified' = NoKey
    BY DEF Decide, Confirm, Lift, Withdraw, Require, At, TrustInv, TrustTypeOK, Tasks, Idle, Threads
  <1>2. PICK next : /\ task' = [task EXCEPT ![Main] = next]
                    /\ next \in Tasks /\ next.step \in {"lift", "require", "fetch"}
                    /\ next.step = "fetch" => next.op = "status"
                    /\ next.step = "require" => old.step = "withdraw"
    <2> DEFINE Moved(s) == [old EXCEPT !.step = s]
    <2>1. CASE Confirm
      <3>1. task' = [task EXCEPT ![Main] = Moved("lift")]
        BY <2>1 DEF Confirm, Goto
      <3>2. Moved("lift") \in Tasks /\ Moved("lift").step = "lift"
        BY <1>1 DEF Tasks, Steps
      <3> HIDE DEF Moved
      <3>3. QED
        BY <3>1, <3>2
    <2>2. CASE Withdraw
      <3>1. task' = [task EXCEPT ![Main] = Moved("require")] /\ old.step = "withdraw"
        BY <2>2 DEF Withdraw, Goto, At
      <3>2. Moved("require") \in Tasks /\ Moved("require").step = "require"
        BY <1>1 DEF Tasks, Steps
      <3> HIDE DEF Moved
      <3>3. QED
        BY <3>1, <3>2
    <2>3. CASE Lift \/ Require
      BY <2>3 DEF Lift, Require, Goto, Start, Tasks, Ops, Steps, TrustInv, TrustTypeOK, KeyOrNone
    <2>4. QED
      BY <2>1, <2>2, <2>3 DEF Decide
  <1>3. trusted # NoKey /\ old.known \in KeyOrNone
    BY <1>1 DEF TrustInv, PathsOK, Threads, Tasks
  <1> HIDE DEF old
  <1>4. TrustTypeOK'
    BY <1>1, <1>2, <1>3 DEF TrustInv, TrustTypeOK, KeyOrNone
  <1>5. Withdrawn' /\ PathsOK'
    BY <1>1, <1>2, <1>3 DEF TrustInv, TrustTypeOK, Withdrawn, PathsOK, At, Threads
  <1>6. (MainFirstUse => reverify = NoKey)' /\ CommandsAreGated'
    BY <1>1, <1>2
    DEF TrustInv, TrustTypeOK, MainFirstUse, FirstUse, CommandsAreGated, At, Threads
  <1>7. QED
    BY <1>4, <1>5, <1>6 DEF TrustInv

\* Every step of the process and of the peer preserves the invariant.
LEMMA TrustNextInv == TrustInv /\ [TrustNext]_trustVars => TrustInv'
  <1> SUFFICES ASSUME TrustInv, [TrustNext]_trustVars PROVE TrustInv'
    OBVIOUS
  <1>1. ASSUME NEW k \in Keys, PublishKey(k) PROVE TrustInv'
    BY <1>1, PublishKeyInv
  <1>2. ASSUME NEW op \in Ops \ {"decrypt"}, Command(op) PROVE TrustInv'
    BY <1>2, StartInv DEF Command, Threads
  <1>3. ASSUME NEW t \in Threads, ThreadNext(t) PROVE TrustInv'
    <2>1. CASE Decrypt(t)
      BY <2>1, StartInv DEF Decrypt, Ops
    <2>2. CASE Fetch(t)
      BY <2>2, FetchInv
    <2>3. CASE FetchFails(t) \/ UseKey(t)
      BY <2>3, EndInv DEF FetchFails, UseKey
    <2>4. CASE Remember(t)
      BY <2>4, RememberInv
    <2>5. CASE Clean(t)
      BY <2>5, CleanInv
    <2>6. CASE Gate(t)
      BY <2>6, GateInv
    <2>7. CASE Report(t)
      BY <2>7, ReportInv
    <2>8. QED
      BY <1>3, <2>1, <2>2, <2>3, <2>4, <2>5, <2>6, <2>7 DEF ThreadNext
  <1>4. CASE Decide
    BY <1>4, DecideInv
  <1>5. CASE UNCHANGED trustVars
    BY <1>5 DEF trustVars, stores, TrustInv, TrustTypeOK, Withdrawn, PathsOK,
       MainFirstUse, CommandsAreGated, At
  <1>6. QED
    BY <1>1, <1>2, <1>3, <1>4, <1>5 DEF TrustNext, Decide

\* TrustInv is an invariant, for any keys and any listener threads.
THEOREM TrustInvariance == TrustSpec => []TrustInv
  BY TrustInitInv, TrustNextInv, PTL DEF TrustSpec

\* Every reachable state is well typed and no record outlives the trusted key.
THEOREM TrustTypeCorrect == TrustSpec => []TrustTypeOK
  BY TrustInvariance, PTL DEF TrustInv

\* A step after which both records stand found them so, or verify has just put one.
LEMMA OneRecordStep ==
    TrustInv /\ [TrustNext]_trustVars
      => (BothStand' => \/ At(Main, "lift")'
                        \/ BothStand /\ task[Main].step \notin {"lift", "require"})
  <1> DEFINE OK == BothStand' => \/ At(Main, "lift")'
                                 \/ BothStand /\ task[Main].step \notin {"lift", "require"}
  <1> SUFFICES ASSUME TrustInv, [TrustNext]_trustVars PROVE OK
    OBVIOUS
  <1>1. /\ task \in [Threads -> Tasks \cup {Idle}] /\ Main \in Threads
        /\ At(Main, "require") => verified = NoKey
    BY DEF TrustInv, TrustTypeOK, Withdrawn, Threads
  <1>2. ASSUME NEW t \in Threads, NEW next, task' = [task EXCEPT ![t] = next],
               task[t].step \notin {"lift", "require"},
               verified' \in {verified, NoKey}, reverify' \in {reverify, NoKey}
        PROVE  OK
    <2>1. CASE task[Main].step \notin {"lift", "require"}
      BY <1>2, <2>1 DEF BothStand
    <2>2. CASE task[Main].step \in {"lift", "require"}
      <3>1. task'[Main] = task[Main]
        BY <1>1, <1>2, <2>2
      <3>2. QED
        BY <1>1, <1>2, <2>2, <3>1 DEF BothStand, At
    <2>3. QED
      BY <2>1, <2>2
  <1>3. ASSUME NEW t \in Threads, ThreadNext(t) PROVE OK
    BY <1>2, <1>3 DEF ThreadNext, Decrypt, Fetch, FetchFails, Remember, Clean, Gate, UseKey,
       Report, KeepIf, Goto, At, stores
  <1>4. ASSUME NEW op \in Ops, Command(op) PROVE OK
    BY <1>1, <1>2, <1>4 DEF Command, Goto, At, stores
  <1>5. CASE Confirm
    <2>1. task[Main] \in Tasks /\ task' = [task EXCEPT ![Main] = [task[Main] EXCEPT !.step = "lift"]]
      BY <1>1, <1>5 DEF Confirm, At, Goto, Idle
    <2>2. At(Main, "lift")'
      BY <1>1, <2>1 DEF At, Tasks
    <2>3. QED
      BY <2>2
  <1>6. CASE Lift \/ Withdraw \/ Require
    BY <1>1, <1>6 DEF Lift, Withdraw, Require, BothStand
  <1>7. CASE UNCHANGED trustVars \/ \E k \in Keys : PublishKey(k)
    BY <1>1, <1>7 DEF trustVars, stores, PublishKey, BothStand, At
  <1>8. QED
    BY <1>3, <1>4, <1>5, <1>6, <1>7 DEF TrustNext

\* Whatever a listener or a save may see in the middle of verify, verify and reset-trust
\* leave a peer verified or in need of verification, not both, and nothing else makes it
\* both (mark_peer_verified, reset_peer_trust).
THEOREM RecordsExclusive == TrustSpec => OneRecordLeft
  BY OneRecordStep, TrustInvariance, PTL DEF TrustSpec, OneRecordLeft

\* No command uses a key while its re-verification is due, whatever the listener
\* threads do to the stores meanwhile.
THEOREM CommandsGated == TrustSpec => []CommandsAreGated
  BY TrustInvariance, PTL DEF TrustInv

-----------------------------------------------------------------------------
(* The pinned key *)

\* What a handler has read or fetched is no longer what is trusted, or it is about to pin
\* what it fetched.  verify reads after its request, reset-trust not at all.
Stale(t) ==
    \/ /\ task[t].step \in {"fetch", "gate", "report"}
       /\ task[t].op \notin {"verify", "reset"}
       /\ task[t].known # trusted
    \/ At(t, "remember") /\ task[t].op # "reset"
    \/ At(t, "clean") /\ task[t].op # "reset" /\ task[t].current # trusted

\* A key is pinned and no handler is at work on an older view.
Settled == trusted # NoKey /\ \A t \in Threads : ~Stale(t)

\* Listeners only decrypt; the last steps of verify and reset-trust are theirs.
OpsKnown ==
    /\ \A t \in Listeners : At(t, "idle") \/ task[t].op = "decrypt"
    /\ task[Main].step \in {"confirm", "lift"} => task[Main].op = "verify"
    /\ task[Main].step \in {"withdraw", "require"} => task[Main].op = "reset"

\* What a step may do to a settled pin: it stays settled, and the key and a
\* re-verification of it that is due stay as they are, unless reset-trust (for the
\* latter also verify) is running.
PinStep ==
    Settled => /\ Settled' \/ Running({"reset"})
               /\ trusted' = trusted \/ Running({"reset"})
               /\ reverify # NoKey /\ reverify = trusted /\ reverify' # reverify
                     => Running({"verify", "reset"})

\* Each step says of the thread that takes it what OpsKnown says.
LEMMA OpsStep ==
    TrustTypeOK /\ OpsKnown /\ [TrustNext]_trustVars => OpsKnown'
  <1> SUFFICES ASSUME TrustTypeOK, OpsKnown, [TrustNext]_trustVars PROVE OpsKnown'
    OBVIOUS
  <1>1. task \in [Threads -> Tasks \cup {Idle}]
    BY DEF TrustTypeOK
  <1>2. ASSUME NEW op \in Ops \ {"decrypt"}, Command(op) PROVE OpsKnown'
    BY <1>1, <1>2, TrustAssumption DEF Command, Goto, Start, OpsKnown, At, Threads
  <1>3. ASSUME NEW t \in Threads, Decrypt(t) PROVE OpsKnown'
    BY <1>1, <1>3, TrustAssumption DEF Decrypt, Goto, Start, OpsKnown, At, Threads
  <1>4. ASSUME NEW t \in Threads, FetchFails(t) \/ UseKey(t) \/ Report(t) PROVE OpsKnown'
    BY <1>1, <1>4, TrustAssumption
    DEF FetchFails, UseKey, Report, Goto, Idle, OpsKnown, At, Threads
  <1>5. ASSUME NEW t \in Threads, NEW next \in Tasks, ~At(t, "idle"), next.op = task[t].op,
               next.step \in {"confirm", "lift"} => next.op = "verify",
               next.step \in {"withdraw", "require"} => next.op = "reset",
               Goto(t, next) \/ Goto(t, Idle)
        PROVE  OpsKnown'
    BY <1>1, <1>5, TrustAssumption DEF Goto, Idle, OpsKnown, At, Threads
  <1>6. ASSUME NEW t \in Threads, Remember(t) \/ Gate(t) PROVE OpsKnown'
    <2>1. task[t] \in Tasks
      BY <1>1, <1>6 DEF Remember, Gate, At, Idle
    <2>2. PICK step \in {"clean", "use"} :
             Goto(t, [task[t] EXCEPT !.step = step]) \/ Goto(t, Idle)
      BY <1>6 DEF Remember, Gate
    <2>3. PICK next : next = [task[t] EXCEPT !.step = step]
      OBVIOUS
    <2>4. next \in Tasks /\ next.op = task[t].op /\ next.step = step
      BY <2>1, <2>3 DEF Tasks, Steps
    <2>5. QED
      BY <1>5, <1>6, <2>2, <2>3, <2>4 DEF Remember, Gate, At
  <1>7. ASSUME NEW t \in Threads, Fetch(t) PROVE OpsKnown'
    <2> DEFINE known == IF task[t].op = "verify" THEN trusted ELSE task[t].known
               step == AfterFetch(task[t].op, known, serverKey)
               next == [task[t] EXCEPT !.step = step, !.known = known, !.current = serverKey]
    <2>1. /\ task[t] \in Tasks /\ serverKey \in Keys /\ known \in KeyOrNone
          /\ task[t].op \in Ops
      BY <1>1, <1>7 DEF Fetch, Published, At, Idle, TrustTypeOK, KeyOrNone, Tasks
    <2>2. /\ step \in {"report", "remember", "idle", "gate", "confirm"}
          /\ step = "confirm" => task[t].op = "verify"
      BY <2>1, AfterFetchStep
    <2>3. Goto(t, IF step = "idle" THEN Idle ELSE next)
      BY <1>7 DEF Fetch
    <2> HIDE DEF step, known
    <2>4. step # "idle" => next \in Tasks /\ next.op = task[t].op /\ next.step = step
      BY <2>1, <2>2 DEF Tasks, Steps, KeyOrNone
    <2> HIDE DEF next
    <2>5. CASE step = "idle"
      <3>1. Goto(t, Idle)
        BY <2>3, <2>5
      <3>2. QED
        BY <1>1, <3>1, TrustAssumption DEF Goto, Idle, OpsKnown, At, Threads
    <2>6. CASE step # "idle"
      BY <1>5, <1>7, <2>2, <2>3, <2>4, <2>6 DEF Fetch, At
    <2>7. QED
      BY <2>5, <2>6
  <1>8. ASSUME NEW t \in Threads, Clean(t) PROVE OpsKnown'
    <2> DEFINE op == task[t].op
               step == CASE op \in {"send", "decrypt"} -> "use"
                         [] op = "reset" -> "withdraw"
                         [] op = "verify" /\ trusted = task[t].current -> "confirm"
                         [] OTHER -> "idle"
               next == [task[t] EXCEPT !.step = step, !.known = trusted]
    <2>1. task[t] \in Tasks /\ trusted \in KeyOrNone
      BY <1>1, <1>8 DEF Clean, At, Idle, TrustTypeOK
    <2>2. /\ step \in {"use", "withdraw", "confirm", "idle"}
          /\ step = "confirm" => op = "verify"
          /\ step = "withdraw" => op = "reset"
      OBVIOUS
    <2>3. Goto(t, IF step = "idle" THEN Idle ELSE next)
      BY <1>8 DEF Clean
    <2> HIDE DEF step
    <2>4. step # "idle" => next \in Tasks /\ next.op = task[t].op /\ next.step = step
      BY <2>1, <2>2 DEF Tasks, Steps
    <2> HIDE DEF next
    <2>5. CASE step = "idle"
      BY <1>1, <1>8, <2>3, <2>5, TrustAssumption DEF Clean, Goto, Idle, OpsKnown, At, Threads
    <2>6. CASE step # "idle"
      BY <1>5, <1>8, <2>2, <2>3, <2>4, <2>6 DEF Clean, At
    <2>7. QED
      BY <2>5, <2>6
  <1>9. CASE Decide
    <2>1. task[Main] \in Tasks /\ Main \in Threads
      BY <1>1, <1>9 DEF Decide, Confirm, Lift, Withdraw, Require, At, Idle, Threads
    <2>2. CASE Confirm
      BY <1>1, <2>1, <2>2, TrustAssumption DEF Confirm, Goto, OpsKnown, At, Tasks, Threads
    <2>3. CASE Withdraw
      BY <1>1, <2>1, <2>3, TrustAssumption DEF Withdraw, Goto, OpsKnown, At, Tasks, Threads
    <2>4. CASE Lift \/ Require
      BY <1>1, <2>4, TrustAssumption DEF Lift, Require, Goto, Start, OpsKnown, At, Threads
    <2>5. QED
      BY <1>9, <2>2, <2>3, <2>4 DEF Decide
  <1>10. CASE UNCHANGED trustVars \/ \E k \in Keys : PublishKey(k)
    BY <1>10 DEF trustVars, PublishKey, OpsKnown, At
  <1>11. QED
    BY <1>2, <1>3, <1>4, <1>6, <1>7, <1>8, <1>9, <1>10 DEF TrustNext, ThreadNext, Decide

\* A step that leaves the key alone unsettles nothing but the thread that takes it.
LEMMA StaysSettled ==
    ASSUME TrustTypeOK, Settled, NEW t \in Threads, trusted' = trusted,
           task' = [task EXCEPT ![t] = task'[t]], ~Stale(t)'
    PROVE  Settled'
  <1>1. ASSUME NEW u \in Threads PROVE ~Stale(u)'
    <2>1. CASE u # t
      <3>1. task'[u] = task[u] /\ ~Stale(u)
        BY <2>1 DEF TrustTypeOK, Settled
      <3>2. QED
        BY <3>1 DEF Stale, At
    <2>2. QED
      BY <2>1
  <1>2. QED
    BY <1>1 DEF Settled

\* A handler that starts has read what is trusted; one that ends has no view.
LEMMA StartSettled ==
    ASSUME TrustTypeOK, Settled, NEW t \in Threads, UNCHANGED <<trusted, reverify>>,
           \/ \E op \in Ops, step \in {"fetch", "gate"} : Goto(t, Start(op, step))
           \/ Goto(t, Idle)
    PROVE  PinStep
  <1>1. /\ task' = [task EXCEPT ![t] = task'[t]] /\ task \in [Threads -> Tasks \cup {Idle}]
        /\ \/ task'[t].step \in {"fetch", "gate"} /\ task'[t].known = trusted
           \/ task'[t].step = "idle"
    BY DEF Goto, Start, Idle, TrustTypeOK
  <1>2. ~Stale(t)'
    BY <1>1 DEF Stale, At
  <1>3. QED
    BY <1>1, <1>2, StaysSettled DEF PinStep

\* The answer of the server sends no handler to pin it, but reset-trust.
LEMMA FetchSettled ==
    ASSUME TrustInv, Settled, NEW t \in Threads, Fetch(t)
    PROVE  PinStep
  <1> DEFINE known == IF task[t].op = "verify" THEN trusted ELSE task[t].known
             step == AfterFetch(task[t].op, known, serverKey)
             next == [task[t] EXCEPT !.step = step, !.known = known, !.current = serverKey]
  <1>1. /\ task[t] \in Tasks /\ task[t].step = "fetch" /\ serverKey \in Keys
        /\ task' = [task EXCEPT ![t] = IF step = "idle" THEN Idle ELSE next]
        /\ UNCHANGED <<trusted, verified, reverify>>
        /\ task \in [Threads -> Tasks \cup {Idle}]
    BY DEF Fetch, At, Goto, Published, stores, TrustInv, TrustTypeOK, KeyOrNone, Tasks, Idle
  <1>2. /\ task[t].op \in Ops /\ trusted # NoKey
        /\ task[t].op # "reset" => known = trusted
        /\ task[t].op # "decrypt"
    <2>1. ~Stale(t) /\ trusted # NoKey
      BY DEF Settled
    <2>2. task[t].op = "decrypt" => task[t].known = NoKey
      BY <1>1 DEF TrustInv, PathsOK, At
    <2>3. QED
      BY <1>1, <2>1, <2>2 DEF Stale, Tasks
  <1>3. step = "remember" => task[t].op = "reset"
    BY <1>2 DEF AfterFetch, Ops
  <1>4. step # "clean"
    BY <1>1, <1>2 DEF AfterFetch, Ops
  <1> HIDE DEF step, known
  <1>5. step # "idle" => next.step = step /\ next.op = task[t].op /\ next.known = known
    BY <1>1 DEF Tasks
  <1> HIDE DEF next
  <1>6. task' = [task EXCEPT ![t] = task'[t]] /\ task'[t] = IF step = "idle" THEN Idle ELSE next
    BY <1>1
  <1>7. ~Stale(t)'
    BY <1>1, <1>2, <1>3, <1>4, <1>5, <1>6 DEF Stale, At, Idle
  <1>8. QED
    BY <1>1, <1>6, <1>7, StaysSettled DEF PinStep, TrustInv

\* Only reset-trust pins a key now.
LEMMA RememberSettled ==
    ASSUME TrustTypeOK, OpsKnown, Settled, NEW t \in Threads, Remember(t)
    PROVE  PinStep
  <1>1. task[t].op = "reset" /\ At(t, "remember") /\ UNCHANGED reverify
    BY DEF Remember, Settled, Stale, At
  <1>2. t = Main
    BY <1>1 DEF OpsKnown, Threads, At
  <1>3. Running({"reset"}) /\ Running({"verify", "reset"})
    BY <1>1, <1>2 DEF Running, At
  <1>4. QED
    BY <1>3 DEF PinStep

\* The records are cleaned of what is not about the pinned key, but by reset-trust.
LEMMA CleanSettled ==
    ASSUME TrustTypeOK, OpsKnown, Settled, NEW t \in Threads,
           Clean(t) \/ Gate(t) \/ Report(t)
    PROVE  PinStep
  <1>1. CASE Clean(t) /\ task[t].op = "reset"
    <2>1. t = Main /\ ~At(t, "idle")
      BY <1>1 DEF Clean, OpsKnown, Threads, At
    <2>2. Running({"reset"}) /\ Running({"verify", "reset"})
      BY <1>1, <2>1 DEF Running
    <2>3. QED
      BY <2>2 DEF PinStep
  <1>2. CASE Clean(t) /\ task[t].op # "reset"
    <2> DEFINE op == task[t].op
               step == CASE op \in {"send", "decrypt"} -> "use"
                         [] op = "reset" -> "withdraw"
                         [] op = "verify" /\ trusted = task[t].current -> "confirm"
                         [] OTHER -> "idle"
               next == [task[t] EXCEPT !.step = step, !.known = trusted]
    <2>1. /\ task[t] \in Tasks /\ task[t].current = trusted
          /\ task \in [Threads -> Tasks \cup {Idle}]
      BY <1>2 DEF Clean, Settled, Stale, At, Idle, TrustTypeOK
    <2>2. /\ trusted' = trusted /\ reverify' = KeepIf(reverify, trusted)
          /\ task' = [task EXCEPT ![t] = IF step = "idle" THEN Idle ELSE next]
      BY <1>2, <2>1 DEF Clean, Goto
    <2>3. step \in {"use", "withdraw", "confirm", "idle"}
      OBVIOUS
    <2> HIDE DEF step
    <2>4. next.step = step
      BY <2>1 DEF Tasks
    <2> HIDE DEF next
    <2>5. task' = [task EXCEPT ![t] = task'[t]] /\ task'[t].step = step
      BY <2>1, <2>2, <2>4 DEF Idle
    <2>6. ~Stale(t)'
      BY <2>3, <2>5 DEF Stale, At
    <2>7. QED
      BY <2>2, <2>5, <2>6, StaysSettled DEF PinStep, KeepIf
  <1>3. CASE Gate(t) \/ Report(t)
    <2>1. /\ task[t] \in Tasks /\ task[t].step \in {"gate", "report"}
          /\ task \in [Threads -> Tasks \cup {Idle}]
      BY <1>3 DEF Gate, Report, At, Idle, TrustTypeOK
    <2>2. task[t].op \notin {"verify", "reset"} => task[t].known = trusted
      BY <2>1 DEF Settled, Stale
    <2>3. PICK next \in {Idle, [task[t] EXCEPT !.step = "use"]} :
             task' = [task EXCEPT ![t] = next]
      BY <1>3 DEF Gate, Report, Goto
    <2>4. task' = [task EXCEPT ![t] = task'[t]] /\ task'[t].step \in {"idle", "use"}
      BY <2>1, <2>3 DEF Idle, Tasks
    <2>5. ~Stale(t)'
      BY <2>4 DEF Stale, At
    <2>6. /\ trusted' = trusted /\ reverify' = KeepIf(reverify, task[t].known)
      BY <1>3 DEF Gate, Report
    <2>7. task[t].op \in {"verify", "reset"} => Running({"verify", "reset"})
      BY <2>1 DEF OpsKnown, Running, Threads, At
    <2>8. QED
      BY <2>2, <2>4, <2>5, <2>6, <2>7, StaysSettled DEF PinStep, KeepIf
  <1>4. QED
    BY <1>1, <1>2, <1>3

\* verify and reset-trust write the records.
LEMMA DecideSettled ==
    ASSUME TrustTypeOK, OpsKnown, Settled, Decide
    PROVE  PinStep
  <1>1. task[Main] \in Tasks /\ task \in [Threads -> Tasks \cup {Idle}] /\ Main \in Threads
    BY DEF Decide, Confirm, Lift, Withdraw, Require, At, Idle, TrustTypeOK, Threads
  <1>2. /\ task' = [task EXCEPT ![Main] = task'[Main]] /\ trusted' = trusted
        /\ \/ task'[Main].step \in {"lift", "require"}
           \/ task'[Main].step = "fetch" /\ task'[Main].known = trusted
    BY <1>1 DEF Decide, Confirm, Lift, Withdraw, Require, Goto, Start, Tasks
  <1>3. ~Stale(Main)'
    BY <1>2 DEF Stale, At
  <1>4. reverify' = reverify \/ Running({"verify", "reset"})
    BY DEF Decide, Confirm, Lift, Withdraw, Require, OpsKnown, Running, At
  <1>5. QED
    BY <1>1, <1>2, <1>3, <1>4, StaysSettled DEF PinStep

LEMMA PinNext == TrustInv /\ OpsKnown /\ [TrustNext]_trustVars => PinStep
  <1> SUFFICES ASSUME TrustInv, OpsKnown, [TrustNext]_trustVars, Settled PROVE PinStep
    BY DEF PinStep
  <1>1. TrustTypeOK
    BY DEF TrustInv
  <1>2. CASE UNCHANGED trustVars \/ \E k \in Keys : PublishKey(k)
    BY <1>2 DEF trustVars, stores, PublishKey, PinStep, Settled, Stale, At
  <1>3. ASSUME NEW op \in Ops \ {"decrypt"}, Command(op) PROVE PinStep
    BY <1>1, <1>3, StartSettled DEF Command, stores, Threads
  <1>4. ASSUME NEW t \in Threads, Decrypt(t) \/ FetchFails(t) \/ UseKey(t) PROVE PinStep
    BY <1>1, <1>4, StartSettled DEF Decrypt, FetchFails, UseKey, stores, Ops
  <1>5. ASSUME NEW t \in Threads, ThreadNext(t) PROVE PinStep
    BY <1>1, <1>4, <1>5, FetchSettled, RememberSettled, CleanSettled DEF ThreadNext
  <1>6. QED
    BY <1>1, <1>2, <1>3, <1>5, DecideSettled DEF TrustNext, Decide

\* Once a key is pinned and the handlers that had looked before are done, no thread but
\* a reset-trust replaces it, and the re-verification a reset requires stays due until
\* verify or another reset, for any number of listener threads: the race for the pinned
\* key is confined to the first use, and the one for the re-verification to what began
\* before the reset (_remember_trusted_peer, decrypt_message_for_user).
THEOREM PinIsKept == TrustSpec => [][PinStep]_trustVars
  <1>1. TrustInit => OpsKnown
    BY TrustAssumption DEF TrustInit, OpsKnown, At, Idle, Threads
  <1>2. TrustInv => TrustTypeOK
    BY DEF TrustInv
  <1>3. TrustSpec => []OpsKnown
    BY <1>1, <1>2, OpsStep, TrustInvariance, PTL DEF TrustSpec
  <1>4. QED
    BY <1>3, PinNext, TrustInvariance, PTL DEF TrustSpec

-----------------------------------------------------------------------------
(* The client that only runs commands *)

NoListener == Listeners = {}

\* Nobody else pins a key, so what the command thread has read stays true.
MainView == trusted # NoKey => Settled

\* reset-trust pins whatever it fetches, and keeps no older view.
LEMMA ResetView ==
    ASSUME NoListener, TrustTypeOK, OpsKnown, Running({"reset"}), [TrustNext]_trustVars
    PROVE  MainView'
  <1>1. Threads = {Main} /\ task \in [Threads -> Tasks \cup {Idle}]
    BY DEF NoListener, Threads, TrustTypeOK
  <1>2. task[Main] \in Tasks /\ task[Main].op = "reset" /\ ~At(Main, "idle")
    BY <1>1 DEF Running, At, Idle
  <1>3. ASSUME NEW next, task' = [task EXCEPT ![Main] = next],
               \/ next.step = "idle" \/ next.op = "reset"
               \/ next.step = "fetch" /\ next.known = trusted'
        PROVE  MainView'
    <2>1. task'[Main] = next
      BY <1>1, <1>3
    <2>2. ~Stale(Main)'
      BY <1>3, <2>1 DEF Stale, At
    <2>3. QED
      BY <1>1, <2>2 DEF MainView, Settled
  <1>4. CASE UNCHANGED trustVars \/ \E k \in Keys : PublishKey(k)
    <2>1. task' = [task EXCEPT ![Main] = task[Main]]
      BY <1>1, <1>4 DEF trustVars, PublishKey
    <2>2. QED
      BY <1>2, <1>3, <2>1
  <1>5. CASE FetchFails(Main) \/ UseKey(Main) \/ Report(Main)
    BY <1>3, <1>5 DEF FetchFails, UseKey, Report, Goto, Idle
  <1>6. CASE Fetch(Main) \/ Remember(Main) \/ Clean(Main) \/ Gate(Main)
    <2>1. ASSUME NEW step, NEW known, NEW current
          PROVE  /\ [task[Main] EXCEPT !.step = step].op = "reset"
                 /\ [task[Main] EXCEPT !.step = step, !.known = known].op = "reset"
                 /\ [task[Main] EXCEPT !.step = step, !.known = known,
                                       !.current = current].op = "reset"
      BY <1>2 DEF Tasks
    <2>2. PICK next : /\ next.op = "reset"
                      /\ Goto(Main, next) \/ Goto(Main, Idle)
      <3>1. CASE Fetch(Main)
        <4>1. PICK step, known, current :
                 \/ Goto(Main, [task[Main] EXCEPT !.step = step, !.known = known,
                                                  !.current = current])
                 \/ Goto(Main, Idle)
          BY <3>1 DEF Fetch
        <4> DEFINE next == [task[Main] EXCEPT !.step = step, !.known = known,
                                              !.current = current]
        <4>2. next.op = "reset" /\ (Goto(Main, next) \/ Goto(Main, Idle))
          BY <2>1, <4>1
        <4> HIDE DEF next
        <4>3. QED
          BY <4>2
      <3>2. CASE Remember(Main) \/ Clean(Main) \/ Gate(Main)
        <4>1. PICK step, known : \/ Goto(Main, [task[Main] EXCEPT !.step = step])
                                 \/ Goto(Main, [task[Main] EXCEPT !.step = step,
                                                                  !.known = known])
                                 \/ Goto(Main, Idle)
          BY <3>2 DEF Remember, Clean, Gate
        <4>2. QED
          BY <2>1, <4>1
      <3>3. QED
        BY <1>6, <3>1, <3>2
    <2>3. QED
      BY <1>2, <1>3, <2>2 DEF Goto, Idle
  <1>7. CASE Lift \/ Require
    BY <1>3, <1>7 DEF Lift, Require, Goto, Start
  <1>8. CASE Confirm \/ Withdraw
    <2>1. PICK step : Goto(Main, [task[Main] EXCEPT !.step = step])
      BY <1>8 DEF Confirm, Withdraw
    <2>2. [task[Main] EXCEPT !.step = step].op = "reset"
      BY <1>2 DEF Tasks
    <2>3. QED
      BY <1>3, <2>1, <2>2 DEF Goto
  <1>9. QED
    BY <1>1, <1>2, <1>4, <1>5, <1>6, <1>7, <1>8 DEF TrustNext, ThreadNext, Command, Decrypt

LEMMA AloneView ==
    ASSUME NoListener, TrustInv, OpsKnown, MainView, [TrustNext]_trustVars
    PROVE  MainView'
  <1>1. Threads = {Main} /\ TrustTypeOK /\ task \in [Threads -> Tasks \cup {Idle}]
    BY DEF NoListener, Threads, TrustInv, TrustTypeOK
  <1>2. CASE trusted # NoKey
    BY <1>1, <1>2, PinNext, ResetView DEF PinStep, MainView
  <1>3. CASE trusted = NoKey /\ Remember(Main)
    <2>1. /\ task' = [task EXCEPT ![Main] = [task[Main] EXCEPT !.step = "clean"]]
          /\ task[Main] \in Tasks /\ trusted' = task[Main].current
      BY <1>1, <1>3 DEF Remember, At, Idle, Goto
    <2>2. task'[Main].step = "clean" /\ task'[Main].current = trusted'
      BY <1>1, <2>1 DEF Tasks
    <2>3. QED
      BY <1>1, <2>2 DEF MainView, Settled, Stale, At
  <1>4. CASE trusted = NoKey /\ ~Remember(Main)
    <2>1. trusted' = trusted
      BY <1>1, <1>4 DEF TrustNext, ThreadNext, PublishKey, Command, Decrypt, Fetch, FetchFails,
         Clean, Gate, UseKey, Report, Confirm, Lift, Withdraw, Require, trustVars, stores
    <2>2. QED
      BY <1>4, <2>1 DEF MainView
  <1>5. QED
    BY <1>2, <1>3, <1>4

\* What the documentation says of pinned keys holds of a client whose listener is not
\* running: only reset-trust replaces a pinned key, and the re-verification it requires
\* stays due until verify or another reset.
THEOREM PinnedWithoutListener ==
    ASSUME NoListener PROVE TrustSpec => PinnedUntilReset /\ ReverifyUntilVerified
  <1>1. TrustInit => OpsKnown /\ MainView
    BY TrustAssumption DEF TrustInit, OpsKnown, MainView, Settled, Stale, At, Idle, Threads
  <1>2. TrustInv => TrustTypeOK
    BY DEF TrustInv
  <1>3. TrustInv /\ OpsKnown /\ MainView /\ [TrustNext]_trustVars => MainView'
    BY AloneView
  <1>4. TrustSpec => []OpsKnown /\ []MainView
    BY <1>1, <1>2, <1>3, OpsStep, TrustInvariance, PTL DEF TrustSpec
  <1>5. MainView /\ PinStep /\ trusted # NoKey =>
           /\ trusted' # trusted => Running({"reset"})
           /\ reverify # NoKey /\ reverify = trusted /\ reverify' # reverify
                 => Running({"verify", "reset"})
    BY DEF MainView, PinStep
  <1>6. (reverify # NoKey /\ reverify = trusted) => trusted # NoKey
    OBVIOUS
  <1>7. [PinStep]_trustVars /\ MainView =>
           /\ [trusted # NoKey /\ trusted' # trusted => Running({"reset"})]_trustVars
           /\ [reverify # NoKey /\ reverify = trusted /\ reverify' # reverify
                 => Running({"verify", "reset"})]_trustVars
    BY <1>5, <1>6
  <1>8. QED
    BY <1>4, <1>7, PinIsKept, PTL DEF PinnedUntilReset, ReverifyUntilVerified

=============================================================================
