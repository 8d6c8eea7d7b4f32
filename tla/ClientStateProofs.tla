------------------------- MODULE ClientStateProofs --------------------------
(***************************************************************************)
(* Proofs about ClientState: type correctness for any number of processes  *)
(* and threads; that memory holds what is in the file, for one process     *)
(* with any number of threads; and what a single saving thread guarantees. *)
(***************************************************************************)
EXTENDS ClientState, TLAPS

\* The client is launched once from the checkout.
OneProcess == \A p, q \in Processes : p = q

\* No two threads of that process save, as when nobody types commands.
OneThread == OneProcess /\ \A t, u \in Threads : t = u

\* Load yields a document.
LEMMA LoadType == ASSUME NEW content PROVE Load(content) \in Docs
  BY DEF Load, Docs, DefaultDoc

\* Merge yields a document, which holds what both arguments keep.
LEMMA MergeType ==
    ASSUME NEW doc \in Docs, NEW m \in Docs
    PROVE  /\ Merge(doc, m) \in Docs
           /\ Merge(doc, m).kept = doc.kept \cup m.kept
           /\ Merge(doc, m).verified = m.verified
  BY DEF Merge, Docs

\* A document is loaded as it is, and a mark is none: it is read as default_state.
LEMMA LoadFacts ==
    /\ \A doc \in Docs : Load(doc) = doc
    /\ Load(NoFile) = DefaultDoc /\ Load(Empty) = DefaultDoc /\ Load(Garbled) = DefaultDoc
  BY StateAssumption DEF Load

-----------------------------------------------------------------------------
(* Type correctness *)

\* A thread that is not idle has a task record.
LEMMA BusyTask ==
    ASSUME StateTypeOK, NEW t \in Threads, NEW step \in Steps, At(t, step)
    PROVE  task[t] \in Tasks
  BY DEF StateTypeOK, At, Idle, Steps

\* What StateTypeOK says of the tasks, for any function of the threads.
TasksOK(f) ==
    /\ f \in [Threads -> Tasks \cup {Idle}]
    /\ \A t \in Threads : f[t].step \in {"classify", "show", "ack"} => f[t].token \in Tokens

\* A thread may stop, begin something, or go to another step of the same task.
LEMMA TaskUpdates ==
    ASSUME StateTypeOK, NEW t \in Threads
    PROVE  /\ TasksOK(task)
           /\ Stop(t) => TasksOK(task')
           /\ \A step \in Steps \ {"classify", "show", "ack"}, token \in Tokens \cup {NoToken} :
                 Begin(t, step, token) => TasksOK(task')
           /\ \A step \in Steps, token \in Tokens : Begin(t, step, token) => TasksOK(task')
           /\ \A next \in Tasks : (task' = [task EXCEPT ![t] = next])
                 /\ (next.step \in {"classify", "show", "ack"} => next.token \in Tokens)
                    => TasksOK(task')
<1>1. TasksOK(task)
  BY DEF StateTypeOK, TasksOK
<1>2. ASSUME NEW next \in Tasks \cup {Idle}, task' = [task EXCEPT ![t] = next],
             next.step \in {"classify", "show", "ack"} => next.token \in Tokens
      PROVE  TasksOK(task')
  BY <1>1, <1>2 DEF TasksOK
<1>3. Idle.step = "idle"
  BY DEF Idle
<1>4. Stop(t) => TasksOK(task')
  BY <1>2, <1>3 DEF Stop
<1>5. DefaultDoc \in Docs
  BY DEF DefaultDoc, Docs
<1>6. \A step \in Steps, token \in Tokens \cup {NoToken} :
         /\ [step |-> step, token |-> token, doc |-> DefaultDoc, target |-> "gone"] \in Tasks
         /\ [step |-> step, token |-> token, doc |-> DefaultDoc, target |-> "gone"].step = step
         /\ [step |-> step, token |-> token, doc |-> DefaultDoc, target |-> "gone"].token = token
  BY <1>5 DEF Tasks, Targets
<1>7. QED
  BY <1>1, <1>2, <1>4, <1>6 DEF Begin

\* Going to another step of the same task.
LEMMA GotoUpdate ==
    ASSUME StateTypeOK, NEW t \in Threads, task[t] \in Tasks,
           NEW step \in Steps, Goto(t, step),
           step \in {"classify", "show", "ack"} => task[t].token \in Tokens
    PROVE  TasksOK(task')
<1> DEFINE next == [task[t] EXCEPT !.step = step]
<1>1. next \in Tasks /\ next.step = step /\ next.token = task[t].token
  BY DEF Tasks
<1>2. task' = [task EXCEPT ![t] = next]
  BY DEF Goto
<1> HIDE DEF next
<1>3. QED BY <1>1, <1>2, TaskUpdates

\* An update of the memory of one process that keeps what the memory holds.
Adds(new) == new \in [Processes -> Docs] /\ \A p \in Processes : mem[p].kept \subseteq new[p].kept

\* Memory after one process has changed its own.
LEMMA MemoryUpdate ==
    ASSUME StateTypeOK, NEW t \in Threads
    PROVE  /\ Of[t] \in Processes /\ Memory(t) \in Docs
           /\ \A token \in Tokens :
                 Adds([mem EXCEPT ![Of[t]].kept = @ \cup {token}])
           /\ \A peer \in Peers :
                 /\ Adds([mem EXCEPT ![Of[t]].verified = @ \cup {peer}])
                 /\ Adds([mem EXCEPT ![Of[t]].verified = @ \ {peer}])
<1>1. Of[t] \in Processes
  BY StateAssumption
<1>2. Memory(t) \in Docs /\ mem \in [Processes -> Docs]
  BY <1>1 DEF StateTypeOK, Memory
<1>3. ASSUME NEW token \in Tokens PROVE Adds([mem EXCEPT ![Of[t]].kept = @ \cup {token}])
  BY <1>1, <1>2 DEF Adds, Docs
<1>4. ASSUME NEW peer \in Peers
      PROVE  /\ Adds([mem EXCEPT ![Of[t]].verified = @ \cup {peer}])
             /\ Adds([mem EXCEPT ![Of[t]].verified = @ \ {peer}])
  BY <1>1, <1>2 DEF Adds, Docs
<1>5. QED BY <1>1, <1>2, <1>3, <1>4

\* What StateTypeOK says of the other variables.
DataOK ==
    /\ mem \in [Processes -> Docs]
    /\ {file, temp} \subseteq Contents
    /\ shown \subseteq Tokens /\ acked \subseteq Tokens
    /\ reset \subseteq Peers

\* StateTypeOK is about the tasks and about the rest.
LEMMA TypeParts == StateTypeOK <=> DataOK /\ TasksOK(task)
  BY DEF StateTypeOK, DataOK, TasksOK

\* The steps of a push keep the types.
LEMMA PushType ==
    ASSUME StateTypeOK, NEW t \in Threads,
           PushNext(t) \/ \E token \in Tokens : Receive(t, token)
    PROVE  StateTypeOK'
<1> SUFFICES DataOK' /\ TasksOK(task')
  BY DEF StateTypeOK, DataOK, TasksOK
<1>0. DataOK
  BY TypeParts
<1>1. ASSUME NEW token \in Tokens, Receive(t, token) PROVE DataOK' /\ TasksOK(task')
  <2>1. TasksOK(task')
    BY <1>1, TaskUpdates DEF Receive, Steps
  <2>2. QED BY <1>0, <1>1, <2>1 DEF Receive, DataOK, history
<1>2. CASE Classify(t)
  <2>1. task[t] \in Tasks
    BY <1>2, BusyTask DEF Classify, Steps
  <2>2. task[t].token \in Tokens
    BY <1>2 DEF Classify, At, StateTypeOK
  <2>3. TasksOK(task')
    BY <1>2, <2>1, <2>2, GotoUpdate DEF Classify, Steps
  <2>4. QED BY <1>0, <1>2, <2>2, <2>3, MemoryUpdate DEF Classify, DataOK, history, Adds
<1>3. CASE Refuse(t)
  <2>1. TasksOK(task')
    BY <1>3, TaskUpdates DEF Refuse, Steps
  <2>2. QED BY <1>0, <1>3, <2>1 DEF Refuse, DataOK, history
<1>4. CASE Show(t)
  <2>1. task[t] \in Tasks /\ task[t].token \in Tokens
    BY <1>4, BusyTask DEF Show, Steps, At, StateTypeOK
  <2>2. TasksOK(task')
    BY <1>4, <2>1, GotoUpdate DEF Show, Steps
  <2>3. QED BY <1>0, <1>4, <2>1, <2>2 DEF Show, DataOK
<1>5. CASE Ack(t)
  <2>1. task[t].token \in Tokens
    BY <1>5 DEF Ack, At, StateTypeOK
  <2>2. TasksOK(task')
    BY <1>5, TaskUpdates DEF Ack
  <2>3. QED BY <1>0, <1>5, <2>1, <2>2 DEF Ack, DataOK
<1>6. CASE AckFails(t)
  <2>1. TasksOK(task')
    BY <1>6, TaskUpdates DEF AckFails
  <2>2. QED BY <1>0, <1>6, <2>1 DEF AckFails, DataOK, history
<1>7. QED BY <1>1, <1>2, <1>3, <1>4, <1>5, <1>6 DEF PushNext

\* The steps of a command before it saves keep the types.
LEMMA CommandType ==
    ASSUME StateTypeOK, NEW t \in Threads, CommandNext(t)
    PROVE  StateTypeOK'
<1> SUFFICES DataOK' /\ TasksOK(task')
  BY DEF StateTypeOK, DataOK, TasksOK
<1>0. DataOK
  BY TypeParts
<1>1. ASSUME NEW token \in Tokens, Browse(t, token) PROVE DataOK' /\ TasksOK(task')
  <2>1. TasksOK(task')
    BY <1>1, TaskUpdates DEF Browse, Steps
  <2>2. QED BY <1>0, <1>1, <2>1, MemoryUpdate DEF Browse, DataOK, history, Adds
<1>2. ASSUME NEW peer \in Peers, Verify(t, peer) PROVE DataOK' /\ TasksOK(task')
  <2>1. TasksOK(task')
    BY <1>2, TaskUpdates DEF Verify, Steps
  <2>2. QED BY <1>0, <1>2, <2>1, MemoryUpdate DEF Verify, DataOK, history, Adds
<1>3. ASSUME NEW peer \in Peers, ResetTrust(t, peer) PROVE DataOK' /\ TasksOK(task')
  <2>1. TasksOK(task')
    BY <1>3, TaskUpdates DEF ResetTrust, Steps
  <2>2. QED BY <1>0, <1>3, <2>1, MemoryUpdate DEF ResetTrust, DataOK, Adds
<1>4. CASE CommandFails(t)
  <2>1. TasksOK(task')
    BY <1>4, TaskUpdates DEF CommandFails
  <2>2. QED BY <1>0, <1>4, <2>1 DEF CommandFails, DataOK, history
<1>5. QED BY <1>1, <1>2, <1>3, <1>4 DEF CommandNext

\* The steps of save_state keep the types.
LEMMA SaveType ==
    ASSUME StateTypeOK, NEW t \in Threads, SaveNext(t)
    PROVE  StateTypeOK'
<1> SUFFICES DataOK' /\ TasksOK(task')
  BY DEF StateTypeOK, DataOK, TasksOK
<1>0. DataOK /\ TasksOK(task)
  BY TypeParts
<1>1. CASE ReadAndMerge(t)
  <2> DEFINE doc == Merge(Load(file), Memory(t))
             next == [task[t] EXCEPT !.step = "open", !.doc = doc]
  <2>1. doc \in Docs
    BY LoadType, MergeType, MemoryUpdate
  <2>2. task[t] \in Tasks
    BY <1>1, BusyTask DEF ReadAndMerge, Steps
  <2>3. next \in Tasks /\ next.step = "open"
    <3> HIDE DEF doc
    <3>1. QED BY <2>1, <2>2 DEF Tasks, Steps
  <2>4. task' = [task EXCEPT ![t] = next]
    BY <1>1 DEF ReadAndMerge
  <2>5. TasksOK(task')
    <3> HIDE DEF next
    <3>1. QED BY <2>3, <2>4, TaskUpdates
  <2>6. QED BY <1>0, <1>1, <2>5 DEF ReadAndMerge, DataOK, history
<1>2. CASE OpenTemp(t)
  <2> DEFINE next == [task[t] EXCEPT !.step = "write", !.target = "temp"]
  <2>1. task[t] \in Tasks
    BY <1>2, BusyTask DEF OpenTemp, Steps
  <2>2. next \in Tasks /\ next.step = "write"
    BY <2>1 DEF Tasks, Steps, Targets
  <2>3. task' = [task EXCEPT ![t] = next]
    BY <1>2 DEF OpenTemp
  <2>4. TasksOK(task')
    <3> HIDE DEF next
    <3>1. QED BY <2>2, <2>3, TaskUpdates
  <2>5. QED BY <1>0, <1>2, <2>4 DEF OpenTemp, DataOK, Contents, history
<1>3. CASE WriteOpened(t)
  <2>1. task[t] \in Tasks /\ task[t].doc \in Docs
    BY <1>3, BusyTask DEF WriteOpened, Steps, Tasks
  <2>2. TasksOK(task')
    BY <1>3, <2>1, GotoUpdate DEF WriteOpened, Steps
  <2>3. {file', temp'} \subseteq Contents
    BY <1>0, <1>3, <2>1 DEF WriteOpened, Overwritten, DataOK, Contents
  <2>4. QED BY <1>0, <1>3, <2>2, <2>3 DEF WriteOpened, DataOK, history
<1>4. CASE Replace(t)
  <2>1. ASSUME NEW u \in Threads PROVE
              /\ task'[u] \in Tasks \cup {Idle}
              /\ task'[u].step \in {"classify", "show", "ack"} => task'[u].token \in Tokens
    <3>1. task'[u] = CASE u = t /\ task[t].token = NoToken -> Idle
                       [] u = t /\ task[t].token # NoToken -> [task[t] EXCEPT !.step = "ack"]
                       [] u # t /\ At(u, "write")
                            -> [task[u] EXCEPT !.target = Renamed(task[u].target)]
                       [] OTHER -> task[u]
      BY <1>4 DEF Replace
    <3>2. CASE u = t /\ task[t].token = NoToken
      BY <3>1, <3>2 DEF Idle
    <3>3. CASE u = t /\ task[t].token # NoToken
      <4>1. task[t] \in Tasks
        BY <1>4, BusyTask DEF Replace, Steps
      <4>2. QED BY <3>1, <3>3, <4>1 DEF Tasks, Steps
    <3>4. CASE u # t /\ At(u, "write")
      <4>1. task[u] \in Tasks
        BY <3>4, BusyTask DEF Steps
      <4>2. QED BY <3>1, <3>4, <4>1 DEF Tasks, Targets, Renamed, At
    <3>5. CASE u # t /\ ~At(u, "write")
      BY <1>0, <3>1, <3>5 DEF TasksOK
    <3>6. QED BY <3>2, <3>3, <3>4, <3>5
  <2>2. TasksOK(task')
    BY <1>4, <2>1 DEF Replace, TasksOK
  <2>3. QED BY <1>0, <1>4, <2>2 DEF Replace, DataOK, Contents, history
<1>5. CASE ReplaceFails(t)
  <2>1. TasksOK(task')
    BY <1>5, TaskUpdates DEF ReplaceFails
  <2>2. QED BY <1>0, <1>5, <2>1 DEF ReplaceFails, DataOK, history
<1>6. QED BY <1>1, <1>2, <1>3, <1>4, <1>5 DEF SaveNext

\* A restart loads a document and leaves idle threads.
LEMMA RestartType ==
    ASSUME StateTypeOK, NEW p \in Processes, RestartProcess(p)
    PROVE  StateTypeOK'
<1>1. Load(file) \in Docs
  BY LoadType
<1>2. TasksOK(task')
  BY TypeParts DEF RestartProcess, StopAll, TasksOK, Idle
<1>3. DataOK'
  BY <1>1, TypeParts DEF RestartProcess, DataOK, history
<1>4. QED BY <1>2, <1>3 DEF StateTypeOK, DataOK, TasksOK

\* StateTypeOK is inductive.
LEMMA TypeInductive == StateTypeOK /\ [StateNext]_stateVars => StateTypeOK'
<1> SUFFICES ASSUME StateTypeOK, [StateNext]_stateVars PROVE StateTypeOK'
  OBVIOUS
<1>1. CASE UNCHANGED stateVars
  BY <1>1 DEF stateVars, history, StateTypeOK
<1>2. CASE StateNext
  BY <1>2, PushType, CommandType, SaveType, RestartType DEF StateNext, Threads
<1>3. QED BY <1>1, <1>2

\* The initial states are typed.
LEMMA TypeInit == StateInit => StateTypeOK
<1> SUFFICES ASSUME StateInit PROVE StateTypeOK
  OBVIOUS
<1>1. TasksOK(task)
  BY DEF StateInit, TasksOK, Idle
<1>2. DataOK
  BY LoadType DEF StateInit, DataOK, Contents
<1>3. QED BY <1>1, <1>2, TypeParts

\* Whatever number of processes and threads share the file, and however their saves
\* interleave, every process has a document in memory: one that finds the file
\* missing, empty or garbled starts from the default state.
THEOREM StateTypeCorrect == StateSpec => []StateTypeOK
  BY TypeInit, TypeInductive, PTL DEF StateSpec

-----------------------------------------------------------------------------
(* One process, any number of threads *)

Saving(u) == task[u].step \in {"open", "write", "replace"}
Opened(u) == task[u].step \in {"write", "replace"}

\* Also what a thread is about to write is in memory, and so is what another thread's
\* rename may put in place: a temporary file left by an earlier run of the process
\* is truncated before anybody can rename it.
HoldInv ==
    /\ StateTypeOK
    /\ MemoryHoldsFile
    /\ \A u \in Threads : Saving(u) => task[u].doc.kept \subseteq Memory(u).kept
    /\ (\E u \in Threads : Opened(u))
          => \A p \in Processes : Load(temp).kept \subseteq mem[p].kept

\* Initially memory is what could be read, and nobody is saving.
LEMMA HoldInit == StateInit => HoldInv
<1> SUFFICES ASSUME StateInit PROVE HoldInv
  OBVIOUS
<1>1. StateTypeOK /\ MemoryHoldsFile
  BY TypeInit DEF StateInit, MemoryHoldsFile
<1>2. \A u \in Threads : ~Saving(u) /\ ~Opened(u)
  BY DEF StateInit, Idle, Saving, Opened
<1>3. QED BY <1>1, <1>2 DEF HoldInv

\* A step that only adds to memory, and starts no save, keeps HoldInv.
LEMMA AddingHolds ==
    ASSUME HoldInv, StateTypeOK', file' = file, temp' = temp,
           \A p \in Processes : mem[p].kept \subseteq mem'[p].kept,
           \A u \in Threads : Saving(u)' => task'[u] = task[u]
    PROVE  HoldInv'
<1>1. MemoryHoldsFile'
  BY DEF HoldInv, MemoryHoldsFile
<1>2. \A u \in Threads : Saving(u)' => Saving(u) /\ task'[u] = task[u]
  BY DEF Saving
<1>3. \A u \in Threads : Saving(u)' => (task[u].doc.kept \subseteq Memory(u).kept)'
  BY <1>2, MemoryUpdate DEF HoldInv, Memory
<1>4. \A u \in Threads : Opened(u)' => Opened(u)
  BY <1>2 DEF Saving, Opened
<1>5. (\E u \in Threads : Opened(u)')
         => \A p \in Processes : Load(temp').kept \subseteq mem'[p].kept
  BY <1>4 DEF HoldInv
<1>6. QED BY <1>1, <1>3, <1>5 DEF HoldInv

\* Which task another thread has after a step of t, and which step t itself goes to.
LEMMA TaskAfter ==
    ASSUME StateTypeOK, NEW t \in Threads
    PROVE  /\ \A step, token : Begin(t, step, token)
                 => /\ task'[t].step = step /\ task'[t].token = token
                    /\ \A u \in Threads \ {t} : task'[u] = task[u]
           /\ Stop(t) => task'[t] = Idle /\ \A u \in Threads \ {t} : task'[u] = task[u]
           /\ \A step : Goto(t, step) /\ task[t] \in Tasks
                 => /\ task'[t] = [task[t] EXCEPT !.step = step] /\ task'[t].step = step
                    /\ \A u \in Threads \ {t} : task'[u] = task[u]
<1>1. DOMAIN task = Threads
  BY DEF StateTypeOK
<1>2. \A step, token : Begin(t, step, token)
         => /\ task'[t].step = step /\ task'[t].token = token
            /\ \A u \in Threads \ {t} : task'[u] = task[u]
  BY <1>1 DEF Begin
<1>3. Stop(t) => task'[t] = Idle /\ \A u \in Threads \ {t} : task'[u] = task[u]
  BY <1>1 DEF Stop
<1>4. ASSUME NEW step, Goto(t, step), task[t] \in Tasks
      PROVE  /\ task'[t] = [task[t] EXCEPT !.step = step] /\ task'[t].step = step
             /\ \A u \in Threads \ {t} : task'[u] = task[u]
  BY <1>1, <1>4 DEF Goto, Tasks
<1>5. QED BY <1>2, <1>3, <1>4

\* The steps of a push start a save at most by going to "read".
LEMMA PushHolds ==
    ASSUME HoldInv, NEW t \in Threads,
           PushNext(t) \/ \E token \in Tokens : Receive(t, token)
    PROVE  HoldInv'
<1>0. StateTypeOK /\ StateTypeOK'
  BY PushType DEF HoldInv
<1>1. file' = file /\ temp' = temp
  BY DEF PushNext, Receive, Classify, Refuse, Show, Ack, AckFails
<1>2. \A p \in Processes : mem[p].kept \subseteq mem'[p].kept
  <2>1. CASE mem' = mem
    BY <2>1
  <2>2. CASE Classify(t)
    <3>1. task[t].token \in Tokens
      BY <1>0, <2>2 DEF Classify, At, StateTypeOK
    <3>2. QED BY <1>0, <2>2, <3>1, MemoryUpdate DEF Classify, Adds
  <2>3. QED BY <2>1, <2>2 DEF PushNext, Receive, Refuse, Show, Ack, AckFails
<1>3. ~Saving(t)' /\ \A u \in Threads \ {t} : task'[u] = task[u]
  <2>1. CASE \E token \in Tokens : Receive(t, token)
    <3>1. task'[t].step = "classify" /\ \A u \in Threads \ {t} : task'[u] = task[u]
      BY <1>0, <2>1, TaskAfter DEF Receive
    <3>2. QED BY <3>1 DEF Saving
  <2>2. CASE Classify(t)
    <3>1. task[t] \in Tasks /\ (Goto(t, "read") \/ Goto(t, "show"))
      BY <1>0, <2>2, BusyTask DEF Classify, Steps
    <3>2. /\ task'[t].step \in {"read", "show"}
          /\ \A u \in Threads \ {t} : task'[u] = task[u]
      BY <1>0, <3>1, TaskAfter
    <3>3. QED BY <3>2 DEF Saving
  <2>3. CASE Refuse(t)
    <3>1. task'[t].step = "read" /\ \A u \in Threads \ {t} : task'[u] = task[u]
      BY <1>0, <2>3, TaskAfter DEF Refuse
    <3>2. QED BY <3>1 DEF Saving
  <2>4. CASE Show(t)
    <3>1. task[t] \in Tasks /\ Goto(t, "read")
      BY <1>0, <2>4, BusyTask DEF Show, Steps
    <3>2. task'[t].step = "read" /\ \A u \in Threads \ {t} : task'[u] = task[u]
      BY <1>0, <3>1, TaskAfter
    <3>3. QED BY <3>2 DEF Saving
  <2>5. CASE Ack(t) \/ AckFails(t)
    BY <1>0, <2>5, TaskAfter DEF Ack, AckFails, Saving, Idle
  <2>6. QED BY <2>1, <2>2, <2>3, <2>4, <2>5 DEF PushNext
<1>4. QED BY <1>0, <1>1, <1>2, <1>3, AddingHolds

\* So do those of a command.
LEMMA CommandHolds ==
    ASSUME HoldInv, NEW t \in Threads, CommandNext(t)
    PROVE  HoldInv'
<1>0. StateTypeOK /\ StateTypeOK'
  BY CommandType DEF HoldInv
<1>1. file' = file /\ temp' = temp
  BY DEF CommandNext, Browse, Verify, ResetTrust, CommandFails
<1>2. \A p \in Processes : mem[p].kept \subseteq mem'[p].kept
  BY <1>0, MemoryUpdate
     DEF CommandNext, Browse, Verify, ResetTrust, CommandFails, Adds
<1>3. ~Saving(t)' /\ \A u \in Threads \ {t} : task'[u] = task[u]
  <2>1. CASE \E token \in Tokens : Browse(t, token)
    BY <1>0, <2>1, TaskAfter DEF Browse, Saving
  <2>2. CASE \E peer \in Peers : Verify(t, peer) \/ ResetTrust(t, peer)
    BY <1>0, <2>2, TaskAfter DEF Verify, ResetTrust, Saving
  <2>3. CASE CommandFails(t)
    BY <1>0, <2>3, TaskAfter DEF CommandFails, Saving, Idle
  <2>4. QED BY <2>1, <2>2, <2>3 DEF CommandNext
<1>4. QED BY <1>0, <1>1, <1>2, <1>3, AddingHolds

\* What a save reads and merges is in the memory of the one process.
LEMMA ReadHolds ==
    ASSUME OneProcess, HoldInv, NEW t \in Threads, ReadAndMerge(t)
    PROVE  HoldInv'
<1> DEFINE doc == Merge(Load(file), Memory(t))
           next == [task[t] EXCEPT !.step = "open", !.doc = doc]
<1>0. StateTypeOK /\ StateTypeOK'
  BY SaveType DEF HoldInv, SaveNext
<1>1. doc \in Docs /\ doc.kept \subseteq Memory(t).kept
  BY <1>0, LoadType, MergeType, MemoryUpdate DEF HoldInv, MemoryHoldsFile, Memory
<1>2. task[t] \in Tasks
  BY <1>0, BusyTask DEF ReadAndMerge, Steps
<1>3. next.step = "open" /\ next.doc = doc
  <2> HIDE DEF doc
  <2>1. QED BY <1>2 DEF Tasks
<1>4. task' = [task EXCEPT ![t] = next] /\ UNCHANGED <<mem, file, temp>>
  BY DEF ReadAndMerge
<1> HIDE DEF next, doc
<1>5. task'[t] = next /\ \A u \in Threads \ {t} : task'[u] = task[u]
  BY <1>0, <1>4 DEF StateTypeOK
<1>6. MemoryHoldsFile'
  BY <1>4 DEF HoldInv, MemoryHoldsFile
<1>7. \A u \in Threads : Saving(u)' => (task[u].doc.kept \subseteq Memory(u).kept)'
  BY <1>1, <1>3, <1>4, <1>5 DEF HoldInv, Saving, Memory
<1>8. \A u \in Threads : Opened(u)' => Opened(u)
  BY <1>3, <1>5 DEF Opened
<1>9. QED BY <1>0, <1>4, <1>6, <1>7, <1>8 DEF HoldInv

\* Opening empties the temporary file, whatever it held.
LEMMA OpenHolds ==
    ASSUME HoldInv, NEW t \in Threads, OpenTemp(t)
    PROVE  HoldInv'
<1> DEFINE next == [task[t] EXCEPT !.step = "write", !.target = "temp"]
<1>0. StateTypeOK /\ StateTypeOK'
  BY SaveType DEF HoldInv, SaveNext
<1>1. task[t] \in Tasks /\ Saving(t)
  BY <1>0, BusyTask DEF OpenTemp, Steps, Saving, At
<1>2. next.doc = task[t].doc
  BY <1>1 DEF Tasks
<1>3. task' = [task EXCEPT ![t] = next] /\ temp' = Empty /\ UNCHANGED <<mem, file>>
  BY DEF OpenTemp
<1> HIDE DEF next
<1>4. task'[t] = next /\ \A u \in Threads \ {t} : task'[u] = task[u]
  BY <1>0, <1>3 DEF StateTypeOK
<1>5. MemoryHoldsFile'
  BY <1>3 DEF HoldInv, MemoryHoldsFile
<1>6. \A u \in Threads : Saving(u)' => (task[u].doc.kept \subseteq Memory(u).kept)'
  BY <1>1, <1>2, <1>3, <1>4 DEF HoldInv, Saving, Memory
<1>7. \A p \in Processes : Load(temp').kept \subseteq mem'[p].kept
  BY <1>3, LoadFacts DEF DefaultDoc
<1>8. QED BY <1>0, <1>5, <1>6, <1>7 DEF HoldInv

\* A write leaves what the writer had merged, or a garbled file, wherever the open
\* file is by then.
LEMMA WriteHolds ==
    ASSUME OneProcess, HoldInv, NEW t \in Threads, WriteOpened(t)
    PROVE  HoldInv'
<1>0. StateTypeOK /\ StateTypeOK'
  BY SaveType DEF HoldInv, SaveNext
<1>1. task[t] \in Tasks /\ task[t].doc \in Docs /\ Saving(t) /\ Opened(t)
  BY <1>0, BusyTask DEF WriteOpened, Steps, Tasks, Saving, Opened, At
<1>2. task'[t] = [task[t] EXCEPT !.step = "replace"] /\ task'[t].step = "replace"
         /\ \A u \in Threads \ {t} : task'[u] = task[u]
  BY <1>0, <1>1, TaskAfter DEF WriteOpened
<1>3. mem' = mem
  BY DEF WriteOpened
<1>5. /\ file' \in {file, task[t].doc, Garbled}
      /\ temp' \in {temp, task[t].doc, Garbled}
  BY DEF WriteOpened, Overwritten
<1>6. \A p \in Processes : task[t].doc.kept \subseteq mem[p].kept
  BY <1>0, <1>1, MemoryUpdate DEF HoldInv, Memory, OneProcess
<1>7. MemoryHoldsFile'
  BY <1>1, <1>3, <1>5, <1>6, LoadFacts DEF HoldInv, MemoryHoldsFile, DefaultDoc
<1>8. \A p \in Processes : Load(temp').kept \subseteq mem'[p].kept
  BY <1>1, <1>3, <1>5, <1>6, LoadFacts DEF HoldInv, DefaultDoc
<1>9. task'[t].doc = task[t].doc
  BY <1>1, <1>2 DEF Tasks
<1>10. \A u \in Threads : Saving(u)' => (task[u].doc.kept \subseteq Memory(u).kept)'
  BY <1>1, <1>2, <1>3, <1>9 DEF HoldInv, Saving, Memory
<1>11. QED BY <1>0, <1>7, <1>8, <1>10 DEF HoldInv

\* A rename puts in place what a thread of this run of the process has written.
LEMMA ReplaceHolds ==
    ASSUME HoldInv, NEW t \in Threads, Replace(t) \/ ReplaceFails(t)
    PROVE  HoldInv'
<1>0. StateTypeOK /\ StateTypeOK'
  BY SaveType DEF HoldInv, SaveNext
<1>1. CASE ReplaceFails(t)
  <2>1. ~Saving(t)' /\ \A u \in Threads \ {t} : task'[u] = task[u]
    BY <1>0, <1>1, TaskAfter DEF ReplaceFails, Saving, Idle
  <2>2. UNCHANGED <<mem, file, temp>>
    BY <1>1 DEF ReplaceFails
  <2>3. QED BY <1>0, <2>1, <2>2, AddingHolds
<1>2. CASE Replace(t)
  <2>1. file' = temp /\ temp' = NoFile /\ mem' = mem /\ Opened(t)
    BY <1>2 DEF Replace, At, Opened
  <2>2. MemoryHoldsFile'
    BY <2>1 DEF HoldInv, MemoryHoldsFile
  <2>3. \A p \in Processes : Load(temp').kept \subseteq mem'[p].kept
    BY <2>1, LoadFacts DEF DefaultDoc
  <2>4. ASSUME NEW u \in Threads, Saving(u)'
        PROVE  (task[u].doc.kept \subseteq Memory(u).kept)'
    <3>1. task'[u] = CASE u = t /\ task[t].token = NoToken -> Idle
                       [] u = t /\ task[t].token # NoToken -> [task[t] EXCEPT !.step = "ack"]
                       [] u # t /\ At(u, "write")
                            -> [task[u] EXCEPT !.target = Renamed(task[u].target)]
                       [] OTHER -> task[u]
      BY <1>2 DEF Replace
    <3>2. u # t
      <4>1. CASE u = t /\ task[t].token = NoToken
        BY <2>4, <3>1, <4>1 DEF Saving, Idle
      <4>2. CASE u = t /\ task[t].token # NoToken
        <5>1. task[t] \in Tasks
          BY <1>0, <1>2, BusyTask DEF Replace, Steps
        <5>2. QED BY <2>4, <3>1, <4>2, <5>1 DEF Saving, Tasks
      <4>3. QED BY <4>1, <4>2
    <3>3. CASE At(u, "write")
      <4>1. task[u] \in Tasks
        BY <1>0, <3>3, BusyTask DEF Steps
      <4>2. task'[u].doc = task[u].doc /\ Saving(u)
        BY <3>1, <3>2, <3>3, <4>1 DEF Tasks, Saving, At
      <4>3. QED BY <2>1, <4>2 DEF HoldInv, Memory
    <3>4. CASE ~At(u, "write")
      <4>1. task'[u] = task[u]
        BY <3>1, <3>2, <3>4
      <4>2. QED BY <2>1, <2>4, <4>1 DEF HoldInv, Memory, Saving
    <3>5. QED BY <3>3, <3>4
  <2>5. QED BY <1>0, <2>2, <2>3, <2>4 DEF HoldInv
<1>3. QED BY <1>1, <1>2

\* After a restart memory is what could be read, and nobody is saving.
LEMMA RestartHolds ==
    ASSUME OneProcess, HoldInv, NEW p \in Processes, RestartProcess(p)
    PROVE  HoldInv'
<1>0. StateTypeOK /\ StateTypeOK'
  BY RestartType DEF HoldInv
<1>1. \A u \in Threads : ~Saving(u)' /\ ~Opened(u)'
  BY StateAssumption DEF RestartProcess, StopAll, OneProcess, Idle, Saving, Opened
<1>2. MemoryHoldsFile'
  BY <1>0 DEF RestartProcess, OneProcess, MemoryHoldsFile, StateTypeOK
<1>3. QED BY <1>0, <1>1, <1>2 DEF HoldInv

\* HoldInv is inductive when there is one process.
LEMMA HoldInductive == ASSUME OneProcess PROVE HoldInv /\ [StateNext]_stateVars => HoldInv'
<1> SUFFICES ASSUME HoldInv, [StateNext]_stateVars PROVE HoldInv'
  OBVIOUS
<1>1. CASE UNCHANGED stateVars
  <2>1. StateTypeOK'
    BY <1>1, TypeInductive DEF HoldInv
  <2>2. QED BY <1>1, <2>1, AddingHolds DEF stateVars
<1>2. CASE StateNext
  BY <1>2, PushHolds, CommandHolds, ReadHolds, OpenHolds, WriteHolds, ReplaceHolds,
     RestartHolds DEF StateNext, SaveNext, Threads
<1>3. QED BY <1>1, <1>2

\* With one process, however its threads' saves overlap and wherever it is killed,
\* whatever can be read back from client_state.json is still in memory.
THEOREM FileIsInMemory == ASSUME OneProcess PROVE StateSpec => []MemoryHoldsFile
<1>1. StateInit => HoldInv
  BY HoldInit
<1>2. HoldInv /\ [StateNext]_stateVars => HoldInv'
  BY HoldInductive
<1>3. HoldInv => MemoryHoldsFile
  BY DEF HoldInv
<1>4. QED BY <1>1, <1>2, <1>3, PTL DEF StateSpec

-----------------------------------------------------------------------------
(* One thread *)

\* Where the one thread's save and push have got to.
AloneAt(u) ==
    /\ Saving(u) => task[u].doc = Merge(Load(file), Memory(u))
    /\ At(u, "write") => task[u].target = "temp" /\ temp = Empty
    /\ At(u, "replace") => temp = task[u].doc
    /\ At(u, "show") => task[u].token \in Memory(u).kept /\ task[u].token \notin acked
    /\ (At(u, "read") \/ Saving(u)) /\ task[u].token # NoToken
          => task[u].token \in Memory(u).kept
    /\ At(u, "ack") => task[u].token \in Load(file).kept

\* Nobody else changes the file between reading and renaming, so that the rename puts
\* in place the merge of what is there; what is acknowledged is in the file, and
\* the file has no verification that the user withdrew from memory.
AloneInv ==
    /\ HoldInv
    /\ \A u \in Threads : AloneAt(u)
    /\ acked \subseteq Load(file).kept
    /\ \A p \in Processes : Load(file).verified \ mem[p].verified \subseteq reset

\* Nor has anything been acknowledged.
LEMMA AloneInit == StateInit => AloneInv
  BY HoldInit DEF StateInit, AloneInv, AloneAt, Saving, At, Idle

\* The steps of a push.
LEMMA PushAlone ==
    ASSUME OneThread, AloneInv, NEW t \in Threads,
           PushNext(t) \/ \E token \in Tokens : Receive(t, token)
    PROVE  AloneInv'
<1>0. HoldInv' /\ StateTypeOK /\ StateTypeOK'
  BY PushHolds DEF AloneInv, HoldInv
<1>1. file' = file /\ temp' = temp /\ reset' = reset
  BY DEF PushNext, Receive, Classify, Refuse, Show, Ack, AckFails, history
<1>2. SUFFICES /\ AloneAt(t)'
               /\ acked' \subseteq Load(file).kept
               /\ \A p \in Processes : mem'[p].verified = mem[p].verified
  BY <1>0, <1>1 DEF AloneInv, OneThread
<1>3. \A p \in Processes : Load(file).kept \subseteq mem[p].kept
  BY DEF AloneInv, HoldInv, MemoryHoldsFile
<1>4. CASE \E token \in Tokens : Receive(t, token)
  <2>1. task'[t].step = "classify" /\ UNCHANGED <<mem, acked>>
    BY <1>0, <1>4, TaskAfter DEF Receive, history
  <2>2. QED BY <2>1 DEF AloneInv, AloneAt, Saving, At
<1>5. CASE Classify(t)
  <2>1. task[t] \in Tasks /\ task[t].token \in Tokens /\ acked' = acked
    BY <1>0, <1>5, BusyTask DEF Classify, Steps, At, StateTypeOK, history
  <2>2. CASE task[t].token \in Memory(t).kept
    <3>1. mem' = mem /\ Goto(t, "read")
      BY <1>5, <2>2 DEF Classify
    <3>2. task'[t].step = "read" /\ task'[t].token = task[t].token
      BY <1>0, <2>1, <3>1, TaskAfter DEF Tasks
    <3>3. QED BY <2>1, <2>2, <3>1, <3>2 DEF AloneInv, AloneAt, Saving, At, Memory
  <2>3. CASE task[t].token \notin Memory(t).kept
    <3>1. mem' = [mem EXCEPT ![Of[t]].kept = @ \cup {task[t].token}] /\ Goto(t, "show")
      BY <1>5, <2>3 DEF Classify
    <3>2. task'[t].step = "show" /\ task'[t].token = task[t].token
      BY <1>0, <2>1, <3>1, TaskAfter DEF Tasks
    <3>3. /\ \A p \in Processes : mem'[p].verified = mem[p].verified
          /\ task[t].token \in mem'[Of[t]].kept
      BY <1>0, <3>1, MemoryUpdate DEF StateTypeOK, Docs
    <3>4. task[t].token \notin acked
      BY <1>0, <1>3, <2>3, MemoryUpdate DEF AloneInv, Memory
    <3>5. QED BY <2>1, <3>2, <3>3, <3>4 DEF AloneInv, AloneAt, Saving, At, Memory
  <2>4. QED BY <2>2, <2>3
<1>6. CASE Refuse(t)
  <2>1. task'[t].step = "read" /\ task'[t].token = NoToken /\ UNCHANGED <<mem, acked>>
    BY <1>0, <1>6, TaskAfter DEF Refuse, history
  <2>2. QED BY <2>1 DEF AloneInv, AloneAt, Saving, At
<1>7. CASE Show(t)
  <2>1. task[t] \in Tasks /\ UNCHANGED <<mem, acked>>
    BY <1>0, <1>7, BusyTask DEF Show, Steps
  <2>2. task'[t].step = "read" /\ task'[t].token = task[t].token
    BY <1>0, <1>7, <2>1, TaskAfter DEF Show, Tasks
  <2>3. QED BY <1>7, <2>1, <2>2 DEF Show, AloneInv, AloneAt, Saving, At, Memory
<1>8. CASE Ack(t)
  <2>1. task'[t] = Idle /\ mem' = mem
    BY <1>0, <1>8, TaskAfter DEF Ack
  <2>2. acked' \subseteq Load(file).kept
    BY <1>8 DEF Ack, AloneInv, AloneAt
  <2>3. QED BY <2>1, <2>2 DEF AloneAt, Saving, At, Idle
<1>9. CASE AckFails(t)
  <2>1. task'[t] = Idle /\ UNCHANGED <<mem, acked>>
    BY <1>0, <1>9, TaskAfter DEF AckFails, history
  <2>2. QED BY <2>1 DEF AloneInv, AloneAt, Saving, At, Idle
<1>10. QED BY <1>4, <1>5, <1>6, <1>7, <1>8, <1>9 DEF PushNext

\* The steps of a command before it saves: only reset-trust removes a record.
LEMMA CommandAlone ==
    ASSUME OneThread, AloneInv, NEW t \in Threads, CommandNext(t)
    PROVE  AloneInv'
<1>0. HoldInv' /\ StateTypeOK /\ StateTypeOK'
  BY CommandHolds DEF AloneInv, HoldInv
<1>1. file' = file /\ temp' = temp /\ acked' = acked
  BY DEF CommandNext, Browse, Verify, ResetTrust, CommandFails, history
<1>2. AloneAt(t)'
  <2>1. CASE \/ \E token \in Tokens : Browse(t, token)
             \/ \E peer \in Peers : Verify(t, peer) \/ ResetTrust(t, peer)
    <3>1. task'[t].step = "read" /\ task'[t].token = NoToken
      BY <1>0, <2>1, TaskAfter DEF Browse, Verify, ResetTrust
    <3>2. QED BY <3>1 DEF AloneAt, Saving, At
  <2>2. CASE CommandFails(t)
    <3>1. task'[t] = Idle
      BY <1>0, <2>2, TaskAfter DEF CommandFails
    <3>2. QED BY <3>1 DEF AloneAt, Saving, At, Idle
  <2>3. QED BY <2>1, <2>2 DEF CommandNext
<1>3. \A p \in Processes : Load(file).verified \ mem'[p].verified \subseteq reset'
  <2>1. mem \in [Processes -> Docs]
    BY <1>0 DEF StateTypeOK
  <2>2. CASE CommandFails(t)
    BY <2>2 DEF CommandFails, AloneInv, history
  <2>3. ASSUME NEW token \in Tokens, Browse(t, token)
        PROVE  \A p \in Processes : Load(file).verified \ mem'[p].verified \subseteq reset'
    BY <2>1, <2>3 DEF Browse, AloneInv, history, Docs
  <2>4. ASSUME NEW peer \in Peers, Verify(t, peer)
        PROVE  \A p \in Processes : Load(file).verified \ mem'[p].verified \subseteq reset'
    BY <2>1, <2>4 DEF Verify, AloneInv, history, Docs
  <2>5. ASSUME NEW peer \in Peers, ResetTrust(t, peer)
        PROVE  \A p \in Processes : Load(file).verified \ mem'[p].verified \subseteq reset'
    BY <2>1, <2>5 DEF ResetTrust, AloneInv, Docs
  <2>6. QED BY <2>2, <2>3, <2>4, <2>5 DEF CommandNext
<1>4. QED BY <1>0, <1>1, <1>2, <1>3 DEF AloneInv, OneThread

\* The steps of a save.  The rename puts in place the merge of the file with memory.
LEMMA SaveAlone ==
    ASSUME OneThread, AloneInv, NEW t \in Threads, SaveNext(t)
    PROVE  /\ AloneInv'
           /\ file' # file => Replace(t) /\ file' = Merge(Load(file), Memory(t))
<1>0. StateTypeOK /\ StateTypeOK' /\ HoldInv'
  BY SaveType, ReadHolds, OpenHolds, WriteHolds, ReplaceHolds
     DEF AloneInv, HoldInv, OneThread, SaveNext
<1>a. Load(file) \in Docs /\ Memory(t) \in Docs /\ Of[t] \in Processes
  BY <1>0, LoadType, MemoryUpdate
<1>b. UNCHANGED <<mem, history>>
  BY DEF SaveNext, ReadAndMerge, OpenTemp, WriteOpened, Replace, ReplaceFails, history
<1>c. SUFFICES /\ AloneAt(t)'
               /\ \/ file' = file
                  \/ Replace(t) /\ file' = Merge(Load(file), Memory(t))
  <2>1. CASE file' = file
    BY <1>0, <1>b, <1>c, <2>1 DEF AloneInv, OneThread, history
  <2>2. CASE Replace(t) /\ file' = Merge(Load(file), Memory(t))
    <3>1. Load(file') = file' /\ file'.kept = Load(file).kept \cup Memory(t).kept
             /\ file'.verified = Memory(t).verified
      BY <1>a, <2>2, MergeType, LoadFacts
    <3>2. acked \subseteq file'.kept
      BY <3>1 DEF AloneInv
    <3>3. \A p \in Processes : file'.verified \ mem[p].verified \subseteq reset
      BY <1>a, <3>1 DEF OneThread, OneProcess, Memory
    <3>4. QED BY <1>0, <1>b, <1>c, <2>2, <3>1, <3>2, <3>3 DEF AloneInv, OneThread, history
  <2>3. QED BY <1>c, <2>1, <2>2
<1>1. CASE ReadAndMerge(t)
  <2> DEFINE doc == Merge(Load(file), Memory(t))
             next == [task[t] EXCEPT !.step = "open", !.doc = doc]
  <2>1. task[t] \in Tasks
    BY <1>0, <1>1, BusyTask DEF ReadAndMerge, Steps
  <2>2. next.step = "open" /\ next.doc = doc /\ next.token = task[t].token
    <3> HIDE DEF doc
    <3>1. QED BY <2>1 DEF Tasks
  <2>3. task'[t] = next /\ UNCHANGED <<file, temp>>
    BY <1>0, <1>1 DEF ReadAndMerge, StateTypeOK
  <2>4. task[t].token # NoToken => task[t].token \in Memory(t).kept
    BY <1>1 DEF ReadAndMerge, AloneInv, AloneAt
  <2> HIDE DEF next
  <2>5. QED BY <1>b, <2>2, <2>3, <2>4 DEF AloneAt, Saving, At, Memory
<1>2. CASE OpenTemp(t)
  <2> DEFINE next == [task[t] EXCEPT !.step = "write", !.target = "temp"]
  <2>1. task[t] \in Tasks /\ Saving(t)
    BY <1>0, <1>2, BusyTask DEF OpenTemp, Steps, Saving, At
  <2>2. next.step = "write" /\ next.target = "temp" /\ next.doc = task[t].doc
           /\ next.token = task[t].token
    BY <2>1 DEF Tasks
  <2>3. task'[t] = next /\ file' = file /\ temp' = Empty
    BY <1>0, <1>2 DEF OpenTemp, StateTypeOK
  <2> HIDE DEF next
  <2>4. QED BY <1>b, <2>1, <2>2, <2>3 DEF AloneInv, AloneAt, Saving, At, Memory, history
<1>3. CASE WriteOpened(t)
  <2>1. task[t] \in Tasks /\ Saving(t)
    BY <1>0, <1>3, BusyTask DEF WriteOpened, Steps, Saving, At
  <2>2. task[t].target = "temp" /\ temp = Empty
    BY <1>3 DEF WriteOpened, AloneInv, AloneAt
  <2>3. file' = file /\ temp' = task[t].doc
    BY <1>3, <2>2 DEF WriteOpened, Overwritten
  <2>4. task'[t].step = "replace" /\ task'[t].doc = task[t].doc
           /\ task'[t].token = task[t].token
    <3>1. Goto(t, "replace")
      BY <1>3 DEF WriteOpened
    <3>2. task'[t] = [task[t] EXCEPT !.step = "replace"]
      BY <1>0, <2>1, <3>1, TaskAfter
    <3>3. QED BY <2>1, <3>2 DEF Tasks
  <2>5. QED BY <1>b, <2>1, <2>3, <2>4 DEF AloneInv, AloneAt, Saving, At, Memory, history
<1>4. CASE Replace(t)
  <2>1. task[t] \in Tasks /\ Saving(t)
    BY <1>0, <1>4, BusyTask DEF Replace, Steps, Saving, At
  <2>2. file' = temp /\ temp = task[t].doc
    BY <1>4 DEF Replace, AloneInv, AloneAt
  <2>3. file' = Merge(Load(file), Memory(t))
    BY <2>1, <2>2 DEF AloneInv, AloneAt
  <2>4. Load(file') = file' /\ file'.kept = Load(file).kept \cup Memory(t).kept
    BY <1>a, <2>3, MergeType, LoadFacts
  <2>5. CASE task[t].token = NoToken
    <3>1. task'[t] = Idle
      BY <1>4, <2>5 DEF Replace
    <3>2. QED BY <1>4, <2>3, <3>1 DEF AloneAt, Saving, At, Idle
  <2>6. CASE task[t].token # NoToken
    <3>1. task'[t] = [task[t] EXCEPT !.step = "ack"]
      BY <1>4, <2>6 DEF Replace
    <3>2. task'[t].step = "ack" /\ task'[t].token = task[t].token
      BY <2>1, <3>1 DEF Tasks
    <3>3. task[t].token \in Memory(t).kept
      BY <2>1, <2>6 DEF AloneInv, AloneAt
    <3>4. QED BY <1>4, <2>3, <2>4, <3>2, <3>3 DEF AloneAt, Saving, At
  <2>7. QED BY <2>5, <2>6
<1>5. CASE ReplaceFails(t)
  <2>1. task'[t] = Idle /\ file' = file
    BY <1>0, <1>5, TaskAfter DEF ReplaceFails
  <2>2. QED BY <2>1 DEF AloneAt, Saving, At, Idle
<1>6. QED BY <1>1, <1>2, <1>3, <1>4, <1>5 DEF SaveNext

\* A restart loses what was not saved, none of which was acknowledged.
LEMMA RestartAlone ==
    ASSUME OneThread, AloneInv, NEW p \in Processes, RestartProcess(p)
    PROVE  AloneInv'
<1>1. HoldInv'
  BY RestartHolds DEF AloneInv, OneThread
<1>2. \A u \in Threads : task'[u] = Idle
  BY StateAssumption DEF RestartProcess, StopAll, OneThread, OneProcess
<1>3. \A q \in Processes : mem'[q] = Load(file)
  BY DEF RestartProcess, OneThread, OneProcess, AloneInv, HoldInv, StateTypeOK
<1>4. UNCHANGED <<file, temp, history>>
  BY DEF RestartProcess
<1>5. QED BY <1>1, <1>2, <1>3, <1>4 DEF AloneInv, AloneAt, Saving, At, Idle, history

\* AloneInv is inductive, and the file changes only by an atomic save.
LEMMA AloneInductive ==
    ASSUME OneThread, AloneInv, [StateNext]_stateVars
    PROVE  /\ AloneInv'
           /\ file' # file => \E p \in Processes : file' = Merge(Load(file), mem[p])
<1>1. CASE UNCHANGED stateVars
  <2>1. HoldInv'
    BY <1>1, HoldInductive DEF AloneInv, OneThread
  <2>2. QED BY <1>1, <2>1
        DEF stateVars, history, AloneInv, AloneAt, Saving, At, Memory
<1>2. ASSUME NEW t \in Listeners, PushNext(t) \/ \E token \in Tokens : Receive(t, token)
      PROVE  AloneInv' /\ file' = file
  BY <1>2, PushAlone
     DEF Threads, PushNext, Receive, Classify, Refuse, Show, Ack, AckFails
<1>3. ASSUME NEW t \in Mains, CommandNext(t) PROVE AloneInv' /\ file' = file
  BY <1>3, CommandAlone DEF Threads, CommandNext, Browse, Verify, ResetTrust, CommandFails
<1>4. ASSUME NEW t \in Threads, SaveNext(t)
      PROVE  /\ AloneInv'
             /\ file' # file => \E p \in Processes : file' = Merge(Load(file), mem[p])
  BY <1>4, SaveAlone, StateAssumption DEF Memory
<1>5. ASSUME NEW p \in Processes, RestartProcess(p) PROVE AloneInv' /\ file' = file
  BY <1>5, RestartAlone DEF RestartProcess
<1>6. QED BY <1>1, <1>2, <1>3, <1>4, <1>5 DEF StateNext

\* AloneInv holds throughout when one thread saves.
LEMMA AloneInvariance == ASSUME OneThread PROVE StateSpec => []AloneInv
<1>1. AloneInv /\ [StateNext]_stateVars => AloneInv'
  BY AloneInductive
<1>2. QED BY AloneInit, <1>1, PTL DEF StateSpec

\* When one thread saves, client_state.json goes from one merged document to the next
\* and is never empty, also when the process is killed inside a save.
THEOREM SavesAtomic == ASSUME OneThread PROVE StateSpec => SavesAreAtomic
<1>1. AloneInv /\ [StateNext]_stateVars
         => [file' # file => \E p \in Processes : file' = Merge(Load(file), mem[p])]_stateVars
  BY AloneInductive
<1>2. QED BY AloneInvariance, <1>1, PTL DEF StateSpec, SavesAreAtomic

\* When one thread saves, no message is shown as new after it was recorded and
\* acknowledged, over any number of restarts.
THEOREM AckedStaysHidden == ASSUME OneThread PROVE StateSpec => []AckedIsNotShownAgain
<1>1. AloneInv => AckedIsNotShownAgain
  BY DEF AloneInv, AloneAt, AckedIsNotShownAgain, Threads
<1>2. QED BY AloneInvariance, <1>1, PTL

\* When one thread saves, a verified record leaves the file only after the user has
\* withdrawn it.
THEOREM VerifiedStays == ASSUME OneThread PROVE StateSpec => VerifiedIsKept
<1>1. AloneInv /\ [StateNext]_stateVars
         => [{file, file'} \subseteq Docs => file.verified \ file'.verified \subseteq reset]_stateVars
  <2> SUFFICES ASSUME AloneInv, [StateNext]_stateVars, {file, file'} \subseteq Docs, file' # file
               PROVE  file.verified \ file'.verified \subseteq reset
    OBVIOUS
  <2>1. PICK p \in Processes : file' = Merge(Load(file), mem[p])
    BY AloneInductive
  <2>2. file'.verified = mem[p].verified
    BY <2>1 DEF Merge
  <2>3. QED BY <2>2, LoadFacts DEF AloneInv
<1>2. QED BY AloneInvariance, <1>1, PTL DEF StateSpec, VerifiedIsKept

-----------------------------------------------------------------------------
(* Any processes and threads whose saves do not overlap *)

\* What a lock around save_state would give: nobody reads the file to merge while
\* another is between its reading and its renaming.
Serial == \A t, u \in Threads : Saving(t) /\ Saving(u) => t = u

\* Where a thread's save and push have got to, whatever other threads add to memory.
SerialAt(u) ==
    /\ Saving(u) => Load(file).kept \subseteq task[u].doc.kept
    /\ At(u, "write") => task[u].target = "temp" /\ temp = Empty
    /\ At(u, "replace") => temp = task[u].doc
    /\ At(u, "show") \/ (At(u, "read") /\ task[u].token # NoToken)
          => task[u].token \in Memory(u).kept
    /\ Saving(u) /\ task[u].token # NoToken => task[u].token \in task[u].doc.kept
    /\ At(u, "ack") => task[u].token \in Load(file).kept

SerialInv ==
    /\ StateTypeOK
    /\ \A u \in Threads : SerialAt(u)
    /\ acked \subseteq Load(file).kept

\* What a step of one thread, or of another process, leaves true of a thread.
LEMMA OthersSerial ==
    ASSUME SerialInv, NEW u \in Threads, task'[u] = task[u],
           mem[Of[u]].kept \subseteq mem'[Of[u]].kept,
           Load(file).kept \subseteq Load(file').kept,
           Saving(u) => UNCHANGED <<file, temp>>
    PROVE  SerialAt(u)'
<1>1. SerialAt(u)
  BY DEF SerialInv
<1>2. CASE Saving(u)
  BY <1>1, <1>2 DEF SerialAt, Saving, At, Memory
<1>3. CASE ~Saving(u)
  BY <1>1, <1>3 DEF SerialAt, Saving, At, Memory
<1>4. QED BY <1>2, <1>3

\* A step of a push or a command: the file stays and memory grows.
LEMMA QuietSerial ==
    ASSUME SerialInv, StateTypeOK', NEW t \in Threads, UNCHANGED <<file, temp>>,
           \A p \in Processes : mem[p].kept \subseteq mem'[p].kept,
           \A u \in Threads \ {t} : task'[u] = task[u],
           SerialAt(t)', acked' \subseteq Load(file).kept
    PROVE  SerialInv'
<1>1. ASSUME NEW u \in Threads PROVE SerialAt(u)'
  <2>1. CASE u # t
    BY <2>1, OthersSerial, MemoryUpdate DEF SerialInv
  <2>2. QED BY <2>1
<1>2. QED BY <1>1 DEF SerialInv

\* The steps of a push.  What is acknowledged has been saved.
LEMMA PushSerial ==
    ASSUME SerialInv, NEW t \in Threads,
           PushNext(t) \/ \E token \in Tokens : Receive(t, token)
    PROVE  SerialInv'
<1>0. StateTypeOK /\ StateTypeOK' /\ SerialAt(t) /\ acked \subseteq Load(file).kept
  BY PushType DEF SerialInv
<1>1. file' = file /\ temp' = temp
  BY DEF PushNext, Receive, Classify, Refuse, Show, Ack, AckFails
<1>2. CASE \E token \in Tokens : Receive(t, token)
  <2>1. /\ task'[t].step = "classify" /\ UNCHANGED <<mem, acked>>
        /\ \A u \in Threads \ {t} : task'[u] = task[u]
    BY <1>0, <1>2, TaskAfter DEF Receive, history
  <2>2. SerialAt(t)'
    BY <2>1 DEF SerialAt, Saving, At
  <2>3. QED BY <1>0, <1>1, <2>1, <2>2, QuietSerial
<1>3. CASE Classify(t)
  <2>1. task[t] \in Tasks /\ task[t].token \in Tokens /\ acked' = acked
    BY <1>0, <1>3, BusyTask DEF Classify, Steps, At, StateTypeOK, history
  <2>2. /\ task'[t].step \in {"read", "show"} /\ task'[t].token = task[t].token
        /\ \A u \in Threads \ {t} : task'[u] = task[u]
    <3>1. Goto(t, "read") \/ Goto(t, "show")
      BY <1>3 DEF Classify
    <3>2. QED BY <1>0, <2>1, <3>1, TaskAfter DEF Tasks
  <2>3. /\ \A p \in Processes : mem[p].kept \subseteq mem'[p].kept
        /\ task[t].token \in mem'[Of[t]].kept
    <3>1. CASE task[t].token \in Memory(t).kept
      BY <1>3, <3>1 DEF Classify, Memory
    <3>2. CASE task[t].token \notin Memory(t).kept
      <4>1. mem' = [mem EXCEPT ![Of[t]].kept = @ \cup {task[t].token}]
        BY <1>3, <3>2 DEF Classify
      <4>2. QED BY <1>0, <2>1, <4>1, MemoryUpdate DEF Adds, StateTypeOK, Docs
    <3>3. QED BY <3>1, <3>2
  <2>4. SerialAt(t)'
    BY <2>2, <2>3 DEF SerialAt, Saving, At, Memory
  <2>5. QED BY <1>0, <1>1, <2>1, <2>2, <2>3, <2>4, QuietSerial
<1>4. CASE Refuse(t)
  <2>1. /\ task'[t].step = "read" /\ task'[t].token = NoToken /\ UNCHANGED <<mem, acked>>
        /\ \A u \in Threads \ {t} : task'[u] = task[u]
    BY <1>0, <1>4, TaskAfter DEF Refuse, history
  <2>2. SerialAt(t)'
    BY <2>1 DEF SerialAt, Saving, At
  <2>3. QED BY <1>0, <1>1, <2>1, <2>2, QuietSerial
<1>5. CASE Show(t)
  <2>1. task[t] \in Tasks /\ UNCHANGED <<mem, acked>> /\ Goto(t, "read") /\ At(t, "show")
    BY <1>0, <1>5, BusyTask DEF Show, Steps
  <2>2. /\ task'[t].step = "read" /\ task'[t].token = task[t].token
        /\ \A u \in Threads \ {t} : task'[u] = task[u]
    BY <1>0, <2>1, TaskAfter DEF Tasks
  <2>3. SerialAt(t)'
    BY <1>0, <2>1, <2>2 DEF SerialAt, Saving, At, Memory
  <2>4. QED BY <1>0, <1>1, <2>1, <2>2, <2>3, QuietSerial
<1>6. CASE Ack(t) \/ AckFails(t)
  <2>1. /\ task'[t] = Idle /\ mem' = mem /\ \A u \in Threads \ {t} : task'[u] = task[u]
    BY <1>0, <1>6, TaskAfter DEF Ack, AckFails
  <2>2. acked' \subseteq Load(file).kept
    BY <1>0, <1>6 DEF Ack, AckFails, SerialAt, history
  <2>3. SerialAt(t)'
    BY <2>1 DEF SerialAt, Saving, At, Idle
  <2>4. QED BY <1>0, <1>1, <2>1, <2>2, <2>3, QuietSerial
<1>7. QED BY <1>2, <1>3, <1>4, <1>5, <1>6 DEF PushNext

\* The steps of a command before it saves.
LEMMA CommandSerial ==
    ASSUME SerialInv, NEW t \in Threads, CommandNext(t)
    PROVE  SerialInv'
<1>0. StateTypeOK /\ StateTypeOK' /\ acked \subseteq Load(file).kept
  BY CommandType DEF SerialInv
<1>1. UNCHANGED <<file, temp, acked>>
  BY DEF CommandNext, Browse, Verify, ResetTrust, CommandFails, history
<1>2. \A p \in Processes : mem[p].kept \subseteq mem'[p].kept
  BY <1>0, MemoryUpdate
     DEF CommandNext, Browse, Verify, ResetTrust, CommandFails, Adds
<1>3. /\ task'[t] = Idle \/ (task'[t].step = "read" /\ task'[t].token = NoToken)
      /\ \A u \in Threads \ {t} : task'[u] = task[u]
  BY <1>0, TaskAfter DEF CommandNext, Browse, Verify, ResetTrust, CommandFails
<1>4. SerialAt(t)'
  BY <1>3 DEF SerialAt, Saving, At, Idle
<1>5. QED BY <1>0, <1>1, <1>2, <1>3, <1>4, QuietSerial

\* The steps of a save, while nobody else is in one.
LEMMA SaveSerial ==
    ASSUME Serial, Serial', SerialInv, NEW t \in Threads, SaveNext(t)
    PROVE  /\ SerialInv'
           /\ file' # file => file' \in Docs /\ Load(file).kept \subseteq file'.kept
<1>0. StateTypeOK /\ StateTypeOK' /\ SerialAt(t) /\ acked \subseteq Load(file).kept
  BY SaveType DEF SerialInv
<1>a. Load(file) \in Docs /\ Memory(t) \in Docs /\ Of[t] \in Processes
  BY <1>0, LoadType, MemoryUpdate
<1>b. UNCHANGED <<mem, history>>
  BY DEF SaveNext, ReadAndMerge, OpenTemp, WriteOpened, Replace, ReplaceFails, history
<1>c. SUFFICES /\ SerialAt(t)'
               /\ \/ file' = file
                  \/ file' \in Docs /\ Load(file).kept \subseteq file'.kept
               /\ \A u \in Threads \ {t} :
                     task'[u] = task[u] /\ (Saving(u) => UNCHANGED <<file, temp>>)
  <2>1. Load(file).kept \subseteq Load(file').kept
    BY <1>c, LoadFacts
  <2>2. ASSUME NEW u \in Threads PROVE SerialAt(u)'
    <3>1. CASE u # t
      BY <1>b, <1>c, <2>1, <3>1, OthersSerial
    <3>2. QED BY <1>c, <3>1
  <2>3. QED BY <1>0, <1>b, <1>c, <2>1, <2>2 DEF SerialInv, history
<1>1. CASE ReadAndMerge(t)
  <2> DEFINE doc == Merge(Load(file), Memory(t))
             next == [task[t] EXCEPT !.step = "open", !.doc = doc]
  <2>1. task[t] \in Tasks
    BY <1>0, <1>1, BusyTask DEF ReadAndMerge, Steps
  <2>2. next.step = "open" /\ next.doc = doc /\ next.token = task[t].token
    <3> HIDE DEF doc
    <3>1. QED BY <2>1 DEF Tasks
  <2>3. /\ task'[t] = next /\ UNCHANGED <<file, temp>>
        /\ \A u \in Threads \ {t} : task'[u] = task[u]
    BY <1>0, <1>1 DEF ReadAndMerge, StateTypeOK
  <2>4. doc.kept = Load(file).kept \cup Memory(t).kept
    BY <1>a, MergeType
  <2>5. task[t].token # NoToken => task[t].token \in Memory(t).kept
    BY <1>0, <1>1 DEF ReadAndMerge, SerialAt
  <2> HIDE DEF next, doc
  <2>6. SerialAt(t)'
    BY <2>2, <2>3, <2>4, <2>5 DEF SerialAt, Saving, At
  <2>7. QED BY <2>3, <2>6
<1>2. ASSUME Saving(t) PROVE \A u \in Threads \ {t} : ~Saving(u)
  BY <1>2 DEF Serial
<1>3. CASE OpenTemp(t)
  <2> DEFINE next == [task[t] EXCEPT !.step = "write", !.target = "temp"]
  <2>1. task[t] \in Tasks /\ Saving(t)
    BY <1>0, <1>3, BusyTask DEF OpenTemp, Steps, Saving, At
  <2>2. next.step = "write" /\ next.target = "temp" /\ next.doc = task[t].doc
           /\ next.token = task[t].token
    BY <2>1 DEF Tasks
  <2>3. /\ task'[t] = next /\ file' = file /\ temp' = Empty
        /\ \A u \in Threads \ {t} : task'[u] = task[u]
    BY <1>0, <1>3 DEF OpenTemp, StateTypeOK
  <2> HIDE DEF next
  <2>4. SerialAt(t)'
    BY <1>0, <2>1, <2>2, <2>3 DEF SerialAt, Saving, At
  <2>5. QED BY <1>2, <2>1, <2>3, <2>4
<1>4. CASE WriteOpened(t)
  <2>1. task[t] \in Tasks /\ Saving(t) /\ At(t, "write")
    BY <1>0, <1>4, BusyTask DEF WriteOpened, Steps, Saving, At
  <2>2. task[t].target = "temp" /\ temp = Empty
    BY <1>0, <2>1 DEF SerialAt
  <2>3. file' = file /\ temp' = task[t].doc
    BY <1>4, <2>2 DEF WriteOpened, Overwritten
  <2>4. /\ task'[t].step = "replace" /\ task'[t].doc = task[t].doc
        /\ task'[t].token = task[t].token
        /\ \A u \in Threads \ {t} : task'[u] = task[u]
    <3>1. Goto(t, "replace")
      BY <1>4 DEF WriteOpened
    <3>2. /\ task'[t] = [task[t] EXCEPT !.step = "replace"]
          /\ \A u \in Threads \ {t} : task'[u] = task[u]
      BY <1>0, <2>1, <3>1, TaskAfter
    <3>3. QED BY <2>1, <3>2 DEF Tasks
  <2>5. SerialAt(t)'
    BY <1>0, <2>1, <2>3, <2>4 DEF SerialAt, Saving, At
  <2>6. QED BY <1>2, <2>1, <2>3, <2>4, <2>5
<1>5. CASE Replace(t)
  <2>1. task[t] \in Tasks /\ Saving(t) /\ At(t, "replace") /\ task[t].doc \in Docs
    BY <1>0, <1>5, BusyTask DEF Replace, Steps, Saving, At, Tasks
  <2>2. file' = task[t].doc /\ Load(file).kept \subseteq task[t].doc.kept
    BY <1>0, <1>5, <2>1 DEF Replace, SerialAt
  <2>3. Load(file') = file'
    BY <2>1, <2>2, LoadFacts
  <2>4. ASSUME NEW u \in Threads \ {t} PROVE task'[u] = task[u] /\ ~Saving(u)
    <3>1. ~Saving(u)
      BY <1>2, <2>1
    <3>2. ~At(u, "write")
      BY <3>1 DEF Saving, At
    <3>3. QED BY <1>5, <3>1, <3>2 DEF Replace
  <2>5. SerialAt(t)'
    <3>1. CASE task[t].token = NoToken
      <4>1. task'[t] = Idle
        BY <1>5, <3>1 DEF Replace
      <4>2. QED BY <4>1 DEF SerialAt, Saving, At, Idle
    <3>2. CASE task[t].token # NoToken
      <4>1. task'[t] = [task[t] EXCEPT !.step = "ack"]
        BY <1>5, <3>2 DEF Replace
      <4>2. task'[t].step = "ack" /\ task'[t].token = task[t].token
        BY <2>1, <4>1 DEF Tasks
      <4>3. task[t].token \in Load(file').kept
        BY <1>0, <2>1, <2>2, <2>3, <3>2 DEF SerialAt
      <4>4. QED BY <4>2, <4>3 DEF SerialAt, Saving, At
    <3>3. QED BY <3>1, <3>2
  <2>6. QED BY <2>1, <2>2, <2>4, <2>5
<1>6. CASE ReplaceFails(t)
  <2>1. /\ task'[t] = Idle /\ UNCHANGED <<file, temp>>
        /\ \A u \in Threads \ {t} : task'[u] = task[u]
    BY <1>0, <1>6, TaskAfter DEF ReplaceFails
  <2>2. QED BY <2>1 DEF SerialAt, Saving, At, Idle
<1>7. QED BY <1>1, <1>3, <1>4, <1>5, <1>6 DEF SaveNext

\* A process that is killed leaves what the others do alone.
LEMMA RestartSerial ==
    ASSUME SerialInv, NEW p \in Processes, RestartProcess(p)
    PROVE  SerialInv'
<1>0. StateTypeOK /\ StateTypeOK'
  BY RestartType DEF SerialInv
<1>1. UNCHANGED <<file, temp, acked>>
  BY DEF RestartProcess, history
<1>2. ASSUME NEW u \in Threads PROVE SerialAt(u)'
  <2>1. CASE Of[u] = p
    <3>1. task'[u] = Idle
      BY <2>1 DEF RestartProcess, StopAll
    <3>2. QED BY <3>1 DEF SerialAt, Saving, At, Idle
  <2>2. CASE Of[u] # p
    <3>1. task'[u] = task[u] /\ mem'[Of[u]] = mem[Of[u]]
      BY <1>0, <2>2, MemoryUpdate DEF RestartProcess, StopAll, StateTypeOK
    <3>2. QED BY <1>1, <3>1, OthersSerial
  <2>3. QED BY <2>1, <2>2
<1>3. QED BY <1>0, <1>1, <1>2 DEF SerialInv

LEMMA SerialInductive ==
    ASSUME Serial, Serial', SerialInv, [StateNext]_stateVars
    PROVE  /\ SerialInv'
           /\ file' # file => file' \in Docs /\ Load(file).kept \subseteq file'.kept
<1>1. CASE UNCHANGED stateVars
  BY <1>1, TypeInductive DEF stateVars, history, SerialInv, SerialAt, Saving, At, Memory
<1>2. ASSUME NEW t \in Listeners, PushNext(t) \/ \E token \in Tokens : Receive(t, token)
      PROVE  SerialInv' /\ file' = file
  BY <1>2, PushSerial
     DEF Threads, PushNext, Receive, Classify, Refuse, Show, Ack, AckFails
<1>3. ASSUME NEW t \in Mains, CommandNext(t) PROVE SerialInv' /\ file' = file
  BY <1>3, CommandSerial DEF Threads, CommandNext, Browse, Verify, ResetTrust, CommandFails
<1>4. ASSUME NEW p \in Processes, RestartProcess(p) PROVE SerialInv' /\ file' = file
  BY <1>4, RestartSerial DEF RestartProcess
<1>5. QED BY <1>1, <1>2, <1>3, <1>4, SaveSerial DEF StateNext

LEMMA SerialInit == StateInit => SerialInv
  BY TypeInit DEF StateInit, SerialInv, SerialAt, Saving, At, Idle

LEMMA SerialInvariance == StateSpec /\ []Serial => []SerialInv
<1>1. Serial /\ Serial' /\ SerialInv /\ [StateNext]_stateVars => SerialInv'
  BY SerialInductive
<1>2. QED BY SerialInit, <1>1, PTL DEF StateSpec

\* In every run in which no two saves overlap, with any number of processes and threads,
\* a save removes nothing from the merged sections of the file, and no process finds the
\* file missing or damaged once there is one: what StoredIsKept needs of the code is a
\* lock around save_state, and nothing else.
THEOREM StoredWhenSerial ==
    StateSpec /\ []Serial => StoredIsKept /\ [][file' # file => file' \in Docs]_stateVars
<1>1. Serial /\ Serial' /\ SerialInv /\ [StateNext]_stateVars
         => [Load(file).kept \subseteq Load(file').kept]_stateVars
  BY SerialInductive, LoadFacts
<1>2. Serial /\ Serial' /\ SerialInv /\ [StateNext]_stateVars
         => [file' # file => file' \in Docs]_stateVars
  BY SerialInductive
<1>3. StateSpec /\ []Serial => [][Load(file).kept \subseteq Load(file').kept]_stateVars
  BY <1>1, SerialInvariance, PTL DEF StateSpec
<1>4. StateSpec /\ []Serial => [][file' # file => file' \in Docs]_stateVars
  BY <1>2, SerialInvariance, PTL DEF StateSpec
<1>5. QED BY <1>3, <1>4 DEF StoredIsKept

\* In such a run a message is acknowledged to the server only when the file records its
\* token, and the record stays: a process that is launched later does not show it again
\* (_handle_event saves before it acknowledges).
THEOREM AckedIsStored == StateSpec /\ []Serial => [](acked \subseteq Load(file).kept)
<1>1. SerialInv => acked \subseteq Load(file).kept
  BY DEF SerialInv
<1>2. QED BY <1>1, SerialInvariance, PTL

\* When one thread saves, no two saves overlap, and what is stored stays.
THEOREM StoredStays == ASSUME OneThread PROVE StateSpec => StoredIsKept
<1>1. Serial
  BY DEF OneThread, Serial
<1>2. QED BY <1>1, StoredWhenSerial, PTL

=============================================================================
