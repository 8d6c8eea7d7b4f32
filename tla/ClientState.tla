---------------------------- MODULE ClientState -----------------------------
(***************************************************************************)
(* client_state.json: what the CLI processes launched from one checkout    *)
(* keep in memory, how client/state.py saves it, and the handling of       *)
(* pushed messages in client/cli.py that relies on it (a message is shown  *)
(* as new once, and acknowledged after it has been recorded and saved).    *)
(*                                                                         *)
(* A process is the thread that reads commands and WebSocket threads; they *)
(* share its memory without a lock.  save_state reads the file and merges, *)
(* opens the temporary file (which truncates it), writes it and renames    *)
(* it; the temporary file has one name for all threads and processes.  A   *)
(* writer keeps its open file through a rename (POSIX).                    *)
(*                                                                         *)
(* The sections that save_state merges are one set, `kept`: replay tokens, *)
(* and the keys and secrets the commands add, are its entries.  The        *)
(* sections it overwrites are the set `verified` of peers with a record.   *)
(***************************************************************************)
EXTENDS Naturals

CONSTANTS Processes,
          Mains,      \* threads that read commands
          Listeners,  \* WebSocket threads
          Of,         \* the process of a thread
          Tokens,     \* entries of the merged sections: replay tokens
          Peers,
          NoToken, NoFile, Empty, Garbled

Threads == Mains \cup Listeners

\* What a readable file says, and what a process has in memory.
Docs == [kept : SUBSET Tokens, verified : SUBSET Peers]

ASSUME StateAssumption ==
    /\ Of \in [Threads -> Processes]
    /\ NoToken \notin Tokens
    /\ Docs \cap {NoFile, Empty, Garbled} = {}

DefaultDoc == [kept |-> {}, verified |-> {}]

\* What the name of a file may lead to.
Contents == Docs \cup {NoFile, Empty, Garbled}

\* The step a thread does next, the token of the push it handles, the document it
\* saves, and where the file it has opened for writing is now.
Steps == {"classify", "show", "read", "open", "write", "replace", "ack"}
Targets == {"temp", "file", "gone"}
Tasks == [step : Steps, token : Tokens \cup {NoToken}, doc : Docs, target : Targets]
Idle == [step |-> "idle"]

VARIABLES mem,    \* self.state of each process
          file,   \* client_state.json
          temp,   \* client_state.json.tmp
          task,   \* what each thread is doing
          shown,  \* history: tokens of the messages shown as new
          acked,  \* history: tokens of the recorded messages acknowledged
          reset   \* history: peers whose verification the user has withdrawn

history == <<shown, acked, reset>>
stateVars == <<mem, file, temp, task, history>>

-----------------------------------------------------------------------------
\* Mutant: load_state expects the file to be there and readable.
LoadRaw(content) == content

\* _read_state_from_disk.
Load(content) == IF content \in Docs THEN content ELSE DefaultDoc

\* save_state: the first sections are united, the others taken from memory.
Merge(doc, m) == [kept |-> doc.kept \cup m.kept, verified |-> m.verified]

\* A write over what another thread wrote leaves the longer text's end behind.
Overwritten(old, doc) == IF old = Empty THEN {doc} ELSE {doc, Garbled}

StateInit ==
    /\ file \in Docs \cup {NoFile}
    /\ mem = [p \in Processes |-> Load(file)]
    /\ temp = NoFile
    /\ task = [t \in Threads |-> Idle]
    /\ shown = {} /\ acked = {} /\ reset = {}

Memory(t) == mem[Of[t]]
At(t, step) == task[t].step = step
Goto(t, step) == task' = [task EXCEPT ![t].step = step]
Stop(t) == task' = [task EXCEPT ![t] = Idle]
Begin(t, step, token) ==
    task' = [task EXCEPT ![t] = [step |-> step, token |-> token,
                                 doc |-> DefaultDoc, target |-> "gone"]]

\* A new_message event.  The server pushes a message again until it is acknowledged,
\* on every socket, and a push may be late.
Receive(t, token) ==
    /\ At(t, "idle")
    /\ Begin(t, "classify", token)
    /\ UNCHANGED <<mem, file, temp, history>>

\* decrypt_message_for_user and _classify_replay_token: a token in memory is a
\* duplicate, another is recorded.
Classify(t) ==
    /\ At(t, "classify")
    /\ IF task[t].token \in Memory(t).kept
       THEN Goto(t, "read") /\ UNCHANGED mem
       ELSE /\ Goto(t, "show")
            /\ mem' = [mem EXCEPT ![Of[t]].kept = @ \cup {task[t].token}]
    /\ UNCHANGED <<file, temp, history>>

\* The message has expired, or is blocked or unreadable: a notice is shown, and memory
\* is saved all the same.  (So is the message acknowledged, which changes nothing
\* here: the token is not recorded and is dropped.)
Refuse(t) ==
    /\ At(t, "classify")
    /\ Begin(t, "read", NoToken)
    /\ UNCHANGED <<mem, file, temp, history>>

\* Mutant: the message is acknowledged before the state is saved.
ShowThenAck(t) ==
    /\ At(t, "show")
    /\ shown' = shown \cup {task[t].token}
    /\ Goto(t, "ack")
    /\ UNCHANGED <<mem, file, temp, acked, reset>>

Show(t) ==
    /\ At(t, "show")
    /\ shown' = shown \cup {task[t].token}
    /\ Goto(t, "read")
    /\ UNCHANGED <<mem, file, temp, acked, reset>>

\* The commands change memory and then save it: open and more record the tokens they
\* meet, verify and reset-trust change the record of a peer, and register, login and
\* the others add what is merged.
Browse(t, token) ==
    /\ At(t, "idle")
    /\ mem' = [mem EXCEPT ![Of[t]].kept = @ \cup {token}]
    /\ Begin(t, "read", NoToken)
    /\ UNCHANGED <<file, temp, history>>

Verify(t, peer) ==
    /\ At(t, "idle")
    /\ mem' = [mem EXCEPT ![Of[t]].verified = @ \cup {peer}]
    /\ Begin(t, "read", NoToken)
    /\ UNCHANGED <<file, temp, history>>

ResetTrust(t, peer) ==
    /\ At(t, "idle")
    /\ mem' = [mem EXCEPT ![Of[t]].verified = @ \ {peer}]
    /\ reset' = reset \cup {peer}
    /\ Begin(t, "read", NoToken)
    /\ UNCHANGED <<file, temp, shown, acked>>

\* A later request of the command fails, before it saves.
CommandFails(t) ==
    /\ At(t, "read")
    /\ task[t].token = NoToken
    /\ Stop(t)
    /\ UNCHANGED <<mem, file, temp, history>>

-----------------------------------------------------------------------------
(* save_state *)

ReadAndMerge(t) ==
    /\ At(t, "read")
    /\ task' = [task EXCEPT ![t] = [@ EXCEPT !.step = "open",
                                             !.doc = Merge(Load(file), Memory(t))]]
    /\ UNCHANGED <<mem, file, temp, history>>

\* Mutant: client_state.json itself is opened for writing.
OpenInPlace(t) ==
    /\ At(t, "open")
    /\ file' = Empty
    /\ temp' = Empty
    /\ task' = [task EXCEPT ![t] = [@ EXCEPT !.step = "write", !.target = "temp"]]
    /\ UNCHANGED <<mem, history>>

OpenTemp(t) ==
    /\ At(t, "open")
    /\ temp' = Empty
    /\ task' = [task EXCEPT ![t] = [@ EXCEPT !.step = "write", !.target = "temp"]]
    /\ UNCHANGED <<mem, file, history>>

WriteOpened(t) ==
    /\ At(t, "write")
    /\ \/ /\ task[t].target = "temp"
          /\ temp' \in Overwritten(temp, task[t].doc)
          /\ UNCHANGED file
       \/ /\ task[t].target = "file"
          /\ file' \in Overwritten(file, task[t].doc)
          /\ UNCHANGED temp
       \/ /\ task[t].target = "gone"
          /\ UNCHANGED <<file, temp>>
    /\ Goto(t, "replace")
    /\ UNCHANGED <<mem, history>>

\* Where an open file is after a rename of the temporary file.
Renamed(target) == IF target = "temp" THEN "file" ELSE "gone"

Replace(t) ==
    /\ At(t, "replace")
    /\ temp # NoFile
    /\ file' = temp
    /\ temp' = NoFile
    /\ task' = [u \in Threads |->
                  CASE u = t /\ task[t].token = NoToken -> Idle
                    [] u = t /\ task[t].token # NoToken -> [task[t] EXCEPT !.step = "ack"]
                    [] u # t /\ At(u, "write")
                         -> [task[u] EXCEPT !.target = Renamed(task[u].target)]
                    [] OTHER -> task[u]]
    /\ UNCHANGED <<mem, history>>

\* FileNotFoundError; a push is then not acknowledged.
ReplaceFails(t) ==
    /\ At(t, "replace")
    /\ temp = NoFile
    /\ Stop(t)
    /\ UNCHANGED <<mem, file, temp, history>>

Ack(t) ==
    /\ At(t, "ack")
    /\ acked' = acked \cup {task[t].token}
    /\ Stop(t)
    /\ UNCHANGED <<mem, file, temp, shown, reset>>

AckFails(t) ==
    /\ At(t, "ack")
    /\ Stop(t)
    /\ UNCHANGED <<mem, file, temp, history>>

-----------------------------------------------------------------------------
StopAll(p) == task' = [t \in Threads |-> IF Of[t] = p THEN Idle ELSE task[t]]

\* Mutant: normalize_state leaves a section out.
RestartForgetting(p) ==
    /\ mem' = [mem EXCEPT ![p] = [Load(file) EXCEPT !.verified = {}]]
    /\ StopAll(p)
    /\ UNCHANGED <<file, temp, history>>

\* Mutant: IMCli starts from default_state.
RestartBlank(p) ==
    /\ mem' = [mem EXCEPT ![p] = DefaultDoc]
    /\ StopAll(p)
    /\ UNCHANGED <<file, temp, history>>

\* The process exits or is killed at any point, and is launched again.
RestartProcess(p) ==
    /\ mem' = [mem EXCEPT ![p] = Load(file)]
    /\ StopAll(p)
    /\ UNCHANGED <<file, temp, history>>

PushNext(t) == Classify(t) \/ Refuse(t) \/ Show(t) \/ Ack(t) \/ AckFails(t)

SaveNext(t) ==
    ReadAndMerge(t) \/ OpenTemp(t) \/ WriteOpened(t) \/ Replace(t) \/ ReplaceFails(t)

CommandNext(t) ==
    \/ \E token \in Tokens : Browse(t, token)
    \/ \E peer \in Peers : Verify(t, peer) \/ ResetTrust(t, peer)
    \/ CommandFails(t)

StateNext ==
    \/ \E t \in Listeners : PushNext(t) \/ \E token \in Tokens : Receive(t, token)
    \/ \E t \in Mains : CommandNext(t)
    \/ \E t \in Threads : SaveNext(t)
    \/ \E p \in Processes : RestartProcess(p)

StateSpec == StateInit /\ [][StateNext]_stateVars

-----------------------------------------------------------------------------
(* Properties *)

\* Every variable has its type; in particular no process starts from a file that
\* is missing, empty or garbled as if it were a document, and what is shown or
\* acknowledged is a message.
StateTypeOK ==
    /\ mem \in [Processes -> Docs]
    /\ {file, temp} \subseteq Contents
    /\ task \in [Threads -> Tasks \cup {Idle}]
    /\ \A t \in Threads :
          task[t].step \in {"classify", "show", "ack"} => task[t].token \in Tokens
    /\ shown \subseteq Tokens /\ acked \subseteq Tokens
    /\ reset \subseteq Peers

\* With one process, whatever its threads do to the file between them, all that can be
\* read back from the file is still in memory: the next save that succeeds
\* repairs a damaged file.
MemoryHoldsFile ==
    \A p \in Processes : Load(file).kept \subseteq mem[p].kept

\* With one thread saving, the temporary file and the rename make a save atomic, also
\* when the process is killed inside it: the file goes from one merged document
\* to the next and is never seen empty.
SavesAreAtomic ==
    [][file' # file
          => \E p \in Processes : file' = Merge(Load(file), mem[p])]_stateVars

\* With one thread saving, a message that has been recorded and acknowledged is
\* never shown as new again, although the process may be killed at any point and
\* a push may be late: the acknowledgement comes after the save.
AckedIsNotShownAgain ==
    \A t \in Listeners : At(t, "show") => task[t].token \notin acked

\* What the documentation of the verification records says (with two processes the
\* code does not do it): saving merges, so that between two documents in the file a
\* verified record goes away only when the user has withdrawn it.
VerifiedIsKept ==
    [][{file, file'} \subseteq Docs => file.verified \ file'.verified \subseteq reset]_stateVars

\* What README.md says of logging out (when a listener saves at the same time the
\* code does not do it): a save never removes keys and secrets from the file.
StoredIsKept ==
    [][Load(file).kept \subseteq Load(file').kept]_stateVars

\* What the documentation of replay protection says (when the process is killed
\* between showing and saving the code does not do it): the content of a message
\* that has been shown is not shown again when the server pushes it again.
ShownOnce ==
    \A t \in Listeners : At(t, "show") => task[t].token \notin shown

=============================================================================
