----------------------------- MODULE PeerTrust ------------------------------
(***************************************************************************)
(* The trust a client process keeps in memory for one peer of its user     *)
(* (client/e2ee_client.py, and the commands of client/cli.py that use it): *)
(* the peer's trusted key, pinned on first use, the verified record and    *)
(* the record of a re-verification due after reset-trust.                  *)
(*                                                                         *)
(* Main runs the commands; a listener thread decrypts what is pushed to    *)
(* it; the three stores are plain dictionaries without a lock.  Another    *)
(* thread may run at every request to the server and between the writes    *)
(* to two stores.  Meanwhile the peer may publish another key.  When the   *)
(* state is saved and what a relaunch finds is ClientState's subject.      *)
(***************************************************************************)
EXTENDS Naturals

CONSTANTS Keys,       \* identity public keys the peer may publish
          NoKey,      \* no record, or nothing published
          Main,       \* the thread that reads commands
          Listeners   \* WebSocket threads

ASSUME TrustAssumption == NoKey \notin Keys /\ Main \notin Listeners

Threads == {Main} \cup Listeners
KeyOrNone == Keys \cup {NoKey}

\* The step a thread does next, the trusted key it has read and the key the server
\* returned to it.
Steps == {"fetch", "remember", "clean", "gate", "use", "confirm", "lift", "withdraw",
          "require", "report"}
Ops == {"send", "decrypt", "verify", "reset", "status"}
Tasks == [op : Ops, step : Steps, known : KeyOrNone, current : KeyOrNone]
Idle == [step |-> "idle"]

VARIABLES serverKey,  \* the peer's active key on the server
          trusted,    \* trusted_peer_keys of the peer
          verified,   \* verified_peer_keys
          reverify,   \* reverify_required_peer_keys
          task        \* what each thread is doing

stores == <<trusted, verified, reverify>>
trustVars == <<serverKey, stores, task>>

-----------------------------------------------------------------------------
\* The stores as a process loads them.  A file saved in the middle of verify has both
\* records; that none is about a peer without a trusted key assumes that no write came
\* between the three stores while the file was written.
TrustInit ==
    /\ serverKey \in KeyOrNone
    /\ trusted \in KeyOrNone /\ verified \in KeyOrNone /\ reverify \in KeyOrNone
    /\ trusted = NoKey => verified = NoKey /\ reverify = NoKey
    /\ task = [t \in Threads |-> Idle]

\* The peer logs in on a new installation, or republishes its key.
PublishKey(k) ==
    /\ serverKey' = k
    /\ UNCHANGED <<stores, task>>

Goto(t, next) == task' = [task EXCEPT ![t] = next]
At(t, step) == task[t].step = step
Start(op, step) == [op |-> op, step |-> step, known |-> trusted, current |-> NoKey]

\* send, fingerprint, verify and reset-trust ask the server first.
Command(op) ==
    /\ At(Main, "idle")
    /\ Goto(Main, Start(op, "fetch"))
    /\ UNCHANGED <<serverKey, stores>>

\* decrypt asks the server only about a peer without a trusted key.
Decrypt(t) ==
    /\ At(t, "idle")
    /\ Goto(t, Start("decrypt", IF trusted = NoKey THEN "fetch" ELSE "gate"))
    /\ UNCHANGED <<serverKey, stores>>

\* What a handler does with the server's answer `key` when it knows `known`.
AfterFetch(op, known, key) ==
    CASE op = "status" -> "report"
      [] op = "reset" \/ op = "decrypt" \/ known = NoKey -> "remember"
      [] known # NoKey /\ known # key -> "idle"
      [] op = "send" /\ known = key -> "gate"
      [] op = "verify" /\ known = key -> "confirm"

\* Mutant: an answer without a key is taken for one.
AnyAnswer == TRUE

\* The server has a key to return.
Published == serverKey # NoKey

\* _fetch_remote_identity.  verify looks up the trusted key after the request, the
\* others before it.
Fetch(t) ==
    /\ At(t, "fetch")
    /\ Published
    /\ LET known == IF task[t].op = "verify" THEN trusted ELSE task[t].known
           step == AfterFetch(task[t].op, known, serverKey)
       IN  Goto(t, IF step = "idle" THEN Idle
                   ELSE [task[t] EXCEPT !.step = step, !.known = known,
                                        !.current = serverKey])
    /\ UNCHANGED <<serverKey, stores>>

\* The request fails, or the peer has published nothing.
FetchFails(t) ==
    /\ At(t, "fetch")
    /\ Goto(t, Idle)
    /\ UNCHANGED <<serverKey, stores>>

Remember(t) ==
    /\ At(t, "remember")
    /\ trusted' = task[t].current
    /\ Goto(t, [task[t] EXCEPT !.step = "clean"])
    /\ UNCHANGED <<serverKey, verified, reverify>>

\* A record is dropped unless it is about `key`.
KeepIf(record, key) == IF record = key THEN record ELSE NoKey

\* The end of _remember_trusted_peer returns what is trusted by then.
Clean(t) ==
    /\ At(t, "clean")
    /\ verified' = KeepIf(verified, task[t].current)
    /\ reverify' = KeepIf(reverify, task[t].current)
    /\ LET op == task[t].op
           step == CASE op \in {"send", "decrypt"} -> "use"
                     [] op = "reset" -> "withdraw"
                     [] op = "verify" /\ trusted = task[t].current -> "confirm"
                     [] OTHER -> "idle"
       IN  Goto(t, IF step = "idle" THEN Idle
                   ELSE [task[t] EXCEPT !.step = step, !.known = trusted])
    /\ UNCHANGED <<serverKey, trusted>>

\* Mutant: the record of a re-verification is read and ignored.
NeverRefused(known) == FALSE

Refused(known) == reverify = known

\* _get_verified_peer, _get_reverify_required_peer and the refusal of send and decrypt.
Gate(t) ==
    /\ At(t, "gate")
    /\ verified' = KeepIf(verified, task[t].known)
    /\ reverify' = KeepIf(reverify, task[t].known)
    /\ Goto(t, IF Refused(task[t].known) THEN Idle ELSE [task[t] EXCEPT !.step = "use"])
    /\ UNCHANGED <<serverKey, trusted>>

\* The message is encrypted or decrypted with the key.
UseKey(t) ==
    /\ At(t, "use")
    /\ Goto(t, Idle)
    /\ UNCHANGED <<serverKey, stores>>

\* mark_peer_verified puts the verified record ...
Confirm ==
    /\ At(Main, "confirm")
    /\ verified' = task[Main].known
    /\ Goto(Main, [task[Main] EXCEPT !.step = "lift"])
    /\ UNCHANGED <<serverKey, trusted, reverify>>

\* ... and then drops the re-verification; verify goes on to show the status.
Lift ==
    /\ At(Main, "lift")
    /\ reverify' = NoKey
    /\ Goto(Main, Start("status", "fetch"))
    /\ UNCHANGED <<serverKey, trusted, verified>>

\* Mutant: reset-trust leaves the verified record to _remember_trusted_peer.
WithdrawNothing ==
    /\ At(Main, "withdraw")
    /\ Goto(Main, [task[Main] EXCEPT !.step = "require"])
    /\ UNCHANGED <<serverKey, stores>>

\* reset_peer_trust drops the verified record ...
Withdraw ==
    /\ At(Main, "withdraw")
    /\ verified' = NoKey
    /\ Goto(Main, [task[Main] EXCEPT !.step = "require"])
    /\ UNCHANGED <<serverKey, trusted, reverify>>

\* ... and then puts the re-verification; reset-trust goes on to show the status.
Require ==
    /\ At(Main, "require")
    /\ reverify' = task[Main].known
    /\ Goto(Main, Start("status", "fetch"))
    /\ UNCHANGED <<serverKey, trusted, verified>>

\* get_peer_verification_status after its request.
Report(t) ==
    /\ At(t, "report")
    /\ verified' = KeepIf(verified, task[t].known)
    /\ reverify' = KeepIf(reverify, task[t].known)
    /\ Goto(t, Idle)
    /\ UNCHANGED <<serverKey, trusted>>

-----------------------------------------------------------------------------
ThreadNext(t) ==
    \/ Decrypt(t) \/ Fetch(t) \/ FetchFails(t) \/ Remember(t) \/ Clean(t)
    \/ Gate(t) \/ UseKey(t) \/ Report(t)

TrustNext ==
    \/ \E k \in Keys : PublishKey(k)
    \/ \E op \in Ops \ {"decrypt"} : Command(op)
    \/ \E t \in Threads : ThreadNext(t)
    \/ Confirm \/ Lift \/ Withdraw \/ Require

TrustSpec == TrustInit /\ [][TrustNext]_trustVars

\* A thread that has begun goes on; a request returns or fails.
FairTrustSpec ==
    /\ TrustSpec
    /\ \A t \in Threads : WF_trustVars(ThreadNext(t) /\ ~At(t, "idle"))
    /\ WF_trustVars(Confirm \/ Lift \/ Withdraw \/ Require)

-----------------------------------------------------------------------------
(* Properties *)

\* Main is in the middle of one of the commands.
Running(ops) == ~At(Main, "idle") /\ task[Main].op \in ops

\* Every variable has its type, what is about to be trusted is a key, and there is
\* no record about a peer without a trusted key.
TrustTypeOK ==
    /\ {serverKey, trusted, verified, reverify} \subseteq KeyOrNone
    /\ trusted = NoKey => verified = NoKey /\ reverify = NoKey
    /\ task \in [Threads -> Tasks \cup {Idle}]
    /\ \A t \in Threads : task[t].step \in {"remember", "clean"}
                            => task[t].current \in Keys

BothStand == verified # NoKey /\ reverify # NoKey

\* A peer that is verified while its messages are blocked until it is verified: the two
\* records come to stand together only between the two writes of verify, where a
\* listener or a save of its state may see them, and neither verify nor reset-trust
\* leaves them so, whatever keys the peer publishes, whatever the file held and
\* whatever other threads delete in between.
OneRecordLeft ==
    [][BothStand' => \/ At(Main, "lift")'
                     \/ BothStand /\ task[Main].step \notin {"lift", "require"}]_trustVars

\* A command never encrypts or decrypts with a key that must be verified again
\* first, neither on the path of a pinned key nor on that of a first use.
CommandsAreGated == At(Main, "use") => reverify = NoKey \/ reverify # task[Main].known

\* What the trust model of the documentation says (with a listener thread the code
\* does not do it): once a key is pinned, only reset-trust replaces it.
PinnedUntilReset ==
    [][trusted # NoKey /\ trusted' # trusted => Running({"reset"})]_trustVars

\* What the documentation of reset-trust says (with a listener thread the code does
\* not do it): the re-verification a reset requires stays due until verify or
\* another reset.
ReverifyUntilVerified ==
    [][reverify # NoKey /\ reverify = trusted /\ reverify' # reverify
          => Running({"verify", "reset"})]_trustVars

=============================================================================
