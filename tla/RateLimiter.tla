---------------------------- MODULE RateLimiter -----------------------------
(***************************************************************************)
(* InMemoryRateLimiter of server/rate_limit.py: so many grants for a key   *)
(* within Window.  A handler on a worker thread reads the time before it   *)
(* takes the lock, so grants may be decided in another order than their   *)
(* time stamps; MaxDelay is how long a thread may be kept from the lock.   *)
(***************************************************************************)
EXTENDS Integers, Sequences, FiniteSetsExt

CONSTANTS Keys,      \* key_prefix:ip:identity
          Threads,   \* worker threads that run handlers
          Limit,     \* how many grants, by key: the routes differ
          Window,
          MaxDelay,  \* assumption: from time.time() to the lock
          MaxClock   \* bound: the clock stops here

ASSUME LimiterAssumption ==
    /\ Limit \in [Keys -> Nat \ {0}] /\ Window \in Nat \ {0}
    /\ MaxDelay \in Nat /\ MaxClock \in Nat

VARIABLES clock,
          events,   \* _events: the stamps kept for a key
          call,     \* what a thread is asking for
          granted   \* history: the stamps granted for a key since the start

limiterVars == <<events, call, granted>>

NoCall == [asks |-> FALSE]
Calls == [asks : {TRUE}, key : Keys, now : Nat]

\* popleft while the first stamp is out of the window.
Fresh(queue, now) ==
    LET recent == {i \in DOMAIN queue : queue[i] > now - Window}
    IN  IF recent = {} THEN <<>> ELSE SubSeq(queue, Min(recent), Len(queue))

QueueFor(t) == Fresh(events[call[t].key], call[t].now)

\* Mutant: one too many is let in.
OverFull(t) == Len(QueueFor(t)) > Limit[call[t].key]

\* Mutant: the request itself is counted before the comparison.
EarlyFull(t) == Len(QueueFor(t)) + 1 >= Limit[call[t].key]

Full(t) == Len(QueueFor(t)) >= Limit[call[t].key]

LimiterInit ==
    /\ clock = 0
    /\ events = [key \in Keys |-> <<>>]
    /\ call = [t \in Threads |-> NoCall]
    /\ granted = [key \in Keys |-> <<>>]

\* time.time() at the start of allow.
AskLimiter(t, key) ==
    /\ call[t] = NoCall
    /\ call' = [call EXCEPT ![t] = [asks |-> TRUE, key |-> key, now |-> clock]]
    /\ UNCHANGED <<clock, events, granted>>

\* The rest of allow, under the lock.
Grant(t) ==
    /\ call[t] # NoCall
    /\ ~Full(t)
    /\ events' = [events EXCEPT ![call[t].key] = Append(QueueFor(t), call[t].now)]
    /\ granted' = [granted EXCEPT ![call[t].key] = Append(@, call[t].now)]
    /\ call' = [call EXCEPT ![t] = NoCall]
    /\ UNCHANGED clock

Deny(t) ==
    /\ call[t] # NoCall
    /\ Full(t)
    /\ events' = [events EXCEPT ![call[t].key] = QueueFor(t)]
    /\ call' = [call EXCEPT ![t] = NoCall]
    /\ UNCHANGED <<clock, granted>>

\* A thread that has read the time comes to the lock within MaxDelay.
LimiterTick ==
    /\ clock < MaxClock
    /\ \A t \in Threads : call[t] # NoCall => clock < call[t].now + MaxDelay
    /\ clock' = clock + 1
    /\ UNCHANGED limiterVars

\* The limiter is in the memory of the server.
LimiterRestart ==
    /\ events' = [key \in Keys |-> <<>>]
    /\ call' = [t \in Threads |-> NoCall]
    /\ granted' = [key \in Keys |-> <<>>]
    /\ UNCHANGED clock

LimiterNext ==
    \/ \E t \in Threads : \/ \E key \in Keys : AskLimiter(t, key)
                          \/ Grant(t)
                          \/ Deny(t)
    \/ LimiterTick
    \/ LimiterRestart

LimiterSpec == LimiterInit /\ [][LimiterNext]_<<clock, limiterVars>>

-----------------------------------------------------------------------------
(* Properties *)

\* Every variable has its type, and the queue of a key never outgrows the limit.
LimiterTypeOK ==
    /\ clock \in Nat
    /\ events \in [Keys -> Seq(Nat)]
    /\ call \in [Threads -> Calls \cup {NoCall}]
    /\ granted \in [Keys -> Seq(Nat)]
    /\ \A key \in Keys : Len(events[key]) <= Limit[key]

\* Of any Limit + 1 grants for a key the last is later than the first by the window,
\* less what a thread may be delayed between reading the time and the lock:
\* stamps that come out of order shift the window and never widen it further.
GrantsAreSpaced ==
    \A key \in Keys : \A i, j \in DOMAIN granted[key] :
        j - i >= Limit[key] => granted[key][j] - granted[key][i] >= Window - MaxDelay

\* A request is refused only when the last Limit grants are recent, although a stamp
\* out of order may keep an older one behind it in the queue.
DenialIsDue ==
    \A t \in Threads : call[t] # NoCall /\ Full(t) =>
        LET grants == granted[call[t].key]
            first == Len(grants) - Limit[call[t].key] + 1
        IN  /\ first > 0
            /\ \A i \in first..Len(grants) :
                  grants[i] > call[t].now - Window - MaxDelay

=============================================================================
