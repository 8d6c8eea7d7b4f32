----------------------------- MODULE AuthProofs ------------------------------
(***************************************************************************)
(* Safety of the rate limiter for every limit, window and delay, and of    *)
(* the accounts and sessions that are behind it for every number of        *)
(* threads.                                                                *)
(***************************************************************************)
EXTENDS Auth, WellFoundedInduction, TLAPS

-----------------------------------------------------------------------------
(* The queue of a key *)

\* A nonempty set of naturals has a least element.
LEMMA LeastNatural ==
    ASSUME NEW T, T \subseteq Nat, T # {}
    PROVE  \E x \in T : \A y \in T : x <= y
  <1> DEFINE less == OpToRel(<, Nat)
  <1>1. \A x, y \in Nat : <<x, y>> \in less <=> x < y
    BY DEF OpToRel
  <1>2. PICK x \in T : \A y \in T : ~(<<y, x>> \in less)
    BY NatLessThanWellFounded, WFMin
  <1>3. \A y \in T : x \in Nat /\ y \in Nat /\ ~(y < x)
    BY <1>1, <1>2
  <1>4. QED
    BY <1>3

\* What popleft leaves: the longest suffix that starts with a recent stamp.
LEMMA FreshIsSuffix ==
    ASSUME LimiterAssumption, NEW queue \in Seq(Nat), NEW now \in Nat
    PROVE  LET kept == Fresh(queue, now)
               gone == Len(queue) - Len(kept)
           IN  /\ kept \in Seq(Nat) /\ gone \in Nat
               /\ \A i \in 1..Len(kept) : kept[i] = queue[gone + i]
               /\ \A i \in 1..gone : queue[i] <= now - Window
               /\ Len(kept) > 0 => kept[1] > now - Window
  <1> DEFINE recent == {i \in DOMAIN queue : queue[i] > now - Window}
  <1> USE DEF LimiterAssumption
  <1>1. CASE recent = {}
    BY <1>1 DEF Fresh
  <1>2. CASE recent # {}
    <2> DEFINE m == Min(recent)
    <2>1. m \in recent /\ \A y \in recent : m <= y
      <3>1. recent \subseteq Nat
        OBVIOUS
      <3>2. \E x \in recent : \A y \in recent : x <= y
        <4> HIDE DEF recent
        <4> QED
          BY <1>2, <3>1, LeastNatural
      <3>3. QED
        BY <3>2 DEF Min
    <2>2. m \in 1..Len(queue) /\ queue[m] > now - Window
      BY <2>1
    <2>3. Fresh(queue, now) = SubSeq(queue, m, Len(queue))
      BY <1>2 DEF Fresh
    <2>4. ASSUME NEW i \in 1..(m - 1) PROVE queue[i] <= now - Window
      <3>1. i \in DOMAIN queue /\ queue[i] \in Nat
        BY <2>2
      <3>2. i \notin recent
        <4> HIDE DEF m, recent
        <4> QED
          BY <2>1, <2>2
      <3>3. ~(queue[i] > now - Window)
        BY <3>1, <3>2
      <3>4. QED
        BY <3>1, <3>3
    <2> HIDE DEF m, recent
    <2>5. /\ Fresh(queue, now) \in Seq(Nat)
          /\ Len(Fresh(queue, now)) = Len(queue) - m + 1
          /\ \A i \in 1..(Len(queue) - m + 1) : Fresh(queue, now)[i] = queue[m + i - 1]
      BY <2>2, <2>3
    <2>6. Len(queue) - Len(Fresh(queue, now)) = m - 1 /\ m - 1 \in Nat
      BY <2>2, <2>5
    <2>7. \A i \in 1..Len(Fresh(queue, now)) : Fresh(queue, now)[i] = queue[(m - 1) + i]
      BY <2>2, <2>5
    <2>8. Len(Fresh(queue, now)) > 0 => Fresh(queue, now)[1] > now - Window
      BY <2>2, <2>7
    <2>9. QED
      BY <2>4, <2>5, <2>6, <2>7, <2>8
  <1>3. QED
    BY <1>1, <1>2

-----------------------------------------------------------------------------
(* Invariants of the limiter *)

\* How many grants of a key are no longer in its queue.
Dropped(key) == Len(granted[key]) - Len(events[key])

\* The queue holds the last grants, in the order they were given.
KeepsSuffix ==
    \A key \in Keys :
        /\ Dropped(key) \in Nat
        /\ \A i \in 1..Len(events[key]) : events[key][i] = granted[key][Dropped(key) + i]

DroppedAreOld ==
    \A key \in Keys : \A i \in 1..Dropped(key) : granted[key][i] + Window <= clock

CallsAreRecent ==
    \A t \in Threads : call[t] # NoCall =>
        call[t].now <= clock /\ clock <= call[t].now + MaxDelay

StampsHavePassed ==
    \A key \in Keys : \A i \in 1..Len(granted[key]) : granted[key][i] <= clock

\* Stamps are out of order by no more than a thread can be delayed.
NearlyOrdered ==
    \A key \in Keys : \A i, j \in 1..Len(granted[key]) :
        i < j => granted[key][j] >= granted[key][i] - MaxDelay

LimiterInv ==
    /\ LimiterTypeOK
    /\ KeepsSuffix /\ DroppedAreOld
    /\ CallsAreRecent /\ StampsHavePassed /\ NearlyOrdered
    /\ GrantsAreSpaced

\* An empty limiter satisfies the invariant.
LEMMA LimiterInitInv ==
    ASSUME LimiterAssumption, LimiterInit PROVE LimiterInv
  BY DEF LimiterAssumption, LimiterInit, LimiterInv, LimiterTypeOK, KeepsSuffix,
     DroppedAreOld, CallsAreRecent, StampsHavePassed, NearlyOrdered, GrantsAreSpaced,
     Dropped

\* The queue a thread finds under the lock is the end of what was granted, and what
\* is no longer in it has been out of the window for as long as threads are late.
LEMMA QueueFacts ==
    ASSUME LimiterAssumption, LimiterInv, NEW t \in Threads, call[t] # NoCall
    PROVE  LET key == call[t].key
               kept == QueueFor(t)
               gone == Len(granted[key]) - Len(kept)
           IN  /\ key \in Keys /\ call[t].now \in Nat
               /\ kept \in Seq(Nat) /\ gone \in Nat
               /\ \A i \in 1..Len(kept) : kept[i] = granted[key][gone + i]
               /\ \A i \in 1..gone : /\ granted[key][i] + Window <= clock
                                     /\ granted[key][i] + Window <= call[t].now + MaxDelay
               /\ Len(kept) > 0 => kept[1] > call[t].now - Window
               /\ Len(kept) <= Len(events[key])
  <1> DEFINE key == call[t].key
             now == call[t].now
             queue == events[key]
             kept == QueueFor(t)
             popped == Len(queue) - Len(kept)
             gone == Len(granted[key]) - Len(kept)
  <1> USE DEF LimiterAssumption
  <1>1. key \in Keys /\ now \in Nat /\ queue \in Seq(Nat) /\ granted[key] \in Seq(Nat)
    BY DEF LimiterInv, LimiterTypeOK, Calls
  <1>2. now <= clock /\ clock <= now + MaxDelay /\ clock \in Nat
    BY DEF LimiterInv, CallsAreRecent, LimiterTypeOK
  <1>3. /\ kept \in Seq(Nat) /\ popped \in Nat
        /\ \A i \in 1..Len(kept) : kept[i] = queue[popped + i]
        /\ \A i \in 1..popped : queue[i] <= now - Window
        /\ Len(kept) > 0 => kept[1] > now - Window
    BY <1>1, FreshIsSuffix DEF QueueFor
  <1>4. /\ Dropped(key) \in Nat
        /\ \A i \in 1..Len(queue) : queue[i] = granted[key][Dropped(key) + i]
        /\ \A i \in 1..Dropped(key) : granted[key][i] + Window <= clock
    BY <1>1 DEF LimiterInv, KeepsSuffix, DroppedAreOld
  <1>5. Dropped(key) = Len(granted[key]) - Len(queue)
    BY DEF Dropped
  <1> HIDE DEF kept, queue, key, now
  <1>6. gone = Dropped(key) + popped /\ gone \in Nat
    BY <1>1, <1>3, <1>4, <1>5
  <1> HIDE DEF popped, gone
  <1>7. \A i \in 1..Len(kept) : kept[i] = granted[key][gone + i]
    <2> TAKE i \in 1..Len(kept)
    <2>1. popped + i \in 1..Len(queue) /\ kept[i] = queue[popped + i]
      BY <1>1, <1>3 DEF popped
    <2>2. queue[popped + i] = granted[key][Dropped(key) + (popped + i)]
      BY <2>1, <1>4
    <2>3. Dropped(key) + (popped + i) = gone + i
      BY <1>6, <1>3, <1>4
    <2>4. QED
      BY <2>1, <2>2, <2>3
  <1>11. gone <= Len(granted[key]) /\ Len(granted[key]) \in Nat /\ popped <= Len(queue)
    BY <1>1, <1>3, <1>6 DEF gone, popped
  <1>8. \A i \in 1..gone : /\ granted[key][i] + Window <= clock
                           /\ granted[key][i] + Window <= now + MaxDelay
    <2> TAKE i \in 1..gone
    <2>1. granted[key][i] \in Nat
      BY <1>1, <1>6, <1>11
    <2>2. CASE i <= Dropped(key)
      <3>1. i \in 1..Dropped(key)
        BY <2>2, <1>4, <1>6
      <3>2. granted[key][i] + Window <= clock
        BY <3>1, <1>4
      <3>3. QED
        BY <3>2, <2>1, <1>1, <1>2
    <2>3. CASE i > Dropped(key)
      <3> DEFINE k == i - Dropped(key)
      <3>1. k \in 1..popped /\ Dropped(key) + k = i
        BY <2>3, <1>3, <1>4, <1>6
      <3> HIDE DEF k
      <3>2. k \in 1..Len(queue)
        BY <3>1, <1>1, <1>3, <1>11
      <3>3. queue[k] = granted[key][i] /\ queue[k] <= now - Window
        BY <3>1, <3>2, <1>3, <1>4
      <3>4. QED
        BY <3>3, <2>1, <1>1, <1>2
    <2>4. QED
      BY <2>2, <2>3, <1>4, <1>6
  <1>9. Len(kept) <= Len(queue)
    BY <1>1, <1>3 DEF popped
  <1>12. QED
    BY <1>1, <1>3, <1>6, <1>7, <1>8, <1>9 DEF key, now, kept, queue, gone

\* A thread that reads the time is not late yet.
LEMMA AskInv ==
    ASSUME LimiterAssumption, LimiterInv, NEW t \in Threads, NEW key \in Keys,
           AskLimiter(t, key)
    PROVE  LimiterInv'
  <1> USE DEF LimiterAssumption
  <1>1. /\ call' = [call EXCEPT ![t] = [asks |-> TRUE, key |-> key, now |-> clock]]
        /\ UNCHANGED <<clock, events, granted>>
    BY DEF AskLimiter
  <1>2. LimiterTypeOK'
    BY <1>1 DEF LimiterInv, LimiterTypeOK, Calls
  <1>3. CallsAreRecent'
    BY <1>1 DEF LimiterInv, LimiterTypeOK, CallsAreRecent
  <1>4. QED
    BY <1>1, <1>2, <1>3 DEF LimiterInv, KeepsSuffix, DroppedAreOld, StampsHavePassed,
       NearlyOrdered, GrantsAreSpaced, Dropped

\* A grant that takes the last place of the window is spaced from the one that left it.
LEMMA GrantInv ==
    ASSUME LimiterAssumption, LimiterInv, NEW t \in Threads, Grant(t)
    PROVE  LimiterInv'
  <1> USE DEF LimiterAssumption
  <1>1. PICK key \in Keys, now \in Nat, kept \in Seq(Nat), gone \in Nat :
           /\ key = call[t].key /\ now = call[t].now /\ kept = QueueFor(t)
           /\ gone = Len(granted[key]) - Len(kept)
           /\ \A i \in 1..Len(kept) : kept[i] = granted[key][gone + i]
           /\ \A i \in 1..gone : /\ granted[key][i] + Window <= clock
                                 /\ granted[key][i] + Window <= now + MaxDelay
    <2> DEFINE grants == granted[call[t].key]
    <2>1. /\ call[t].key \in Keys /\ call[t].now \in Nat
          /\ QueueFor(t) \in Seq(Nat) /\ Len(grants) - Len(QueueFor(t)) \in Nat
          /\ \A i \in 1..Len(QueueFor(t)) :
                QueueFor(t)[i] = grants[Len(grants) - Len(QueueFor(t)) + i]
          /\ \A i \in 1..(Len(grants) - Len(QueueFor(t))) :
                /\ grants[i] + Window <= clock
                /\ grants[i] + Window <= call[t].now + MaxDelay
      BY QueueFacts DEF Grant
    <2>2. QED
      BY <2>1
  <1>2. PICK old \in Seq(Nat) : old = granted[key]
    BY DEF LimiterInv, LimiterTypeOK
  <1>3. PICK new \in Seq(Nat) : new = Append(old, now)
    <2>1. Append(old, now) \in Seq(Nat)
      OBVIOUS
    <2>2. QED
      BY <2>1
  <1>4. Limit[key] \in Nat \ {0} /\ Len(kept) < Limit[key]
    <2>1. Limit[key] \in Nat \ {0} /\ Len(kept) \in Nat
      OBVIOUS
    <2>2. QED
      BY <1>1, <2>1 DEF Grant, Full
  <1>5. /\ events' = [events EXCEPT ![key] = Append(kept, now)]
        /\ granted' = [granted EXCEPT ![key] = new]
        /\ call' = [call EXCEPT ![t] = NoCall] /\ clock' = clock
    BY <1>1, <1>2, <1>3 DEF Grant
  <1>6. now <= clock /\ clock <= now + MaxDelay /\ clock \in Nat
    BY <1>1 DEF Grant, LimiterInv, LimiterTypeOK, CallsAreRecent
  <1>7. /\ events'[key] = Append(kept, now) /\ granted'[key] = new
        /\ \A other \in Keys \ {key} :
              events'[other] = events[other] /\ granted'[other] = granted[other]
    BY <1>5 DEF LimiterInv, LimiterTypeOK
  <1>8. PICK n \in Nat, k \in Nat :
           /\ n = Len(old) /\ k = Len(kept) /\ n = gone + k /\ Len(new) = n + 1
           /\ DOMAIN old = 1..n /\ DOMAIN new = 1..(n + 1)
    <2>1. Len(old) \in Nat /\ Len(kept) \in Nat
      OBVIOUS
    <2>2. Len(old) = gone + Len(kept)
      BY <1>1, <1>2, <2>1
    <2>3. Len(new) = Len(old) + 1
      BY <1>3
    <2>4. DOMAIN old = 1..Len(old) /\ DOMAIN new = 1..Len(new)
      OBVIOUS
    <2>5. QED
      BY <2>1, <2>2, <2>3, <2>4
  <1>9. /\ new[n + 1] = now
        /\ \A i \in 1..n : new[i] = old[i] /\ old[i] \in Nat
    BY <1>3, <1>8
  <1>10. /\ Append(kept, now) \in Seq(Nat) /\ Len(Append(kept, now)) = k + 1
         /\ \A i \in 1..k : Append(kept, now)[i] = kept[i]
         /\ Append(kept, now)[k + 1] = now
    BY <1>8
  <1>11. LimiterTypeOK'
    <2>1. Len(Append(kept, now)) <= Limit[key]
      BY <1>4, <1>8, <1>10
    <2>2. events' \in [Keys -> Seq(Nat)] /\ granted' \in [Keys -> Seq(Nat)]
      BY <1>5, <1>10 DEF LimiterInv, LimiterTypeOK
    <2>3. call' \in [Threads -> Calls \cup {NoCall}]
      BY <1>5 DEF LimiterInv, LimiterTypeOK
    <2>4. QED
      BY <2>1, <2>2, <2>3, <1>5, <1>7 DEF LimiterInv, LimiterTypeOK
  <1>12. Dropped(key)' = gone
    BY <1>7, <1>8, <1>10 DEF Dropped
  <1>13. ASSUME NEW other \in Keys \ {key} PROVE Dropped(other)' = Dropped(other)
    BY <1>7 DEF Dropped
  <1>14. KeepsSuffix'
    <2>1. ASSUME NEW i \in 1..(k + 1) PROVE Append(kept, now)[i] = new[gone + i]
      <3>1. CASE i \in 1..k
        <4>1. PICK x \in 1..n : x = gone + i
          BY <3>1, <1>8
        <4>2. kept[i] = old[x] /\ new[x] = old[x]
          BY <4>1, <3>1, <1>1, <1>2, <1>8, <1>9
        <4>3. Append(kept, now)[i] = kept[i]
          BY <3>1, <1>10
        <4>4. QED
          BY <4>1, <4>2, <4>3
      <3>2. CASE i = k + 1
        <4>1. gone + i = n + 1
          BY <3>2, <1>8
        <4>2. Append(kept, now)[i] = now
          BY <3>2, <1>10
        <4>3. new[gone + i] = now
          BY <4>1, <1>9
        <4>4. QED
          BY <4>2, <4>3
      <3>3. i \in 1..k \/ i = k + 1
        OBVIOUS
      <3>4. QED
        BY <3>1, <3>2, <3>3
    <2>2. Dropped(key)' \in Nat
          /\ \A i \in 1..Len(events'[key]) : events'[key][i] = granted'[key][Dropped(key)' + i]
      BY <2>1, <1>7, <1>10, <1>12
    <2>3. ASSUME NEW other \in Keys \ {key}
          PROVE  /\ Dropped(other)' \in Nat
                 /\ \A i \in 1..Len(events'[other]) :
                       events'[other][i] = granted'[other][Dropped(other)' + i]
      BY <1>7, <1>13 DEF KeepsSuffix, LimiterInv
    <2>4. QED
      BY <2>2, <2>3 DEF KeepsSuffix
  <1>15. DroppedAreOld'
    <2>1. ASSUME NEW i \in 1..gone PROVE new[i] + Window <= clock
      <3>1. i \in 1..n
        BY <1>8
      <3>2. QED
        BY <3>1, <1>1, <1>2, <1>9
    <2>2. QED
      BY <2>1, <1>5, <1>7, <1>12, <1>13 DEF DroppedAreOld, LimiterInv
  <1>16. CallsAreRecent'
    BY <1>5 DEF CallsAreRecent, LimiterInv, LimiterTypeOK
  <1>17. \A i \in 1..n : old[i] <= clock
    BY <1>2, <1>8 DEF StampsHavePassed, LimiterInv
  <1>18. StampsHavePassed'
    <2>1. ASSUME NEW i \in 1..(n + 1) PROVE new[i] <= clock
      <3>1. CASE i = n + 1
        BY <3>1, <1>6, <1>9
      <3>2. CASE i \in 1..n
        BY <3>2, <1>9, <1>17
      <3>3. QED
        BY <3>1, <3>2
    <2>2. QED
      BY <2>1, <1>5, <1>7, <1>8 DEF StampsHavePassed, LimiterInv
  <1>19. NearlyOrdered'
    <2>1. ASSUME NEW i \in 1..(n + 1), NEW j \in 1..(n + 1), i < j
          PROVE  new[j] >= new[i] - MaxDelay
      <3>1. i \in 1..n
        BY <2>1
      <3>2. CASE j \in 1..n
        <4>1. old[j] >= old[i] - MaxDelay
          BY <2>1, <3>1, <3>2, <1>2, <1>8 DEF NearlyOrdered, LimiterInv
        <4>2. QED
          BY <4>1, <3>1, <3>2, <1>9
      <3>3. CASE j = n + 1
        <4>1. old[i] \in Nat /\ old[i] <= clock /\ new[i] = old[i] /\ new[j] = now
          BY <3>1, <3>3, <1>9, <1>17
        <4>2. QED
          BY <4>1, <1>6
      <3>4. QED
        BY <3>2, <3>3
    <2>2. QED
      BY <2>1, <1>7, <1>8 DEF NearlyOrdered, LimiterInv
  <1>20. GrantsAreSpaced'
    <2>1. ASSUME NEW i \in 1..(n + 1), NEW j \in 1..(n + 1), j - i >= Limit[key]
          PROVE  new[j] - new[i] >= Window - MaxDelay
      <3>1. i \in 1..n
        BY <2>1, <1>4
      <3>2. CASE j \in 1..n
        <4>1. old[j] - old[i] >= Window - MaxDelay
          BY <2>1, <3>1, <3>2, <1>2, <1>8 DEF GrantsAreSpaced, LimiterInv
        <4>2. QED
          BY <4>1, <3>1, <3>2, <1>9
      <3>3. CASE j = n + 1
        <4>1. i \in 1..gone
          BY <2>1, <3>1, <3>3, <1>4, <1>8
        <4>2. old[i] + Window <= now + MaxDelay /\ old[i] \in Nat
          BY <4>1, <3>1, <1>1, <1>2, <1>9
        <4>3. new[i] = old[i] /\ new[j] = now
          BY <3>1, <3>3, <1>9
        <4>4. now - old[i] >= Window - MaxDelay
          BY <4>2
        <4>5. QED
          BY <4>3, <4>4
      <3>4. QED
        BY <3>2, <3>3
    <2>2. QED
      BY <2>1, <1>7, <1>8 DEF GrantsAreSpaced, LimiterInv
  <1>21. QED
    BY <1>11, <1>14, <1>15, <1>16, <1>18, <1>19, <1>20 DEF LimiterInv

\* A refusal only pops.
LEMMA DenyInv ==
    ASSUME LimiterAssumption, LimiterInv, NEW t \in Threads, Deny(t)
    PROVE  LimiterInv'
  <1> USE DEF LimiterAssumption
  <1>1. PICK key \in Keys, kept \in Seq(Nat), gone \in Nat :
           /\ key = call[t].key /\ kept = QueueFor(t)
           /\ gone = Len(granted[key]) - Len(kept)
           /\ \A i \in 1..Len(kept) : kept[i] = granted[key][gone + i]
           /\ \A i \in 1..gone : granted[key][i] + Window <= clock
           /\ Len(kept) <= Len(events[key])
    <2> DEFINE grants == granted[call[t].key]
    <2>1. /\ call[t].key \in Keys
          /\ QueueFor(t) \in Seq(Nat) /\ Len(grants) - Len(QueueFor(t)) \in Nat
          /\ \A i \in 1..Len(QueueFor(t)) :
                QueueFor(t)[i] = grants[Len(grants) - Len(QueueFor(t)) + i]
          /\ \A i \in 1..(Len(grants) - Len(QueueFor(t))) : grants[i] + Window <= clock
          /\ Len(QueueFor(t)) <= Len(events[call[t].key])
      BY QueueFacts DEF Deny
    <2>2. QED
      BY <2>1
  <1>2. /\ events' = [events EXCEPT ![key] = kept]
        /\ call' = [call EXCEPT ![t] = NoCall] /\ UNCHANGED <<clock, granted>>
    BY <1>1 DEF Deny
  <1>3. events'[key] = kept /\ \A other \in Keys \ {key} : events'[other] = events[other]
    BY <1>2 DEF LimiterInv, LimiterTypeOK
  <1>4. LimiterTypeOK'
    <2>1. Len(kept) <= Limit[key]
      <3>1. Len(events[key]) \in Nat /\ Len(events[key]) <= Limit[key] /\ Len(kept) \in Nat
        BY DEF LimiterInv, LimiterTypeOK
      <3>2. QED
        BY <3>1, <1>1
    <2>2. events' \in [Keys -> Seq(Nat)] /\ call' \in [Threads -> Calls \cup {NoCall}]
      BY <1>2 DEF LimiterInv, LimiterTypeOK
    <2>3. QED
      BY <2>1, <2>2, <1>2, <1>3 DEF LimiterInv, LimiterTypeOK
  <1>5. Dropped(key)' = gone
    BY <1>1, <1>2, <1>3 DEF Dropped
  <1>6. ASSUME NEW other \in Keys \ {key} PROVE Dropped(other)' = Dropped(other)
    BY <1>2, <1>3 DEF Dropped
  <1>7. KeepsSuffix'
    <2>1. Dropped(key)' \in Nat
          /\ \A i \in 1..Len(events'[key]) : events'[key][i] = granted'[key][Dropped(key)' + i]
      BY <1>1, <1>2, <1>3, <1>5
    <2>2. ASSUME NEW other \in Keys \ {key}
          PROVE  /\ Dropped(other)' \in Nat
                 /\ \A i \in 1..Len(events'[other]) :
                       events'[other][i] = granted'[other][Dropped(other)' + i]
      BY <1>2, <1>3, <1>6 DEF KeepsSuffix, LimiterInv
    <2>3. QED
      BY <2>1, <2>2 DEF KeepsSuffix
  <1>8. DroppedAreOld'
    BY <1>1, <1>2, <1>3, <1>5, <1>6 DEF DroppedAreOld, LimiterInv
  <1>9. CallsAreRecent'
    BY <1>2 DEF CallsAreRecent, LimiterInv, LimiterTypeOK
  <1>10. QED
    BY <1>2, <1>4, <1>7, <1>8, <1>9 DEF LimiterInv, StampsHavePassed, NearlyOrdered,
       GrantsAreSpaced

\* No thread that has read the time is made later than MaxDelay.
LEMMA LimiterTickInv ==
    ASSUME LimiterAssumption, LimiterInv, LimiterTick PROVE LimiterInv'
  <1> USE DEF LimiterAssumption
  <1>1. clock' = clock + 1 /\ clock \in Nat /\ UNCHANGED limiterVars
    BY DEF LimiterTick, LimiterInv, LimiterTypeOK
  <1>2. LimiterTypeOK' /\ KeepsSuffix' /\ NearlyOrdered' /\ GrantsAreSpaced'
    BY <1>1 DEF limiterVars, LimiterInv, LimiterTypeOK, KeepsSuffix, NearlyOrdered,
       GrantsAreSpaced, Dropped
  <1>3. CallsAreRecent'
    <2>1. ASSUME NEW t \in Threads, call[t] # NoCall
          PROVE  call[t].now <= clock + 1 /\ clock + 1 <= call[t].now + MaxDelay
      <3>1. call[t].now \in Nat
        BY <2>1 DEF LimiterInv, LimiterTypeOK, Calls
      <3>2. call[t].now <= clock /\ clock < call[t].now + MaxDelay
        BY <2>1 DEF LimiterTick, LimiterInv, CallsAreRecent
      <3>3. QED
        BY <3>1, <3>2, <1>1
    <2>2. QED
      BY <2>1, <1>1 DEF CallsAreRecent, limiterVars
  <1>4. DroppedAreOld' /\ StampsHavePassed'
    <2>1. ASSUME NEW key \in Keys, NEW i \in 1..Len(granted[key])
          PROVE  granted[key][i] \in Nat
      BY DEF LimiterInv, LimiterTypeOK
    <2>2. StampsHavePassed'
      BY <2>1, <1>1 DEF limiterVars, LimiterInv, StampsHavePassed
    <2>3. ASSUME NEW key \in Keys, NEW i \in 1..Dropped(key)
          PROVE  granted[key][i] + Window <= clock + 1
      <3>1. Len(events[key]) \in Nat /\ Len(granted[key]) \in Nat
        BY DEF LimiterInv, LimiterTypeOK
      <3>2. i \in 1..Len(granted[key])
        BY <3>1 DEF Dropped
      <3>3. granted[key][i] \in Nat /\ granted[key][i] + Window <= clock
        BY <2>1, <3>2 DEF LimiterInv, DroppedAreOld
      <3>4. QED
        BY <3>3, <1>1
    <2>4. QED
      BY <2>2, <2>3, <1>1 DEF limiterVars, DroppedAreOld, Dropped
  <1>5. QED
    BY <1>2, <1>3, <1>4 DEF LimiterInv

\* Every step of the limiter keeps its invariant.
LEMMA LimiterStepInv ==
    ASSUME LimiterAssumption, LimiterInv, [LimiterNext]_<<clock, limiterVars>>
    PROVE  LimiterInv'
  <1>1. CASE LimiterRestart
    BY <1>1 DEF LimiterRestart, LimiterAssumption, LimiterInv, LimiterTypeOK, KeepsSuffix,
       DroppedAreOld, CallsAreRecent, StampsHavePassed, NearlyOrdered, GrantsAreSpaced,
       Dropped
  <1>2. CASE UNCHANGED <<clock, limiterVars>>
    BY <1>2 DEF limiterVars, LimiterInv, LimiterTypeOK, KeepsSuffix,
       DroppedAreOld, CallsAreRecent, StampsHavePassed, NearlyOrdered, GrantsAreSpaced,
       Dropped
  <1>3. QED
    BY <1>1, <1>2, AskInv, GrantInv, DenyInv, LimiterTickInv DEF LimiterNext

\* A full queue holds the last grants, and its first stamp is in the window.
LEMMA DenialFollows ==
    ASSUME LimiterAssumption, LimiterInv PROVE DenialIsDue
  <1> USE DEF LimiterAssumption
  <1> SUFFICES ASSUME NEW t \in Threads, call[t] # NoCall, Full(t)
               PROVE  LET grants == granted[call[t].key]
                          first == Len(grants) - Limit[call[t].key] + 1
                      IN  /\ first > 0
                          /\ \A i \in first..Len(grants) :
                                grants[i] > call[t].now - Window - MaxDelay
    BY DEF DenialIsDue
  <1>1. PICK key \in Keys, now \in Nat, kept \in Seq(Nat), gone \in Nat :
           /\ key = call[t].key /\ now = call[t].now /\ kept = QueueFor(t)
           /\ gone = Len(granted[key]) - Len(kept)
           /\ \A i \in 1..Len(kept) : kept[i] = granted[key][gone + i]
           /\ Len(kept) > 0 => kept[1] > now - Window
    <2> DEFINE grants == granted[call[t].key]
    <2>1. /\ call[t].key \in Keys /\ call[t].now \in Nat
          /\ QueueFor(t) \in Seq(Nat) /\ Len(grants) - Len(QueueFor(t)) \in Nat
          /\ \A i \in 1..Len(QueueFor(t)) :
                QueueFor(t)[i] = grants[Len(grants) - Len(QueueFor(t)) + i]
          /\ Len(QueueFor(t)) > 0 => QueueFor(t)[1] > call[t].now - Window
      BY QueueFacts
    <2>2. QED
      BY <2>1
  <1>2. PICK grants \in Seq(Nat) : grants = granted[key]
    BY DEF LimiterInv, LimiterTypeOK
  <1>3. PICK n \in Nat, k \in Nat, limit \in Nat \ {0} :
           n = Len(grants) /\ k = Len(kept) /\ n = gone + k /\ limit = Limit[key] /\ k >= limit
    <2>1. Len(grants) \in Nat /\ Len(kept) \in Nat /\ Limit[key] \in Nat \ {0}
      OBVIOUS
    <2>2. Len(grants) = gone + Len(kept) /\ Len(kept) >= Limit[key]
      BY <2>1, <1>1, <1>2 DEF Full
    <2>3. QED
      BY <2>1, <2>2
  <1>4. grants[gone + 1] > now - Window /\ gone + 1 \in 1..n
    <2>1. 1 \in 1..k /\ k > 0 /\ gone + 1 \in 1..n
      BY <1>3
    <2>2. kept[1] = grants[gone + 1] /\ kept[1] > now - Window
      BY <2>1, <1>1, <1>2, <1>3
    <2>3. QED
      BY <2>1, <2>2
  <1>5. \A i \in 1..n : grants[i] \in Nat
    <2>1. \A i \in 1..Len(grants) : grants[i] \in Nat
      OBVIOUS
    <2>2. QED
      BY <2>1, <1>3
  <1>6. ASSUME NEW i \in (n - limit + 1)..n PROVE grants[i] > now - Window - MaxDelay
    <2>1. i \in 1..n /\ gone + 1 <= i
      BY <1>3
    <2>2. CASE gone + 1 = i
      BY <2>1, <2>2, <1>4, <1>5
    <2>3. CASE gone + 1 < i
      <3>1. grants[i] >= grants[gone + 1] - MaxDelay
        BY <2>1, <2>3, <1>2, <1>3, <1>4 DEF LimiterInv, NearlyOrdered
      <3>2. grants[i] \in Nat /\ grants[gone + 1] \in Nat
        BY <2>1, <1>4, <1>5
      <3>3. QED
        BY <3>1, <3>2, <1>4
    <2>4. QED
      BY <2>1, <2>2, <2>3
  <1>7. n - limit + 1 > 0
    BY <1>3
  <1>8. QED
    BY <1>1, <1>2, <1>3, <1>6, <1>7

-----------------------------------------------------------------------------
(* The limiter under the handlers *)

\* A thread that waits for the limiter runs a handler, and a handler works on rows
\* there are.
TasksOK ==
    \A t \in Threads :
        /\ call[t] # NoCall => task[t] # Idle /\ task[t].at = "limiter"
        /\ task[t] # Idle /\ task[t].op = "login_otp" => task[t].of \in DOMAIN challenges
        /\ task[t] # Idle /\ task[t].op = "logout" => task[t].of \in DOMAIN sessions

\* A session comes from a used challenge of its user.
SessionsHaveChallenges ==
    \A s \in DOMAIN sessions :
        LET c == sessions[s].challenge
        IN  /\ c \in DOMAIN challenges /\ challenges[c].used
            /\ challenges[c].user = sessions[s].user

\* A handler about to open a session from a used challenge, and two about to open one
\* from the same challenge, have overlapped.
OverlapsAreRecorded ==
    \A t \in Threads : At(t, "login_otp", "write") =>
        /\ challenges[task[t].of].used => task[t].of \in overlapped
        /\ \A other \in Threads \ {t} :
              At(other, "login_otp", "write") /\ task[other].of = task[t].of
                 => task[t].of \in overlapped

AuthTypes ==
    /\ users \subseteq Users
    /\ challenges \in Seq(Challenges)
    /\ sessions \in Seq(SessionRows)
    /\ task \in [Threads -> Tasks \cup {Idle}]
    /\ welcomed \in [Users -> Nat]
    /\ overlapped \subseteq DOMAIN challenges
    /\ Len(challenges) <= MaxChallenges /\ Len(sessions) <= MaxSessions

AuthInv ==
    /\ LimiterInv
    /\ AuthTypes
    /\ TasksOK
    /\ OneAccountPerName
    /\ SessionsHaveChallenges /\ OverlapsAreRecorded /\ OneSessionPerChallenge

\* The server starts with empty tables.
LEMMA AuthInitInv ==
    ASSUME LimiterAssumption, AuthAssumption, AuthInit PROVE AuthInv
  <1>1. LimiterInv
    BY LimiterInitInv DEF AuthInit
  <1>2. QED
    BY <1>1 DEF AuthAssumption, AuthInit, AuthInv, AuthTypes, LimiterInit, TasksOK,
       OneAccountPerName, SessionsHaveChallenges, OverlapsAreRecorded,
       OneSessionPerChallenge, At, Idle

\* What the limiter sees of a step of the handlers is a step of its own.
LEMMA AuthStepIsLimiterStep ==
    ASSUME LimiterAssumption, AuthAssumption, AuthTypes, [AuthNext]_authVars
    PROVE  [LimiterNext]_<<clock, limiterVars>>
  <1>1. ASSUME NEW t \in Threads, AuthRequest(t)
        PROVE  [LimiterNext]_<<clock, limiterVars>>
    <2>1. ASSUME NEW user \in Users, NEW op \in {"register", "login_password"},
                 Request(t, op, user)
          PROVE  LimiterNext
      <3>1. <<op, user>> \in Keys
        BY DEF AuthAssumption, AuthKeys
      <3>2. QED
        BY <2>1, <3>1 DEF Request, LimiterNext
    <2>2. ASSUME NEW c \in DOMAIN challenges, Request(t, "login_otp", c)
          PROVE  LimiterNext
      <3>1. c \in 1..MaxChallenges
        BY DEF AuthTypes, AuthAssumption
      <3>2. <<"login_otp", c>> \in Keys
        BY <3>1 DEF AuthAssumption, AuthKeys
      <3>3. QED
        BY <2>2, <3>2 DEF Request, LimiterNext
    <2>3. ASSUME NEW s \in DOMAIN sessions, LogoutRead(t, s)
          PROVE  UNCHANGED <<clock, limiterVars>>
      BY <2>3 DEF LogoutRead
    <2>4. QED
      BY <1>1, <2>1, <2>2, <2>3 DEF AuthRequest
  <1>2. ASSUME NEW t \in Threads, AuthStep(t)
        PROVE  [LimiterNext]_<<clock, limiterVars>>
    BY <1>2 DEF AuthStep, Admit, Refuse, LimiterNext, RegisterRead, RegisterInsert,
       Challenge, Unauthorized, OtpRead, OtpWrite, LogoutWrite
  <1>3. QED
    BY <1>1, <1>2 DEF AuthNext, AuthTick, AuthRestart, LimiterNext, authVars

-----------------------------------------------------------------------------
(* The handlers *)

\* A handler that starts, goes on to its database work or ends without writing keeps
\* the tables; what it may not do is reach login_otp's write unrecorded.
LEMMA TaskOnly ==
    ASSUME AuthInv, LimiterInv', NEW t \in Threads, NEW to \in Tasks \cup {Idle},
           SetTask(t, to), UNCHANGED <<tables, history>>,
           \A u \in Threads \ {t} : call'[u] = call[u],
           call'[t] # NoCall => to # Idle /\ to.at = "limiter",
           to # Idle /\ to.op = "login_otp" => to.of \in DOMAIN challenges /\ to.at # "write",
           to # Idle /\ to.op = "logout" => to.of \in DOMAIN sessions
    PROVE  AuthInv'
  <1>1. /\ task' = [task EXCEPT ![t] = to] /\ task'[t] = to
        /\ \A u \in Threads \ {t} : task'[u] = task[u]
    BY DEF SetTask, AuthInv, AuthTypes
  <1>2. AuthTypes'
    BY <1>1 DEF AuthInv, AuthTypes, tables, history
  <1>3. TasksOK'
    BY <1>1 DEF AuthInv, TasksOK, tables
  <1>4. OverlapsAreRecorded'
    <2>1. ~At(t, "login_otp", "write")'
      BY <1>1 DEF At
    <2>2. \A u \in Threads \ {t} : At(u, "login_otp", "write")' = At(u, "login_otp", "write")
      BY <1>1 DEF At
    <2>3. QED
      BY <1>1, <2>1, <2>2 DEF AuthInv, OverlapsAreRecorded, tables, history
  <1>5. QED
    BY <1>2, <1>3, <1>4 DEF AuthInv, OneAccountPerName, SessionsHaveChallenges,
       OneSessionPerChallenge, tables, history

\* Going on to another step of a handler gives a task again.
LEMMA TaskTypes ==
    ASSUME AuthInv, NEW t \in Threads, task[t] # Idle,
           NEW step \in {"limiter", "read", "write"}
    PROVE  LET to == [task[t] EXCEPT !.at = step]
           IN  /\ to \in Tasks /\ to # Idle /\ to.at = step
               /\ to.op = task[t].op /\ to.of = task[t].of
  <1>1. task[t] \in Tasks
    BY DEF AuthInv, AuthTypes
  <1>2. CASE task[t] \in [op : {"register", "login_password"}, of : Users,
                          at : {"limiter", "read", "write"}]
    BY <1>2 DEF Tasks, Idle
  <1>3. CASE task[t] \in [op : {"login_otp", "logout"}, of : Nat,
                          at : {"limiter", "read", "write"}]
    BY <1>3 DEF Tasks, Idle
  <1>4. QED
    BY <1>1, <1>2, <1>3 DEF Tasks

\* A request, admitted, refused or ended by what its handler reads.
LEMMA RequestInv ==
    ASSUME LimiterAssumption, AuthAssumption, AuthInv, LimiterInv', NEW t \in Threads,
           \/ \E user \in Users, op \in {"register", "login_password"} : Request(t, op, user)
           \/ \E c \in DOMAIN challenges : Request(t, "login_otp", c)
    PROVE  AuthInv'
  <1>1. PICK op, of : /\ Request(t, op, of)
                      /\ [op |-> op, of |-> of, at |-> "limiter"] \in Tasks
                      /\ op = "login_otp" => of \in DOMAIN challenges
                      /\ op # "logout"
    <2>1. DOMAIN challenges \subseteq Nat
      BY DEF AuthInv, AuthTypes
    <2>2. QED
      BY <2>1 DEF Tasks
  <1>2. /\ SetTask(t, [op |-> op, of |-> of, at |-> "limiter"])
        /\ UNCHANGED <<tables, history>>
        /\ \A u \in Threads \ {t} : call'[u] = call[u]
    BY <1>1 DEF Request, AskLimiter, AuthInv, LimiterInv, LimiterTypeOK
  <1>3. [op |-> op, of |-> of, at |-> "limiter"] # Idle
    BY <1>1 DEF Idle
  <1>4. QED
    BY <1>1, <1>2, <1>3, TaskOnly

LEMMA AdmitInv ==
    ASSUME LimiterAssumption, AuthAssumption, AuthInv, LimiterInv', NEW t \in Threads, Admit(t)
    PROVE  AuthInv'
  <1> DEFINE to == [task[t] EXCEPT !.at = "read"]
  <1>1. task[t] # Idle
    BY DEF Admit, Grant, AuthInv, TasksOK
  <1>2. to \in Tasks /\ to # Idle /\ to.at = "read" /\ to.op = task[t].op /\ to.of = task[t].of
    BY <1>1, TaskTypes
  <1>3. /\ SetTask(t, to) /\ UNCHANGED <<tables, history>>
        /\ call'[t] = NoCall
        /\ \A u \in Threads \ {t} : call'[u] = call[u]
    BY DEF Admit, Grant, Goto, AuthInv, LimiterInv, LimiterTypeOK
  <1>4. /\ to.op = "login_otp" => to.of \in DOMAIN challenges
        /\ to.op = "logout" => to.of \in DOMAIN sessions
    BY <1>1, <1>2 DEF AuthInv, TasksOK
  <1> HIDE DEF to
  <1>5. QED
    BY <1>2, <1>3, <1>4, TaskOnly

\* A handler ends: refused, unauthorised, or having found the name taken.
LEMMA DoneInv ==
    ASSUME AuthInv, LimiterInv', NEW t \in Threads, Done(t), UNCHANGED <<tables, history>>,
           call' = [call EXCEPT ![t] = NoCall]
    PROVE  AuthInv'
  <1>1. call'[t] = NoCall /\ \A u \in Threads \ {t} : call'[u] = call[u]
    BY DEF AuthInv, LimiterInv, LimiterTypeOK
  <1>2. SetTask(t, Idle)
    BY DEF Done
  <1>3. QED
    BY <1>1, <1>2, TaskOnly

\* A handler past the limiter has no call.
LEMMA PastLimiter ==
    ASSUME AuthInv, NEW t \in Threads, task[t] = Idle \/ task[t].at # "limiter",
           UNCHANGED limiterVars
    PROVE  call'[t] = NoCall /\ call' = [call EXCEPT ![t] = NoCall]
  BY DEF AuthInv, TasksOK, LimiterInv, LimiterTypeOK, limiterVars

LEMMA RegisterReadInv ==
    ASSUME AuthInv, LimiterInv', NEW t \in Threads, RegisterRead(t)
    PROVE  AuthInv'
  <1>1. /\ task[t] # Idle /\ task[t].op = "register" /\ task[t].at = "read"
        /\ UNCHANGED limiterVars /\ UNCHANGED <<tables, history>>
    BY DEF RegisterRead, At
  <1>2. call' = [call EXCEPT ![t] = NoCall] /\ call'[t] = NoCall /\ call' = call
    BY <1>1, PastLimiter DEF limiterVars
  <1>3. CASE Done(t)
    BY <1>1, <1>2, <1>3, DoneInv
  <1>4. CASE Goto(t, "write")
    <2> DEFINE to == [task[t] EXCEPT !.at = "write"]
    <2>1. to \in Tasks /\ to # Idle /\ to.op = "register"
      BY <1>1, TaskTypes
    <2>2. SetTask(t, to)
      BY <1>4 DEF Goto
    <2> HIDE DEF to
    <2>3. QED
      BY <1>1, <1>2, <2>1, <2>2, TaskOnly
  <1>5. QED
    BY <1>3, <1>4 DEF RegisterRead

LEMMA LogoutReadInv ==
    ASSUME AuthInv, LimiterInv', NEW t \in Threads, NEW s \in DOMAIN sessions, LogoutRead(t, s)
    PROVE  AuthInv'
  <1> DEFINE to == [op |-> "logout", of |-> s, at |-> "write"]
  <1>1. to \in Tasks /\ to # Idle /\ to.op = "logout" /\ to.of = s
    <2>1. s \in Nat
      BY DEF AuthInv, AuthTypes
    <2>2. QED
      BY <2>1 DEF Tasks, Idle
  <1>2. /\ task[t] = Idle /\ SetTask(t, to) /\ UNCHANGED <<tables, history>>
        /\ UNCHANGED limiterVars
    BY DEF LogoutRead
  <1>3. call'[t] = NoCall /\ call' = call
    BY <1>2, PastLimiter DEF limiterVars
  <1> HIDE DEF to
  <1>4. QED
    BY <1>1, <1>2, <1>3, TaskOnly

\* UNIQUE keeps the second of two registrations out.
LEMMA RegisterInsertInv ==
    ASSUME AuthInv, LimiterInv', NEW t \in Threads, RegisterInsert(t)
    PROVE  AuthInv'
  <1>1. /\ task[t] # Idle /\ task[t].op = "register" /\ task[t].at = "write"
        /\ UNCHANGED limiterVars /\ UNCHANGED <<clock, challenges, sessions, overlapped>>
    BY DEF RegisterInsert, At
  <1>2. call' = [call EXCEPT ![t] = NoCall]
    BY <1>1, PastLimiter
  <1>3. CASE task[t].of \in users
    BY <1>1, <1>2, <1>3, DoneInv DEF RegisterInsert, tables, history
  <1>4. CASE task[t].of \notin users
    <2>1. PICK user \in Users : user = task[t].of
      BY <1>1 DEF AuthInv, AuthTypes, Tasks
    <2>2. /\ users' = users \cup {user} /\ welcomed' = [welcomed EXCEPT ![user] = @ + 1]
          /\ task' = [task EXCEPT ![t] = Idle]
      BY <1>4, <2>1 DEF RegisterInsert, Done, SetTask
    <2>3. AuthTypes'
      BY <1>1, <2>2 DEF AuthInv, AuthTypes
    <2>4. TasksOK'
      BY <1>1, <1>2, <2>2 DEF AuthInv, TasksOK, AuthTypes, LimiterInv, LimiterTypeOK, limiterVars
    <2>5. OneAccountPerName'
      BY <1>4, <2>1, <2>2 DEF AuthInv, AuthTypes, OneAccountPerName
    <2>6. OverlapsAreRecorded'
      BY <1>1, <2>2 DEF AuthInv, AuthTypes, OverlapsAreRecorded, At, Idle
    <2>7. QED
      BY <1>1, <2>3, <2>4, <2>5, <2>6 DEF AuthInv, SessionsHaveChallenges,
         OneSessionPerChallenge
  <1>5. QED
    BY <1>3, <1>4

\* A new challenge is unused and nobody's task.
LEMMA ChallengeInv ==
    ASSUME AuthAssumption, AuthInv, LimiterInv', NEW t \in Threads, Challenge(t)
    PROVE  AuthInv'
  <1>1. /\ task[t] # Idle /\ task[t].op = "login_password" /\ task[t].at = "read"
        /\ UNCHANGED limiterVars
        /\ UNCHANGED <<clock, users, sessions, history>>
        /\ task' = [task EXCEPT ![t] = Idle]
    BY DEF Challenge, At, Done, SetTask
  <1>2. call'[t] = NoCall /\ call' = call
    BY <1>1, PastLimiter DEF limiterVars
  <1>3. PICK row \in Challenges : challenges' = Append(challenges, row) /\ ~row.used
    <2>1. clock + ChallengeTTL \in Nat
      BY DEF AuthAssumption, AuthInv, LimiterInv, LimiterTypeOK
    <2>2. task[t].of \in Users
      BY DEF Challenge, AuthInv, AuthTypes
    <2>3. [user |-> task[t].of, used |-> FALSE, expires |-> clock + ChallengeTTL] \in Challenges
      BY <2>1, <2>2 DEF Challenges
    <2>4. QED
      BY <2>3 DEF Challenge
  <1>4. /\ challenges' \in Seq(Challenges)
        /\ Len(challenges') = Len(challenges) + 1 /\ Len(challenges) \in Nat
        /\ DOMAIN challenges \subseteq DOMAIN challenges'
        /\ \A c \in DOMAIN challenges : challenges'[c] = challenges[c]
    BY <1>3 DEF AuthInv, AuthTypes
  <1>5. AuthTypes'
    BY <1>1, <1>4 DEF AuthInv, AuthTypes, Challenge, AuthAssumption, history
  <1>6. TasksOK'
    BY <1>1, <1>2, <1>4 DEF AuthInv, AuthTypes, TasksOK
  <1>7. SessionsHaveChallenges'
    BY <1>1, <1>4 DEF AuthInv, SessionsHaveChallenges
  <1>8. OverlapsAreRecorded'
    BY <1>1, <1>4 DEF AuthInv, AuthTypes, TasksOK, OverlapsAreRecorded, At, Idle, history
  <1>9. QED
    BY <1>1, <1>5, <1>6, <1>7, <1>8 DEF AuthInv, OneAccountPerName, OneSessionPerChallenge,
       history

\* The challenge read was unused, and any other handler at the write is recorded.
LEMMA OtpReadInv ==
    ASSUME AuthInv, LimiterInv', NEW t \in Threads, OtpRead(t)
    PROVE  AuthInv'
  <1> DEFINE to == [task[t] EXCEPT !.at = "write"]
             c == task[t].of
  <1>1. /\ task[t] # Idle /\ task[t].op = "login_otp" /\ task[t].at = "read"
        /\ UNCHANGED limiterVars /\ UNCHANGED <<clock, tables, welcomed>>
        /\ ~challenges[c].used /\ task' = [task EXCEPT ![t] = to]
    BY DEF OtpRead, At, Usable, Goto, SetTask
  <1>2. call'[t] = NoCall /\ call' = call
    BY <1>1, PastLimiter DEF limiterVars
  <1>3. to \in Tasks /\ to # Idle /\ to.op = "login_otp" /\ to.of = c /\ to.at = "write"
    BY <1>1, TaskTypes
  <1>4. c \in DOMAIN challenges
    BY <1>1 DEF AuthInv, TasksOK
  <1>5. /\ overlapped \subseteq overlapped' /\ overlapped' \subseteq overlapped \cup {c}
        /\ (\E other \in Threads \ {t} :
               At(other, "login_otp", "write") /\ task[other].of = c) => c \in overlapped'
    BY DEF OtpRead
  <1> HIDE DEF to, c
  <1>6. task'[t] = to /\ \A u \in Threads \ {t} : task'[u] = task[u]
    BY <1>1 DEF AuthInv, AuthTypes
  <1>7. AuthTypes'
    BY <1>1, <1>3, <1>4, <1>5 DEF AuthInv, AuthTypes, tables
  <1>8. TasksOK'
    BY <1>1, <1>2, <1>3, <1>4, <1>6 DEF AuthInv, TasksOK, tables
  <1>9. OverlapsAreRecorded'
    <2>1. \A u \in Threads \ {t} :
             At(u, "login_otp", "write")' = At(u, "login_otp", "write") /\ task'[u].of = task[u].of
      BY <1>6 DEF At
    <2>2. ASSUME NEW u \in Threads \ {t}, At(u, "login_otp", "write")
          PROVE  /\ challenges[task[u].of].used => task[u].of \in overlapped'
                 /\ \A other \in Threads \ {u} :
                       At(other, "login_otp", "write")' /\ task'[other].of = task[u].of
                          => task[u].of \in overlapped'
      BY <2>1, <2>2, <1>3, <1>5, <1>6 DEF AuthInv, OverlapsAreRecorded
    <2>3. \A other \in Threads \ {t} :
             At(other, "login_otp", "write")' /\ task'[other].of = c => c \in overlapped'
      BY <2>1, <1>5
    <2>4. challenges' = challenges
      BY <1>1 DEF tables
    <2>5. QED
      BY <2>1, <2>2, <2>3, <2>4, <1>1, <1>3, <1>6 DEF OverlapsAreRecorded, c
  <1>10. QED
    BY <1>1, <1>5, <1>7, <1>8, <1>9 DEF AuthInv, OneAccountPerName, SessionsHaveChallenges,
       OneSessionPerChallenge, tables

\* What login_otp writes: the new session is the first of its challenge, unless the
\* handlers that read it have been recorded.
LEMMA OtpWriteInv ==
    ASSUME AuthAssumption, AuthInv, LimiterInv', NEW t \in Threads, OtpWrite(t)
    PROVE  AuthInv'
  <1>1. PICK c \in DOMAIN challenges : c = task[t].of
    BY DEF OtpWrite, At, AuthInv, TasksOK
  <1>2. /\ task[t] # Idle /\ task[t].op = "login_otp" /\ task[t].at = "write"
        /\ UNCHANGED limiterVars /\ UNCHANGED <<clock, users, history>>
        /\ task' = [task EXCEPT ![t] = Idle]
        /\ challenges' = [challenges EXCEPT ![c].used = TRUE]
    BY <1>1 DEF OtpWrite, At, Done, SetTask
  <1>3. call'[t] = NoCall /\ call' = call
    BY <1>2, PastLimiter DEF limiterVars
  <1>4. /\ DOMAIN challenges' = DOMAIN challenges /\ challenges' \in Seq(Challenges)
        /\ challenges'[c].used /\ challenges'[c].user = challenges[c].user
        /\ Len(challenges') = Len(challenges)
        /\ \A d \in DOMAIN challenges : d # c => challenges'[d] = challenges[d]
    <2>1. challenges \in Seq(Challenges) /\ challenges[c] \in Challenges
      BY DEF AuthInv, AuthTypes
    <2>2. [challenges[c] EXCEPT !.used = TRUE] \in Challenges
      BY <2>1 DEF Challenges
    <2>3. challenges' = [challenges EXCEPT ![c] = [challenges[c] EXCEPT !.used = TRUE]]
      BY <1>2
    <2>4. challenges' \in Seq(Challenges) /\ DOMAIN challenges' = DOMAIN challenges
          /\ Len(challenges') = Len(challenges)
      BY <2>1, <2>2, <2>3
    <2>5. challenges'[c] = [challenges[c] EXCEPT !.used = TRUE]
      BY <2>1, <2>3
    <2>6. [challenges[c] EXCEPT !.used = TRUE].used
          /\ [challenges[c] EXCEPT !.used = TRUE].user = challenges[c].user
      BY <2>1 DEF Challenges
    <2>7. QED
      BY <2>1, <2>3, <2>4, <2>5, <2>6
  <1>5. PICK row \in SessionRows :
           /\ sessions' = Append(sessions, row)
           /\ row.challenge = c /\ row.user = challenges[c].user
    <2>1. clock + SessionTTL \in Nat
      BY DEF AuthAssumption, AuthInv, LimiterInv, LimiterTypeOK
    <2>2. challenges \in Seq(Challenges)
      BY DEF AuthInv, AuthTypes
    <2>3. c \in Nat /\ challenges[c] \in Challenges
      BY <2>2
    <2>4. challenges[c].user \in Users
      BY <2>3 DEF Challenges
    <2>5. [user |-> challenges[c].user, challenge |-> c, expires |-> clock + SessionTTL,
           revoked |-> FALSE] \in SessionRows
      BY <2>1, <2>3, <2>4 DEF SessionRows
    <2>6. QED
      BY <2>5, <1>1 DEF OtpWrite
  <1>6. PICK n \in Nat :
           /\ n = Len(sessions) /\ DOMAIN sessions = 1..n /\ DOMAIN sessions' = 1..(n + 1)
           /\ sessions' \in Seq(SessionRows) /\ Len(sessions') = n + 1
           /\ sessions'[n + 1] = row
           /\ \A s \in 1..n : sessions'[s] = sessions[s]
    <2>1. sessions \in Seq(SessionRows)
      BY DEF AuthInv, AuthTypes
    <2>2. Len(sessions) \in Nat /\ DOMAIN sessions = 1..Len(sessions)
      BY <2>1
    <2>3. /\ sessions' \in Seq(SessionRows) /\ Len(sessions') = Len(sessions) + 1
          /\ sessions'[Len(sessions) + 1] = row
          /\ \A s \in 1..Len(sessions) : sessions'[s] = sessions[s]
      BY <2>1, <1>5
    <2>4. DOMAIN sessions' = 1..Len(sessions')
      BY <2>3
    <2>5. QED
      BY <2>2, <2>3, <2>4
  <1>7. task'[t] = Idle /\ \A u \in Threads \ {t} : task'[u] = task[u]
    BY <1>2 DEF AuthInv, AuthTypes
  <1>8. AuthTypes'
    <2>1. Len(sessions') <= MaxSessions
      BY <1>6 DEF OtpWrite, AuthAssumption
    <2>2. QED
      BY <2>1, <1>2, <1>4, <1>6 DEF AuthInv, AuthTypes, history
  <1>9. TasksOK'
    BY <1>3, <1>4, <1>6, <1>7 DEF AuthInv, TasksOK
  <1>10. SessionsHaveChallenges'
    <2>1. \A s \in 1..n : /\ sessions[s].challenge \in DOMAIN challenges
                          /\ challenges[sessions[s].challenge].used
                          /\ challenges[sessions[s].challenge].user = sessions[s].user
      BY <1>6 DEF AuthInv, SessionsHaveChallenges
    <2>2. \A s \in 1..n : /\ challenges'[sessions[s].challenge].used
                          /\ challenges'[sessions[s].challenge].user = sessions[s].user
      BY <2>1, <1>4
    <2>3. QED
      BY <2>1, <2>2, <1>4, <1>5, <1>6 DEF SessionsHaveChallenges
  <1>11. OverlapsAreRecorded'
    <2>1. ~At(t, "login_otp", "write")'
      BY <1>7 DEF At
    <2>2. ASSUME NEW u \in Threads \ {t}, At(u, "login_otp", "write")'
          PROVE  /\ task'[u] = task[u] /\ At(u, "login_otp", "write")
                 /\ challenges'[task[u].of].used => task[u].of \in overlapped
      <3>1. task'[u] = task[u] /\ At(u, "login_otp", "write")
        BY <2>2, <1>7 DEF At
      <3>2. CASE task[u].of = c
        <4>1. At(t, "login_otp", "write")
          BY <1>2 DEF At
        <4>2. task[u].of \in overlapped
          BY <3>1, <3>2, <4>1, <1>1 DEF AuthInv, OverlapsAreRecorded
        <4>3. QED
          BY <3>1, <4>2
      <3>3. CASE task[u].of # c
        <4>1. task[u].of \in DOMAIN challenges
          BY <3>1 DEF At, AuthInv, TasksOK
        <4>2. challenges'[task[u].of] = challenges[task[u].of]
          BY <3>3, <4>1, <1>4
        <4>3. QED
          BY <3>1, <4>2 DEF AuthInv, OverlapsAreRecorded
      <3>4. QED
        BY <3>2, <3>3
    <2>3. overlapped' = overlapped
      BY <1>2 DEF history
    <2>4. QED
      BY <2>1, <2>2, <2>3 DEF AuthInv, OverlapsAreRecorded
  <1>12. OneSessionPerChallenge'
    <2>1. ASSUME NEW s \in 1..n, sessions[s].challenge = c PROVE c \in overlapped
      <3>1. challenges[c].used
        BY <2>1, <1>6 DEF AuthInv, SessionsHaveChallenges
      <3>2. At(t, "login_otp", "write")
        BY <1>2 DEF At
      <3>3. QED
        BY <3>1, <3>2, <1>1 DEF AuthInv, OverlapsAreRecorded
    <2>2. ASSUME NEW r \in 1..n, NEW s \in 1..n, r # s,
                 sessions[r].challenge = sessions[s].challenge
          PROVE  sessions[r].challenge \in overlapped
      BY <2>2, <1>6 DEF AuthInv, OneSessionPerChallenge
    <2>3. overlapped' = overlapped /\ \A s \in 1..(n + 1) : s \in 1..n \/ s = n + 1
      BY <1>2 DEF history
    <2>4. QED
      BY <2>1, <2>2, <2>3, <1>5, <1>6 DEF OneSessionPerChallenge
  <1>13. OneAccountPerName'
    BY <1>2 DEF AuthInv, OneAccountPerName, history
  <1>14. QED
    BY <1>8, <1>9, <1>10, <1>11, <1>12, <1>13 DEF AuthInv

\* A session that is revoked keeps its challenge and its user.
LEMMA LogoutWriteInv ==
    ASSUME AuthInv, LimiterInv', NEW t \in Threads, LogoutWrite(t)
    PROVE  AuthInv'
  <1>1. PICK s \in DOMAIN sessions : s = task[t].of
    BY DEF LogoutWrite, At, AuthInv, TasksOK
  <1>2. /\ task[t] # Idle /\ task[t].op = "logout" /\ task[t].at = "write"
        /\ UNCHANGED limiterVars /\ UNCHANGED <<clock, users, challenges, history>>
        /\ task' = [task EXCEPT ![t] = Idle]
        /\ sessions' = [sessions EXCEPT ![s] = [sessions[s] EXCEPT !.revoked = TRUE]]
    BY <1>1 DEF LogoutWrite, At, Done, SetTask
  <1>3. call'[t] = NoCall /\ call' = call
    BY <1>2, PastLimiter DEF limiterVars
  <1>4. /\ sessions' \in Seq(SessionRows) /\ DOMAIN sessions' = DOMAIN sessions
        /\ Len(sessions') = Len(sessions)
        /\ \A r \in DOMAIN sessions : /\ sessions'[r].challenge = sessions[r].challenge
                                      /\ sessions'[r].user = sessions[r].user
    <2>1. sessions \in Seq(SessionRows) /\ sessions[s] \in SessionRows
      BY DEF AuthInv, AuthTypes
    <2>2. /\ [sessions[s] EXCEPT !.revoked = TRUE] \in SessionRows
          /\ [sessions[s] EXCEPT !.revoked = TRUE].challenge = sessions[s].challenge
          /\ [sessions[s] EXCEPT !.revoked = TRUE].user = sessions[s].user
      BY <2>1 DEF SessionRows
    <2>3. QED
      BY <2>1, <2>2, <1>2
  <1>5. task'[t] = Idle /\ \A u \in Threads \ {t} : task'[u] = task[u]
    BY <1>2 DEF AuthInv, AuthTypes
  <1>6. AuthTypes' /\ TasksOK'
    BY <1>2, <1>3, <1>4, <1>5 DEF AuthInv, AuthTypes, TasksOK, history
  <1>7. SessionsHaveChallenges' /\ OneSessionPerChallenge'
    BY <1>2, <1>4 DEF AuthInv, SessionsHaveChallenges, OneSessionPerChallenge, history
  <1>8. OverlapsAreRecorded'
    BY <1>2, <1>5 DEF AuthInv, OverlapsAreRecorded, At, history
  <1>9. QED
    BY <1>2, <1>6, <1>7, <1>8 DEF AuthInv, OneAccountPerName, history

\* Every step of the handlers keeps the invariant.
LEMMA AuthStepInv ==
    ASSUME LimiterAssumption, AuthAssumption, AuthInv, [AuthNext]_authVars
    PROVE  AuthInv'
  <1>1. LimiterInv'
    BY AuthStepIsLimiterStep, LimiterStepInv DEF AuthInv
  <1>2. ASSUME NEW t \in Threads, AuthRequest(t) PROVE AuthInv'
    BY <1>1, <1>2, RequestInv, LogoutReadInv DEF AuthRequest
  <1>3. ASSUME NEW t \in Threads, AuthStep(t) PROVE AuthInv'
    <2>1. CASE Refuse(t)
      BY <2>1, <1>1, DoneInv DEF Refuse, Deny
    <2>2. CASE Unauthorized(t)
      <3>1. /\ task[t].at # "limiter" /\ UNCHANGED limiterVars /\ UNCHANGED <<tables, history>>
            /\ Done(t)
        BY <2>2 DEF Unauthorized, At
      <3>2. QED
        BY <3>1, <1>1, PastLimiter, DoneInv
    <2>3. QED
      BY <1>1, <1>3, <2>1, <2>2, AdmitInv, RegisterReadInv, RegisterInsertInv, ChallengeInv,
         OtpReadInv, OtpWriteInv, LogoutWriteInv DEF AuthStep
  <1>4. CASE AuthTick \/ UNCHANGED authVars
    <2>1. UNCHANGED limiterVars /\ UNCHANGED <<tables, task, history>>
      BY <1>4 DEF AuthTick, LimiterTick, authVars
    <2>2. QED
      BY <2>1, <1>1 DEF limiterVars, tables, history, AuthInv, AuthTypes, TasksOK,
         OneAccountPerName, SessionsHaveChallenges, OverlapsAreRecorded,
         OneSessionPerChallenge, At
  <1>5. CASE AuthRestart
    <2>1. /\ \A t \in Threads : task'[t] = Idle /\ call'[t] = NoCall
          /\ UNCHANGED <<tables, history>> /\ task' \in [Threads -> Tasks \cup {Idle}]
      BY <1>5 DEF AuthRestart, LimiterRestart
    <2>2. QED
      BY <2>1, <1>1 DEF tables, history, AuthInv, AuthTypes, TasksOK,
         OneAccountPerName, SessionsHaveChallenges, OverlapsAreRecorded,
         OneSessionPerChallenge, At
  <1>6. QED
    BY <1>2, <1>3, <1>4, <1>5 DEF AuthNext

-----------------------------------------------------------------------------
(* Theorems *)

\* The inductive invariant of the handlers and the limiter behind them.
THEOREM AuthInvariant == AuthSpec => []AuthInv
  <1> USE LimiterAssumption, AuthAssumption
  <1>1. AuthInit => AuthInv
    BY AuthInitInv
  <1>2. AuthInv /\ [AuthNext]_authVars => AuthInv'
    BY AuthStepInv
  <1>3. QED
    BY <1>1, <1>2, PTL DEF AuthSpec

\* The tables, the queues of the limiter and the tasks of the threads have their types,
\* and no queue outgrows its limit.
THEOREM AuthTypeCorrect == AuthSpec => []AuthTypeOK
  <1>1. AuthInv => AuthTypeOK
    BY DEF AuthInv, AuthTypes, LimiterInv, AuthTypeOK
  <1>2. QED
    BY <1>1, AuthInvariant, PTL

\* For every limit and window, and however late threads come to the lock, grants are
\* spaced by the window less the delay.
THEOREM GrantsAreSpacedAlways == AuthSpec => []GrantsAreSpaced
  <1>1. AuthInv => GrantsAreSpaced
    BY DEF AuthInv, LimiterInv
  <1>2. QED
    BY <1>1, AuthInvariant, PTL

\* No request is refused unless as many as the limit were granted recently.
THEOREM DenialIsAlwaysDue == AuthSpec => []DenialIsDue
  <1> USE LimiterAssumption
  <1>1. AuthInv => DenialIsDue
    BY DenialFollows DEF AuthInv
  <1>2. QED
    BY <1>1, AuthInvariant, PTL

\* However registrations interleave, one of them makes the account.
THEOREM OneAccountPerNameAlways == AuthSpec => []OneAccountPerName
  <1>1. AuthInv => OneAccountPerName
    BY DEF AuthInv
  <1>2. QED
    BY <1>1, AuthInvariant, PTL

\* Only handlers that overlapped open two sessions from one challenge.
THEOREM OneSessionPerChallengeAlways == AuthSpec => []OneSessionPerChallenge
  <1>1. AuthInv => OneSessionPerChallenge
    BY DEF AuthInv
  <1>2. QED
    BY <1>1, AuthInvariant, PTL

\* Every session was opened with a challenge of its own user.
THEOREM SessionsHaveChallengesAlways == AuthSpec => []SessionsHaveChallenges
  <1>1. AuthInv => SessionsHaveChallenges
    BY DEF AuthInv
  <1>2. QED
    BY <1>1, AuthInvariant, PTL

\* No two handlers of login_otp are between the SELECT and the UPDATE of one challenge.
OtpApart ==
    \A t, u \in Threads :
        /\ t # u /\ At(t, "login_otp", "write") /\ At(u, "login_otp", "write")
        => task[t].of # task[u].of

\* Each challenge has opened one session at most.
OneSessionEach ==
    \A r, s \in DOMAIN sessions : sessions[r].challenge = sessions[s].challenge => r = s

NoneOverlapped == overlapped = {}

\* A handler that overlaps another is next to it after its SELECT.
LEMMA ApartRecordsNone ==
    ASSUME AuthInv, OtpApart', overlapped = {}, [AuthNext]_authVars
    PROVE  overlapped' = {}
  <1>1. ASSUME NEW t \in Threads, OtpRead(t) PROVE overlapped' = {}
    <2>1. SUFFICES ASSUME NEW other \in Threads \ {t}, At(other, "login_otp", "write"),
                          task[other].of = task[t].of
                   PROVE  FALSE
      BY <1>1 DEF OtpRead
    <2>2. task[t] \in Tasks /\ task[t].op = "login_otp" /\ task[t] # Idle
      BY <1>1 DEF AuthInv, AuthTypes, OtpRead, At
    <2>3. PICK to \in Tasks : /\ to = [task[t] EXCEPT !.at = "write"] /\ to # Idle
                              /\ to.op = "login_otp" /\ to.of = task[t].of /\ to.at = "write"
      BY <2>2, TaskTypes
    <2>4. task'[t] = to /\ task'[other] = task[other]
      BY <1>1, <2>3 DEF OtpRead, Goto, SetTask, AuthInv, AuthTypes
    <2>5. At(t, "login_otp", "write")' /\ At(other, "login_otp", "write")'
      BY <2>1, <2>3, <2>4 DEF At
    <2>6. QED
      BY <2>1, <2>3, <2>4, <2>5 DEF OtpApart
  <1>2. overlapped' = overlapped \/ \E t \in Threads : OtpRead(t)
    BY DEF AuthNext, AuthRequest, AuthStep, Request, LogoutRead, Admit, Refuse, RegisterRead,
       RegisterInsert, Challenge, Unauthorized, OtpWrite, LogoutWrite, AuthTick, AuthRestart,
       history, authVars
  <1>3. QED
    BY <1>1, <1>2

\* A challenge opens one session at most, over any number of logins, restarts and threads, if
\* handlers of one challenge do not overlap between SELECT and UPDATE (login_otp): putting
\* the two in one transaction is all that is needed.
THEOREM OneSessionWhenApart ==
    AuthSpec /\ []OtpApart => []OneSessionEach
  <1>1. AuthInit => NoneOverlapped
    BY DEF AuthInit, NoneOverlapped
  <1>2. AuthInv /\ OtpApart' /\ NoneOverlapped /\ [AuthNext]_authVars => NoneOverlapped'
    BY ApartRecordsNone DEF NoneOverlapped
  <1>3. AuthInv /\ NoneOverlapped => OneSessionEach
    BY DEF AuthInv, OneSessionPerChallenge, OneSessionEach, NoneOverlapped
  <1>4. QED
    BY <1>1, <1>2, <1>3, AuthInvariant, PTL DEF AuthSpec

-----------------------------------------------------------------------------
(* Refinement: the life of a token *)

\* A step that opens no session either leaves the states of the tokens or ends some.
LEMMA SessionsOnlyEnd ==
    ASSUME AuthInv, AuthInv', DOMAIN sessions' = DOMAIN sessions, clock' >= clock,
           \A s \in DOMAIN sessions :
              /\ sessions'[s].expires = sessions[s].expires
              /\ sessions[s].revoked => sessions'[s].revoked
    PROVE  [Abstract!SessionsNext]_SessionState
  <1> DEFINE gone == {s \in DOMAIN sessions : Live(s) /\ ~Live(s)'}
  <1>1. DOMAIN sessions \subseteq 1..MaxSessions
    BY AuthAssumption DEF AuthInv, AuthTypes, AuthAssumption
  <1>2. ASSUME NEW s \in DOMAIN sessions, Live(s)' PROVE Live(s)
    <2>1. sessions[s].expires \in Nat /\ clock \in Nat /\ clock' \in Nat
      <3>1. sessions \in Seq(SessionRows)
        BY DEF AuthInv, AuthTypes
      <3>2. sessions[s] \in SessionRows
        BY <3>1
      <3>3. QED
        BY <3>2 DEF AuthInv, LimiterInv, LimiterTypeOK, SessionRows
    <2>2. QED
      BY <1>2, <2>1 DEF Live
  <1>3. \A s \in gone : SessionState[s] = "live"
    BY <1>1 DEF SessionState
  <1>4. SessionState' = [s \in 1..MaxSessions |->
                           IF s \in gone THEN "ended" ELSE SessionState[s]]
    BY <1>2 DEF SessionState
  <1>5. gone \in SUBSET (1..MaxSessions)
    BY <1>1
  <1>6. Abstract!End(gone)
    BY <1>3, <1>4 DEF Abstract!End
  <1>7. QED
    BY <1>5, <1>6 DEF Abstract!SessionsNext

\* The tables implement the abstract life of a token.
THEOREM AuthImplementsSessions == AuthSpec => ImplementsSessions
  <1> USE LimiterAssumption, AuthAssumption
  <1>1. AuthInit => Abstract!SessionsInit
    BY DEF AuthInit, Abstract!SessionsInit, SessionState
  <1>2. AuthInv /\ AuthInv' /\ [AuthNext]_authVars => [Abstract!SessionsNext]_SessionState
    <2> SUFFICES ASSUME AuthInv, AuthInv', [AuthNext]_authVars
                 PROVE  [Abstract!SessionsNext]_SessionState
      OBVIOUS
    <2>1. clock \in Nat
      BY DEF AuthInv, LimiterInv, LimiterTypeOK
    <2>2. ASSUME UNCHANGED sessions, clock' >= clock
          PROVE  [Abstract!SessionsNext]_SessionState
      BY <2>2, SessionsOnlyEnd
    <2>3. ASSUME NEW t \in Threads, OtpWrite(t) PROVE Abstract!SessionsNext
      <3>1. PICK n \in Nat :
               /\ n = Len(sessions) /\ n < MaxSessions /\ DOMAIN sessions = 1..n
               /\ DOMAIN sessions' = 1..(n + 1)
               /\ \A s \in 1..n : sessions'[s] = sessions[s]
               /\ sessions'[n + 1].expires = clock + SessionTTL /\ ~sessions'[n + 1].revoked
        <4> DEFINE row == [user |-> challenges[task[t].of].user, challenge |-> task[t].of,
                           expires |-> clock + SessionTTL, revoked |-> FALSE]
        <4>1. sessions \in Seq(SessionRows) /\ Len(sessions) \in Nat
              /\ DOMAIN sessions = 1..Len(sessions)
          BY DEF AuthInv, AuthTypes
        <4>2. sessions' = Append(sessions, row) /\ Len(sessions) < MaxSessions
          BY <2>3 DEF OtpWrite
        <4>3. sessions' \in Seq(SessionRows)
          BY DEF AuthInv, AuthTypes
        <4>4. row.expires = clock + SessionTTL /\ ~row.revoked
          OBVIOUS
        <4> HIDE DEF row
        <4>5. /\ Len(sessions') = Len(sessions) + 1 /\ DOMAIN sessions' = 1..Len(sessions')
              /\ sessions'[Len(sessions) + 1] = row
              /\ \A s \in 1..Len(sessions) : sessions'[s] = sessions[s]
          BY <4>1, <4>2, <4>3
        <4>6. QED
          BY <4>1, <4>2, <4>4, <4>5
      <3>2. clock' = clock
        BY <2>3 DEF OtpWrite
      <3>3. Live(n + 1)'
        BY <3>1, <3>2, <2>1 DEF Live, AuthAssumption
      <3>4. \A s \in 1..n : Live(s)' = Live(s)
        BY <3>1, <3>2 DEF Live
      <3>5. /\ n + 1 \in 1..MaxSessions /\ SessionState[n + 1] = "none"
            /\ SessionState' = [SessionState EXCEPT ![n + 1] = "live"]
        <4>1. n + 1 \in 1..MaxSessions
          BY <3>1 DEF AuthAssumption
        <4>2. n + 1 \notin DOMAIN sessions
          BY <3>1
        <4>3. \A s \in 1..MaxSessions : s # n + 1 => SessionState'[s] = SessionState[s]
          <5> TAKE s \in 1..MaxSessions
          <5>1. s # n + 1 => (s \in 1..n <=> s \in 1..(n + 1))
            OBVIOUS
          <5>2. QED
            BY <5>1, <3>1, <3>4 DEF SessionState
        <4>4. SessionState'[n + 1] = "live"
          BY <4>1, <3>1, <3>3 DEF SessionState
        <4>5. SessionState[n + 1] = "none"
          BY <4>1, <4>2 DEF SessionState
        <4>6. /\ SessionState' = [s \in 1..MaxSessions |-> SessionState'[s]]
              /\ SessionState = [s \in 1..MaxSessions |-> SessionState[s]]
          BY DEF SessionState
        <4> HIDE DEF SessionState
        <4>7. QED
          BY <4>1, <4>3, <4>4, <4>5, <4>6
      <3>6. QED
        BY <3>5 DEF Abstract!SessionsNext, Abstract!Issue
    <2>4. ASSUME NEW t \in Threads, LogoutWrite(t)
          PROVE  [Abstract!SessionsNext]_SessionState
      <3>1. sessions \in Seq(SessionRows)
        BY DEF AuthInv, AuthTypes
      <3>2. /\ DOMAIN sessions' = DOMAIN sessions /\ clock' = clock
            /\ \A s \in DOMAIN sessions :
                  /\ sessions'[s].expires = sessions[s].expires
                  /\ sessions[s].revoked => sessions'[s].revoked
        BY <2>4, <3>1 DEF LogoutWrite, SessionRows
      <3>3. QED
        BY <3>2, <2>1, SessionsOnlyEnd
    <2>5. ASSUME NEW t \in Threads, AuthRequest(t) PROVE UNCHANGED sessions /\ clock' = clock
      BY <2>5 DEF AuthRequest, Request, AskLimiter, LogoutRead, tables
    <2>6. ASSUME NEW t \in Threads, AuthStep(t), ~OtpWrite(t), ~LogoutWrite(t)
          PROVE  UNCHANGED sessions /\ clock' = clock
      BY <2>6 DEF AuthStep, Admit, Grant, Refuse, Deny, RegisterRead, RegisterInsert,
         Challenge, Unauthorized, OtpRead, tables
    <2>7. CASE AuthTick \/ AuthRestart \/ UNCHANGED authVars
      <3>1. UNCHANGED sessions /\ clock' >= clock
        BY <2>1, <2>7 DEF AuthTick, LimiterTick, AuthRestart, LimiterRestart, authVars, tables
      <3>2. QED
        BY <3>1, <2>2
    <2>8. QED
      BY <2>1, <2>2, <2>3, <2>4, <2>5, <2>6, <2>7 DEF AuthNext
  <1>3. QED
    BY <1>1, <1>2, AuthInvariant, PTL DEF AuthSpec, ImplementsSessions, Abstract!SessionsSpec

=============================================================================
