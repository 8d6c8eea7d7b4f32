---------------------------- MODULE ReplayProofs ----------------------------
(***************************************************************************)
(* Safety of the replay cache for every number of threads, every capacity  *)
(* and every assignment of envelopes to message ids.                       *)
(***************************************************************************)
EXTENDS ReplayCache, WellFoundedInduction, FiniteSetTheorems, TLAPS

-----------------------------------------------------------------------------
(* Choices *)

\* A nonempty set of naturals has a least element.
LEMMA LeastNatural ==
    ASSUME NEW T, T \subseteq Nat, T # {}
    PROVE  \E x \in T : \A y \in T : x <= y
  <1> DEFINE less == OpToRel(<, Nat)
  <1>1. \A x, y \in Nat : <<x, y>> \in less <=> x < y
    BY DEF OpToRel
  <1>2. PICK x \in T : \A y \in T : ~(<<y, x>> \in less)
    BY NatLessThanWellFounded, WFMin
  <1>3. \A y \in T : x \in Nat /\ y \in Nat /\ ~(y < x)
    BY <1>1, <1>2
  <1>4. QED
    BY <1>3

\* The id a thread works on is in its page.
LEMMA IdOfInPage ==
    ASSUME NEW t \in Threads, task[t].page # {}, task[t].page \subseteq MessageIds
    PROVE  IdOf(t) \in task[t].page
  <1>1. task[t].page \subseteq Nat
    BY ReplayAssumption
  <1>2. QED
    BY <1>1, LeastNatural DEF IdOf

\* A trim drops a token of the cache, and none is older.
LEMMA OldestIsThere ==
    ASSUME IsCache(cache), DOMAIN cache # {}
    PROVE  /\ OldestToken(cache) \in DOMAIN cache
           /\ \A other \in DOMAIN cache : ~Older(cache[other], cache[OldestToken(cache)])
  <1>1. PICK entries : entries = cache
    OBVIOUS
  <1>2. /\ entries \in [DOMAIN entries -> Entries] /\ DOMAIN entries # {}
        /\ MessageIds \subseteq Nat
    BY <1>1, ReplayAssumption DEF IsCache
  <1>3. PICK s \in {entries[tok].seen : tok \in DOMAIN entries} :
           \A other \in DOMAIN entries : s <= entries[other].seen
    <2>1. {entries[tok].seen : tok \in DOMAIN entries} \subseteq Nat
      BY <1>2 DEF Entries
    <2>2. {entries[tok].seen : tok \in DOMAIN entries} # {}
      BY <1>2
    <2>3. QED
      BY <2>1, <2>2, LeastNatural
  <1>4. PICK first \in SUBSET (DOMAIN entries) : first = {tok \in DOMAIN entries : entries[tok].seen = s}
    OBVIOUS
  <1>5. PICK m \in {entries[tok].mid : tok \in first} : \A other \in first : m <= entries[other].mid
    <2>1. {entries[tok].mid : tok \in first} \subseteq Nat
      BY <1>2 DEF Entries
    <2>2. first # {}
      BY <1>3, <1>4
    <2>3. PICK mids \in SUBSET Nat : mids = {entries[tok].mid : tok \in first}
      BY <2>1
    <2>4. mids # {}
      BY <2>2, <2>3
    <2>5. PICK m \in mids : \A other \in mids : m <= other
      BY <2>4, LeastNatural
    <2>6. QED
      BY <2>3, <2>5
  <1>6. PICK least \in first : entries[least].mid = m
    BY <1>5
  <1>7. ASSUME NEW other \in DOMAIN entries PROVE ~Older(entries[other], entries[least])
    <2>1. /\ entries[other].seen \in Nat /\ entries[other].mid \in Nat
          /\ entries[least].seen = s /\ s \in Nat /\ m \in Nat
      BY <1>2, <1>4, <1>6 DEF Entries
    <2>2. s <= entries[other].seen
      BY <1>3
    <2>3. entries[other].seen = s => m <= entries[other].mid
      BY <1>4, <1>5
    <2>4. QED
      BY <1>6, <2>1, <2>2, <2>3 DEF Older
  <1>8. QED
    BY <1>1, <1>4, <1>6, <1>7 DEF OldestToken

-----------------------------------------------------------------------------
(* The invariant *)

\* What the type invariant says of one thread, that a trim has chosen a token, and
\* that what a push brought was printed before the save.
ThreadOK(t) ==
    /\ task[t] \in Tasks \cup {Idle}
    /\ AtToken(t) => task[t].page # {} /\ Token(t) \in Tokens
    /\ task[t].step = "delete" => task[t].victim \in Tokens
    /\ task[t].step = "save" => task[t].texts = {}
    /\ task[t].step = "write" /\ t \in Listeners => task[t].texts = {}
    /\ t \in dropped => Holding(t)

\* An id let through is the one of the entry, but for a token that was raced for.
PassedIsKnown ==
    \A id \in passed : \/ TokenOf[id] \in raced
                       \/ TokenOf[id] \in DOMAIN cache /\ cache[TokenOf[id]].mid = id

\* The entry a call has looked up is in the cache still, and of the same id, unless the
\* token is raced for.
HeldOK(t) ==
    Holding(t) =>
        \/ Token(t) \in raced
        \/ /\ t \notin dropped /\ Token(t) \in DOMAIN cache
           /\ task[t].step = "pass" => cache[Token(t)].mid = IdOf(t)

\* Whatever the file or a save under way remembers, memory may come to remember.
HasWatched(entries) == \E tok \in DOMAIN entries : entries[tok].mid = Watched
WatchedIsHeld ==
    HasWatched(cache) \/ HasWatched(disk) \/ \E t \in Threads : HasWatched(saves[t].doc)

\* The message is in good hands, or its fate is known.
Accounted == fate # "unseen" \/ Watched \in InHand

ReplayInv ==
    /\ ReplayTypeOK
    /\ \A t \in Threads : ThreadOK(t)
    /\ PassedIsKnown
    /\ \A t \in Threads : HeldOK(t)
    /\ WatchedIsHeld => Accounted

\* The variables but the tasks of the threads.
TypeButTasks ==
    /\ IsCache(cache) /\ IsCache(disk)
    /\ DOMAIN saves = Threads /\ \A t \in Threads : IsSave(saves[t])
    /\ clock \in Nat
    /\ fate \in Fates
    /\ passed \subseteq MessageIds
    /\ raced \subseteq Tokens
    /\ IsHistory(seenAt) /\ IsHistory(savedAt)

\* A step of one thread keeps the type invariant if it keeps that thread's.
LEMMA ThreadType ==
    ASSUME ReplayInv, NEW t \in Threads, TypeButTasks', ThreadOK(t)',
           task' = [task EXCEPT ![t] = task'[t]],
           dropped' \subseteq Threads, \A u \in dropped' : u = t \/ Holding(u)
    PROVE  ReplayTypeOK' /\ \A u \in Threads : ThreadOK(u)'
  <1>1. task \in [Threads -> Tasks \cup {Idle}]
    BY DEF ReplayInv, ReplayTypeOK
  <1>2. ASSUME NEW u \in Threads PROVE ThreadOK(u)'
    <2>1. CASE u = t
      BY <2>1
    <2>2. CASE u # t
      <3>1. task'[u] = task[u]
        BY <1>1, <2>2
      <3>2. ThreadOK(u)
        BY DEF ReplayInv
      <3>3. u \in dropped' => Holding(u)
        BY <2>2
      <3>4. QED
        BY <3>1, <3>2, <3>3 DEF ThreadOK, AtToken, Holding, Token, IdOf
    <2>3. QED
      BY <2>1, <2>2
  <1>3. task' \in [Threads -> Tasks \cup {Idle}]
    BY <1>1, <1>2 DEF ThreadOK
  <1>4. (dropped \subseteq {u \in Threads : Holding(u)})'
    BY <1>2 DEF ThreadOK
  <1>5. QED
    BY <1>2, <1>3, <1>4 DEF ReplayTypeOK, TypeButTasks, ThreadOK

\* What one thread has taken up, the others do not lose.
LEMMA StaysAccounted ==
    ASSUME ReplayInv, NEW t \in Threads,
           task' = [task EXCEPT ![t] = task'[t]],
           fate # "unseen" => fate' # "unseen",
           Watched \in TakenUp(t) => Watched \in TakenUp(t)' \/ fate' # "unseen",
           Accounted
    PROVE  Accounted'
  <1>1. ASSUME NEW u \in Threads, Watched \in TakenUp(u) PROVE Accounted'
    <2>1. CASE u = t
      BY <1>1, <2>1 DEF Accounted, InHand
    <2>2. CASE u # t
      <3>1. task'[u] = task[u]
        BY <2>2 DEF ReplayInv, ReplayTypeOK
      <3>2. TakenUp(u)' = TakenUp(u)
        BY <3>1 DEF TakenUp, IdOf
      <3>3. QED
        BY <1>1, <3>2 DEF Accounted, InHand
    <2>3. QED
      BY <2>1, <2>2
  <1>2. Watched \in InHand => \E u \in Threads : Watched \in TakenUp(u)
    BY DEF InHand
  <1>3. QED
    BY <1>1, <1>2 DEF Accounted

\* The entries that other calls have looked up stay as they are.
LEMMA OthersHold ==
    ASSUME ReplayInv, NEW t \in Threads, task' = [task EXCEPT ![t] = task'[t]],
           raced \subseteq raced', dropped' \subseteq dropped \cup {t},
           \A tok \in DOMAIN cache : tok \in DOMAIN cache' /\ cache'[tok].mid = cache[tok].mid,
           NEW u \in Threads, u # t
    PROVE  HeldOK(u)'
  <1>1. task'[u] = task[u] /\ HeldOK(u)
    BY DEF ReplayInv, ReplayTypeOK
  <1>2. /\ Holding(u)' <=> Holding(u)
        /\ IdOf(u)' = IdOf(u) /\ Token(u)' = Token(u)
    BY <1>1 DEF Holding, IdOf, Token
  <1>3. QED
    BY <1>1, <1>2 DEF HeldOK

\* A step of one thread that records nothing and drops nothing.
LEMMA ThreadStep ==
    ASSUME ReplayInv, NEW t \in Threads, TypeButTasks', ThreadOK(t)', HeldOK(t)',
           task' = [task EXCEPT ![t] = task'[t]],
           fate # "unseen" => fate' # "unseen",
           Watched \in TakenUp(t) => Watched \in TakenUp(t)' \/ fate' # "unseen",
           \A tok \in DOMAIN cache : tok \in DOMAIN cache' /\ cache'[tok].mid = cache[tok].mid,
           WatchedIsHeld' => WatchedIsHeld,
           raced \subseteq raced', dropped' \subseteq dropped,
           PassedIsKnown'
    PROVE  ReplayInv'
  <1>1. WatchedIsHeld' => Accounted'
    BY StaysAccounted DEF ReplayInv
  <1>2. dropped' \subseteq Threads /\ \A u \in dropped' : u = t \/ Holding(u)
    BY DEF ReplayInv, ReplayTypeOK
  <1>3. ReplayTypeOK' /\ \A u \in Threads : ThreadOK(u)'
    BY <1>2, ThreadType
  <1>4. \A u \in Threads : HeldOK(u)'
    BY OthersHold
  <1>5. QED
    BY <1>1, <1>3, <1>4 DEF ReplayInv

\* What ReplayInv says of the steps of a thread at work on an id.
LEMMA AtWork ==
    ASSUME ReplayInv, NEW t \in Threads, Rendering(t) \/ AtToken(t)
    PROVE  /\ task[t] \in Tasks /\ task \in [Threads -> Tasks \cup {Idle}]
           /\ IdOf(t) \in task[t].page /\ IdOf(t) \in MessageIds
           /\ task[t].step # "render" => Token(t) \in Tokens
           /\ TypeButTasks
           /\ t \in dropped => Holding(t)
  <1>1. task[t].step # "idle"
    BY DEF Rendering, At, AtToken
  <1>2. task[t] \in Tasks /\ task \in [Threads -> Tasks \cup {Idle}]
    BY <1>1 DEF ReplayInv, ReplayTypeOK, Idle
  <1>3. task[t].page # {} /\ task[t].page \subseteq MessageIds
    BY <1>2 DEF ReplayInv, ThreadOK, Rendering, Tasks
  <1>4. task[t].step # "render" => Token(t) \in Tokens
    BY DEF ReplayInv, ThreadOK, Rendering, At
  <1>5. TypeButTasks /\ (t \in dropped => Holding(t))
    BY DEF ReplayInv, ReplayTypeOK, TypeButTasks, ThreadOK
  <1>6. QED
    BY <1>2, <1>3, <1>4, <1>5, IdOfInPage

\* The outcomes of rendering one id.
LEMMA OutcomeOK ==
    ASSUME ReplayInv, NEW t \in Threads, Rendering(t) \/ AtToken(t),
           Pass(t, IdOf(t)) \/ Notice(t, IdOf(t)), t \notin dropped'
    PROVE  /\ ThreadOK(t)' /\ HeldOK(t)' /\ task' = [task EXCEPT ![t] = task'[t]]
           /\ TakenUp(t)' = task'[t].texts
           /\ Pass(t, IdOf(t)) => task'[t].texts = task[t].texts \cup {IdOf(t)}
           /\ ~Pass(t, IdOf(t)) => task'[t].texts = task[t].texts
  <1>1. /\ task[t] \in Tasks /\ task \in [Threads -> Tasks \cup {Idle}]
        /\ IdOf(t) \in MessageIds
    BY AtWork
  <1>2. task' = [task EXCEPT ![t] = task'[t]]
    BY <1>1 DEF Pass, Notice
  <1>3. PICK id \in MessageIds, old \in Tasks : id = IdOf(t) /\ old = task[t]
    BY <1>1
  <1>4. Pass(t, id) => task'[t] = [step |-> "render", page |-> old.page \ {id},
                                   texts |-> old.texts \cup {id}, victim |-> old.victim]
    BY <1>1, <1>3 DEF Pass, Tasks
  <1>5. ~Pass(t, id) => task'[t] = [step |-> "render", page |-> old.page \ {id},
                                    texts |-> old.texts, victim |-> NoToken]
    BY <1>1, <1>3 DEF Notice, Tasks
  <1>6. ASSUME task'[t] \in Tasks, task'[t].step = "render"
        PROVE  ThreadOK(t)' /\ HeldOK(t)' /\ TakenUp(t)' = task'[t].texts
    BY <1>6 DEF ThreadOK, HeldOK, AtToken, Holding, TakenUp
  <1>7. CASE Pass(t, id)
    <2>1. task'[t] \in Tasks /\ task'[t].step = "render" /\ task'[t].texts = old.texts \cup {id}
      BY <1>3, <1>4, <1>7 DEF Tasks, Steps
    <2>2. QED
      BY <1>2, <1>3, <1>6, <1>7, <2>1
  <1>8. CASE ~Pass(t, id)
    <2>1. task'[t] \in Tasks /\ task'[t].step = "render" /\ task'[t].texts = old.texts
      BY <1>3, <1>5, <1>8 DEF Tasks, Steps
    <2>2. QED
      BY <1>2, <1>3, <1>6, <1>8, <2>1
  <1>9. QED
    BY <1>7, <1>8

\* A thread goes on with the id it works on.
LEMMA GoesOn ==
    ASSUME ReplayInv, NEW t \in Threads, task[t] \in Tasks,
           task[t].page # {}, Token(t) \in Tokens,
           NEW step \in {"pass", "ignore", "record", "trim", "delete"},
           NEW victim \in Tokens \cup {NoToken},
           step = "delete" => victim \in Tokens,
           task' = [task EXCEPT ![t] = task'[t]], t \notin dropped',
           task'[t] = [step |-> step, page |-> task[t].page, texts |-> task[t].texts,
                       victim |-> victim]
    PROVE  /\ ThreadOK(t)' /\ task'[t].step = step
           /\ IdOf(t)' = IdOf(t) /\ Token(t)' = Token(t)
           /\ TakenUp(t)' = task[t].texts
                              \cup (IF step \in {"trim", "delete"} THEN {IdOf(t)} ELSE {})
  <1>1. task'[t].page = task[t].page /\ task'[t].step = step /\ task'[t].texts = task[t].texts
        /\ task'[t].victim = victim /\ task'[t] \in Tasks
    BY DEF Tasks, Steps
  <1>2. IdOf(t)' = IdOf(t)
    BY <1>1 DEF IdOf
  <1>3. Token(t)' = Token(t)
    BY <1>2 DEF Token
  <1>4. ThreadOK(t)'
    BY <1>1, <1>3 DEF ThreadOK
  <1>5. TakenUp(t)' = task[t].texts \cup (IF step \in {"trim", "delete"} THEN {IdOf(t)} ELSE {})
    BY <1>1, <1>2 DEF TakenUp
  <1>6. QED
    BY <1>1, <1>2, <1>3, <1>4, <1>5

\* A step that touches neither the cache nor the file nor a save.
LEMMA NothingMoves ==
    ASSUME ReplayInv, UNCHANGED <<cache, disk, saves, clock, passed, raced, seenAt, savedAt>>,
           fate' \in Fates
    PROVE  TypeButTasks' /\ PassedIsKnown' /\ (WatchedIsHeld' <=> WatchedIsHeld)
  <1>1. TypeButTasks'
    BY DEF ReplayInv, ReplayTypeOK, TypeButTasks, IsCache, IsHistory, IsSave
  <1>2. PassedIsKnown'
    BY DEF ReplayInv, PassedIsKnown
  <1>3. (WatchedIsHeld' <=> WatchedIsHeld)
    BY DEF WatchedIsHeld, HasWatched
  <1>4. QED
    BY <1>1, <1>2, <1>3

-----------------------------------------------------------------------------
(* One lemma for each action *)

LEMMA BeginKeeps ==
    ASSUME ReplayInv, NEW t \in Threads, NEW page \in SUBSET MessageIds, Begin(t, page)
    PROVE  ReplayInv'
  <1>1. /\ task \in [Threads -> Tasks \cup {Idle}]
        /\ task' = [task EXCEPT ![t] = task'[t]]
        /\ task'[t] = [step |-> "render", page |-> page, texts |-> {}, victim |-> NoToken]
    BY DEF Begin, ReplayInv, ReplayTypeOK, Idle
  <1>2. task[t] = Idle
    BY DEF Begin, At, ReplayInv, ReplayTypeOK, Tasks, Steps
  <1>3. Watched \notin TakenUp(t) /\ t \notin dropped
    BY <1>2 DEF TakenUp, Idle, ReplayInv, ThreadOK, Holding
  <1>4. UNCHANGED <<cache, disk, saves, dropped, clock, fate, passed, raced, seenAt, savedAt>>
    BY DEF Begin, saved, met
  <1>5. ThreadOK(t)' /\ HeldOK(t)'
    BY <1>1, <1>3, <1>4 DEF ThreadOK, HeldOK, AtToken, Holding, Tasks, Steps
  <1>6. TypeButTasks' /\ PassedIsKnown' /\ (WatchedIsHeld' <=> WatchedIsHeld)
    BY <1>4, NothingMoves DEF ReplayInv, ReplayTypeOK
  <1>7. QED
    BY <1>1, <1>3, <1>4, <1>5, <1>6, ThreadStep

LEMMA UnreadableKeeps ==
    ASSUME ReplayInv, NEW t \in Threads, Unreadable(t) \/ Legacy(t)
    PROVE  ReplayInv'
  <1>1. Rendering(t) /\ (Pass(t, IdOf(t)) \/ Notice(t, IdOf(t)))
        /\ UNCHANGED <<cache, disk, saves, dropped, clock, fate, passed, raced, seenAt, savedAt>>
    BY DEF Unreadable, Legacy, saved, met
  <1>2. t \notin dropped
    BY <1>1, AtWork DEF Rendering, At, Holding
  <1>3. /\ ThreadOK(t)' /\ HeldOK(t)' /\ task' = [task EXCEPT ![t] = task'[t]]
        /\ task[t].texts \subseteq TakenUp(t)'
    BY <1>1, <1>2, OutcomeOK
  <1>4. TakenUp(t) = task[t].texts
    BY <1>1 DEF TakenUp, Rendering, At
  <1>5. TypeButTasks' /\ PassedIsKnown' /\ (WatchedIsHeld' <=> WatchedIsHeld)
    BY <1>1, NothingMoves DEF ReplayInv, ReplayTypeOK
  <1>6. QED
    BY <1>1, <1>3, <1>4, <1>5, ThreadStep

\* An entry is looked up.
LEMMA KnownKeeps ==
    ASSUME ReplayInv, NEW t \in Threads, Known(t)
    PROVE  ReplayInv'
  <1>1. /\ Rendering(t) /\ Token(t) \in DOMAIN cache /\ Token(t) \in Tokens
        /\ task[t] \in Tasks /\ task \in [Threads -> Tasks \cup {Idle}]
        /\ task[t].page # {} /\ t \notin dropped
    BY AtWork DEF Known, Rendering, At, Holding, TypeButTasks, IsCache
  <1>2. PICK step \in {"pass", "ignore"} :
           /\ task' = [task EXCEPT ![t].step = step]
           /\ step = "pass" => cache[Token(t)].mid = IdOf(t)
    BY DEF Known
  <1>3. /\ task' = [task EXCEPT ![t] = task'[t]]
        /\ task'[t] = [step |-> step, page |-> task[t].page, texts |-> task[t].texts,
                       victim |-> task[t].victim]
        /\ task[t].victim \in Tokens \cup {NoToken}
    BY <1>1, <1>2 DEF Tasks
  <1>4. UNCHANGED <<cache, disk, saves, dropped, clock, fate, passed, raced, seenAt, savedAt>>
    BY DEF Known, saved, met
  <1>5. /\ ThreadOK(t)' /\ task'[t].step = step /\ TakenUp(t)' = task[t].texts
        /\ IdOf(t)' = IdOf(t) /\ Token(t)' = Token(t)
    BY <1>1, <1>3, <1>4, GoesOn
  <1>6. HeldOK(t)'
    BY <1>1, <1>2, <1>4, <1>5 DEF HeldOK
  <1>7. TakenUp(t) = task[t].texts
    BY <1>1 DEF TakenUp, Rendering, At
  <1>8. TypeButTasks' /\ PassedIsKnown' /\ (WatchedIsHeld' <=> WatchedIsHeld)
    BY <1>4, NothingMoves DEF ReplayInv, ReplayTypeOK
  <1>9. QED
    BY <1>3, <1>4, <1>5, <1>6, <1>7, <1>8, ThreadStep

\* Only last_seen_at changes in an entry.
LEMMA SeenKeeps ==
    ASSUME IsCache(cache), NEW tok \in DOMAIN cache, cache' = [cache EXCEPT ![tok].seen = clock],
           clock \in Nat
    PROVE  /\ DOMAIN cache' = DOMAIN cache /\ IsCache(cache')
           /\ \A other \in DOMAIN cache : cache'[other].mid = cache[other].mid
           /\ HasWatched(cache') <=> HasWatched(cache)
  <1>1. /\ DOMAIN cache' = DOMAIN cache
        /\ \A other \in DOMAIN cache : cache'[other].mid = cache[other].mid
        /\ cache' \in [DOMAIN cache' -> Entries]
    BY DEF IsCache, Entries
  <1>2. QED
    BY <1>1 DEF IsCache, HasWatched

\* last_seen_at is set in it.
LEMMA TouchKeeps ==
    ASSUME ReplayInv, NEW t \in Threads, Touch(t)
    PROVE  ReplayInv'
  <1>1. /\ Holding(t) /\ AtToken(t) /\ (Pass(t, IdOf(t)) \/ Notice(t, IdOf(t)))
        /\ task[t].step = "pass" \/ passed' = passed
        /\ passed' \in {passed, passed \cup {IdOf(t)}}
        /\ dropped' = dropped \ {t}
    BY DEF Touch, AtToken, Holding, At
  <1>2. PICK tok \in Tokens : tok = Token(t)
    BY <1>1, AtWork DEF AtToken, Holding
  <1>3. /\ cache' = IF t \in dropped THEN cache ELSE [cache EXCEPT ![tok].seen = clock]
        /\ seenAt' = With(seenAt, tok, clock)
        /\ raced' \in {raced, raced \cup {tok}}
        /\ UNCHANGED <<disk, saves, clock, fate, savedAt>>
    BY <1>2 DEF Touch, saved
  <1>4. /\ ThreadOK(t)' /\ HeldOK(t)' /\ task' = [task EXCEPT ![t] = task'[t]]
        /\ task[t].texts \subseteq TakenUp(t)'
    BY <1>1, OutcomeOK
  <1>5. TakenUp(t) = task[t].texts
    BY <1>1 DEF TakenUp, Holding
  <1>6. TypeButTasks /\ IdOf(t) \in MessageIds /\ HeldOK(t) /\ ThreadOK(t)
    BY <1>1, AtWork DEF ReplayInv
  <1>7. t \notin dropped => tok \in DOMAIN cache \/ tok \in raced
    BY <1>1, <1>2, <1>6 DEF HeldOK
  <1>8. /\ DOMAIN cache' = DOMAIN cache /\ IsCache(cache')
        /\ \A other \in DOMAIN cache : cache'[other].mid = cache[other].mid
        /\ HasWatched(cache') <=> HasWatched(cache)
    <2>1. CASE cache' = cache
      BY <1>6, <2>1 DEF TypeButTasks, HasWatched, IsCache
    <2>2. CASE tok \in DOMAIN cache /\ cache' = [cache EXCEPT ![tok].seen = clock]
      BY <1>6, <2>2, SeenKeeps DEF TypeButTasks
    <2>3. CASE tok \notin DOMAIN cache
      <3>1. cache' = cache
        BY <1>3, <1>6, <2>3 DEF TypeButTasks, IsCache
      <3>2. QED
        BY <2>1, <3>1
    <2>4. QED
      BY <1>3, <2>1, <2>2, <2>3
  <1>9. IsHistory(seenAt)'
    BY <1>3, <1>6 DEF TypeButTasks, IsHistory, With
  <1>10. TypeButTasks'
    BY <1>1, <1>3, <1>6, <1>8, <1>9 DEF TypeButTasks, IsCache, IsHistory, IsSave
  <1>11. ASSUME NEW id \in passed'
         PROVE  \/ TokenOf[id] \in raced'
                \/ TokenOf[id] \in DOMAIN cache' /\ cache'[TokenOf[id]].mid = id
    <2>1. CASE id \in passed
      BY <1>3, <1>8, <2>1 DEF ReplayInv, PassedIsKnown
    <2>2. CASE id \notin passed
      <3>1. id = IdOf(t) /\ task[t].step = "pass" /\ TokenOf[id] = tok
        BY <1>1, <1>2, <2>2 DEF Token
      <3>2. QED
        BY <1>1, <1>2, <1>3, <1>6, <1>8, <3>1 DEF HeldOK
    <2>3. QED
      BY <2>1, <2>2
  <1>12. PassedIsKnown'
    BY <1>11 DEF PassedIsKnown
  <1>13. WatchedIsHeld' => WatchedIsHeld
    BY <1>3, <1>8 DEF WatchedIsHeld, HasWatched
  <1>14. fate' = fate /\ raced \subseteq raced' /\ dropped' \subseteq dropped
    BY <1>1, <1>3
  <1>15. QED
    BY <1>4, <1>5, <1>8, <1>10, <1>12, <1>13, <1>14, ThreadStep

LEMMA NewKeeps ==
    ASSUME ReplayInv, NEW t \in Threads, New(t)
    PROVE  ReplayInv'
  <1>1. /\ Rendering(t) /\ Token(t) \in Tokens
        /\ task[t] \in Tasks /\ task \in [Threads -> Tasks \cup {Idle}]
        /\ task[t].page # {} /\ t \notin dropped
    BY AtWork DEF New, Rendering, At, Holding
  <1>2. /\ task' = [task EXCEPT ![t] = task'[t]]
        /\ task'[t] = [step |-> "record", page |-> task[t].page, texts |-> task[t].texts,
                       victim |-> task[t].victim]
        /\ task[t].victim \in Tokens \cup {NoToken}
    BY <1>1 DEF New, Tasks
  <1>3. UNCHANGED <<cache, disk, saves, dropped, clock, fate, passed, raced, seenAt, savedAt>>
    BY DEF New, saved, met
  <1>4. ThreadOK(t)' /\ HeldOK(t)' /\ TakenUp(t)' = task[t].texts
    BY <1>1, <1>2, <1>3, GoesOn DEF HeldOK, Holding
  <1>5. TakenUp(t) = task[t].texts
    BY <1>1 DEF TakenUp, Rendering, At
  <1>6. TypeButTasks' /\ PassedIsKnown' /\ (WatchedIsHeld' <=> WatchedIsHeld)
    BY <1>3, NothingMoves DEF ReplayInv, ReplayTypeOK
  <1>7. QED
    BY <1>2, <1>3, <1>4, <1>5, <1>6, ThreadStep

\* A thread adds or replaces the entry of a token.
LEMMA WithKeeps ==
    ASSUME TypeButTasks, NEW tok \in Tokens, NEW mid \in MessageIds, TokenOf[mid] = tok
    PROVE  /\ IsCache(With(cache, tok, [mid |-> mid, seen |-> clock]))
           /\ IsHistory(With(seenAt, tok, clock))
  <1>1. PICK entry \in Entries : entry = [mid |-> mid, seen |-> clock] /\ entry.mid = mid
    <2>1. [mid |-> mid, seen |-> clock] \in Entries
      BY DEF TypeButTasks, Entries
    <2>2. QED
      BY <2>1
  <1>2. PICK entries : entries = With(cache, tok, entry)
    OBVIOUS
  <1>3. /\ DOMAIN entries = DOMAIN cache \cup {tok}
        /\ \A other \in DOMAIN entries :
              entries[other] = IF other = tok THEN entry ELSE cache[other]
        /\ entries \in [DOMAIN entries -> Entries]
    BY <1>1, <1>2 DEF With, TypeButTasks, IsCache
  <1>4. IsCache(entries)
    BY <1>1, <1>3 DEF IsCache, TypeButTasks
  <1>5. IsHistory(With(seenAt, tok, clock))
    BY DEF TypeButTasks, IsHistory, With
  <1>6. QED
    BY <1>1, <1>2, <1>4, <1>5

\* The two outcomes of recording a token: it is found there already ...
RecordFinds(t) ==
    /\ Token(t) \in DOMAIN cache
    /\ cache' = [cache EXCEPT ![Token(t)].seen = clock]
    /\ Pass(t, IdOf(t))
    /\ UNCHANGED dropped

\* ... or its entry is put there.
RecordPuts(t) ==
    /\ cache' = With(cache, Token(t), [mid |-> IdOf(t), seen |-> clock])
    /\ task' = [task EXCEPT ![t].step = "trim"]
    /\ dropped' = dropped \cup Holders(Token(t))

LEMMA RecordFindsKeeps ==
    ASSUME ReplayInv, NEW t \in Threads, Record(t), RecordFinds(t)
    PROVE  ReplayInv'
  <1>1. PICK tok \in DOMAIN cache : tok = Token(t)
    BY DEF RecordFinds
  <1>2. /\ task[t].step = "record" /\ Pass(t, IdOf(t)) /\ UNCHANGED dropped
        /\ cache' = [cache EXCEPT ![tok].seen = clock]
        /\ seenAt' = With(seenAt, tok, clock) /\ raced' = raced \cup {tok}
        /\ passed' = passed \cup {IdOf(t)}
        /\ UNCHANGED <<disk, saves, clock, fate, savedAt>>
    BY <1>1 DEF Record, RecordFinds, At, saved
  <1>3. AtToken(t) /\ t \notin dropped
    BY <1>2, AtWork DEF AtToken, Holding
  <1>4. /\ ThreadOK(t)' /\ HeldOK(t)' /\ task' = [task EXCEPT ![t] = task'[t]]
        /\ task[t].texts \subseteq TakenUp(t)'
    BY <1>2, <1>3, OutcomeOK
  <1>5. TakenUp(t) = task[t].texts
    BY <1>2 DEF TakenUp
  <1>6. TypeButTasks /\ IdOf(t) \in MessageIds /\ tok \in Tokens
    BY <1>1, <1>2, <1>3, AtWork
  <1>7. /\ DOMAIN cache' = DOMAIN cache /\ IsCache(cache')
        /\ \A other \in DOMAIN cache : cache'[other].mid = cache[other].mid
        /\ HasWatched(cache') <=> HasWatched(cache)
    BY <1>2, <1>6, SeenKeeps DEF TypeButTasks
  <1>8. IsHistory(seenAt)'
    BY <1>2, <1>6 DEF TypeButTasks, IsHistory, With
  <1>9. TypeButTasks'
    BY <1>2, <1>6, <1>7, <1>8 DEF TypeButTasks, IsCache, IsHistory, IsSave
  <1>10. PassedIsKnown'
    BY <1>1, <1>2, <1>7 DEF ReplayInv, PassedIsKnown, Token
  <1>11. WatchedIsHeld' => WatchedIsHeld
    BY <1>2, <1>7 DEF WatchedIsHeld, HasWatched
  <1>12. fate' = fate /\ raced \subseteq raced' /\ dropped' \subseteq dropped
    BY <1>2
  <1>13. QED
    BY <1>4, <1>5, <1>7, <1>9, <1>10, <1>11, <1>12, ThreadStep

\* The token is recorded with the id the thread works on, and the trim begins.  The entry
\* of another call that this one replaces is out of the hands of those that looked it up.
LEMMA RecordPutsKeeps ==
    ASSUME ReplayInv, NEW t \in Threads, Record(t), RecordPuts(t)
    PROVE  ReplayInv'
  <1>1. /\ task[t].step = "record" /\ AtToken(t)
    BY DEF Record, At, AtToken
  <1>2. /\ task[t] \in Tasks /\ task \in [Threads -> Tasks \cup {Idle}]
        /\ task[t].page # {} /\ ~Holding(t) /\ t \notin dropped
        /\ IdOf(t) \in MessageIds /\ Token(t) \in Tokens /\ TypeButTasks
    BY <1>1, AtWork DEF Holding
  <1>3. PICK tok \in Tokens, id \in MessageIds :
           tok = Token(t) /\ id = IdOf(t) /\ TokenOf[id] = tok
    BY <1>2 DEF Token
  <1>4. /\ task' = [task EXCEPT ![t].step = "trim"]
        /\ cache' = With(cache, tok, [mid |-> id, seen |-> clock])
        /\ seenAt' = With(seenAt, tok, clock) /\ raced' \in {raced, raced \cup {tok}}
        /\ tok \in DOMAIN cache => tok \in raced'
        /\ passed' = passed \cup {id} /\ dropped' = dropped \cup Holders(tok)
        /\ UNCHANGED <<disk, saves, clock, fate, savedAt>>
    BY <1>3 DEF Record, RecordPuts, saved
  <1>5. /\ task' = [task EXCEPT ![t] = task'[t]]
        /\ task'[t] = [step |-> "trim", page |-> task[t].page, texts |-> task[t].texts,
                       victim |-> task[t].victim]
        /\ task[t].victim \in Tokens \cup {NoToken}
    BY <1>2, <1>4 DEF Tasks
  <1>6. /\ \A u \in Holders(tok) : u \in Threads /\ Holding(u) /\ Token(u) = tok
        /\ \A u \in dropped : u \in Threads /\ Holding(u)
        /\ t \notin dropped'
    BY <1>2, <1>4 DEF Holders, ReplayInv, ReplayTypeOK
  <1>7. /\ ThreadOK(t)' /\ task'[t].step = "trim"
        /\ TakenUp(t)' = task[t].texts \cup {id}
    BY <1>2, <1>3, <1>5, <1>6, GoesOn
  <1>8. TakenUp(t) = task[t].texts
    BY <1>1 DEF TakenUp
  <1>9. TypeButTasks'
    <2>1. IsCache(cache)' /\ IsHistory(seenAt)'
      BY <1>2, <1>3, <1>4, WithKeeps DEF IsCache, IsHistory
    <2>2. QED
      BY <1>2, <1>3, <1>4, <2>1 DEF TypeButTasks, IsCache, IsHistory, IsSave
  <1>10. /\ DOMAIN cache' = DOMAIN cache \cup {tok} /\ cache'[tok].mid = id
         /\ \A other \in DOMAIN cache \ {tok} : cache'[other] = cache[other]
    BY <1>3, <1>4 DEF With
  <1>11. PassedIsKnown'
    <2>1. ASSUME NEW other \in passed'
          PROVE  \/ TokenOf[other] \in raced'
                 \/ TokenOf[other] \in DOMAIN cache' /\ cache'[TokenOf[other]].mid = other
      BY <1>3, <1>4, <1>10 DEF ReplayInv, PassedIsKnown
    <2>2. QED
      BY <2>1 DEF PassedIsKnown
  <1>12. ReplayTypeOK' /\ \A u \in Threads : ThreadOK(u)'
    BY <1>4, <1>5, <1>6, <1>7, <1>9, ThreadType
  <1>13. Accounted => Accounted'
    BY <1>4, <1>5, <1>7, <1>8, StaysAccounted
  <1>14. ASSUME NEW u \in Threads PROVE HeldOK(u)'
    <2>1. CASE u = t
      BY <1>7, <2>1 DEF HeldOK, Holding
    <2>2. CASE u # t
      <3>1. task'[u] = task[u] /\ HeldOK(u)
        BY <1>5, <2>2 DEF ReplayInv, ReplayTypeOK
      <3>2. /\ Holding(u)' <=> Holding(u)
            /\ IdOf(u)' = IdOf(u) /\ Token(u)' = Token(u)
        BY <3>1 DEF Holding, IdOf, Token
      <3>3. CASE Token(u) = tok
        BY <1>4, <3>1, <3>2, <3>3 DEF HeldOK
      <3>4. CASE Token(u) # tok
        BY <1>4, <1>6, <1>10, <3>1, <3>2, <3>4 DEF HeldOK
      <3>5. QED
        BY <3>3, <3>4
    <2>3. QED
      BY <2>1, <2>2
  <1>15. WatchedIsHeld' => Accounted'
    <2>1. CASE Watched = id
      BY <1>7, <2>1 DEF Accounted, InHand
    <2>2. CASE Watched # id
      <3>1. HasWatched(cache') => HasWatched(cache)
        BY <1>10, <2>2 DEF HasWatched
      <3>2. WatchedIsHeld' => WatchedIsHeld
        BY <1>4, <3>1 DEF WatchedIsHeld, HasWatched
      <3>3. QED
        BY <1>13, <3>2 DEF ReplayInv
    <2>3. QED
      BY <2>1, <2>2
  <1>16. QED
    BY <1>11, <1>12, <1>14, <1>15 DEF ReplayInv

LEMMA RecordKeeps ==
    ASSUME ReplayInv, NEW t \in Threads, Record(t)
    PROVE  ReplayInv'
  <1>1. RecordFinds(t) \/ RecordPuts(t)
    BY DEF Record, RecordFinds, RecordPuts
  <1>2. QED
    BY <1>1, RecordFindsKeeps, RecordPutsKeeps

\* The trim ends, or an exception ends it.
LEMMA TrimEndsKeeps ==
    ASSUME ReplayInv, NEW t \in Threads, TrimDone(t) \/ TrimFails(t) \/ TrimMissed(t)
    PROVE  ReplayInv'
  <1>1. /\ task[t].step \in {"trim", "delete"} /\ AtToken(t)
        /\ Pass(t, IdOf(t)) \/ Notice(t, IdOf(t))
    BY DEF TrimDone, TrimFails, TrimMissed, At, AtToken
  <1>2. UNCHANGED <<cache, disk, saves, dropped, clock, passed, raced, seenAt, savedAt>>
    BY DEF TrimDone, TrimFails, TrimMissed, saved, met
  <1>3. t \notin dropped'
    BY <1>1, <1>2, AtWork DEF Holding
  <1>4. /\ ThreadOK(t)' /\ HeldOK(t)' /\ task' = [task EXCEPT ![t] = task'[t]]
        /\ TakenUp(t)' = task'[t].texts
        /\ Pass(t, IdOf(t)) => task'[t].texts = task[t].texts \cup {IdOf(t)}
        /\ ~Pass(t, IdOf(t)) => task'[t].texts = task[t].texts
    BY <1>1, <1>3, OutcomeOK
  <1>5. TakenUp(t) = task[t].texts \cup {IdOf(t)}
    BY <1>1 DEF TakenUp
  <1>6. /\ fate # "unseen" => fate' # "unseen"
        /\ ~Pass(t, IdOf(t)) => fate' = IF IdOf(t) = Watched /\ fate = "unseen" THEN "cut" ELSE fate
        /\ fate \in Fates /\ fate' \in Fates
    BY DEF TrimDone, TrimFails, TrimMissed, CutShort, ReplayInv, ReplayTypeOK, Fates
  <1>7. TypeButTasks' /\ PassedIsKnown' /\ (WatchedIsHeld' <=> WatchedIsHeld)
    BY <1>2, <1>6, NothingMoves
  <1>8. Watched \in TakenUp(t) => Watched \in TakenUp(t)' \/ fate' # "unseen"
    BY <1>4, <1>5, <1>6
  <1>9. QED
    BY <1>2, <1>4, <1>6, <1>7, <1>8, ThreadStep

LEMMA TrimChooseKeeps ==
    ASSUME ReplayInv, NEW t \in Threads, TrimChoose(t)
    PROVE  ReplayInv'
  <1>1. task[t].step = "trim" /\ AtToken(t)
    BY DEF TrimChoose, At, AtToken
  <1>2. /\ task[t] \in Tasks /\ task \in [Threads -> Tasks \cup {Idle}]
        /\ task[t].page # {} /\ t \notin dropped
        /\ Token(t) \in Tokens /\ TypeButTasks
    BY <1>1, AtWork DEF Holding
  <1>3. PICK victim \in Tokens : victim = OldestToken(cache)
    <2>1. DOMAIN cache # {}
      <3>1. SUFFICES ASSUME DOMAIN cache = {} PROVE FALSE
        OBVIOUS
      <3>2. Cardinality(DOMAIN cache) = 0
        BY <3>1, FS_EmptySet
      <3>3. QED
        BY <3>2, ReplayAssumption DEF TrimChoose
    <2>2. OldestToken(cache) \in DOMAIN cache
      BY <1>2, <2>1, OldestIsThere DEF TypeButTasks
    <2>3. QED
      BY <1>2, <2>2 DEF TypeButTasks, IsCache
  <1>4. /\ task' = [task EXCEPT ![t] = task'[t]]
        /\ task'[t] = [step |-> "delete", page |-> task[t].page, texts |-> task[t].texts,
                       victim |-> victim]
    BY <1>2, <1>3 DEF TrimChoose, Tasks
  <1>5. UNCHANGED <<cache, disk, saves, dropped, clock, fate, passed, raced, seenAt, savedAt>>
    BY DEF TrimChoose, saved, met
  <1>6. ThreadOK(t)' /\ HeldOK(t)' /\ TakenUp(t)' = task[t].texts \cup {IdOf(t)}
    BY <1>2, <1>4, <1>5, GoesOn DEF HeldOK, Holding
  <1>7. TakenUp(t) = task[t].texts \cup {IdOf(t)}
    BY <1>1 DEF TakenUp
  <1>8. TypeButTasks' /\ PassedIsKnown' /\ (WatchedIsHeld' <=> WatchedIsHeld)
    BY <1>5, NothingMoves DEF ReplayInv, ReplayTypeOK
  <1>9. QED
    BY <1>4, <1>5, <1>6, <1>7, <1>8, ThreadStep

\* The calls that had looked up the entry that goes hold what is no longer in the cache.
LEMMA TrimDeleteKeeps ==
    ASSUME ReplayInv, NEW t \in Threads, TrimDelete(t)
    PROVE  ReplayInv'
  <1>1. task[t].step = "delete" /\ AtToken(t)
    BY DEF TrimDelete, At, AtToken
  <1>2. /\ task[t] \in Tasks /\ task \in [Threads -> Tasks \cup {Idle}]
        /\ task[t].page # {} /\ ~Holding(t) /\ t \notin dropped
        /\ Token(t) \in Tokens /\ TypeButTasks
    BY <1>1, AtWork DEF Holding
  <1>3. PICK gone \in DOMAIN cache : gone = task[t].victim /\ gone \in Tokens
    BY <1>2 DEF TrimDelete, TypeButTasks, IsCache
  <1>4. /\ task' = [task EXCEPT ![t] = [task[t] EXCEPT !.step = "trim", !.victim = NoToken]]
        /\ cache' = [tok \in DOMAIN cache \ {gone} |-> cache[tok]]
        /\ passed' = {id \in passed : TokenOf[id] # gone}
        /\ dropped' = dropped \cup Holders(gone)
        /\ raced' \in {raced, raced \cup {gone}}
        /\ Holders(gone) # {} => gone \in raced'
        /\ UNCHANGED <<disk, saves, clock, fate, seenAt, savedAt>>
    BY <1>3 DEF TrimDelete, Restrict, saved
  <1>5. /\ task' = [task EXCEPT ![t] = task'[t]]
        /\ task'[t] = [step |-> "trim", page |-> task[t].page, texts |-> task[t].texts,
                       victim |-> NoToken]
    BY <1>2, <1>4 DEF Tasks
  <1>6. /\ \A u \in Holders(gone) : u \in Threads /\ Holding(u) /\ Token(u) = gone
        /\ \A u \in dropped : u \in Threads /\ Holding(u)
        /\ t \notin dropped'
    BY <1>2, <1>4 DEF Holders, ReplayInv, ReplayTypeOK
  <1>7. ThreadOK(t)' /\ task'[t].step = "trim" /\ TakenUp(t)' = task[t].texts \cup {IdOf(t)}
    BY <1>2, <1>5, <1>6, GoesOn
  <1>8. TakenUp(t) = task[t].texts \cup {IdOf(t)}
    BY <1>1 DEF TakenUp
  <1>9. /\ DOMAIN cache' = DOMAIN cache \ {gone}
        /\ \A tok \in DOMAIN cache' : cache'[tok] = cache[tok]
    BY <1>4
  <1>10. IsCache(cache)'
    BY <1>2, <1>4, <1>9 DEF TypeButTasks, IsCache
  <1>11. TypeButTasks'
    BY <1>2, <1>3, <1>4, <1>10 DEF TypeButTasks, IsCache, IsHistory, IsSave
  <1>12. PassedIsKnown'
    BY <1>4, <1>9 DEF ReplayInv, PassedIsKnown
  <1>13. ReplayTypeOK' /\ \A u \in Threads : ThreadOK(u)'
    BY <1>4, <1>5, <1>6, <1>7, <1>11, ThreadType
  <1>14. ASSUME NEW u \in Threads PROVE HeldOK(u)'
    <2>1. CASE u = t
      BY <1>7, <2>1 DEF HeldOK, Holding
    <2>2. CASE u # t
      <3>1. task'[u] = task[u] /\ HeldOK(u)
        BY <1>5, <2>2 DEF ReplayInv, ReplayTypeOK
      <3>2. /\ Holding(u)' <=> Holding(u)
            /\ IdOf(u)' = IdOf(u) /\ Token(u)' = Token(u)
        BY <3>1 DEF Holding, IdOf, Token
      <3>3. Holding(u) /\ Token(u) = gone => Holders(gone) # {}
        BY DEF Holders
      <3>4. CASE Token(u) = gone
        BY <1>4, <3>2, <3>3, <3>4 DEF HeldOK
      <3>5. CASE Token(u) # gone
        BY <1>4, <1>6, <1>9, <3>1, <3>2, <3>5 DEF HeldOK
      <3>6. QED
        BY <3>4, <3>5
    <2>3. QED
      BY <2>1, <2>2
  <1>15. WatchedIsHeld' => Accounted'
    <2>1. WatchedIsHeld' => WatchedIsHeld
      BY <1>4, <1>9 DEF WatchedIsHeld, HasWatched
    <2>2. Accounted => Accounted'
      BY <1>4, <1>5, <1>7, <1>8, StaysAccounted
    <2>3. QED
      BY <2>1, <2>2 DEF ReplayInv
  <1>16. QED
    BY <1>12, <1>13, <1>14, <1>15 DEF ReplayInv

\* A thread ends its work, or goes from printing to saving or from saving to printing.
LEMMA MovesOn ==
    ASSUME ReplayInv, NEW t \in Threads, task[t] \in Tasks,
           task[t].step \in {"render", "show", "save", "write"},
           NEW next \in {Idle} \cup [step : {"save", "write", "show"}, page : {task[t].page},
                                     texts : {{}, task[t].texts}, victim : {task[t].victim}],
           next.step = "save" => next.texts = {},
           next.step = "write" /\ t \in Listeners => next.texts = {},
           task' = [task EXCEPT ![t] = next], UNCHANGED dropped
    PROVE  /\ task' = [task EXCEPT ![t] = task'[t]] /\ task'[t] = next
           /\ ThreadOK(t)' /\ HeldOK(t)'
           /\ TakenUp(t) = task[t].texts /\ TakenUp(t)' = next.texts
  <1>1. task \in [Threads -> Tasks \cup {Idle}] /\ t \notin dropped'
    BY DEF ReplayInv, ReplayTypeOK, Holding
  <1>2. task' = [task EXCEPT ![t] = task'[t]] /\ task'[t] = next
    BY <1>1
  <1>3. next \in Tasks \cup {Idle} /\ next.step \in {"idle", "save", "write", "show"}
    BY DEF Tasks, Steps, Idle
  <1>4. ThreadOK(t)' /\ HeldOK(t)'
    BY <1>1, <1>2, <1>3 DEF ThreadOK, HeldOK, AtToken, Holding
  <1>5. TakenUp(t) = task[t].texts /\ TakenUp(t)' = next.texts
    BY <1>2, <1>3 DEF TakenUp
  <1>6. QED
    BY <1>2, <1>4, <1>5

LEMMA ShowKeeps ==
    ASSUME ReplayInv, NEW t \in Threads, Show(t)
    PROVE  ReplayInv'
  <1>1. /\ task[t].step \in {"render", "show"} /\ task \in [Threads -> Tasks \cup {Idle}]
        /\ task[t] \in Tasks
    BY DEF Show, ToShow, AllRendered, At, ReplayInv, ReplayTypeOK, Idle
  <1>2. PICK next \in {Idle} \cup [step : {"save"}, page : {task[t].page}, texts : {{}},
                                   victim : {task[t].victim}] :
           task' = [task EXCEPT ![t] = next]
    <2>1. [task[t] EXCEPT !.step = "save", !.texts = {}]
             \in [step : {"save"}, page : {task[t].page}, texts : {{}}, victim : {task[t].victim}]
      BY <1>1 DEF Tasks
    <2>2. QED
      BY <2>1 DEF Show
  <1>3. /\ fate' = IF Watched \in task[t].texts THEN "shown" ELSE fate
        /\ UNCHANGED <<cache, disk, saves, dropped, clock, passed, raced, seenAt, savedAt>>
    BY DEF Show, saved, met
  <1>4. /\ task' = [task EXCEPT ![t] = task'[t]] /\ ThreadOK(t)' /\ HeldOK(t)'
        /\ TakenUp(t) = task[t].texts
    BY <1>1, <1>2, <1>3, MovesOn DEF Idle
  <1>5. fate' \in Fates
    BY <1>3 DEF ReplayInv, ReplayTypeOK, Fates
  <1>6. TypeButTasks' /\ PassedIsKnown' /\ (WatchedIsHeld' <=> WatchedIsHeld)
    BY <1>3, <1>5, NothingMoves
  <1>7. QED
    BY <1>3, <1>4, <1>6, ThreadStep

\* What a thread in a save works on.
LEMMA AtSave ==
    ASSUME ReplayInv, NEW t \in Threads, ToSave(t) \/ At(t, "write")
    PROVE  /\ task[t].step \in {"render", "save", "write"}
           /\ task \in [Threads -> Tasks \cup {Idle}] /\ task[t] \in Tasks
           /\ TypeButTasks
           /\ t \in Listeners => task[t].texts = {}
  <1>1. task[t].step \in {"render", "save", "write"}
    BY DEF ToSave, AllRendered, At
  <1>2. task \in [Threads -> Tasks \cup {Idle}] /\ task[t] \in Tasks /\ TypeButTasks
    BY <1>1 DEF ReplayInv, ReplayTypeOK, Idle, TypeButTasks
  <1>3. t \in Listeners => t \notin Browsers
    BY ReplayAssumption
  <1>4. t \in Listeners => task[t].texts = {}
    BY <1>3 DEF ToSave, At, ReplayInv, ThreadOK
  <1>5. QED
    BY <1>1, <1>2, <1>4

\* What a save writes comes from the file or from memory.
LEMMA MergeHolds ==
    ASSUME IsCache(cache), IsCache(disk)
    PROVE  /\ IsCache(Trimmed(Merged))
           /\ HasWatched(Trimmed(Merged)) => HasWatched(cache) \/ HasWatched(disk)
  <1>1. PICK merged : merged = Merged
    OBVIOUS
  <1>2. /\ DOMAIN merged = DOMAIN disk \cup DOMAIN cache
        /\ \A tok \in DOMAIN merged :
              merged[tok] = IF tok \in DOMAIN cache THEN cache[tok] ELSE disk[tok]
    BY <1>1 DEF Merged
  <1>3. PICK kept \in SUBSET DOMAIN merged : Trimmed(merged) = [tok \in kept |-> merged[tok]]
    BY DEF Trimmed, Restrict
  <1>4. PICK doc : doc = Trimmed(merged)
    OBVIOUS
  <1>5. DOMAIN doc = kept /\ (\A tok \in kept : doc[tok] = merged[tok])
        /\ doc = [tok \in kept |-> doc[tok]]
    BY <1>3, <1>4
  <1>6. \A tok \in kept : doc[tok] \in Entries /\ TokenOf[doc[tok].mid] = tok /\ tok \in Tokens
    BY <1>2, <1>5 DEF IsCache
  <1>7. IsCache(doc)
    BY <1>5, <1>6 DEF IsCache
  <1>8. HasWatched(doc) => HasWatched(cache) \/ HasWatched(disk)
    BY <1>2, <1>5 DEF HasWatched
  <1>9. QED
    BY <1>1, <1>4, <1>7, <1>8

LEMMA SaveMergesKeeps ==
    ASSUME ReplayInv, NEW t \in Threads, SaveMerges(t)
    PROVE  ReplayInv'
  <1>1. /\ task[t].step \in {"render", "save", "write"} /\ TypeButTasks
        /\ task \in [Threads -> Tasks \cup {Idle}] /\ task[t] \in Tasks
        /\ t \in Listeners => task[t].texts = {}
    BY AtSave DEF SaveMerges
  <1>2. PICK next : /\ next = [step |-> "write", page |-> task[t].page, texts |-> task[t].texts,
                               victim |-> task[t].victim]
                    /\ task' = [task EXCEPT ![t] = next]
    <2>1. [task[t] EXCEPT !.step = "write"]
             = [step |-> "write", page |-> task[t].page, texts |-> task[t].texts,
                victim |-> task[t].victim]
      BY <1>1 DEF Tasks
    <2>2. QED
      BY <2>1 DEF SaveMerges
  <1>3. UNCHANGED <<cache, disk, dropped, clock, fate, passed, raced, seenAt, savedAt>>
    BY DEF SaveMerges, met
  <1>4. /\ task' = [task EXCEPT ![t] = task'[t]] /\ ThreadOK(t)' /\ HeldOK(t)'
        /\ TakenUp(t) = task[t].texts /\ TakenUp(t)' = task[t].texts
    <2>1. next \in [step : {"save", "write", "show"}, page : {task[t].page},
                    texts : {{}, task[t].texts}, victim : {task[t].victim}]
      BY <1>2
    <2>2. QED
      BY <1>1, <1>2, <1>3, <2>1, MovesOn
  <1>5. PICK doc : doc = Trimmed(Merged)
    OBVIOUS
  <1>6. IsCache(doc) /\ (HasWatched(doc) => HasWatched(cache) \/ HasWatched(disk))
    BY <1>1, <1>5, MergeHolds DEF TypeButTasks
  <1>7. IsCache(Nothing) /\ IsHistory(Nothing) /\ ~HasWatched(Nothing)
    BY DEF Nothing, IsCache, IsHistory, HasWatched
  <1>8. DOMAIN saves' = Threads
        /\ \A u \in Threads :
              /\ saves'[u].doc \in {doc, Nothing, saves[u].doc}
              /\ saves'[u].stamps \in {seenAt, Nothing}
              /\ saves'[u].alone \in BOOLEAN
    BY <1>5 DEF SaveMerges, NoSave
  <1>9. \A u \in Threads : IsSave(saves'[u])
    BY <1>1, <1>6, <1>7, <1>8 DEF TypeButTasks, IsSave
  <1>10. TypeButTasks'
    BY <1>1, <1>3, <1>8, <1>9 DEF TypeButTasks, IsCache, IsHistory, IsSave
  <1>11. WatchedIsHeld' => WatchedIsHeld
    <2>1. \A u \in Threads : HasWatched(saves'[u].doc) => WatchedIsHeld
      BY <1>6, <1>7, <1>8 DEF WatchedIsHeld
    <2>2. QED
      BY <1>3, <2>1 DEF WatchedIsHeld, HasWatched
  <1>12. PassedIsKnown'
    BY <1>3 DEF ReplayInv, PassedIsKnown
  <1>13. QED
    BY <1>3, <1>4, <1>10, <1>11, <1>12, ThreadStep

LEMMA EmptySave == IsSave(NoSave)
  <1>1. IsCache(Nothing) /\ IsHistory(Nothing)
    BY DEF Nothing, IsCache, IsHistory
  <1>2. NoSave.doc = Nothing /\ NoSave.stamps = Nothing /\ NoSave.alone \in BOOLEAN
    BY DEF NoSave
  <1>3. QED
    BY <1>1, <1>2 DEF IsSave

\* What comes into the file was merged by a save, or is empty.
LEMMA FileHolds ==
    ASSUME ReplayInv, NEW doc, NEW t \in Threads, NEW docs,
           docs \subseteq {saves[u].doc : u \in Threads} \cup {Nothing},
           doc \in docs, disk' = doc, UNCHANGED cache,
           DOMAIN saves' = Threads,
           \A u \in Threads : saves'[u] \in {saves[u], NoSave}
    PROVE  /\ IsCache(disk')
           /\ \A u \in Threads : IsSave(saves'[u])
           /\ WatchedIsHeld' => WatchedIsHeld
           /\ IsHistory([tok \in DOMAIN disk' |-> disk'[tok].seen])
  <1>1. /\ \A u \in Threads : IsSave(saves[u])
        /\ IsCache(cache) /\ DOMAIN saves = Threads
    BY DEF ReplayInv, ReplayTypeOK
  <1>2. IsCache(Nothing) /\ IsHistory(Nothing) /\ ~HasWatched(Nothing)
    BY DEF Nothing, IsCache, IsHistory, HasWatched
  <1>3. IsCache(doc)
    BY <1>1, <1>2 DEF IsSave
  <1>4. \A u \in Threads : IsSave(saves'[u])
    BY <1>1, <1>2, EmptySave
  <1>5. \A u \in Threads : HasWatched(saves'[u].doc) => HasWatched(saves[u].doc)
    BY <1>2 DEF NoSave
  <1>6. HasWatched(doc) => \E u \in Threads : HasWatched(saves[u].doc)
    BY <1>2
  <1>7. WatchedIsHeld' => WatchedIsHeld
    BY <1>5, <1>6 DEF WatchedIsHeld, HasWatched
  <1>8. IsHistory([tok \in DOMAIN doc |-> doc[tok].seen])
    BY <1>3 DEF IsCache, IsHistory, Entries
  <1>9. QED
    BY <1>3, <1>4, <1>7, <1>8

\* What a save writes is the merge of a save or empty.
LEMMA IntoFile ==
    ASSUME ReplayInv, NEW t \in Threads, SaveLands(t) \/ SaveSpills(t)
    PROVE  /\ disk' \in {saves[u].doc : u \in Threads} \cup {Nothing}
           /\ DOMAIN saves' = Threads
           /\ \A u \in Threads : saves'[u] \in {saves[u], NoSave}
           /\ \/ savedAt' = [tok \in DOMAIN disk' |-> disk'[tok].seen]
              \/ savedAt' = saves[t].stamps /\ disk' = saves[t].doc /\ saves[t].alone
           /\ UNCHANGED <<cache, dropped, clock, fate, passed, raced, seenAt>>
  <1>1. Jumbled \subseteq {saves[u].doc : u \in Threads} \cup {Nothing}
    BY DEF Jumbled
  <1>2. /\ disk' \in {saves[u].doc : u \in Threads} \cup {Nothing}
        /\ \/ savedAt' = [tok \in DOMAIN disk' |-> disk'[tok].seen]
           \/ savedAt' = saves[t].stamps /\ disk' = saves[t].doc /\ saves[t].alone
    BY <1>1 DEF SaveLands, SaveSpills, JumbledInto
  <1>3. DOMAIN saves' = Threads /\ \A u \in Threads : saves'[u] \in {saves[u], NoSave}
    BY DEF SaveLands, SaveSpills, ReplayInv, ReplayTypeOK
  <1>4. UNCHANGED <<cache, dropped, clock, fate, passed, raced, seenAt>>
    BY DEF SaveLands, SaveSpills, met
  <1>5. QED
    BY <1>2, <1>3, <1>4

LEMMA IntoFileKeeps ==
    ASSUME ReplayInv, NEW t \in Threads, SaveLands(t) \/ SaveSpills(t)
    PROVE  TypeButTasks' /\ (WatchedIsHeld' => WatchedIsHeld) /\ PassedIsKnown'
  <1>1. /\ DOMAIN saves' = Threads
        /\ \/ savedAt' = [tok \in DOMAIN disk' |-> disk'[tok].seen]
           \/ savedAt' = saves[t].stamps
        /\ UNCHANGED <<cache, dropped, clock, fate, passed, raced, seenAt>>
    BY IntoFile
  <1>2. /\ IsCache(disk') /\ (\A u \in Threads : IsSave(saves'[u]))
        /\ WatchedIsHeld' => WatchedIsHeld
        /\ IsHistory([tok \in DOMAIN disk' |-> disk'[tok].seen])
    BY IntoFile, FileHolds
  <1>3. IsHistory(savedAt')
    BY <1>1, <1>2 DEF ReplayInv, ReplayTypeOK, IsSave
  <1>4. TypeButTasks'
    BY <1>1, <1>2, <1>3 DEF ReplayInv, ReplayTypeOK, TypeButTasks, IsCache, IsHistory, IsSave
  <1>5. PassedIsKnown'
    BY <1>1 DEF ReplayInv, PassedIsKnown
  <1>6. QED
    BY <1>2, <1>4, <1>5

LEMMA SaveLandsKeeps ==
    ASSUME ReplayInv, NEW t \in Threads, SaveLands(t)
    PROVE  ReplayInv'
  <1>1. /\ task[t].step \in {"render", "save", "write"}
        /\ task \in [Threads -> Tasks \cup {Idle}] /\ task[t] \in Tasks
        /\ t \in Listeners => task[t].texts = {}
    BY AtSave DEF SaveLands
  <1>2. PICK next : /\ next = IF t \in Listeners THEN Idle
                              ELSE [step |-> "show", page |-> task[t].page,
                                    texts |-> task[t].texts, victim |-> task[t].victim]
                    /\ task' = [task EXCEPT ![t] = next]
    <2>1. [task[t] EXCEPT !.step = "show"]
             = [step |-> "show", page |-> task[t].page, texts |-> task[t].texts,
                victim |-> task[t].victim]
      BY <1>1 DEF Tasks
    <2>2. QED
      BY <2>1 DEF SaveLands
  <1>3. UNCHANGED <<cache, dropped, clock, fate, passed, raced, seenAt>>
    BY IntoFile
  <1>4. next \in {Idle} \cup [step : {"save", "write", "show"}, page : {task[t].page},
                              texts : {{}, task[t].texts}, victim : {task[t].victim}]
        /\ next.step \in {"idle", "show"} /\ next.texts = task[t].texts
    BY <1>1, <1>2 DEF Idle
  <1>5. /\ task' = [task EXCEPT ![t] = task'[t]] /\ ThreadOK(t)' /\ HeldOK(t)'
        /\ TakenUp(t) = task[t].texts /\ TakenUp(t)' = task[t].texts
    BY <1>1, <1>2, <1>3, <1>4, MovesOn
  <1>6. TypeButTasks' /\ (WatchedIsHeld' => WatchedIsHeld) /\ PassedIsKnown'
    BY IntoFileKeeps
  <1>7. QED
    BY <1>3, <1>5, <1>6, ThreadStep

LEMMA SaveFailsKeeps ==
    ASSUME ReplayInv, NEW t \in Threads, SaveFails(t)
    PROVE  ReplayInv'
  <1>1. /\ task[t].step \in {"render", "save", "write"} /\ TypeButTasks
        /\ task \in [Threads -> Tasks \cup {Idle}] /\ task[t] \in Tasks
    BY AtSave DEF SaveFails
  <1>2. /\ fate' = IF Watched \in task[t].texts /\ fate = "unseen" THEN "cut" ELSE fate
        /\ task' = [task EXCEPT ![t] = Idle] /\ saves' = [saves EXCEPT ![t] = NoSave]
        /\ UNCHANGED <<cache, disk, dropped, clock, passed, raced, seenAt, savedAt>>
    BY DEF SaveFails, CutShort, met
  <1>3. /\ task' = [task EXCEPT ![t] = task'[t]] /\ ThreadOK(t)' /\ HeldOK(t)'
        /\ TakenUp(t) = task[t].texts
    BY <1>1, <1>2, MovesOn DEF Idle
  <1>4. fate' \in Fates
    BY <1>2 DEF ReplayInv, ReplayTypeOK, Fates
  <1>5. DOMAIN saves' = Threads /\ \A u \in Threads : saves'[u] \in {saves[u], NoSave}
    BY <1>1, <1>2 DEF TypeButTasks
  <1>6. IsCache(Nothing) /\ IsHistory(Nothing) /\ ~HasWatched(Nothing)
    BY DEF Nothing, IsCache, IsHistory, HasWatched
  <1>7. \A u \in Threads : IsSave(saves'[u])
    BY <1>1, <1>5, EmptySave DEF TypeButTasks
  <1>8. TypeButTasks'
    BY <1>1, <1>2, <1>4, <1>5, <1>7 DEF TypeButTasks, IsCache, IsHistory, IsSave
  <1>9. WatchedIsHeld' => WatchedIsHeld
    <2>1. \A u \in Threads : HasWatched(saves'[u].doc) => HasWatched(saves[u].doc)
      BY <1>5, <1>6 DEF NoSave
    <2>2. QED
      BY <1>2, <2>1 DEF WatchedIsHeld, HasWatched
  <1>10. PassedIsKnown'
    BY <1>2 DEF ReplayInv, PassedIsKnown
  <1>11. QED
    BY <1>2, <1>3, <1>8, <1>9, <1>10, ThreadStep

\* Memory is the file again; every message in hand is accounted for as cut short.
LEMMA RestartKeeps ==
    ASSUME ReplayInv, RestartClient
    PROVE  ReplayInv'
  <1>1. /\ cache' = disk /\ task' = [t \in Threads |-> Idle]
        /\ fate' = IF Watched \in InHand /\ fate = "unseen" THEN "cut" ELSE fate
        /\ passed' = {disk[tok].mid : tok \in DOMAIN disk}
        /\ dropped' = {} /\ saves' = [t \in Threads |-> NoSave]
        /\ seenAt' = savedAt
        /\ UNCHANGED <<disk, clock, raced, savedAt>>
    BY DEF RestartClient, CutShort
  <1>2. ReplayTypeOK
    BY DEF ReplayInv
  <1>3. \A t \in Threads : ThreadOK(t)' /\ HeldOK(t)'
    BY <1>1 DEF ThreadOK, HeldOK, AtToken, Holding, Idle
  <1>4. IsCache(cache)' /\ IsCache(disk)'
    BY <1>1, <1>2 DEF ReplayTypeOK, IsCache
  <1>5. passed' \subseteq MessageIds
    BY <1>1, <1>2 DEF ReplayTypeOK, IsCache, Entries
  <1>6. IsCache(Nothing) /\ IsHistory(Nothing) /\ ~HasWatched(Nothing)
    BY DEF Nothing, IsCache, IsHistory, HasWatched
  <1>7. ReplayTypeOK'
    <2>1. fate' \in Fates /\ IsHistory(seenAt)' /\ IsHistory(savedAt)' /\ raced' \subseteq Tokens
          /\ clock' \in Nat /\ task' \in [Threads -> Tasks \cup {Idle}]
      BY <1>1, <1>2 DEF ReplayTypeOK, Fates, IsHistory
    <2>2. DOMAIN saves' = Threads /\ \A t \in Threads : IsSave(saves'[t])
      BY <1>1, <1>6 DEF IsSave, NoSave
    <2>3. QED
      BY <1>1, <1>3, <1>4, <1>5, <2>1, <2>2 DEF ReplayTypeOK, ThreadOK, IsSave
  <1>8. PassedIsKnown'
    BY <1>1, <1>2 DEF ReplayTypeOK, IsCache, PassedIsKnown
  <1>9. WatchedIsHeld' => HasWatched(disk)
    BY <1>1, <1>6 DEF WatchedIsHeld, HasWatched, NoSave
  <1>10. HasWatched(disk) => fate' # "unseen"
    BY <1>1 DEF ReplayInv, WatchedIsHeld, Accounted
  <1>11. QED
    BY <1>3, <1>7, <1>8, <1>9, <1>10 DEF ReplayInv, Accounted

\* Only the clock or the file moves, or nothing does.
LEMMA StutterKeeps ==
    ASSUME ReplayInv, UNCHANGED <<cache, task, dropped, fate, passed, raced, seenAt>>,
           TypeButTasks', WatchedIsHeld' => WatchedIsHeld
    PROVE  ReplayInv'
  <1>1. ASSUME NEW t \in Threads PROVE ThreadOK(t)' /\ HeldOK(t)' /\ Token(t)' = Token(t)
    <2>1. /\ ThreadOK(t) /\ HeldOK(t) /\ task'[t] = task[t]
          /\ AtToken(t)' <=> AtToken(t)
          /\ Holding(t)' <=> Holding(t)
          /\ IdOf(t)' = IdOf(t) /\ Token(t)' = Token(t)
      BY DEF ReplayInv, AtToken, Holding, Token, IdOf
    <2>2. ThreadOK(t)'
      BY <2>1 DEF ThreadOK
    <2>3. HeldOK(t)'
      BY <2>1 DEF HeldOK
    <2>4. QED
      BY <2>1, <2>2, <2>3
  <1>2. ReplayTypeOK'
    BY <1>1 DEF ReplayInv, ReplayTypeOK, TypeButTasks, ThreadOK
  <1>3. InHand' = InHand
    BY DEF InHand, TakenUp, IdOf
  <1>4. PassedIsKnown' /\ (WatchedIsHeld => Accounted')
    BY <1>3 DEF ReplayInv, PassedIsKnown, Accounted
  <1>5. QED
    BY <1>1, <1>2, <1>4 DEF ReplayInv

\* Only the clock moves, or nothing does.
LEMMA TickKeeps ==
    ASSUME ReplayInv, clock' \in Nat,
           UNCHANGED <<cache, disk, saves, task, dropped, fate, passed, raced, seenAt, savedAt>>
    PROVE  ReplayInv'
  <1>1. TypeButTasks' /\ (WatchedIsHeld' => WatchedIsHeld)
    BY DEF ReplayInv, ReplayTypeOK, TypeButTasks, IsCache, IsHistory, IsSave, WatchedIsHeld,
           HasWatched
  <1>2. QED
    BY <1>1, StutterKeeps

LEMMA SaveSpillsKeeps ==
    ASSUME ReplayInv, NEW t \in Threads, SaveSpills(t)
    PROVE  ReplayInv'
  <1>1. TypeButTasks' /\ (WatchedIsHeld' => WatchedIsHeld)
    BY IntoFileKeeps
  <1>2. UNCHANGED <<cache, task, dropped, fate, passed, raced, seenAt>>
    BY DEF SaveSpills, met
  <1>3. QED
    BY <1>1, <1>2, StutterKeeps

-----------------------------------------------------------------------------
(* The theorems *)

LEMMA ReplayInitially == ReplayInit => ReplayInv
  <1>1. SUFFICES ASSUME ReplayInit PROVE ReplayInv
    OBVIOUS
  <1>2. /\ cache = Nothing /\ disk = Nothing /\ seenAt = Nothing /\ savedAt = Nothing
         /\ task = [t \in Threads |-> Idle] /\ dropped = {}
         /\ saves = [t \in Threads |-> NoSave]
         /\ clock = 0 /\ fate = "unseen" /\ passed = {} /\ raced = {}
    BY <1>1 DEF ReplayInit
  <1>3. IsCache(Nothing) /\ IsHistory(Nothing) /\ ~HasWatched(Nothing)
    BY DEF Nothing, IsCache, IsHistory, HasWatched
  <1>4. \A t \in Threads : ThreadOK(t) /\ HeldOK(t)
    BY <1>2 DEF ThreadOK, HeldOK, AtToken, Holding, Idle
  <1>5. DOMAIN saves = Threads /\ \A t \in Threads : IsSave(saves[t])
    BY <1>2, <1>3 DEF IsSave, NoSave
  <1>6. ReplayTypeOK
    BY <1>2, <1>3, <1>4, <1>5 DEF ReplayTypeOK, ThreadOK, Fates
  <1>7. ~WatchedIsHeld
    BY <1>2, <1>3 DEF WatchedIsHeld, NoSave
  <1>8. QED
    BY <1>2, <1>4, <1>6, <1>7 DEF ReplayInv, PassedIsKnown

LEMMA ReplayStep == ReplayInv /\ [ReplayNext]_replayVars => ReplayInv'
  <1>1. SUFFICES ASSUME ReplayInv, [ReplayNext]_replayVars PROVE ReplayInv'
    OBVIOUS
  <1>2. ASSUME NEW t \in Threads, NEW page \in Pages[t], Begin(t, page) PROVE ReplayInv'
    BY <1>1, <1>2, BeginKeeps, ReplayAssumption
  <1>3. ASSUME NEW t \in Threads, RenderNext(t) PROVE ReplayInv'
    BY <1>1, <1>3, UnreadableKeeps, KnownKeeps, TouchKeeps, NewKeeps, RecordKeeps, TrimEndsKeeps,
       TrimChooseKeeps, TrimDeleteKeeps DEF RenderNext
  <1>4. ASSUME NEW t \in Threads, Show(t) \/ SaveNext(t) PROVE ReplayInv'
    BY <1>1, <1>4, ShowKeeps, SaveMergesKeeps, SaveLandsKeeps, SaveSpillsKeeps, SaveFailsKeeps
       DEF SaveNext
  <1>5. CASE RestartClient
    BY <1>1, <1>5, RestartKeeps
  <1>6. CASE ReplayTick
    BY <1>1, <1>6, TickKeeps DEF ReplayTick, saved, met, ReplayInv, ReplayTypeOK
  <1>7. CASE UNCHANGED replayVars
    BY <1>1, <1>7, TickKeeps DEF replayVars, history, saved, met, ReplayInv, ReplayTypeOK
  <1>8. QED
    BY <1>1, <1>2, <1>3, <1>4, <1>5, <1>6, <1>7 DEF ReplayNext

\* The inductive invariant: the properties below, with what a saved cache and the ids
\* let through have to do with the cache in memory.
THEOREM ReplayInvariance == ReplaySpec => []ReplayInv
  <1>1. QED
    BY ReplayInitially, ReplayStep, PTL DEF ReplaySpec

\* Every variable of the client's replay cache keeps its type, and every entry of the
\* cache has an id that came with its token, whatever the threads, crashes, trims and
\* overlapping saves do (e2ee_client.py _record_replay_token, state.py).
THEOREM ReplayTypeCorrect == ReplaySpec => []ReplayTypeOK
  <1>1. ReplayInv => ReplayTypeOK
    BY DEF ReplayInv
  <1>2. QED
    BY <1>1, ReplayInvariance, PTL

\* While a token is remembered its text is let through under one id, but for tokens that
\* two threads were at at the same time (_classify_replay_token).
THEOREM CopyIsAlwaysBlocked == ReplaySpec => []CopyIsBlocked
  <1>1. ReplayInv => CopyIsBlocked
    BY DEF ReplayInv, PassedIsKnown, CopyIsBlocked
  <1>2. QED
    BY <1>1, ReplayInvariance, PTL

\* The id of every entry was printed, is about to be, or was cut short by a crash or an
\* exception: a push is never ignored as a duplicate for any other reason
\* (_handle_event, _pull_conversation_page).
THEOREM RememberedWasAlwaysShown == ReplaySpec => []RememberedWasShown
  <1>1. ReplayInv => RememberedWasShown
    BY DEF ReplayInv, WatchedIsHeld, HasWatched, Accounted, RememberedWasShown
  <1>2. QED
    BY <1>1, ReplayInvariance, PTL

-----------------------------------------------------------------------------
(* The least recently met is forgotten *)

\* The tokens met since tok was, and that they fill a cache.
MetSince(stamps, tok) == {other \in DOMAIN stamps \ {tok} : stamps[other] >= stamps[tok]}
Outlived(stamps, tok) == Cardinality(MetSince(stamps, tok)) >= MaxEntries

\* The entry of tok tells when it was last met; one that a merge took from the file may
\* be out of date.
Current(entries, stamps, tok) == tok \in DOMAIN entries /\ entries[tok].seen = stamps[tok]

\* No entry is younger than its token.
Dated(entries, stamps) ==
    /\ DOMAIN entries \subseteq DOMAIN stamps
    /\ \A tok \in DOMAIN entries : entries[tok].seen <= stamps[tok]

Later(stamps, later) ==
    /\ DOMAIN stamps \subseteq DOMAIN later
    /\ \A tok \in DOMAIN stamps : stamps[tok] <= later[tok]

Remembers(entries, stamps) ==
    \A tok \in DOMAIN stamps : Current(entries, stamps, tok) \/ Outlived(stamps, tok)

\* The clock, the file and what is to come into it are behind and ahead of memory as they
\* should be.
SaveDated(save, stamps) ==
    /\ Dated(save.doc, stamps)
    /\ save.alone => Dated(save.doc, save.stamps) /\ Later(save.stamps, stamps)

FileDated ==
    /\ Dated(disk, savedAt) /\ Later(savedAt, seenAt)
    /\ \A t \in Threads : SaveDated(saves[t], seenAt)

StampsOK ==
    /\ Dated(cache, seenAt)
    /\ \A tok \in DOMAIN seenAt : seenAt[tok] <= clock

\* What a trim is about to delete has been outlived already.
VictimsOK ==
    \A t \in Threads :
        At(t, "delete") => task[t].victim \in DOMAIN seenAt /\ Outlived(seenAt, task[t].victim)

\* The file remembers what it should, and a save that no other overlaps what it merged.
FileRemembers ==
    /\ Remembers(disk, savedAt)
    /\ \A t \in Threads : saves[t].alone => Remembers(saves[t].doc, saves[t].stamps)

RecentInv ==
    /\ StampsOK /\ FileDated
    /\ raced = {} => Remembers(cache, seenAt) /\ VictimsOK /\ FileRemembers

\* MaxEntries tokens met no earlier outlive a token.
LEMMA EnoughOutlive ==
    ASSUME NEW stamps, IsHistory(stamps), NEW tok \in DOMAIN stamps,
           NEW S, S \subseteq DOMAIN stamps \ {tok},
           \A other \in S : stamps[other] >= stamps[tok],
           Cardinality(S) >= MaxEntries
    PROVE  Outlived(stamps, tok)
  <1>1. S \subseteq MetSince(stamps, tok)
    BY DEF MetSince
  <1>2. IsFiniteSet(MetSince(stamps, tok))
    BY ReplayAssumption, FS_Subset DEF MetSince, IsHistory
  <1>3. /\ IsFiniteSet(S) /\ Cardinality(S) <= Cardinality(MetSince(stamps, tok))
        /\ Cardinality(S) \in Nat /\ Cardinality(MetSince(stamps, tok)) \in Nat
    BY <1>1, <1>2, FS_Subset, FS_CardinalityType
  <1>4. QED
    BY <1>3, ReplayAssumption DEF Outlived

\* What is outlived stays so until it is met again, however others are.
LEMMA StaysOutlived ==
    ASSUME NEW stamps, NEW later, IsHistory(stamps), IsHistory(later), Later(stamps, later),
           NEW tok \in DOMAIN stamps, later[tok] = stamps[tok], Outlived(stamps, tok)
    PROVE  Outlived(later, tok)
  <1>1. MetSince(stamps, tok) \subseteq DOMAIN later \ {tok} /\ tok \in DOMAIN later
    BY DEF MetSince, Later
  <1>2. ASSUME NEW other \in MetSince(stamps, tok) PROVE later[other] >= later[tok]
    <2>1. /\ other \in DOMAIN stamps /\ stamps[other] >= stamps[tok] /\ stamps[other] \in Nat
          /\ stamps[other] <= later[other] /\ later[other] \in Nat /\ later[tok] \in Nat
      BY DEF MetSince, Later, IsHistory
    <2>2. QED
      BY <2>1
  <1>3. QED
    BY <1>1, <1>2, EnoughOutlive DEF Outlived

\* The oldest entry of an overfull cache is outlived, be it out of date or not.
LEMMA OldestIsOutlived ==
    ASSUME IsCache(cache), IsHistory(seenAt), Dated(cache, seenAt), Remembers(cache, seenAt),
           Cardinality(DOMAIN cache) > MaxEntries
    PROVE  /\ OldestToken(cache) \in DOMAIN seenAt
           /\ Outlived(seenAt, OldestToken(cache))
  <1> DEFINE v == OldestToken(cache)
             rest == DOMAIN cache \ {v}
  <1>1. IsFiniteSet(DOMAIN cache) /\ Cardinality(DOMAIN cache) \in Nat /\ MaxEntries \in Nat
    BY ReplayAssumption, FS_Subset, FS_CardinalityType DEF IsCache
  <1>2. v \in DOMAIN cache /\ \A other \in DOMAIN cache : ~Older(cache[other], cache[v])
    <2>1. ASSUME DOMAIN cache = {} PROVE FALSE
      <3>1. Cardinality(DOMAIN cache) = 0
        BY <2>1, FS_EmptySet
      <3>2. QED
        BY <1>1, <3>1
    <2>2. QED
      BY <2>1, OldestIsThere
  <1>3. Cardinality(rest) >= MaxEntries
    BY <1>1, <1>2, FS_RemoveElement
  <1>4. v \in DOMAIN seenAt /\ rest \subseteq DOMAIN seenAt \ {v}
    BY <1>2 DEF Dated
  <1>5. ASSUME Current(cache, seenAt, v), NEW other \in rest PROVE seenAt[other] >= seenAt[v]
    <2>1. /\ cache[other].seen \in Nat /\ cache[v].seen \in Nat
          /\ seenAt[other] \in Nat
      BY <1>2, <1>4 DEF IsCache, Entries, IsHistory
    <2>2. cache[other].seen >= cache[v].seen
      BY <1>2, <2>1 DEF Older
    <2>3. cache[v].seen = seenAt[v] /\ cache[other].seen <= seenAt[other]
      BY <1>5 DEF Current, Dated
    <2>4. QED
      BY <2>1, <2>2, <2>3
  <1> HIDE DEF v
  <1>6. CASE Current(cache, seenAt, v)
    BY <1>3, <1>4, <1>5, <1>6, EnoughOutlive DEF v
  <1>7. CASE ~Current(cache, seenAt, v)
    BY <1>4, <1>7 DEF Remembers, v
  <1>8. QED
    BY <1>4, <1>6, <1>7 DEF v

\* A save that stays as it was, or ended, stays behind memory.
LEMMA SavesStayDated ==
    ASSUME ReplayInv, FileDated, IsHistory(seenAt'), Later(seenAt, seenAt'),
           \A t \in Threads : saves'[t] \in {saves[t], NoSave}
    PROVE  \A t \in Threads : SaveDated(saves'[t], seenAt')
  <1>1. /\ IsHistory(seenAt) /\ \A t \in Threads : IsSave(saves[t])
    BY DEF ReplayInv, ReplayTypeOK
  <1>2. ASSUME NEW t \in Threads PROVE SaveDated(saves[t], seenAt')
    <2>1. IsCache(saves[t].doc) /\ IsHistory(saves[t].stamps) /\ SaveDated(saves[t], seenAt)
      BY <1>1 DEF IsSave, FileDated
    <2>2. ASSUME NEW tok \in DOMAIN saves[t].doc
          PROVE  tok \in DOMAIN seenAt' /\ saves[t].doc[tok].seen <= seenAt'[tok]
      <3>1. /\ tok \in DOMAIN seenAt /\ saves[t].doc[tok].seen <= seenAt[tok]
            /\ tok \in DOMAIN seenAt' /\ seenAt[tok] <= seenAt'[tok]
        BY <2>1 DEF SaveDated, Dated, Later
      <3>2. saves[t].doc[tok].seen \in Nat /\ seenAt[tok] \in Nat /\ seenAt'[tok] \in Nat
        BY <1>1, <2>1, <3>1 DEF IsCache, IsHistory, Entries
      <3>3. QED
        BY <3>1, <3>2
    <2>3. ASSUME saves[t].alone, NEW tok \in DOMAIN saves[t].stamps
          PROVE  tok \in DOMAIN seenAt' /\ saves[t].stamps[tok] <= seenAt'[tok]
      <3>1. /\ tok \in DOMAIN seenAt /\ saves[t].stamps[tok] <= seenAt[tok]
            /\ tok \in DOMAIN seenAt' /\ seenAt[tok] <= seenAt'[tok]
        BY <2>1, <2>3 DEF SaveDated, Later
      <3>2. saves[t].stamps[tok] \in Nat /\ seenAt[tok] \in Nat /\ seenAt'[tok] \in Nat
        BY <1>1, <2>1, <3>1 DEF IsHistory
      <3>3. QED
        BY <3>1, <3>2
    <2>4. QED
      BY <2>1, <2>2, <2>3 DEF SaveDated, Dated, Later
  <1>3. SaveDated(NoSave, seenAt')
    BY DEF SaveDated, NoSave, Nothing, Dated, Later
  <1>4. QED
    BY <1>2, <1>3

\* What is empty remembers all of nothing.
LEMMA EmptyRemembers == Remembers(NoSave.doc, NoSave.stamps)
  BY DEF Remembers, NoSave, Nothing

LEMMA FileStays ==
    ASSUME FileRemembers, UNCHANGED <<disk, saves, savedAt>>
    PROVE  FileRemembers'
  BY DEF FileRemembers

\* A step that meets no token and chooses no victim.
LEMMA ApartKeepsRecent ==
    ASSUME ReplayInv, RecentInv, UNCHANGED <<cache, disk, saves, seenAt, savedAt, raced>>,
           clock <= clock', clock' \in Nat,
           \A t \in Threads : At(t, "delete")' => At(t, "delete") /\ task'[t].victim = task[t].victim
    PROVE  RecentInv'
  <1>1. StampsOK' /\ FileDated'
    BY DEF RecentInv, StampsOK, FileDated, SaveDated, Dated, Later, ReplayInv, ReplayTypeOK, IsHistory
  <1>2. QED
    BY <1>1, FileStays DEF RecentInv, Remembers, Current, Outlived, MetSince, VictimsOK

\* A step that meets a token, which no trim has chosen unless it is raced for, and sets it
\* in the cache unless its entry is gone.
LEMMA MeetingKeepsRecent ==
    ASSUME ReplayInv, ReplayInv', RecentInv, NEW tok \in Tokens,
           \/ cache' = cache /\ raced' # {}
           \/ DOMAIN cache' = DOMAIN cache \cup {tok} /\ cache'[tok].seen = clock,
           \A other \in DOMAIN cache \ {tok} : cache'[other] = cache[other],
           seenAt' = With(seenAt, tok, clock), UNCHANGED <<disk, saves, savedAt, clock>>,
           raced' = {} =>
               /\ raced = {}
               /\ \A t \in Threads :
                     At(t, "delete")' => /\ At(t, "delete")
                                         /\ task'[t].victim = task[t].victim
                                         /\ task[t].victim # tok
    PROVE  RecentInv'
  <1>1. /\ DOMAIN seenAt' = DOMAIN seenAt \cup {tok} /\ seenAt'[tok] = clock
        /\ \A other \in DOMAIN seenAt \ {tok} : seenAt'[other] = seenAt[other]
    BY DEF With
  <1>2. /\ IsHistory(seenAt) /\ IsHistory(seenAt)' /\ IsHistory(savedAt) /\ clock \in Nat
        /\ IsCache(cache)
    BY DEF ReplayInv, ReplayTypeOK
  <1>3. Later(seenAt, seenAt')
    BY <1>1, <1>2 DEF RecentInv, StampsOK, Later, IsHistory
  <1>4. StampsOK'
    <2>1. Dated(cache, seenAt)'
      <3> SUFFICES ASSUME NEW other \in DOMAIN cache'
                   PROVE  other \in DOMAIN seenAt' /\ cache'[other].seen <= seenAt'[other]
        BY DEF Dated
      <3>1. CASE other = tok /\ cache' = cache
        <4>1. tok \in DOMAIN seenAt /\ cache[tok].seen <= seenAt[tok] /\ seenAt[tok] <= clock
          BY <3>1 DEF RecentInv, StampsOK, Dated
        <4>2. cache[tok].seen \in Nat /\ seenAt[tok] \in Nat
          BY <1>2, <3>1, <4>1 DEF IsCache, IsHistory, Entries
        <4>3. QED
          BY <1>1, <1>2, <3>1, <4>1, <4>2
      <3>2. CASE other = tok /\ cache' # cache
        BY <1>1, <1>2, <3>2
      <3>3. CASE other # tok
        BY <1>1, <3>3 DEF RecentInv, StampsOK, Dated
      <3>4. QED
        BY <3>1, <3>2, <3>3
    <2>2. \A other \in DOMAIN seenAt' : seenAt'[other] <= clock'
      BY <1>1, <1>2 DEF RecentInv, StampsOK
    <2>3. QED
      BY <2>1, <2>2 DEF StampsOK
  <1>5. FileDated'
    <2>1. Later(savedAt, seenAt')
      <3> SUFFICES ASSUME NEW other \in DOMAIN savedAt
                   PROVE  other \in DOMAIN seenAt' /\ savedAt[other] <= seenAt'[other]
        BY DEF Later
      <3>1. /\ other \in DOMAIN seenAt /\ savedAt[other] <= seenAt[other]
            /\ seenAt[other] <= clock /\ savedAt[other] \in Nat /\ seenAt[other] \in Nat
        BY <1>2 DEF RecentInv, StampsOK, FileDated, Later, IsHistory
      <3>2. QED
        BY <1>1, <1>2, <3>1
    <2>2. \A t \in Threads : SaveDated(saves'[t], seenAt')
      BY <1>2, <1>3, SavesStayDated DEF RecentInv
    <2>3. Dated(disk, savedAt)'
      BY DEF RecentInv, FileDated, Dated
    <2>4. QED
      BY <2>1, <2>2, <2>3 DEF FileDated
  <1>6. ASSUME raced' = {} PROVE Remembers(cache, seenAt)' /\ VictimsOK' /\ FileRemembers'
    <2>1. Remembers(cache, seenAt) /\ VictimsOK /\ FileRemembers
      BY <1>6 DEF RecentInv
    <2>2. ASSUME NEW other \in DOMAIN seenAt, other # tok, Outlived(seenAt, other)
          PROVE  Outlived(seenAt, other)'
      <3>1. PICK later : later = seenAt'
        OBVIOUS
      <3>2. Outlived(later, other)
        BY <1>1, <1>2, <1>3, <2>2, <3>1, StaysOutlived
      <3>3. QED
        BY <3>1, <3>2 DEF Outlived, MetSince
    <2>3. ASSUME NEW other \in DOMAIN seenAt'
          PROVE  Current(cache, seenAt, other)' \/ Outlived(seenAt, other)'
      <3>1. CASE other = tok
        BY <1>1, <1>6, <3>1 DEF Current
      <3>2. CASE other # tok
        BY <1>1, <1>6, <2>1, <2>2, <3>2 DEF Remembers, Current
      <3>3. QED
        BY <3>1, <3>2
    <2>4. FileRemembers'
      BY <2>1, FileStays
    <2>5. VictimsOK'
      BY <1>1, <1>6, <2>1, <2>2 DEF VictimsOK
    <2>6. QED
      BY <2>3, <2>4, <2>5 DEF Remembers
  <1>7. QED
    BY <1>4, <1>5, <1>6 DEF RecentInv

\* A trim chooses what is outlived.
LEMMA TrimChooseKeepsRecent ==
    ASSUME ReplayInv, RecentInv, NEW t \in Threads, TrimChoose(t)
    PROVE  RecentInv'
  <1>1. /\ task' = [task EXCEPT ![t] = task'[t]] /\ task \in [Threads -> Tasks \cup {Idle}]
        /\ task'[t].victim = OldestToken(cache)
        /\ UNCHANGED <<cache, disk, saves, clock, raced, seenAt, savedAt>>
    <2>1. task[t] \in Tasks /\ task \in [Threads -> Tasks \cup {Idle}]
      BY AtWork DEF TrimChoose, At, AtToken
    <2>2. QED
      BY <2>1 DEF TrimChoose, saved, met, Tasks
  <1>2. StampsOK' /\ FileDated'
    BY <1>1 DEF RecentInv, StampsOK, FileDated, SaveDated, Dated, Later
  <1>3. ASSUME raced' = {} PROVE Remembers(cache, seenAt)' /\ VictimsOK' /\ FileRemembers'
    <2>1. Remembers(cache, seenAt) /\ VictimsOK /\ FileRemembers
      BY <1>1, <1>3 DEF RecentInv
    <2>2. OldestToken(cache) \in DOMAIN seenAt /\ Outlived(seenAt, OldestToken(cache))
      BY <2>1, OldestIsOutlived, ReplayAssumption, FS_CardinalityType
         DEF TrimChoose, ReplayInv, ReplayTypeOK, RecentInv, StampsOK
    <2>3. ASSUME NEW u \in Threads, At(u, "delete")'
          PROVE  task'[u].victim \in DOMAIN seenAt /\ Outlived(seenAt, task'[u].victim)
      <3>1. CASE u = t
        BY <1>1, <2>2, <3>1
      <3>2. CASE u # t
        <4>1. task'[u] = task[u]
          BY <1>1, <3>2
        <4>2. QED
          BY <2>1, <2>3, <4>1 DEF VictimsOK, At
      <3>3. QED
        BY <3>1, <3>2
    <2>4. QED
      BY <1>1, <2>1, <2>3 DEF VictimsOK, FileRemembers, Remembers, Current, Outlived, MetSince
  <1>4. QED
    BY <1>2, <1>3 DEF RecentInv

\* A trim deletes what it has chosen.
LEMMA TrimDeleteKeepsRecent ==
    ASSUME ReplayInv, RecentInv, NEW t \in Threads, TrimDelete(t)
    PROVE  RecentInv'
  <1>1. PICK gone \in DOMAIN cache : gone = task[t].victim
    BY DEF TrimDelete
  <1>2. /\ cache' = [tok \in DOMAIN cache \ {gone} |-> cache[tok]]
        /\ raced' = {} => raced = {}
        /\ UNCHANGED <<disk, saves, clock, seenAt, savedAt>>
    BY <1>1 DEF TrimDelete, Restrict, saved
  <1>3. \A u \in Threads : At(u, "delete")' => At(u, "delete") /\ task'[u].victim = task[u].victim
    BY DEF TrimDelete, At, ReplayInv, ReplayTypeOK
  <1>4. StampsOK' /\ FileDated'
    BY <1>2 DEF RecentInv, StampsOK, FileDated, SaveDated, Dated, Later
  <1>5. ASSUME raced' = {} PROVE Remembers(cache, seenAt)' /\ VictimsOK' /\ FileRemembers'
    <2>1. Remembers(cache, seenAt) /\ VictimsOK /\ FileRemembers
      BY <1>2, <1>5 DEF RecentInv
    <2>2. Outlived(seenAt, gone)
      BY <1>1, <2>1 DEF TrimDelete, VictimsOK
    <2>3. ASSUME NEW tok \in DOMAIN seenAt
          PROVE  Current(cache', seenAt, tok) \/ Outlived(seenAt, tok)
      <3>1. CASE tok = gone
        BY <2>2, <3>1
      <3>2. CASE tok # gone
        BY <1>2, <2>1, <3>2 DEF Remembers, Current
      <3>3. QED
        BY <3>1, <3>2
    <2>4. QED
      BY <1>2, <1>3, <2>1, <2>3, FileStays DEF VictimsOK, Remembers, Current, Outlived, MetSince
  <1>6. QED
    BY <1>4, <1>5 DEF RecentInv

\* What the merge of a save holds is no younger than its token; a token it does not hold
\* as it was last met is outlived.
LEMMA MergeRemembers ==
    ASSUME ReplayInv, RecentInv
    PROVE  /\ IsCache(Merged) /\ Dated(Merged, seenAt)
           /\ raced = {} => Remembers(Merged, seenAt)
  <1>1. PICK merged : merged = Merged
    OBVIOUS
  <1>2. /\ DOMAIN merged = DOMAIN disk \cup DOMAIN cache
        /\ \A tok \in DOMAIN merged :
              merged[tok] = IF tok \in DOMAIN cache THEN cache[tok] ELSE disk[tok]
        /\ merged \in [DOMAIN merged -> {merged[tok] : tok \in DOMAIN merged}]
    BY <1>1 DEF Merged
  <1>3. IsCache(cache) /\ IsCache(disk) /\ IsHistory(seenAt) /\ IsHistory(savedAt)
    BY DEF ReplayInv, ReplayTypeOK
  <1>4. IsCache(merged)
    BY <1>2, <1>3 DEF IsCache
  <1>5. ASSUME NEW tok \in DOMAIN merged
        PROVE  tok \in DOMAIN seenAt /\ merged[tok].seen <= seenAt[tok]
    <2>1. CASE tok \in DOMAIN cache
      BY <1>2, <2>1 DEF RecentInv, StampsOK, Dated
    <2>2. CASE tok \notin DOMAIN cache
      <3>1. /\ merged[tok] = disk[tok] /\ tok \in DOMAIN disk
            /\ tok \in DOMAIN savedAt /\ tok \in DOMAIN seenAt
            /\ disk[tok].seen <= savedAt[tok] /\ savedAt[tok] <= seenAt[tok]
        BY <1>2, <1>5, <2>2 DEF RecentInv, FileDated, Dated, Later
      <3>2. disk[tok].seen \in Nat /\ savedAt[tok] \in Nat /\ seenAt[tok] \in Nat
        BY <1>3, <3>1 DEF IsCache, IsHistory, Entries
      <3>3. QED
        BY <3>1, <3>2
    <2>3. QED
      BY <2>1, <2>2
  <1>6. ASSUME raced = {}, NEW tok \in DOMAIN seenAt
        PROVE  Current(merged, seenAt, tok) \/ Outlived(seenAt, tok)
    BY <1>2, <1>6 DEF RecentInv, Remembers, Current
  <1>7. QED
    BY <1>1, <1>4, <1>5, <1>6 DEF Dated, Remembers

\* What the trim of a save cuts off is outlived by what it keeps.
LEMMA CutIsOutlived ==
    ASSUME NEW entries, NEW stamps, IsCache(entries), IsHistory(stamps), Dated(entries, stamps),
           NEW tok \in DOMAIN entries, tok \notin DOMAIN Trimmed(entries),
           Current(entries, stamps, tok)
    PROVE  Outlived(stamps, tok)
  <1> DEFINE younger == {other \in DOMAIN entries : Older(entries[tok], entries[other])}
  <1>1. ~(Cardinality(younger) < MaxEntries)
    BY DEF Trimmed, Restrict
  <1>2. Cardinality(younger) \in Nat /\ MaxEntries \in Nat
    BY ReplayAssumption, FS_Subset, FS_CardinalityType DEF IsCache
  <1>3. tok \in DOMAIN stamps /\ stamps[tok] = entries[tok].seen
    BY DEF Dated, Current
  <1>4. ASSUME NEW other \in younger
        PROVE  other \in DOMAIN stamps \ {tok} /\ stamps[other] >= stamps[tok]
    <2>1. /\ entries[tok].seen \in Nat /\ entries[tok].mid \in Nat
          /\ entries[other].seen \in Nat /\ entries[other].mid \in Nat
      BY ReplayAssumption DEF IsCache, Entries
    <2>2. other # tok /\ entries[other].seen >= entries[tok].seen
      BY <2>1 DEF Older
    <2>3. other \in DOMAIN stamps /\ entries[other].seen <= stamps[other] /\ stamps[other] \in Nat
      BY DEF Dated, IsHistory
    <2>4. QED
      BY <1>3, <2>1, <2>2, <2>3
  <1> HIDE DEF younger
  <1>5. Cardinality(younger) >= MaxEntries
    BY <1>1, <1>2
  <1>6. younger \subseteq DOMAIN stamps \ {tok}
    BY <1>4
  <1>7. QED
    BY <1>3, <1>4, <1>5, <1>6, EnoughOutlive

\* A save holds what memory and the file remembered together.
LEMMA SaveMergesKeepsRecent ==
    ASSUME ReplayInv, RecentInv, NEW t \in Threads, SaveMerges(t)
    PROVE  RecentInv'
  <1>1. PICK merged, doc : merged = Merged /\ doc = Trimmed(merged)
    OBVIOUS
  <1>2. UNCHANGED <<cache, disk, clock, raced, seenAt, savedAt>>
    BY DEF SaveMerges, met
  <1>3. /\ IsCache(merged) /\ Dated(merged, seenAt) /\ IsHistory(seenAt)
        /\ raced = {} => Remembers(merged, seenAt)
    BY <1>1, MergeRemembers DEF ReplayInv, ReplayTypeOK
  <1>4. DOMAIN doc \subseteq DOMAIN merged /\ \A tok \in DOMAIN doc : doc[tok] = merged[tok]
    BY <1>1 DEF Trimmed, Restrict
  <1>5. Dated(doc, seenAt) /\ Later(seenAt, seenAt)
    BY <1>3, <1>4 DEF Dated, Later, IsHistory
  <1>6. ASSUME raced = {} PROVE Remembers(doc, seenAt)
    <2>1. Remembers(merged, seenAt)
      BY <1>3, <1>6
    <2>2. ASSUME NEW tok \in DOMAIN seenAt
          PROVE  Current(doc, seenAt, tok) \/ Outlived(seenAt, tok)
      <3>1. CASE Current(merged, seenAt, tok) /\ tok \notin DOMAIN doc
        BY <1>1, <1>3, <3>1, CutIsOutlived DEF Current
      <3>2. CASE Current(merged, seenAt, tok) /\ tok \in DOMAIN doc
        BY <1>4, <3>2 DEF Current
      <3>3. QED
        BY <2>1, <3>1, <3>2 DEF Remembers
    <2>3. QED
      BY <2>2 DEF Remembers
  <1>7. ASSUME NEW u \in Threads
        PROVE  /\ SaveDated(saves'[u], seenAt)
               /\ raced = {} /\ saves'[u].alone => Remembers(saves'[u].doc, saves'[u].stamps)
    <2>1. CASE u = t
      <3>1. saves'[t].doc = doc /\ (saves'[t].alone => saves'[t].stamps = seenAt)
        BY <1>1 DEF SaveMerges
      <3>2. QED
        BY <1>5, <1>6, <2>1, <3>1 DEF SaveDated
    <2>2. CASE u # t /\ At(u, "write")
      <3>1. saves'[u].doc = saves[u].doc /\ saves'[u].alone = FALSE
        BY <2>2 DEF SaveMerges
      <3>2. QED
        BY <3>1 DEF RecentInv, FileDated, SaveDated
    <2>3. CASE u # t /\ ~At(u, "write")
      <3>1. saves'[u] = NoSave
        BY <2>3 DEF SaveMerges
      <3>2. SaveDated(NoSave, seenAt)
        BY DEF SaveDated, NoSave, Nothing, Dated, Later
      <3>3. QED
        BY <3>1, <3>2, EmptyRemembers
    <2>4. QED
      BY <2>1, <2>2, <2>3
  <1>8. StampsOK' /\ FileDated'
    BY <1>2, <1>7 DEF RecentInv, StampsOK, FileDated, Dated, Later
  <1>9. \A u \in Threads : At(u, "delete")' => At(u, "delete") /\ task'[u].victim = task[u].victim
    BY DEF SaveMerges, At, ReplayInv, ReplayTypeOK
  <1>10. ASSUME raced' = {} PROVE Remembers(cache, seenAt)' /\ VictimsOK' /\ FileRemembers'
    <2>1. Remembers(cache, seenAt) /\ VictimsOK /\ FileRemembers
      BY <1>2, <1>10 DEF RecentInv
    <2>2. \A u \in Threads : saves'[u].alone => Remembers(saves'[u].doc, saves'[u].stamps)
      BY <1>2, <1>7, <1>10
    <2>3. QED
      BY <1>2, <1>9, <2>1, <2>2 DEF VictimsOK, FileRemembers, Remembers, Current, Outlived, MetSince
  <1>11. QED
    BY <1>8, <1>10 DEF RecentInv

\* Of a save that no other overlaps the file holds what it had merged; after saves that
\* overlap, what counts is what is in the file.
LEMMA IntoFileKeepsRecent ==
    ASSUME ReplayInv, RecentInv, NEW t \in Threads, SaveLands(t) \/ SaveSpills(t)
    PROVE  RecentInv'
  <1>1. /\ disk' \in {saves[u].doc : u \in Threads} \cup {Nothing}
        /\ \A u \in Threads : saves'[u] \in {saves[u], NoSave}
        /\ \/ savedAt' = [tok \in DOMAIN disk' |-> disk'[tok].seen]
           \/ savedAt' = saves[t].stamps /\ disk' = saves[t].doc /\ saves[t].alone
        /\ UNCHANGED <<cache, clock, raced, seenAt>>
    BY IntoFile
  <1>2. IsHistory(seenAt) /\ \A u \in Threads : IsSave(saves[u])
    BY DEF ReplayInv, ReplayTypeOK
  <1>3. PICK file : file = disk'
    OBVIOUS
  <1>4. IsCache(file) /\ Dated(file, seenAt)
    <2>1. IsCache(Nothing) /\ Dated(Nothing, seenAt)
      BY DEF Nothing, IsCache, Dated
    <2>2. \A u \in Threads : IsCache(saves[u].doc) /\ Dated(saves[u].doc, seenAt)
      BY <1>2 DEF RecentInv, FileDated, SaveDated, IsSave
    <2>3. QED
      BY <1>1, <1>3, <2>1, <2>2
  <1>5. /\ Dated(file, savedAt') /\ Later(savedAt', seenAt)
        /\ raced = {} => Remembers(file, savedAt')
    <2>1. CASE savedAt' = [tok \in DOMAIN disk' |-> disk'[tok].seen]
      <3>1. DOMAIN savedAt' = DOMAIN file /\ \A tok \in DOMAIN file : savedAt'[tok] = file[tok].seen
        BY <1>3, <2>1
      <3>2. \A tok \in DOMAIN file : file[tok].seen \in Nat
        BY <1>4 DEF IsCache, Entries
      <3>3. QED
        BY <1>4, <3>1, <3>2 DEF Dated, Later, Remembers, Current
    <2>2. CASE savedAt' = saves[t].stamps /\ disk' = saves[t].doc /\ saves[t].alone
      BY <1>3, <2>2 DEF RecentInv, FileDated, SaveDated, FileRemembers
    <2>3. QED
      BY <1>1, <2>1, <2>2
  <1>6. \A u \in Threads : SaveDated(saves'[u], seenAt)
    BY <1>1 DEF RecentInv, FileDated, SaveDated, NoSave, Nothing, Dated, Later
  <1>7. StampsOK' /\ FileDated'
    BY <1>1, <1>3, <1>5, <1>6 DEF RecentInv, StampsOK, FileDated, Dated, Later
  <1>8. \A u \in Threads : At(u, "delete")' => At(u, "delete") /\ task'[u].victim = task[u].victim
    <2>1. task \in [Threads -> Tasks \cup {Idle}]
      BY DEF ReplayInv, ReplayTypeOK
    <2>2. CASE SaveSpills(t)
      BY <2>2 DEF SaveSpills, At
    <2>3. CASE SaveLands(t)
      <3>1. task[t] \in Tasks
        BY <2>3, AtSave DEF SaveLands
      <3>2. \A u \in Threads : u # t => task'[u] = task[u]
        BY <2>1, <2>3 DEF SaveLands
      <3>3. task'[t].step \in {"idle", "show"}
        BY <2>1, <2>3, <3>1 DEF SaveLands, Idle, Tasks
      <3>4. QED
        BY <3>2, <3>3 DEF At
    <2>4. QED
      BY <2>2, <2>3
  <1>9. ASSUME raced' = {} PROVE Remembers(cache, seenAt)' /\ VictimsOK' /\ FileRemembers'
    <2>1. Remembers(cache, seenAt) /\ VictimsOK /\ FileRemembers /\ Remembers(file, savedAt')
      BY <1>1, <1>5, <1>9 DEF RecentInv
    <2>2. \A u \in Threads : saves'[u].alone => Remembers(saves'[u].doc, saves'[u].stamps)
      BY <1>1, <2>1, EmptyRemembers DEF FileRemembers
    <2>3. QED
      BY <1>1, <1>3, <1>8, <2>1, <2>2
         DEF VictimsOK, FileRemembers, Remembers, Current, Outlived, MetSince
  <1>10. QED
    BY <1>7, <1>9 DEF RecentInv

\* The process remembers what counts as saved.
LEMMA RestartKeepsRecent ==
    ASSUME ReplayInv, RecentInv, RestartClient
    PROVE  RecentInv'
  <1>1. /\ cache' = disk /\ task' = [t \in Threads |-> Idle] /\ seenAt' = savedAt
        /\ saves' = [t \in Threads |-> NoSave]
        /\ UNCHANGED <<disk, clock, raced, savedAt>>
    BY DEF RestartClient
  <1>2. IsHistory(savedAt) /\ IsHistory(seenAt) /\ clock \in Nat
    BY DEF ReplayInv, ReplayTypeOK
  <1>3. ASSUME NEW tok \in DOMAIN savedAt PROVE savedAt[tok] <= clock /\ savedAt[tok] <= savedAt[tok]
    <2>1. savedAt[tok] <= seenAt[tok] /\ seenAt[tok] <= clock /\ tok \in DOMAIN seenAt
      BY DEF RecentInv, StampsOK, FileDated, Later
    <2>2. savedAt[tok] \in Nat /\ seenAt[tok] \in Nat
      BY <1>2, <2>1 DEF IsHistory
    <2>3. QED
      BY <1>2, <2>1, <2>2
  <1>4. SaveDated(NoSave, seenAt)'
    BY DEF SaveDated, NoSave, Nothing, Dated, Later
  <1>5. StampsOK' /\ FileDated'
    BY <1>1, <1>3, <1>4 DEF RecentInv, StampsOK, FileDated, SaveDated, Dated, Later
  <1>6. VictimsOK'
    BY <1>1 DEF VictimsOK, At, Idle
  <1>7. raced' = {} => FileRemembers' /\ Remembers(cache, seenAt)'
    BY <1>1, EmptyRemembers DEF RecentInv, FileRemembers, Remembers, Current, Outlived, MetSince
  <1>8. QED
    BY <1>5, <1>6, <1>7 DEF RecentInv

\* A step that only moves a thread.
LEMMA MoveKeepsRecent ==
    ASSUME ReplayInv, RecentInv, NEW t \in Threads,
           UNCHANGED <<cache, disk, saves, seenAt, savedAt, raced, clock>>,
           task' = [task EXCEPT ![t] = task'[t]], task'[t].step # "delete"
    PROVE  RecentInv'
  <1>1. task \in [Threads -> Tasks \cup {Idle}] /\ clock \in Nat
    BY DEF ReplayInv, ReplayTypeOK
  <1>2. \A u \in Threads : At(u, "delete")' => At(u, "delete") /\ task'[u].victim = task[u].victim
    BY <1>1 DEF At
  <1>3. QED
    BY <1>1, <1>2, ApartKeepsRecent

LEMMA BeginKeepsRecent ==
    ASSUME ReplayInv, RecentInv, NEW t \in Threads, NEW page \in SUBSET MessageIds, Begin(t, page)
    PROVE  RecentInv'
  <1>1. /\ task' = [task EXCEPT ![t] = task'[t]]
        /\ task'[t] = [step |-> "render", page |-> page, texts |-> {}, victim |-> NoToken]
    BY DEF Begin, ReplayInv, ReplayTypeOK, Idle
  <1>2. UNCHANGED <<cache, disk, saves, seenAt, savedAt, raced, clock>>
    BY DEF Begin, saved, met
  <1>3. QED
    BY <1>1, <1>2, MoveKeepsRecent

LEMMA RenderKeepsRecent ==
    ASSUME ReplayInv, RecentInv, NEW t \in Threads,
           \/ Unreadable(t) \/ Legacy(t) \/ Known(t) \/ New(t)
           \/ TrimDone(t) \/ TrimFails(t) \/ TrimMissed(t)
    PROVE  RecentInv'
  <1>1. task[t] \in Tasks /\ task \in [Threads -> Tasks \cup {Idle}]
    BY AtWork DEF Unreadable, Legacy, Known, New, TrimDone, TrimFails, TrimMissed, At, AtToken
  <1>2. PICK old \in Tasks : old = task[t]
    BY <1>1
  <1>3. UNCHANGED <<cache, disk, saves, seenAt, savedAt, raced, clock>>
    BY DEF Unreadable, Legacy, Known, New, TrimDone, TrimFails, TrimMissed, saved, met
  <1>4. \/ Pass(t, IdOf(t)) \/ Notice(t, IdOf(t))
        \/ \E step \in {"record", "pass", "ignore"} : task' = [task EXCEPT ![t].step = step]
    BY DEF Unreadable, Legacy, Known, New, TrimDone, TrimFails, TrimMissed
  <1>5. task' = [task EXCEPT ![t] = task'[t]] /\ task'[t].step # "delete"
    <2>1. ASSUME NEW new, task' = [task EXCEPT ![t] = new], new.step = "render"
          PROVE  task' = [task EXCEPT ![t] = task'[t]] /\ task'[t].step # "delete"
      <3>1. task'[t] = new
        BY <1>1, <2>1
      <3>2. QED
        BY <2>1, <3>1
    <2>2. ASSUME NEW id, Pass(t, id)
          PROVE  task' = [task EXCEPT ![t] = task'[t]] /\ task'[t].step # "delete"
      <3>1. PICK new : new = [task[t] EXCEPT !.step = "render", !.page = task[t].page \ {id},
                                             !.texts = task[t].texts \cup {id}]
        OBVIOUS
      <3>2. new.step = "render"
        BY <1>1, <3>1 DEF Tasks
      <3>3. task' = [task EXCEPT ![t] = new]
        BY <2>2, <3>1 DEF Pass
      <3>4. QED
        BY <2>1, <3>2, <3>3
    <2>3. ASSUME NEW id, Notice(t, id)
          PROVE  task' = [task EXCEPT ![t] = task'[t]] /\ task'[t].step # "delete"
      <3>1. PICK new : new = [task[t] EXCEPT !.step = "render", !.victim = NoToken,
                                             !.page = task[t].page \ {id}]
        OBVIOUS
      <3>2. new.step = "render"
        BY <1>1, <3>1 DEF Tasks
      <3>3. task' = [task EXCEPT ![t] = new]
        BY <2>3, <3>1 DEF Notice
      <3>4. QED
        BY <2>1, <3>2, <3>3
    <2>4. ASSUME NEW step \in {"record", "pass", "ignore"}, task' = [task EXCEPT ![t].step = step]
          PROVE  task' = [task EXCEPT ![t] = task'[t]] /\ task'[t].step # "delete"
      BY <1>1, <1>2, <2>4 DEF Tasks
    <2>5. QED
      BY <1>4, <2>2, <2>3, <2>4
  <1>6. QED
    BY <1>3, <1>5, MoveKeepsRecent

LEMMA ShowKeepsRecent ==
    ASSUME ReplayInv, RecentInv, NEW t \in Threads, Show(t)
    PROVE  RecentInv'
  <1>1. task \in [Threads -> Tasks \cup {Idle}] /\ task[t].step \in {"render", "show"}
    BY DEF Show, ToShow, AllRendered, At, ReplayInv, ReplayTypeOK
  <1>2. task[t] \in Tasks
    BY <1>1 DEF Idle
  <1>3. task' = [task EXCEPT ![t] = task'[t]] /\ task'[t].step \in {"save", "idle"}
    BY <1>1, <1>2 DEF Show, Tasks, Idle
  <1>4. UNCHANGED <<cache, disk, saves, seenAt, savedAt, raced, clock>>
    BY DEF Show, saved, met
  <1>5. QED
    BY <1>3, <1>4, MoveKeepsRecent

LEMMA SaveFailsKeepsRecent ==
    ASSUME ReplayInv, RecentInv, NEW t \in Threads, SaveFails(t)
    PROVE  RecentInv'
  <1>1. /\ task' = [task EXCEPT ![t] = Idle] /\ saves' = [saves EXCEPT ![t] = NoSave]
        /\ UNCHANGED <<cache, disk, clock, raced, seenAt, savedAt>>
    BY DEF SaveFails, met
  <1>2. /\ \A u \in Threads : saves'[u] \in {saves[u], NoSave}
        /\ \A u \in Threads : At(u, "delete")' => At(u, "delete") /\ task'[u].victim = task[u].victim
        /\ IsHistory(seenAt)
    BY <1>1 DEF ReplayInv, ReplayTypeOK, At, Idle
  <1>3. \A u \in Threads : SaveDated(saves'[u], seenAt)
    BY <1>2 DEF RecentInv, FileDated, SaveDated, NoSave, Nothing, Dated, Later
  <1>4. StampsOK' /\ FileDated'
    BY <1>1, <1>3 DEF RecentInv, StampsOK, FileDated, Dated, Later
  <1>5. ASSUME raced' = {} PROVE Remembers(cache, seenAt)' /\ VictimsOK' /\ FileRemembers'
    <2>1. Remembers(cache, seenAt) /\ VictimsOK /\ FileRemembers
      BY <1>1, <1>5 DEF RecentInv
    <2>2. \A u \in Threads : saves'[u].alone => Remembers(saves'[u].doc, saves'[u].stamps)
      BY <1>2, <2>1, EmptyRemembers DEF FileRemembers
    <2>3. Remembers(cache, seenAt)' /\ VictimsOK'
      BY <1>1, <1>2, <2>1 DEF VictimsOK, Remembers, Current, Outlived, MetSince
    <2>4. QED
      BY <1>1, <2>1, <2>2, <2>3 DEF FileRemembers
  <1>6. QED
    BY <1>4, <1>5 DEF RecentInv

\* A thread meets a token again, in the entry it has looked up.
LEMMA TouchKeepsRecent ==
    ASSUME ReplayInv, ReplayInv', RecentInv, NEW t \in Threads, Touch(t)
    PROVE  RecentInv'
  <1>1. /\ Holding(t) /\ AtToken(t) /\ HeldOK(t)
        /\ Pass(t, IdOf(t)) \/ Notice(t, IdOf(t))
    BY DEF Touch, Holding, AtToken, ReplayInv
  <1>2. /\ task[t] \in Tasks /\ task \in [Threads -> Tasks \cup {Idle}]
        /\ Token(t) \in Tokens /\ IsCache(cache)
    BY <1>1, AtWork DEF Holding, TypeButTasks
  <1>3. PICK tok \in Tokens : tok = Token(t)
    BY <1>2
  <1>4. /\ cache' = IF t \in dropped THEN cache ELSE [cache EXCEPT ![tok].seen = clock]
        /\ seenAt' = With(seenAt, tok, clock)
        /\ raced' = IF Doomed(t, tok) THEN raced \cup {tok} ELSE raced
        /\ UNCHANGED <<disk, saves, clock, savedAt>>
    BY <1>3 DEF Touch, saved
  <1>5. /\ \/ cache' = cache /\ raced' # {}
           \/ DOMAIN cache' = DOMAIN cache \cup {tok} /\ cache'[tok].seen = clock
        /\ \A other \in DOMAIN cache \ {tok} : cache'[other] = cache[other]
    <2>1. cache \in [DOMAIN cache -> Entries]
      BY <1>2 DEF IsCache
    <2>2. CASE t \notin dropped /\ tok \in DOMAIN cache
      BY <1>4, <2>1, <2>2 DEF Entries
    <2>3. CASE t \in dropped \/ tok \notin DOMAIN cache
      <3>1. tok \in raced'
        BY <1>1, <1>3, <1>4, <2>3 DEF HeldOK
      <3>2. cache' = cache
        BY <1>4, <2>1, <2>3
      <3>3. QED
        BY <3>1, <3>2
    <2>4. QED
      BY <2>2, <2>3
  <1>6. task' = [task EXCEPT ![t] = task'[t]] /\ task'[t].step # "delete"
    BY <1>1, <1>2 DEF Pass, Notice, Tasks
  <1>7. \A u \in Threads : At(u, "delete")' => u # t /\ At(u, "delete") /\ task'[u] = task[u]
    BY <1>2, <1>6 DEF At
  <1>8. raced' = {} => raced = {} /\ ~Doomed(t, tok)
    BY <1>4
  <1>9. QED
    BY <1>3, <1>4, <1>5, <1>7, <1>8, MeetingKeepsRecent DEF Doomed

\* A thread records a token, or finds that another has.
LEMMA RecordKeepsRecent ==
    ASSUME ReplayInv, ReplayInv', RecentInv, NEW t \in Threads, Record(t)
    PROVE  RecentInv'
  <1>1. /\ task[t] \in Tasks /\ task \in [Threads -> Tasks \cup {Idle}]
        /\ Token(t) \in Tokens
    BY AtWork DEF Record, At, AtToken
  <1>2. PICK tok \in Tokens : tok = Token(t)
    BY <1>1
  <1>3. /\ \/ tok \in DOMAIN cache /\ cache' = [cache EXCEPT ![tok].seen = clock]
           \/ cache' = With(cache, tok, [mid |-> IdOf(t), seen |-> clock])
        /\ seenAt' = With(seenAt, tok, clock)
        /\ raced' = IF tok \in DOMAIN cache \/ Doomed(t, tok) THEN raced \cup {tok} ELSE raced
        /\ UNCHANGED <<disk, saves, clock, savedAt>>
    BY <1>2 DEF Record, saved
  <1>4. /\ DOMAIN cache' = DOMAIN cache \cup {tok} /\ cache'[tok].seen = clock
        /\ \A other \in DOMAIN cache \ {tok} : cache'[other] = cache[other]
    <2>1. cache \in [DOMAIN cache -> Entries]
      BY DEF ReplayInv, ReplayTypeOK, IsCache
    <2>2. CASE tok \in DOMAIN cache /\ cache' = [cache EXCEPT ![tok].seen = clock]
      BY <2>1, <2>2 DEF Entries
    <2>3. CASE cache' = With(cache, tok, [mid |-> IdOf(t), seen |-> clock])
      BY <2>3 DEF With
    <2>4. QED
      BY <1>3, <2>2, <2>3
  <1>5. task' = [task EXCEPT ![t] = task'[t]] /\ task'[t].step # "delete"
    BY <1>1 DEF Record, Pass, Tasks
  <1>6. \A u \in Threads : At(u, "delete")' => u # t /\ At(u, "delete") /\ task'[u] = task[u]
    BY <1>1, <1>5 DEF At
  <1>7. raced' = {} => raced = {} /\ ~Doomed(t, tok)
    BY <1>3
  <1>8. QED
    BY <1>2, <1>3, <1>4, <1>6, <1>7, MeetingKeepsRecent DEF Doomed

LEMMA RecentInitially == ReplayInit => RecentInv
  <1>1. SUFFICES ASSUME ReplayInit PROVE RecentInv
    OBVIOUS
  <1>2. /\ DOMAIN cache = {} /\ DOMAIN disk = {} /\ DOMAIN seenAt = {} /\ DOMAIN savedAt = {}
        /\ task = [t \in Threads |-> Idle] /\ saves = [t \in Threads |-> NoSave]
    BY <1>1 DEF ReplayInit, Nothing
  <1>3. SaveDated(NoSave, seenAt)
    BY DEF SaveDated, NoSave, Nothing, Dated, Later
  <1>4. QED
    BY <1>2, <1>3, EmptyRemembers
       DEF RecentInv, StampsOK, FileDated, FileRemembers, Dated, Later, Remembers, VictimsOK, At, Idle

LEMMA RecentStep ==
    ReplayInv /\ ReplayInv' /\ RecentInv /\ [ReplayNext]_replayVars => RecentInv'
  <1>1. SUFFICES ASSUME ReplayInv, ReplayInv', RecentInv, [ReplayNext]_replayVars
                 PROVE  RecentInv'
    OBVIOUS
  <1>2. ASSUME NEW t \in Threads, NEW page \in Pages[t], Begin(t, page) PROVE RecentInv'
    BY <1>1, <1>2, BeginKeepsRecent, ReplayAssumption
  <1>3. ASSUME NEW t \in Threads, RenderNext(t) PROVE RecentInv'
    BY <1>1, <1>3, RenderKeepsRecent, TouchKeepsRecent, RecordKeepsRecent,
       TrimChooseKeepsRecent, TrimDeleteKeepsRecent DEF RenderNext
  <1>4. ASSUME NEW t \in Threads, Show(t) \/ SaveNext(t) PROVE RecentInv'
    BY <1>1, <1>4, ShowKeepsRecent, SaveMergesKeepsRecent, IntoFileKeepsRecent,
       SaveFailsKeepsRecent DEF SaveNext
  <1>5. CASE RestartClient
    BY <1>1, <1>5, RestartKeepsRecent
  <1>6. CASE ReplayTick
    BY <1>1, <1>6, ApartKeepsRecent DEF ReplayTick, saved, met, At, ReplayInv, ReplayTypeOK
  <1>7. CASE UNCHANGED replayVars
    BY <1>1, <1>7, ApartKeepsRecent
       DEF replayVars, history, saved, met, At, ReplayInv, ReplayTypeOK
  <1>8. QED
    BY <1>1, <1>2, <1>3, <1>4, <1>5, <1>6, <1>7 DEF ReplayNext

\* The cache forgets the least recently met first, whatever its capacity and however many
\* threads: a token it no longer holds has been outlived by as many others as the cache
\* has room for, after a crash and a restart too, until two threads are at one token at the
\* same time (_trim_peer_replay_cache, _trim_replay_cache).  A process that starts counts
\* what the last save had merged if no other save overlapped it, and otherwise what is in
\* the file (save_state: of overlapping saves an older one may be renamed last).
THEOREM RecentIsAlwaysRemembered == ReplaySpec => []RecentIsRemembered
  <1>1. RecentInv => RecentIsRemembered
    BY DEF RecentInv, Remembers, Current, Outlived, MetSince, RecentIsRemembered
  <1>2. ReplaySpec => []RecentInv
    BY ReplayInvariance, RecentInitially, RecentStep, PTL DEF ReplaySpec
  <1>3. QED
    BY <1>1, <1>2, PTL
=============================================================================
