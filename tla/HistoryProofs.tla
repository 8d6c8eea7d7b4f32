--------------------------- MODULE HistoryProofs ----------------------------
(***************************************************************************)
(* Safety of reading history page by page, for every number of threads and *)
(* messages, and any limits, lifetimes and cleanup interval.               *)
(***************************************************************************)
EXTENDS HistoryPaging, WellFoundedInduction, SequenceTheorems,
        FiniteSetTheorems, TLAPS

-----------------------------------------------------------------------------
(* Pages *)

\* A nonempty set of naturals has a least element.
LEMMA LeastNatural ==
    ASSUME NEW T, T \subseteq Nat, T # {}
    PROVE  \E x \in T : \A y \in T : x <= y
  <1> DEFINE less == OpToRel(<, Nat)
  <1>1. \A x, y \in Nat : <<x, y>> \in less <=> x < y
    BY DEF OpToRel
  <1>2. PICK x \in T : \A y \in T : ~(<<y, x>> \in less)
    BY NatLessThanWellFounded, WFMin
  <1>3. \A y \in T : x \in Nat /\ y \in Nat /\ ~(y < x)
    BY <1>1, <1>2
  <1>4. QED
    BY <1>3

\* A nonempty set of naturals with a bound has a greatest element.
LEMMA GreatestNatural ==
    ASSUME NEW bound \in Nat, NEW T, T \subseteq 0 .. bound, T # {}
    PROVE  \E x \in T : \A y \in T : y <= x
  <1>1. PICK gaps \in SUBSET Nat : gaps = {bound - x : x \in T}
    <2>1. {bound - x : x \in T} \subseteq Nat
      OBVIOUS
    <2>2. QED
      BY <2>1
  <1>2. gaps # {}
    BY <1>1
  <1>3. PICK least \in gaps : \A gap \in gaps : least <= gap
    BY <1>2, LeastNatural
  <1>4. PICK x \in T : least = bound - x
    BY <1>1, <1>3
  <1>5. \A y \in T : bound - y \in gaps /\ y \in Nat
    BY <1>1
  <1>6. QED
    BY <1>3, <1>4, <1>5

\* A page is below the cursor, and what is below the cursor and not on it is older than
\* all of it.
LEMMA PageIsNewest ==
    ASSUME HistoryTypeOK, NEW before \in Nat, NEW limit \in Limits
    PROVE  /\ Page(before, limit) \subseteq stored
           /\ \A p \in Page(before, limit) : p < before
           /\ \A id \in stored :
                id < before => \/ id \in Page(before, limit)
                               \/ /\ Page(before, limit) # {}
                                  /\ \A p \in Page(before, limit) : id < p
  <1>1. LastId \in Nat /\ stored \subseteq 1 .. LastId /\ limit \in Nat \ {0}
    BY HistoryAssumption DEF HistoryTypeOK, LastId
  <1>2. PICK older \in SUBSET stored : older = {id \in stored : id < before}
    OBVIOUS
  <1>3. PICK above : \A id \in older : above[id] = {other \in older : other > id}
    <2>1. \A id \in older : [i \in older |-> {other \in older : other > i}][id]
                              = {other \in older : other > id}
      OBVIOUS
    <2>2. QED
      BY <2>1
  <1>4. PICK page \in SUBSET older : page = {id \in older : Cardinality(above[id]) < limit}
    OBVIOUS
  <1>5. page = Page(before, limit)
    BY <1>2, <1>3, <1>4 DEF Page
  <1>6. IsFiniteSet(older)
    <2>1. IsFiniteSet(1 .. LastId)
      BY <1>1, FS_Interval
    <2>2. QED
      BY <1>1, <2>1, FS_Subset
  <1>7. ASSUME NEW id \in older, page = {} PROVE FALSE
    <2>1. older \subseteq 0 .. LastId
      BY <1>1
    <2>2. PICK last \in older : \A other \in older : other <= last
      BY <1>1, <1>7, <2>1, GreatestNatural
    <2>3. above[last] = {}
      <3>1. \A other \in older : other \in Nat /\ ~(other > last)
        BY <1>1, <2>2
      <3>2. QED
        BY <1>3, <3>1
    <2>4. Cardinality(above[last]) = 0
      BY <2>3, FS_EmptySet
    <2>5. QED
      BY <1>1, <1>4, <1>7, <2>4
  <1>8. ASSUME NEW id \in older, id \notin page, NEW p \in page PROVE id < p
    <2>1. SUFFICES ASSUME p < id PROVE FALSE
      BY <1>1, <1>8
    <2>2. above[id] \subseteq above[p]
      <3>1. \A other \in older : other \in Nat
        BY <1>1
      <3>2. \A other \in older : other > id => other > p
        BY <2>1, <3>1
      <3>3. QED
        BY <1>3, <3>2
    <2>3. IsFiniteSet(above[p])
      BY <1>3, <1>6, FS_Subset
    <2>4. IsFiniteSet(above[id]) /\ Cardinality(above[id]) <= Cardinality(above[p])
      BY <2>2, <2>3, FS_Subset
    <2>5. Cardinality(above[id]) \in Nat /\ Cardinality(above[p]) \in Nat
      BY <2>3, <2>4, FS_CardinalityType
    <2>6. Cardinality(above[p]) < limit /\ ~(Cardinality(above[id]) < limit)
      BY <1>4, <1>8
    <2>7. QED
      BY <1>1, <2>4, <2>5, <2>6
  <1>9. page \subseteq stored /\ \A p \in page : p < before
    BY <1>2
  <1>10. ASSUME NEW id \in stored, id < before
         PROVE  id \in page \/ (page # {} /\ \A p \in page : id < p)
    BY <1>2, <1>7, <1>8, <1>10
  <1>11. QED
    BY <1>5, <1>9, <1>10

\* The next cursor is the least id of the page.
LEMMA OldestIsLeast ==
    ASSUME NEW page, page \subseteq Nat, page # {}
    PROVE  Oldest(page) \in page /\ \A p \in page : Oldest(page) <= p
  BY LeastNatural DEF Oldest

-----------------------------------------------------------------------------
(* The invariant *)

\* The cursor is an id the client has seen.
CursorOK == paging # Beyond => paging <= LastId

\* What was printed is not below the cursor.
ShownAbove == \A id \in shown : paging <= id

\* The page of r is below its cursor and leaves out only what is older than all of it (or
\* was inserted since).
Reaches(r) ==
    /\ r.newest <= LastId /\ r.page \subseteq 1 .. LastId
    /\ \A p \in r.page : p < r.before
    /\ \A id \in stored :
          id < r.before /\ (r.op = "open" => id <= r.newest)
              => id \in r.page \/ (r.page # {} /\ \A p \in r.page : id < p)

\* The request the client waits for.
AskedOK ==
    asked # NoThread =>
        /\ req[asked] \in Requests
        /\ req[asked].op \in {"open", "more"}
        /\ req[asked].limit \in Limits
        /\ req[asked].op = "open" => req[asked].before = Beyond
        /\ req[asked].op = "more" => req[asked].before = paging /\ paging \notin {Beyond, End}
        /\ IF req[asked].step = "select" THEN req[asked].page = {} ELSE Reaches(req[asked])

\* What is or will be marked was selected.
SelectedFirst ==
    /\ read \subseteq selected
    /\ \A t \in Threads : req[t] # Idle => req[t].unread \subseteq selected

HistoryInv ==
    /\ HistoryTypeOK
    /\ CursorOK /\ ShownAbove /\ AskedOK /\ SelectedFirst
    /\ NothingSkipped

\* The type invariant of the table.
TableOK ==
    /\ messages \in Seq(Messages) /\ LastId <= MaxMessages
    /\ stored \subseteq 1 .. LastId /\ read \subseteq stored
    /\ clock \in Nat /\ lastSweep \in 0 .. clock

\* A request that a thread holds is a record with all its fields.
LEMMA BusyThread ==
    ASSUME HistoryInv, NEW t \in Threads, req[t] # Idle
    PROVE  /\ req[t] \in Requests /\ req \in [Threads -> Requests \cup {Idle}]
           /\ req[t].unread \subseteq selected
  BY DEF HistoryInv, HistoryTypeOK, SelectedFirst

\* The table changes: messages arrive with new ids, or leave.
LEMMA TableStep ==
    ASSUME HistoryInv, TableOK', UNCHANGED <<req, client, selected>>,
           LastId <= LastId', read' \subseteq read,
           \A id \in stored' : id \in stored \/ id > LastId,
           \A id \in Live' : id \in Live \/ id > LastId
    PROVE  HistoryInv'
  <1>1. UNCHANGED <<asked, paging, newest, shown>> /\ LastId \in Nat /\ LastId' \in Nat
    BY DEF client, HistoryInv, HistoryTypeOK, LastId, TableOK
  <1>2. HistoryTypeOK'
    BY <1>1 DEF HistoryInv, HistoryTypeOK, TableOK, Beyond
  <1>3. CursorOK' /\ ShownAbove'
    BY <1>1 DEF HistoryInv, HistoryTypeOK, CursorOK, ShownAbove, Beyond
  <1>4. SelectedFirst'
    BY <1>1 DEF HistoryInv, SelectedFirst
  <1>5. NothingSkipped'
    <2>1. newest \in Nat /\ newest <= LastId /\ Live' \subseteq Nat
      <3>1. newest \in Nat /\ newest <= LastId
        BY <1>1 DEF HistoryInv, HistoryTypeOK
      <3>2. \A id \in stored' : id \in Nat
        BY <1>1 DEF TableOK
      <3>3. QED
        BY <3>1, <3>2 DEF Live
    <2>2. ASSUME NEW id \in Live', paging <= id, id <= newest PROVE id \in shown
      <3>1. id \in Live
        BY <1>1, <2>1, <2>2
      <3>2. QED
        BY <2>2, <3>1 DEF HistoryInv, NothingSkipped
    <2>3. QED
      BY <1>1, <2>2 DEF NothingSkipped
  <1>6. AskedOK'
    <2>1. SUFFICES ASSUME asked # NoThread PROVE AskedOK'
      BY <1>1 DEF AskedOK
    <2>2. PICK r \in Requests : r = req[asked]
      BY <2>1 DEF HistoryInv, AskedOK
    <2>3. AskedOK /\ HistoryTypeOK /\ CursorOK
      BY DEF HistoryInv
    <2>4. ASSUME r.step # "select" PROVE Reaches(r)'
      <3>1. Reaches(r)
        BY <2>1, <2>2, <2>3, <2>4 DEF AskedOK
      <3>2. r.newest <= LastId' /\ r.page \subseteq 1 .. LastId'
        BY <1>1, <3>1 DEF Reaches, Requests
      <3>3. ASSUME NEW id \in stored', id < r.before, r.op = "open" => id <= r.newest
            PROVE  id \in stored
        <4>1. SUFFICES ASSUME id > LastId PROVE FALSE
          OBVIOUS
        <4>2. id \in Nat /\ r.newest \in Nat
          BY <1>2, <2>2 DEF HistoryTypeOK, Requests
        <4>3. CASE r.op = "open"
          BY <1>1, <3>1, <3>3, <4>1, <4>2, <4>3 DEF Reaches
        <4>4. CASE r.op = "more"
          <5>1. r.before = paging /\ paging <= LastId /\ paging \in Nat
            BY <2>1, <2>2, <2>3, <4>4 DEF AskedOK, CursorOK, HistoryTypeOK, Beyond
          <5>2. QED
            BY <1>1, <3>3, <4>1, <4>2, <5>1
        <4>5. QED
          BY <2>1, <2>2, <2>3, <4>3, <4>4 DEF AskedOK
      <3>4. QED
        BY <3>1, <3>2, <3>3 DEF Reaches
    <2>5. QED
      BY <1>1, <2>1, <2>2, <2>3, <2>4 DEF AskedOK
  <1>7. QED
    BY <1>2, <1>3, <1>4, <1>5, <1>6 DEF HistoryInv

\* A cleanup, alone or at the start of a handler.
LEMMA SweepOK ==
    ASSUME HistoryInv, Sweep, UNCHANGED <<messages, clock>>
    PROVE  /\ TableOK' /\ LastId' = LastId /\ read' \subseteq read /\ stored' \subseteq stored
           /\ Live' \subseteq Live
  <1>1. TableOK /\ clock \in Nat
    BY DEF TableOK, HistoryInv, HistoryTypeOK
  <1>2. stored' \subseteq stored /\ read' \subseteq read /\ read' \subseteq stored'
        /\ lastSweep' \in 0 .. clock
    <2>1. CASE clock - lastSweep >= SweepInterval
      BY <1>1, <2>1 DEF Sweep, Live, TableOK
    <2>2. CASE ~(clock - lastSweep >= SweepInterval)
      BY <1>1, <2>2 DEF Sweep, TableOK
    <2>3. QED
      BY <2>1, <2>2
  <1>3. LastId' = LastId
    BY DEF LastId
  <1>4. TableOK'
    BY <1>1, <1>2, <1>3 DEF TableOK
  <1>5. Live' \subseteq Live
    BY <1>2 DEF Live, Expired
  <1>6. QED
    BY <1>2, <1>3, <1>4, <1>5

LEMMA InsertKeeps ==
    ASSUME HistoryInv, NEW to \in Users, NEW ttl \in TTLs, Insert(to, ttl)
    PROVE  HistoryInv'
  <1>1. PICK message \in Messages : messages' = Append(messages, message)
    BY HistoryAssumption DEF Insert, Messages, HistoryInv, HistoryTypeOK
  <1>2. /\ messages \in Seq(Messages) /\ LastId \in Nat /\ LastId < MaxMessages
        /\ messages' \in Seq(Messages) /\ LastId' = LastId + 1
        /\ \A id \in 1 .. LastId : messages'[id] = messages[id]
    BY <1>1 DEF Insert, HistoryInv, HistoryTypeOK, LastId
  <1>3. stored' = stored \cup {LastId + 1} /\ UNCHANGED <<read, clock, lastSweep, req, client, selected>>
    BY DEF Insert
  <1>4. TableOK'
    <2>1. LastId' <= MaxMessages
      BY <1>2, HistoryAssumption
    <2>2. stored' \subseteq 1 .. LastId'
      <3>1. \A id \in stored : id \in 1 .. LastId + 1
        BY <1>2 DEF HistoryInv, HistoryTypeOK
      <3>2. QED
        BY <1>2, <1>3, <3>1
    <2>3. QED
      BY <1>2, <1>3, <2>1, <2>2 DEF TableOK, HistoryInv, HistoryTypeOK
  <1>5. \A id \in Live' : id \in Live \/ id > LastId
    <2>1. ASSUME NEW id \in stored, ~Expired(id)' PROVE ~Expired(id)
      <3>1. id \in 1 .. LastId
        BY DEF HistoryInv, HistoryTypeOK
      <3>2. messages'[id] = messages[id] /\ clock' = clock
        BY <1>2, <1>3, <3>1
      <3>3. QED
        BY <2>1, <3>2 DEF Expired
    <2>2. QED
      BY <1>2, <1>3, <2>1 DEF Live
  <1>6. QED
    BY <1>2, <1>3, <1>4, <1>5, TableStep

LEMMA CleanupKeeps ==
    ASSUME HistoryInv, CleanupElsewhere
    PROVE  HistoryInv'
  <1>1. LastId \in Nat
    BY DEF HistoryInv, HistoryTypeOK, LastId
  <1>2. QED
    BY <1>1, SweepOK, TableStep DEF CleanupElsewhere

LEMMA HistoryTickKeeps ==
    ASSUME HistoryInv, HistoryTick
    PROVE  HistoryInv'
  <1>1. TableOK' /\ LastId' = LastId /\ LastId \in Nat
    BY DEF HistoryTick, HistoryInv, HistoryTypeOK, TableOK, LastId
  <1>2. Live' \subseteq Live
    <2>1. ASSUME NEW id \in stored, Expired(id) PROVE Expired(id)'
      <3>1. messages[id] \in Messages /\ clock \in Nat
        BY DEF HistoryInv, HistoryTypeOK, LastId
      <3>2. QED
        BY <2>1, <3>1 DEF HistoryTick, Expired, Messages
    <2>2. QED
      BY <2>1 DEF Live, HistoryTick
  <1>3. QED
    BY <1>1, <1>2, TableStep DEF HistoryTick

-----------------------------------------------------------------------------
(* Requests *)

\* A page stays complete when messages leave the table.
LEMMA ReachesStill ==
    ASSUME NEW r \in Requests, Reaches(r), stored' \subseteq stored, LastId' = LastId
    PROVE  Reaches(r)'
  BY DEF Reaches

\* The rest of the invariant, for a step of thread t that neither the client nor the
\* messages it has seen notice.
LEMMA RequestStep ==
    ASSUME HistoryInv, NEW t \in Threads, TableOK', AskedOK',
           UNCHANGED <<paging, newest, shown>>,
           LastId' = LastId, Live' \subseteq Live, read' \subseteq selected',
           selected \subseteq selected', selected' \subseteq 1 .. LastId',
           asked' \in {asked, t, NoThread}, asked' # NoThread => req'[asked'] # Idle,
           req' = [req EXCEPT ![t] = req'[t]], req'[t] \in Requests \cup {Idle},
           req'[t] # Idle => req'[t].unread \subseteq selected'
    PROVE  HistoryInv'
  <1>1. req \in [Threads -> Requests \cup {Idle}] /\ req' \in [Threads -> Requests \cup {Idle}]
    BY DEF HistoryInv, HistoryTypeOK
  <1>2. HistoryTypeOK'
    BY <1>1 DEF HistoryInv, HistoryTypeOK, TableOK, Beyond
  <1>3. CursorOK' /\ ShownAbove'
    BY DEF HistoryInv, CursorOK, ShownAbove, Beyond
  <1>4. NothingSkipped'
    BY DEF HistoryInv, NothingSkipped
  <1>5. ASSUME NEW u \in Threads, req'[u] # Idle PROVE req'[u].unread \subseteq selected'
    <2>1. CASE u = t
      BY <1>5, <2>1
    <2>2. CASE u # t
      BY <1>1, <1>5, <2>2 DEF HistoryInv, SelectedFirst
    <2>3. QED
      BY <2>1, <2>2
  <1>6. SelectedFirst'
    BY <1>5 DEF SelectedFirst
  <1>7. QED
    BY <1>2, <1>3, <1>4, <1>6 DEF HistoryInv

\* A request begins, of the client or of another.
LEMMA StartKeeps ==
    ASSUME HistoryInv, NEW t \in Threads, NEW op \in {"open", "more", "mark_read"},
           NEW before \in 0 .. Beyond, NEW limit \in Limits \cup {0},
           Start(t, op, before, limit),
           \/ asked' = asked
           \/ /\ asked = NoThread /\ asked' = t
              /\ limit \in Limits
              /\ \/ op = "open" /\ before = Beyond
                 \/ op = "more" /\ before = paging /\ paging \notin {Beyond, End}
    PROVE  HistoryInv'
  <1>1. /\ TableOK' /\ LastId' = LastId /\ read' \subseteq read /\ stored' \subseteq stored
        /\ Live' \subseteq Live
    BY SweepOK DEF Start
  <1>2. /\ req[t] = Idle /\ req' = [req EXCEPT ![t] = Asking(op, before, limit)]
        /\ UNCHANGED <<paging, newest, shown, selected>>
    BY DEF Start
  <1>3. PICK r \in Requests : r = Asking(op, before, limit)
    <2>1. Asking(op, before, limit) \in Requests
      BY HistoryAssumption DEF Asking, Requests
    <2>2. QED
      BY <2>1
  <1>4. /\ r.op = op /\ r.before = before /\ r.limit = limit /\ r.step = "select"
        /\ r.unread = {} /\ r.page = {} /\ r # Idle
    BY <1>3 DEF Asking, Idle
  <1>5. /\ req \in [Threads -> Requests \cup {Idle}] /\ asked \in Threads \cup {NoThread}
        /\ asked # NoThread => req[asked] # Idle
        /\ selected \subseteq 1 .. LastId /\ read \subseteq selected
    BY DEF HistoryInv, HistoryTypeOK, SelectedFirst
  <1>6. req'[t] = r /\ req' = [req EXCEPT ![t] = r] /\ t # NoThread
    BY <1>2, <1>3, <1>5, HistoryAssumption
  <1>7. AskedOK'
    <2>1. CASE asked' = asked /\ asked # NoThread
      <3>1. asked # t /\ req'[asked] = req[asked]
        BY <1>2, <1>5, <2>1
      <3>2. req[asked] \in Requests /\ AskedOK
        BY <2>1 DEF HistoryInv, AskedOK
      <3>3. req[asked].step # "select" => Reaches(req[asked])'
        BY <1>1, <2>1, <3>1, <3>2, ReachesStill DEF AskedOK, Reaches
      <3>4. QED
        BY <1>2, <2>1, <3>1, <3>2, <3>3 DEF AskedOK, Reaches
    <2>2. CASE asked' = NoThread
      BY <2>2 DEF AskedOK
    <2>3. CASE asked' # asked
      BY <1>2, <1>3, <1>4, <1>6, <2>3 DEF AskedOK
    <2>4. QED
      BY <2>1, <2>2, <2>3
  <1>8. asked' # NoThread => req'[asked'] # Idle
    BY <1>2, <1>4, <1>5, <1>6
  <1>9. QED
    BY <1>1, <1>2, <1>4, <1>5, <1>6, <1>7, <1>8, RequestStep

LEMMA SelectKeeps ==
    ASSUME HistoryInv, NEW t \in Threads, Select(t)
    PROVE  HistoryInv'
  <1>1. req[t] # Idle /\ req[t].step = "select"
    BY DEF Select, Idle
  <1>2. PICK r \in Requests : r = req[t] /\ r.unread \subseteq selected
    BY <1>1, BusyThread
  <1>3. HistoryTypeOK /\ req \in [Threads -> Requests \cup {Idle}] /\ LastId \in Nat
    BY DEF HistoryInv, HistoryTypeOK, LastId
  <1>4. PICK page, unread :
          /\ page = (IF r.op = "mark_read" THEN {} ELSE Page(r.before, r.limit))
          /\ unread = Unread(IF r.op = "mark_read" THEN stored ELSE page)
    OBVIOUS
  <1>5. PICK kept, last : /\ kept = (IF asked = t THEN page ELSE {})
                          /\ last = (IF asked = t THEN LastId ELSE 0)
    OBVIOUS
  <1>6. /\ req' = [req EXCEPT ![t] = [r EXCEPT !.step = "mark", !.unread = unread,
                                              !.page = kept, !.newest = last]]
        /\ selected' = selected \cup unread
        /\ UNCHANGED <<messages, stored, read, clock, lastSweep, asked, paging, newest, shown>>
    BY <1>2, <1>4, <1>5 DEF Select, table, client
  <1>7. unread \subseteq stored /\ page \subseteq stored /\ kept \subseteq stored
        /\ stored \subseteq 1 .. MaxMessages /\ last \in 0 .. MaxMessages
    <2>1. stored \subseteq 1 .. MaxMessages /\ last \in 0 .. MaxMessages
      <3>1. \A id \in 1 .. LastId : id \in 1 .. MaxMessages
        BY <1>3, HistoryAssumption DEF HistoryTypeOK
      <3>2. last \in 0 .. MaxMessages
        BY <1>3, <1>5, HistoryAssumption DEF HistoryTypeOK
      <3>3. QED
        BY <1>3, <3>1, <3>2 DEF HistoryTypeOK
    <2>2. page \subseteq stored
      BY <1>4 DEF Page
    <2>3. QED
      BY <1>4, <1>5, <2>1, <2>2 DEF Unread
  <1>8. PICK new \in Requests :
          /\ new = [r EXCEPT !.step = "mark", !.unread = unread, !.page = kept, !.newest = last]
          /\ new.step = "mark" /\ new.unread = unread /\ new.page = kept /\ new.newest = last
          /\ new.op = r.op /\ new.before = r.before /\ new.limit = r.limit
    <2>1. [r EXCEPT !.step = "mark", !.unread = unread, !.page = kept, !.newest = last] \in Requests
      BY <1>7 DEF Requests
    <2>2. QED
      BY <2>1 DEF Requests
  <1>9. req' = [req EXCEPT ![t] = new] /\ req'[t] = new /\ new # Idle
    BY <1>3, <1>6, <1>8 DEF Idle
  <1>10. TableOK' /\ LastId' = LastId /\ Live' = Live
    BY <1>3, <1>6 DEF HistoryTypeOK, TableOK, LastId, Live, Expired
  <1>11. AskedOK'
    <2>1. CASE asked = t
      <3>1. AskedOK /\ asked # NoThread
        BY <2>1, HistoryAssumption DEF HistoryInv
      <3>2. /\ r.op \in {"open", "more"} /\ r.limit \in Limits
            /\ r.op = "open" => r.before = Beyond
            /\ r.op = "more" => r.before = paging /\ paging \notin {Beyond, End}
        BY <1>2, <2>1, <3>1 DEF AskedOK
      <3>3. kept = Page(r.before, r.limit) /\ last = LastId /\ r.before \in Nat
        BY <1>4, <1>5, <2>1, <3>2 DEF Requests
      <3>4. /\ \A p \in kept : p < r.before
            /\ \A id \in stored :
                 id < r.before => id \in kept \/ (kept # {} /\ \A p \in kept : id < p)
        BY <1>3, <3>2, <3>3, PageIsNewest
      <3>5. kept \subseteq 1 .. LastId
        BY <1>3, <1>7 DEF HistoryTypeOK
      <3>6. Reaches(new)'
        BY <1>3, <1>6, <1>8, <1>10, <3>3, <3>4, <3>5 DEF Reaches
      <3>7. QED
        BY <1>6, <1>8, <1>9, <2>1, <3>2, <3>6 DEF AskedOK
    <2>2. CASE asked # t
      <3>1. req'[asked] = req[asked] \/ asked = NoThread
        BY <1>3, <1>9, <2>2 DEF HistoryTypeOK
      <3>2. QED
        BY <1>6, <1>10, <3>1 DEF HistoryInv, AskedOK, Reaches
    <2>3. QED
      BY <2>1, <2>2
  <1>12. asked' # NoThread => req'[asked'] # Idle
    BY <1>3, <1>6, <1>9 DEF HistoryTypeOK
  <1>13. selected' \subseteq 1 .. LastId' /\ read' \subseteq selected'
    BY <1>3, <1>6, <1>7, <1>10 DEF HistoryTypeOK, HistoryInv, SelectedFirst
  <1>14. QED
    BY <1>6, <1>8, <1>9, <1>10, <1>11, <1>12, <1>13, RequestStep

LEMMA MarkKeeps ==
    ASSUME HistoryInv, NEW t \in Threads, Mark(t)
    PROVE  HistoryInv'
  <1>1. req[t] # Idle /\ req[t].step = "mark"
    BY DEF Mark, Idle
  <1>2. PICK r \in Requests : r = req[t] /\ r.unread \subseteq selected
    BY <1>1, BusyThread
  <1>3. HistoryTypeOK /\ req \in [Threads -> Requests \cup {Idle}] /\ read \subseteq selected
    BY DEF HistoryInv, HistoryTypeOK, SelectedFirst
  <1>4. PICK new \in Requests :
          /\ new = [r EXCEPT !.step = "reply", !.unread = {}]
          /\ new.step = "reply" /\ new.unread = {} /\ new.page = r.page /\ new.newest = r.newest
          /\ new.op = r.op /\ new.before = r.before /\ new.limit = r.limit
    <2>1. [r EXCEPT !.step = "reply", !.unread = {}] \in Requests
      BY DEF Requests
    <2>2. QED
      BY <2>1 DEF Requests
  <1>5. /\ req' = [req EXCEPT ![t] = IF asked = t THEN new ELSE Idle]
        /\ read' = read \cup (r.unread \cap stored)
        /\ UNCHANGED <<messages, stored, clock, lastSweep, asked, paging, newest, shown, selected>>
    BY <1>2, <1>4 DEF Mark, client
  <1>6. req'[t] = (IF asked = t THEN new ELSE Idle) /\ new # Idle
    BY <1>3, <1>4, <1>5 DEF Idle
  <1>7. TableOK' /\ LastId' = LastId /\ Live' = Live
    BY <1>3, <1>5 DEF HistoryTypeOK, TableOK, LastId, Live, Expired
  <1>8. AskedOK'
    <2>1. CASE asked = t
      <3>1. AskedOK /\ asked # NoThread
        BY <2>1, HistoryAssumption DEF HistoryInv
      <3>2. /\ r.op \in {"open", "more"} /\ r.limit \in Limits
            /\ r.op = "open" => r.before = Beyond
            /\ r.op = "more" => r.before = paging /\ paging \notin {Beyond, End}
            /\ Reaches(r)
        BY <1>1, <1>2, <2>1, <3>1 DEF AskedOK
      <3>3. Reaches(new)'
        BY <1>4, <1>5, <1>7, <3>2 DEF Reaches
      <3>4. QED
        BY <1>4, <1>5, <1>6, <2>1, <3>2, <3>3 DEF AskedOK
    <2>2. CASE asked # t
      <3>1. req'[asked] = req[asked] \/ asked = NoThread
        BY <1>3, <1>5, <2>2 DEF HistoryTypeOK
      <3>2. QED
        BY <1>5, <1>7, <3>1 DEF HistoryInv, AskedOK, Reaches
    <2>3. QED
      BY <2>1, <2>2
  <1>9. asked' # NoThread => req'[asked'] # Idle
    BY <1>3, <1>5, <1>6 DEF HistoryTypeOK
  <1>10. read' \subseteq selected' /\ selected' \subseteq 1 .. LastId'
    BY <1>2, <1>3, <1>5, <1>7 DEF HistoryTypeOK
  <1>11. req' = [req EXCEPT ![t] = req'[t]] /\ req'[t] \in Requests \cup {Idle}
    BY <1>3, <1>5, <1>6
  <1>12. req'[t] # Idle => req'[t].unread \subseteq selected'
    BY <1>4, <1>6
  <1>13. QED
    BY <1>5, <1>7, <1>8, <1>9, <1>10, <1>11, <1>12, RequestStep

\* A thread ends its request, or the client no longer waits for it.
LEMMA EndsKeeps ==
    ASSUME HistoryInv, NEW t \in Threads, UNCHANGED <<table, paging, newest, shown, selected>>,
           req' \in {req, [req EXCEPT ![t] = Idle]}, asked' \in {asked, NoThread},
           asked' = asked => asked # t
    PROVE  HistoryInv'
  <1>1. HistoryTypeOK /\ req \in [Threads -> Requests \cup {Idle}] /\ read \subseteq selected
    BY DEF HistoryInv, HistoryTypeOK, SelectedFirst
  <1>2. TableOK' /\ LastId' = LastId /\ Live' = Live /\ UNCHANGED <<stored, read>>
    BY <1>1 DEF HistoryTypeOK, TableOK, LastId, Live, Expired, table
  <1>3. asked' # NoThread => asked' = asked /\ req'[asked] = req[asked] /\ req[asked] # Idle
    BY <1>1 DEF HistoryTypeOK
  <1>4. AskedOK'
    BY <1>2, <1>3 DEF HistoryInv, AskedOK, Reaches
  <1>5. req' = [req EXCEPT ![t] = req'[t]] /\ req'[t] \in {req[t], Idle}
    BY <1>1
  <1>6. req'[t] \in Requests \cup {Idle} /\ (req'[t] # Idle => req'[t].unread \subseteq selected')
    BY <1>1, <1>5 DEF HistoryInv, SelectedFirst
  <1>7. read' \subseteq selected' /\ selected' \subseteq 1 .. LastId'
    BY <1>1, <1>2 DEF HistoryTypeOK
  <1>8. QED
    BY <1>2, <1>3, <1>4, <1>5, <1>6, <1>7, RequestStep

\* The client prints a page and moves the cursor.
LEMMA ReceiveKeeps ==
    ASSUME HistoryInv, Receive
    PROVE  HistoryInv'
  <1>1. asked # NoThread /\ asked \in Threads /\ HistoryTypeOK /\ AskedOK /\ ShownAbove
    BY DEF Receive, HistoryInv, HistoryTypeOK
  <1>2. PICK r \in Requests : r = req[asked]
    BY <1>1 DEF AskedOK
  <1>3. /\ r.op \in {"open", "more"}
        /\ r.op = "open" => r.before = Beyond
        /\ r.op = "more" => r.before = paging /\ paging \notin {Beyond, End}
        /\ Reaches(r)
    BY <1>1, <1>2 DEF AskedOK, Receive
  <1>4. /\ paging' = NextBefore(r.page)
        /\ newest' = IF r.op = "open" THEN r.newest ELSE newest
        /\ shown' = {id \in r.page : ~Expired(id)} \cup (IF r.op = "open" THEN {} ELSE shown)
        /\ req' = [req EXCEPT ![asked] = Idle] /\ asked' = NoThread
        /\ UNCHANGED <<messages, stored, read, clock, lastSweep, selected>>
    BY <1>2 DEF Receive, Printed, table
  <1>5. /\ LastId' = LastId /\ Live' = Live /\ LastId \in Nat /\ LastId <= MaxMessages
        /\ r.page \subseteq 1 .. LastId /\ r.newest \in 0 .. LastId
    BY <1>1, <1>3, <1>4 DEF LastId, Live, Expired, HistoryTypeOK, Reaches, Requests
  <1>6. /\ paging' \in 0 .. LastId
        /\ \A p \in r.page : paging' <= p
        /\ r.page # {} => paging' \in r.page
        /\ r.page = {} => paging' = End
    <2>1. CASE r.page = {}
      BY <1>4, <1>5, <2>1 DEF NextBefore, End
    <2>2. CASE r.page # {}
      <3>1. r.page \subseteq Nat
        BY <1>5
      <3>2. Oldest(r.page) \in r.page /\ \A p \in r.page : Oldest(r.page) <= p
        BY <2>2, <3>1, OldestIsLeast
      <3>3. QED
        BY <1>4, <1>5, <2>2, <3>2 DEF NextBefore
    <2>3. QED
      BY <2>1, <2>2
  <1>7. r.op = "more" => paging' <= paging
    <2>1. SUFFICES ASSUME r.op = "more" PROVE paging' <= paging
      OBVIOUS
    <2>2. paging \in Nat
      BY <1>1 DEF HistoryTypeOK
    <2>3. CASE r.page = {}
      BY <1>6, <2>2, <2>3 DEF End
    <2>4. CASE r.page # {}
      BY <1>3, <1>5, <1>6, <2>1, <2>2, <2>4 DEF Reaches
    <2>5. QED
      BY <2>3, <2>4
  <1>8. CursorOK' /\ AskedOK'
    BY <1>4, <1>5, <1>6 DEF CursorOK, AskedOK
  <1>9. ASSUME NEW id \in shown' PROVE paging' <= id /\ id \in 1 .. LastId
    <2>1. CASE id \in r.page
      BY <1>5, <1>6, <2>1
    <2>2. CASE id \notin r.page
      <3>1. id \in shown /\ r.op = "more" /\ id \in 1 .. LastId
        BY <1>1, <1>3, <1>4, <1>9, <2>2 DEF HistoryTypeOK
      <3>2. paging <= id /\ paging \in Nat
        BY <1>1, <3>1 DEF ShownAbove, HistoryTypeOK
      <3>3. QED
        BY <1>5, <1>6, <1>7, <3>1, <3>2
    <2>3. QED
      BY <2>1, <2>2
  <1>10. ShownAbove'
    BY <1>9 DEF ShownAbove
  <1>11. NothingSkipped'
    <2>1. SUFFICES ASSUME NEW id \in Live, paging' <= id, id <= newest' PROVE id \in shown'
      BY <1>5 DEF NothingSkipped
    <2>2. id \in stored /\ ~Expired(id) /\ id \in 1 .. LastId
      BY <1>1 DEF Live, HistoryTypeOK
    <2>3. CASE r.op = "more" /\ paging <= id
      BY <1>4, <2>1, <2>3 DEF HistoryInv, NothingSkipped
    <2>4. CASE r.op = "open" \/ ~(paging <= id)
      <3>1. id < r.before /\ (r.op = "open" => id <= r.newest)
        <4>1. CASE r.op = "open"
          BY <1>3, <1>4, <1>5, <2>1, <2>2, <4>1, HistoryAssumption DEF Beyond
        <4>2. CASE r.op = "more"
          <5>1. paging \in Nat /\ ~(paging <= id)
            BY <1>1, <2>4, <4>2 DEF HistoryTypeOK
          <5>2. QED
            BY <1>3, <2>2, <4>2, <5>1
        <4>3. QED
          BY <1>3, <4>1, <4>2
      <3>2. id \in r.page \/ (r.page # {} /\ \A p \in r.page : id < p)
        BY <1>3, <2>2, <3>1 DEF Reaches
      <3>3. id \in r.page
        <4>1. SUFFICES ASSUME r.page # {}, \A p \in r.page : id < p PROVE FALSE
          BY <3>2
        <4>2. id < paging' /\ paging' \in Nat
          BY <1>6, <4>1
        <4>3. QED
          BY <2>1, <2>2, <4>2
      <3>4. QED
        BY <1>4, <2>2, <3>3
    <2>5. QED
      BY <1>3, <2>3, <2>4
  <1>12. SelectedFirst'
    <2>1. \A u \in Threads : req'[u] # Idle => req'[u] = req[u]
      BY <1>1, <1>4 DEF HistoryTypeOK
    <2>2. QED
      BY <1>4, <2>1 DEF HistoryInv, SelectedFirst
  <1>13. HistoryTypeOK'
    <2>1. paging' \in 0 .. Beyond
      BY <1>5, <1>6, HistoryAssumption DEF Beyond
    <2>2. newest' \in 0 .. LastId' /\ shown' \subseteq 1 .. LastId'
      BY <1>1, <1>4, <1>5, <1>9 DEF HistoryTypeOK
    <2>3. req' \in [Threads -> Requests \cup {Idle}]
      BY <1>1, <1>4 DEF HistoryTypeOK
    <2>4. QED
      BY <1>1, <1>4, <1>5, <2>1, <2>2, <2>3 DEF HistoryTypeOK
  <1>14. QED
    BY <1>8, <1>10, <1>11, <1>12, <1>13 DEF HistoryInv

LEMMA ForgetKeeps ==
    ASSUME HistoryInv, ForgetPaging
    PROVE  HistoryInv'
  <1>1. /\ asked = NoThread /\ paging' = Beyond /\ newest' = 0 /\ shown' = {}
        /\ UNCHANGED <<messages, stored, read, clock, lastSweep, req, asked, selected>>
    BY DEF ForgetPaging, table
  <1>2. HistoryTypeOK /\ LastId' = LastId /\ LastId \in Nat /\ Live' = Live
    BY <1>1 DEF HistoryInv, HistoryTypeOK, LastId, Live, Expired
  <1>3. HistoryTypeOK'
    BY <1>1, <1>2, HistoryAssumption DEF HistoryTypeOK, Beyond
  <1>4. CursorOK' /\ ShownAbove' /\ AskedOK' /\ SelectedFirst'
    BY <1>1 DEF HistoryInv, CursorOK, ShownAbove, AskedOK, SelectedFirst, Beyond
  <1>5. NothingSkipped'
    <2>1. \A id \in Live : id \in 1 .. LastId
      BY <1>2 DEF Live, HistoryTypeOK
    <2>2. QED
      BY <1>1, <1>2, <2>1 DEF NothingSkipped
  <1>6. QED
    BY <1>3, <1>4, <1>5 DEF HistoryInv

-----------------------------------------------------------------------------
(* The theorems *)

LEMMA HistoryInitially == HistoryInit => HistoryInv
  <1>1. SUFFICES ASSUME HistoryInit PROVE HistoryInv
    OBVIOUS
  <1>2. /\ messages = <<>> /\ stored = {} /\ read = {} /\ clock = 0 /\ lastSweep = 0
        /\ req = [t \in Threads |-> Idle] /\ asked = NoThread /\ paging = Beyond
        /\ newest = 0 /\ shown = {} /\ selected = {}
    BY <1>1 DEF HistoryInit
  <1>3. LastId = 0 /\ messages \in Seq(Messages)
    BY <1>2 DEF LastId
  <1>4. HistoryTypeOK
    BY <1>2, <1>3, HistoryAssumption DEF HistoryTypeOK, Beyond
  <1>5. CursorOK /\ ShownAbove /\ AskedOK /\ SelectedFirst /\ NothingSkipped
    BY <1>2 DEF CursorOK, ShownAbove, AskedOK, SelectedFirst, NothingSkipped, Live
  <1>6. QED
    BY <1>4, <1>5 DEF HistoryInv

LEMMA HistoryStep == HistoryInv /\ [HistoryNext]_pagingVars => HistoryInv'
  <1>1. SUFFICES ASSUME HistoryInv, [HistoryNext]_pagingVars PROVE HistoryInv'
    OBVIOUS
  <1>2. CASE TableNext
    BY <1>1, <1>2, InsertKeeps, CleanupKeeps, HistoryTickKeeps DEF TableNext
  <1>3. CASE OtherNext
    <2>1. PICK t \in Threads :
            /\ asked' = asked
            /\ \/ \E limit \in Limits : Start(t, "open", Beyond, limit)
               \/ Start(t, "mark_read", Beyond, 0)
      BY <1>3 DEF OtherNext
    <2>2. Beyond \in 0 .. Beyond
      BY HistoryAssumption DEF Beyond
    <2>3. ASSUME NEW limit \in Limits, Start(t, "open", Beyond, limit) PROVE HistoryInv'
      BY <1>1, <2>1, <2>2, <2>3, StartKeeps
    <2>4. ASSUME Start(t, "mark_read", Beyond, 0) PROVE HistoryInv'
      BY <1>1, <2>1, <2>2, <2>4, StartKeeps
    <2>5. QED
      BY <2>1, <2>3, <2>4
  <1>4. ASSUME NEW t \in Threads, NEW limit \in Limits, Open(t, limit) \/ More(t, limit)
        PROVE  HistoryInv'
    <2>1. Beyond \in 0 .. Beyond /\ paging \in 0 .. Beyond
      BY <1>1, HistoryAssumption DEF Beyond, HistoryInv, HistoryTypeOK
    <2>2. CASE Open(t, limit)
      <3>1. Start(t, "open", Beyond, limit) /\ asked = NoThread /\ asked' = t
        BY <2>2 DEF Open, Ask
      <3>2. QED
        BY <1>1, <2>1, <3>1, StartKeeps
    <2>3. CASE More(t, limit)
      <3>1. /\ Start(t, "more", paging, limit) /\ asked = NoThread /\ asked' = t
            /\ paging \notin {Beyond, End}
        BY <2>3 DEF More, Ask
      <3>2. QED
        BY <1>1, <2>1, <3>1, StartKeeps
    <2>4. QED
      BY <1>4, <2>2, <2>3
  <1>5. CASE GiveUp
    <2>1. /\ asked \in Threads /\ asked' = NoThread /\ asked # NoThread
          /\ req' \in {req, [req EXCEPT ![asked] = Idle]}
          /\ UNCHANGED <<table, paging, newest, shown, selected>>
      BY <1>1, <1>5 DEF GiveUp, HistoryInv, HistoryTypeOK
    <2>2. QED
      BY <1>1, <2>1, EndsKeeps
  <1>6. ASSUME NEW t \in Threads, HandlerNext(t) PROVE HistoryInv'
    <2>1. CASE HandlerFails(t)
      BY <1>1, <2>1, EndsKeeps, HistoryAssumption DEF HandlerFails
    <2>2. QED
      BY <1>1, <1>6, <2>1, SelectKeeps, MarkKeeps DEF HandlerNext
  <1>7. CASE UNCHANGED pagingVars
    <2>1. UNCHANGED <<messages, stored, read, clock, lastSweep>> /\ UNCHANGED <<req, client, selected>>
      BY <1>7 DEF pagingVars, table
    <2>2. TableOK' /\ LastId' = LastId /\ LastId \in Nat /\ Live' = Live
      BY <1>1, <2>1 DEF HistoryInv, HistoryTypeOK, TableOK, LastId, Live, Expired
    <2>3. QED
      BY <1>1, <2>1, <2>2, TableStep
  <1>8. QED
    BY <1>1, <1>2, <1>3, <1>4, <1>5, <1>6, <1>7, ReceiveKeeps, ForgetKeeps
       DEF HistoryNext, ClientNext

\* The inductive invariant: the page on its way to the client reaches from the cursor it
\* was asked with to its oldest message without a gap.
THEOREM HistoryInvariance == HistorySpec => []HistoryInv
  <1>1. QED
    BY HistoryInitially, HistoryStep, PTL DEF HistorySpec

\* The tables, the requests and the client's cursor keep their types; a client that waits
\* for an answer has a request that some thread works on (messages_pull, cli.py).
THEOREM HistoryTypeCorrect == HistorySpec => []HistoryTypeOK
  <1>1. HistoryInv => HistoryTypeOK
    BY DEF HistoryInv
  <1>2. QED
    BY <1>1, HistoryInvariance, PTL

\* Following the cursor from `open` by `more` skips no message that is still there, for any
\* limits, failures, retries, arrivals and expiries (messages_pull, _pull_conversation_page).
THEOREM NothingIsSkipped == HistorySpec => []NothingSkipped
  <1>1. HistoryInv => NothingSkipped
    BY DEF HistoryInv
  <1>2. QED
    BY <1>1, HistoryInvariance, PTL

\* The page of a `more` has no message that was printed since the last `open`.
THEOREM NothingIsTwice == HistorySpec => []NothingTwice
  <1>1. ASSUME HistoryInv, asked # NoThread, req[asked].op = "more"
        PROVE  req[asked].page \cap shown = {}
    <2>1. PICK r \in Requests : r = req[asked]
      BY <1>1 DEF HistoryInv, AskedOK
    <2>2. r.before = paging /\ paging \in Nat
      BY <1>1, <2>1 DEF HistoryInv, AskedOK, HistoryTypeOK
    <2>3. CASE r.step = "select"
      BY <1>1, <2>1, <2>3 DEF HistoryInv, AskedOK
    <2>4. CASE r.step # "select"
      <3>1. /\ \A p \in r.page : p < paging /\ p \in Nat
            /\ \A id \in shown : paging <= id
        BY <1>1, <2>1, <2>2, <2>4 DEF HistoryInv, AskedOK, ShownAbove, Reaches
      <3>2. QED
        BY <2>1, <2>2, <3>1
    <2>5. QED
      BY <2>3, <2>4
  <1>2. HistoryInv => NothingTwice
    BY <1>1 DEF NothingTwice
  <1>3. QED
    BY <1>2, HistoryInvariance, PTL

\* Only what a handler selected for its receiver is ever marked as read (messages_pull,
\* mark_read).
THEOREM ReadIsSelected == HistorySpec => []ReadWasSelected
  <1>1. HistoryInv => ReadWasSelected
    BY DEF HistoryInv, SelectedFirst, ReadWasSelected
  <1>2. QED
    BY <1>1, HistoryInvariance, PTL

-----------------------------------------------------------------------------
(* The notice under a page *)

\* A page that is not full has all that is below its cursor (and was there when an `open`
\* was selected) and still is in the table.
Whole(r) ==
    Cardinality(r.page) < r.limit =>
        (\A id \in stored : id < r.before /\ (r.op = "open" => id <= r.newest) => id \in r.page)

WholeInv == asked # NoThread /\ req[asked].step # "select" => Whole(req[asked])

NoticeInv == HistoryInv /\ WholeInv

\* What is missing from a page is outnumbered: the greatest missing id has `limit` ids
\* above it, and they are all on the page.
LEMMA ShortPageIsWhole ==
    ASSUME HistoryTypeOK, NEW before \in Nat, NEW limit \in Limits,
           Cardinality(Page(before, limit)) < limit,
           NEW id \in stored, id < before
    PROVE  id \in Page(before, limit)
  <1>1. SUFFICES ASSUME id \notin Page(before, limit) PROVE FALSE
    OBVIOUS
  <1>2. LastId \in Nat /\ stored \subseteq 1 .. LastId /\ limit \in Nat \ {0}
    BY HistoryAssumption DEF HistoryTypeOK, LastId
  <1>3. PICK older \in SUBSET stored : older = {i \in stored : i < before}
    OBVIOUS
  <1>4. PICK above : \A i \in older : above[i] = {other \in older : other > i}
    <2>1. \A i \in older : [j \in older |-> {other \in older : other > j}][i]
                              = {other \in older : other > i}
      OBVIOUS
    <2>2. QED
      BY <2>1
  <1>5. PICK page \in SUBSET older : page = {i \in older : Cardinality(above[i]) < limit}
    OBVIOUS
  <1>6. page = Page(before, limit)
    BY <1>3, <1>4, <1>5 DEF Page
  <1>7. IsFiniteSet(page)
    <2>1. IsFiniteSet(1 .. LastId)
      BY <1>2, FS_Interval
    <2>2. page \subseteq 1 .. LastId
      BY <1>2
    <2>3. QED
      BY <2>1, <2>2, FS_Subset
  <1>8. id \in older \ page
    BY <1>1, <1>3, <1>6
  <1>9. PICK last \in older \ page : \A i \in older \ page : i <= last
    <2>1. older \ page \subseteq 0 .. LastId
      BY <1>2
    <2>2. QED
      BY <1>2, <1>8, <2>1, GreatestNatural
  <1>10. above[last] \subseteq page
    <2>1. \A i \in older : i \in Nat
      BY <1>2
    <2>2. \A i \in older : i > last => i \in page
      BY <1>9, <2>1
    <2>3. QED
      BY <1>4, <2>2
  <1>11. IsFiniteSet(above[last]) /\ Cardinality(above[last]) <= Cardinality(page)
    BY <1>7, <1>10, FS_Subset
  <1>12. Cardinality(above[last]) \in Nat /\ Cardinality(page) \in Nat
    BY <1>7, <1>11, FS_CardinalityType
  <1>13. ~(Cardinality(above[last]) < limit)
    BY <1>5, <1>9
  <1>14. QED
    BY <1>2, <1>6, <1>11, <1>12, <1>13

\* The client waits on, its page is the one it was, and messages leave or come with new ids.
LEMMA WholeStays ==
    ASSUME HistoryInv, HistoryInv', WholeInv, asked # NoThread, asked' = asked,
           req'[asked].step # "select" =>
               /\ req[asked].step # "select"
               /\ req'[asked].op = req[asked].op /\ req'[asked].before = req[asked].before
               /\ req'[asked].limit = req[asked].limit /\ req'[asked].page = req[asked].page
               /\ req'[asked].newest = req[asked].newest,
           \A id \in stored' : id \in stored \/ id > LastId
    PROVE  WholeInv'
  <1>1. SUFFICES ASSUME req'[asked].step # "select" PROVE Whole(req[asked])'
    BY DEF WholeInv
  <1>2. PICK r \in Requests : r = req[asked] /\ Reaches(r) /\ Whole(r)
    BY <1>1 DEF HistoryInv, AskedOK, WholeInv
  <1>3. /\ r.op \in {"open", "more"}
        /\ r.op = "more" => r.before = paging /\ paging # Beyond
    BY <1>2 DEF HistoryInv, AskedOK
  <1>4. LastId \in Nat /\ (\A id \in stored' : id \in Nat) /\ r.newest \in Nat /\ r.newest <= LastId
    BY <1>2 DEF HistoryInv, HistoryTypeOK, LastId, Reaches, Requests
  <1>5. ASSUME NEW id \in stored', id < r.before, r.op = "open" => id <= r.newest
        PROVE  id \in stored
    <2>1. SUFFICES ASSUME id > LastId PROVE FALSE
      OBVIOUS
    <2>2. CASE r.op = "open"
      BY <1>4, <1>5, <2>1, <2>2
    <2>3. CASE r.op = "more"
      <3>1. r.before <= LastId /\ r.before \in Nat
        BY <1>3, <2>3 DEF HistoryInv, HistoryTypeOK, CursorOK
      <3>2. QED
        BY <1>4, <1>5, <2>1, <3>1
    <2>4. QED
      BY <1>3, <2>2, <2>3
  <1>6. Whole(r)'
    BY <1>2, <1>5 DEF Whole
  <1>7. QED
    BY <1>1, <1>2, <1>6 DEF Whole

\* The handler of the client's request selects the page.
LEMMA SelectIsWhole ==
    ASSUME HistoryInv, asked # NoThread, Select(asked)
    PROVE  WholeInv'
  <1>1. HistoryTypeOK /\ req \in [Threads -> Requests \cup {Idle}] /\ asked \in Threads
    BY DEF HistoryInv, HistoryTypeOK
  <1>2. PICK r \in Requests : /\ r = req[asked] /\ r.op \in {"open", "more"}
                              /\ r.limit \in Limits /\ r.before \in Nat
    BY DEF HistoryInv, AskedOK, Requests
  <1>3. PICK new : new = req'[asked]
    OBVIOUS
  <1>4. /\ new.page = Page(r.before, r.limit) /\ new.limit = r.limit /\ new.before = r.before
        /\ new.op = r.op
        /\ stored' = stored /\ asked' = asked
    BY <1>1, <1>2, <1>3 DEF Select, Requests, table, client
  <1>5. Whole(new)'
    BY <1>1, <1>2, <1>4, ShortPageIsWhole DEF Whole
  <1>6. QED
    BY <1>3, <1>4, <1>5 DEF WholeInv

\* Steps that leave the client's request as it is.
LEMMA OthersAreWhole ==
    ASSUME HistoryInv, HistoryInv', WholeInv, asked' \in {asked, NoThread},
           req'[asked] = req[asked],
           \A id \in stored' : id \in stored \/ id > LastId
    PROVE  WholeInv'
  <1>1. CASE asked' = NoThread
    BY <1>1 DEF WholeInv
  <1>2. CASE asked' = asked /\ asked # NoThread
    BY <1>2, WholeStays
  <1>3. QED
    BY <1>1, <1>2

LEMMA StartIsWhole ==
    ASSUME HistoryInv, HistoryInv', WholeInv, NEW t \in Threads, NEW op, NEW before, NEW limit,
           Start(t, op, before, limit), asked' = asked \/ asked' = t
    PROVE  WholeInv'
  <1>1. /\ req \in [Threads -> Requests \cup {Idle}] /\ asked \in Threads \cup {NoThread}
        /\ asked # NoThread => req[asked] # Idle
    BY DEF HistoryInv, HistoryTypeOK
  <1>2. /\ req[t] = Idle /\ req' = [req EXCEPT ![t] = Asking(op, before, limit)]
        /\ stored' \subseteq stored
    BY SweepOK DEF Start
  <1>3. CASE asked' = t
    BY <1>1, <1>2, <1>3 DEF WholeInv, Asking
  <1>4. CASE asked' = asked /\ asked # t /\ asked # NoThread
    <2>1. req'[asked] = req[asked]
      BY <1>1, <1>2, <1>4
    <2>2. QED
      BY <1>2, <1>4, <2>1, OthersAreWhole
  <1>5. CASE asked' = NoThread
    BY <1>5 DEF WholeInv
  <1>6. QED
    BY <1>3, <1>4, <1>5

LEMMA HandlerIsWhole ==
    ASSUME HistoryInv, HistoryInv', WholeInv, NEW t \in Threads, HandlerNext(t)
    PROVE  WholeInv'
  <1>1. req \in [Threads -> Requests \cup {Idle}] /\ asked \in Threads \cup {NoThread}
    BY DEF HistoryInv, HistoryTypeOK
  <1>2. stored' = stored /\ asked' \in {asked, NoThread} /\ (asked = t /\ ~Select(t) /\ ~Mark(t) => asked' = NoThread)
    BY DEF HandlerNext, Select, Mark, HandlerFails, table, client
  <1>3. CASE asked = t /\ Select(t)
    <2>1. asked # NoThread
      BY <1>3, HistoryAssumption
    <2>2. QED
      BY <1>3, <2>1, SelectIsWhole
  <1>4. CASE asked = t /\ Mark(t)
    <2>1. asked # NoThread /\ asked' = asked
      BY <1>4, HistoryAssumption DEF Mark, client
    <2>2. PICK r \in Requests : r = req[asked] /\ r.step = "mark"
      BY <1>4, <2>1 DEF HistoryInv, AskedOK, Mark
    <2>3. req'[asked] = [r EXCEPT !.step = "reply", !.unread = {}]
      BY <1>1, <1>4, <2>2 DEF Mark
    <2>4. /\ req'[asked].op = r.op /\ req'[asked].before = r.before
          /\ req'[asked].limit = r.limit /\ req'[asked].page = r.page
          /\ req'[asked].newest = r.newest
      BY <2>3 DEF Requests
    <2>5. QED
      BY <1>2, <2>1, <2>2, <2>4, WholeStays
  <1>5. CASE asked # t /\ asked # NoThread
    <2>1. req'[asked] = req[asked]
      BY <1>1, <1>5 DEF HandlerNext, Select, Mark, HandlerFails
    <2>2. QED
      BY <1>2, <2>1, OthersAreWhole
  <1>6. CASE asked' = NoThread
    BY <1>6 DEF WholeInv
  <1>7. QED
    BY <1>2, <1>3, <1>4, <1>5, <1>6

LEMMA NoticeStep == NoticeInv /\ [HistoryNext]_pagingVars => NoticeInv'
  <1>1. SUFFICES ASSUME HistoryInv, WholeInv, [HistoryNext]_pagingVars
                 PROVE  HistoryInv' /\ WholeInv'
    BY DEF NoticeInv
  <1>2. HistoryInv'
    BY <1>1, HistoryStep
  <1>3. CASE TableNext
    <2>1. \A id \in stored' : id \in stored \/ id > LastId
      <3>1. ASSUME NEW to \in Users, NEW ttl \in TTLs, Insert(to, ttl)
            PROVE  \A id \in stored' : id \in stored \/ id > LastId
        <4>1. LastId \in Nat
          BY <1>1 DEF HistoryInv, HistoryTypeOK, LastId
        <4>2. QED
          BY <3>1, <4>1 DEF Insert
      <3>2. CASE CleanupElsewhere
        BY <1>1, <3>2, SweepOK DEF CleanupElsewhere
      <3>3. CASE HistoryTick
        BY <3>3 DEF HistoryTick
      <3>4. QED
        BY <1>3, <3>1, <3>2, <3>3 DEF TableNext
    <2>2. asked' = asked /\ req' = req
      BY <1>3 DEF TableNext, Insert, CleanupElsewhere, HistoryTick, client
    <2>3. QED
      BY <1>1, <1>2, <2>1, <2>2, OthersAreWhole
  <1>4. CASE OtherNext
    BY <1>1, <1>2, <1>4, StartIsWhole DEF OtherNext
  <1>5. CASE ClientNext
    <2>1. CASE \E t \in Threads, limit \in Limits : Open(t, limit) \/ More(t, limit)
      <3>1. PICK t \in Threads, limit \in Limits : Open(t, limit) \/ More(t, limit)
        BY <2>1
      <3>2. QED
        BY <1>1, <1>2, <3>1, StartIsWhole DEF Open, More, Ask
    <2>2. CASE Receive \/ GiveUp \/ ForgetPaging
      <3>1. asked' = NoThread
        BY <2>2 DEF Receive, GiveUp, ForgetPaging
      <3>2. QED
        BY <1>2, <3>1 DEF WholeInv
    <2>3. QED
      BY <1>5, <2>1, <2>2 DEF ClientNext
  <1>6. ASSUME NEW t \in Threads, HandlerNext(t) PROVE WholeInv'
    BY <1>1, <1>2, <1>6, HandlerIsWhole
  <1>7. CASE UNCHANGED pagingVars
    <2>1. asked' = asked /\ req' = req /\ stored' = stored
      BY <1>7 DEF pagingVars, table, client
    <2>2. QED
      BY <1>1, <1>2, <2>1, OthersAreWhole
  <1>8. QED
    BY <1>1, <1>2, <1>3, <1>4, <1>5, <1>6, <1>7 DEF HistoryNext

LEMMA NoticeInvariance == HistorySpec => []NoticeInv
  <1>1. HistoryInit => NoticeInv
    BY HistoryInitially DEF HistoryInit, NoticeInv, WholeInv
  <1>2. QED
    BY <1>1, NoticeStep, PTL DEF HistorySpec

\* A page that is not full and is printed whole leaves nothing unprinted.
LEMMA NoticeOfWholePage ==
    ASSUME NoticeInv, Receive, SaysHistoryEnds(req[asked]),
           Printed(req[asked]) = req[asked].page,
           NEW id \in Live, id <= newest'
    PROVE  id \in shown'
  <1>1. HistoryTypeOK /\ AskedOK /\ NothingSkipped /\ asked # NoThread /\ req[asked].step = "reply"
    BY DEF NoticeInv, HistoryInv, Receive
  <1>2. PICK r \in Requests : r = req[asked] /\ Whole(r) /\ Cardinality(r.page) < r.limit
    BY <1>1 DEF AskedOK, NoticeInv, WholeInv, SaysHistoryEnds
  <1>3. /\ r.op \in {"open", "more"}
        /\ r.op = "open" => r.before = Beyond
        /\ r.op = "more" => r.before = paging
    BY <1>1, <1>2 DEF AskedOK
  <1>4. /\ newest' = IF r.op = "open" THEN r.newest ELSE newest
        /\ shown' = r.page \cup (IF r.op = "open" THEN {} ELSE shown)
    BY <1>2 DEF Receive
  <1>5. id \in stored /\ id \in Nat /\ paging \in Nat /\ id <= MaxMessages
    <2>1. id \in stored /\ stored \subseteq 1 .. LastId /\ LastId \in Nat /\ LastId <= MaxMessages
      BY <1>1 DEF Live, HistoryTypeOK, LastId
    <2>2. QED
      BY <1>1, <2>1, HistoryAssumption DEF HistoryTypeOK
  <1>6. CASE r.op = "open"
    <2>1. id < r.before
      BY <1>3, <1>5, <1>6, HistoryAssumption DEF Beyond
    <2>2. QED
      BY <1>2, <1>4, <1>5, <1>6, <2>1 DEF Whole
  <1>7. CASE r.op = "more" /\ id < paging
    BY <1>2, <1>3, <1>4, <1>5, <1>7 DEF Whole
  <1>8. CASE r.op = "more" /\ ~(id < paging)
    BY <1>1, <1>4, <1>5, <1>8 DEF NothingSkipped
  <1>9. QED
    BY <1>3, <1>6, <1>7, <1>8

\* The notice under a page (no older messages, end of the available history) is true
\* whenever the page is printed as it was selected: it can only be wrong when a message of
\* the page has expired by the time it is printed (_pull_conversation_page).
THEOREM NoticeIsTrueOfWholePages ==
    HistorySpec =>
        [][Receive /\ SaysHistoryEnds(req[asked]) /\ Printed(req[asked]) = req[asked].page
             => \A id \in Live : id <= newest' => id \in shown']_pagingVars
  <1>1. NoticeInv =>
          (Receive /\ SaysHistoryEnds(req[asked]) /\ Printed(req[asked]) = req[asked].page
             => \A id \in Live : id <= newest' => id \in shown')
    BY NoticeOfWholePage
  <1>2. QED
    BY <1>1, NoticeInvariance, PTL

-----------------------------------------------------------------------------
(* A conversation whose messages do not self-destruct *)

Lasting == \A id \in 1 .. LastId : messages[id].expires = Never

LEMMA LastingStep ==
    ASSUME TTLs \subseteq {Never}, HistoryTypeOK, Lasting, [HistoryNext]_pagingVars
    PROVE  Lasting'
  <1>1. messages \in Seq(Messages) /\ LastId \in Nat
    BY DEF HistoryTypeOK, LastId
  <1>2. ASSUME NEW to \in Users, NEW ttl \in TTLs, Insert(to, ttl) PROVE Lasting'
    <2>1. messages' = Append(messages, [to |-> to, expires |-> Never])
      BY <1>2 DEF Insert
    <2>2. /\ LastId' = LastId + 1
          /\ \A id \in 1 .. LastId : messages'[id] = messages[id]
          /\ messages'[LastId + 1] = [to |-> to, expires |-> Never]
      BY <1>1, <2>1 DEF LastId
    <2>3. QED
      BY <1>1, <2>2 DEF Lasting
  <1>3. CASE messages' = messages
    BY <1>3 DEF Lasting, LastId
  <1>4. TableNext => messages' = messages \/ \E to \in Users, ttl \in TTLs : Insert(to, ttl)
    BY DEF TableNext, CleanupElsewhere, HistoryTick
  <1>5. OtherNext \/ ClientNext => messages' = messages
    BY DEF OtherNext, ClientNext, Open, More, Ask, Start, Receive, GiveUp, ForgetPaging, table
  <1>6. \A t \in Threads : HandlerNext(t) => messages' = messages
    BY DEF HandlerNext, Select, Mark, HandlerFails, table
  <1>7. QED
    BY <1>2, <1>3, <1>4, <1>5, <1>6 DEF HistoryNext, pagingVars, table

\* Where no message has a time to live, the notice is always true.
THEOREM NoticeIsTrueWithoutExpiry ==
    ASSUME TTLs \subseteq {Never}
    PROVE  HistorySpec => NoticeIsTrue
  <1>1. HistoryInit => Lasting
    BY DEF HistoryInit, Lasting, LastId
  <1>2. NoticeInv /\ Lasting /\ [HistoryNext]_pagingVars => Lasting'
    BY LastingStep DEF NoticeInv, HistoryInv
  <1>3. ASSUME NoticeInv, Lasting, Receive, SaysHistoryEnds(req[asked])
        PROVE  \A id \in Live : id <= newest' => id \in shown'
    <2>1. asked # NoThread /\ req[asked].step = "reply"
      BY <1>3 DEF Receive
    <2>2. req[asked].page \subseteq 1 .. LastId
      BY <1>3, <2>1 DEF NoticeInv, HistoryInv, AskedOK, Reaches
    <2>3. Printed(req[asked]) = req[asked].page
      BY <1>3, <2>2 DEF Printed, Expired, Lasting
    <2>4. QED
      BY <1>3, <2>3, NoticeOfWholePage
  <1>4. NoticeInv /\ Lasting =>
          (Receive /\ SaysHistoryEnds(req[asked]) => \A id \in Live : id <= newest' => id \in shown')
    BY <1>3
  <1>5. QED
    BY <1>1, <1>2, <1>4, NoticeInvariance, PTL DEF HistorySpec, NoticeIsTrue


=============================================================================
