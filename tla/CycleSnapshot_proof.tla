------------------------- MODULE CycleSnapshot_proof -------------------------
(***************************************************************************)
(* Theorems about CycleSnapshot, for any number of weeks, versions and     *)
(* overlapping starts, retries and recoveries.                             *)
(*                                                                         *)
(* That an evidence version is taken once needs only the unique            *)
(* constraints of the database.  The other theorems need more: a sync that *)
(* does not outlast the start lease (NoSlowSync).  Then whoever builds a   *)
(* snapshot holds the lease (LeaseHeld), nobody else builds one or         *)
(* recovers, and what the builder has in memory, its files and its rows    *)
(* stay what it made them (BuildsAreSound).                                *)
(***************************************************************************)
EXTENDS CycleSnapshot, FiniteSetTheorems, WellFoundedInduction, TLAPS

-----------------------------------------------------------------------------
(* Sets of numbers *)

\* A set of numbers up to n that is not empty has a greatest element.
LEMMA GreatestExists ==
    ASSUME NEW n \in Nat, NEW S \in SUBSET (0..n), S # {}
    PROVE  \E m \in S : \A x \in S : x <= m
<1> DEFINE gaps == {n - x : x \in S}
           R == OpToRel(<, Nat)
<1>1. gaps \subseteq Nat
  <2> SUFFICES ASSUME NEW x \in S PROVE n - x \in Nat
    OBVIOUS
  <2>1. x \in 0..n
    OBVIOUS
  <2> QED BY <2>1
<1>2. gaps # {}
  OBVIOUS
<1>3. \A a, b \in Nat : a < b => <<a, b>> \in R
  BY SMT DEF OpToRel
<1>4. IsWellFoundedOn(R, Nat)
  BY NatLessThanWellFounded
<1>5. PICK gap \in gaps : \A g \in gaps : <<g, gap>> \notin R
  <2> HIDE DEF gaps, R
  <2> QED BY Zenon, <1>1, <1>2, <1>4, WFMin
<1>6. \A g \in gaps : ~(g < gap)
  <2> HIDE DEF gaps, R
  <2> QED BY Zenon, <1>1, <1>3, <1>5
<1>7. PICK x \in S : gap = n - x
  OBVIOUS
<1>8. \A y \in S : y <= x
  <2> SUFFICES ASSUME NEW y \in S PROVE y <= x
    OBVIOUS
  <2>1. ~(n - y < gap)
    BY <1>6
  <2> QED BY <1>7, <2>1
<1> QED BY <1>8

-----------------------------------------------------------------------------
(* Windows and versions *)

\* What the proofs need of the windows and of the constants.
LEMMA WindowFacts ==
    /\ Weeks \in Nat /\ Windows \subseteq Nat \ {0}
    /\ None \notin Windows /\ Baseline \notin Windows /\ None # Baseline
    /\ None \notin Procs /\ Dead \notin Procs
BY SnapshotAssumption DEF Windows

\* Cardinalities of sets of versions are what snapshot.json can count.
LEMMA Countable ==
    ASSUME NEW S \in SUBSET Versions
    PROVE  Cardinality(S) \in 0..Cardinality(Versions)
<1>1. IsFiniteSet(Versions)
  BY SnapshotAssumption
<1>2. IsFiniteSet(S) /\ Cardinality(S) <= Cardinality(Versions)
  BY <1>1, FS_Subset
<1>3. Cardinality(S) \in Nat /\ Cardinality(Versions) \in Nat
  BY <1>1, <1>2, FS_CardinalityType
<1> QED BY <1>2, <1>3

-----------------------------------------------------------------------------
(* The next window *)

\* The last completed cycle is one, if there is any, and none comes after it.
LEMMA LastCompletedIsLast ==
    ASSUME TypeOK
    PROVE  /\ LastCompleted \in 0..Weeks
           /\ LastCompleted # 0 => status[LastCompleted] = "completed"
           /\ \A w \in Windows : status[w] = "completed" => w <= LastCompleted
<1> DEFINE done == {w \in Windows : status[w] = "completed"}
           IsLast(w) == w \in done /\ \A x \in done : x <= w
<1>1. CASE done = {}
  <2>1. LastCompleted = 0
    BY <1>1 DEF LastCompleted
  <2> QED BY <1>1, <2>1, WindowFacts
<1>2. CASE done # {}
  <2>1. Weeks \in Nat /\ done \in SUBSET (0..Weeks)
    BY WindowFacts DEF Windows
  <2>2. PICK m \in done : \A x \in done : x <= m
    BY <1>2, <2>1, GreatestExists
  <2>3. IsLast(m)
    BY <2>2
  <2>4. IsLast(CHOOSE w : IsLast(w))
    BY Zenon, <2>3
  <2>5. LastCompleted = CHOOSE w : IsLast(w)
    BY Zenon, <1>2 DEF LastCompleted
  <2>6. IsLast(LastCompleted)
    BY <2>4, <2>5
  <2> QED BY <2>1, <2>6
<1> QED BY <1>1, <1>2

\* A cycle that may be reserved is that of the next window.
LEMMA NextWindowType ==
    ASSUME TypeOK, CanReserve
    PROVE  NextWindow \in Windows /\ status[NextWindow] = "none"
<1>1. LastCompleted \in 0..Weeks /\ ended \in 0..Weeks /\ Weeks \in Nat
  BY LastCompletedIsLast, WindowFacts DEF TypeOK
<1>2. NextWindow = LastCompleted + 1 /\ NextWindow <= ended
  BY DEF CanReserve, NextWindow
<1> QED BY <1>1, <1>2 DEF Windows, CanReserve

-----------------------------------------------------------------------------
(* Types *)

\* The database, the bundles and the lease are empty at first.
LEMMA InitType == Init => TypeOK
<1> SUFFICES ASSUME Init PROVE TypeOK
  OBVIOUS
<1>1. 0 \in 0..Weeks
  BY WindowFacts
<1> QED BY <1>1 DEF Init, TypeOK, CycleStates, Counters

\* A cycle's snapshot is of the type of the corpus.
LEMMA StartStepType ==
    ASSUME TypeOK, NEW p \in Procs, StartStep(p)
    PROVE  TypeOK'
<1> USE WindowFacts DEF TypeOK, CycleStates, Counters, dbVars, fileVars, leaseVars, worldVars,
                        Goto, SetStatus, At
<1>1. CASE StartRefused(p)
  BY <1>1 DEF StartRefused
<1>2. CASE Reserve(p)
  <2>1. NextWindow \in Windows
    BY <1>2, NextWindowType DEF Reserve
  <2> QED BY <1>2, <2>1 DEF Reserve
<1>3. CASE Select(p)
  <2>1. Eligible(cycle[p]) \in SUBSET Versions
    BY DEF Eligible
  <2> QED BY <1>3, <2>1 DEF Select
<1>4. CASE WriteSome(p)
  <2>1. PICK some \in SUBSET selected[p] : bundle' = [bundle EXCEPT ![cycle[p]] = some]
    BY <1>4 DEF WriteSome
  <2>2. some \in SUBSET Versions
    OBVIOUS
  <2>3. bundle' \in [Windows -> SUBSET Versions]
    BY <2>1, <2>2
  <2> QED BY <1>4, <2>3 DEF WriteSome
<1>5. CASE WriteMarker(p)
  <2>1. Cardinality(selected[p]) \in 0..Cardinality(Versions)
    BY Countable
  <2>2. marker' \in [Windows -> 0..Cardinality(Versions) \cup {None}]
    BY <1>5, <2>1 DEF WriteMarker
  <2>3. bundle' \in [Windows -> SUBSET Versions]
    <3>1. bundle' = bundle \/ bundle' = [bundle EXCEPT ![cycle[p]] = selected[p]]
      BY <1>5 DEF WriteMarker
    <3> QED BY <3>1
  <2> QED BY <1>5, <2>2, <2>3 DEF WriteMarker
<1>6. CASE Materialize(p)
  <2>1. rows' \in [Windows -> SUBSET Versions]
    BY <1>6 DEF Materialize
  <2>2. assigned' \in [Versions -> Windows \cup {Baseline, None}]
    <3>1. cycle[p] \in Windows \cup {Baseline, None}
      OBVIOUS
    <3> QED BY <1>6, <3>1 DEF Materialize
  <2>3. pc' \in [Procs -> Counters]
    BY <1>6 DEF Materialize
  <2> QED BY <1>6, <2>1, <2>2, <2>3 DEF Materialize
<1>7. CASE Activate(p)
  BY <1>7 DEF Activate
<1>8. CASE MoveDirectory(p)
  BY <1>8 DEF MoveDirectory
<1>9. CASE SnapshotFails(p)
  BY <1>9 DEF SnapshotFails
<1>10. CASE EndStart(p)
  BY <1>10 DEF EndStart, Release
<1> QED BY <1>1, <1>2, <1>3, <1>4, <1>5, <1>6, <1>7, <1>8, <1>9, <1>10 DEF StartStep

\* Neither recovery nor the world outside brings in anything of another type.
LEMMA TypeStep == TypeOK /\ [Next]_vars => TypeOK'
<1> SUFFICES ASSUME TypeOK, [Next]_vars PROVE TypeOK'
  OBVIOUS
<1> USE WindowFacts DEF dbVars, fileVars, leaseVars, taskVars, worldVars
<1>1. ASSUME NEW p \in Procs, StartLease(p) PROVE TypeOK'
  BY <1>1 DEF StartLease, Acquire, Goto, TypeOK, Counters
<1>2. ASSUME NEW p \in Procs, StartStep(p) PROVE TypeOK'
  BY <1>2, StartStepType
<1>3. ASSUME NEW p \in Procs, NEW w \in Windows, RetrySnapshot(p, w) PROVE TypeOK'
  BY <1>3 DEF RetrySnapshot, Acquire, Goto, SetStatus, TypeOK, Counters, CycleStates
<1>4. CASE Recover
  <2>1. ASSUME NEW w \in Windows, Promote(w) PROVE TypeOK'
    BY <2>1 DEF Promote, SetStatus, TypeOK, CycleStates
  <2>2. ASSUME NEW w \in Windows, Discard(w) PROVE TypeOK'
    <3>1. assigned' \in [Versions -> Windows \cup {Baseline, None}]
      BY <2>2 DEF Discard, Unassign, TypeOK
    <3>2. rows' \in [Windows -> SUBSET Versions]
      BY <2>2 DEF Discard, TypeOK
    <3> QED BY <2>2, <3>1, <3>2 DEF Discard, SetStatus, TypeOK, CycleStates
  <2> QED BY <1>4, <2>1, <2>2 DEF Recover
<1>5. ASSUME NEW w \in Windows, CompleteCycle(w) PROVE TypeOK'
  BY <1>5 DEF CompleteCycle, SetStatus, TypeOK, CycleStates
<1>6. ASSUME NEW v \in Versions, Arrive(v) PROVE TypeOK'
  BY <1>6 DEF Arrive, TypeOK
<1>7. CASE WindowEnds
  <2>1. ended + 1 \in 0..Weeks
    BY <1>7 DEF WindowEnds, TypeOK
  <2> QED BY <1>7, <2>1 DEF WindowEnds, TypeOK
<1>8. CASE LeaseExpires
  BY <1>8 DEF LeaseExpires, TypeOK
<1>9. ASSUME NEW p \in Procs, Crash(p) PROVE TypeOK'
  BY <1>9 DEF Crash, Goto, TypeOK, Counters
<1>10. CASE UNCHANGED vars
  BY <1>10 DEF vars, TypeOK
<1> QED BY <1>1, <1>2, <1>3, <1>4, <1>5, <1>6, <1>7, <1>8, <1>9, <1>10 DEF Next

\* In every reachable state the rows, files and leases are of their types.
THEOREM TypeCorrect == Spec => []TypeOK
BY InitType, TypeStep, PTL DEF Spec

-----------------------------------------------------------------------------
(* Evidence is taken once *)

\* Only three steps touch the rows or assign evidence to a cycle.
LEMMA AssigningSteps ==
    ASSUME TypeOK, [Next]_vars
    PROVE  \/ UNCHANGED <<rows, assigned>>
           \/ \E p \in Procs : Select(p)
           \/ \E p \in Procs : Materialize(p)
           \/ \E w \in Windows : Discard(w)
<1> USE DEF dbVars, fileVars, leaseVars, taskVars, worldVars
<1>1. ASSUME NEW p \in Procs, StartLease(p) PROVE UNCHANGED <<rows, assigned>>
  BY <1>1 DEF StartLease
<1>2. ASSUME NEW p \in Procs, StartStep(p)
      PROVE  UNCHANGED <<rows, assigned>> \/ Select(p) \/ Materialize(p)
  BY <1>2 DEF StartStep, StartRefused, Reserve, WriteSome, WriteMarker, Activate,
              MoveDirectory, SnapshotFails, EndStart
<1>3. ASSUME NEW p \in Procs, NEW w \in Windows, RetrySnapshot(p, w)
      PROVE  UNCHANGED <<rows, assigned>>
  BY <1>3 DEF RetrySnapshot
<1>4. ASSUME NEW w \in Windows, Promote(w) PROVE UNCHANGED <<rows, assigned>>
  BY <1>4 DEF Promote
<1>5. ASSUME NEW w \in Windows, CompleteCycle(w) PROVE UNCHANGED <<rows, assigned>>
  BY <1>5 DEF CompleteCycle
<1>6. ASSUME NEW v \in Versions, Arrive(v) PROVE UNCHANGED <<rows, assigned>>
  BY <1>6 DEF Arrive
<1>7. WindowEnds \/ LeaseExpires \/ UNCHANGED vars => UNCHANGED <<rows, assigned>>
  BY DEF WindowEnds, LeaseExpires, vars
<1>8. ASSUME NEW p \in Procs, Crash(p) PROVE UNCHANGED <<rows, assigned>>
  BY <1>8 DEF Crash
<1> QED BY <1>1, <1>2, <1>3, <1>4, <1>5, <1>6, <1>7, <1>8 DEF Next, Recover

\* The unique constraints keep a version out of a second cycle.
LEMMA TakenStep ==
    ASSUME TypeOK, TypeOK', EvidenceTakenOnce, [Next]_vars
    PROVE  EvidenceTakenOnce'
<1> USE WindowFacts
<1>1. CASE UNCHANGED <<rows, assigned>>
  BY <1>1 DEF EvidenceTakenOnce
<1>2. ASSUME NEW p \in Procs, Select(p) PROVE EvidenceTakenOnce'
  BY <1>2 DEF Select, EvidenceTakenOnce, TypeOK
<1>3. ASSUME NEW p \in Procs, Materialize(p) PROVE EvidenceTakenOnce'
  <2>1. CASE selected[p] = {}
    BY <1>3, <2>1 DEF Materialize, EvidenceTakenOnce, TypeOK
  <2>2. CASE selected[p] # {}
    <3>1. rows[cycle[p]] = {} /\ \A v \in selected[p] : assigned[v] = None
      BY <1>3, <2>2 DEF Materialize, Conflict
    <3>2. \A w \in Windows : rows'[w] = IF w = cycle[p] THEN selected[p] ELSE rows[w]
      BY <1>3, <2>2 DEF Materialize, TypeOK
    <3>3. \A v \in Versions : assigned'[v] = IF v \in selected[p] THEN cycle[p] ELSE assigned[v]
      BY <1>3 DEF Materialize
    <3> SUFFICES ASSUME NEW v \in Versions, NEW w \in Windows
                 PROVE  v \in rows'[w] <=> assigned'[v] = w
      BY DEF EvidenceTakenOnce
    <3>4. v \in rows[w] <=> assigned[v] = w
      BY DEF EvidenceTakenOnce
    <3> QED BY <3>1, <3>2, <3>3, <3>4
  <2> QED BY <2>1, <2>2
<1>4. ASSUME NEW x \in Windows, Discard(x) PROVE EvidenceTakenOnce'
  <2> SUFFICES ASSUME NEW v \in Versions, NEW w \in Windows
               PROVE  v \in rows'[w] <=> assigned'[v] = w
    BY DEF EvidenceTakenOnce
  <2>1. v \in rows[w] <=> assigned[v] = w
    BY DEF EvidenceTakenOnce
  <2>2. rows'[w] = IF w = x THEN {} ELSE rows[w]
    BY <1>4 DEF Discard, TypeOK
  <2>3. assigned'[v] = IF assigned[v] = x THEN None ELSE assigned[v]
    BY <1>4 DEF Discard, Unassign
  <2> QED BY <2>1, <2>2, <2>3
<1> QED BY <1>1, <1>2, <1>3, <1>4, AssigningSteps

\* However starts, retries and recoveries overlap, and whatever outlasts the
\* lease, an evidence version is in the batches of the cycle it is assigned to
\* and of no other.
THEOREM EvidenceIsTakenOnce == Spec => []EvidenceTakenOnce
<1>1. Init => EvidenceTakenOnce
  BY WindowFacts DEF Init, EvidenceTakenOnce
<1> QED BY <1>1, InitType, TypeStep, TakenStep, PTL DEF Spec

-----------------------------------------------------------------------------
(* One builder at a time *)

\* A sync is shorter than the start lease.
NoSlowSync == "slowSync" \notin Faults

\* Whoever starts or retries holds the start lease.
LeaseHeld == \A p \in Procs : pc[p] # "idle" => lease = p /\ live

Unstored == {"syncing", "selected", "writing", "written"}

\* The snapshot that p builds: nothing is stored of it before its rows are, and
\* its files and rows are what p has selected.  Only a cycle without evidence is
\* completed before p is done, and it is the last one.
BuildIsSound(p) ==
    LET w == cycle[p] IN
    /\ pc[p] \in Unstored \cup {"materialized"} => w \in Windows /\ status[w] = "starting"
    /\ pc[p] \in Unstored => rows[w] = {}
    /\ pc[p] \in {"written", "materialized"} /\ selected[p] # {} => bundle[w] = selected[p]
    /\ pc[p] = "materialized" => rows[w] = selected[p]
    /\ pc[p] = "moving" =>
        /\ w \in Windows /\ status[w] = "completed" /\ rows[w] = {}
        /\ \A x \in Windows : x > w => status[x] = "none"

\* What the status of a cycle says of its rows and files.
CycleIsSound(w) ==
    /\ status[w] = "none" => rows[w] = {}
    /\ status[w] = "stopped" => failed[w] /\ rows[w] = {}
    /\ status[w] = "active" => rows[w] # {} /\ bundle[w] = rows[w]

BuildsAreSound ==
    /\ \A p \in Procs : BuildIsSound(p)
    /\ \A w \in Windows : CycleIsSound(w)

SnapshotInv == TypeOK /\ EvidenceTakenOnce /\ WeeksInOrder /\ LeaseHeld /\ BuildsAreSound

\* One step of SnapshotIsFrozen.
Frozen(w) ==
    status[w] \in {"active", "completed"} =>
        /\ rows'[w] = rows[w] /\ AssignedTo(w)' = AssignedTo(w)
        /\ rows[w] # {} => bundle'[w] = bundle[w]

\* The goal of a step.
StepIsSound == WeeksInOrder' /\ LeaseHeld' /\ BuildsAreSound' /\ \A w \in Windows : Frozen(w)

\* A step of one holder of the lease finds the others idle.
LEMMA OthersIdle ==
    ASSUME LeaseHeld, NEW p \in Procs, pc[p] # "idle"
    PROVE  lease = p /\ live /\ \A q \in Procs : q # p => pc[q] = "idle"
BY DEF LeaseHeld

\* Nobody builds while the lease is free or has expired.
LEMMA AllIdle ==
    ASSUME LeaseHeld, ~LeaseValid
    PROVE  \A q \in Procs : pc[q] = "idle"
BY WindowFacts DEF LeaseHeld, LeaseValid

\* The order of the weeks survives a change of an unfinished cycle, and of the
\* last one.
LEMMA OrderKept ==
    ASSUME TypeOK, WeeksInOrder, NEW w \in Windows, NEW value \in CycleStates \ {"none"},
           SetStatus(w, value),
           \/ status[w] \in {"starting", "active", "stopped"}
           \/ /\ \A x \in 1..(w - 1) : status[x] = "completed"
              /\ \A x \in Windows : x > w => status[x] = "none"
    PROVE  WeeksInOrder'
<1>1. \A x \in Windows : status'[x] = IF x = w THEN value ELSE status[x]
  BY DEF SetStatus, TypeOK
<1> SUFFICES ASSUME NEW y \in Windows, status'[y] # "none", NEW x \in 1..(y - 1)
             PROVE  status'[x] = "completed"
  BY DEF WeeksInOrder
<1>2. x \in Windows /\ x < y /\ x \in Nat /\ y \in Nat /\ w \in Nat
  BY WindowFacts DEF Windows
<1>3. CASE y = w
  <2>1. status[x] = "completed"
    BY <1>3 DEF WeeksInOrder
  <2> QED BY <1>1, <1>2, <1>3, <2>1
<1>4. CASE y # w
  <2>1. status[y] # "none"
    BY <1>1, <1>4
  <2>2. status[x] = "completed"
    BY <2>1 DEF WeeksInOrder
  <2>3. x # w
    BY <1>2, <2>1, <2>2
  <2> QED BY <1>1, <1>2, <2>2, <2>3
<1> QED BY <1>3, <1>4

\* After a cycle without a successor in order nothing has begun.
LEMMA NothingAfter ==
    ASSUME WeeksInOrder, NEW w \in Windows, status[w] # "completed"
    PROVE  \A x \in Windows : x > w => status[x] = "none"
<1> SUFFICES ASSUME NEW x \in Windows, x > w, status[x] # "none" PROVE FALSE
  OBVIOUS
<1>1. w \in 1..(x - 1)
  BY WindowFacts DEF Windows
<1> QED BY <1>1 DEF WeeksInOrder

\* The next window follows completed ones.
LEMMA NextWindowInOrder ==
    ASSUME TypeOK, WeeksInOrder, CanReserve
    PROVE  \A x \in 1..(NextWindow - 1) : status[x] = "completed"
<1> TAKE x \in 1..(NextWindow - 1)
<1>1. LastCompleted \in 0..Weeks /\ NextWindow = LastCompleted + 1 /\ Weeks \in Nat
  BY LastCompletedIsLast, WindowFacts DEF NextWindow
<1>2. LastCompleted # 0 /\ x \in 1..LastCompleted
  BY <1>1
<1>3. LastCompleted \in Windows /\ status[LastCompleted] = "completed"
  BY <1>1, <1>2, LastCompletedIsLast DEF Windows
<1>4. CASE x = LastCompleted
  BY <1>3, <1>4
<1>5. CASE x # LastCompleted
  <2>1. x \in 1..(LastCompleted - 1)
    BY <1>1, <1>2, <1>5
  <2> QED BY <1>3, <2>1 DEF WeeksInOrder
<1> QED BY <1>4, <1>5

\* A task that is idle builds nothing.
LEMMA IdleIsSound == ASSUME NEW p \in Procs, pc[p] = "idle" PROVE BuildIsSound(p)
BY DEF BuildIsSound, Unstored

\* Of a step of the holder only what it does itself is left to show.
LEMMA HolderStep ==
    ASSUME TypeOK, LeaseHeld, NEW p \in Procs, pc[p] # "idle", NEW counter, Goto(p, counter)
    PROVE  /\ pc'[p] = counter
           /\ UNCHANGED leaseVars => LeaseHeld'
           /\ BuildIsSound(p)' => \A q \in Procs : BuildIsSound(q)'
<1>1. \A q \in Procs : pc'[q] = IF q = p THEN counter ELSE "idle"
  BY OthersIdle DEF Goto, TypeOK
<1>2. UNCHANGED leaseVars => LeaseHeld'
  BY <1>1, OthersIdle DEF LeaseHeld, leaseVars
<1>3. \A q \in Procs : q # p => BuildIsSound(q)'
  BY <1>1 DEF BuildIsSound, Unstored
<1> QED BY <1>1, <1>2, <1>3

\* A step that leaves rows, assignments and files alone changes nothing frozen.
LEMMA FrozenAlone ==
    UNCHANGED <<rows, assigned, fileVars>> => \A w \in Windows : Frozen(w)
BY DEF Frozen, AssignedTo, fileVars

\* Reserving the next window.
LEMMA ReserveSound ==
    ASSUME SnapshotInv, NEW p \in Procs, Reserve(p)
    PROVE  StepIsSound
<1> DEFINE w == NextWindow
<1> USE DEF SnapshotInv
<1>1. /\ pc[p] = "leased" /\ CanReserve /\ SetStatus(w, "starting") /\ Goto(p, "syncing")
      /\ cycle' = [cycle EXCEPT ![p] = w]
      /\ UNCHANGED <<failed, rows, assigned, fileVars, leaseVars>>
  BY DEF Reserve, At
<1>2. w \in Windows /\ status[w] = "none"
  BY <1>1, NextWindowType
<1> HIDE DEF w
<1>3. \A x \in Windows : status'[x] = IF x = w THEN "starting" ELSE status[x]
  BY <1>1 DEF SetStatus, TypeOK
<1>4. cycle'[p] = w /\ rows[w] = {} /\ pc[p] # "idle"
  BY <1>1, <1>2 DEF TypeOK, BuildsAreSound, CycleIsSound
<1>5. WeeksInOrder'
  <2>1. \A x \in 1..(w - 1) : status[x] = "completed"
    BY <1>1, NextWindowInOrder DEF w
  <2>2. \A x \in Windows : x > w => status[x] = "none"
    BY <1>2, NothingAfter
  <2> QED BY <1>1, <1>2, <2>1, <2>2, OrderKept DEF CycleStates
<1>6. pc'[p] = "syncing" /\ LeaseHeld'
  BY <1>1, <1>4, HolderStep
<1>7. BuildIsSound(p)'
  BY <1>1, <1>2, <1>3, <1>4, <1>6 DEF BuildIsSound, Unstored
<1>8. \A x \in Windows : CycleIsSound(x)'
  BY <1>1, <1>3 DEF BuildsAreSound, CycleIsSound, fileVars
<1> QED BY <1>1, <1>4, <1>5, <1>6, <1>7, <1>8, HolderStep, FrozenAlone
        DEF StepIsSound, BuildsAreSound

\* Selecting gives versions to the baseline only.
LEMMA SelectSound ==
    ASSUME SnapshotInv, NEW p \in Procs, Select(p)
    PROVE  StepIsSound
<1> USE DEF SnapshotInv
<1>1. /\ pc[p] = "syncing" /\ Goto(p, "selected")
      /\ UNCHANGED <<status, failed, rows, fileVars, leaseVars, cycle>>
  BY DEF Select, At
<1>2. \A w \in Windows : AssignedTo(w)' = AssignedTo(w)
  BY WindowFacts DEF Select, AssignedTo
<1>3. pc[p] # "idle" /\ BuildIsSound(p)
  BY <1>1 DEF BuildsAreSound
<1>4. pc'[p] = "selected" /\ LeaseHeld'
  BY <1>1, <1>3, HolderStep
<1>5. BuildIsSound(p)'
  BY <1>1, <1>3, <1>4 DEF BuildIsSound, Unstored
<1>6. \A w \in Windows : CycleIsSound(w)'
  BY <1>1 DEF BuildsAreSound, CycleIsSound, fileVars
<1>7. WeeksInOrder'
  BY <1>1 DEF WeeksInOrder
<1>8. \A w \in Windows : Frozen(w)
  BY <1>1, <1>2 DEF Frozen, fileVars
<1> QED BY <1>1, <1>3, <1>4, <1>5, <1>6, <1>7, <1>8, HolderStep DEF StepIsSound, BuildsAreSound

\* Writing touches the files of the cycle that is starting.
LEMMA WriteSound ==
    ASSUME SnapshotInv, NEW p \in Procs, WriteSome(p) \/ WriteMarker(p)
    PROVE  StepIsSound
<1> DEFINE w == cycle[p]
<1> USE DEF SnapshotInv
<1>1. /\ pc[p] \in {"selected", "writing"}
      /\ UNCHANGED <<status, failed, rows, assigned, leaseVars, cycle, selected>>
      /\ \E counter \in {"writing", "written"} :
           /\ Goto(p, counter)
           /\ counter = "written" /\ selected[p] # {} =>
                bundle' = [bundle EXCEPT ![w] = selected[p]]
      /\ \/ bundle' = bundle
         \/ \E some \in SUBSET Versions : bundle' = [bundle EXCEPT ![w] = some]
  <2>1. CASE WriteSome(p)
    <3>1. PICK some \in SUBSET selected[p] : bundle' = [bundle EXCEPT ![w] = some]
      BY <2>1 DEF WriteSome
    <3>2. some \in SUBSET Versions
      BY DEF TypeOK
    <3> QED BY <2>1, <3>1, <3>2 DEF WriteSome, At, dbVars
  <2>2. CASE WriteMarker(p)
    BY <2>2 DEF WriteMarker, At, dbVars, TypeOK
  <2> QED BY <2>1, <2>2
<1>2. BuildIsSound(p) /\ pc[p] # "idle"
  BY <1>1 DEF BuildsAreSound
<1>3. w \in Windows /\ status[w] = "starting" /\ rows[w] = {}
  BY <1>1, <1>2 DEF BuildIsSound, Unstored
<1>4. PICK counter \in {"writing", "written"} :
        /\ Goto(p, counter)
        /\ counter = "written" /\ selected[p] # {} => bundle' = [bundle EXCEPT ![w] = selected[p]]
  BY <1>1
<1>5. pc'[p] = counter /\ LeaseHeld'
  BY <1>1, <1>2, <1>4, HolderStep
<1>6. \A x \in Windows : x # w => bundle'[x] = bundle[x]
  BY <1>1, <1>3 DEF TypeOK
<1>7. BuildIsSound(p)'
  <2>1. cycle'[p] = w /\ selected'[p] = selected[p] /\ status' = status /\ rows' = rows
    BY <1>1
  <2>2. counter = "written" /\ selected[p] # {} => bundle'[w] = selected[p]
    BY <1>3, <1>4 DEF TypeOK
  <2> QED BY <1>3, <1>4, <1>5, <2>1, <2>2 DEF BuildIsSound, Unstored
<1>8. \A x \in Windows : CycleIsSound(x)'
  BY <1>1, <1>3, <1>6 DEF BuildsAreSound, CycleIsSound
<1>9. WeeksInOrder'
  BY <1>1 DEF WeeksInOrder
<1>10. \A x \in Windows : Frozen(x)
  BY <1>1, <1>3, <1>6 DEF Frozen, AssignedTo
<1> QED BY <1>2, <1>4, <1>5, <1>7, <1>8, <1>9, <1>10, HolderStep DEF StepIsSound, BuildsAreSound

\* Storing the rows takes versions nobody has.
LEMMA MaterializeSound ==
    ASSUME SnapshotInv, NEW p \in Procs, Materialize(p)
    PROVE  StepIsSound
<1> DEFINE w == cycle[p]
<1> USE DEF SnapshotInv
<1>1. /\ pc[p] = "written" /\ Goto(p, "materialized") /\ ~Conflict(w, selected[p])
      /\ rows' = IF selected[p] = {} THEN rows ELSE [rows EXCEPT ![w] = selected[p]]
      /\ assigned' = [v \in Versions |-> IF v \in selected[p] THEN w ELSE assigned[v]]
      /\ UNCHANGED <<status, failed, fileVars, leaseVars, cycle, selected>>
  BY DEF Materialize, At
<1>2. BuildIsSound(p) /\ pc[p] # "idle"
  BY <1>1 DEF BuildsAreSound
<1>3. /\ w \in Windows /\ status[w] = "starting" /\ rows[w] = {}
      /\ selected[p] # {} => bundle[w] = selected[p]
  BY <1>1, <1>2 DEF BuildIsSound, Unstored
<1>4. pc'[p] = "materialized" /\ LeaseHeld'
  BY <1>1, <1>2, HolderStep
<1>5. \A x \in Windows : rows'[x] = IF x = w THEN selected[p] ELSE rows[x]
  BY <1>1, <1>3 DEF TypeOK
<1>6. \A v \in selected[p] : assigned[v] = None
  BY <1>1 DEF Conflict
<1>7. \A x \in Windows : x # w => AssignedTo(x)' = AssignedTo(x)
  BY <1>1, <1>6, WindowFacts DEF AssignedTo
<1>8. BuildIsSound(p)'
  <2>1. cycle'[p] = w /\ selected'[p] = selected[p] /\ status' = status /\ bundle' = bundle
    BY <1>1 DEF fileVars
  <2> QED BY <1>3, <1>4, <1>5, <2>1 DEF BuildIsSound, Unstored
<1>9. \A x \in Windows : CycleIsSound(x)'
  BY <1>1, <1>3, <1>5 DEF BuildsAreSound, CycleIsSound, fileVars
<1>10. WeeksInOrder'
  BY <1>1 DEF WeeksInOrder
<1>11. \A x \in Windows : Frozen(x)
  BY <1>1, <1>3, <1>5, <1>7 DEF Frozen, fileVars
<1> QED BY <1>1, <1>2, <1>4, <1>8, <1>9, <1>10, <1>11, HolderStep DEF StepIsSound, BuildsAreSound

\* The cycle that becomes active has its rows and files; without evidence it is
\* complete, and no other has begun.
LEMMA ActivateSound ==
    ASSUME SnapshotInv, NEW p \in Procs, Activate(p)
    PROVE  StepIsSound
<1> DEFINE w == cycle[p]
           value == IF selected[p] = {} THEN "completed" ELSE "active"
           counter == IF selected[p] = {} THEN "moving" ELSE "releasing"
<1> USE DEF SnapshotInv
<1>1. /\ pc[p] = "materialized" /\ Goto(p, counter) /\ SetStatus(w, value)
      /\ UNCHANGED <<failed, rows, assigned, fileVars, leaseVars, cycle, selected>>
  BY DEF Activate, At
<1>2. BuildIsSound(p) /\ pc[p] # "idle"
  BY <1>1 DEF BuildsAreSound
<1>3. /\ w \in Windows /\ status[w] = "starting" /\ rows[w] = selected[p]
      /\ selected[p] # {} => bundle[w] = selected[p]
  BY <1>1, <1>2 DEF BuildIsSound, Unstored
<1>4. pc'[p] = counter /\ LeaseHeld'
  BY <1>1, <1>2, HolderStep
<1>5. \A x \in Windows : status'[x] = IF x = w THEN value ELSE status[x]
  BY <1>1 DEF SetStatus, TypeOK
<1>6. \A x \in Windows : x > w => status[x] = "none"
  BY <1>3, NothingAfter
<1>7. \A x \in Windows : x > w => status'[x] = "none"
  BY <1>3, <1>5, <1>6, WindowFacts
<1>8. BuildIsSound(p)'
  <2>1. cycle'[p] = w /\ rows' = rows
    BY <1>1
  <2> QED BY <1>3, <1>4, <1>5, <1>7, <2>1 DEF BuildIsSound, Unstored
<1>9. \A x \in Windows : CycleIsSound(x)'
  BY <1>1, <1>3, <1>5 DEF BuildsAreSound, CycleIsSound, fileVars
<1>10. WeeksInOrder'
  BY <1>1, <1>3, OrderKept DEF CycleStates
<1> QED BY <1>1, <1>2, <1>4, <1>8, <1>9, <1>10, HolderStep, FrozenAlone
        DEF StepIsSound, BuildsAreSound

\* A step that raises leaves no rows behind.
LEMMA FailsSound ==
    ASSUME SnapshotInv, NEW p \in Procs, SnapshotFails(p)
    PROVE  StepIsSound
<1> DEFINE w == cycle[p]
<1> USE DEF SnapshotInv
<1>1. /\ pc[p] \in Unstored \cup {"moving"} /\ Goto(p, "releasing") /\ SetStatus(w, "stopped")
      /\ failed' = [failed EXCEPT ![w] = TRUE]
      /\ UNCHANGED <<rows, assigned, fileVars, leaseVars>>
  BY DEF SnapshotFails, At, Unstored
<1>2. BuildIsSound(p) /\ pc[p] # "idle"
  BY <1>1 DEF BuildsAreSound, Unstored
<1>3. /\ w \in Windows /\ rows[w] = {}
      /\ \/ status[w] = "starting"
         \/ status[w] = "completed" /\ \A x \in Windows : x > w => status[x] = "none"
  BY <1>1, <1>2 DEF BuildIsSound, Unstored
<1>4. pc'[p] = "releasing" /\ LeaseHeld'
  BY <1>1, <1>2, HolderStep
<1>5. \A x \in Windows : /\ status'[x] = IF x = w THEN "stopped" ELSE status[x]
                         /\ failed'[x] = IF x = w THEN TRUE ELSE failed[x]
  BY <1>1 DEF SetStatus, TypeOK
<1>6. BuildIsSound(p)'
  BY <1>4 DEF BuildIsSound, Unstored
<1>7. \A x \in Windows : CycleIsSound(x)'
  BY <1>1, <1>3, <1>5 DEF BuildsAreSound, CycleIsSound, fileVars
<1>8. WeeksInOrder'
  <2>1. \A x \in 1..(w - 1) : status[x] = "completed"
    BY <1>3 DEF WeeksInOrder
  <2> QED BY <1>1, <1>3, <2>1, OrderKept DEF CycleStates
<1> QED BY <1>1, <1>2, <1>4, <1>6, <1>7, <1>8, HolderStep, FrozenAlone
        DEF StepIsSound, BuildsAreSound

\* The steps that only move on.
LEMMA MovingOnSound ==
    ASSUME SnapshotInv, NEW p \in Procs, StartRefused(p) \/ MoveDirectory(p) \/ EndStart(p)
    PROVE  StepIsSound
<1> USE DEF SnapshotInv
<1>1. /\ pc[p] # "idle" /\ UNCHANGED <<status, failed, rows, assigned, fileVars>>
      /\ \E counter \in {"releasing", "idle"} : Goto(p, counter)
  BY DEF StartRefused, MoveDirectory, EndStart, At, dbVars
<1>2. PICK counter \in {"releasing", "idle"} : Goto(p, counter)
  BY <1>1
<1>3. pc'[p] = counter /\ \A q \in Procs : q # p => pc'[q] = "idle"
  BY <1>1, <1>2, OthersIdle DEF Goto, TypeOK
<1>4. LeaseHeld'
  <2>1. CASE EndStart(p)
    <3>1. pc'[p] = "idle"
      BY <2>1 DEF EndStart, Goto, TypeOK
    <3> QED BY <1>3, <3>1 DEF LeaseHeld
  <2>2. CASE StartRefused(p) \/ MoveDirectory(p)
    BY <1>1, <1>2, <2>2, HolderStep DEF StartRefused, MoveDirectory
  <2> QED BY <2>1, <2>2
<1>5. \A q \in Procs : BuildIsSound(q)'
  BY <1>3 DEF BuildIsSound, Unstored
<1>6. \A w \in Windows : CycleIsSound(w)'
  BY <1>1 DEF BuildsAreSound, CycleIsSound, fileVars
<1>7. WeeksInOrder'
  BY <1>1 DEF WeeksInOrder
<1> QED BY <1>1, <1>4, <1>5, <1>6, <1>7, FrozenAlone DEF StepIsSound, BuildsAreSound

\* Whoever takes the lease finds everybody idle.
LEMMA AcquireSound ==
    ASSUME SnapshotInv, NEW p \in Procs, Acquire(p), NEW counter \in {"leased", "syncing"},
           Goto(p, counter)
    PROVE  /\ pc'[p] = counter /\ LeaseHeld'
           /\ \A q \in Procs : q # p => pc'[q] = "idle"
<1>1. \A q \in Procs : pc'[q] = IF q = p THEN counter ELSE "idle"
  BY AllIdle DEF SnapshotInv, Acquire, Goto, TypeOK
<1> QED BY <1>1 DEF LeaseHeld, Acquire

\* A start that takes the lease has changed nothing yet.
LEMMA StartLeaseSound ==
    ASSUME SnapshotInv, NEW p \in Procs, StartLease(p)
    PROVE  StepIsSound
<1> USE DEF SnapshotInv
<1>1. UNCHANGED <<status, failed, rows, assigned, fileVars>>
  BY DEF StartLease, dbVars
<1>2. pc'[p] = "leased" /\ LeaseHeld' /\ \A q \in Procs : q # p => pc'[q] = "idle"
  BY AcquireSound DEF StartLease
<1>3. \A q \in Procs : BuildIsSound(q)'
  BY <1>2 DEF BuildIsSound, Unstored
<1>4. \A w \in Windows : CycleIsSound(w)'
  BY <1>1 DEF BuildsAreSound, CycleIsSound, fileVars
<1>5. WeeksInOrder'
  BY <1>1 DEF WeeksInOrder
<1> QED BY <1>1, <1>2, <1>3, <1>4, <1>5, FrozenAlone DEF StepIsSound, BuildsAreSound

\* A retry takes up a cycle without rows.
LEMMA RetrySound ==
    ASSUME SnapshotInv, NEW p \in Procs, NEW w \in Windows, RetrySnapshot(p, w)
    PROVE  StepIsSound
<1> USE DEF SnapshotInv
<1>1. /\ status[w] = "stopped" /\ rows[w] = {} /\ SetStatus(w, "starting")
      /\ failed' = [failed EXCEPT ![w] = FALSE] /\ cycle' = [cycle EXCEPT ![p] = w]
      /\ UNCHANGED <<rows, assigned, fileVars>>
  BY DEF RetrySnapshot, RetryableSnapshot
<1>2. pc'[p] = "syncing" /\ LeaseHeld' /\ \A q \in Procs : q # p => pc'[q] = "idle"
  BY AcquireSound DEF RetrySnapshot
<1>3. \A x \in Windows : /\ status'[x] = IF x = w THEN "starting" ELSE status[x]
                         /\ failed'[x] = IF x = w THEN FALSE ELSE failed[x]
  BY <1>1 DEF SetStatus, TypeOK
<1>4. cycle'[p] = w
  BY <1>1 DEF TypeOK
<1>5. \A q \in Procs : BuildIsSound(q)'
  BY <1>1, <1>2, <1>3, <1>4 DEF BuildIsSound, Unstored
<1>6. \A x \in Windows : CycleIsSound(x)'
  BY <1>1, <1>3 DEF BuildsAreSound, CycleIsSound, fileVars
<1>7. WeeksInOrder'
  BY <1>1, OrderKept DEF CycleStates
<1> QED BY <1>1, <1>2, <1>5, <1>6, <1>7, FrozenAlone DEF StepIsSound, BuildsAreSound

\* Recovery runs while nobody builds.  What it promotes is complete, and what it
\* discards it takes back.
LEMMA RecoverSound ==
    ASSUME SnapshotInv, Recover
    PROVE  StepIsSound
<1> USE DEF SnapshotInv
<1>1. ~LeaseValid /\ UNCHANGED <<pc, cycle, selected, lease, live, bundle, marker>>
  BY DEF Recover, Promote, Discard, taskVars, leaseVars, fileVars
<1>2. \A q \in Procs : pc'[q] = "idle"
  BY <1>1, AllIdle
<1>3. LeaseHeld' /\ \A q \in Procs : BuildIsSound(q)'
  BY <1>2 DEF LeaseHeld, BuildIsSound, Unstored
<1>4. ASSUME NEW w \in Windows, Promote(w) PROVE StepIsSound
  <2> DEFINE value == IF marker[w] = 0 THEN "completed" ELSE "active"
  <2>1. /\ status[w] = "starting" /\ Complete(w) /\ SetStatus(w, value)
        /\ failed' = [failed EXCEPT ![w] = FALSE]
        /\ UNCHANGED <<rows, assigned, fileVars>>
    BY <1>4 DEF Promote
  <2>2. \A x \in Windows : /\ status'[x] = IF x = w THEN value ELSE status[x]
                           /\ failed'[x] = IF x = w THEN FALSE ELSE failed[x]
    BY <2>1 DEF SetStatus, TypeOK
  <2>3. value = "active" => rows[w] # {} /\ bundle[w] = rows[w]
    <3>1. Cardinality({}) = 0
      BY FS_EmptySet
    <3> QED BY <2>1, <3>1 DEF Complete
  <2>4. \A x \in Windows : CycleIsSound(x)'
    BY <2>1, <2>2, <2>3 DEF BuildsAreSound, CycleIsSound, fileVars
  <2>5. WeeksInOrder'
    BY <2>1, OrderKept DEF CycleStates
  <2> QED BY <1>3, <2>1, <2>4, <2>5, FrozenAlone DEF StepIsSound, BuildsAreSound
<1>5. ASSUME NEW w \in Windows, Discard(w) PROVE StepIsSound
  <2>1. /\ status[w] = "starting" /\ SetStatus(w, "stopped")
        /\ failed' = [failed EXCEPT ![w] = TRUE] /\ rows' = [rows EXCEPT ![w] = {}]
        /\ assigned' = Unassign(w)
    BY <1>5 DEF Discard
  <2>2. \A x \in Windows : /\ status'[x] = IF x = w THEN "stopped" ELSE status[x]
                           /\ failed'[x] = IF x = w THEN TRUE ELSE failed[x]
                           /\ rows'[x] = IF x = w THEN {} ELSE rows[x]
    BY <2>1 DEF SetStatus, TypeOK
  <2>3. \A x \in Windows : x # w => AssignedTo(x)' = AssignedTo(x)
    BY <2>1, WindowFacts DEF AssignedTo, Unassign
  <2>4. \A x \in Windows : CycleIsSound(x)'
    BY <1>1, <2>1, <2>2 DEF BuildsAreSound, CycleIsSound
  <2>5. WeeksInOrder'
    BY <2>1, OrderKept DEF CycleStates
  <2>6. \A x \in Windows : Frozen(x)
    BY <1>1, <2>1, <2>2, <2>3 DEF Frozen
  <2> QED BY <1>3, <2>4, <2>5, <2>6 DEF StepIsSound, BuildsAreSound
<1> QED BY <1>4, <1>5 DEF Recover

\* The completion of an active cycle is none of the builder's.
LEMMA CompleteSound ==
    ASSUME SnapshotInv, NEW w \in Windows, CompleteCycle(w)
    PROVE  StepIsSound
<1> USE DEF SnapshotInv
<1>1. /\ status[w] = "active" /\ SetStatus(w, "completed")
      /\ UNCHANGED <<failed, rows, assigned, fileVars, leaseVars, taskVars>>
  BY DEF CompleteCycle
<1>2. \A x \in Windows : status'[x] = IF x = w THEN "completed" ELSE status[x]
  BY <1>1 DEF SetStatus, TypeOK
<1>3. LeaseHeld'
  BY <1>1 DEF LeaseHeld, leaseVars, taskVars
<1>4. \A q \in Procs : BuildIsSound(q)'
  <2> TAKE q \in Procs
  <2>1. BuildIsSound(q) /\ UNCHANGED <<pc, cycle, selected, rows, bundle>>
    BY <1>1 DEF BuildsAreSound, taskVars, fileVars
  <2> QED BY <1>1, <1>2, <2>1 DEF BuildIsSound, Unstored
<1>5. \A x \in Windows : CycleIsSound(x)'
  BY <1>1, <1>2 DEF BuildsAreSound, CycleIsSound, fileVars
<1>6. WeeksInOrder'
  BY <1>1, OrderKept DEF CycleStates
<1> QED BY <1>1, <1>3, <1>4, <1>5, <1>6, FrozenAlone DEF StepIsSound, BuildsAreSound

\* A death and the end of a lease leave nobody at work; arrivals and the calendar
\* concern no snapshot.
LEMMA WorldSound ==
    ASSUME NoSlowSync, SnapshotInv,
           \/ \E v \in Versions : Arrive(v)
           \/ WindowEnds \/ LeaseExpires \/ UNCHANGED vars
           \/ \E p \in Procs : Crash(p)
    PROVE  StepIsSound
<1> USE DEF SnapshotInv
<1>1. UNCHANGED <<status, failed, rows, assigned, fileVars>>
  BY DEF Arrive, WindowEnds, LeaseExpires, Crash, vars, dbVars
<1>2. WeeksInOrder' /\ \A w \in Windows : CycleIsSound(w)'
  BY <1>1 DEF WeeksInOrder, BuildsAreSound, CycleIsSound, fileVars
<1>3. CASE (\E v \in Versions : Arrive(v)) \/ WindowEnds \/ UNCHANGED vars
  <2>1. UNCHANGED <<leaseVars, taskVars>>
    BY <1>3 DEF Arrive, WindowEnds, vars
  <2>2. LeaseHeld'
    BY <2>1 DEF LeaseHeld, leaseVars, taskVars
  <2>3. \A q \in Procs : BuildIsSound(q)'
    BY <1>1, <2>1 DEF BuildsAreSound, BuildIsSound, Unstored, taskVars, fileVars
  <2> QED BY <1>1, <1>2, <2>2, <2>3, FrozenAlone DEF StepIsSound, BuildsAreSound
<1>4. CASE LeaseExpires
  <2>1. lease = Dead /\ UNCHANGED taskVars
    BY <1>4 DEF LeaseExpires, NoSlowSync
  <2>2. \A q \in Procs : pc'[q] = "idle"
    BY <2>1, WindowFacts DEF LeaseHeld, taskVars
  <2> QED BY <1>1, <1>2, <2>2, FrozenAlone
          DEF StepIsSound, BuildsAreSound, BuildIsSound, LeaseHeld, Unstored
<1>5. ASSUME NEW p \in Procs, Crash(p) PROVE StepIsSound
  <2>1. pc[p] # "idle" /\ Goto(p, "idle")
    BY <1>5 DEF Crash
  <2>2. \A q \in Procs : pc'[q] = "idle"
    BY <2>1, OthersIdle DEF Goto, TypeOK
  <2> QED BY <1>1, <1>2, <2>2, FrozenAlone
          DEF StepIsSound, BuildsAreSound, BuildIsSound, LeaseHeld, Unstored
<1> QED BY <1>3, <1>4, <1>5

\* Every step keeps the invariant and what is frozen.
LEMMA SnapshotStep ==
    ASSUME NoSlowSync, SnapshotInv, [Next]_vars
    PROVE  SnapshotInv' /\ \A w \in Windows : Frozen(w)
<1>1. TypeOK' /\ EvidenceTakenOnce'
  BY TypeStep, TakenStep DEF SnapshotInv
<1>2. ASSUME NEW p \in Procs, StartStep(p) PROVE StepIsSound
  BY <1>2, ReserveSound, SelectSound, WriteSound, MaterializeSound, ActivateSound,
     FailsSound, MovingOnSound DEF StartStep
<1>3. StepIsSound
  BY <1>2, StartLeaseSound, RetrySound, RecoverSound, CompleteSound, WorldSound DEF Next
<1> QED BY <1>1, <1>3 DEF SnapshotInv, StepIsSound

\* At first there are no cycles.
LEMMA SnapshotInit == Init => SnapshotInv
<1> SUFFICES ASSUME Init PROVE SnapshotInv
  OBVIOUS
<1>1. TypeOK
  BY InitType
<1>2. EvidenceTakenOnce
  BY WindowFacts DEF Init, EvidenceTakenOnce
<1>3. WeeksInOrder /\ LeaseHeld /\ BuildsAreSound
  BY DEF Init, WeeksInOrder, LeaseHeld, BuildsAreSound, BuildIsSound, CycleIsSound, Unstored
<1> QED BY <1>1, <1>2, <1>3 DEF SnapshotInv

\* The invariant says of active and of stopped cycles what their readers need.
LEMMA SnapshotConsequences ==
    ASSUME SnapshotInv
    PROVE  WeeksInOrder /\ SnapshotAgrees /\ StoppedSnapshotIsRetryable
<1>1. \A w \in Windows : AssignedTo(w) = rows[w]
  BY DEF SnapshotInv, EvidenceTakenOnce, AssignedTo, TypeOK
<1> QED BY <1>1 DEF SnapshotInv, BuildsAreSound, CycleIsSound, SnapshotAgrees,
                    StoppedSnapshotIsRetryable, RetryableSnapshot

\* Windows are taken one after the other, and an unfinished cycle blocks the next
\* one, as long as no sync outlasts the start lease.
THEOREM WeeksAreInOrder == NoSlowSync => (Spec => []WeeksInOrder)
<1> SUFFICES ASSUME NoSlowSync PROVE Spec => []WeeksInOrder
  OBVIOUS
<1> QED BY SnapshotInit, SnapshotStep, SnapshotConsequences, PTL DEF Spec

\* Whatever dies, fails or recovers, the files, the batches and the assignments
\* of an active cycle agree, as long as no sync outlasts the start lease.
THEOREM SnapshotsAgree == NoSlowSync => (Spec => []SnapshotAgrees)
<1> SUFFICES ASSUME NoSlowSync PROVE Spec => []SnapshotAgrees
  OBVIOUS
<1> QED BY SnapshotInit, SnapshotStep, SnapshotConsequences, PTL DEF Spec

\* A stopped snapshot can always be retried, and none of its evidence is lost to
\* it, as long as no sync outlasts the start lease.
THEOREM StoppedIsRetryable == NoSlowSync => (Spec => []StoppedSnapshotIsRetryable)
<1> SUFFICES ASSUME NoSlowSync PROVE Spec => []StoppedSnapshotIsRetryable
  OBVIOUS
<1> QED BY SnapshotInit, SnapshotStep, SnapshotConsequences, PTL DEF Spec

\* Once a cycle is active its batches, assignments and bundle stay, as long as no
\* sync outlasts the start lease.
THEOREM SnapshotsAreFrozen == NoSlowSync => (Spec => SnapshotIsFrozen)
<1> SUFFICES ASSUME NoSlowSync PROVE Spec => SnapshotIsFrozen
  OBVIOUS
<1>1. (\A w \in Windows : Frozen(w)) =>
        \A w \in Windows : status[w] \in {"active", "completed"} =>
          /\ rows'[w] = rows[w]
          /\ AssignedTo(w)' = AssignedTo(w)
          /\ rows[w] # {} => bundle'[w] = bundle[w]
  BY DEF Frozen
<1> QED BY <1>1, SnapshotInit, SnapshotStep, PTL DEF Spec, SnapshotIsFrozen
=============================================================================
