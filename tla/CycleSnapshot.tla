---------------------------- MODULE CycleSnapshot ----------------------------
(***************************************************************************)
(* How a weekly cycle comes to be: the start lease, the reservation, the   *)
(* corpus sync, the bundle on disk and the rows that assign evidence to    *)
(* the cycle, the recovery of an interrupted snapshot, and its retry       *)
(* (cycles.py, worker.py).                                                 *)
(*                                                                         *)
(* One action is the code between two database commits, two awaits or two  *)
(* file writes that recovery tells apart.  A start and a retry hold the    *)
(* cycle's row in memory across the sync: an attribute they assign the     *)
(* value they hold is not written.  What a batch is (partition_evidence)   *)
(* is left out: a cycle's batches are the set of their evidence.           *)
(***************************************************************************)
EXTENDS Naturals, FiniteSets

CONSTANTS
    Weeks,     \* bound on the number of weekly windows after the launch boundary
    Versions,  \* evidence versions (evidence id and content fingerprint)
    WeekOf,    \* the window of a version's source time; 0 is before the boundary
    Procs,     \* starts and retries in progress at the same time
    None,      \* null
    Baseline,  \* the disposition baseline_ignored
    Dead,      \* owner token of a process that died
    Faults     \* see FaultKinds

(***************************************************************************)
(* crash     a process dies between any two of its steps                   *)
(* sync      the corpus sync raises                                        *)
(* write     a bundle file cannot be written                               *)
(* move      the directory of an empty cycle cannot be moved               *)
(* slowSync  a sync takes longer than the start lease (15 minutes)         *)
(* overlap   another process takes steps while one is between two awaits   *)
(***************************************************************************)
FaultKinds == {"crash", "sync", "write", "move", "slowSync", "overlap"}

ASSUME SnapshotAssumption ==
    /\ Weeks \in Nat \ {0}
    /\ IsFiniteSet(Versions)
    /\ WeekOf \in [Versions -> 0..Weeks]
    /\ {None, Dead} \cap Procs = {} /\ None # Dead
    /\ {None, Baseline} \cap (1..Weeks) = {} /\ None # Baseline
    /\ Faults \subseteq FaultKinds

Windows == 1..Weeks
CycleStates == {"none", "starting", "active", "stopped", "completed"}
Counters == {"idle", "leased", "syncing", "selected", "writing", "written", "materialized",
             "moving", "releasing"}

VARIABLES
    ended,     \* number of weekly windows that have ended
    corpus,    \* versions the corpus holds
    status,    \* opinion_cycles.status by window, "none" without a row
    failed,    \* failure_code = snapshot_failed
    rows,      \* evidence of the cycle's opinion_batches
    assigned,  \* opinion_evidence_assignments: window, Baseline or None
    worked,    \* cycles whose batches are all completed
    bundle,    \* evidence in the cycle's bundle files
    marker,    \* evidence count in snapshot.json, None without the file
    lease,     \* owner of opinion-cycle-start, None without the row
    live,      \* the lease has not expired
    pc, cycle, \* program counter of a start or retry, and the cycle it holds
    selected   \* versions it has selected

dbVars == <<status, failed, rows, assigned, worked>>
fileVars == <<bundle, marker>>
leaseVars == <<lease, live>>
taskVars == <<pc, cycle, selected>>
worldVars == <<ended, corpus>>
vars == <<dbVars, fileVars, leaseVars, taskVars, worldVars>>

TypeOK ==
    /\ ended \in 0..Weeks
    /\ corpus \subseteq Versions
    /\ status \in [Windows -> CycleStates]
    /\ failed \in [Windows -> BOOLEAN]
    /\ rows \in [Windows -> SUBSET Versions]
    /\ assigned \in [Versions -> Windows \cup {Baseline, None}]
    /\ worked \subseteq Windows
    /\ bundle \in [Windows -> SUBSET Versions]
    /\ marker \in [Windows -> 0..Cardinality(Versions) \cup {None}]
    /\ lease \in Procs \cup {Dead, None}
    /\ live \in BOOLEAN
    /\ pc \in [Procs -> Counters]
    /\ cycle \in [Procs -> Windows \cup {None}]
    /\ selected \in [Procs -> SUBSET Versions]

Init ==
    /\ ended = 0
    /\ corpus = {}
    /\ status = [w \in Windows |-> "none"]
    /\ failed = [w \in Windows |-> FALSE]
    /\ rows = [w \in Windows |-> {}]
    /\ assigned = [v \in Versions |-> None]
    /\ worked = {}
    /\ bundle = [w \in Windows |-> {}]
    /\ marker = [w \in Windows |-> None]
    /\ lease = None
    /\ live = FALSE
    /\ pc = [p \in Procs |-> "idle"]
    /\ cycle = [p \in Procs |-> None]
    /\ selected = [p \in Procs |-> {}]

-----------------------------------------------------------------------------
(* Helpers *)

\* No other task is between two awaits.
Undisturbed(p) ==
    "overlap" \in Faults \/ \A q \in Procs \ {p} : pc[q] \in {"idle", "syncing", "releasing"}

At(p, counter) == pc[p] = counter /\ Undisturbed(p)
Goto(p, counter) == pc' = [pc EXCEPT ![p] = counter]

SetStatus(w, value) == status' = [status EXCEPT ![w] = value]

\* Variants: an expired lease counts as valid; no lease is looked at.
LeaseExists == lease # None
NoLease == FALSE

\* Somebody else's lease has not expired.
LeaseValid == lease # None /\ live

\* acquire_lease
Acquire(p) ==
    /\ ~LeaseValid
    /\ lease' = p
    /\ live' = TRUE

\* release_lease
Release(p) ==
    /\ lease' = IF lease = p THEN None ELSE lease
    /\ live' = (live /\ lease # p)

\* _unfinished_cycle
Unfinished == {w \in Windows : status[w] \in {"starting", "active", "stopped"}}

\* Window number of the last completed cycle, 0 if there is none.
LastCompleted ==
    LET done == {w \in Windows : status[w] = "completed"} IN
    IF done = {} THEN 0 ELSE CHOOSE w \in done : \A x \in done : x <= w

\* The window after the last completed cycle's.
NextWindow == LastCompleted + 1

\* No cycle is unfinished, and the next window has ended and has no cycle.
CanReserve == Unfinished = {} /\ NextWindow <= ended /\ status[NextWindow] = "none"

AssignedTo(w) == {v \in Versions : assigned[v] = w}

\* _eligible_versions
Eligible(w) == {v \in corpus : WeekOf[v] \in 1..w /\ assigned[v] = None}

\* Variant: evidence versions are not unique.
ConflictOfBatch(w, evidence) == evidence # {} /\ rows[w] # {}

\* The rows of _materialize_cycle violate a unique constraint: the evidence
\* version, or the batch number within the cycle.
Conflict(w, evidence) ==
    evidence # {} /\ (rows[w] # {} \/ \E v \in evidence : assigned[v] # None)

-----------------------------------------------------------------------------
(* Starting a cycle: start_opinion_cycle *)

\* The lease is taken before anything is read.
StartLease(p) ==
    /\ At(p, "idle")
    /\ Acquire(p)
    /\ Goto(p, "leased")
    /\ UNCHANGED <<dbVars, fileVars, cycle, selected, worldVars>>

\* An unfinished or existing cycle is returned, and a window that has not ended
\* is refused.
StartRefused(p) ==
    /\ At(p, "leased")
    /\ ~CanReserve
    /\ Goto(p, "releasing")
    /\ UNCHANGED <<dbVars, fileVars, leaseVars, cycle, selected, worldVars>>

\* The cycle is reserved before the sync.
Reserve(p) ==
    /\ At(p, "leased")
    /\ CanReserve
    /\ SetStatus(NextWindow, "starting")
    /\ cycle' = [cycle EXCEPT ![p] = NextWindow]
    /\ Goto(p, "syncing")
    /\ UNCHANGED <<failed, rows, assigned, worked, fileVars, leaseVars, selected, worldVars>>

\* The guards of retry_stopped_snapshot.
RetryableSnapshot(w) == status[w] = "stopped" /\ failed[w] /\ rows[w] = {}

\* retry_stopped_snapshot up to its sync.  Its guards, its lease and its commit
\* are one action: in between no other build can both begin and end.
RetrySnapshot(p, w) ==
    /\ At(p, "idle")
    /\ RetryableSnapshot(w)
    /\ Acquire(p)
    /\ SetStatus(w, "starting")
    /\ failed' = [failed EXCEPT ![w] = FALSE]
    /\ cycle' = [cycle EXCEPT ![p] = w]
    /\ Goto(p, "syncing")
    /\ UNCHANGED <<rows, assigned, worked, fileVars, selected, worldVars>>

\* The sync has returned: older evidence becomes the baseline and the window's
\* evidence is selected.
Select(p) ==
    /\ At(p, "syncing")
    /\ selected' = [selected EXCEPT ![p] = Eligible(cycle[p])]
    /\ assigned' = [v \in Versions |->
                       IF v \in corpus /\ WeekOf[v] = 0 /\ assigned[v] = None
                       THEN Baseline ELSE assigned[v]]
    /\ Goto(p, "selected")
    /\ UNCHANGED <<status, failed, rows, worked, fileVars, leaseVars, cycle, worldVars>>

\* Some of the bundle is on disk, over what an earlier attempt left there.
WriteSome(p) ==
    /\ At(p, "selected")
    /\ selected[p] # {}
    /\ \E some \in SUBSET selected[p] : bundle' = [bundle EXCEPT ![cycle[p]] = some]
    /\ Goto(p, "writing")
    /\ UNCHANGED <<dbVars, marker, leaseVars, cycle, selected, worldVars>>

\* The whole bundle and then snapshot.json are on disk.  A cycle without
\* evidence has no batches and writes snapshot.json only.
WriteMarker(p) ==
    LET w == cycle[p] IN
    /\ At(p, "writing") \/ (At(p, "selected") /\ selected[p] = {})
    /\ bundle' = IF selected[p] = {} THEN bundle ELSE [bundle EXCEPT ![w] = selected[p]]
    /\ marker' = [marker EXCEPT ![w] = Cardinality(selected[p])]
    /\ Goto(p, "written")
    /\ UNCHANGED <<dbVars, leaseVars, cycle, selected, worldVars>>

\* The batches and assignments are committed.
Materialize(p) ==
    LET w == cycle[p] IN
    /\ At(p, "written")
    /\ ~Conflict(w, selected[p])
    /\ rows' = IF selected[p] = {} THEN rows ELSE [rows EXCEPT ![w] = selected[p]]
    /\ assigned' = [v \in Versions |-> IF v \in selected[p] THEN w ELSE assigned[v]]
    /\ Goto(p, "materialized")
    /\ UNCHANGED <<status, failed, worked, fileVars, leaseVars, cycle, selected, worldVars>>

\* The cycle is active, or completed when it has no evidence.
Activate(p) ==
    LET w == cycle[p] IN
    /\ At(p, "materialized")
    /\ SetStatus(w, IF selected[p] = {} THEN "completed" ELSE "active")
    /\ Goto(p, IF selected[p] = {} THEN "moving" ELSE "releasing")
    /\ UNCHANGED <<failed, rows, assigned, worked, fileVars, leaseVars, cycle, selected, worldVars>>

\* complete_cycle_directory of a cycle without evidence.
MoveDirectory(p) ==
    /\ At(p, "moving")
    /\ Goto(p, "releasing")
    /\ UNCHANGED <<dbVars, fileVars, leaseVars, cycle, selected, worldVars>>

\* A step raises: the transaction is rolled back and the cycle stopped.
SnapshotFails(p) ==
    LET w == cycle[p] IN
    /\ \/ At(p, "syncing") /\ "sync" \in Faults
       \/ (At(p, "selected") \/ At(p, "writing")) /\ "write" \in Faults
       \/ At(p, "written") /\ Conflict(w, selected[p])
       \/ At(p, "moving") /\ "move" \in Faults
    /\ SetStatus(w, "stopped")
    /\ failed' = [failed EXCEPT ![w] = TRUE]
    /\ Goto(p, "releasing")
    /\ UNCHANGED <<rows, assigned, worked, fileVars, leaseVars, cycle, selected, worldVars>>

\* The finally clause.
EndStart(p) ==
    /\ At(p, "releasing")
    /\ Release(p)
    /\ Goto(p, "idle")
    /\ cycle' = [cycle EXCEPT ![p] = None]
    /\ selected' = [selected EXCEPT ![p] = {}]
    /\ UNCHANGED <<dbVars, fileVars, worldVars>>

-----------------------------------------------------------------------------
(* Recovery: reconcile_starting_cycles, by the worker or by retry-cycle *)

\* Variant: snapshot.json alone vouches for the snapshot.
MarkerPresent(w) == marker[w] # None

\* snapshot.json, the rows, the assignments and the bundle files agree.
Complete(w) ==
    /\ marker[w] = Cardinality(rows[w])
    /\ marker[w] = Cardinality(AssignedTo(w))
    /\ rows[w] # {} => bundle[w] = rows[w]

\* The pass runs between two awaits of every start and retry.
Quiet == \A p \in Procs : Undisturbed(p)

\* A complete snapshot is promoted.
Promote(w) ==
    /\ Quiet
    /\ ~LeaseValid
    /\ status[w] = "starting"
    /\ Complete(w)
    /\ SetStatus(w, IF marker[w] = 0 THEN "completed" ELSE "active")
    /\ failed' = [failed EXCEPT ![w] = FALSE]
    /\ UNCHANGED <<rows, assigned, worked, fileVars, leaseVars, taskVars, worldVars>>

\* Variant: the assignments of a discarded snapshot are kept.
KeepAssignments(w) == assigned

\* The assignments of the snapshot are deleted.
Unassign(w) == [v \in Versions |-> IF assigned[v] = w THEN None ELSE assigned[v]]

\* An incomplete one is taken back.  Its files stay.
Discard(w) ==
    /\ Quiet
    /\ ~LeaseValid
    /\ status[w] = "starting"
    /\ ~Complete(w)
    /\ assigned' = Unassign(w)
    /\ rows' = [rows EXCEPT ![w] = {}]
    /\ SetStatus(w, "stopped")
    /\ failed' = [failed EXCEPT ![w] = TRUE]
    /\ UNCHANGED <<worked, fileVars, leaseVars, taskVars, worldVars>>

-----------------------------------------------------------------------------
(* The world *)

\* The runs of the cycle complete its last batch (see RunDurability).
CompleteCycle(w) ==
    /\ status[w] = "active"
    /\ SetStatus(w, "completed")
    /\ worked' = worked \cup {w}
    /\ UNCHANGED <<failed, rows, assigned, fileVars, leaseVars, taskVars, worldVars>>

WindowEnds ==
    /\ ended < Weeks
    /\ ended' = ended + 1
    /\ UNCHANGED <<dbVars, fileVars, leaseVars, taskVars, corpus>>

\* Some sync, this one's or another's, brings a version of a window that has
\* begun into the corpus.
Arrive(v) ==
    /\ v \notin corpus
    /\ WeekOf[v] <= ended + 1
    /\ corpus' = corpus \cup {v}
    /\ UNCHANGED <<dbVars, fileVars, leaseVars, taskVars, ended>>

Crash(p) ==
    /\ pc[p] # "idle"
    /\ Goto(p, "idle")
    /\ cycle' = [cycle EXCEPT ![p] = None]
    /\ selected' = [selected EXCEPT ![p] = {}]
    /\ lease' = IF lease = p THEN Dead ELSE lease
    /\ UNCHANGED <<dbVars, fileVars, live, worldVars>>

\* The lease is not renewed.  Only a sync can outlast it.
LeaseExpires ==
    /\ LeaseValid
    /\ \/ lease = Dead
       \/ "slowSync" \in Faults /\ lease \in Procs /\ pc[lease] = "syncing"
    /\ live' = FALSE
    /\ UNCHANGED <<dbVars, fileVars, lease, taskVars, worldVars>>

StartStep(p) ==
    \/ StartRefused(p) \/ Reserve(p) \/ Select(p) \/ WriteSome(p) \/ WriteMarker(p)
    \/ Materialize(p) \/ Activate(p) \/ MoveDirectory(p) \/ SnapshotFails(p) \/ EndStart(p)

Recover == \E w \in Windows : Promote(w) \/ Discard(w)

Next ==
    \/ \E p \in Procs : StartLease(p) \/ StartStep(p)
    \/ \E p \in Procs, w \in Windows : RetrySnapshot(p, w)
    \/ Recover
    \/ \E w \in Windows : CompleteCycle(w)
    \/ \E v \in Versions : Arrive(v)
    \/ WindowEnds \/ LeaseExpires
    \/ "crash" \in Faults /\ \E p \in Procs : Crash(p)

Spec == Init /\ [][Next]_vars

-----------------------------------------------------------------------------
(* Properties *)

\* RUN-16A, RUN-27: windows are taken one after the other, and an unfinished
\* cycle, also a stopped one, blocks the next.
WeeksInOrder ==
    \A w \in Windows : status[w] # "none" => \A x \in 1..(w - 1) : status[x] = "completed"

\* The files an agent will read, the batches and the assignments of an active
\* cycle agree, whichever attempts and recoveries led to it.
SnapshotAgrees ==
    \A w \in Windows : status[w] = "active" =>
        rows[w] # {} /\ bundle[w] = rows[w] /\ AssignedTo(w) = rows[w]

\* RUN-24: once a cycle is active its batches, assignments and bundle stay.
SnapshotIsFrozen ==
    [][\A w \in Windows : status[w] \in {"active", "completed"} =>
          /\ rows'[w] = rows[w]
          /\ AssignedTo(w)' = AssignedTo(w)
          /\ rows[w] # {} => bundle'[w] = bundle[w]]_vars

\* RUN-17: an evidence version belongs to the cycle it is assigned to and to
\* no other, also when two starts or retries overlap.
EvidenceTakenOnce ==
    \A v \in Versions, w \in Windows : v \in rows[w] <=> assigned[v] = w

\* Once nobody builds a stopped snapshot, retry-cycle takes it: batches would
\* make its retry impossible, and an assignment would hide its evidence.
StoppedSnapshotIsRetryable ==
    \A w \in Windows :
        status[w] = "stopped" /\ (\A p \in Procs : cycle[p] # w) =>
            RetryableSnapshot(w) /\ AssignedTo(w) = {}

\* Synchronous code runs on, a sync returns or raises, the worker polls, and
\* leases run out.  The worker finds the lease free again and again, however
\* often a start takes it (strong fairness).
Fairness ==
    /\ \A p \in Procs : WF_vars(StartStep(p))
    /\ SF_vars(Recover)
    /\ WF_vars(LeaseExpires)

FairSpec == Spec /\ Fairness

\* A reserved cycle does not stay starting, whatever crashes.
ReservedSettles == \A w \in Windows : status[w] = "starting" ~> status[w] # "starting"
=============================================================================
