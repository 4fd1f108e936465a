------------------------ MODULE RunDurability_proof ------------------------
(***************************************************************************)
(* Theorems about RunDurability, for every number of batches, runs, tasks  *)
(* and, but for the faults NoUsurping and NoOverlap name, every fault.     *)
(*                                                                         *)
(* Typing:  every variable keeps its type.  A task that works on a run     *)
(* holds that run.                                                         *)
(*                                                                         *)
(* PhaseIsTrue:  what the database records of a run's commit is true of    *)
(* git.  It is not inductive: that a turn's `pushed` is true rests on      *)
(* where its task is (pushing comes after git push), on nobody else having *)
(* recorded another commit for the run in between, and so on at most one   *)
(* task working on a turn of a run.  Git's part is that the histories of   *)
(* both branches only grow.                                                *)
(*                                                                         *)
(* OneActiveRun and CompletedIsDurable rest on EarlyInv, what the phase    *)
(* says of a turn before its commit: a run that can still be claimed has   *)
(* announced none.  ActiveInv adds the status a turn in progress has,      *)
(* DoneInv that a run recorded as pushed is past the point where a turn    *)
(* or a claim could set its phase back.                                    *)
(*                                                                         *)
(* The second half is about publication under the faults Orderly names:    *)
(* each batch is published once and as it was edited, a queued batch can   *)
(* start, a stopped cycle can go on, and the program implements            *)
(* BatchPipeline.  They share one invariant, PublicationInv, that relates  *)
(* the rows of the database to each other (Rows, BatchTurn, SeenInv) and   *)
(* to the commits of the checkout and of the remote branch (CommitInv).    *)
(* What is said of the files rests on TreeInv, which FilesAreLeft is for.  *)
(***************************************************************************)
EXTENDS RunDurability, FiniteSetTheorems, TLAPS

\* Counters at which a task has a run.
Working == Counters \ {"idle", "reconcile", "claim"}

\* A task between two calls of a run's code holds the run.
HoldsRun == \A t \in Tasks : pc[t] \in Working => on[t] \in Runs

Typing == TypeOK /\ HoldsRun

\* The tip of a branch is one of its commits.
TipIsCommit ==
    /\ local.tip \in Runs => local.tip \in local.commits
    /\ remote.tip \in Runs => remote.tip \in remote.commits

\* The commits of runs reach the remote branch through the checkout.
RunsAreLocal == \A r \in Runs : r \in remote.commits => r \in local.commits

\* The status of a run whose turn is in progress.
TurnStatus ==
    \A r \in Runs, t \in Tasks :
        TurnOf(t, r) =>
            /\ runStatus[r] \notin {"none", "awaiting_user"}
            /\ runStatus[r] = "pending_agent" => t = Worker /\ pc[t] \in {"setup", "launch"}

\* After its git push, a turn's commit is on the remote branch.
TurnHasPushed ==
    \A r \in Runs, t \in Tasks :
        TurnOf(t, r) /\ pc[t] \in {"pushing", "pushed", "batchDone"} /\ hasSha[r]
            => r \in remote.commits

\* Recorded as pushed with nothing on the remote branch: a run without a commit.
PushedNothing(r) == gitPhase[r] \in {"pushed", "completed"} /\ r \notin remote.commits

\* ... and its turn is over or past its commit for good.
NothingIsFinal ==
    \A r \in Runs :
        PushedNothing(r) =>
            /\ ~hasSha[r]
            /\ runStatus[r] \notin {"none", "pending_agent", "awaiting_user"}
            /\ \A t \in Tasks :
                  TurnOf(t, r) => pc[t] \in {"committed", "pushing", "pushed", "batchDone"}

\* What a reconciliation remembers between its push and its commits.
ReconcilerHasPushed ==
    \A r \in Runs, t \in Tasks :
        on[t] = r /\ pc[t] \in {"recPushed",
        "recBatch"} => r \in remote.commits \/ PushedNothing(r)

\* A recorded SHA names a commit of the checkout.
ShaIsLocal == \A r \in Runs : hasSha[r] => r \in local.commits

GitInv == TipIsCommit /\ RunsAreLocal /\ ShaIsLocal

TurnInv == OneTurn /\ TurnStatus

PushInv == TurnHasPushed /\ NothingIsFinal /\ ReconcilerHasPushed

PhaseInv == GitInv /\ TurnInv /\ PushInv

-----------------------------------------------------------------------------
(* Typing *)

\* _complete_cycle_batch leaves the rows of the cycle and its batches typed.
LEMMA CompleteCycleBatchTyped ==
    ASSUME Typing, NEW r \in Runs, NEW held \in BOOLEAN, CompleteCycleBatch(r, held)
    PROVE  CycleTypeOK'
<1> DEFINE b == runBatch[r]
<1>1. b \in Batches /\ N \in Nat
  BY DurabilityAssumption DEF Typing, TypeOK, RunTypeOK
<1>2. b < N => b + 1 \in Batches
  BY <1>1 DEF Batches
<1>3. /\ batchStatus' \in [Batches -> BatchStates]
      /\ cycleStatus' \in CycleStates
      /\ currentBatch' \in Batches
  <2>1. CASE HasNext(b)
    BY <1>1, <1>2, <2>1 DEF CompleteCycleBatch, HasNext, Typing, TypeOK, CycleTypeOK, BatchStates,
       CycleStates
  <2>2. CASE ~HasNext(b)
    BY <1>1, <2>2 DEF CompleteCycleBatch, HasNext, Typing, TypeOK, CycleTypeOK, BatchStates,
       CycleStates, Batches
  <2> QED BY <2>1, <2>2
<1>4. /\ successfulRun' \in [Batches -> Runs \cup {NoRun}]
      /\ latestRun' \in [Batches -> Runs \cup {NoRun}]
  BY <1>1 DEF CompleteCycleBatch, Typing, TypeOK, CycleTypeOK
<1> QED BY <1>3, <1>4 DEF CycleTypeOK

\* _stop_cycle, likewise.
LEMMA StopCycleTyped ==
    ASSUME Typing, NEW r \in Runs, StopCycle(r)
    PROVE  CycleTypeOK'
BY DEF StopCycle, Typing, TypeOK, CycleTypeOK, BatchStates, CycleStates

\* Restoring a baseline leaves the working tree typed.
LEMMA RestoreTyped ==
    ASSUME Typing, NEW r \in Runs, Restore(r)
    PROVE  tree' \in Content
BY DEF Restore, Typing, TypeOK, RunTypeOK

\* _fail_run leaves everything but the task typed.
LEMMA FailRunTyped ==
    ASSUME Typing, NEW t \in Tasks, on[t] \in Runs, FailRun(t)
    PROVE  RepoTypeOK' /\ CycleTypeOK' /\ RunTypeOK'
<1>1. CycleTypeOK'
  BY StopCycleTyped DEF FailRun
<1>2. RunTypeOK'
  BY DEF FailRun, SetStatus, Typing, TypeOK, RunTypeOK, RunStates
<1>3. tree' \in Content
  BY RestoreTyped DEF FailRun, Typing, TypeOK, RepoTypeOK
<1>4. RepoTypeOK'
  BY <1>3 DEF FailRun, Typing, TypeOK, RepoTypeOK
<1> QED BY <1>1, <1>2, <1>4

\* Every step of every task keeps the types.
LEMMA TypingNext == Typing /\ [Next]_vars => Typing'
<1> SUFFICES ASSUME Typing, [Next]_vars PROVE Typing'
  OBVIOUS
<1> USE DurabilityAssumption
    DEF Typing, HoldsRun, TypeOK, RepoTypeOK, CycleTypeOK, RunTypeOK, TaskTypeOK,
        cycleVars, batchVars, runVars, repoVars, taskVars, Tasks, Web, Reconcilers
<1>1. ASSUME NEW t \in Reconcilers, BeginPass(t) PROVE Typing'
  BY <1>1 DEF BeginPass, At, Candidates, Goto, Working, Counters
<1>2. ASSUME NEW t \in Reconcilers, NEW r \in Runs, ReconcilePush(t, r) PROVE Typing'
  BY <1>2 DEF ReconcilePush, At, Looking, Push, Goto, Working, Counters
<1>3. ASSUME NEW t \in Reconcilers, ReconcileBatch(t) PROVE Typing'
  <2>1. on[t] \in Runs
    BY <1>3 DEF ReconcileBatch, At, Working, Counters
  <2>2. CycleTypeOK'
    BY <1>3, <2>1, CompleteCycleBatchTyped DEF ReconcileBatch
  <2>3. RunTypeOK'
    BY <1>3, <2>1 DEF ReconcileBatch, SetPhase, Phases
  <2>4. RepoTypeOK' /\ TaskTypeOK' /\ HoldsRun'
    BY <1>3, <2>1 DEF ReconcileBatch, At, Goto, Working, Counters
  <2> QED BY <2>2, <2>3, <2>4
<1>4. ASSUME NEW t \in Reconcilers, ReconcileRun(t) PROVE Typing'
  BY <1>4 DEF ReconcileRun, At, SetStatus, SetPhase, Goto, RunStates, Phases, Leases, Working,
     Counters
<1>5. ASSUME NEW t \in Reconcilers, NEW r \in Runs, ReconcileInterrupt(t, r) PROVE Typing'
  BY <1>5 DEF ReconcileInterrupt, At, Restore, SetStatus, StopCycle, RunStates, BatchStates,
     CycleStates
<1>6. ASSUME NEW t \in Reconcilers, NEW r \in Runs, ReconcileSkip(t, r) PROVE Typing'
  BY <1>6 DEF ReconcileSkip, At
<1>7. ASSUME NEW t \in Reconcilers, NEW r \in Runs, ReconcileGitFails(t, r) PROVE Typing'
  BY <1>7 DEF ReconcileGitFails, At
<1>8. ASSUME NEW t \in Reconcilers, ReconcileFinishFails(t) PROVE Typing'
  <2>1. on[t] \in Runs /\ t \in Tasks
    BY <1>8 DEF ReconcileFinishFails, At, Working, Counters
  <2>2. RepoTypeOK' /\ CycleTypeOK' /\ RunTypeOK'
    BY <1>8 DEF ReconcileFinishFails
  <2>3. TaskTypeOK' /\ HoldsRun'
    BY <1>8, <2>1 DEF ReconcileFinishFails, Goto, Working, Counters
  <2> QED BY <2>2, <2>3
<1>9. ASSUME NEW t \in Reconcilers, EndPass(t) PROVE Typing'
  BY <1>9 DEF EndPass, At, Goto, Working, Counters
<1>10. ASSUME NEW r \in Runs, ClaimPending(r) PROVE Typing'
  BY <1>10 DEF ClaimPending, At, Goto, Working, Counters
<1>11. ASSUME NEW r \in Runs, NEW b \in Batches, ClaimBatch(r, b) PROVE Typing'
  BY <1>11 DEF ClaimBatch, At, SetStatus, Goto, RunStates, BatchStates, Working, Counters
<1>12. ASSUME ClaimNothing PROVE Typing'
  BY <1>12 DEF ClaimNothing, At, Goto, Working, Counters
<1>13. ASSUME ClaimLeaseExpires PROVE Typing'
  BY <1>13 DEF ClaimLeaseExpires
<1>14. ASSUME Setup PROVE Typing'
  BY <1>14 DEF Setup, At, Checkout, SetPhase, Goto, Phases, Branch, Content, Working, Counters
<1>15. ASSUME Launch PROVE Typing'
  BY <1>15 DEF Launch, At, SetStatus, Goto, RunStates, Leases, Working, Counters
<1>16. ASSUME NEW t \in Hooks, NEW r \in Runs, ClaimAwaiting(t, r) PROVE Typing'
  BY <1>16 DEF ClaimAwaiting, At, SetStatus, Goto, RunStates, Leases, Working, Counters
<1>17. ASSUME NEW t \in Web, AgentEdits(t) PROVE Typing'
  <2>1. on[t] \in Runs
    BY <1>17 DEF AgentEdits, At, Working, Counters
  <2> QED BY <1>17, <2>1 DEF AgentEdits, Content
<1>18. ASSUME NEW t \in Web, TurnAwaits(t) PROVE Typing'
  BY <1>18 DEF TurnAwaits, At, SetStatus, Goto, RunStates, Leases, BatchStates, Working, Counters
<1>19. ASSUME NEW t \in Web, MessagesSent(t) PROVE Typing'
  BY <1>19 DEF MessagesSent, At, Return, Goto, Working, Counters
<1>20. ASSUME NEW t \in Web, TurnDone(t) PROVE Typing'
  BY <1>20 DEF TurnDone, At, SetPhase, Goto, Phases, Working, Counters
<1>21. ASSUME NEW t \in Web, GitCommit(t) PROVE Typing'
  <2>1. on[t] \in Runs
    BY <1>21 DEF GitCommit, At, Working, Counters
  <2>2. RepoTypeOK'
    BY <1>21, <2>1 DEF GitCommit, Commit, Branch, Content
  <2>3. CycleTypeOK' /\ RunTypeOK' /\ TaskTypeOK' /\ HoldsRun'
    BY <1>21, <2>1 DEF GitCommit, At, Goto, Working, Counters
  <2> QED BY <2>2, <2>3
<1>22. ASSUME NEW t \in Web, RecordCommit(t) PROVE Typing'
  <2>1. on[t] \in Runs
    BY <1>22 DEF RecordCommit, At, Working, Counters
  <2>2. (on[t] \in local.commits) \in BOOLEAN
    OBVIOUS
  <2>3. hasSha' \in [Runs -> BOOLEAN]
    BY <1>22, <2>1, <2>2, ZenonT(30) DEF RecordCommit
  <2>4. RunTypeOK'
    BY <1>22, <2>1, <2>3 DEF RecordCommit, SetPhase, Phases
  <2>5. RepoTypeOK' /\ CycleTypeOK' /\ TaskTypeOK' /\ HoldsRun'
    BY <1>22, <2>1 DEF RecordCommit, At, Goto, Working, Counters
  <2> QED BY <2>4, <2>5
<1>23. ASSUME NEW t \in Web, GitPush(t) PROVE Typing'
  BY <1>23 DEF GitPush, At, Push, Goto, Working, Counters
<1>24. ASSUME NEW t \in Web, RecordPush(t) PROVE Typing'
  BY <1>24 DEF RecordPush, At, SetPhase, Goto, Phases, Working, Counters
<1>25. ASSUME NEW t \in Web, CompleteBatch(t) PROVE Typing'
  <2>1. on[t] \in Runs
    BY <1>25 DEF CompleteBatch, At, Working, Counters
  <2>2. CycleTypeOK'
    BY <1>25, <2>1, CompleteCycleBatchTyped DEF CompleteBatch, Holds
  <2>3. RepoTypeOK' /\ RunTypeOK' /\ TaskTypeOK' /\ HoldsRun'
    BY <1>25, <2>1 DEF CompleteBatch, At, Goto, Working, Counters
  <2> QED BY <2>2, <2>3
<1>26. ASSUME NEW t \in Web, CompleteRun(t) PROVE Typing'
  BY <1>26 DEF CompleteRun, At, SetStatus, SetPhase, Return, Goto, RunStates, Phases, Leases,
     Working, Counters
<1>27. ASSUME SetupFails PROVE Typing'
  <2>1. Worker \in Tasks /\ on[Worker] \in Runs
    BY <1>27 DEF SetupFails, At, Working, Counters
  <2>2. RepoTypeOK' /\ CycleTypeOK' /\ RunTypeOK'
    BY <1>27, <2>1, FailRunTyped DEF SetupFails
  <2>3. TaskTypeOK' /\ HoldsRun'
    BY <1>27, <2>1 DEF SetupFails, FailRun, Goto, Return, Working, Counters
  <2> QED BY <2>2, <2>3
<1>28. ASSUME NEW t \in Web, TurnFails(t) PROVE Typing'
  <2>1. t \in Tasks /\ on[t] \in Runs
    BY <1>28 DEF TurnFails, At, Working, Counters
  <2>2. RepoTypeOK' /\ CycleTypeOK' /\ RunTypeOK'
    BY <1>28, <2>1, FailRunTyped DEF TurnFails
  <2>3. TaskTypeOK' /\ HoldsRun'
    BY <1>28, <2>1 DEF TurnFails, FailRun, Goto, Return, Working, Counters
  <2> QED BY <2>2, <2>3
<1>29. ASSUME NEW t \in Web, SendFails(t) PROVE Typing'
  <2>1. t \in Tasks /\ on[t] \in Runs
    BY <1>29 DEF SendFails, At, Working, Counters
  <2>2. RepoTypeOK' /\ CycleTypeOK' /\ RunTypeOK'
    BY <1>29, <2>1, FailRunTyped DEF SendFails
  <2>3. TaskTypeOK' /\ HoldsRun'
    BY <1>29, <2>1 DEF SendFails, FailRun, Goto, Return, Working, Counters
  <2> QED BY <2>2, <2>3
<1>30. ASSUME NEW t \in Web, CompletionFails(t) PROVE Typing'
  <2>1. t \in Tasks /\ on[t] \in Runs
    BY <1>30 DEF CompletionFails, At, Working, Counters
  <2>2. RepoTypeOK' /\ CycleTypeOK' /\ RunTypeOK'
    BY <1>30, <2>1, FailRunTyped DEF CompletionFails
  <2>3. TaskTypeOK' /\ HoldsRun'
    BY <1>30, <2>1 DEF CompletionFails, FailRun, Goto, Working, Counters
  <2> QED BY <2>2, <2>3
<1>39. ASSUME NEW t \in Web, FinalJsonFails(t) PROVE Typing'
  BY <1>39 DEF FinalJsonFails, At, Goto, SetStatus, Working, Counters, RunStates, BatchStates,
     CycleStates
<1>31. ASSUME NEW t \in Web, FailAgain(t) PROVE Typing'
  <2>1. on[t] \in Runs
    BY <1>31 DEF FailAgain, At, Working, Counters
  <2>2. RepoTypeOK'
    BY <1>31, <2>1, RestoreTyped DEF FailAgain
  <2>3. CycleTypeOK'
    BY <1>31, <2>1, StopCycleTyped DEF FailAgain
  <2>4. RunTypeOK' /\ TaskTypeOK' /\ HoldsRun'
    BY <1>31, <2>1 DEF FailAgain, Goto, Return, Working, Counters
  <2> QED BY <2>2, <2>3, <2>4
<1>32. ASSUME NEW process \in SUBSET Tasks, Crash(process) PROVE Typing'
  BY <1>32 DEF Crash, Working, Counters
<1>33. ASSUME NEW r \in Runs, LeaseExpires(r) PROVE Typing'
  BY <1>33 DEF LeaseExpires, Leases
<1>34. ASSUME NEW r \in Runs, BackoffEnds(r) PROVE Typing'
  BY <1>34 DEF BackoffEnds
<1>35. ASSUME NEW t \in Clis, Retry(t) PROVE Typing'
  BY <1>35 DEF Retry, At, Goto, BatchStates, CycleStates, Working, Counters
<1>36. ASSUME NEW r \in Runs, Abandon(r) PROVE Typing'
  BY <1>36 DEF Abandon, Restore, SetStatus, StopCycle, RunStates, BatchStates, CycleStates
<1>37. ASSUME NEW r \in Runs, AbandonEnded(r) PROVE Typing'
  BY <1>37 DEF AbandonEnded, Restore
<1>38. ASSUME NEW c \in Outsiders, OutsideCommit(c) PROVE Typing'
  BY <1>38 DEF OutsideCommit, OutsidePush, Branch, Content
<1>90. ASSUME UNCHANGED vars PROVE Typing'
  BY <1>90 DEF vars
<1> QED
  BY <1>1, <1>2, <1>3, <1>4, <1>5, <1>6, <1>7, <1>8, <1>9, <1>10, <1>11, <1>12, <1>13, <1>14,
     <1>15, <1>16, <1>17, <1>18, <1>19, <1>20, <1>21, <1>22, <1>23, <1>24, <1>25, <1>26, <1>27,
     <1>28, <1>29, <1>30, <1>31, <1>32, <1>33, <1>34, <1>35, <1>36, <1>37, <1>38, <1>39, <1>90
     DEF Next, TurnStep, ReconcileStep, WorkerClaim, Time

-----------------------------------------------------------------------------
(* Recorded phases *)

\* Both histories only grow, and what is recorded of them is true of them.
LEMMA GitNext ==
    Typing /\ GitInv /\ [Next]_vars
        => /\ GitInv'
           /\ local.commits \subseteq local'.commits
           /\ remote.commits \subseteq remote'.commits
<1> DEFINE Grows == /\ local.commits \subseteq local'.commits
                    /\ remote.commits \subseteq remote'.commits
<1> SUFFICES ASSUME Typing, GitInv, [Next]_vars PROVE GitInv' /\ Grows
  OBVIOUS
<1> USE RepoAssumption DEF Typing, TypeOK, RepoTypeOK, RunTypeOK, TaskTypeOK, HoldsRun, GitInv,
        TipIsCommit, RunsAreLocal, ShaIsLocal, cycleVars, batchVars, runVars, repoVars, taskVars
<1>1. ASSUME NEW t \in Reconcilers, BeginPass(t) PROVE GitInv' /\ Grows
  BY <1>1 DEF BeginPass
<1>2. ASSUME NEW t \in Reconcilers, NEW r \in Runs, ReconcilePush(t, r) PROVE GitInv' /\ Grows
  BY <1>2 DEF ReconcilePush, Looking, Durable, TriesPush, Sha, NeedsGit, UnrecordedCommit,
     OnRemote, CanPush, Push
<1>3. ASSUME NEW t \in Reconcilers, ReconcileBatch(t) PROVE GitInv' /\ Grows
  BY <1>3 DEF ReconcileBatch, OnRemote, At, Counters, Working, Tasks, Reconcilers
<1>4. ASSUME NEW t \in Reconcilers, ReconcileRun(t) PROVE GitInv' /\ Grows
  BY <1>4 DEF ReconcileRun
<1>5. ASSUME NEW t \in Reconcilers, NEW r \in Runs, ReconcileInterrupt(t,
r) PROVE GitInv' /\ Grows
  BY <1>5 DEF ReconcileInterrupt
<1>6. ASSUME NEW t \in Reconcilers, NEW r \in Runs, ReconcileSkip(t, r) PROVE GitInv' /\ Grows
  BY <1>6 DEF ReconcileSkip
<1>7. ASSUME NEW t \in Reconcilers, NEW r \in Runs, ReconcileGitFails(t, r) PROVE GitInv' /\ Grows
  BY <1>7 DEF ReconcileGitFails
<1>8. ASSUME NEW t \in Reconcilers, ReconcileFinishFails(t) PROVE GitInv' /\ Grows
  BY <1>8 DEF ReconcileFinishFails
<1>9. ASSUME NEW t \in Reconcilers, EndPass(t) PROVE GitInv' /\ Grows
  BY <1>9 DEF EndPass
<1>10. ASSUME NEW r \in Runs, ClaimPending(r) PROVE GitInv' /\ Grows
  BY <1>10 DEF ClaimPending
<1>11. ASSUME NEW r \in Runs, NEW b \in Batches, ClaimBatch(r, b) PROVE GitInv' /\ Grows
  BY <1>11 DEF ClaimBatch
<1>12. ASSUME ClaimNothing PROVE GitInv' /\ Grows
  BY <1>12 DEF ClaimNothing
<1>13. ASSUME ClaimLeaseExpires PROVE GitInv' /\ Grows
  BY <1>13 DEF ClaimLeaseExpires
<1>14. ASSUME Setup PROVE GitInv' /\ Grows
  BY <1>14 DEF Setup, CanCheckout, Checkout
<1>15. ASSUME Launch PROVE GitInv' /\ Grows
  BY <1>15 DEF Launch
<1>16. ASSUME NEW t \in Hooks, NEW r \in Runs, ClaimAwaiting(t, r) PROVE GitInv' /\ Grows
  BY <1>16 DEF ClaimAwaiting
<1>17. ASSUME NEW t \in Web, AgentEdits(t) PROVE GitInv' /\ Grows
  BY <1>17 DEF AgentEdits
<1>18. ASSUME NEW t \in Web, TurnAwaits(t) PROVE GitInv' /\ Grows
  BY <1>18 DEF TurnAwaits
<1>19. ASSUME NEW t \in Web, MessagesSent(t) PROVE GitInv' /\ Grows
  BY <1>19 DEF MessagesSent
<1>20. ASSUME NEW t \in Web, TurnDone(t) PROVE GitInv' /\ Grows
  BY <1>20 DEF TurnDone
<1>21. ASSUME NEW t \in Web, GitCommit(t) PROVE GitInv' /\ Grows
  BY <1>21 DEF GitCommit, Commit, At, Branch, Content, Counters, Working
<1>22. ASSUME NEW t \in Web, RecordCommit(t) PROVE GitInv' /\ Grows
  BY <1>22 DEF RecordCommit, At, Counters, Working
<1>23. ASSUME NEW t \in Web, GitPush(t) PROVE GitInv' /\ Grows
  BY <1>23 DEF GitPush, CanPush, Push
<1>24. ASSUME NEW t \in Web, RecordPush(t) PROVE GitInv' /\ Grows
  BY <1>24 DEF RecordPush
<1>25. ASSUME NEW t \in Web, CompleteBatch(t) PROVE GitInv' /\ Grows
  BY <1>25 DEF CompleteBatch
<1>26. ASSUME NEW t \in Web, CompleteRun(t) PROVE GitInv' /\ Grows
  BY <1>26 DEF CompleteRun
<1>27. ASSUME SetupFails PROVE GitInv' /\ Grows
  BY <1>27 DEF SetupFails, FailRun
<1>28. ASSUME NEW t \in Web, TurnFails(t) PROVE GitInv' /\ Grows
  BY <1>28 DEF TurnFails, FailRun
<1>29. ASSUME NEW t \in Web, SendFails(t) PROVE GitInv' /\ Grows
  BY <1>29 DEF SendFails, FailRun
<1>30. ASSUME NEW t \in Web, CompletionFails(t) PROVE GitInv' /\ Grows
  BY <1>30 DEF CompletionFails, FailRun
<1>39. ASSUME NEW t \in Web, FinalJsonFails(t) PROVE GitInv' /\ Grows
  BY <1>39 DEF FinalJsonFails
<1>31. ASSUME NEW t \in Web, FailAgain(t) PROVE GitInv' /\ Grows
  BY <1>31 DEF FailAgain
<1>32. ASSUME NEW process \in SUBSET Tasks, Crash(process) PROVE GitInv' /\ Grows
  BY <1>32 DEF Crash
<1>33. ASSUME NEW r \in Runs, LeaseExpires(r) PROVE GitInv' /\ Grows
  BY <1>33 DEF LeaseExpires
<1>34. ASSUME NEW r \in Runs, BackoffEnds(r) PROVE GitInv' /\ Grows
  BY <1>34 DEF BackoffEnds
<1>35. ASSUME NEW t \in Clis, Retry(t) PROVE GitInv' /\ Grows
  BY <1>35 DEF Retry
<1>36. ASSUME NEW r \in Runs, Abandon(r) PROVE GitInv' /\ Grows
  BY <1>36 DEF Abandon
<1>37. ASSUME NEW r \in Runs, AbandonEnded(r) PROVE GitInv' /\ Grows
  BY <1>37 DEF AbandonEnded
<1>38. ASSUME NEW c \in Outsiders, OutsideCommit(c) PROVE GitInv' /\ Grows
  BY <1>38 DEF OutsideCommit, OutsidePush
<1>90. ASSUME UNCHANGED vars PROVE GitInv' /\ Grows
  BY <1>90 DEF vars
<1> QED
  BY <1>1, <1>2, <1>3, <1>4, <1>5, <1>6, <1>7, <1>8, <1>9, <1>10, <1>11, <1>12, <1>13, <1>14,
     <1>15, <1>16, <1>17, <1>18, <1>19, <1>20, <1>21, <1>22, <1>23, <1>24, <1>25, <1>26, <1>27,
     <1>28, <1>29, <1>30, <1>31, <1>32, <1>33, <1>34, <1>35, <1>36, <1>37, <1>38, <1>39, <1>90
     DEF Next, TurnStep, ReconcileStep, WorkerClaim, Time, Tasks, Web

\* A run has one turn at a time, also when its status is overwritten meanwhile.
LEMMA TurnNext == Typing /\ TurnInv /\ [Next]_vars => TurnInv'
<1> SUFFICES ASSUME Typing, TurnInv, [Next]_vars PROVE TurnInv'
  OBVIOUS
<1> USE DurabilityAssumption
    DEF Typing, TypeOK, RunTypeOK, TaskTypeOK, HoldsRun, TurnInv, OneTurn, TurnStatus,
        cycleVars, batchVars, runVars, repoVars, taskVars, Tasks, Web, Reconcilers
<1>1. ASSUME NEW t \in Reconcilers, BeginPass(t) PROVE TurnInv'
  BY <1>1 DEF BeginPass, At, Goto, TurnOf, TurnCounters, Working, Counters
<1>2. ASSUME NEW t \in Reconcilers, NEW r \in Runs, ReconcilePush(t, r) PROVE TurnInv'
  BY <1>2 DEF ReconcilePush, At, Goto, Looking, TurnOf, TurnCounters, Working, Counters
<1>3. ASSUME NEW t \in Reconcilers, ReconcileBatch(t) PROVE TurnInv'
  BY <1>3 DEF ReconcileBatch, At, Goto, TurnOf, TurnCounters, Working, Counters
<1>4. ASSUME NEW t \in Reconcilers, ReconcileRun(t) PROVE TurnInv'
  BY <1>4 DEF ReconcileRun, At, Goto, SetStatus, TurnOf, TurnCounters, Working, Counters
<1>5. ASSUME NEW t \in Reconcilers, NEW r \in Runs, ReconcileInterrupt(t, r) PROVE TurnInv'
  BY <1>5 DEF ReconcileInterrupt, SetStatus, TurnOf
<1>6. ASSUME NEW t \in Reconcilers, NEW r \in Runs, ReconcileSkip(t, r) PROVE TurnInv'
  BY <1>6 DEF ReconcileSkip, TurnOf
<1>7. ASSUME NEW t \in Reconcilers, NEW r \in Runs, ReconcileGitFails(t, r) PROVE TurnInv'
  BY <1>7 DEF ReconcileGitFails, TurnOf
<1>8. ASSUME NEW t \in Reconcilers, ReconcileFinishFails(t) PROVE TurnInv'
  BY <1>8 DEF ReconcileFinishFails, At, Goto, TurnOf, TurnCounters, Working, Counters
<1>9. ASSUME NEW t \in Reconcilers, EndPass(t) PROVE TurnInv'
  BY <1>9 DEF EndPass, At, Goto, TurnOf, TurnCounters, Working, Counters
<1>10. ASSUME NEW r \in Runs, ClaimPending(r) PROVE TurnInv'
  BY <1>10 DEF ClaimPending, At, Goto, Pending, TurnOf, TurnCounters, Working, Counters
<1>11. ASSUME NEW r \in Runs, NEW b \in Batches, ClaimBatch(r, b) PROVE TurnInv'
  BY <1>11 DEF ClaimBatch, At, Goto, SetStatus, Unused, TurnOf, TurnCounters, Working, Counters
<1>12. ASSUME ClaimNothing PROVE TurnInv'
  BY <1>12 DEF ClaimNothing, At, Goto, TurnOf, TurnCounters, Working, Counters
<1>13. ASSUME ClaimLeaseExpires PROVE TurnInv'
  BY <1>13 DEF ClaimLeaseExpires, TurnOf
<1>14. ASSUME Setup PROVE TurnInv'
  BY <1>14 DEF Setup, At, Goto, TurnOf, TurnCounters, Working, Counters
<1>15. ASSUME Launch PROVE TurnInv'
  BY <1>15 DEF Launch, At, Goto, SetStatus, TurnOf, TurnCounters, Working, Counters
<1>16. ASSUME NEW t \in Hooks, NEW r \in Runs, ClaimAwaiting(t, r) PROVE TurnInv'
  BY <1>16 DEF ClaimAwaiting, At, Goto, SetStatus, AwaitsAnswer, TurnOf, TurnCounters, Working,
     Counters
<1>17. ASSUME NEW t \in Web, AgentEdits(t) PROVE TurnInv'
  BY <1>17 DEF AgentEdits, TurnOf
<1>18. ASSUME NEW t \in Web, TurnAwaits(t) PROVE TurnInv'
  BY <1>18 DEF TurnAwaits, At, Goto, SetStatus, TurnOf, TurnCounters, Working, Counters
<1>19. ASSUME NEW t \in Web, MessagesSent(t) PROVE TurnInv'
  BY <1>19 DEF MessagesSent, At, Goto, Return, TurnOf, TurnCounters, Working, Counters
<1>20. ASSUME NEW t \in Web, TurnDone(t) PROVE TurnInv'
  BY <1>20 DEF TurnDone, At, Goto, TurnOf, TurnCounters, Working, Counters
<1>21. ASSUME NEW t \in Web, GitCommit(t) PROVE TurnInv'
  BY <1>21 DEF GitCommit, At, Goto, TurnOf, TurnCounters, Working, Counters
<1>22. ASSUME NEW t \in Web, RecordCommit(t) PROVE TurnInv'
  BY <1>22 DEF RecordCommit, At, Goto, TurnOf, TurnCounters, Working, Counters
<1>23. ASSUME NEW t \in Web, GitPush(t) PROVE TurnInv'
  BY <1>23 DEF GitPush, At, Goto, TurnOf, TurnCounters, Working, Counters
<1>24. ASSUME NEW t \in Web, RecordPush(t) PROVE TurnInv'
  BY <1>24 DEF RecordPush, At, Goto, TurnOf, TurnCounters, Working, Counters
<1>25. ASSUME NEW t \in Web, CompleteBatch(t) PROVE TurnInv'
  BY <1>25 DEF CompleteBatch, At, Goto, TurnOf, TurnCounters, Working, Counters
<1>26. ASSUME NEW t \in Web, CompleteRun(t) PROVE TurnInv'
  BY <1>26 DEF CompleteRun, At, Goto, Return, SetStatus, TurnOf, TurnCounters, Working, Counters
<1>27. ASSUME SetupFails PROVE TurnInv'
  BY <1>27 DEF SetupFails, At, Goto, Return, FailRun, SetStatus, TurnOf, TurnCounters, Working,
     Counters
<1>28. ASSUME NEW t \in Web, TurnFails(t) PROVE TurnInv'
  BY <1>28 DEF TurnFails, At, Goto, Return, FailRun, SetStatus, TurnOf, TurnCounters, Working,
     Counters
<1>29. ASSUME NEW t \in Web, SendFails(t) PROVE TurnInv'
  BY <1>29 DEF SendFails, At, Goto, Return, FailRun, SetStatus, TurnOf, TurnCounters, Working,
     Counters
<1>30. ASSUME NEW t \in Web, CompletionFails(t) PROVE TurnInv'
  BY <1>30 DEF CompletionFails, At, Goto, FailRun, SetStatus, TurnOf, TurnCounters, Working,
     Counters
<1>39. ASSUME NEW t \in Web, FinalJsonFails(t) PROVE TurnInv'
  BY <1>39 DEF FinalJsonFails, At, Goto, SetStatus, TurnOf, TurnCounters, Working, Counters
<1>31. ASSUME NEW t \in Web, FailAgain(t) PROVE TurnInv'
  BY <1>31 DEF FailAgain, At, Goto, Return, TurnOf, TurnCounters, Working, Counters
<1>32. ASSUME NEW process \in SUBSET Tasks, Crash(process) PROVE TurnInv'
  BY <1>32 DEF Crash, TurnOf, TurnCounters, Working, Counters
<1>33. ASSUME NEW r \in Runs, LeaseExpires(r) PROVE TurnInv'
  BY <1>33 DEF LeaseExpires, TurnOf
<1>34. ASSUME NEW r \in Runs, BackoffEnds(r) PROVE TurnInv'
  BY <1>34 DEF BackoffEnds, TurnOf
<1>35. ASSUME NEW t \in Clis, Retry(t) PROVE TurnInv'
  BY <1>35 DEF Retry, At, Goto, TurnOf, TurnCounters, Working, Counters
<1>36. ASSUME NEW r \in Runs, Abandon(r) PROVE TurnInv'
  BY <1>36 DEF Abandon, SetStatus, TurnOf
<1>37. ASSUME NEW r \in Runs, AbandonEnded(r) PROVE TurnInv'
  BY <1>37 DEF AbandonEnded, TurnOf
<1>38. ASSUME NEW c \in Outsiders, OutsideCommit(c) PROVE TurnInv'
  BY <1>38 DEF OutsideCommit, TurnOf
<1>90. ASSUME UNCHANGED vars PROVE TurnInv'
  BY <1>90 DEF vars, TurnOf
<1> QED
  BY <1>1, <1>2, <1>3, <1>4, <1>5, <1>6, <1>7, <1>8, <1>9, <1>10, <1>11, <1>12, <1>13, <1>14,
     <1>15, <1>16, <1>17, <1>18, <1>19, <1>20, <1>21, <1>22, <1>23, <1>24, <1>25, <1>26, <1>27,
     <1>28, <1>29, <1>30, <1>31, <1>32, <1>33, <1>34, <1>35, <1>36, <1>37, <1>38, <1>39, <1>90
     DEF Next, TurnStep, ReconcileStep, WorkerClaim, Time, Tasks, Web

\* What tasks remember of their pushes stays true.
LEMMA PushNext == Typing /\ PhaseInv /\ [Next]_vars => PushInv'
<1> SUFFICES ASSUME Typing, PhaseInv, [Next]_vars PROVE PushInv'
  OBVIOUS
<1>0. /\ remote.commits \subseteq remote'.commits
      /\ GitInv'
  BY GitNext DEF PhaseInv
<1> USE DurabilityAssumption, <1>0 DEF Typing, TypeOK, RunTypeOK, TaskTypeOK, HoldsRun, PhaseInv,
        GitInv, TipIsCommit, RunsAreLocal, ShaIsLocal, TurnInv, OneTurn, TurnStatus, TurnOf,
        PushInv, TurnHasPushed, NothingIsFinal, ReconcilerHasPushed, PushedNothing, cycleVars,
        batchVars, runVars, repoVars, taskVars, Tasks, Web, Reconcilers
<1>1. ASSUME NEW t \in Reconcilers, BeginPass(t) PROVE PushInv'
  BY <1>1 DEF BeginPass, At, Goto, TurnCounters, Working, Counters
<1>2. ASSUME NEW t \in Reconcilers, NEW r \in Runs, ReconcilePush(t, r) PROVE PushInv'
  BY <1>2 DEF ReconcilePush, At, Goto, Looking, Durable, TriesPush, Sha, NeedsGit,
     UnrecordedCommit, OnRemote, Push, TurnCounters, Working, Counters
<1>3. ASSUME NEW t \in Reconcilers, ReconcileBatch(t) PROVE PushInv'
  BY <1>3 DEF ReconcileBatch, At, Goto, SetPhase, OnRemote, TurnCounters, Working, Counters
<1>4. ASSUME NEW t \in Reconcilers, ReconcileRun(t) PROVE PushInv'
  BY <1>4 DEF ReconcileRun, At, Goto, SetStatus, SetPhase, TurnCounters, Working, Counters
<1>5. ASSUME NEW t \in Reconcilers, NEW r \in Runs, ReconcileInterrupt(t, r) PROVE PushInv'
  BY <1>5 DEF ReconcileInterrupt, SetStatus
<1>6. ASSUME NEW t \in Reconcilers, NEW r \in Runs, ReconcileSkip(t, r) PROVE PushInv'
  BY <1>6 DEF ReconcileSkip
<1>7. ASSUME NEW t \in Reconcilers, NEW r \in Runs, ReconcileGitFails(t, r) PROVE PushInv'
  BY <1>7 DEF ReconcileGitFails
<1>8. ASSUME NEW t \in Reconcilers, ReconcileFinishFails(t) PROVE PushInv'
  BY <1>8 DEF ReconcileFinishFails, At, Goto, TurnCounters, Working, Counters
<1>9. ASSUME NEW t \in Reconcilers, EndPass(t) PROVE PushInv'
  BY <1>9 DEF EndPass, At, Goto, TurnCounters, Working, Counters
<1>10. ASSUME NEW r \in Runs, ClaimPending(r) PROVE PushInv'
  BY <1>10 DEF ClaimPending, At, Goto, Pending, TurnCounters, Working, Counters
<1>11. ASSUME NEW r \in Runs, NEW b \in Batches, ClaimBatch(r, b) PROVE PushInv'
  BY <1>11 DEF ClaimBatch, At, Goto, SetStatus, Unused, TurnCounters, Working, Counters
<1>12. ASSUME ClaimNothing PROVE PushInv'
  BY <1>12 DEF ClaimNothing, At, Goto, TurnCounters, Working, Counters
<1>13. ASSUME ClaimLeaseExpires PROVE PushInv'
  BY <1>13 DEF ClaimLeaseExpires
<1>14. ASSUME Setup PROVE PushInv'
  BY <1>14 DEF Setup, At, Goto, SetPhase, TurnCounters, Working, Counters
<1>15. ASSUME Launch PROVE PushInv'
  BY <1>15 DEF Launch, At, Goto, SetStatus, TurnCounters, Working, Counters
<1>16. ASSUME NEW t \in Hooks, NEW r \in Runs, ClaimAwaiting(t, r) PROVE PushInv'
  BY <1>16 DEF ClaimAwaiting, At, Goto, SetStatus, AwaitsAnswer, TurnCounters, Working, Counters
<1>17. ASSUME NEW t \in Web, AgentEdits(t) PROVE PushInv'
  BY <1>17 DEF AgentEdits
<1>18. ASSUME NEW t \in Web, TurnAwaits(t) PROVE PushInv'
  BY <1>18 DEF TurnAwaits, At, Goto, SetStatus, TurnCounters, Working, Counters
<1>19. ASSUME NEW t \in Web, MessagesSent(t) PROVE PushInv'
  BY <1>19 DEF MessagesSent, At, Goto, Return, TurnCounters, Working, Counters
<1>20. ASSUME NEW t \in Web, TurnDone(t) PROVE PushInv'
  BY <1>20 DEF TurnDone, At, Goto, SetPhase, TurnCounters, Working, Counters
<1>21. ASSUME NEW t \in Web, GitCommit(t) PROVE PushInv'
  BY <1>21 DEF GitCommit, At, Goto, TurnCounters, Working, Counters
<1>22. ASSUME NEW t \in Web, RecordCommit(t) PROVE PushInv'
  BY <1>22 DEF RecordCommit, At, Goto, SetPhase, TurnCounters, Working, Counters
<1>23. ASSUME NEW t \in Web, GitPush(t) PROVE PushInv'
  BY <1>23 DEF GitPush, At, Goto, Push, TurnCounters, Working, Counters
<1>24. ASSUME NEW t \in Web, RecordPush(t) PROVE PushInv'
  BY <1>24 DEF RecordPush, At, Goto, SetPhase, TurnCounters, Working, Counters
<1>25. ASSUME NEW t \in Web, CompleteBatch(t) PROVE PushInv'
  BY <1>25 DEF CompleteBatch, At, Goto, TurnCounters, Working, Counters
<1>26. ASSUME NEW t \in Web, CompleteRun(t) PROVE PushInv'
  BY <1>26 DEF CompleteRun, At, Goto, Return, SetStatus, SetPhase, TurnCounters, Working,
     Counters
<1>27. ASSUME SetupFails PROVE PushInv'
  BY <1>27 DEF SetupFails, At, Goto, Return, FailRun, SetStatus, TurnCounters, Working, Counters
<1>28. ASSUME NEW t \in Web, TurnFails(t) PROVE PushInv'
  BY <1>28 DEF TurnFails, At, Goto, Return, FailRun, SetStatus, TurnCounters, Working, Counters
<1>29. ASSUME NEW t \in Web, SendFails(t) PROVE PushInv'
  BY <1>29 DEF SendFails, At, Goto, Return, FailRun, SetStatus, TurnCounters, Working, Counters
<1>30. ASSUME NEW t \in Web, CompletionFails(t) PROVE PushInv'
  BY <1>30 DEF CompletionFails, At, Goto, FailRun, SetStatus, TurnCounters, Working, Counters
<1>39. ASSUME NEW t \in Web, FinalJsonFails(t) PROVE PushInv'
  BY <1>39 DEF FinalJsonFails, At, Goto, SetStatus, TurnCounters, Working, Counters
<1>31. ASSUME NEW t \in Web, FailAgain(t) PROVE PushInv'
  BY <1>31 DEF FailAgain, At, Goto, Return, TurnCounters, Working, Counters
<1>32. ASSUME NEW process \in SUBSET Tasks, Crash(process) PROVE PushInv'
  BY <1>32 DEF Crash, TurnCounters, Working, Counters
<1>33. ASSUME NEW r \in Runs, LeaseExpires(r) PROVE PushInv'
  BY <1>33 DEF LeaseExpires
<1>34. ASSUME NEW r \in Runs, BackoffEnds(r) PROVE PushInv'
  BY <1>34 DEF BackoffEnds
<1>35. ASSUME NEW t \in Clis, Retry(t) PROVE PushInv'
  BY <1>35 DEF Retry, At, Goto, TurnCounters, Working, Counters
<1>36. ASSUME NEW r \in Runs, Abandon(r) PROVE PushInv'
  BY <1>36 DEF Abandon, SetStatus
<1>37. ASSUME NEW r \in Runs, AbandonEnded(r) PROVE PushInv'
  BY <1>37 DEF AbandonEnded
<1>38. ASSUME NEW c \in Outsiders, OutsideCommit(c) PROVE PushInv'
  BY <1>38 DEF OutsideCommit
<1>90. ASSUME UNCHANGED vars PROVE PushInv'
  BY <1>90 DEF vars, TurnOf
<1> QED
  BY <1>1, <1>2, <1>3, <1>4, <1>5, <1>6, <1>7, <1>8, <1>9, <1>10, <1>11, <1>12, <1>13, <1>14,
     <1>15, <1>16, <1>17, <1>18, <1>19, <1>20, <1>21, <1>22, <1>23, <1>24, <1>25, <1>26, <1>27,
     <1>28, <1>29, <1>30, <1>31, <1>32, <1>33, <1>34, <1>35, <1>36, <1>37, <1>38, <1>39, <1>90
     DEF Next, TurnStep, ReconcileStep, WorkerClaim, Time, Tasks, Web

-----------------------------------------------------------------------------
(* Theorems *)

\* The first state is typed.
LEMMA TypingInit == Init => Typing
<1> SUFFICES ASSUME Init PROVE Typing
  OBVIOUS
<1> USE DurabilityAssumption DEF Init, RepoInit
<1>1. RepoTypeOK
  BY DEF RepoTypeOK, Branch, Content
<1>2. 1 \in Batches
  BY DEF Batches
<1>3. CycleTypeOK
  BY <1>2 DEF CycleTypeOK, CycleStates, BatchStates
<1>4. RunTypeOK
  BY <1>2 DEF RunTypeOK, RunStates, Phases, Leases, Content
<1>5. TaskTypeOK /\ HoldsRun
  BY DEF TaskTypeOK, HoldsRun, Counters, Working
<1> QED BY <1>1, <1>3, <1>4, <1>5 DEF Typing, TypeOK

\* In the first state there is no commit and no turn.
LEMMA PhaseInit == Init => PhaseInv
<1> SUFFICES ASSUME Init PROVE PhaseInv
  OBVIOUS
<1> USE DEF Init, RepoInit
<1>1. GitInv
  BY RepoAssumption DEF GitInv, TipIsCommit, RunsAreLocal, ShaIsLocal
<1>2. TurnInv
  BY DEF TurnInv, OneTurn, TurnStatus, TurnOf, TurnCounters
<1>3. PushInv
  BY DEF PushInv, TurnHasPushed, NothingIsFinal, ReconcilerHasPushed, PushedNothing, TurnOf,
     TurnCounters
<1> QED BY <1>1, <1>2, <1>3 DEF PhaseInv

\* Every variable keeps its type, and a task at work holds its run, whatever
\* fails in the worker, the handlers, the recovery and the commands.
THEOREM TypeCorrect == Spec => []TypeOK
<1>1. Typing => TypeOK
  BY DEF Typing
<1> QED BY <1>1, TypingInit, TypingNext, PTL DEF Spec

\* The inductive invariant behind the theorems below.
LEMMA PhaseInvariant == Spec => [](Typing /\ PhaseInv)
<1>1. Init => Typing /\ PhaseInv
  BY TypingInit, PhaseInit
<1>2. Typing /\ PhaseInv /\ [Next]_vars => Typing' /\ PhaseInv'
  BY TypingNext, GitNext, TurnNext, PushNext DEF PhaseInv
<1> QED BY <1>1, <1>2, PTL DEF Spec

\* A recorded SHA names a commit of the checkout, and a run recorded as pushed
\* or completed is on the remote branch unless it committed nothing: through
\* every interleaving, failure and crash of commit_and_push, complete_done_run
\* and reconcile_startup.
THEOREM PhasesAreTrue == Spec => []PhaseIsTrue
<1>1. PhaseInv => PhaseIsTrue
  BY DEF PhaseInv, GitInv, ShaIsLocal, PushInv, NothingIsFinal, PushedNothing, PhaseIsTrue
<1> QED BY <1>1, PhaseInvariant, PTL

\* A run has at most one turn in progress, although stale senders, abandon-run
\* and reconciliations overwrite its status without looking.
THEOREM TurnsExcludeEachOther == Spec => []OneTurn
<1>1. PhaseInv => OneTurn
  BY DEF PhaseInv, TurnInv
<1> QED BY <1>1, PhaseInvariant, PTL

\* No step of the program loses a local or a published commit.
THEOREM CommitsStay == Spec => CommitsAreKept
<1> DEFINE Kept == /\ local.commits \subseteq local'.commits
                   /\ remote.commits \subseteq remote'.commits
<1>1. Typing /\ PhaseInv /\ [Next]_vars => [Kept]_vars
  BY GitNext DEF PhaseInv
<1>2. CommitsAreKept <=> [][Kept]_vars
  BY PTL DEF CommitsAreKept
<1> QED BY <1>1, <1>2, PhaseInvariant, PTL DEF Spec

-----------------------------------------------------------------------------
(* Runs that are active and batches that are done *)

\* What a run's recorded phase says of a turn before its commit, and of a
\* reconciliation between its push and its commits.
EarlyTurn ==
    \A t \in Tasks :
        /\ pc[t] = "setup" => gitPhase[on[t]] = "none"
        /\ pc[t] \in {"launch", "agent"} => gitPhase[on[t]] = "agent_editing"
        /\ pc[t] = "agent" => runLease[on[t]] = "live"
        /\ pc[t] \in {"recPushed", "recBatch"} => gitPhase[on[t]] \notin {"none", "agent_editing"}

\* A run that can be claimed has not announced a commit.
EarlyRun ==
    \A r \in Runs :
        /\ runStatus[r] = "none" => gitPhase[r] = "none"
        /\ runStatus[r] = "pending_agent" => gitPhase[r] \in {"none", "agent_editing"}
        /\ runStatus[r] = "awaiting_user" => gitPhase[r] = "agent_editing"

EarlyInv == EarlyTurn /\ EarlyRun

\* Every step keeps what the phase says of the early part of a turn.
LEMMA EarlyNext == Typing /\ TurnInv /\ EarlyInv /\ [Next]_vars => EarlyInv'
<1> SUFFICES ASSUME Typing, TurnInv, EarlyInv, [Next]_vars PROVE EarlyInv'
  OBVIOUS
<1> USE DurabilityAssumption DEF Typing, TypeOK, RunTypeOK, TaskTypeOK, HoldsRun, TurnInv, OneTurn,
        TurnStatus, TurnOf, EarlyInv, EarlyTurn, EarlyRun, cycleVars, batchVars, runVars, repoVars,
        taskVars, Tasks, Web, Reconcilers
<1>1. ASSUME NEW t \in Reconcilers, BeginPass(t) PROVE EarlyInv'
  BY <1>1 DEF BeginPass, At, Goto, TurnCounters, Working, Counters
<1>2. ASSUME NEW t \in Reconcilers, NEW r \in Runs, ReconcilePush(t, r) PROVE EarlyInv'
  BY <1>2 DEF ReconcilePush, At, Goto, Looking, Durable, TriesPush, NeedsGit,
     UnrecordedCommit, TurnCounters, Working, Counters
<1>3. ASSUME NEW t \in Reconcilers, ReconcileBatch(t) PROVE EarlyInv'
  BY <1>3 DEF ReconcileBatch, At, Goto, SetPhase, TurnCounters, Working, Counters
<1>4. ASSUME NEW t \in Reconcilers, ReconcileRun(t) PROVE EarlyInv'
  BY <1>4 DEF ReconcileRun, At, Goto, SetStatus, SetPhase, TurnCounters, Working, Counters
<1>5. ASSUME NEW t \in Reconcilers, NEW r \in Runs, ReconcileInterrupt(t, r) PROVE EarlyInv'
  BY <1>5 DEF ReconcileInterrupt, At, Looking, SetStatus, TurnCounters, Working, Counters
<1>6. ASSUME NEW t \in Reconcilers, NEW r \in Runs, ReconcileSkip(t, r) PROVE EarlyInv'
  BY <1>6 DEF ReconcileSkip, TurnCounters, Working, Counters
<1>7. ASSUME NEW t \in Reconcilers, NEW r \in Runs, ReconcileGitFails(t, r) PROVE EarlyInv'
  BY <1>7 DEF ReconcileGitFails, TurnCounters, Working, Counters
<1>8. ASSUME NEW t \in Reconcilers, ReconcileFinishFails(t) PROVE EarlyInv'
  BY <1>8 DEF ReconcileFinishFails, At, Goto, TurnCounters, Working, Counters
<1>9. ASSUME NEW t \in Reconcilers, EndPass(t) PROVE EarlyInv'
  BY <1>9 DEF EndPass, At, Goto, TurnCounters, Working, Counters
<1>10. ASSUME NEW r \in Runs, ClaimPending(r) PROVE EarlyInv'
  BY <1>10 DEF ClaimPending, At, Goto, Pending, BaselineComplete, TurnCounters, Working,
     Counters
<1>11. ASSUME NEW r \in Runs, NEW b \in Batches, ClaimBatch(r, b) PROVE EarlyInv'
  BY <1>11 DEF ClaimBatch, At, Goto, SetStatus, Unused, Active, Queued, TurnCounters,
     Working, Counters
<1>12. ASSUME ClaimNothing PROVE EarlyInv'
  BY <1>12 DEF ClaimNothing, At, Goto, TurnCounters, Working, Counters
<1>13. ASSUME ClaimLeaseExpires PROVE EarlyInv'
  BY <1>13 DEF ClaimLeaseExpires, TurnCounters, Working, Counters
<1>14. ASSUME Setup PROVE EarlyInv'
  BY <1>14 DEF Setup, At, Goto, SetPhase, TurnCounters, Working, Counters
<1>15. ASSUME Launch PROVE EarlyInv'
  BY <1>15 DEF Launch, At, Goto, SetStatus, TurnCounters, Working, Counters
<1>16. ASSUME NEW t \in Hooks, NEW r \in Runs, ClaimAwaiting(t, r) PROVE EarlyInv'
  BY <1>16 DEF ClaimAwaiting, At, Goto, SetStatus, AwaitsAnswer, TurnCounters, Working,
     Counters
<1>17. ASSUME NEW t \in Web, AgentEdits(t) PROVE EarlyInv'
  BY <1>17 DEF AgentEdits, TurnCounters, Working, Counters
<1>18. ASSUME NEW t \in Web, TurnAwaits(t) PROVE EarlyInv'
  BY <1>18 DEF TurnAwaits, At, Goto, SetStatus, TurnCounters, Working, Counters
<1>19. ASSUME NEW t \in Web, MessagesSent(t) PROVE EarlyInv'
  BY <1>19 DEF MessagesSent, At, Goto, Return, TurnCounters, Working, Counters
<1>20. ASSUME NEW t \in Web, TurnDone(t) PROVE EarlyInv'
  BY <1>20 DEF TurnDone, At, Goto, SetPhase, TurnCounters, Working, Counters
<1>21. ASSUME NEW t \in Web, GitCommit(t) PROVE EarlyInv'
  BY <1>21 DEF GitCommit, At, Goto, TurnCounters, Working, Counters
<1>22. ASSUME NEW t \in Web, RecordCommit(t) PROVE EarlyInv'
  BY <1>22 DEF RecordCommit, At, Goto, SetPhase, TurnCounters, Working, Counters
<1>23. ASSUME NEW t \in Web, GitPush(t) PROVE EarlyInv'
  BY <1>23 DEF GitPush, At, Goto, TurnCounters, Working, Counters
<1>24. ASSUME NEW t \in Web, RecordPush(t) PROVE EarlyInv'
  BY <1>24 DEF RecordPush, At, Goto, SetPhase, TurnCounters, Working, Counters
<1>25. ASSUME NEW t \in Web, CompleteBatch(t) PROVE EarlyInv'
  BY <1>25 DEF CompleteBatch, At, Goto, TurnCounters, Working, Counters
<1>26. ASSUME NEW t \in Web, CompleteRun(t) PROVE EarlyInv'
  BY <1>26 DEF CompleteRun, At, Goto, Return, SetStatus, SetPhase, TurnCounters, Working,
     Counters
<1>27. ASSUME SetupFails PROVE EarlyInv'
  BY <1>27 DEF SetupFails, At, Goto, Return, FailRun, SetStatus, TurnCounters, Working,
     Counters
<1>28. ASSUME NEW t \in Web, TurnFails(t) PROVE EarlyInv'
  BY <1>28 DEF TurnFails, At, Goto, Return, FailRun, SetStatus, TurnCounters, Working,
     Counters
<1>29. ASSUME NEW t \in Web, SendFails(t) PROVE EarlyInv'
  BY <1>29 DEF SendFails, At, Goto, Return, FailRun, SetStatus, TurnCounters, Working,
     Counters
<1>30. ASSUME NEW t \in Web, CompletionFails(t) PROVE EarlyInv'
  BY <1>30 DEF CompletionFails, At, Goto, FailRun, SetStatus, TurnCounters, Working,
     Counters
<1>31. ASSUME NEW t \in Web, FinalJsonFails(t) PROVE EarlyInv'
  BY <1>31 DEF FinalJsonFails, At, Goto, SetStatus, TurnCounters, Working, Counters
<1>32. ASSUME NEW t \in Web, FailAgain(t) PROVE EarlyInv'
  BY <1>32 DEF FailAgain, At, Goto, Return, TurnCounters, Working, Counters
<1>33. ASSUME NEW process \in SUBSET Tasks, Crash(process) PROVE EarlyInv'
  BY <1>33 DEF Crash, TurnCounters, Working, Counters
<1>34. ASSUME NEW r \in Runs, LeaseExpires(r) PROVE EarlyInv'
  BY <1>34 DEF LeaseExpires, InProgress, TurnCounters, Working, Counters
<1>35. ASSUME NEW r \in Runs, BackoffEnds(r) PROVE EarlyInv'
  BY <1>35 DEF BackoffEnds, TurnCounters, Working, Counters
<1>36. ASSUME NEW t \in Clis, Retry(t) PROVE EarlyInv'
  BY <1>36 DEF Retry, At, Goto, Retryable, TurnCounters, Working, Counters
<1>37. ASSUME NEW r \in Runs, Abandon(r) PROVE EarlyInv'
  BY <1>37 DEF Abandon, SetStatus, MayAbandon, InProgress, TurnCounters, Working, Counters
<1>38. ASSUME NEW r \in Runs, AbandonEnded(r) PROVE EarlyInv'
  BY <1>38 DEF AbandonEnded, TurnCounters, Working, Counters
<1>39. ASSUME NEW c \in Outsiders, OutsideCommit(c) PROVE EarlyInv'
  BY <1>39 DEF OutsideCommit, TurnCounters, Working, Counters
<1>40. ASSUME UNCHANGED vars PROVE EarlyInv'
  BY <1>40 DEF vars, TurnCounters, Working, Counters
<1> QED
  BY <1>1, <1>2, <1>3, <1>4, <1>5, <1>6, <1>7, <1>8, <1>9, <1>10, <1>11, <1>12, <1>13,
     <1>14, <1>15, <1>16, <1>17, <1>18, <1>19, <1>20, <1>21, <1>22, <1>23, <1>24, <1>25,
     <1>26, <1>27, <1>28, <1>29, <1>30, <1>31, <1>32, <1>33, <1>34, <1>35, <1>36, <1>37,
     <1>38, <1>39, <1>40 DEF Next, TurnStep, ReconcileStep, WorkerClaim, Time, Tasks, Web

\* No operator abandons a run whose turn is in progress, and a task whose sending
\* fails still owns its run.
NoUsurping == Faults \cap {"abandonLive", "staleSend"} = {}

\* A run is active as long as a turn of it is in its early part.
ActiveInv ==
    /\ OneActiveRun
    /\ \A t \in Tasks :
        /\ pc[t] \in {"setup", "launch"} => runStatus[on[t]] = "pending_agent"
        /\ pc[t] = "agent" => runStatus[on[t]] = "running_agent"

\* Every step keeps one run active.
LEMMA ActiveNext ==
    NoUsurping /\ Typing /\ TurnInv /\ EarlyInv /\ ActiveInv /\ [Next]_vars => ActiveInv'
<1> SUFFICES ASSUME NoUsurping, Typing, TurnInv, EarlyInv, ActiveInv, [Next]_vars
             PROVE  ActiveInv'
  OBVIOUS
<1> USE DurabilityAssumption DEF NoUsurping, Typing, TypeOK, RunTypeOK, TaskTypeOK, HoldsRun, TurnInv,
        OneTurn, TurnStatus, TurnOf, EarlyInv, EarlyTurn, EarlyRun, ActiveInv, OneActiveRun,
        NonTerminal, cycleVars, batchVars, runVars, repoVars, taskVars, Tasks, Web, Reconcilers
<1>1. ASSUME NEW t \in Reconcilers, BeginPass(t) PROVE ActiveInv'
  BY <1>1 DEF BeginPass, At, Goto, TurnCounters, Working, Counters
<1>2. ASSUME NEW t \in Reconcilers, NEW r \in Runs, ReconcilePush(t, r) PROVE ActiveInv'
  BY <1>2 DEF ReconcilePush, At, Goto, Looking, Durable, TriesPush, NeedsGit,
     UnrecordedCommit, TurnCounters, Working, Counters
<1>3. ASSUME NEW t \in Reconcilers, ReconcileBatch(t) PROVE ActiveInv'
  BY <1>3 DEF ReconcileBatch, At, Goto, SetPhase, TurnCounters, Working, Counters
<1>4. ASSUME NEW t \in Reconcilers, ReconcileRun(t) PROVE ActiveInv'
  BY <1>4 DEF ReconcileRun, At, Goto, SetStatus, SetPhase, TurnCounters, Working, Counters
<1>5. ASSUME NEW t \in Reconcilers, NEW r \in Runs, ReconcileInterrupt(t, r) PROVE ActiveInv'
  BY <1>5 DEF ReconcileInterrupt, At, Looking, SetStatus, TurnCounters, Working, Counters
<1>6. ASSUME NEW t \in Reconcilers, NEW r \in Runs, ReconcileSkip(t, r) PROVE ActiveInv'
  BY <1>6 DEF ReconcileSkip, TurnCounters, Working, Counters
<1>7. ASSUME NEW t \in Reconcilers, NEW r \in Runs, ReconcileGitFails(t, r) PROVE ActiveInv'
  BY <1>7 DEF ReconcileGitFails, TurnCounters, Working, Counters
<1>8. ASSUME NEW t \in Reconcilers, ReconcileFinishFails(t) PROVE ActiveInv'
  BY <1>8 DEF ReconcileFinishFails, At, Goto, TurnCounters, Working, Counters
<1>9. ASSUME NEW t \in Reconcilers, EndPass(t) PROVE ActiveInv'
  BY <1>9 DEF EndPass, At, Goto, TurnCounters, Working, Counters
<1>10. ASSUME NEW r \in Runs, ClaimPending(r) PROVE ActiveInv'
  BY <1>10 DEF ClaimPending, At, Goto, Pending, BaselineComplete, TurnCounters, Working,
     Counters
<1>11. ASSUME NEW r \in Runs, NEW b \in Batches, ClaimBatch(r, b) PROVE ActiveInv'
  BY <1>11 DEF ClaimBatch, At, Goto, SetStatus, Unused, Active, Queued, TurnCounters,
     Working, Counters
<1>12. ASSUME ClaimNothing PROVE ActiveInv'
  BY <1>12 DEF ClaimNothing, At, Goto, TurnCounters, Working, Counters
<1>13. ASSUME ClaimLeaseExpires PROVE ActiveInv'
  BY <1>13 DEF ClaimLeaseExpires, TurnCounters, Working, Counters
<1>14. ASSUME Setup PROVE ActiveInv'
  BY <1>14 DEF Setup, At, Goto, SetPhase, TurnCounters, Working, Counters
<1>15. ASSUME Launch PROVE ActiveInv'
  BY <1>15 DEF Launch, At, Goto, SetStatus, TurnCounters, Working, Counters
<1>16. ASSUME NEW t \in Hooks, NEW r \in Runs, ClaimAwaiting(t, r) PROVE ActiveInv'
  BY <1>16 DEF ClaimAwaiting, At, Goto, SetStatus, AwaitsAnswer, TurnCounters, Working,
     Counters
<1>17. ASSUME NEW t \in Web, AgentEdits(t) PROVE ActiveInv'
  BY <1>17 DEF AgentEdits, TurnCounters, Working, Counters
<1>18. ASSUME NEW t \in Web, TurnAwaits(t) PROVE ActiveInv'
  BY <1>18 DEF TurnAwaits, At, Goto, SetStatus, TurnCounters, Working, Counters
<1>19. ASSUME NEW t \in Web, MessagesSent(t) PROVE ActiveInv'
  BY <1>19 DEF MessagesSent, At, Goto, Return, TurnCounters, Working, Counters
<1>20. ASSUME NEW t \in Web, TurnDone(t) PROVE ActiveInv'
  BY <1>20 DEF TurnDone, At, Goto, SetPhase, TurnCounters, Working, Counters
<1>21. ASSUME NEW t \in Web, GitCommit(t) PROVE ActiveInv'
  BY <1>21 DEF GitCommit, At, Goto, TurnCounters, Working, Counters
<1>22. ASSUME NEW t \in Web, RecordCommit(t) PROVE ActiveInv'
  BY <1>22 DEF RecordCommit, At, Goto, SetPhase, TurnCounters, Working, Counters
<1>23. ASSUME NEW t \in Web, GitPush(t) PROVE ActiveInv'
  BY <1>23 DEF GitPush, At, Goto, TurnCounters, Working, Counters
<1>24. ASSUME NEW t \in Web, RecordPush(t) PROVE ActiveInv'
  BY <1>24 DEF RecordPush, At, Goto, SetPhase, TurnCounters, Working, Counters
<1>25. ASSUME NEW t \in Web, CompleteBatch(t) PROVE ActiveInv'
  BY <1>25 DEF CompleteBatch, At, Goto, TurnCounters, Working, Counters
<1>26. ASSUME NEW t \in Web, CompleteRun(t) PROVE ActiveInv'
  BY <1>26 DEF CompleteRun, At, Goto, Return, SetStatus, SetPhase, TurnCounters, Working,
     Counters
<1>27. ASSUME SetupFails PROVE ActiveInv'
  BY <1>27 DEF SetupFails, At, Goto, Return, FailRun, SetStatus, TurnCounters, Working,
     Counters
<1>28. ASSUME NEW t \in Web, TurnFails(t) PROVE ActiveInv'
  BY <1>28 DEF TurnFails, At, Goto, Return, FailRun, SetStatus, TurnCounters, Working,
     Counters
<1>29. ASSUME NEW t \in Web, SendFails(t) PROVE ActiveInv'
  BY <1>29 DEF SendFails, At, Goto, Return, FailRun, SetStatus, TurnCounters, Working,
     Counters
<1>30. ASSUME NEW t \in Web, CompletionFails(t) PROVE ActiveInv'
  BY <1>30 DEF CompletionFails, At, Goto, FailRun, SetStatus, TurnCounters, Working,
     Counters
<1>31. ASSUME NEW t \in Web, FinalJsonFails(t) PROVE ActiveInv'
  BY <1>31 DEF FinalJsonFails, At, Goto, SetStatus, TurnCounters, Working, Counters
<1>32. ASSUME NEW t \in Web, FailAgain(t) PROVE ActiveInv'
  BY <1>32 DEF FailAgain, At, Goto, Return, TurnCounters, Working, Counters
<1>33. ASSUME NEW process \in SUBSET Tasks, Crash(process) PROVE ActiveInv'
  BY <1>33 DEF Crash, TurnCounters, Working, Counters
<1>34. ASSUME NEW r \in Runs, LeaseExpires(r) PROVE ActiveInv'
  BY <1>34 DEF LeaseExpires, InProgress, TurnCounters, Working, Counters
<1>35. ASSUME NEW r \in Runs, BackoffEnds(r) PROVE ActiveInv'
  BY <1>35 DEF BackoffEnds, TurnCounters, Working, Counters
<1>36. ASSUME NEW t \in Clis, Retry(t) PROVE ActiveInv'
  BY <1>36 DEF Retry, At, Goto, Retryable, TurnCounters, Working, Counters
<1>37. ASSUME NEW r \in Runs, Abandon(r) PROVE ActiveInv'
  BY <1>37 DEF Abandon, SetStatus, MayAbandon, InProgress, TurnCounters, Working, Counters
<1>38. ASSUME NEW r \in Runs, AbandonEnded(r) PROVE ActiveInv'
  BY <1>38 DEF AbandonEnded, TurnCounters, Working, Counters
<1>39. ASSUME NEW c \in Outsiders, OutsideCommit(c) PROVE ActiveInv'
  BY <1>39 DEF OutsideCommit, TurnCounters, Working, Counters
<1>40. ASSUME UNCHANGED vars PROVE ActiveInv'
  BY <1>40 DEF vars, TurnCounters, Working, Counters
<1> HIDE DEF NoUsurping, Typing, TypeOK, RunTypeOK, TaskTypeOK, HoldsRun, TurnInv, OneTurn,
         TurnStatus, TurnOf, EarlyInv, EarlyTurn, EarlyRun, ActiveInv, OneActiveRun, NonTerminal
<1> QED
  BY <1>1, <1>2, <1>3, <1>4, <1>5, <1>6, <1>7, <1>8, <1>9, <1>10, <1>11, <1>12, <1>13,
     <1>14, <1>15, <1>16, <1>17, <1>18, <1>19, <1>20, <1>21, <1>22, <1>23, <1>24, <1>25,
     <1>26, <1>27, <1>28, <1>29, <1>30, <1>31, <1>32, <1>33, <1>34, <1>35, <1>36, <1>37,
     <1>38, <1>39, <1>40 DEF Next, TurnStep, ReconcileStep, WorkerClaim, Time, Tasks, Web

\* No command runs while the web process is between two awaits.
NoOverlap == "overlap" \notin Faults

\* At most one task is between two awaits.
OneBusy == \A t, u \in Tasks : pc[t] \notin Awaits /\ pc[u] \notin Awaits => t = u

Final == {"pushed", "completed"}

\* A run recorded as pushed has started, and only the end of its turn is left.
FinalTurn ==
    \A r \in Runs :
        gitPhase[r] \in Final =>
            /\ runStatus[r] # "none"
            /\ \A t \in Tasks : TurnOf(t, r) => pc[t] \in {"pushed", "batchDone"}

\* ... and that end only begins once this is recorded.
PushedIsFinal == \A t \in Tasks : pc[t] \in {"pushed", "batchDone"} => gitPhase[on[t]] \in Final

\* A completed batch names a run of its own that is recorded as pushed.
DoneByRun ==
    \A b \in Batches :
        batchStatus[b] = "completed" =>
            /\ successfulRun[b] \in Runs
            /\ runBatch[successfulRun[b]] = b
            /\ gitPhase[successfulRun[b]] \in Final

DoneInv == OneBusy /\ FinalTurn /\ PushedIsFinal /\ DoneByRun

\* A task takes a step between two awaits alone.
LEMMA BusyNext == NoOverlap /\ Typing /\ OneBusy /\ [Next]_vars => OneBusy'
<1> SUFFICES ASSUME NoOverlap, Typing, OneBusy, [Next]_vars PROVE OneBusy'
  OBVIOUS
<1> USE DurabilityAssumption DEF NoOverlap, Typing, TypeOK, TaskTypeOK, OneBusy, Undisturbed, Awaits,
        cycleVars, batchVars, runVars, repoVars, taskVars, Tasks, Web, Reconcilers
<1>1. ASSUME NEW t \in Reconcilers, BeginPass(t) PROVE OneBusy'
  BY <1>1 DEF BeginPass, At, Goto, Working, Counters
<1>2. ASSUME NEW t \in Reconcilers, NEW r \in Runs, ReconcilePush(t, r) PROVE OneBusy'
  BY <1>2 DEF ReconcilePush, At, Goto, Looking, Durable, TriesPush, NeedsGit,
     UnrecordedCommit, Working, Counters
<1>3. ASSUME NEW t \in Reconcilers, ReconcileBatch(t) PROVE OneBusy'
  BY <1>3 DEF ReconcileBatch, At, Goto, SetPhase, Working, Counters
<1>4. ASSUME NEW t \in Reconcilers, ReconcileRun(t) PROVE OneBusy'
  BY <1>4 DEF ReconcileRun, At, Goto, SetStatus, SetPhase, Working, Counters
<1>5. ASSUME NEW t \in Reconcilers, NEW r \in Runs, ReconcileInterrupt(t, r) PROVE OneBusy'
  BY <1>5 DEF ReconcileInterrupt, At, Looking, SetStatus, Looking, Working, Counters
<1>6. ASSUME NEW t \in Reconcilers, NEW r \in Runs, ReconcileSkip(t, r) PROVE OneBusy'
  BY <1>6 DEF ReconcileSkip, Working, Counters
<1>7. ASSUME NEW t \in Reconcilers, NEW r \in Runs, ReconcileGitFails(t, r) PROVE OneBusy'
  BY <1>7 DEF ReconcileGitFails, Working, Counters
<1>8. ASSUME NEW t \in Reconcilers, ReconcileFinishFails(t) PROVE OneBusy'
  BY <1>8 DEF ReconcileFinishFails, At, Goto, Working, Counters
<1>9. ASSUME NEW t \in Reconcilers, EndPass(t) PROVE OneBusy'
  BY <1>9 DEF EndPass, At, Goto, Working, Counters
<1>10. ASSUME NEW r \in Runs, ClaimPending(r) PROVE OneBusy'
  BY <1>10 DEF ClaimPending, At, Goto, Pending, BaselineComplete, Working, Counters
<1>11. ASSUME NEW r \in Runs, NEW b \in Batches, ClaimBatch(r, b) PROVE OneBusy'
  BY <1>11 DEF ClaimBatch, At, Goto, SetStatus, Unused, Active, Queued, Working, Counters
<1>12. ASSUME ClaimNothing PROVE OneBusy'
  BY <1>12 DEF ClaimNothing, At, Goto, Working, Counters
<1>13. ASSUME ClaimLeaseExpires PROVE OneBusy'
  BY <1>13 DEF ClaimLeaseExpires, Working, Counters
<1>14. ASSUME Setup PROVE OneBusy'
  BY <1>14 DEF Setup, At, Goto, SetPhase, Working, Counters
<1>15. ASSUME Launch PROVE OneBusy'
  BY <1>15 DEF Launch, At, Goto, SetStatus, Working, Counters
<1>16. ASSUME NEW t \in Hooks, NEW r \in Runs, ClaimAwaiting(t, r) PROVE OneBusy'
  BY <1>16 DEF ClaimAwaiting, At, Goto, SetStatus, AwaitsAnswer, Working, Counters
<1>17. ASSUME NEW t \in Web, AgentEdits(t) PROVE OneBusy'
  BY <1>17 DEF AgentEdits, Working, Counters
<1>18. ASSUME NEW t \in Web, TurnAwaits(t) PROVE OneBusy'
  BY <1>18 DEF TurnAwaits, At, Goto, SetStatus, Working, Counters
<1>19. ASSUME NEW t \in Web, MessagesSent(t) PROVE OneBusy'
  BY <1>19 DEF MessagesSent, At, Goto, Return, Working, Counters
<1>20. ASSUME NEW t \in Web, TurnDone(t) PROVE OneBusy'
  BY <1>20 DEF TurnDone, At, Goto, SetPhase, Working, Counters
<1>21. ASSUME NEW t \in Web, GitCommit(t) PROVE OneBusy'
  BY <1>21 DEF GitCommit, At, Goto, Working, Counters
<1>22. ASSUME NEW t \in Web, RecordCommit(t) PROVE OneBusy'
  BY <1>22 DEF RecordCommit, At, Goto, SetPhase, Working, Counters
<1>23. ASSUME NEW t \in Web, GitPush(t) PROVE OneBusy'
  BY <1>23 DEF GitPush, At, Goto, Working, Counters
<1>24. ASSUME NEW t \in Web, RecordPush(t) PROVE OneBusy'
  BY <1>24 DEF RecordPush, At, Goto, SetPhase, Working, Counters
<1>25. ASSUME NEW t \in Web, CompleteBatch(t) PROVE OneBusy'
  BY <1>25 DEF CompleteBatch, At, Goto, Working, Counters
<1>26. ASSUME NEW t \in Web, CompleteRun(t) PROVE OneBusy'
  BY <1>26 DEF CompleteRun, At, Goto, Return, SetStatus, SetPhase, Working, Counters
<1>27. ASSUME SetupFails PROVE OneBusy'
  BY <1>27 DEF SetupFails, At, Goto, Return, FailRun, SetStatus, Working, Counters
<1>28. ASSUME NEW t \in Web, TurnFails(t) PROVE OneBusy'
  BY <1>28 DEF TurnFails, At, Goto, Return, FailRun, SetStatus, Working, Counters
<1>29. ASSUME NEW t \in Web, SendFails(t) PROVE OneBusy'
  BY <1>29 DEF SendFails, At, Goto, Return, FailRun, SetStatus, Working, Counters
<1>30. ASSUME NEW t \in Web, CompletionFails(t) PROVE OneBusy'
  BY <1>30 DEF CompletionFails, At, Goto, FailRun, SetStatus, Working, Counters
<1>31. ASSUME NEW t \in Web, FinalJsonFails(t) PROVE OneBusy'
  BY <1>31 DEF FinalJsonFails, At, Goto, SetStatus, Working, Counters
<1>32. ASSUME NEW t \in Web, FailAgain(t) PROVE OneBusy'
  BY <1>32 DEF FailAgain, At, Goto, Return, Working, Counters
<1>33. ASSUME NEW process \in SUBSET Tasks, Crash(process) PROVE OneBusy'
  BY <1>33 DEF Crash, Working, Counters
<1>34. ASSUME NEW r \in Runs, LeaseExpires(r) PROVE OneBusy'
  BY <1>34 DEF LeaseExpires, InProgress, Working, Counters
<1>35. ASSUME NEW r \in Runs, BackoffEnds(r) PROVE OneBusy'
  BY <1>35 DEF BackoffEnds, Working, Counters
<1>36. ASSUME NEW t \in Clis, Retry(t) PROVE OneBusy'
  BY <1>36 DEF Retry, At, Goto, Retryable, Working, Counters
<1>37. ASSUME NEW r \in Runs, Abandon(r) PROVE OneBusy'
  BY <1>37 DEF Abandon, SetStatus, MayAbandon, InProgress, Working, Counters
<1>38. ASSUME NEW r \in Runs, AbandonEnded(r) PROVE OneBusy'
  BY <1>38 DEF AbandonEnded, Working, Counters
<1>39. ASSUME NEW c \in Outsiders, OutsideCommit(c) PROVE OneBusy'
  BY <1>39 DEF OutsideCommit, Working, Counters
<1>40. ASSUME UNCHANGED vars PROVE OneBusy'
  BY <1>40 DEF vars, Working, Counters
<1> HIDE DEF NoOverlap, Typing, TypeOK, TaskTypeOK, OneBusy, Undisturbed, Awaits
<1> QED
  BY <1>1, <1>2, <1>3, <1>4, <1>5, <1>6, <1>7, <1>8, <1>9, <1>10, <1>11, <1>12, <1>13,
     <1>14, <1>15, <1>16, <1>17, <1>18, <1>19, <1>20, <1>21, <1>22, <1>23, <1>24, <1>25,
     <1>26, <1>27, <1>28, <1>29, <1>30, <1>31, <1>32, <1>33, <1>34, <1>35, <1>36, <1>37,
     <1>38, <1>39, <1>40 DEF Next, TurnStep, ReconcileStep, WorkerClaim, Time, Tasks, Web

\* What ends a turn, and what a reconciliation completes, is recorded as pushed.
LEMMA FinalNext ==
    ASSUME NoOverlap, Typing, TurnInv, EarlyInv, OneBusy, FinalTurn, PushedIsFinal, [Next]_vars
    PROVE  FinalTurn' /\ PushedIsFinal'
<1> DEFINE FinalInv == FinalTurn /\ PushedIsFinal
<1> SUFFICES FinalInv'
  OBVIOUS
<1> USE DurabilityAssumption DEF Typing, TypeOK, RunTypeOK, TaskTypeOK, HoldsRun, TurnInv, OneTurn,
        TurnStatus, TurnOf, EarlyInv, EarlyTurn, EarlyRun, OneBusy, Awaits, FinalTurn, PushedIsFinal,
        Final, cycleVars, batchVars, runVars, repoVars, taskVars, Tasks, Web, Reconcilers
<1>1. ASSUME NEW t \in Reconcilers, BeginPass(t) PROVE FinalInv'
  BY <1>1 DEF BeginPass, At, Goto, TurnCounters, Working, Counters
<1>2. ASSUME NEW t \in Reconcilers, NEW r \in Runs, ReconcilePush(t, r) PROVE FinalInv'
  BY <1>2 DEF ReconcilePush, At, Goto, Looking, Durable, TriesPush, NeedsGit,
     UnrecordedCommit, TurnCounters, Working, Counters
<1>3. ASSUME NEW t \in Reconcilers, ReconcileBatch(t) PROVE FinalInv'
  BY <1>3 DEF ReconcileBatch, At, Goto, SetPhase, TurnCounters, Working, Counters
<1>4. ASSUME NEW t \in Reconcilers, ReconcileRun(t) PROVE FinalInv'
  BY <1>4 DEF ReconcileRun, At, Goto, SetStatus, SetPhase, TurnCounters, Working, Counters
<1>5. ASSUME NEW t \in Reconcilers, NEW r \in Runs, ReconcileInterrupt(t, r) PROVE FinalInv'
  BY <1>5 DEF ReconcileInterrupt, At, Looking, SetStatus, TurnCounters, Working, Counters
<1>6. ASSUME NEW t \in Reconcilers, NEW r \in Runs, ReconcileSkip(t, r) PROVE FinalInv'
  BY <1>6 DEF ReconcileSkip, TurnCounters, Working, Counters
<1>7. ASSUME NEW t \in Reconcilers, NEW r \in Runs, ReconcileGitFails(t, r) PROVE FinalInv'
  BY <1>7 DEF ReconcileGitFails, TurnCounters, Working, Counters
<1>8. ASSUME NEW t \in Reconcilers, ReconcileFinishFails(t) PROVE FinalInv'
  BY <1>8 DEF ReconcileFinishFails, At, Goto, TurnCounters, Working, Counters
<1>9. ASSUME NEW t \in Reconcilers, EndPass(t) PROVE FinalInv'
  BY <1>9 DEF EndPass, At, Goto, TurnCounters, Working, Counters
<1>10. ASSUME NEW r \in Runs, ClaimPending(r) PROVE FinalInv'
  BY <1>10 DEF ClaimPending, At, Goto, Pending, BaselineComplete, TurnCounters, Working,
     Counters
<1>11. ASSUME NEW r \in Runs, NEW b \in Batches, ClaimBatch(r, b) PROVE FinalInv'
  BY <1>11 DEF ClaimBatch, At, Goto, SetStatus, Unused, Active, Queued, TurnCounters,
     Working, Counters
<1>12. ASSUME ClaimNothing PROVE FinalInv'
  BY <1>12 DEF ClaimNothing, At, Goto, TurnCounters, Working, Counters
<1>13. ASSUME ClaimLeaseExpires PROVE FinalInv'
  BY <1>13 DEF ClaimLeaseExpires, TurnCounters, Working, Counters
<1>14. ASSUME Setup PROVE FinalInv'
  BY <1>14 DEF Setup, At, Goto, SetPhase, TurnCounters, Working, Counters
<1>15. ASSUME Launch PROVE FinalInv'
  BY <1>15 DEF Launch, At, Goto, SetStatus, TurnCounters, Working, Counters
<1>16. ASSUME NEW t \in Hooks, NEW r \in Runs, ClaimAwaiting(t, r) PROVE FinalInv'
  BY <1>16 DEF ClaimAwaiting, At, Goto, SetStatus, AwaitsAnswer, TurnCounters, Working,
     Counters
<1>17. ASSUME NEW t \in Web, AgentEdits(t) PROVE FinalInv'
  BY <1>17 DEF AgentEdits, TurnCounters, Working, Counters
<1>18. ASSUME NEW t \in Web, TurnAwaits(t) PROVE FinalInv'
  BY <1>18 DEF TurnAwaits, At, Goto, SetStatus, TurnCounters, Working, Counters
<1>19. ASSUME NEW t \in Web, MessagesSent(t) PROVE FinalInv'
  BY <1>19 DEF MessagesSent, At, Goto, Return, TurnCounters, Working, Counters
<1>20. ASSUME NEW t \in Web, TurnDone(t) PROVE FinalInv'
  BY <1>20 DEF TurnDone, At, Goto, SetPhase, TurnCounters, Working, Counters
<1>21. ASSUME NEW t \in Web, GitCommit(t) PROVE FinalInv'
  BY <1>21 DEF GitCommit, At, Goto, TurnCounters, Working, Counters
<1>22. ASSUME NEW t \in Web, RecordCommit(t) PROVE FinalInv'
  BY <1>22 DEF RecordCommit, At, Goto, SetPhase, TurnCounters, Working, Counters
<1>23. ASSUME NEW t \in Web, GitPush(t) PROVE FinalInv'
  BY <1>23 DEF GitPush, At, Goto, TurnCounters, Working, Counters
<1>24. ASSUME NEW t \in Web, RecordPush(t) PROVE FinalInv'
  BY <1>24 DEF RecordPush, At, Goto, SetPhase, TurnCounters, Working, Counters
<1>25. ASSUME NEW t \in Web, CompleteBatch(t) PROVE FinalInv'
  BY <1>25 DEF CompleteBatch, At, Goto, TurnCounters, Working, Counters
<1>26. ASSUME NEW t \in Web, CompleteRun(t) PROVE FinalInv'
  BY <1>26 DEF CompleteRun, At, Goto, Return, SetStatus, SetPhase, TurnCounters, Working,
     Counters
<1>27. ASSUME SetupFails PROVE FinalInv'
  BY <1>27 DEF SetupFails, At, Goto, Return, FailRun, SetStatus, TurnCounters, Working,
     Counters
<1>28. ASSUME NEW t \in Web, TurnFails(t) PROVE FinalInv'
  BY <1>28 DEF TurnFails, At, Goto, Return, FailRun, SetStatus, TurnCounters, Working,
     Counters
<1>29. ASSUME NEW t \in Web, SendFails(t) PROVE FinalInv'
  BY <1>29 DEF SendFails, At, Goto, Return, FailRun, SetStatus, TurnCounters, Working,
     Counters
<1>30. ASSUME NEW t \in Web, CompletionFails(t) PROVE FinalInv'
  BY <1>30 DEF CompletionFails, At, Goto, FailRun, SetStatus, TurnCounters, Working,
     Counters
<1>31. ASSUME NEW t \in Web, FinalJsonFails(t) PROVE FinalInv'
  BY <1>31 DEF FinalJsonFails, At, Goto, SetStatus, TurnCounters, Working, Counters
<1>32. ASSUME NEW t \in Web, FailAgain(t) PROVE FinalInv'
  BY <1>32 DEF FailAgain, At, Goto, Return, TurnCounters, Working, Counters
<1>33. ASSUME NEW process \in SUBSET Tasks, Crash(process) PROVE FinalInv'
  BY <1>33 DEF Crash, TurnCounters, Working, Counters
<1>34. ASSUME NEW r \in Runs, LeaseExpires(r) PROVE FinalInv'
  BY <1>34 DEF LeaseExpires, InProgress, TurnCounters, Working, Counters
<1>35. ASSUME NEW r \in Runs, BackoffEnds(r) PROVE FinalInv'
  BY <1>35 DEF BackoffEnds, TurnCounters, Working, Counters
<1>36. ASSUME NEW t \in Clis, Retry(t) PROVE FinalInv'
  BY <1>36 DEF Retry, At, Goto, Retryable, TurnCounters, Working, Counters
<1>37. ASSUME NEW r \in Runs, Abandon(r) PROVE FinalInv'
  BY <1>37 DEF Abandon, SetStatus, MayAbandon, InProgress, TurnCounters, Working, Counters
<1>38. ASSUME NEW r \in Runs, AbandonEnded(r) PROVE FinalInv'
  BY <1>38 DEF AbandonEnded, TurnCounters, Working, Counters
<1>39. ASSUME NEW c \in Outsiders, OutsideCommit(c) PROVE FinalInv'
  BY <1>39 DEF OutsideCommit, TurnCounters, Working, Counters
<1>40. ASSUME UNCHANGED vars PROVE FinalInv'
  BY <1>40 DEF vars, TurnCounters, Working, Counters
<1> HIDE DEF Typing, TypeOK, RunTypeOK, TaskTypeOK, HoldsRun, TurnInv, OneTurn, TurnStatus, TurnOf,
         EarlyInv, EarlyTurn, EarlyRun, OneBusy, Awaits, FinalTurn, PushedIsFinal, Final, FinalInv
<1> QED
  BY <1>1, <1>2, <1>3, <1>4, <1>5, <1>6, <1>7, <1>8, <1>9, <1>10, <1>11, <1>12, <1>13,
     <1>14, <1>15, <1>16, <1>17, <1>18, <1>19, <1>20, <1>21, <1>22, <1>23, <1>24, <1>25,
     <1>26, <1>27, <1>28, <1>29, <1>30, <1>31, <1>32, <1>33, <1>34, <1>35, <1>36, <1>37,
     <1>38, <1>39, <1>40 DEF Next, TurnStep, ReconcileStep, WorkerClaim, Time, Tasks, Web

\* _complete_cycle_batch names the run it is called for.
LEMMA CompletedByRun ==
    ASSUME Typing, DoneByRun, NEW r \in Runs, NEW held, CompleteCycleBatch(r, held),
           runBatch' = runBatch, gitPhase'[r] \in Final,
           \A q \in Runs : gitPhase[q] \in Final => gitPhase'[q] \in Final
    PROVE  DoneByRun'
<1>1. runBatch[r] \in Batches
  BY DEF Typing, TypeOK, RunTypeOK
<1>2. successfulRun' = [successfulRun EXCEPT ![runBatch[r]] = r]
      /\ successfulRun \in [Batches -> Runs \cup {NoRun}]
  BY DEF CompleteCycleBatch, Typing, TypeOK, CycleTypeOK
<1>3. \A b \in Batches : batchStatus'[b] = "completed" => b = runBatch[r] \/ batchStatus[b] = "completed"
  BY <1>1 DEF CompleteCycleBatch, Typing, TypeOK, CycleTypeOK
<1> SUFFICES ASSUME NEW b \in Batches, batchStatus'[b] = "completed"
             PROVE  /\ successfulRun'[b] \in Runs
                    /\ runBatch[successfulRun'[b]] = b
                    /\ gitPhase'[successfulRun'[b]] \in Final
  BY DEF DoneByRun
<1>4. CASE b = runBatch[r]
  BY <1>1, <1>2, <1>4
<1>5. CASE b # runBatch[r]
  BY <1>1, <1>2, <1>3, <1>5 DEF DoneByRun
<1> QED BY <1>4, <1>5

\* Every step keeps completed batches the work of a pushed run.
LEMMA DoneNext ==
    ASSUME Typing, EarlyInv, FinalTurn, FinalTurn', PushedIsFinal, DoneByRun, [Next]_vars
    PROVE  DoneByRun'
<1> USE DurabilityAssumption DEF Typing, TypeOK, RunTypeOK, TaskTypeOK, CycleTypeOK, HoldsRun, EarlyInv,
        EarlyTurn, EarlyRun, FinalTurn, TurnOf, PushedIsFinal, Final, DoneByRun, cycleVars, batchVars,
        runVars, repoVars, taskVars, Tasks, Web, Reconcilers
<1>1. ASSUME NEW t \in Reconcilers, BeginPass(t) PROVE DoneByRun'
  BY <1>1 DEF BeginPass, At, Goto, TurnCounters, Working, Counters
<1>2. ASSUME NEW t \in Reconcilers, NEW r \in Runs, ReconcilePush(t, r) PROVE DoneByRun'
  BY <1>2 DEF ReconcilePush, At, Goto, Looking, Durable, TriesPush, NeedsGit,
     UnrecordedCommit, TurnCounters, Working, Counters
<1>3. ASSUME NEW t \in Reconcilers, ReconcileBatch(t) PROVE DoneByRun'
  <2>1. on[t] \in Runs /\ CompleteCycleBatch(on[t], FALSE)
    BY <1>3 DEF ReconcileBatch, At, Working, Counters
  <2>2. runBatch' = runBatch /\ gitPhase'[on[t]] = "pushed"
        /\ \A q \in Runs : gitPhase[q] \in Final => gitPhase'[q] \in Final
    BY <1>3, <2>1 DEF ReconcileBatch, SetPhase
  <2> HIDE DEF Typing, DoneByRun
  <2> QED BY <2>1, <2>2, CompletedByRun DEF Final
<1>4. ASSUME NEW t \in Reconcilers, ReconcileRun(t) PROVE DoneByRun'
  BY <1>4 DEF ReconcileRun, At, Goto, SetStatus, SetPhase, TurnCounters, Working, Counters
<1>5. ASSUME NEW t \in Reconcilers, NEW r \in Runs, ReconcileInterrupt(t, r) PROVE DoneByRun'
  BY <1>5 DEF ReconcileInterrupt, At, Looking, SetStatus, StopCycle, TurnCounters, Working,
     Counters
<1>6. ASSUME NEW t \in Reconcilers, NEW r \in Runs, ReconcileSkip(t, r) PROVE DoneByRun'
  BY <1>6 DEF ReconcileSkip, TurnCounters, Working, Counters
<1>7. ASSUME NEW t \in Reconcilers, NEW r \in Runs, ReconcileGitFails(t, r) PROVE DoneByRun'
  BY <1>7 DEF ReconcileGitFails, TurnCounters, Working, Counters
<1>8. ASSUME NEW t \in Reconcilers, ReconcileFinishFails(t) PROVE DoneByRun'
  BY <1>8 DEF ReconcileFinishFails, At, Goto, TurnCounters, Working, Counters
<1>9. ASSUME NEW t \in Reconcilers, EndPass(t) PROVE DoneByRun'
  BY <1>9 DEF EndPass, At, Goto, TurnCounters, Working, Counters
<1>10. ASSUME NEW r \in Runs, ClaimPending(r) PROVE DoneByRun'
  BY <1>10 DEF ClaimPending, At, Goto, Pending, BaselineComplete, TurnCounters, Working,
     Counters
<1>11. ASSUME NEW r \in Runs, NEW b \in Batches, ClaimBatch(r, b) PROVE DoneByRun'
  BY <1>11 DEF ClaimBatch, At, Goto, SetStatus, Unused, Active, Queued, TurnCounters,
     Working, Counters
<1>12. ASSUME ClaimNothing PROVE DoneByRun'
  BY <1>12 DEF ClaimNothing, At, Goto, TurnCounters, Working, Counters
<1>13. ASSUME ClaimLeaseExpires PROVE DoneByRun'
  BY <1>13 DEF ClaimLeaseExpires, TurnCounters, Working, Counters
<1>14. ASSUME Setup PROVE DoneByRun'
  BY <1>14 DEF Setup, At, Goto, SetPhase, TurnCounters, Working, Counters
<1>15. ASSUME Launch PROVE DoneByRun'
  BY <1>15 DEF Launch, At, Goto, SetStatus, TurnCounters, Working, Counters
<1>16. ASSUME NEW t \in Hooks, NEW r \in Runs, ClaimAwaiting(t, r) PROVE DoneByRun'
  BY <1>16 DEF ClaimAwaiting, At, Goto, SetStatus, AwaitsAnswer, TurnCounters, Working,
     Counters
<1>17. ASSUME NEW t \in Web, AgentEdits(t) PROVE DoneByRun'
  BY <1>17 DEF AgentEdits, TurnCounters, Working, Counters
<1>18. ASSUME NEW t \in Web, TurnAwaits(t) PROVE DoneByRun'
  BY <1>18 DEF TurnAwaits, At, Goto, SetStatus, TurnCounters, Working, Counters
<1>19. ASSUME NEW t \in Web, MessagesSent(t) PROVE DoneByRun'
  BY <1>19 DEF MessagesSent, At, Goto, Return, TurnCounters, Working, Counters
<1>20. ASSUME NEW t \in Web, TurnDone(t) PROVE DoneByRun'
  BY <1>20 DEF TurnDone, At, Goto, SetPhase, TurnCounters, Working, Counters
<1>21. ASSUME NEW t \in Web, GitCommit(t) PROVE DoneByRun'
  BY <1>21 DEF GitCommit, At, Goto, TurnCounters, Working, Counters
<1>22. ASSUME NEW t \in Web, RecordCommit(t) PROVE DoneByRun'
  BY <1>22 DEF RecordCommit, At, Goto, SetPhase, TurnCounters, Working, Counters
<1>23. ASSUME NEW t \in Web, GitPush(t) PROVE DoneByRun'
  BY <1>23 DEF GitPush, At, Goto, TurnCounters, Working, Counters
<1>24. ASSUME NEW t \in Web, RecordPush(t) PROVE DoneByRun'
  BY <1>24 DEF RecordPush, At, Goto, SetPhase, TurnCounters, Working, Counters
<1>25. ASSUME NEW t \in Web, CompleteBatch(t) PROVE DoneByRun'
  <2>1. on[t] \in Runs /\ CompleteCycleBatch(on[t], Holds(t)) /\ UNCHANGED runVars
    BY <1>25 DEF CompleteBatch, At, Working, Counters
  <2>2. runBatch' = runBatch /\ gitPhase' = gitPhase /\ gitPhase[on[t]] \in Final
    BY <1>25, <2>1 DEF CompleteBatch, At
  <2> HIDE DEF Typing, DoneByRun
  <2> QED BY <2>1, <2>2, CompletedByRun
<1>26. ASSUME NEW t \in Web, CompleteRun(t) PROVE DoneByRun'
  BY <1>26 DEF CompleteRun, At, Goto, Return, SetStatus, SetPhase, TurnCounters, Working,
     Counters
<1>27. ASSUME SetupFails PROVE DoneByRun'
  BY <1>27 DEF SetupFails, At, Goto, Return, FailRun, SetStatus, StopCycle, TurnCounters,
     Working, Counters
<1>28. ASSUME NEW t \in Web, TurnFails(t) PROVE DoneByRun'
  BY <1>28 DEF TurnFails, At, Goto, Return, FailRun, SetStatus, StopCycle, TurnCounters,
     Working, Counters
<1>29. ASSUME NEW t \in Web, SendFails(t) PROVE DoneByRun'
  BY <1>29 DEF SendFails, At, Goto, Return, FailRun, SetStatus, StopCycle, TurnCounters,
     Working, Counters
<1>30. ASSUME NEW t \in Web, CompletionFails(t) PROVE DoneByRun'
  BY <1>30 DEF CompletionFails, At, Goto, FailRun, SetStatus, StopCycle, TurnCounters,
     Working, Counters
<1>31. ASSUME NEW t \in Web, FinalJsonFails(t) PROVE DoneByRun'
  BY <1>31 DEF FinalJsonFails, At, Goto, SetStatus, TurnCounters, Working, Counters
<1>32. ASSUME NEW t \in Web, FailAgain(t) PROVE DoneByRun'
  BY <1>32 DEF FailAgain, At, Goto, Return, StopCycle, TurnCounters, Working, Counters
<1>33. ASSUME NEW process \in SUBSET Tasks, Crash(process) PROVE DoneByRun'
  BY <1>33 DEF Crash, TurnCounters, Working, Counters
<1>34. ASSUME NEW r \in Runs, LeaseExpires(r) PROVE DoneByRun'
  BY <1>34 DEF LeaseExpires, InProgress, TurnCounters, Working, Counters
<1>35. ASSUME NEW r \in Runs, BackoffEnds(r) PROVE DoneByRun'
  BY <1>35 DEF BackoffEnds, TurnCounters, Working, Counters
<1>36. ASSUME NEW t \in Clis, Retry(t) PROVE DoneByRun'
  BY <1>36 DEF Retry, At, Goto, Retryable, TurnCounters, Working, Counters
<1>37. ASSUME NEW r \in Runs, Abandon(r) PROVE DoneByRun'
  BY <1>37 DEF Abandon, SetStatus, MayAbandon, InProgress, StopCycle, TurnCounters, Working,
     Counters
<1>38. ASSUME NEW r \in Runs, AbandonEnded(r) PROVE DoneByRun'
  BY <1>38 DEF AbandonEnded, TurnCounters, Working, Counters
<1>39. ASSUME NEW c \in Outsiders, OutsideCommit(c) PROVE DoneByRun'
  BY <1>39 DEF OutsideCommit, TurnCounters, Working, Counters
<1>40. ASSUME UNCHANGED vars PROVE DoneByRun'
  BY <1>40 DEF vars, TurnCounters, Working, Counters
<1> HIDE DEF Typing, TypeOK, RunTypeOK, TaskTypeOK, CycleTypeOK, HoldsRun, EarlyInv, EarlyTurn, EarlyRun,
         FinalTurn, TurnOf, PushedIsFinal, Final, DoneByRun
<1> QED
  BY <1>1, <1>2, <1>3, <1>4, <1>5, <1>6, <1>7, <1>8, <1>9, <1>10, <1>11, <1>12, <1>13,
     <1>14, <1>15, <1>16, <1>17, <1>18, <1>19, <1>20, <1>21, <1>22, <1>23, <1>24, <1>25,
     <1>26, <1>27, <1>28, <1>29, <1>30, <1>31, <1>32, <1>33, <1>34, <1>35, <1>36, <1>37,
     <1>38, <1>39, <1>40 DEF Next, TurnStep, ReconcileStep, WorkerClaim, Time, Tasks, Web

\* In the first state no run has begun.
LEMMA DoneInit == Init => EarlyInv /\ ActiveInv /\ DoneInv
<1> SUFFICES ASSUME Init PROVE EarlyInv /\ ActiveInv /\ DoneInv
  OBVIOUS
<1> USE DEF Init
<1>1. EarlyInv
  BY DEF EarlyInv, EarlyTurn, EarlyRun
<1>2. ActiveInv
  BY DEF ActiveInv, OneActiveRun, NonTerminal
<1>3. OneBusy /\ FinalTurn /\ PushedIsFinal
  BY DEF OneBusy, Awaits, FinalTurn, PushedIsFinal, Final, TurnOf, TurnCounters
<1>4. DoneByRun
  BY DEF DoneByRun
<1> QED BY <1>1, <1>2, <1>3, <1>4 DEF DoneInv

\* What the phase says of a turn before its commit holds whatever fails.
LEMMA EarlyInvariant == Spec => [](Typing /\ PhaseInv /\ EarlyInv)
<1>1. Init => EarlyInv
  BY DoneInit
<1>2. Typing /\ PhaseInv /\ EarlyInv /\ [Next]_vars => EarlyInv'
  BY EarlyNext DEF PhaseInv
<1> QED BY <1>1, <1>2, PhaseInvariant, PTL DEF Spec

\* At most one run is active: find_active_run's guard at the creation of a run
\* is enough through retries, restarts, failures and continuations, as long as
\* the operator abandons no run whose turn is in progress and no task reports a
\* failed send of a run that another task has taken over.
THEOREM OneRunIsActive == NoUsurping => (Spec => []OneActiveRun)
<1> SUFFICES ASSUME NoUsurping PROVE Spec => []OneActiveRun
  OBVIOUS
<1>1. Init => ActiveInv
  BY DoneInit
<1>2. Typing /\ PhaseInv /\ EarlyInv /\ ActiveInv /\ [Next]_vars => ActiveInv'
  BY ActiveNext DEF PhaseInv
<1>3. ActiveInv => OneActiveRun
  BY DEF ActiveInv
<1> QED BY <1>1, <1>2, <1>3, EarlyInvariant, PTL DEF Spec

\* A completed batch names a run of its own whose commit, if it made one, is
\* published: in a turn that ends, in a reconciliation that finishes the work of
\* a dead process, and whatever the operator does, as long as commands wait for
\* the web process to reach an await.
THEOREM CompletedStaysDurable == NoOverlap => (Spec => []CompletedIsDurable)
<1> SUFFICES ASSUME NoOverlap PROVE Spec => []CompletedIsDurable
  OBVIOUS
<1>1. Init => DoneInv
  BY DoneInit
<1>2. Typing /\ PhaseInv /\ EarlyInv /\ DoneInv /\ [Next]_vars => DoneInv'
  <2> SUFFICES ASSUME Typing, PhaseInv, EarlyInv, DoneInv, [Next]_vars PROVE DoneInv'
    OBVIOUS
  <2>1. OneBusy'
    BY BusyNext DEF DoneInv
  <2>2. FinalTurn' /\ PushedIsFinal'
    BY FinalNext DEF DoneInv, PhaseInv
  <2>3. DoneByRun'
    BY <2>2, DoneNext DEF DoneInv
  <2> QED BY <2>1, <2>2, <2>3 DEF DoneInv
<1>3. PhaseInv /\ DoneInv => CompletedIsDurable
  BY DEF PhaseInv, GitInv, ShaIsLocal, PushInv, NothingIsFinal, PushedNothing, DoneInv, DoneByRun,
     Final, CompletedIsDurable
<1> QED BY <1>1, <1>2, <1>3, EarlyInvariant, PTL DEF Spec

-----------------------------------------------------------------------------
(* Publication *)

\* Crashes of the web application and every failure of a turn, its commit, its push
\* and its completion, and runs given up while they wait or when they have ended; none
\* of the faults that put two writers on one run or stop a command or a reconciliation
\* half way.
OrderlyKinds == {"crash", "turn", "commit", "push", "finish", "abandon", "abandonTerminal"}
Orderly == Faults \subseteq OrderlyKinds

\* Nobody abandons a run that has ended, which would put its old files back.
FilesAreLeft == "abandonTerminal" \notin Faults

\* Statuses of a run that did not succeed, phases before a commit is announced,
\* phases in which one may have to be recovered, and counters of a reconciliation.
Ended == {"failed", "abandoned"}
Early == {"none", "agent_editing"}
Passing == {"reconcile", "recPushed", "recBatch"}

-----------------------------------------------------------------------------
(* What the tasks know *)

\* A pass has candidates left, and the one it works on is among them.
PassInv ==
    \A t \in Tasks :
        /\ pc[t] \in Passing => todo[t] \subseteq Candidates
        /\ pc[t] \in {"recPushed", "recBatch"} => on[t] \in todo[t]

\* The phase and the status of a run in the late part of its turn.
LateTurn ==
    \A t \in Tasks :
        /\ pc[t] \in {"intent", "committing"} => gitPhase[on[t]] = "commit_intent"
        /\ pc[t] \in {"committed", "pushing"} => gitPhase[on[t]] = "committed"
        /\ pc[t] \in {"pushed", "batchDone"} => gitPhase[on[t]] = "pushed"
        /\ pc[t] \in {"intent", "committing", "committed", "pushing", "pushed", "batchDone"}
              => runStatus[on[t]] = "running_agent"
        /\ pc[t] = "failing" => runStatus[on[t]] = "failed"

\* A push is put off only for a commit that is announced, and nobody works on it.
BackoffInv ==
    \A r \in backoff :
        /\ gitPhase[r] \in Announced
        /\ \A t \in Tasks : on[t] = r => pc[t] \notin Working \ {"sending"}

\* What the tasks know of the runs they work on.
TaskInv == PassInv /\ LateTurn /\ BackoffInv

\* A pass is not interleaved with a task that changes a status.
LEMMA PassNext ==
    ASSUME Orderly, Typing, OneBusy, PassInv, [Next]_vars
    PROVE  PassInv'
<1> USE DurabilityAssumption DEF Orderly, OrderlyKinds, Typing, TypeOK, RunTypeOK,
        TaskTypeOK, HoldsRun, OneBusy, Awaits, Undisturbed, PassInv, Passing, Candidates,
        cycleVars, batchVars, runVars, repoVars, taskVars, Tasks, Web, Reconcilers
<1>1. ASSUME NEW t \in Reconcilers, BeginPass(t) PROVE PassInv'
  BY <1>1 DEF BeginPass, At, Goto, Working, Counters
<1>2. ASSUME NEW t \in Reconcilers, NEW r \in Runs, ReconcilePush(t, r) PROVE PassInv'
  BY <1>2 DEF ReconcilePush, At, Goto, Looking, Durable, TriesPush, NeedsGit,
     UnrecordedCommit, Working, Counters
<1>3. ASSUME NEW t \in Reconcilers, ReconcileBatch(t) PROVE PassInv'
  BY <1>3 DEF ReconcileBatch, At, Goto, SetPhase, Working, Counters
<1>4. ASSUME NEW t \in Reconcilers, ReconcileRun(t) PROVE PassInv'
  BY <1>4 DEF ReconcileRun, At, Goto, SetStatus, SetPhase, Working, Counters
<1>5. ASSUME NEW t \in Reconcilers, NEW r \in Runs, ReconcileInterrupt(t, r) PROVE PassInv'
  BY <1>5 DEF ReconcileInterrupt, At, Looking, SetStatus, Goto, Working, Counters
<1>6. ASSUME NEW t \in Reconcilers, NEW r \in Runs, ReconcileSkip(t, r) PROVE PassInv'
  BY <1>6 DEF ReconcileSkip, At, Working, Counters
<1>7. ASSUME NEW t \in Reconcilers, NEW r \in Runs, ReconcileGitFails(t, r) PROVE PassInv'
  BY <1>7 DEF ReconcileGitFails, Looking, At, Working, Counters
<1>8. ASSUME NEW t \in Reconcilers, ReconcileFinishFails(t) PROVE PassInv'
  BY <1>8 DEF ReconcileFinishFails, At, Goto, Working, Counters
<1>9. ASSUME NEW t \in Reconcilers, EndPass(t) PROVE PassInv'
  BY <1>9 DEF EndPass, At, Goto, Working, Counters
<1>10. ASSUME NEW r \in Runs, ClaimPending(r) PROVE PassInv'
  BY <1>10 DEF ClaimPending, At, Goto, Pending, BaselineComplete, Working, Counters
<1>11. ASSUME NEW r \in Runs, NEW b \in Batches, ClaimBatch(r, b) PROVE PassInv'
  BY <1>11 DEF ClaimBatch, At, Goto, SetStatus, Unused, Active, Queued, Working, Counters
<1>12. ASSUME ClaimNothing PROVE PassInv'
  BY <1>12 DEF ClaimNothing, At, Goto, Working, Counters
<1>13. ASSUME ClaimLeaseExpires PROVE PassInv'
  BY <1>13 DEF ClaimLeaseExpires, Working, Counters
<1>14. ASSUME Setup PROVE PassInv'
  BY <1>14 DEF Setup, At, Goto, SetPhase, Working, Counters
<1>15. ASSUME Launch PROVE PassInv'
  BY <1>15 DEF Launch, At, Goto, SetStatus, Working, Counters
<1>16. ASSUME NEW t \in Hooks, NEW r \in Runs, ClaimAwaiting(t, r) PROVE PassInv'
  BY <1>16 DEF ClaimAwaiting, At, Goto, SetStatus, AwaitsAnswer, Working, Counters
<1>17. ASSUME NEW t \in Web, AgentEdits(t) PROVE PassInv'
  BY <1>17 DEF AgentEdits, At, Working, Counters
<1>18. ASSUME NEW t \in Web, TurnAwaits(t) PROVE PassInv'
  BY <1>18 DEF TurnAwaits, At, Goto, SetStatus, Working, Counters
<1>19. ASSUME NEW t \in Web, MessagesSent(t) PROVE PassInv'
  BY <1>19 DEF MessagesSent, At, Goto, Return, Working, Counters
<1>20. ASSUME NEW t \in Web, TurnDone(t) PROVE PassInv'
  BY <1>20 DEF TurnDone, At, Goto, SetPhase, Working, Counters
<1>21. ASSUME NEW t \in Web, GitCommit(t) PROVE PassInv'
  BY <1>21 DEF GitCommit, At, Goto, Working, Counters
<1>22. ASSUME NEW t \in Web, RecordCommit(t) PROVE PassInv'
  BY <1>22 DEF RecordCommit, At, Goto, SetPhase, Working, Counters
<1>23. ASSUME NEW t \in Web, GitPush(t) PROVE PassInv'
  BY <1>23 DEF GitPush, At, Goto, Working, Counters
<1>24. ASSUME NEW t \in Web, RecordPush(t) PROVE PassInv'
  BY <1>24 DEF RecordPush, At, Goto, SetPhase, Working, Counters
<1>25. ASSUME NEW t \in Web, CompleteBatch(t) PROVE PassInv'
  BY <1>25 DEF CompleteBatch, At, Goto, Working, Counters
<1>26. ASSUME NEW t \in Web, CompleteRun(t) PROVE PassInv'
  BY <1>26 DEF CompleteRun, At, Goto, Return, SetStatus, SetPhase, Working, Counters
<1>27. ASSUME SetupFails PROVE PassInv'
  BY <1>27 DEF SetupFails, At, Goto, Return, FailRun, SetStatus, Working, Counters
<1>28. ASSUME NEW t \in Web, TurnFails(t) PROVE PassInv'
  BY <1>28 DEF TurnFails, At, Goto, Return, FailRun, SetStatus, Working, Counters
<1>29. ASSUME NEW t \in Web, SendFails(t) PROVE PassInv'
  BY <1>29 DEF SendFails, At, Goto, Return, FailRun, SetStatus, Working, Counters
<1>30. ASSUME NEW t \in Web, CompletionFails(t) PROVE PassInv'
  BY <1>30 DEF CompletionFails, At, Goto, FailRun, SetStatus, Working, Counters
<1>31. ASSUME NEW t \in Web, FinalJsonFails(t) PROVE PassInv'
  BY <1>31 DEF FinalJsonFails, At, Goto, SetStatus, Working, Counters
<1>32. ASSUME NEW t \in Web, FailAgain(t) PROVE PassInv'
  BY <1>32 DEF FailAgain, At, Goto, Return, Working, Counters
<1>33. ASSUME NEW process \in SUBSET Tasks, Crash(process) PROVE PassInv'
  BY <1>33 DEF Crash, Working, Counters
<1>34. ASSUME NEW r \in Runs, LeaseExpires(r) PROVE PassInv'
  BY <1>34 DEF LeaseExpires, InProgress, TypeOK, Working, Counters
<1>35. ASSUME NEW r \in Runs, BackoffEnds(r) PROVE PassInv'
  BY <1>35 DEF BackoffEnds, Working, Counters
<1>36. ASSUME NEW t \in Clis, Retry(t) PROVE PassInv'
  BY <1>36 DEF Retry, At, Goto, Retryable, Working, Counters
<1>37. ASSUME NEW r \in Runs, Abandon(r) PROVE PassInv'
  BY <1>37 DEF Abandon, SetStatus, MayAbandon, InProgress, NonTerminal, Working, Counters
<1>38. ASSUME NEW r \in Runs, AbandonEnded(r) PROVE PassInv'
  BY <1>38 DEF AbandonEnded, Working, Counters
<1>39. ASSUME NEW c \in Outsiders, OutsideCommit(c) PROVE PassInv'
  BY <1>39 DEF OutsideCommit, Working, Counters
<1>40. ASSUME UNCHANGED vars PROVE PassInv'
  BY <1>40 DEF vars, Working, Counters
<1> HIDE DEF Orderly, OrderlyKinds, Typing, TypeOK, RunTypeOK, TaskTypeOK, HoldsRun,
         OneBusy, Awaits, Undisturbed, PassInv, Passing, Candidates, cycleVars, batchVars,
         runVars, repoVars, taskVars, Tasks, Web, Reconcilers
<1> QED
  BY <1>1, <1>2, <1>3, <1>4, <1>5, <1>6, <1>7, <1>8, <1>9, <1>10, <1>11, <1>12, <1>13,
     <1>14, <1>15, <1>16, <1>17, <1>18, <1>19, <1>20, <1>21, <1>22, <1>23, <1>24, <1>25,
     <1>26, <1>27, <1>28, <1>29, <1>30, <1>31, <1>32, <1>33, <1>34, <1>35, <1>36, <1>37,
     <1>38, <1>39, <1>40 DEF Next, TurnStep, ReconcileStep, WorkerClaim, Time, Tasks, Web

\* Every step keeps the phase and the status of a turn that is ending.
LEMMA LateNext ==
    ASSUME Orderly, Typing, TurnInv, EarlyInv, ActiveInv, OneBusy, LateTurn, [Next]_vars
    PROVE  LateTurn'
<1> USE DurabilityAssumption DEF Orderly, OrderlyKinds, Typing, TypeOK, RunTypeOK,
        TaskTypeOK, HoldsRun, TurnInv, OneTurn, TurnStatus, TurnOf, EarlyInv, EarlyTurn,
        EarlyRun, ActiveInv, OneBusy, Awaits, Undisturbed, LateTurn, cycleVars, batchVars,
        runVars, repoVars, taskVars, Tasks, Web, Reconcilers
<1>1. ASSUME NEW t \in Reconcilers, BeginPass(t) PROVE LateTurn'
  BY <1>1 DEF BeginPass, At, Goto, TurnCounters, Working, Counters
<1>2. ASSUME NEW t \in Reconcilers, NEW r \in Runs, ReconcilePush(t, r) PROVE LateTurn'
  BY <1>2 DEF ReconcilePush, At, Goto, Looking, Durable, TriesPush, NeedsGit,
     UnrecordedCommit, TurnCounters, Working, Counters
<1>3. ASSUME NEW t \in Reconcilers, ReconcileBatch(t) PROVE LateTurn'
  BY <1>3 DEF ReconcileBatch, At, Goto, SetPhase, TurnCounters, Working, Counters
<1>4. ASSUME NEW t \in Reconcilers, ReconcileRun(t) PROVE LateTurn'
  <2>a. Awaits = {"idle", "claim", "agent", "sending"} /\ "overlap" \notin Faults
    OBVIOUS
  <2> HIDE DEF Awaits, Orderly, OrderlyKinds
  <2>1. \A u \in Tasks \ {t} : pc[u] \in {"idle", "claim", "agent", "sending"}
    BY <1>4, <2>a DEF ReconcileRun, At
  <2>2. \A u \in Tasks : pc'[u] \in {"idle", "claim", "agent", "sending", "reconcile"}
    BY <1>4, <2>1 DEF ReconcileRun, At, Goto, Working, Counters
  <2> QED BY <2>2
<1>5. ASSUME NEW t \in Reconcilers, NEW r \in Runs, ReconcileInterrupt(t, r) PROVE LateTurn'
  BY <1>5 DEF ReconcileInterrupt, At, Looking, SetStatus, TurnCounters, Working, Counters
<1>6. ASSUME NEW t \in Reconcilers, NEW r \in Runs, ReconcileSkip(t, r) PROVE LateTurn'
  BY <1>6 DEF ReconcileSkip, TurnCounters, Working, Counters
<1>7. ASSUME NEW t \in Reconcilers, NEW r \in Runs, ReconcileGitFails(t, r) PROVE LateTurn'
  BY <1>7 DEF ReconcileGitFails, TurnCounters, Working, Counters
<1>8. ASSUME NEW t \in Reconcilers, ReconcileFinishFails(t) PROVE LateTurn'
  BY <1>8 DEF ReconcileFinishFails, At, Goto, TurnCounters, Working, Counters
<1>9. ASSUME NEW t \in Reconcilers, EndPass(t) PROVE LateTurn'
  BY <1>9 DEF EndPass, At, Goto, TurnCounters, Working, Counters
<1>10. ASSUME NEW r \in Runs, ClaimPending(r) PROVE LateTurn'
  BY <1>10 DEF ClaimPending, At, Goto, Pending, BaselineComplete, TurnCounters, Working,
     Counters
<1>11. ASSUME NEW r \in Runs, NEW b \in Batches, ClaimBatch(r, b) PROVE LateTurn'
  BY <1>11 DEF ClaimBatch, At, Goto, SetStatus, Unused, Active, Queued, TurnCounters,
     Working, Counters
<1>12. ASSUME ClaimNothing PROVE LateTurn'
  BY <1>12 DEF ClaimNothing, At, Goto, TurnCounters, Working, Counters
<1>13. ASSUME ClaimLeaseExpires PROVE LateTurn'
  BY <1>13 DEF ClaimLeaseExpires, TurnCounters, Working, Counters
<1>14. ASSUME Setup PROVE LateTurn'
  BY <1>14 DEF Setup, At, Goto, SetPhase, TurnCounters, Working, Counters
<1>15. ASSUME Launch PROVE LateTurn'
  BY <1>15 DEF Launch, At, Goto, SetStatus, TurnCounters, Working, Counters
<1>16. ASSUME NEW t \in Hooks, NEW r \in Runs, ClaimAwaiting(t, r) PROVE LateTurn'
  BY <1>16 DEF ClaimAwaiting, At, Goto, SetStatus, AwaitsAnswer, TurnCounters, Working,
     Counters
<1>17. ASSUME NEW t \in Web, AgentEdits(t) PROVE LateTurn'
  BY <1>17 DEF AgentEdits, TurnCounters, Working, Counters
<1>18. ASSUME NEW t \in Web, TurnAwaits(t) PROVE LateTurn'
  BY <1>18 DEF TurnAwaits, At, Goto, SetStatus, TurnCounters, Working, Counters
<1>19. ASSUME NEW t \in Web, MessagesSent(t) PROVE LateTurn'
  BY <1>19 DEF MessagesSent, At, Goto, Return, TurnCounters, Working, Counters
<1>20. ASSUME NEW t \in Web, TurnDone(t) PROVE LateTurn'
  BY <1>20 DEF TurnDone, At, Goto, SetPhase, TurnCounters, Working, Counters
<1>21. ASSUME NEW t \in Web, GitCommit(t) PROVE LateTurn'
  BY <1>21 DEF GitCommit, At, Goto, TurnCounters, Working, Counters
<1>22. ASSUME NEW t \in Web, RecordCommit(t) PROVE LateTurn'
  BY <1>22 DEF RecordCommit, At, Goto, SetPhase, TurnCounters, Working, Counters
<1>23. ASSUME NEW t \in Web, GitPush(t) PROVE LateTurn'
  BY <1>23 DEF GitPush, At, Goto, TurnCounters, Working, Counters
<1>24. ASSUME NEW t \in Web, RecordPush(t) PROVE LateTurn'
  BY <1>24 DEF RecordPush, At, Goto, SetPhase, TurnCounters, Working, Counters
<1>25. ASSUME NEW t \in Web, CompleteBatch(t) PROVE LateTurn'
  BY <1>25 DEF CompleteBatch, At, Goto, TurnCounters, Working, Counters
<1>26. ASSUME NEW t \in Web, CompleteRun(t) PROVE LateTurn'
  BY <1>26 DEF CompleteRun, At, Goto, Return, SetStatus, SetPhase, TurnCounters, Working,
     Counters
<1>27. ASSUME SetupFails PROVE LateTurn'
  BY <1>27 DEF SetupFails, At, Goto, Return, FailRun, SetStatus, TurnCounters, Working,
     Counters
<1>28. ASSUME NEW t \in Web, TurnFails(t) PROVE LateTurn'
  BY <1>28 DEF TurnFails, At, Goto, Return, FailRun, SetStatus, TurnCounters, Working,
     Counters
<1>29. ASSUME NEW t \in Web, SendFails(t) PROVE LateTurn'
  <2>1. \A u \in Tasks \ {t} : pc[u] \in {"idle", "claim", "agent", "sending"}
    BY <1>29 DEF SendFails, At
  <2>2. \A u \in Tasks : pc'[u] \in {"idle", "claim", "agent", "sending", "reconcile"}
    BY <1>29, <2>1 DEF SendFails, FailRun, At, Goto, Return, Working, Counters
  <2> QED BY <2>2
<1>30. ASSUME NEW t \in Web, CompletionFails(t) PROVE LateTurn'
  BY <1>30 DEF CompletionFails, At, Goto, FailRun, SetStatus, TurnCounters, Working,
     Counters
<1>31. ASSUME NEW t \in Web, FinalJsonFails(t) PROVE LateTurn'
  BY <1>31 DEF FinalJsonFails, At, Goto, SetStatus, TurnCounters, Working, Counters
<1>32. ASSUME NEW t \in Web, FailAgain(t) PROVE LateTurn'
  BY <1>32 DEF FailAgain, At, Goto, Return, TurnCounters, Working, Counters
<1>33. ASSUME NEW process \in SUBSET Tasks, Crash(process) PROVE LateTurn'
  BY <1>33 DEF Crash, TurnCounters, Working, Counters
<1>34. ASSUME NEW r \in Runs, LeaseExpires(r) PROVE LateTurn'
  BY <1>34 DEF LeaseExpires, InProgress, TurnCounters, Working, Counters
<1>35. ASSUME NEW r \in Runs, BackoffEnds(r) PROVE LateTurn'
  BY <1>35 DEF BackoffEnds, TurnCounters, Working, Counters
<1>36. ASSUME NEW t \in Clis, Retry(t) PROVE LateTurn'
  BY <1>36 DEF Retry, At, Goto, Retryable, TurnCounters, Working, Counters
<1>37. ASSUME NEW r \in Runs, Abandon(r) PROVE LateTurn'
  BY <1>37 DEF Abandon, SetStatus, MayAbandon, InProgress, NonTerminal, TurnCounters,
     Working, Counters
<1>38. ASSUME NEW r \in Runs, AbandonEnded(r) PROVE LateTurn'
  BY <1>38 DEF AbandonEnded, TurnCounters, Working, Counters
<1>39. ASSUME NEW c \in Outsiders, OutsideCommit(c) PROVE LateTurn'
  BY <1>39 DEF OutsideCommit, TurnCounters, Working, Counters
<1>40. ASSUME UNCHANGED vars PROVE LateTurn'
  BY <1>40 DEF vars, TurnCounters, Working, Counters
<1> HIDE DEF Orderly, OrderlyKinds, Typing, TypeOK, RunTypeOK, TaskTypeOK, HoldsRun,
         TurnInv, OneTurn, TurnStatus, TurnOf, EarlyInv, EarlyTurn, EarlyRun, ActiveInv, OneBusy,
         Awaits, Undisturbed, LateTurn, cycleVars, batchVars, runVars, repoVars, taskVars, Tasks,
         Web, Reconcilers
<1> QED
  BY <1>1, <1>2, <1>3, <1>4, <1>5, <1>6, <1>7, <1>8, <1>9, <1>10, <1>11, <1>12, <1>13,
     <1>14, <1>15, <1>16, <1>17, <1>18, <1>19, <1>20, <1>21, <1>22, <1>23, <1>24, <1>25,
     <1>26, <1>27, <1>28, <1>29, <1>30, <1>31, <1>32, <1>33, <1>34, <1>35, <1>36, <1>37,
     <1>38, <1>39, <1>40 DEF Next, TurnStep, ReconcileStep, WorkerClaim, Time, Tasks, Web

\* Only a reconciliation puts a push off, and it takes the run on when the time has come.
LEMMA BackoffNext ==
    ASSUME Orderly, Typing, TurnInv, EarlyInv, OneBusy, LateTurn, BackoffInv, [Next]_vars
    PROVE  BackoffInv'
<1> USE DurabilityAssumption DEF Orderly, OrderlyKinds, Typing, TypeOK, RunTypeOK,
        TaskTypeOK, HoldsRun, TurnInv, OneTurn, TurnStatus, TurnOf, EarlyInv, EarlyTurn,
        EarlyRun, OneBusy, Awaits, Undisturbed, LateTurn, BackoffInv, Announced, cycleVars,
        batchVars, runVars, repoVars, taskVars, Tasks, Web, Reconcilers
<1>1. ASSUME NEW t \in Reconcilers, BeginPass(t) PROVE BackoffInv'
  BY <1>1 DEF BeginPass, At, Goto, TurnCounters, Working, Counters
<1>2. ASSUME NEW t \in Reconcilers, NEW r \in Runs, ReconcilePush(t, r) PROVE BackoffInv'
  BY <1>2 DEF ReconcilePush, At, Goto, Looking, Durable, TriesPush, NeedsGit,
     UnrecordedCommit, TurnCounters, Working, Counters
<1>3. ASSUME NEW t \in Reconcilers, ReconcileBatch(t) PROVE BackoffInv'
  BY <1>3 DEF ReconcileBatch, At, Goto, SetPhase, TurnCounters, Working, Counters
<1>4. ASSUME NEW t \in Reconcilers, ReconcileRun(t) PROVE BackoffInv'
  BY <1>4 DEF ReconcileRun, At, Goto, SetStatus, SetPhase, TurnCounters, Working, Counters
<1>5. ASSUME NEW t \in Reconcilers, NEW r \in Runs, ReconcileInterrupt(t, r) PROVE BackoffInv'
  BY <1>5 DEF ReconcileInterrupt, At, Looking, SetStatus, TurnCounters, Working, Counters
<1>6. ASSUME NEW t \in Reconcilers, NEW r \in Runs, ReconcileSkip(t, r) PROVE BackoffInv'
  BY <1>6 DEF ReconcileSkip, TurnCounters, Working, Counters
<1>7. ASSUME NEW t \in Reconcilers, NEW r \in Runs, ReconcileGitFails(t, r) PROVE BackoffInv'
  BY <1>7 DEF ReconcileGitFails, Looking, At, NeedsGit, Sha, TriesPush, UnrecordedCommit,
     TurnCounters, Working, Counters
<1>8. ASSUME NEW t \in Reconcilers, ReconcileFinishFails(t) PROVE BackoffInv'
  BY <1>8 DEF ReconcileFinishFails, At, Goto, TurnCounters, Working, Counters
<1>9. ASSUME NEW t \in Reconcilers, EndPass(t) PROVE BackoffInv'
  BY <1>9 DEF EndPass, At, Goto, TurnCounters, Working, Counters
<1>10. ASSUME NEW r \in Runs, ClaimPending(r) PROVE BackoffInv'
  BY <1>10 DEF ClaimPending, At, Goto, Pending, BaselineComplete, TurnCounters, Working,
     Counters
<1>11. ASSUME NEW r \in Runs, NEW b \in Batches, ClaimBatch(r, b) PROVE BackoffInv'
  BY <1>11 DEF ClaimBatch, At, Goto, SetStatus, Unused, Active, Queued, TurnCounters,
     Working, Counters
<1>12. ASSUME ClaimNothing PROVE BackoffInv'
  BY <1>12 DEF ClaimNothing, At, Goto, TurnCounters, Working, Counters
<1>13. ASSUME ClaimLeaseExpires PROVE BackoffInv'
  BY <1>13 DEF ClaimLeaseExpires, TurnCounters, Working, Counters
<1>14. ASSUME Setup PROVE BackoffInv'
  BY <1>14 DEF Setup, At, Goto, SetPhase, TurnCounters, Working, Counters
<1>15. ASSUME Launch PROVE BackoffInv'
  BY <1>15 DEF Launch, At, Goto, SetStatus, TurnCounters, Working, Counters
<1>16. ASSUME NEW t \in Hooks, NEW r \in Runs, ClaimAwaiting(t, r) PROVE BackoffInv'
  BY <1>16 DEF ClaimAwaiting, At, Goto, SetStatus, AwaitsAnswer, TurnCounters, Working,
     Counters
<1>17. ASSUME NEW t \in Web, AgentEdits(t) PROVE BackoffInv'
  BY <1>17 DEF AgentEdits, TurnCounters, Working, Counters
<1>18. ASSUME NEW t \in Web, TurnAwaits(t) PROVE BackoffInv'
  BY <1>18 DEF TurnAwaits, At, Goto, SetStatus, TurnCounters, Working, Counters
<1>19. ASSUME NEW t \in Web, MessagesSent(t) PROVE BackoffInv'
  BY <1>19 DEF MessagesSent, At, Goto, Return, TurnCounters, Working, Counters
<1>20. ASSUME NEW t \in Web, TurnDone(t) PROVE BackoffInv'
  BY <1>20 DEF TurnDone, At, Goto, SetPhase, TurnCounters, Working, Counters
<1>21. ASSUME NEW t \in Web, GitCommit(t) PROVE BackoffInv'
  BY <1>21 DEF GitCommit, At, Goto, TurnCounters, Working, Counters
<1>22. ASSUME NEW t \in Web, RecordCommit(t) PROVE BackoffInv'
  BY <1>22 DEF RecordCommit, At, Goto, SetPhase, TurnCounters, Working, Counters
<1>23. ASSUME NEW t \in Web, GitPush(t) PROVE BackoffInv'
  BY <1>23 DEF GitPush, At, Goto, TurnCounters, Working, Counters
<1>24. ASSUME NEW t \in Web, RecordPush(t) PROVE BackoffInv'
  BY <1>24 DEF RecordPush, At, Goto, SetPhase, TurnCounters, Working, Counters
<1>25. ASSUME NEW t \in Web, CompleteBatch(t) PROVE BackoffInv'
  BY <1>25 DEF CompleteBatch, At, Goto, TurnCounters, Working, Counters
<1>26. ASSUME NEW t \in Web, CompleteRun(t) PROVE BackoffInv'
  BY <1>26 DEF CompleteRun, At, Goto, Return, SetStatus, SetPhase, TurnCounters, Working,
     Counters
<1>27. ASSUME SetupFails PROVE BackoffInv'
  BY <1>27 DEF SetupFails, At, Goto, Return, FailRun, SetStatus, TurnCounters, Working,
     Counters
<1>28. ASSUME NEW t \in Web, TurnFails(t) PROVE BackoffInv'
  BY <1>28 DEF TurnFails, At, Goto, Return, FailRun, SetStatus, TurnCounters, Working,
     Counters
<1>29. ASSUME NEW t \in Web, SendFails(t) PROVE BackoffInv'
  BY <1>29 DEF SendFails, At, Goto, Return, FailRun, SetStatus, TurnCounters, Working,
     Counters
<1>30. ASSUME NEW t \in Web, CompletionFails(t) PROVE BackoffInv'
  BY <1>30 DEF CompletionFails, At, Goto, FailRun, SetStatus, TurnCounters, Working,
     Counters
<1>31. ASSUME NEW t \in Web, FinalJsonFails(t) PROVE BackoffInv'
  BY <1>31 DEF FinalJsonFails, At, Goto, SetStatus, TurnCounters, Working, Counters
<1>32. ASSUME NEW t \in Web, FailAgain(t) PROVE BackoffInv'
  BY <1>32 DEF FailAgain, At, Goto, Return, TurnCounters, Working, Counters
<1>33. ASSUME NEW process \in SUBSET Tasks, Crash(process) PROVE BackoffInv'
  BY <1>33 DEF Crash, TurnCounters, Working, Counters
<1>34. ASSUME NEW r \in Runs, LeaseExpires(r) PROVE BackoffInv'
  BY <1>34 DEF LeaseExpires, InProgress, TurnCounters, Working, Counters
<1>35. ASSUME NEW r \in Runs, BackoffEnds(r) PROVE BackoffInv'
  BY <1>35 DEF BackoffEnds, TurnCounters, Working, Counters
<1>36. ASSUME NEW t \in Clis, Retry(t) PROVE BackoffInv'
  BY <1>36 DEF Retry, At, Goto, Retryable, TurnCounters, Working, Counters
<1>37. ASSUME NEW r \in Runs, Abandon(r) PROVE BackoffInv'
  BY <1>37 DEF Abandon, SetStatus, MayAbandon, InProgress, NonTerminal, TurnCounters,
     Working, Counters
<1>38. ASSUME NEW r \in Runs, AbandonEnded(r) PROVE BackoffInv'
  BY <1>38 DEF AbandonEnded, TurnCounters, Working, Counters
<1>39. ASSUME NEW c \in Outsiders, OutsideCommit(c) PROVE BackoffInv'
  BY <1>39 DEF OutsideCommit, TurnCounters, Working, Counters
<1>40. ASSUME UNCHANGED vars PROVE BackoffInv'
  BY <1>40 DEF vars, TurnCounters, Working, Counters
<1> HIDE DEF Orderly, OrderlyKinds, Typing, TypeOK, RunTypeOK, TaskTypeOK, HoldsRun,
         TurnInv, OneTurn, TurnStatus, TurnOf, EarlyInv, EarlyTurn, EarlyRun, OneBusy, Awaits,
         Undisturbed, LateTurn, BackoffInv, Announced, cycleVars, batchVars, runVars, repoVars,
         taskVars, Tasks, Web, Reconcilers
<1> QED
  BY <1>1, <1>2, <1>3, <1>4, <1>5, <1>6, <1>7, <1>8, <1>9, <1>10, <1>11, <1>12, <1>13,
     <1>14, <1>15, <1>16, <1>17, <1>18, <1>19, <1>20, <1>21, <1>22, <1>23, <1>24, <1>25,
     <1>26, <1>27, <1>28, <1>29, <1>30, <1>31, <1>32, <1>33, <1>34, <1>35, <1>36, <1>37,
     <1>38, <1>39, <1>40 DEF Next, TurnStep, ReconcileStep, WorkerClaim, Time, Tasks, Web

-----------------------------------------------------------------------------
(* The rows of the cycle, its batches and its runs *)

\* The row of the run exists.
Started(r) == runStatus[r] # "none"

\* The batch knows that it is completed, the run does not.
Dangling(r) == gitPhase[r] = "pushed" /\ batchStatus[runBatch[r]] = "completed"

\* Batches are completed in order, and the status of the cycle is that of its batch.
CycleRows ==
    /\ \A b \in Batches : b < currentBatch => batchStatus[b] = "completed"
    /\ \A b \in Batches :
          b > currentBatch =>
              batchStatus[b] = "pending" /\ latestRun[b] = NoRun /\ successfulRun[b] = NoRun
    /\ cycleStatus = "active" => batchStatus[currentBatch] \in {"queued", "running", "awaiting_user"}
    /\ cycleStatus = "stopped" => batchStatus[currentBatch] = "stopped"
    /\ cycleStatus = "completed" => currentBatch = N /\ batchStatus[N] = "completed"

\* A run that is not the latest of its batch has ended without a commit.
LatestRows ==
    /\ \A b \in Batches :
          latestRun[b] # NoRun => Started(latestRun[b]) /\ runBatch[latestRun[b]] = b
    /\ \A r \in Runs :
          Started(r) =>
              /\ runBatch[r] <= currentBatch
              /\ latestRun[runBatch[r]] # NoRun
              /\ r # latestRun[runBatch[r]] => runStatus[r] \in Ended /\ gitPhase[r] \in Early

\* A batch has a successful run only when its latest run has been pushed.
SuccessRows ==
    \A b \in Batches :
        successfulRun[b] # NoRun => latestRun[b] # NoRun /\ gitPhase[latestRun[b]] \in Final

\* A dangling run leaves the cycle completed, or its next batch queued and untouched.
DanglingAt(r) ==
    \/ runBatch[r] = N /\ cycleStatus = "completed"
    \/ /\ runBatch[r] + 1 = currentBatch
       /\ cycleStatus = "active"
       /\ batchStatus[currentBatch] = "queued"
       /\ latestRun[currentBatch] = NoRun

\* The batch of a run in a non-terminal status is being worked on.
ActiveAt(r) ==
    /\ runBatch[r] = currentBatch
    /\ cycleStatus = "active"
    /\ batchStatus[currentBatch] \in {"running", "awaiting_user"}

\* A run that ended after it had announced its commit holds the cycle up.
OwedAt(r) == runBatch[r] = currentBatch /\ cycleStatus = "stopped"

\* What the status and the phase of a run say of its batch, and the other way round.
RunRows ==
    \A r \in Runs :
        /\ runStatus[r] = "completed"
              => gitPhase[r] = "completed" /\ batchStatus[runBatch[r]] = "completed"
        /\ gitPhase[r] = "completed" => runStatus[r] = "completed"
        /\ runStatus[r] = "abandoned" => gitPhase[r] \in {"agent_editing", "commit_intent"}
        /\ runStatus[r] \in NonTerminal => Dangling(r) \/ ActiveAt(r)
        /\ runStatus[r] \in Ended /\ NeedsGit(r) => Dangling(r) \/ OwedAt(r)
        /\ Dangling(r) => DanglingAt(r)

\* The rows of the database agree with each other.
Rows == CycleRows /\ LatestRows /\ SuccessRows /\ RunRows

\* What the proofs about the rows use of their types.
RowsTyped ==
    /\ N \in Nat \ {0}
    /\ NoRun \notin Runs
    /\ cycleStatus \in CycleStates
    /\ currentBatch \in Batches
    /\ batchStatus \in [Batches -> BatchStates]
    /\ latestRun \in [Batches -> Runs \cup {NoRun}]
    /\ successfulRun \in [Batches -> Runs \cup {NoRun}]
    /\ runStatus \in [Runs -> RunStates]
    /\ runBatch \in [Runs -> Batches]
    /\ gitPhase \in [Runs -> Phases]
    /\ \A r \in Runs : ~Started(r) => gitPhase[r] = "none"

\* The rows have these types, and a run that is not there has no phase.
LEMMA RowsAreTyped == Typing /\ EarlyInv => RowsTyped
BY DurabilityAssumption DEF Typing, TypeOK, CycleTypeOK, RunTypeOK, EarlyInv, EarlyRun,
   RowsTyped, Started

\* Two runs of a batch that are not superseded are one.
LEMMA LatestIsOne ==
    ASSUME RowsTyped, LatestRows, NEW q \in Runs, NEW r \in Runs, runBatch[q] = runBatch[r],
           Started(q), Started(r),
           runStatus[q] \notin Ended \/ gitPhase[q] \notin Early,
           runStatus[r] \notin Ended \/ gitPhase[r] \notin Early
    PROVE  q = r
BY DEF LatestRows

\* The run that finishes its batch is dangling until it is completed itself.
LEMMA FinishRows ==
    ASSUME RowsTyped, Rows, NEW r \in Runs, NEW held \in BOOLEAN, CompleteCycleBatch(r, held),
           NeedsGit(r), runStatus[r] \in {"running_agent", "failed"},
           held => cycleStatus = "active",
           runBatch' = runBatch, runStatus' = runStatus,
           gitPhase' = [gitPhase EXCEPT ![r] = "pushed"]
    PROVE  Rows' /\ Dangling(r)'
<1> DEFINE b == runBatch[r]
<1> USE DEF RowsTyped
<1>b. b \in Batches /\ b \in 1..N /\ Batches = 1..N
  BY DEF Batches
<1>r. Started(r) /\ r = latestRun[b] /\ latestRun' = latestRun
      /\ successfulRun' = [successfulRun EXCEPT ![b] = r]
  BY DEF Rows, LatestRows, Started, NeedsGit, Early, CompleteCycleBatch
<1>1. /\ batchStatus' \in [Batches -> BatchStates]
      /\ batchStatus'[b] = "completed"
      /\ \A c \in Batches : c # b /\ c # b + 1 => batchStatus'[c] = batchStatus[c]
  <2>1. CASE HasNext(b)
    <3>1. b + 1 \in Batches /\ b # b + 1
      BY <1>b, <2>1 DEF HasNext
    <3>2. batchStatus' = [batchStatus EXCEPT ![b] = "completed", ![b + 1] = "queued"]
      BY <2>1 DEF CompleteCycleBatch
    <3> QED BY <1>b, <3>1, <3>2 DEF BatchStates
  <2>2. CASE ~HasNext(b)
    BY <1>b, <2>2 DEF CompleteCycleBatch, BatchStates
  <2> QED BY <2>1, <2>2
<1>2. \/ b < N /\ b + 1 \in Batches /\ currentBatch' = b + 1 /\ cycleStatus' = "active"
         /\ batchStatus'[b + 1] = "queued"
      \/ b = N /\ currentBatch' = N /\ cycleStatus' = "completed"
  BY <1>b DEF CompleteCycleBatch, HasNext, BatchStates, Batches
<1>3. \/ b = currentBatch /\ cycleStatus # "completed"
      \/ DanglingAt(r)
  BY <1>b DEF Rows, RunRows, ActiveAt, OwedAt, NonTerminal, Ended, NeedsGit
<1>s. b = currentBatch \/ b + 1 = currentBatch
  BY <1>3 DEF Rows, CycleRows, DanglingAt
<1>4. \A c \in Batches : c > b => latestRun[c] = NoRun /\ successfulRun[c] = NoRun
                                 /\ (c > b + 1 => batchStatus[c] = "pending")
  <2> SUFFICES ASSUME NEW c \in Batches, c > b
               PROVE  latestRun[c] = NoRun /\ successfulRun[c] = NoRun
                                 /\ (c > b + 1 => batchStatus[c] = "pending")
    OBVIOUS
  <2>1. c \in Nat /\ b \in Nat /\ currentBatch \in Nat /\ c <= N
    BY <1>b
  <2>2. c > currentBatch => latestRun[c] = NoRun /\ successfulRun[c] = NoRun
                                 /\ batchStatus[c] = "pending"
    BY DEF Rows, CycleRows
  <2>3. latestRun[c] = NoRun => successfulRun[c] = NoRun
    BY DEF Rows, SuccessRows
  <2>4. CASE b = currentBatch
    BY <2>1, <2>2, <2>4
  <2>5. CASE DanglingAt(r)
    BY <1>b, <2>1, <2>2, <2>3, <2>5 DEF DanglingAt
  <2> QED BY <1>3, <2>4, <2>5
<1>5. \A c \in Batches : c < b => batchStatus[c] = "completed"
  BY <1>b, <1>3 DEF Rows, CycleRows, DanglingAt
<1>6. \A q \in Runs : Started(q) => runBatch[q] \in Batches /\ runBatch[q] <= b
  <2> SUFFICES ASSUME NEW q \in Runs, Started(q) PROVE runBatch[q] <= b
    OBVIOUS
  <2>1. runBatch[q] \in Batches /\ latestRun[runBatch[q]] # NoRun
    BY DEF Rows, LatestRows
  <2> QED BY <1>b, <1>4, <2>1
<1>7. CycleRows'
  <2>1. \A c \in Batches : c < currentBatch' => batchStatus'[c] = "completed"
    <3> SUFFICES ASSUME NEW c \in Batches, c < currentBatch' PROVE batchStatus'[c] = "completed"
      OBVIOUS
    <3>1. c = b \/ c < b
      BY <1>b, <1>2
    <3>2. c < b => c # b /\ c # b + 1
      BY <1>b
    <3> QED BY <1>1, <1>5, <3>1, <3>2
  <2>2. \A c \in Batches : c > currentBatch' =>
          batchStatus'[c] = "pending" /\ latestRun'[c] = NoRun /\ successfulRun'[c] = NoRun
    BY <1>b, <1>r, <1>1, <1>2, <1>4
  <2> QED BY <1>1, <1>2, <2>1, <2>2 DEF CycleRows
<1>8. LatestRows'
  <2>1. \A c \in Batches : latestRun'[c] # NoRun => runStatus'[latestRun'[c]] # "none" /\ runBatch'[latestRun'[c]] = c
    BY <1>r DEF Rows, LatestRows, Started
  <2>2. \A q \in Runs : runStatus'[q] # "none" => runBatch'[q] <= currentBatch' /\ latestRun'[runBatch'[q]] # NoRun
    BY <1>b, <1>r, <1>2, <1>6 DEF Rows, LatestRows, Started
  <2>3. \A q \in Runs : runStatus'[q] # "none" /\ q # latestRun'[runBatch'[q]]
            => runStatus'[q] \in Ended /\ gitPhase'[q] \in Early
    BY <1>r DEF Rows, LatestRows, Started
  <2> QED BY <2>1, <2>2, <2>3 DEF LatestRows, Started
<1>9. SuccessRows'
  BY <1>r DEF Rows, SuccessRows, Final
<1>10. Dangling(r)' /\ DanglingAt(r)'
  BY <1>b, <1>r, <1>1, <1>2, <1>4 DEF Dangling, DanglingAt
<1>11. \A q \in Runs : q # r /\ Started(q) /\ (runStatus[q] \notin Ended \/ gitPhase[q] \notin Early)
          => runBatch[q] < b
  BY <1>b, <1>r, <1>6 DEF Rows, LatestRows
<1>12. RunRows'
  <2> SUFFICES ASSUME NEW q \in Runs
               PROVE  /\ runStatus[q] = "completed"
                            => gitPhase'[q] = "completed" /\ batchStatus'[runBatch[q]] = "completed"
                      /\ gitPhase'[q] = "completed" => runStatus[q] = "completed"
                      /\ runStatus[q] = "abandoned" => gitPhase'[q] \in {"agent_editing", "commit_intent"}
                      /\ runStatus[q] \in NonTerminal => Dangling(q)' \/ ActiveAt(q)'
                      /\ runStatus[q] \in Ended /\ NeedsGit(q)' => Dangling(q)' \/ OwedAt(q)'
                      /\ Dangling(q)' => DanglingAt(q)'
    BY DEF RunRows
  <2>1. CASE q = r
    BY <1>10, <2>1 DEF Dangling
  <2>2. CASE q # r
    <3>1. gitPhase'[q] = gitPhase[q]
      BY <2>2
    <3>2. CASE ~(Started(q) /\ (runStatus[q] \notin Ended \/ gitPhase[q] \notin Early))
      BY <3>1, <3>2 DEF Rows, RunRows, Started, NonTerminal, Early, NeedsGit, Dangling, Ended
    <3>3. CASE Started(q) /\ (runStatus[q] \notin Ended \/ gitPhase[q] \notin Early)
      <4>1. runBatch[q] < b /\ runBatch[q] \in Batches
        BY <1>11, <2>2, <3>3
      <4>2. batchStatus'[runBatch[q]] = "completed" /\ batchStatus[runBatch[q]] = "completed"
        BY <1>b, <1>1, <1>5, <4>1
      <4>3. ~Dangling(q)
        <5>1. Dangling(q) => DanglingAt(q)
          BY DEF Rows, RunRows
        <5>2. DanglingAt(q) => FALSE
          <6>1. ~(runBatch[q] = N)
            BY <1>b, <4>1
          <6>2. runBatch[q] + 1 = currentBatch /\ latestRun[currentBatch] = NoRun => FALSE
            <7>1. ASSUME runBatch[q] + 1 = currentBatch, latestRun[currentBatch] = NoRun
                  PROVE  FALSE
              <8>1. b >= currentBatch
                BY <1>b, <4>1, <7>1
              <8>2. b = currentBatch
                BY <1>b, <1>s, <8>1
              <8> QED BY <1>r, <7>1, <8>2
            <7> QED BY <7>1
          <6> QED BY <6>1, <6>2 DEF DanglingAt
        <5> QED BY <5>1, <5>2
      <4>4. gitPhase[q] # "pushed"
        BY <4>2, <4>3 DEF Dangling
      <4>5. ~ActiveAt(q) /\ ~OwedAt(q)
        <5>1. runBatch[q] # currentBatch
          BY <1>b, <1>s, <4>1
        <5> QED BY <5>1 DEF ActiveAt, OwedAt
      <4> QED BY <3>1, <4>2, <4>3, <4>4, <4>5 DEF Rows, RunRows, Dangling, NeedsGit
    <3> QED BY <3>2, <3>3
  <2> QED BY <2>1, <2>2
<1> QED BY <1>7, <1>8, <1>9, <1>10, <1>12 DEF Rows

\* The batch a turn works on is the current one, also after it has completed the last.
LEMMA ActiveIsCurrent ==
    ASSUME RowsTyped, Rows, NEW r \in Runs, runStatus[r] \in NonTerminal,
           Dangling(r) => runBatch[r] = N
    PROVE  /\ runBatch[r] = currentBatch
           /\ ActiveAt(r) \/ (Dangling(r) /\ runBatch[r] = N /\ cycleStatus = "completed")
<1> USE DEF RowsTyped
<1>b. runBatch[r] \in 1..N /\ currentBatch \in 1..N
  BY DEF Batches
<1>1. ActiveAt(r) \/ (Dangling(r) /\ DanglingAt(r))
  BY DEF Rows, RunRows
<1>2. runBatch[r] = N => runBatch[r] + 1 # currentBatch
  BY <1>b
<1>3. ActiveAt(r) \/ (Dangling(r) /\ runBatch[r] = N /\ cycleStatus = "completed")
  BY <1>1, <1>2 DEF DanglingAt
<1>4. runBatch[r] = currentBatch
  BY <1>3 DEF Rows, CycleRows, ActiveAt
<1> QED BY <1>3, <1>4

\* The batch that is completed says so.
LEMMA FinishMarks ==
    ASSUME RowsTyped, NEW r \in Runs, NEW held, CompleteCycleBatch(r, held)
    PROVE  /\ batchStatus'[runBatch[r]] = "completed"
           /\ \A b \in Batches : batchStatus'[b] = "completed" => b = runBatch[r] \/ batchStatus[b] = "completed"
<1> DEFINE b == runBatch[r]
<1> USE DEF RowsTyped
<1>b. b \in Batches /\ Batches = 1..N
  BY DEF Batches
<1>1. CASE HasNext(b)
  <2>1. b + 1 \in Batches /\ b # b + 1
    BY <1>b, <1>1 DEF HasNext
  <2>2. batchStatus' = [batchStatus EXCEPT ![b] = "completed", ![b + 1] = "queued"]
    BY <1>1 DEF CompleteCycleBatch
  <2> QED BY <1>b, <2>1, <2>2
<1>2. CASE ~HasNext(b)
  BY <1>b, <1>2 DEF CompleteCycleBatch
<1> QED BY <1>1, <1>2

\* A run in a non-terminal status is the only one at its batch that counts.
LEMMA StopRows ==
    ASSUME RowsTyped, Rows, OneActiveRun, NEW r \in Runs, runStatus[r] \in NonTerminal,
           Dangling(r) => runBatch[r] = N,
           NEW s \in Ended, s = "abandoned" => gitPhase[r] \in {"agent_editing", "commit_intent"},
           SetStatus(r, s), gitPhase' = gitPhase, runBatch' = runBatch,
           cycleStatus' = "stopped", currentBatch' = currentBatch, latestRun' = latestRun,
           batchStatus' = [batchStatus EXCEPT ![runBatch[r]] = "stopped"],
           SuccessRows',
           \A b \in Batches : b > currentBatch => successfulRun'[b] = successfulRun[b]
    PROVE  Rows'
<1> DEFINE b == runBatch[r]
<1> USE DEF RowsTyped
<1>b. b \in Batches /\ b \in 1..N /\ Batches = 1..N /\ currentBatch \in 1..N
  BY DEF Batches
<1>r. Started(r) /\ r = latestRun[b] /\ runStatus[r] \notin Ended
  BY DEF Rows, LatestRows, Started, NonTerminal, Ended
<1>1. ActiveAt(r) \/ (Dangling(r) /\ b = N /\ cycleStatus = "completed")
  BY ActiveIsCurrent
<1>2. b = currentBatch
  BY ActiveIsCurrent
<1>3. CycleRows'
  BY <1>b, <1>2 DEF Rows, CycleRows, BatchStates
<1>4. \A q \in Runs : q # r => runStatus'[q] = runStatus[q] /\ runStatus[q] \notin NonTerminal
  BY DEF SetStatus, OneActiveRun
<1>5. runStatus'[r] = s
  BY DEF SetStatus
<1>6. LatestRows'
  BY <1>r, <1>4, <1>5 DEF Rows, LatestRows, Started, Ended
<1>7. ASSUME NEW q \in Runs, q # r, Started(q), runStatus[q] \notin Ended \/ gitPhase[q] \notin Early
      PROVE  runBatch[q] # b
  BY <1>r, <1>7 DEF Rows, LatestRows
<1>8. \A q \in Runs : q # r => ~Dangling(q)
  <2> SUFFICES ASSUME NEW q \in Runs, q # r, Dangling(q) PROVE FALSE
    OBVIOUS
  <2>1. runBatch[q] # b
    BY <1>7 DEF Dangling, Started, Early
  <2>2. DanglingAt(q)
    BY DEF Rows, RunRows
  <2> QED BY <1>1, <1>2, <2>1, <2>2 DEF DanglingAt, ActiveAt
<1>9. \A q \in Runs : ~Dangling(q)'
  BY <1>b, <1>8 DEF Dangling
<1>10. RunRows'
  <2> SUFFICES ASSUME NEW q \in Runs
               PROVE  /\ runStatus'[q] = "completed"
                            => gitPhase[q] = "completed" /\ batchStatus'[runBatch[q]] = "completed"
                      /\ gitPhase[q] = "completed" => runStatus'[q] = "completed"
                      /\ runStatus'[q] = "abandoned" => gitPhase[q] \in {"agent_editing", "commit_intent"}
                      /\ runStatus'[q] \in NonTerminal => FALSE
                      /\ runStatus'[q] \in Ended /\ NeedsGit(q) => OwedAt(q)'
    BY <1>9 DEF RunRows, NeedsGit
  <2>1. CASE q = r
    BY <1>2, <1>5, <1>r, <2>1 DEF Rows, RunRows, Ended, NonTerminal, OwedAt
  <2>2. CASE q # r
    <3>1. runStatus[q] = "completed" => batchStatus'[runBatch[q]] = "completed"
      <4> SUFFICES ASSUME runStatus[q] = "completed" PROVE batchStatus'[runBatch[q]] = "completed"
        OBVIOUS
      <4>1. runBatch[q] # b
        BY <1>7, <2>2 DEF Started, Ended
      <4>2. batchStatus[runBatch[q]] = "completed"
        BY DEF Rows, RunRows
      <4> QED BY <1>b, <4>1, <4>2
    <3>2. runStatus[q] \in Ended /\ NeedsGit(q) => OwedAt(q)'
      BY <1>8, <2>2 DEF Rows, RunRows, OwedAt
    <3> QED BY <1>4, <2>2, <3>1, <3>2 DEF Rows, RunRows
  <2> QED BY <2>1, <2>2
<1> QED BY <1>2, <1>3, <1>6, <1>10 DEF Rows

\* A run goes on with its turn, or waits for the user, while its batch waits for it.
LEMMA GoesOnRows ==
    ASSUME RowsTyped, Rows, OneActiveRun, NEW r \in Runs, runStatus[r] \in NonTerminal,
           gitPhase[r] \notin Final,
           NEW s \in NonTerminal, NEW p \in Phases \ {"completed"},
           runStatus' = [runStatus EXCEPT ![r] = s],
           gitPhase' = [gitPhase EXCEPT ![r] = p],
           \/ batchStatus' = batchStatus
           \/ batchStatus' = [batchStatus EXCEPT ![runBatch[r]] = "awaiting_user"],
           UNCHANGED <<cycleStatus, currentBatch, latestRun, successfulRun, runBatch>>
    PROVE  Rows'
<1> DEFINE b == runBatch[r]
<1> USE DEF RowsTyped
<1>b. b \in Batches /\ b \in 1..N /\ Batches = 1..N /\ currentBatch \in 1..N
  BY DEF Batches
<1>r. Started(r) /\ r = latestRun[b] /\ runStatus[r] \notin Ended /\ s # "none" /\ s \notin Ended
  BY DEF Rows, LatestRows, Started, NonTerminal, Ended
<1>1. ActiveAt(r) /\ b = currentBatch
  BY DEF Rows, RunRows, Dangling, ActiveAt, Final
<1>2. /\ batchStatus' \in [Batches -> BatchStates]
      /\ \A c \in Batches : c # b => batchStatus'[c] = batchStatus[c]
      /\ batchStatus'[b] \in {"running", "awaiting_user"}
  BY <1>b, <1>1 DEF ActiveAt, BatchStates
<1>3. CycleRows'
  BY <1>b, <1>1, <1>2 DEF Rows, CycleRows, ActiveAt
<1>4. \A q \in Runs : q # r => runStatus'[q] = runStatus[q] /\ gitPhase'[q] = gitPhase[q]
                                 /\ runStatus[q] \notin NonTerminal
  BY DEF OneActiveRun
<1>5. runStatus'[r] = s /\ gitPhase'[r] = p
  OBVIOUS
<1>6. LatestRows'
  BY <1>r, <1>4, <1>5 DEF Rows, LatestRows, Started
<1>7. SuccessRows'
  BY <1>r, <1>4, <1>b DEF Rows, SuccessRows, LatestRows
<1>8. \A q \in Runs : Dangling(q)' => Dangling(q) /\ q # r
  BY <1>2, <1>4 DEF Dangling
<1>9. \A q \in Runs : ~Dangling(q)
  BY <1>1 DEF Rows, RunRows, DanglingAt, ActiveAt
<1>10. RunRows'
  <2> SUFFICES ASSUME NEW q \in Runs
               PROVE  /\ runStatus'[q] = "completed"
                            => gitPhase'[q] = "completed" /\ batchStatus'[runBatch[q]] = "completed"
                      /\ gitPhase'[q] = "completed" => runStatus'[q] = "completed"
                      /\ runStatus'[q] = "abandoned" => gitPhase'[q] \in {"agent_editing", "commit_intent"}
                      /\ runStatus'[q] \in NonTerminal => ActiveAt(q)'
                      /\ runStatus'[q] \in Ended /\ NeedsGit(q)' => OwedAt(q)'
    BY <1>8, <1>9 DEF RunRows
  <2>1. CASE q = r
    BY <1>1, <1>2, <1>5, <1>r, <2>1 DEF Ended, NonTerminal, ActiveAt
  <2>2. CASE q # r
    <3>1. batchStatus[b] # "completed"
      BY <1>1 DEF ActiveAt
    <3>2. batchStatus[runBatch[q]] = "completed" => batchStatus'[runBatch[q]] = "completed"
      BY <1>2, <3>1
    <3> QED BY <1>4, <1>9, <2>2, <3>2 DEF Rows, RunRows, OwedAt, NeedsGit
  <2> QED BY <2>1, <2>2
<1> QED BY <1>3, <1>6, <1>7, <1>10 DEF Rows

\* A dangling run is completed.
LEMMA EndRows ==
    ASSUME RowsTyped, Rows, NEW r \in Runs, Dangling(r),
           runStatus' = [runStatus EXCEPT ![r] = "completed"],
           gitPhase' = [gitPhase EXCEPT ![r] = "completed"],
           UNCHANGED <<cycleVars, batchVars, runBatch>>
    PROVE  Rows'
<1> USE DEF RowsTyped, cycleVars, batchVars
<1>1. CycleRows'
  BY DEF Rows, CycleRows
<1>2. Started(r) /\ r = latestRun[runBatch[r]]
  BY DEF Rows, LatestRows, Dangling, Started, Early
<1>3. LatestRows'
  BY <1>2 DEF Rows, LatestRows, Started
<1>4. SuccessRows'
  BY DEF Rows, SuccessRows, Final
<1>5. RunRows'
  <2> SUFFICES ASSUME NEW q \in Runs
               PROVE  /\ runStatus'[q] = "completed"
                            => gitPhase'[q] = "completed" /\ batchStatus[runBatch[q]] = "completed"
                      /\ gitPhase'[q] = "completed" => runStatus'[q] = "completed"
                      /\ runStatus'[q] = "abandoned" => gitPhase'[q] \in {"agent_editing", "commit_intent"}
                      /\ runStatus'[q] \in NonTerminal => Dangling(q)' \/ ActiveAt(q)
                      /\ runStatus'[q] \in Ended /\ NeedsGit(q)' => Dangling(q)' \/ OwedAt(q)
                      /\ Dangling(q)' => DanglingAt(q)
    BY DEF RunRows, ActiveAt, OwedAt, DanglingAt
  <2>1. CASE q = r
    BY <2>1 DEF Dangling, Ended, NonTerminal
  <2>2. CASE q # r
    BY <2>2 DEF Rows, RunRows, Dangling, NeedsGit
  <2> QED BY <2>1, <2>2
<1> QED BY <1>1, <1>3, <1>4, <1>5 DEF Rows

\* A run is created for the queued batch when nothing is active or dangling.
LEMMA ClaimRows ==
    ASSUME RowsTyped, Rows, ~Active, \A q \in Runs : ~Dangling(q),
           NEW r \in Runs, ~Started(r), currentBatch \in Queued,
           runStatus' = [runStatus EXCEPT ![r] = "pending_agent"],
           runBatch' = [runBatch EXCEPT ![r] = currentBatch],
           latestRun' = [latestRun EXCEPT ![currentBatch] = r],
           batchStatus' = [batchStatus EXCEPT ![currentBatch] = "running"],
           UNCHANGED <<cycleVars, successfulRun, gitPhase>>
    PROVE  Rows'
<1> DEFINE b == currentBatch
<1> USE DEF RowsTyped, cycleVars
<1>b. b \in Batches /\ b \in 1..N /\ Batches = 1..N /\ cycleStatus = "active" /\ batchStatus[b] = "queued"
  BY DEF Batches, Queued
<1>1. \A q \in Runs : Started(q) /\ runBatch[q] = b => runStatus[q] \in Ended /\ gitPhase[q] \in Early
  <2> SUFFICES ASSUME NEW q \in Runs, Started(q), runBatch[q] = b
               PROVE  runStatus[q] \in Ended /\ gitPhase[q] \in Early
    OBVIOUS
  <2>1. runStatus[q] \notin NonTerminal
    BY DEF Active
  <2>2. runStatus[q] # "completed"
    BY <1>b DEF Rows, RunRows
  <2>3. runStatus[q] \in Ended
    BY <2>1, <2>2 DEF RunStates, NonTerminal, Ended, Started
  <2>4. ~NeedsGit(q) /\ gitPhase[q] # "completed"
    BY <1>b, <2>2, <2>3 DEF Rows, RunRows, OwedAt
  <2> QED BY <2>3, <2>4 DEF NeedsGit, Phases, Early
<1>2. successfulRun[b] = NoRun
  <2>1. latestRun[b] # NoRun => latestRun[b] \in Runs /\ Started(latestRun[b]) /\ runBatch[latestRun[b]] = b
    BY <1>b DEF Rows, LatestRows
  <2> QED BY <1>1, <1>b, <2>1 DEF Rows, SuccessRows, Early, Final
<1>3. CycleRows'
  BY <1>b DEF Rows, CycleRows, BatchStates
<1>4. \A q \in Runs : q # r => runStatus'[q] = runStatus[q] /\ runBatch'[q] = runBatch[q]
  OBVIOUS
<1>5. runStatus'[r] = "pending_agent" /\ runBatch'[r] = b /\ gitPhase[r] = "none" /\ latestRun'[b] = r
  BY <1>b DEF Started
<1>6. LatestRows'
  <2>1. \A c \in Batches : latestRun'[c] # NoRun => runStatus'[latestRun'[c]] # "none" /\ runBatch'[latestRun'[c]] = c
    <3> SUFFICES ASSUME NEW c \in Batches, latestRun'[c] # NoRun
                 PROVE  runStatus'[latestRun'[c]] # "none" /\ runBatch'[latestRun'[c]] = c
      OBVIOUS
    <3>1. CASE c = b
      BY <1>5, <3>1
    <3>2. CASE c # b
      <4>1. latestRun'[c] = latestRun[c] /\ latestRun[c] \in Runs
        BY <3>2
      <4>2. Started(latestRun[c]) /\ runBatch[latestRun[c]] = c
        BY <4>1 DEF Rows, LatestRows
      <4> QED BY <1>4, <4>1, <4>2 DEF Started
    <3> QED BY <3>1, <3>2
  <2>2. ASSUME NEW q \in Runs, runStatus'[q] # "none"
        PROVE  /\ runBatch'[q] <= b
               /\ latestRun'[runBatch'[q]] # NoRun
               /\ q # latestRun'[runBatch'[q]] => runStatus'[q] \in Ended /\ gitPhase[q] \in Early
    <3>1. CASE q = r
      BY <1>5, <1>b, <3>1
    <3>2. CASE q # r
      <4>1. /\ Started(q)
            /\ runBatch'[q] = runBatch[q]
            /\ runStatus'[q] = runStatus[q]
            /\ runBatch[q] \in Batches
        BY <1>4, <2>2, <3>2 DEF Started
      <4>2. CASE runBatch[q] = b
        BY <1>1, <1>5, <1>b, <4>1, <4>2
      <4>3. CASE runBatch[q] # b
        BY <4>1, <4>3 DEF Rows, LatestRows
      <4> QED BY <4>2, <4>3
    <3> QED BY <3>1, <3>2
  <2> QED BY <2>1, <2>2 DEF LatestRows, Started
<1>7. SuccessRows'
  BY <1>2, <1>5, <1>b DEF Rows, SuccessRows
<1>8. RunRows'
  <2> SUFFICES ASSUME NEW q \in Runs
               PROVE  /\ runStatus'[q] = "completed"
                            => gitPhase[q] = "completed" /\ batchStatus'[runBatch'[q]] = "completed"
                      /\ gitPhase[q] = "completed" => runStatus'[q] = "completed"
                      /\ runStatus'[q] = "abandoned" => gitPhase[q] \in {"agent_editing", "commit_intent"}
                      /\ runStatus'[q] \in NonTerminal => ActiveAt(q)'
                      /\ ~(runStatus'[q] \in Ended /\ NeedsGit(q))
                      /\ ~Dangling(q)'
    BY DEF RunRows, NeedsGit
  <2>1. CASE q = r
    BY <1>5, <1>b, <2>1 DEF ActiveAt, Ended, NeedsGit, Dangling
  <2>2. CASE q # r
    <3>1. runStatus[q] \notin NonTerminal
      BY DEF Active
    <3>2. ~(runStatus[q] \in Ended /\ NeedsGit(q))
      BY <1>b DEF Rows, RunRows, OwedAt
    <3>3. gitPhase[q] = "pushed" => batchStatus[runBatch[q]] # "completed"
      BY DEF Dangling
    <3>4. \A c \in Batches : batchStatus'[c] = "completed" <=> batchStatus[c] = "completed"
      BY <1>b
    <3>5. runStatus'[q] = runStatus[q] /\ runBatch'[q] = runBatch[q] /\ runBatch[q] \in Batches
      BY <1>4, <2>2
    <3>6. /\ runStatus[q] = "completed"
                => gitPhase[q] = "completed" /\ batchStatus[runBatch[q]] = "completed"
          /\ gitPhase[q] = "completed" => runStatus[q] = "completed"
          /\ runStatus[q] = "abandoned" => gitPhase[q] \in {"agent_editing", "commit_intent"}
      BY DEF Rows, RunRows
    <3> QED BY <3>1, <3>2, <3>3, <3>4, <3>5, <3>6 DEF Dangling
  <2> QED BY <2>1, <2>2
<1> QED BY <1>3, <1>6, <1>7, <1>8 DEF Rows

\* The operator queues the batch again.
LEMMA RetryRows ==
    ASSUME RowsTyped, Rows, Retryable,
           batchStatus' = [batchStatus EXCEPT ![currentBatch] = "queued"],
           cycleStatus' = "active",
           UNCHANGED <<currentBatch, latestRun, successfulRun, runBatch, runStatus, gitPhase>>
    PROVE  Rows'
<1> DEFINE b == currentBatch
<1> USE DEF RowsTyped
<1>b. /\ b \in Batches
      /\ b \in 1..N
      /\ Batches = 1..N
      /\ cycleStatus = "stopped"
      /\ batchStatus[b] = "stopped"
  BY DEF Batches, Retryable
<1>1. \A q \in Runs : ~Dangling(q)
  BY <1>b DEF Rows, RunRows, DanglingAt
<1>2. \A q \in Runs : runStatus[q] \notin NonTerminal
  BY DEF Retryable, Active
<1>3. \A q \in Runs : ~(runStatus[q] \in Ended /\ NeedsGit(q))
  <2> SUFFICES ASSUME NEW q \in Runs, runStatus[q] \in Ended, NeedsGit(q) PROVE FALSE
    OBVIOUS
  <2>1. runBatch[q] = b
    BY <1>1 DEF Rows, RunRows, OwedAt
  <2>2. q = latestRun[b]
    BY <2>1 DEF Rows, LatestRows, Started, Ended, NeedsGit, Early
  <2> QED BY <2>2 DEF Retryable, NeedsGit
<1>4. CycleRows'
  BY <1>b DEF Rows, CycleRows, BatchStates
<1>5. \A c \in Batches : batchStatus'[c] = "completed" <=> batchStatus[c] = "completed"
  BY <1>b
<1>6. LatestRows' /\ SuccessRows'
  BY DEF Rows, LatestRows, SuccessRows, Started
<1>7. RunRows'
  BY <1>1, <1>2, <1>3, <1>5 DEF Rows, RunRows, Dangling, NeedsGit
<1> QED BY <1>4, <1>6, <1>7 DEF Rows

\* A step that changes none of these rows keeps them in order.
LEMMA SameRows ==
    ASSUME Rows, UNCHANGED <<cycleVars, batchVars, runStatus, runBatch, gitPhase>>
    PROVE  Rows'
BY DEF cycleVars, batchVars, Rows, CycleRows, LatestRows, SuccessRows, RunRows, Started, Dangling,
   DanglingAt, ActiveAt, OwedAt, NeedsGit

\* Where the batch of a run stands when a task is about to complete or fail it.
BatchTurn ==
    \A t \in Tasks :
        /\ pc[t] = "pushed" => ~Dangling(on[t])
        /\ pc[t] \in {"recBatch", "batchDone"} => Dangling(on[t])
        /\ pc[t] = "recPushed" => NeedsGit(on[t])
        /\ pc[t] = "failing" => OwedAt(on[t])

\* The worker has a dangling run that has failed before it looks for work.
WillSee(r) ==
    \/ pc[Worker] \in {"idle", "sending"}
    \/ pc[Worker] \in Passing /\ r \in todo[Worker]
    \/ \E t \in Tasks : pc[t] = "recBatch" /\ on[t] = r

\* Nobody else completes a dangling run that has failed.
SeenInv == \A r \in Runs : Dangling(r) /\ runStatus[r] = "failed" => WillSee(r)

\* Every step keeps the rows in order: a batch is taken up only when what came
\* before is completed or was given up before it announced a commit.
LEMMA RowsNext ==
    ASSUME Orderly, Typing, PhaseIsTrue, EarlyInv, ActiveInv, LateTurn, PassInv, Rows, BatchTurn,
           SeenInv,
           [Next]_vars
    PROVE  Rows'
<1>t. RowsTyped
  BY RowsAreTyped
<1>a. OneActiveRun
  BY DEF ActiveInv
<1> USE DEF Tasks, Web, Reconcilers
<1>1. ASSUME NEW t \in Reconcilers, BeginPass(t) PROVE Rows'
  BY <1>1, SameRows DEF BeginPass, Return, cycleVars, batchVars, runVars
<1>2. ASSUME NEW t \in Reconcilers, NEW r \in Runs, ReconcilePush(t, r) PROVE Rows'
  BY <1>2, SameRows DEF ReconcilePush, Return, cycleVars, batchVars, runVars
<1>3. ASSUME NEW t \in Reconcilers, ReconcileBatch(t) PROVE Rows'
  <2>1. on[t] \in Runs /\ NeedsGit(on[t]) /\ runStatus[on[t]] \in {"running_agent", "failed"}
    BY <1>3 DEF ReconcileBatch, At, BatchTurn, PassInv, Passing, Candidates, Typing, TypeOK,
       RunTypeOK, TaskTypeOK, HoldsRun, Working, Counters, Tasks, Web, Reconcilers
  <2>2. /\ CompleteCycleBatch(on[t], FALSE) /\ runBatch' = runBatch /\ runStatus' = runStatus
        /\ gitPhase' = [gitPhase EXCEPT ![on[t]] = "pushed"]
    BY <1>3 DEF ReconcileBatch, SetPhase
  <2> QED BY <1>t, <2>1, <2>2, FinishRows
<1>4. ASSUME NEW t \in Reconcilers, ReconcileRun(t) PROVE Rows'
  <2>1. on[t] \in Runs /\ Dangling(on[t])
    BY <1>4 DEF ReconcileRun, At, BatchTurn, Typing, TypeOK, RunTypeOK, TaskTypeOK, HoldsRun,
       Working, Counters, Tasks, Web, Reconcilers
  <2>2. /\ runStatus' = [runStatus EXCEPT ![on[t]] = "completed"]
        /\ gitPhase' = [gitPhase EXCEPT ![on[t]] = "completed"]
        /\ UNCHANGED <<cycleVars, batchVars, runBatch>>
    BY <1>4 DEF ReconcileRun, SetStatus, SetPhase
  <2> QED BY <1>t, <2>1, <2>2, EndRows
<1>5. ASSUME NEW t \in Reconcilers, NEW r \in Runs, ReconcileInterrupt(t, r) PROVE Rows'
  <2>1. r \in Runs /\ runStatus[r] \in NonTerminal
    BY <1>5 DEF ReconcileInterrupt, At, Typing, TypeOK, RunTypeOK, TaskTypeOK, HoldsRun, Working,
       Counters, Orderly, OrderlyKinds, ActiveInv, LateTurn, NonTerminal
  <2>2. Dangling(r) => runBatch[r] = N
    BY <1>5 DEF ReconcileInterrupt, Dangling, Durable, NeedsGit, Sha, PhaseIsTrue, OnRemote
  <2>3. /\ SetStatus(r, "failed") /\ UNCHANGED <<gitPhase, runBatch, currentBatch, latestRun, successfulRun>>
        /\ cycleStatus' = "stopped" /\ batchStatus' = [batchStatus EXCEPT ![runBatch[r]] = "stopped"]
    BY <1>5 DEF ReconcileInterrupt, StopCycle
  <2>4. SuccessRows'
    BY <2>3 DEF Rows, SuccessRows
  <2>5. "failed" \in Ended
    BY DEF Ended
  <2> QED BY <1>a, <1>t, <2>1, <2>2, <2>3, <2>4, <2>5, StopRows
<1>6. ASSUME NEW t \in Reconcilers, NEW r \in Runs, ReconcileSkip(t, r) PROVE Rows'
  BY <1>6, SameRows DEF ReconcileSkip, Return, cycleVars, batchVars, runVars
<1>7. ASSUME NEW t \in Reconcilers, NEW r \in Runs, ReconcileGitFails(t, r) PROVE Rows'
  BY <1>7, SameRows DEF ReconcileGitFails, Return, cycleVars, batchVars, runVars
<1>8. ASSUME NEW t \in Reconcilers, ReconcileFinishFails(t) PROVE Rows'
  BY <1>8, SameRows DEF ReconcileFinishFails, Return, cycleVars, batchVars, runVars
<1>9. ASSUME NEW t \in Reconcilers, EndPass(t) PROVE Rows'
  BY <1>9, SameRows DEF EndPass, Return, cycleVars, batchVars, runVars
<1>10. ASSUME NEW r \in Runs, ClaimPending(r) PROVE Rows'
  BY <1>10, SameRows DEF ClaimPending, Return, cycleVars, batchVars, runVars
<1>11. ASSUME NEW r \in Runs, NEW b \in Batches, ClaimBatch(r, b) PROVE Rows'
  <2>1. b = currentBatch /\ currentBatch \in Queued /\ ~Started(r)
    BY <1>11 DEF ClaimBatch, Queued, Unused, Started
  <2>2. /\ ~Active
        /\ runStatus' = [runStatus EXCEPT ![r] = "pending_agent"]
        /\ runBatch' = [runBatch EXCEPT ![r] = currentBatch]
        /\ latestRun' = [latestRun EXCEPT ![currentBatch] = r]
        /\ batchStatus' = [batchStatus EXCEPT ![currentBatch] = "running"]
        /\ UNCHANGED <<cycleVars, successfulRun, gitPhase>>
    BY <1>11, <2>1 DEF ClaimBatch, SetStatus
  <2>3. \A q \in Runs : ~WillSee(q)
    BY <1>11 DEF ClaimBatch, At, Undisturbed, Awaits, WillSee, Passing, Orderly, OrderlyKinds
  <2>4. \A q \in Runs : ~Dangling(q)
    <3> SUFFICES ASSUME NEW q \in Runs, Dangling(q) PROVE FALSE
      OBVIOUS
    <3>1. runStatus[q] # "failed" /\ runStatus[q] \notin NonTerminal
      BY <2>2, <2>3 DEF SeenInv, Active
    <3>2. runStatus[q] \notin {"completed", "abandoned", "none"}
      BY <1>t DEF Rows, RunRows, Dangling, RowsTyped, Started
    <3> QED BY <1>t, <3>1, <3>2 DEF RowsTyped, RunStates, NonTerminal
  <2> QED BY <1>t, <2>1, <2>2, <2>4, ClaimRows
<1>12. ASSUME ClaimNothing PROVE Rows'
  BY <1>12, SameRows DEF ClaimNothing, Return, cycleVars, batchVars, runVars
<1>13. ASSUME ClaimLeaseExpires PROVE Rows'
  BY <1>13, SameRows DEF ClaimLeaseExpires, Return, cycleVars, batchVars, runVars
<1>14. ASSUME Setup PROVE Rows'
  <2>1. on[Worker] \in Runs /\ runStatus[on[Worker]] \in NonTerminal /\ gitPhase[on[Worker]] \notin Final
    BY <1>14 DEF Setup, At, Typing, TypeOK, RunTypeOK, TaskTypeOK, HoldsRun, Working, Counters,
       ActiveInv, LateTurn, EarlyInv, EarlyRun, EarlyTurn, NonTerminal, Final
  <2>2. /\ runStatus[on[Worker]] \in NonTerminal /\ "agent_editing" \in Phases \ {"completed"}
        /\ runStatus' = [runStatus EXCEPT ![on[Worker]] = runStatus[on[Worker]]]
        /\ gitPhase' = [gitPhase EXCEPT ![on[Worker]] = "agent_editing"]
    BY <1>14, <1>t, <2>1 DEF Setup, SetStatus, SetPhase, RowsTyped, NonTerminal, Phases, Final,
       runVars
  <2>3. /\ batchStatus' = batchStatus
        /\ UNCHANGED <<cycleStatus, currentBatch, latestRun, successfulRun, runBatch>>
    BY <1>14 DEF Setup, cycleVars, batchVars, runVars
  <2> QED BY <1>a, <1>t, <2>1, <2>2, <2>3, GoesOnRows
<1>15. ASSUME Launch PROVE Rows'
  <2>1. on[Worker] \in Runs /\ runStatus[on[Worker]] \in NonTerminal /\ gitPhase[on[Worker]] \notin Final
    BY <1>15 DEF Launch, At, Typing, TypeOK, RunTypeOK, TaskTypeOK, HoldsRun, Working, Counters,
       ActiveInv, LateTurn, EarlyInv, EarlyRun, EarlyTurn, NonTerminal, Final
  <2>2. /\ "running_agent" \in NonTerminal /\ gitPhase[on[Worker]] \in Phases \ {"completed"}
        /\ runStatus' = [runStatus EXCEPT ![on[Worker]] = "running_agent"]
        /\ gitPhase' = [gitPhase EXCEPT ![on[Worker]] = gitPhase[on[Worker]]]
    BY <1>15, <1>t, <2>1 DEF Launch, SetStatus, SetPhase, RowsTyped, NonTerminal, Phases, Final,
       runVars
  <2>3. /\ batchStatus' = batchStatus
        /\ UNCHANGED <<cycleStatus, currentBatch, latestRun, successfulRun, runBatch>>
    BY <1>15 DEF Launch, cycleVars, batchVars, runVars
  <2> QED BY <1>a, <1>t, <2>1, <2>2, <2>3, GoesOnRows
<1>16. ASSUME NEW t \in Hooks, NEW r \in Runs, ClaimAwaiting(t, r) PROVE Rows'
  <2>1. r \in Runs /\ runStatus[r] \in NonTerminal /\ gitPhase[r] \notin Final
    BY <1>16 DEF ClaimAwaiting, AwaitsAnswer, At, Typing, TypeOK, RunTypeOK, TaskTypeOK,
       HoldsRun, Working, Counters, ActiveInv, LateTurn, EarlyInv, EarlyRun, EarlyTurn,
       NonTerminal, Final
  <2>2. /\ "running_agent" \in NonTerminal /\ gitPhase[r] \in Phases \ {"completed"}
        /\ runStatus' = [runStatus EXCEPT ![r] = "running_agent"]
        /\ gitPhase' = [gitPhase EXCEPT ![r] = gitPhase[r]]
    BY <1>16, <1>t, <2>1 DEF ClaimAwaiting, AwaitsAnswer, SetStatus, SetPhase, RowsTyped,
       NonTerminal, Phases, Final, runVars
  <2>3. /\ batchStatus' = batchStatus
        /\ UNCHANGED <<cycleStatus, currentBatch, latestRun, successfulRun, runBatch>>
    BY <1>16 DEF ClaimAwaiting, AwaitsAnswer, cycleVars, batchVars, runVars
  <2> QED BY <1>a, <1>t, <2>1, <2>2, <2>3, GoesOnRows
<1>17. ASSUME NEW t \in Web, AgentEdits(t) PROVE Rows'
  BY <1>17, SameRows DEF AgentEdits, Return, cycleVars, batchVars, runVars
<1>18. ASSUME NEW t \in Web, TurnAwaits(t) PROVE Rows'
  <2>1. on[t] \in Runs /\ runStatus[on[t]] \in NonTerminal /\ gitPhase[on[t]] \notin Final
    BY <1>18 DEF TurnAwaits, At, Typing, TypeOK, RunTypeOK, TaskTypeOK, HoldsRun, Working,
       Counters, ActiveInv, LateTurn, EarlyInv, EarlyRun, EarlyTurn, NonTerminal, Final
  <2>2. /\ "awaiting_user" \in NonTerminal /\ gitPhase[on[t]] \in Phases \ {"completed"}
        /\ runStatus' = [runStatus EXCEPT ![on[t]] = "awaiting_user"]
        /\ gitPhase' = [gitPhase EXCEPT ![on[t]] = gitPhase[on[t]]]
    BY <1>18, <1>t, <2>1 DEF TurnAwaits, SetStatus, SetPhase, RowsTyped, NonTerminal, Phases,
       Final, runVars
  <2>3. /\ batchStatus' = [batchStatus EXCEPT ![runBatch[on[t]]] = "awaiting_user"]
        /\ UNCHANGED <<cycleStatus, currentBatch, latestRun, successfulRun, runBatch>>
    BY <1>18 DEF TurnAwaits, cycleVars, batchVars, runVars
  <2> QED BY <1>a, <1>t, <2>1, <2>2, <2>3, GoesOnRows
<1>19. ASSUME NEW t \in Web, MessagesSent(t) PROVE Rows'
  BY <1>19, SameRows DEF MessagesSent, Return, cycleVars, batchVars, runVars
<1>20. ASSUME NEW t \in Web, TurnDone(t) PROVE Rows'
  <2>1. on[t] \in Runs /\ runStatus[on[t]] \in NonTerminal /\ gitPhase[on[t]] \notin Final
    BY <1>20 DEF TurnDone, At, Typing, TypeOK, RunTypeOK, TaskTypeOK, HoldsRun, Working,
       Counters, ActiveInv, LateTurn, EarlyInv, EarlyRun, EarlyTurn, NonTerminal, Final
  <2>2. /\ runStatus[on[t]] \in NonTerminal /\ "commit_intent" \in Phases \ {"completed"}
        /\ runStatus' = [runStatus EXCEPT ![on[t]] = runStatus[on[t]]]
        /\ gitPhase' = [gitPhase EXCEPT ![on[t]] = "commit_intent"]
    BY <1>20, <1>t, <2>1 DEF TurnDone, SetStatus, SetPhase, RowsTyped, NonTerminal, Phases,
       Final, runVars
  <2>3. /\ batchStatus' = batchStatus
        /\ UNCHANGED <<cycleStatus, currentBatch, latestRun, successfulRun, runBatch>>
    BY <1>20 DEF TurnDone, cycleVars, batchVars, runVars
  <2> QED BY <1>a, <1>t, <2>1, <2>2, <2>3, GoesOnRows
<1>21. ASSUME NEW t \in Web, GitCommit(t) PROVE Rows'
  BY <1>21, SameRows DEF GitCommit, Return, cycleVars, batchVars, runVars
<1>22. ASSUME NEW t \in Web, RecordCommit(t) PROVE Rows'
  <2>1. on[t] \in Runs /\ runStatus[on[t]] \in NonTerminal /\ gitPhase[on[t]] \notin Final
    BY <1>22 DEF RecordCommit, At, Typing, TypeOK, RunTypeOK, TaskTypeOK, HoldsRun, Working,
       Counters, ActiveInv, LateTurn, EarlyInv, EarlyRun, EarlyTurn, NonTerminal, Final
  <2>2. /\ runStatus[on[t]] \in NonTerminal /\ "committed" \in Phases \ {"completed"}
        /\ runStatus' = [runStatus EXCEPT ![on[t]] = runStatus[on[t]]]
        /\ gitPhase' = [gitPhase EXCEPT ![on[t]] = "committed"]
    BY <1>22, <1>t, <2>1 DEF RecordCommit, SetStatus, SetPhase, RowsTyped, NonTerminal, Phases,
       Final, runVars
  <2>3. /\ batchStatus' = batchStatus
        /\ UNCHANGED <<cycleStatus, currentBatch, latestRun, successfulRun, runBatch>>
    BY <1>22 DEF RecordCommit, cycleVars, batchVars, runVars
  <2> QED BY <1>a, <1>t, <2>1, <2>2, <2>3, GoesOnRows
<1>23. ASSUME NEW t \in Web, GitPush(t) PROVE Rows'
  BY <1>23, SameRows DEF GitPush, Return, cycleVars, batchVars, runVars
<1>24. ASSUME NEW t \in Web, RecordPush(t) PROVE Rows'
  <2>1. on[t] \in Runs /\ runStatus[on[t]] \in NonTerminal /\ gitPhase[on[t]] \notin Final
    BY <1>24 DEF RecordPush, At, Typing, TypeOK, RunTypeOK, TaskTypeOK, HoldsRun, Working,
       Counters, ActiveInv, LateTurn, EarlyInv, EarlyRun, EarlyTurn, NonTerminal, Final
  <2>2. /\ runStatus[on[t]] \in NonTerminal /\ "pushed" \in Phases \ {"completed"}
        /\ runStatus' = [runStatus EXCEPT ![on[t]] = runStatus[on[t]]]
        /\ gitPhase' = [gitPhase EXCEPT ![on[t]] = "pushed"]
    BY <1>24, <1>t, <2>1 DEF RecordPush, SetStatus, SetPhase, RowsTyped, NonTerminal, Phases,
       Final, runVars
  <2>3. /\ batchStatus' = batchStatus
        /\ UNCHANGED <<cycleStatus, currentBatch, latestRun, successfulRun, runBatch>>
    BY <1>24 DEF RecordPush, cycleVars, batchVars, runVars
  <2> QED BY <1>a, <1>t, <2>1, <2>2, <2>3, GoesOnRows
<1>25. ASSUME NEW t \in Web, CompleteBatch(t) PROVE Rows'
  <2>1. /\ on[t] \in Runs /\ NeedsGit(on[t]) /\ runStatus[on[t]] = "running_agent"
        /\ gitPhase[on[t]] = "pushed" /\ ~Dangling(on[t])
    BY <1>25 DEF CompleteBatch, At, BatchTurn, LateTurn, NeedsGit, Typing, TypeOK, RunTypeOK,
       TaskTypeOK, HoldsRun, Working, Counters, Tasks
  <2>2. /\ CompleteCycleBatch(on[t], Holds(t)) /\ runBatch' = runBatch /\ runStatus' = runStatus
        /\ gitPhase' = [gitPhase EXCEPT ![on[t]] = "pushed"]
    BY <1>25, <1>t, <2>1 DEF CompleteBatch, runVars, RowsTyped
  <2>3. cycleStatus = "active"
    BY <2>1 DEF Rows, RunRows, ActiveAt, NonTerminal
  <2>4. Holds(t) \in BOOLEAN
    BY DEF Holds
  <2> QED BY <1>t, <2>1, <2>2, <2>3, <2>4, FinishRows
<1>26. ASSUME NEW t \in Web, CompleteRun(t) PROVE Rows'
  <2>1. on[t] \in Runs /\ Dangling(on[t])
    BY <1>26 DEF CompleteRun, At, BatchTurn, Typing, TypeOK, RunTypeOK, TaskTypeOK, HoldsRun,
       Working, Counters, Tasks, Web, Reconcilers
  <2>2. /\ runStatus' = [runStatus EXCEPT ![on[t]] = "completed"]
        /\ gitPhase' = [gitPhase EXCEPT ![on[t]] = "completed"]
        /\ UNCHANGED <<cycleVars, batchVars, runBatch>>
    BY <1>26 DEF CompleteRun, SetStatus, SetPhase
  <2> QED BY <1>t, <2>1, <2>2, EndRows
<1>27. ASSUME SetupFails PROVE Rows'
  <2>1. on[Worker] \in Runs /\ runStatus[on[Worker]] \in NonTerminal
    BY <1>27 DEF SetupFails, FailRun, At, Typing, TypeOK, RunTypeOK, TaskTypeOK, HoldsRun,
       Working, Counters, Orderly, OrderlyKinds, ActiveInv, LateTurn, NonTerminal
  <2>2. Dangling(on[Worker]) => runBatch[on[Worker]] = N
    BY <1>27 DEF SetupFails, Dangling, At, LateTurn, EarlyInv, EarlyTurn, EarlyRun, Orderly,
       OrderlyKinds
  <2>3. /\ SetStatus(on[Worker], "failed") /\ UNCHANGED <<gitPhase, runBatch, currentBatch, latestRun, successfulRun>>
        /\ cycleStatus' = "stopped" /\ batchStatus' = [batchStatus EXCEPT ![runBatch[on[Worker]]] = "stopped"]
    BY <1>27 DEF SetupFails, FailRun, StopCycle
  <2>4. SuccessRows'
    BY <2>3 DEF Rows, SuccessRows
  <2>5. "failed" \in Ended
    BY DEF Ended
  <2> QED BY <1>a, <1>t, <2>1, <2>2, <2>3, <2>4, <2>5, StopRows
<1>28. ASSUME NEW t \in Web, TurnFails(t) PROVE Rows'
  <2>1. on[t] \in Runs /\ runStatus[on[t]] \in NonTerminal
    BY <1>28 DEF TurnFails, FailRun, At, Typing, TypeOK, RunTypeOK, TaskTypeOK, HoldsRun,
       Working, Counters, Orderly, OrderlyKinds, ActiveInv, LateTurn, NonTerminal
  <2>2. Dangling(on[t]) => runBatch[on[t]] = N
    BY <1>28 DEF TurnFails, Dangling, At, LateTurn, EarlyInv, EarlyTurn, EarlyRun, Orderly,
       OrderlyKinds
  <2>3. /\ SetStatus(on[t], "failed") /\ UNCHANGED <<gitPhase, runBatch, currentBatch, latestRun, successfulRun>>
        /\ cycleStatus' = "stopped" /\ batchStatus' = [batchStatus EXCEPT ![runBatch[on[t]]] = "stopped"]
    BY <1>28 DEF TurnFails, FailRun, StopCycle
  <2>4. SuccessRows'
    BY <2>3 DEF Rows, SuccessRows
  <2>5. "failed" \in Ended
    BY DEF Ended
  <2> QED BY <1>a, <1>t, <2>1, <2>2, <2>3, <2>4, <2>5, StopRows
<1>29. ASSUME NEW t \in Web, SendFails(t) PROVE Rows'
  <2>1. on[t] \in Runs /\ runStatus[on[t]] \in NonTerminal
    BY <1>29 DEF SendFails, FailRun, At, Typing, TypeOK, RunTypeOK, TaskTypeOK, HoldsRun,
       Working, Counters, Orderly, OrderlyKinds, ActiveInv, LateTurn, NonTerminal
  <2>2. Dangling(on[t]) => runBatch[on[t]] = N
    BY <1>29 DEF SendFails, Dangling, At, EarlyInv, EarlyRun, Orderly, OrderlyKinds, Typing,
       HoldsRun, Working,
       Counters
  <2>3. /\ SetStatus(on[t], "failed") /\ UNCHANGED <<gitPhase, runBatch, currentBatch, latestRun, successfulRun>>
        /\ cycleStatus' = "stopped" /\ batchStatus' = [batchStatus EXCEPT ![runBatch[on[t]]] = "stopped"]
    BY <1>29 DEF SendFails, FailRun, StopCycle
  <2>4. SuccessRows'
    BY <2>3 DEF Rows, SuccessRows
  <2>5. "failed" \in Ended
    BY DEF Ended
  <2> QED BY <1>a, <1>t, <2>1, <2>2, <2>3, <2>4, <2>5, StopRows
<1>30. ASSUME NEW t \in Web, CompletionFails(t) PROVE Rows'
  <2>1. on[t] \in Runs /\ runStatus[on[t]] \in NonTerminal
    BY <1>30 DEF CompletionFails, FailRun, At, Typing, TypeOK, RunTypeOK, TaskTypeOK, HoldsRun,
       Working, Counters, Orderly, OrderlyKinds, ActiveInv, LateTurn, NonTerminal
  <2>2. Dangling(on[t]) => runBatch[on[t]] = N
    BY <1>30 DEF CompletionFails, Dangling, At, LateTurn, EarlyInv, EarlyTurn, BatchTurn, Tasks
  <2>3. /\ SetStatus(on[t], "failed") /\ UNCHANGED <<gitPhase, runBatch, currentBatch, latestRun, successfulRun>>
        /\ cycleStatus' = "stopped" /\ batchStatus' = [batchStatus EXCEPT ![runBatch[on[t]]] = "stopped"]
    BY <1>30 DEF CompletionFails, FailRun, StopCycle
  <2>4. SuccessRows'
    BY <2>3 DEF Rows, SuccessRows
  <2>5. "failed" \in Ended
    BY DEF Ended
  <2> QED BY <1>a, <1>t, <2>1, <2>2, <2>3, <2>4, <2>5, StopRows
<1>31. ASSUME NEW t \in Web, FinalJsonFails(t) PROVE Rows'
  <2>1. on[t] \in Runs /\ runStatus[on[t]] \in NonTerminal
    BY <1>31 DEF FinalJsonFails, At, Typing, TypeOK, RunTypeOK, TaskTypeOK, HoldsRun, Working,
       Counters, LateTurn, NonTerminal
  <2>2. ~Dangling(on[t]) /\ gitPhase[on[t]] = "pushed"
    BY <1>31 DEF FinalJsonFails, At, BatchTurn, LateTurn, Tasks
  <2>3. /\ SetStatus(on[t], "failed") /\ UNCHANGED <<gitPhase, runBatch, currentBatch, latestRun>>
        /\ cycleStatus' = "stopped" /\ batchStatus' = [batchStatus EXCEPT ![runBatch[on[t]]] = "stopped"]
        /\ successfulRun' = [successfulRun EXCEPT ![runBatch[on[t]]] = on[t]]
    BY <1>31 DEF FinalJsonFails
  <2>4. runBatch[on[t]] = currentBatch /\ currentBatch \in 1..N /\ Batches = 1..N
    BY <1>t, <2>1, <2>2 DEF Rows, RunRows, ActiveAt, RowsTyped, Batches
  <2>5. latestRun[runBatch[on[t]]] = on[t]
    BY <2>1, <2>2 DEF Rows, LatestRows, Started, NonTerminal, Ended
  <2>6. SuccessRows'
    BY <1>t, <2>1, <2>2, <2>3, <2>5 DEF Rows, SuccessRows, RowsTyped, Final
  <2>7. \A b \in Batches : b > currentBatch => successfulRun'[b] = successfulRun[b]
    BY <1>t, <2>1, <2>3, <2>4 DEF RowsTyped
  <2>8. "failed" \in Ended
    BY DEF Ended
  <2> QED BY <1>a, <1>t, <2>1, <2>2, <2>3, <2>6, <2>7, <2>8, StopRows
<1>32. ASSUME NEW t \in Web, FailAgain(t) PROVE Rows'
  <2>1. on[t] \in Runs /\ OwedAt(on[t])
    BY <1>32 DEF FailAgain, At, BatchTurn, Typing, TypeOK, RunTypeOK, TaskTypeOK, HoldsRun,
       Working, Counters, Tasks
  <2>2. batchStatus[currentBatch] = "stopped" /\ cycleStatus = "stopped"
    BY <2>1 DEF Rows, CycleRows, OwedAt
  <2>3. UNCHANGED <<cycleVars, batchVars>>
    BY <1>32, <1>t, <2>1, <2>2 DEF FailAgain, StopCycle, OwedAt, RowsTyped, cycleVars, batchVars
  <2>4. UNCHANGED <<runStatus, runBatch, gitPhase>>
    BY <1>32 DEF FailAgain, runVars
  <2> QED BY <2>3, <2>4, SameRows
<1>33. ASSUME NEW process \in SUBSET Tasks, Crash(process) PROVE Rows'
  BY <1>33, SameRows DEF Crash, cycleVars, batchVars, runVars
<1>34. ASSUME NEW r \in Runs, LeaseExpires(r) PROVE Rows'
  BY <1>34, SameRows DEF LeaseExpires, Return, cycleVars, batchVars, runVars
<1>35. ASSUME NEW r \in Runs, BackoffEnds(r) PROVE Rows'
  BY <1>35, SameRows DEF BackoffEnds, Return, cycleVars, batchVars, runVars
<1>36. ASSUME NEW t \in Clis, Retry(t) PROVE Rows'
  <2>1. UNCHANGED <<currentBatch, latestRun, successfulRun, runVars>>
    BY <1>36 DEF Retry
  <2>2. CASE Retryable
    <3>1. batchStatus' = [batchStatus EXCEPT ![currentBatch] = "queued"] /\ cycleStatus' = "active"
      BY <1>36, <2>2 DEF Retry
    <3> QED BY <1>t, <2>1, <2>2, <3>1, RetryRows DEF runVars
  <2>3. CASE ~Retryable
    <3>1. UNCHANGED <<batchStatus, cycleStatus>>
      BY <1>36, <2>3 DEF Retry
    <3> QED BY <2>1, <3>1, SameRows DEF cycleVars, batchVars, runVars
  <2> QED BY <2>2, <2>3
<1>37. ASSUME NEW r \in Runs, Abandon(r) PROVE Rows'
  <2>1. runStatus[r] \in NonTerminal /\ gitPhase[r] \in {"agent_editing", "commit_intent"}
    BY <1>37, <1>t DEF Abandon, MayAbandon, BaselineComplete, Rows, RunRows, RowsTyped, Phases,
       NonTerminal
  <2>2. ~Dangling(r)
    BY <2>1 DEF Dangling
  <2>3. /\ SetStatus(r, "abandoned") /\ UNCHANGED <<gitPhase, runBatch, currentBatch, latestRun, successfulRun>>
        /\ cycleStatus' = "stopped" /\ batchStatus' = [batchStatus EXCEPT ![runBatch[r]] = "stopped"]
    BY <1>37 DEF Abandon, StopCycle
  <2>4. SuccessRows'
    BY <2>3 DEF Rows, SuccessRows
  <2>5. "abandoned" \in Ended
    BY DEF Ended
  <2> QED BY <1>a, <1>t, <2>1, <2>2, <2>3, <2>4, <2>5, StopRows
<1>38. ASSUME NEW r \in Runs, AbandonEnded(r) PROVE Rows'
  BY <1>38, SameRows DEF AbandonEnded, Return, cycleVars, batchVars, runVars
<1>39. ASSUME NEW c \in Outsiders, OutsideCommit(c) PROVE Rows'
  BY <1>39, SameRows DEF OutsideCommit, Return, cycleVars, batchVars, runVars
<1>40. ASSUME UNCHANGED vars PROVE Rows'
  BY <1>40, SameRows DEF vars, Return, cycleVars, batchVars, runVars
<1> QED
  BY <1>1, <1>2, <1>3, <1>4, <1>5, <1>6, <1>7, <1>8, <1>9, <1>10, <1>11, <1>12, <1>13,
     <1>14, <1>15, <1>16, <1>17, <1>18, <1>19, <1>20, <1>21, <1>22, <1>23, <1>24, <1>25,
     <1>26, <1>27, <1>28, <1>29, <1>30, <1>31, <1>32, <1>33, <1>34, <1>35, <1>36, <1>37,
     <1>38, <1>39, <1>40 DEF Next, TurnStep, ReconcileStep, WorkerClaim, Time, Tasks, Web

\* Every step keeps where the batch of a run stands.
LEMMA BatchNext ==
    ASSUME Orderly, Typing, EarlyInv, ActiveInv, OneBusy, TaskInv, Rows, BatchTurn, [Next]_vars
    PROVE  BatchTurn'
<1>t. RowsTyped
  BY RowsAreTyped
<1> USE DurabilityAssumption DEF Orderly, OrderlyKinds, Typing, TypeOK, RunTypeOK,
        TaskTypeOK, HoldsRun, OneBusy, Awaits, Undisturbed, BatchTurn, Dangling, OwedAt,
        NeedsGit, cycleVars, batchVars, runVars, repoVars, taskVars, Tasks, Web, Reconcilers
<1>1. ASSUME NEW t \in Reconcilers, BeginPass(t) PROVE BatchTurn'
  BY <1>1 DEF BeginPass, At, Goto, Working, Counters
<1>2. ASSUME NEW t \in Reconcilers, NEW r \in Runs, ReconcilePush(t, r) PROVE BatchTurn'
  BY <1>2 DEF ReconcilePush, At, Goto, Looking, Durable, TriesPush, NeedsGit,
     UnrecordedCommit, Working, Counters
<1>3. ASSUME NEW t \in Reconcilers, ReconcileBatch(t) PROVE BatchTurn'
  <2>1. \A u \in Tasks \ {t} : pc'[u] \in {"idle", "claim", "agent", "sending"}
    BY <1>3 DEF ReconcileBatch, At, Goto, Working, Counters
  <2>2. on[t] \in Runs /\ on' = on /\ runBatch' = runBatch /\ pc'[t] = "recBatch"
        /\ CompleteCycleBatch(on[t], FALSE) /\ gitPhase'[on[t]] = "pushed"
    BY <1>3 DEF ReconcileBatch, At, Goto, SetPhase, Working, Counters
  <2>3. batchStatus'[runBatch[on[t]]] = "completed"
    BY <1>t, <2>2, FinishMarks
  <2> QED BY <2>1, <2>2, <2>3
<1>4. ASSUME NEW t \in Reconcilers, ReconcileRun(t) PROVE BatchTurn'
  BY <1>4 DEF ReconcileRun, At, Goto, SetStatus, SetPhase, Working, Counters
<1>5. ASSUME NEW t \in Reconcilers, NEW r \in Runs, ReconcileInterrupt(t, r) PROVE BatchTurn'
  BY <1>5 DEF ReconcileInterrupt, At, Looking, SetStatus, Working, Counters
<1>6. ASSUME NEW t \in Reconcilers, NEW r \in Runs, ReconcileSkip(t, r) PROVE BatchTurn'
  BY <1>6 DEF ReconcileSkip, Working, Counters
<1>7. ASSUME NEW t \in Reconcilers, NEW r \in Runs, ReconcileGitFails(t, r) PROVE BatchTurn'
  BY <1>7 DEF ReconcileGitFails, Working, Counters
<1>8. ASSUME NEW t \in Reconcilers, ReconcileFinishFails(t) PROVE BatchTurn'
  BY <1>8 DEF ReconcileFinishFails, At, Goto, Working, Counters
<1>9. ASSUME NEW t \in Reconcilers, EndPass(t) PROVE BatchTurn'
  BY <1>9 DEF EndPass, At, Goto, Working, Counters
<1>10. ASSUME NEW r \in Runs, ClaimPending(r) PROVE BatchTurn'
  BY <1>10 DEF ClaimPending, At, Goto, Pending, BaselineComplete, Working, Counters
<1>11. ASSUME NEW r \in Runs, NEW b \in Batches, ClaimBatch(r, b) PROVE BatchTurn'
  BY <1>11 DEF ClaimBatch, At, Goto, SetStatus, Unused, Active, Queued, Working, Counters
<1>12. ASSUME ClaimNothing PROVE BatchTurn'
  BY <1>12 DEF ClaimNothing, At, Goto, Working, Counters
<1>13. ASSUME ClaimLeaseExpires PROVE BatchTurn'
  BY <1>13 DEF ClaimLeaseExpires, Working, Counters
<1>14. ASSUME Setup PROVE BatchTurn'
  BY <1>14 DEF Setup, At, Goto, SetPhase, Working, Counters
<1>15. ASSUME Launch PROVE BatchTurn'
  BY <1>15 DEF Launch, At, Goto, SetStatus, Working, Counters
<1>16. ASSUME NEW t \in Hooks, NEW r \in Runs, ClaimAwaiting(t, r) PROVE BatchTurn'
  BY <1>16 DEF ClaimAwaiting, At, Goto, SetStatus, AwaitsAnswer, Working, Counters
<1>17. ASSUME NEW t \in Web, AgentEdits(t) PROVE BatchTurn'
  BY <1>17 DEF AgentEdits, Working, Counters
<1>18. ASSUME NEW t \in Web, TurnAwaits(t) PROVE BatchTurn'
  BY <1>18 DEF TurnAwaits, At, Goto, SetStatus, Working, Counters
<1>19. ASSUME NEW t \in Web, MessagesSent(t) PROVE BatchTurn'
  BY <1>19 DEF MessagesSent, At, Goto, Return, Working, Counters
<1>20. ASSUME NEW t \in Web, TurnDone(t) PROVE BatchTurn'
  BY <1>20 DEF TurnDone, At, Goto, SetPhase, Working, Counters
<1>21. ASSUME NEW t \in Web, GitCommit(t) PROVE BatchTurn'
  BY <1>21 DEF GitCommit, At, Goto, Working, Counters
<1>22. ASSUME NEW t \in Web, RecordCommit(t) PROVE BatchTurn'
  BY <1>22 DEF RecordCommit, At, Goto, SetPhase, Working, Counters
<1>23. ASSUME NEW t \in Web, GitPush(t) PROVE BatchTurn'
  BY <1>23 DEF GitPush, At, Goto, Working, Counters
<1>24. ASSUME NEW t \in Web, RecordPush(t) PROVE BatchTurn'
  <2>1. \A u \in Tasks \ {t} : pc'[u] \in {"idle", "claim", "agent", "sending"}
    BY <1>24 DEF RecordPush, At, Goto, Working, Counters
  <2>2. /\ on[t] \in Runs
        /\ on' = on
        /\ runBatch' = runBatch
        /\ batchStatus' = batchStatus
        /\ pc'[t] = "pushed"
        /\ runStatus[on[t]] \in NonTerminal /\ ~Dangling(on[t])
    BY <1>24 DEF RecordPush, At, Goto, Working, Counters, TaskInv, LateTurn, NonTerminal
  <2>3. ActiveAt(on[t])
    BY <2>2 DEF Rows, RunRows
  <2>4. batchStatus[runBatch[on[t]]] # "completed"
    BY <2>3 DEF ActiveAt
  <2> QED BY <2>1, <2>2, <2>4
<1>25. ASSUME NEW t \in Web, CompleteBatch(t) PROVE BatchTurn'
  <2>1. \A u \in Tasks \ {t} : pc'[u] \in {"idle", "claim", "agent", "sending"}
    BY <1>25 DEF CompleteBatch, At, Goto, Working, Counters
  <2>2. on[t] \in Runs /\ on' = on /\ runBatch' = runBatch /\ gitPhase' = gitPhase /\ pc'[t] = "batchDone"
        /\ CompleteCycleBatch(on[t], Holds(t)) /\ gitPhase[on[t]] = "pushed"
    BY <1>25 DEF CompleteBatch, At, Goto, Working, Counters, TaskInv, LateTurn
  <2>3. batchStatus'[runBatch[on[t]]] = "completed"
    BY <1>t, <2>2, FinishMarks
  <2> QED BY <2>1, <2>2, <2>3
<1>26. ASSUME NEW t \in Web, CompleteRun(t) PROVE BatchTurn'
  BY <1>26 DEF CompleteRun, At, Goto, Return, SetStatus, SetPhase, Working, Counters
<1>27. ASSUME SetupFails PROVE BatchTurn'
  BY <1>27 DEF SetupFails, At, Goto, Return, FailRun, SetStatus, StopCycle, Working,
     Counters
<1>28. ASSUME NEW t \in Web, TurnFails(t) PROVE BatchTurn'
  BY <1>28 DEF TurnFails, At, Goto, Return, FailRun, SetStatus, Working, Counters
<1>29. ASSUME NEW t \in Web, SendFails(t) PROVE BatchTurn'
  BY <1>29 DEF SendFails, At, Goto, Return, FailRun, SetStatus, Working, Counters
<1>30. ASSUME NEW t \in Web, CompletionFails(t) PROVE BatchTurn'
  <2>1. \A u \in Tasks \ {t} : pc'[u] \in {"idle", "claim", "agent", "sending"}
    BY <1>30 DEF CompletionFails, FailRun, At, Goto, Working, Counters
  <2>2. on[t] \in Runs /\ on' = on /\ runBatch' = runBatch /\ currentBatch' = currentBatch
        /\ cycleStatus' = "stopped" /\ pc'[t] = "failing"
    BY <1>30 DEF CompletionFails, FailRun, StopCycle, At, Goto, Working, Counters
  <2>3. runStatus[on[t]] \in NonTerminal /\ (Dangling(on[t]) => runBatch[on[t]] = N)
    BY <1>30 DEF CompletionFails, At, Working, Counters, TaskInv, LateTurn, ActiveInv, EarlyInv,
       EarlyTurn, NonTerminal
  <2>4. runBatch[on[t]] = currentBatch
    BY <1>t, <2>2, <2>3, ActiveIsCurrent
  <2> QED BY <2>1, <2>2, <2>4
<1>31. ASSUME NEW t \in Web, FinalJsonFails(t) PROVE BatchTurn'
  <2>1. \A u \in Tasks \ {t} : pc'[u] \in {"idle", "claim", "agent", "sending"}
    BY <1>31 DEF FinalJsonFails, At, Goto, Working, Counters
  <2>2. on[t] \in Runs /\ on' = on /\ runBatch' = runBatch /\ currentBatch' = currentBatch
        /\ cycleStatus' = "stopped" /\ pc'[t] = "failing"
    BY <1>31 DEF FinalJsonFails, At, Goto, Working, Counters
  <2>3. runStatus[on[t]] \in NonTerminal /\ (Dangling(on[t]) => runBatch[on[t]] = N)
    BY <1>31 DEF FinalJsonFails, At, Working, Counters, TaskInv, LateTurn, ActiveInv, EarlyInv,
       EarlyTurn, NonTerminal
  <2>4. runBatch[on[t]] = currentBatch
    BY <1>t, <2>2, <2>3, ActiveIsCurrent
  <2> QED BY <2>1, <2>2, <2>4
<1>32. ASSUME NEW t \in Web, FailAgain(t) PROVE BatchTurn'
  BY <1>32 DEF FailAgain, At, Goto, Return, Working, Counters
<1>33. ASSUME NEW process \in SUBSET Tasks, Crash(process) PROVE BatchTurn'
  BY <1>33 DEF Crash, Working, Counters
<1>34. ASSUME NEW r \in Runs, LeaseExpires(r) PROVE BatchTurn'
  BY <1>34 DEF LeaseExpires, InProgress, Working, Counters
<1>35. ASSUME NEW r \in Runs, BackoffEnds(r) PROVE BatchTurn'
  BY <1>35 DEF BackoffEnds, Working, Counters
<1>36. ASSUME NEW t \in Clis, Retry(t) PROVE BatchTurn'
  BY <1>36 DEF Retry, At, Goto, Retryable, Working, Counters
<1>37. ASSUME NEW r \in Runs, Abandon(r) PROVE BatchTurn'
  BY <1>37 DEF Abandon, SetStatus, MayAbandon, InProgress, Working, Counters
<1>38. ASSUME NEW r \in Runs, AbandonEnded(r) PROVE BatchTurn'
  BY <1>38 DEF AbandonEnded, Working, Counters
<1>39. ASSUME NEW c \in Outsiders, OutsideCommit(c) PROVE BatchTurn'
  BY <1>39 DEF OutsideCommit, Working, Counters
<1>40. ASSUME UNCHANGED vars PROVE BatchTurn'
  BY <1>40 DEF vars, Working, Counters
<1> HIDE DEF Orderly, OrderlyKinds, Typing, TypeOK, RunTypeOK, TaskTypeOK, HoldsRun,
         OneBusy, Awaits, Undisturbed, BatchTurn, Dangling, OwedAt, NeedsGit, cycleVars,
         batchVars, runVars, repoVars, taskVars, Tasks, Web, Reconcilers
<1> QED
  BY <1>1, <1>2, <1>3, <1>4, <1>5, <1>6, <1>7, <1>8, <1>9, <1>10, <1>11, <1>12, <1>13,
     <1>14, <1>15, <1>16, <1>17, <1>18, <1>19, <1>20, <1>21, <1>22, <1>23, <1>24, <1>25,
     <1>26, <1>27, <1>28, <1>29, <1>30, <1>31, <1>32, <1>33, <1>34, <1>35, <1>36, <1>37,
     <1>38, <1>39, <1>40 DEF Next, TurnStep, ReconcileStep, WorkerClaim, Time, Tasks, Web

\* A dangling run that has failed is completed before the worker takes up the next batch.
LEMMA SeenNext ==
    ASSUME Orderly, Typing, PhaseIsTrue, EarlyInv, ActiveInv, OneBusy, TaskInv, Rows, BatchTurn,
           SeenInv, [Next]_vars
    PROVE  SeenInv'
<1>t. RowsTyped
  BY RowsAreTyped
<1>f. ASSUME NEW t \in Tasks, on[t] \in Runs, ReconcileBatch(t) \/ CompleteBatch(t)
      PROVE  \A b \in Batches : batchStatus'[b] = "completed"
                => b = runBatch[on[t]] \/ batchStatus[b] = "completed"
  BY <1>f, <1>t, FinishMarks DEF ReconcileBatch, CompleteBatch
<1> USE DurabilityAssumption DEF Orderly, OrderlyKinds, Typing, TypeOK, RunTypeOK,
        TaskTypeOK, HoldsRun, OneBusy, Awaits, Undisturbed, SeenInv, WillSee, Passing, Dangling,
        cycleVars, batchVars, runVars, repoVars, taskVars, Tasks, Web, Reconcilers
<1>1. ASSUME NEW t \in Reconcilers, BeginPass(t) PROVE SeenInv'
  BY <1>1 DEF BeginPass, At, Goto, Candidates, Working, Counters
<1>2. ASSUME NEW t \in Reconcilers, NEW r \in Runs, ReconcilePush(t, r) PROVE SeenInv'
  BY <1>2 DEF ReconcilePush, At, Goto, Looking, Durable, TriesPush, NeedsGit,
     UnrecordedCommit, Working, Counters
<1>3. ASSUME NEW t \in Reconcilers, ReconcileBatch(t) PROVE SeenInv'
  <2>1. on[t] \in Runs /\ NeedsGit(on[t]) /\ Started(on[t])
    BY <1>3 DEF ReconcileBatch, At, BatchTurn, TaskInv, LateTurn, PassInv, Candidates, Started,
       NeedsGit, Working, Counters
  <2>2. runBatch' = runBatch /\ runStatus' = runStatus
        /\ \A q \in Runs : q # on[t] => gitPhase'[q] = gitPhase[q]
    BY <1>3 DEF ReconcileBatch, SetPhase
  <2>9. \A b \in Batches : batchStatus'[b] = "completed" => b = runBatch[on[t]] \/ batchStatus[b] = "completed"
    BY <1>3, <1>t, <1>f, <2>1
  <2>3. \A q \in Runs : q # on[t] /\ Dangling(q)' => Dangling(q)
    <3> SUFFICES ASSUME NEW q \in Runs, q # on[t], Dangling(q)' PROVE Dangling(q)
      OBVIOUS
    <3>1. gitPhase[q] = "pushed" /\ batchStatus'[runBatch[q]] = "completed"
      BY <2>2
    <3>2. runBatch[q] # runBatch[on[t]]
      BY <1>t, <2>1, <3>1, LatestIsOne DEF Rows, RowsTyped, Started, NeedsGit, Early
    <3>3. batchStatus[runBatch[q]] = "completed"
      BY <1>t, <2>1, <2>2, <2>9, <3>1, <3>2 DEF RowsTyped
    <3> QED BY <3>1, <3>3
  <2>4. \A q \in Runs : q = on[t] \/ WillSee(q) => WillSee(q)'
    BY <1>3 DEF ReconcileBatch, At, Goto
  <2> SUFFICES ASSUME NEW q \in Runs, Dangling(q)', runStatus'[q] = "failed" PROVE WillSee(q)'
    BY DEF SeenInv
  <2>5. q = on[t] \/ WillSee(q)
    BY <2>2, <2>3
  <2> QED BY <2>4, <2>5
<1>4. ASSUME NEW t \in Reconcilers, ReconcileRun(t) PROVE SeenInv'
  BY <1>4 DEF ReconcileRun, At, Goto, SetStatus, SetPhase, Working, Counters
<1>5. ASSUME NEW t \in Reconcilers, NEW r \in Runs, ReconcileInterrupt(t, r) PROVE SeenInv'
  BY <1>5 DEF ReconcileInterrupt, At, Looking, SetStatus, StopCycle, Looking, Durable,
     NeedsGit, Sha, OnRemote, PhaseIsTrue, Working, Counters
<1>6. ASSUME NEW t \in Reconcilers, NEW r \in Runs, ReconcileSkip(t, r) PROVE SeenInv'
  BY <1>6 DEF ReconcileSkip, At, Durable, NeedsGit, Sha, OnRemote, PhaseIsTrue, TaskInv,
     BackoffInv, Announced, Working, Counters
<1>7. ASSUME NEW t \in Reconcilers, NEW r \in Runs, ReconcileGitFails(t, r) PROVE SeenInv'
  BY <1>7 DEF ReconcileGitFails, Looking, At, TriesPush, UnrecordedCommit, Working, Counters
<1>8. ASSUME NEW t \in Reconcilers, ReconcileFinishFails(t) PROVE SeenInv'
  BY <1>8 DEF ReconcileFinishFails, At, Goto, Working, Counters
<1>9. ASSUME NEW t \in Reconcilers, EndPass(t) PROVE SeenInv'
  BY <1>9 DEF EndPass, At, Goto, Working, Counters
<1>10. ASSUME NEW r \in Runs, ClaimPending(r) PROVE SeenInv'
  BY <1>10 DEF ClaimPending, At, Goto, Pending, BaselineComplete, Working, Counters
<1>11. ASSUME NEW r \in Runs, NEW b \in Batches, ClaimBatch(r, b) PROVE SeenInv'
  BY <1>11 DEF ClaimBatch, At, Goto, SetStatus, Unused, Active, Queued, Working, Counters
<1>12. ASSUME ClaimNothing PROVE SeenInv'
  BY <1>12 DEF ClaimNothing, At, Goto, Working, Counters
<1>13. ASSUME ClaimLeaseExpires PROVE SeenInv'
  BY <1>13 DEF ClaimLeaseExpires, Working, Counters
<1>14. ASSUME Setup PROVE SeenInv'
  BY <1>14 DEF Setup, At, Goto, SetPhase, Working, Counters
<1>15. ASSUME Launch PROVE SeenInv'
  BY <1>15 DEF Launch, At, Goto, SetStatus, Working, Counters
<1>16. ASSUME NEW t \in Hooks, NEW r \in Runs, ClaimAwaiting(t, r) PROVE SeenInv'
  BY <1>16 DEF ClaimAwaiting, At, Goto, SetStatus, AwaitsAnswer, Working, Counters
<1>17. ASSUME NEW t \in Web, AgentEdits(t) PROVE SeenInv'
  BY <1>17 DEF AgentEdits, Working, Counters
<1>18. ASSUME NEW t \in Web, TurnAwaits(t) PROVE SeenInv'
  BY <1>18 DEF TurnAwaits, At, Goto, SetStatus, Working, Counters
<1>19. ASSUME NEW t \in Web, MessagesSent(t) PROVE SeenInv'
  BY <1>19 DEF MessagesSent, At, Goto, Return, At, Working, Counters
<1>20. ASSUME NEW t \in Web, TurnDone(t) PROVE SeenInv'
  BY <1>20 DEF TurnDone, At, Goto, SetPhase, Working, Counters
<1>21. ASSUME NEW t \in Web, GitCommit(t) PROVE SeenInv'
  BY <1>21 DEF GitCommit, At, Goto, Working, Counters
<1>22. ASSUME NEW t \in Web, RecordCommit(t) PROVE SeenInv'
  BY <1>22 DEF RecordCommit, At, Goto, SetPhase, Working, Counters
<1>23. ASSUME NEW t \in Web, GitPush(t) PROVE SeenInv'
  BY <1>23 DEF GitPush, At, Goto, Working, Counters
<1>24. ASSUME NEW t \in Web, RecordPush(t) PROVE SeenInv'
  <2>1. on[t] \in Runs /\ runStatus[on[t]] = "running_agent"
    BY <1>24 DEF RecordPush, At, Working, Counters, TaskInv, LateTurn
  <2>2. \A q \in Runs : Dangling(q)' /\ runStatus'[q] = "failed" => Dangling(q) /\ runStatus[q] = "failed"
    BY <1>24, <2>1 DEF RecordPush, SetPhase, SetStatus, StopCycle, Working, Counters, At,
       CycleTypeOK
  <2>3. \A q \in Runs : WillSee(q) => WillSee(q)'
    BY <1>24 DEF RecordPush, Goto, Return, At
  <2> HIDE DEF Dangling, WillSee
  <2> QED BY <2>2, <2>3
<1>25. ASSUME NEW t \in Web, CompleteBatch(t) PROVE SeenInv'
  <2>1. on[t] \in Runs /\ NeedsGit(on[t]) /\ Started(on[t])
    BY <1>25 DEF CompleteBatch, At, BatchTurn, TaskInv, LateTurn, PassInv, Candidates, Started,
       NeedsGit, Working, Counters
  <2>2. runBatch' = runBatch /\ runStatus' = runStatus
        /\ \A q \in Runs : q # on[t] => gitPhase'[q] = gitPhase[q]
    BY <1>25 DEF CompleteBatch, SetPhase
  <2>9. \A b \in Batches : batchStatus'[b] = "completed" => b = runBatch[on[t]] \/ batchStatus[b] = "completed"
    BY <1>25, <1>t, <1>f, <2>1
  <2>3. \A q \in Runs : q # on[t] /\ Dangling(q)' => Dangling(q)
    <3> SUFFICES ASSUME NEW q \in Runs, q # on[t], Dangling(q)' PROVE Dangling(q)
      OBVIOUS
    <3>1. gitPhase[q] = "pushed" /\ batchStatus'[runBatch[q]] = "completed"
      BY <2>2
    <3>2. runBatch[q] # runBatch[on[t]]
      BY <1>t, <2>1, <3>1, LatestIsOne DEF Rows, RowsTyped, Started, NeedsGit, Early
    <3>3. batchStatus[runBatch[q]] = "completed"
      BY <1>t, <2>1, <2>2, <2>9, <3>1, <3>2 DEF RowsTyped
    <3> QED BY <3>1, <3>3
  <2>4. runStatus[on[t]] # "failed"
    BY <1>25 DEF CompleteBatch, At, TaskInv, LateTurn
  <2>5. \A q \in Runs : WillSee(q) => WillSee(q)'
    BY <1>25 DEF CompleteBatch, At, Goto
  <2> HIDE DEF Dangling, WillSee
  <2> QED BY <2>2, <2>3, <2>4, <2>5
<1>26. ASSUME NEW t \in Web, CompleteRun(t) PROVE SeenInv'
  BY <1>26 DEF CompleteRun, At, Goto, Return, SetStatus, SetPhase, Working, Counters
<1>27. ASSUME SetupFails PROVE SeenInv'
  BY <1>27 DEF SetupFails, At, Goto, Return, FailRun, SetStatus, Working, Counters
<1>28. ASSUME NEW t \in Web, TurnFails(t) PROVE SeenInv'
  <2>1. \A q \in Runs : Dangling(q)' /\ runStatus'[q] = "failed" => Dangling(q) /\ runStatus[q] = "failed"
    BY <1>28 DEF TurnFails, FailRun, SetStatus, StopCycle, Working, Counters, At, CycleTypeOK
  <2>2. \A q \in Runs : WillSee(q) => WillSee(q)'
    BY <1>28 DEF TurnFails, FailRun, Goto, Return, At
  <2> HIDE DEF Dangling, WillSee
  <2> QED BY <2>1, <2>2
<1>29. ASSUME NEW t \in Web, SendFails(t) PROVE SeenInv'
  <2>1. \A q \in Runs : Dangling(q)' /\ runStatus'[q] = "failed" => Dangling(q) /\ runStatus[q] = "failed"
    BY <1>29 DEF SendFails, FailRun, SetStatus, StopCycle, Working, Counters, At, CycleTypeOK
  <2>2. \A q \in Runs : WillSee(q) => WillSee(q)'
    BY <1>29 DEF SendFails, FailRun, Goto, Return, At
  <2> HIDE DEF Dangling, WillSee
  <2> QED BY <2>1, <2>2
<1>30. ASSUME NEW t \in Web, CompletionFails(t) PROVE SeenInv'
  <2>1. \A q \in Runs : Dangling(q)' /\ runStatus'[q] = "failed" => Dangling(q) /\ runStatus[q] = "failed"
    BY <1>30 DEF CompletionFails, FailRun, SetStatus, StopCycle, Working, Counters, At,
       CycleTypeOK
  <2>2. \A q \in Runs : WillSee(q) => WillSee(q)'
    BY <1>30 DEF CompletionFails, FailRun, Goto, Return, At
  <2> HIDE DEF Dangling, WillSee
  <2> QED BY <2>1, <2>2
<1>31. ASSUME NEW t \in Web, FinalJsonFails(t) PROVE SeenInv'
  <2>1. \A q \in Runs : Dangling(q)' /\ runStatus'[q] = "failed" => Dangling(q) /\ runStatus[q] = "failed"
    BY <1>31 DEF FinalJsonFails, SetStatus, StopCycle, Working, Counters, At, CycleTypeOK
  <2>2. \A q \in Runs : WillSee(q) => WillSee(q)'
    BY <1>31 DEF FinalJsonFails, Goto, Return, At
  <2> HIDE DEF Dangling, WillSee
  <2> QED BY <2>1, <2>2
<1>32. ASSUME NEW t \in Web, FailAgain(t) PROVE SeenInv'
  <2>1. \A q \in Runs : Dangling(q)' /\ runStatus'[q] = "failed" => Dangling(q) /\ runStatus[q] = "failed"
    BY <1>32 DEF FailAgain, batchVars, runVars, SetStatus, StopCycle, Working, Counters, At,
       CycleTypeOK
  <2>2. \A q \in Runs : WillSee(q) => WillSee(q)'
    BY <1>32 DEF FailAgain, Goto, Return, At
  <2> HIDE DEF Dangling, WillSee
  <2> QED BY <2>1, <2>2
<1>33. ASSUME Crash(Web) PROVE SeenInv'
  BY <1>33 DEF Crash, Working, Counters
<1>34. ASSUME NEW r \in Runs, LeaseExpires(r) PROVE SeenInv'
  BY <1>34 DEF LeaseExpires, InProgress, Working, Counters
<1>35. ASSUME NEW r \in Runs, BackoffEnds(r) PROVE SeenInv'
  BY <1>35 DEF BackoffEnds, Working, Counters
<1>36. ASSUME NEW t \in Clis, Retry(t) PROVE SeenInv'
  <2>1. \A q \in Runs : Dangling(q)' /\ runStatus'[q] = "failed" => Dangling(q) /\ runStatus[q] = "failed"
    BY <1>36 DEF Retry, SetStatus, StopCycle, Working, Counters, At, CycleTypeOK
  <2>2. \A q \in Runs : WillSee(q) => WillSee(q)'
    BY <1>36 DEF Retry, Goto, Return, At
  <2> HIDE DEF Dangling, WillSee
  <2> QED BY <2>1, <2>2
<1>37. ASSUME NEW r \in Runs, Abandon(r) PROVE SeenInv'
  <2>1. \A q \in Runs : Dangling(q)' /\ runStatus'[q] = "failed" => Dangling(q) /\ runStatus[q] = "failed"
    BY <1>37 DEF Abandon, SetStatus, StopCycle, Working, Counters, At, CycleTypeOK
  <2>2. \A q \in Runs : WillSee(q) => WillSee(q)'
    BY <1>37 DEF Abandon, Goto, Return, At
  <2> HIDE DEF Dangling, WillSee
  <2> QED BY <2>1, <2>2
<1>38. ASSUME NEW r \in Runs, AbandonEnded(r) PROVE SeenInv'
  BY <1>38 DEF AbandonEnded, Working, Counters
<1>39. ASSUME NEW c \in Outsiders, OutsideCommit(c) PROVE SeenInv'
  BY <1>39 DEF OutsideCommit, Working, Counters
<1>40. ASSUME UNCHANGED vars PROVE SeenInv'
  BY <1>40 DEF vars, Working, Counters
<1> HIDE DEF Orderly, OrderlyKinds, Typing, TypeOK, RunTypeOK, TaskTypeOK, HoldsRun,
         OneBusy, Awaits, Undisturbed, SeenInv, WillSee, Passing, Dangling, cycleVars, batchVars,
         runVars, repoVars, taskVars, Tasks, Web, Reconcilers
<1> QED
  BY <1>1, <1>2, <1>3, <1>4, <1>5, <1>6, <1>7, <1>8, <1>9, <1>10, <1>11, <1>12, <1>13,
     <1>14, <1>15, <1>16, <1>17, <1>18, <1>19, <1>20, <1>21, <1>22, <1>23, <1>24, <1>25,
     <1>26, <1>27, <1>28, <1>29, <1>30, <1>31, <1>32, <1>33, <1>34, <1>35, <1>36, <1>37,
     <1>38, <1>39, <1>40 DEF Next, Orderly, OrderlyKinds, TurnStep, ReconcileStep, WorkerClaim, Time, Tasks, Web

-----------------------------------------------------------------------------
(* Commits and files *)

\* What the recorded phase and SHA of a run say of its commit in the checkout.
CommitRows ==
    \A r \in Runs :
        /\ hasSha[r] => gitPhase[r] \in {"committed", "pushed", "completed"}
        /\ gitPhase[r] \in {"committed", "pushed", "completed"} /\ r \in local.commits => hasSha[r]
        /\ gitPhase[r] \in Early => r \notin local.commits
        /\ gitPhase[r] \in Announced /\ r \in local.commits => local.tip = r

\* A run that is about to commit has not.
IntentInv == \A t \in Tasks : pc[t] = "intent" => on[t] \notin local.commits

\* What the remote branch lacks is announced by its run.
AheadInv ==
    \A c \in local.commits : c \in remote.commits \/ (c \in Runs /\ gitPhase[c] \in Announced)

\* What the database and the tasks say of commits.
CommitInv == CommitRows /\ IntentInv /\ AheadInv

\* While a run works on its batch no other run has a commit to be recovered.
LEMMA NoneOwed ==
    ASSUME RowsTyped, Rows, OneActiveRun, NEW r \in Runs, runStatus[r] \in NonTerminal,
           gitPhase[r] # "pushed"
    PROVE  \A q \in Runs : q # r => gitPhase[q] \notin Announced
<1> USE DEF RowsTyped
<1>1. ActiveAt(r)
  BY DEF Rows, RunRows, Dangling
<1> SUFFICES ASSUME NEW q \in Runs, q # r, gitPhase[q] \in Announced PROVE FALSE
  OBVIOUS
<1>2. runStatus[q] \notin NonTerminal
  BY DEF OneActiveRun
<1>3. runStatus[q] \in Ended /\ NeedsGit(q)
  BY <1>2 DEF Rows, RunRows, Announced, NeedsGit, Ended, RunStates, NonTerminal, Started
<1>4. OwedAt(q)
  BY <1>3 DEF Rows, RunRows, Dangling, Announced
<1> QED BY <1>1, <1>4 DEF ActiveAt, OwedAt

\* Every step keeps what phase and SHA say of the commit in the checkout.
LEMMA CommitRowsNext ==
    ASSUME Orderly, Typing, PhaseInv, EarlyInv, ActiveInv, LateTurn, Rows, BatchTurn, CommitRows,
           AheadInv, [Next]_vars
    PROVE  CommitRows'
<1>t. RowsTyped
  BY RowsAreTyped
<1>a. OneActiveRun
  BY DEF ActiveInv
<1> USE DurabilityAssumption DEF Orderly, OrderlyKinds, Typing, TypeOK, RepoTypeOK,
        RunTypeOK, TaskTypeOK, HoldsRun, Branch, Content, CommitRows, Early, Announced,
        cycleVars, batchVars, runVars, repoVars, taskVars, Tasks, Web, Reconcilers
<1>1. ASSUME NEW t \in Reconcilers, BeginPass(t) PROVE CommitRows'
  BY <1>1 DEF BeginPass, At, Goto, Working, Counters
<1>2. ASSUME NEW t \in Reconcilers, NEW r \in Runs, ReconcilePush(t, r) PROVE CommitRows'
  BY <1>2 DEF ReconcilePush, At, Goto, Looking, Durable, TriesPush, NeedsGit,
     UnrecordedCommit, Working, Counters
<1>3. ASSUME NEW t \in Reconcilers, ReconcileBatch(t) PROVE CommitRows'
  <2>1. /\ on[t] \in Runs /\ gitPhase[on[t]] \notin {"none", "agent_editing"}
        /\ on[t] \in remote.commits \/ PushedNothing(on[t])
    BY <1>3 DEF ReconcileBatch, At, Working, Counters, PhaseInv, PushInv, ReconcilerHasPushed,
       EarlyInv, EarlyTurn
  <2>2. /\ gitPhase' = [gitPhase EXCEPT ![on[t]] = "pushed"] /\ local' = local
        /\ hasSha' = [hasSha EXCEPT ![on[t]] = @ \/ OnRemote(on[t])]
    BY <1>3 DEF ReconcileBatch, SetPhase
  <2>3. gitPhase'[on[t]] = "pushed"
    BY <2>1, <2>2
  <2>4. hasSha'[on[t]] <=> hasSha[on[t]] \/ OnRemote(on[t])
    BY <2>1, <2>2, ZenonT(30)
  <2>5. on[t] \in local.commits => hasSha[on[t]] \/ on[t] \in remote.commits
    BY <2>1 DEF PushedNothing
  <2>7. on[t] \in local.commits => hasSha'[on[t]]
    BY <2>4, <2>5 DEF OnRemote
  <2>8. \A q \in Runs : q # on[t] => gitPhase'[q] = gitPhase[q] /\ (hasSha'[q] <=> hasSha[q])
    BY <2>2
  <2> QED BY <2>1, <2>2, <2>3, <2>7, <2>8
<1>4. ASSUME NEW t \in Reconcilers, ReconcileRun(t) PROVE CommitRows'
  <2>1. on[t] \in Runs /\ gitPhase[on[t]] = "pushed"
    BY <1>4 DEF ReconcileRun, At, Working, Counters, BatchTurn, Dangling
  <2>2. gitPhase' = [gitPhase EXCEPT ![on[t]] = "completed"] /\ local' = local /\ hasSha' = hasSha
    BY <1>4 DEF ReconcileRun, SetPhase
  <2>7. gitPhase'[on[t]] = "completed"
    BY <2>1, <2>2
  <2>8. \A q \in Runs : q # on[t] => gitPhase'[q] = gitPhase[q] /\ (hasSha'[q] <=> hasSha[q])
    BY <2>2
  <2> QED BY <2>1, <2>2, <2>7, <2>8
<1>5. ASSUME NEW t \in Reconcilers, NEW r \in Runs, ReconcileInterrupt(t, r) PROVE CommitRows'
  BY <1>5 DEF ReconcileInterrupt, At, Looking, SetStatus, Working, Counters
<1>6. ASSUME NEW t \in Reconcilers, NEW r \in Runs, ReconcileSkip(t, r) PROVE CommitRows'
  BY <1>6 DEF ReconcileSkip, Working, Counters
<1>7. ASSUME NEW t \in Reconcilers, NEW r \in Runs, ReconcileGitFails(t, r) PROVE CommitRows'
  BY <1>7 DEF ReconcileGitFails, Working, Counters
<1>8. ASSUME NEW t \in Reconcilers, ReconcileFinishFails(t) PROVE CommitRows'
  BY <1>8 DEF ReconcileFinishFails, At, Goto, Working, Counters
<1>9. ASSUME NEW t \in Reconcilers, EndPass(t) PROVE CommitRows'
  BY <1>9 DEF EndPass, At, Goto, Working, Counters
<1>10. ASSUME NEW r \in Runs, ClaimPending(r) PROVE CommitRows'
  BY <1>10 DEF ClaimPending, At, Goto, Pending, BaselineComplete, Working, Counters
<1>11. ASSUME NEW r \in Runs, NEW b \in Batches, ClaimBatch(r, b) PROVE CommitRows'
  BY <1>11 DEF ClaimBatch, At, Goto, SetStatus, Unused, Active, Queued, Working, Counters
<1>12. ASSUME ClaimNothing PROVE CommitRows'
  BY <1>12 DEF ClaimNothing, At, Goto, Working, Counters
<1>13. ASSUME ClaimLeaseExpires PROVE CommitRows'
  BY <1>13 DEF ClaimLeaseExpires, Working, Counters
<1>14. ASSUME Setup PROVE CommitRows'
  <2>1. /\ on[Worker] \in Runs
        /\ runStatus[on[Worker]] \in NonTerminal
        /\ gitPhase[on[Worker]] \in {"none", "commit_intent"}
    BY <1>14 DEF Setup, At, Typing, TypeOK, RunTypeOK, TaskTypeOK, HoldsRun, Working, Counters,
       ActiveInv, LateTurn, EarlyInv, EarlyTurn, NonTerminal
  <2>2. \A q \in Runs : q # on[Worker] => gitPhase[q] \notin Announced
    BY <1>t, <1>a, <2>1, NoneOwed
  <2>3. gitPhase[on[Worker]] = "none"
    BY <1>14 DEF Setup, At, EarlyInv, EarlyTurn
  <2>4. /\ local' = remote
        /\ hasSha' = hasSha
        /\ gitPhase' = [gitPhase EXCEPT ![on[Worker]] = "agent_editing"]
    BY <1>14 DEF Setup, Checkout, SetPhase
  <2>5. \A q \in Runs : q \in local'.commits => q \in local.commits
    BY <2>4 DEF PhaseInv, GitInv, RunsAreLocal
  <2>6. on[Worker] \notin local'.commits /\ ~hasSha[on[Worker]]
    BY <2>1, <2>3, <2>5
  <2>7. gitPhase'[on[Worker]] = "agent_editing"
    BY <2>1, <2>4
  <2>8. \A q \in Runs : q # on[Worker] => gitPhase'[q] = gitPhase[q]
    BY <2>1, <2>4
  <2> QED BY <2>1, <2>2, <2>4, <2>5, <2>6, <2>7, <2>8
<1>15. ASSUME Launch PROVE CommitRows'
  BY <1>15 DEF Launch, At, Goto, SetStatus, Working, Counters
<1>16. ASSUME NEW t \in Hooks, NEW r \in Runs, ClaimAwaiting(t, r) PROVE CommitRows'
  BY <1>16 DEF ClaimAwaiting, At, Goto, SetStatus, AwaitsAnswer, Working, Counters
<1>17. ASSUME NEW t \in Web, AgentEdits(t) PROVE CommitRows'
  BY <1>17 DEF AgentEdits, Working, Counters
<1>18. ASSUME NEW t \in Web, TurnAwaits(t) PROVE CommitRows'
  BY <1>18 DEF TurnAwaits, At, Goto, SetStatus, Working, Counters
<1>19. ASSUME NEW t \in Web, MessagesSent(t) PROVE CommitRows'
  BY <1>19 DEF MessagesSent, At, Goto, Return, Working, Counters
<1>20. ASSUME NEW t \in Web, TurnDone(t) PROVE CommitRows'
  BY <1>20 DEF TurnDone, At, Goto, SetPhase, LateTurn, EarlyInv, EarlyTurn, Working,
     Counters
<1>21. ASSUME NEW t \in Web, GitCommit(t) PROVE CommitRows'
  <2>1. /\ on[t] \in Runs
        /\ runStatus[on[t]] \in NonTerminal
        /\ gitPhase[on[t]] \in {"none", "commit_intent"}
    BY <1>21 DEF GitCommit, At, Typing, TypeOK, RunTypeOK, TaskTypeOK, HoldsRun, Working,
       Counters, ActiveInv, LateTurn, EarlyInv, EarlyTurn, NonTerminal
  <2>2. \A q \in Runs : q # on[t] => gitPhase[q] \notin Announced
    BY <1>t, <1>a, <2>1, NoneOwed
  <2>3. gitPhase[on[t]] = "commit_intent"
    BY <1>21 DEF GitCommit, At, LateTurn
  <2> QED BY <1>21, <2>1, <2>2, <2>3 DEF GitCommit, Commit
<1>22. ASSUME NEW t \in Web, RecordCommit(t) PROVE CommitRows'
  <2>1. on[t] \in Runs /\ gitPhase[on[t]] = "commit_intent"
    BY <1>22 DEF RecordCommit, At, Working, Counters, LateTurn
  <2>2. /\ gitPhase' = [gitPhase EXCEPT ![on[t]] = "committed"] /\ local' = local
        /\ hasSha' = [hasSha EXCEPT ![on[t]] = on[t] \in local.commits]
    BY <1>22 DEF RecordCommit, SetPhase
  <2>3. gitPhase'[on[t]] = "committed"
    BY <2>1, <2>2
  <2>7. hasSha'[on[t]] <=> on[t] \in local.commits
    BY <2>1, <2>2, ZenonT(30)
  <2>8. \A q \in Runs : q # on[t] => gitPhase'[q] = gitPhase[q] /\ (hasSha'[q] <=> hasSha[q])
    BY <2>2
  <2> QED BY <2>1, <2>2, <2>3, <2>7, <2>8
<1>23. ASSUME NEW t \in Web, GitPush(t) PROVE CommitRows'
  BY <1>23 DEF GitPush, At, Goto, Working, Counters
<1>24. ASSUME NEW t \in Web, RecordPush(t) PROVE CommitRows'
  BY <1>24 DEF RecordPush, At, Goto, SetPhase, LateTurn, Working, Counters
<1>25. ASSUME NEW t \in Web, CompleteBatch(t) PROVE CommitRows'
  BY <1>25 DEF CompleteBatch, At, Goto, Working, Counters
<1>26. ASSUME NEW t \in Web, CompleteRun(t) PROVE CommitRows'
  BY <1>26 DEF CompleteRun, At, Goto, Return, SetStatus, SetPhase, LateTurn, Working,
     Counters
<1>27. ASSUME SetupFails PROVE CommitRows'
  BY <1>27 DEF SetupFails, At, Goto, Return, FailRun, SetStatus, Working, Counters
<1>28. ASSUME NEW t \in Web, TurnFails(t) PROVE CommitRows'
  BY <1>28 DEF TurnFails, At, Goto, Return, FailRun, SetStatus, Working, Counters
<1>29. ASSUME NEW t \in Web, SendFails(t) PROVE CommitRows'
  BY <1>29 DEF SendFails, At, Goto, Return, FailRun, SetStatus, Working, Counters
<1>30. ASSUME NEW t \in Web, CompletionFails(t) PROVE CommitRows'
  BY <1>30 DEF CompletionFails, At, Goto, FailRun, SetStatus, Working, Counters
<1>31. ASSUME NEW t \in Web, FinalJsonFails(t) PROVE CommitRows'
  BY <1>31 DEF FinalJsonFails, At, Goto, SetStatus, Working, Counters
<1>32. ASSUME NEW t \in Web, FailAgain(t) PROVE CommitRows'
  BY <1>32 DEF FailAgain, At, Goto, Return, Working, Counters
<1>33. ASSUME NEW process \in SUBSET Tasks, Crash(process) PROVE CommitRows'
  BY <1>33 DEF Crash, Working, Counters
<1>34. ASSUME NEW r \in Runs, LeaseExpires(r) PROVE CommitRows'
  BY <1>34 DEF LeaseExpires, InProgress, Working, Counters
<1>35. ASSUME NEW r \in Runs, BackoffEnds(r) PROVE CommitRows'
  BY <1>35 DEF BackoffEnds, Working, Counters
<1>36. ASSUME NEW t \in Clis, Retry(t) PROVE CommitRows'
  BY <1>36 DEF Retry, At, Goto, Retryable, Working, Counters
<1>37. ASSUME NEW r \in Runs, Abandon(r) PROVE CommitRows'
  BY <1>37 DEF Abandon, SetStatus, MayAbandon, InProgress, Working, Counters
<1>38. ASSUME NEW r \in Runs, AbandonEnded(r) PROVE CommitRows'
  BY <1>38 DEF AbandonEnded, Working, Counters
<1>39. ASSUME NEW c \in Outsiders, OutsideCommit(c) PROVE CommitRows'
  BY <1>39 DEF OutsideCommit, Working, Counters
<1>40. ASSUME UNCHANGED vars PROVE CommitRows'
  BY <1>40 DEF vars, Working, Counters
<1> HIDE DEF Orderly, OrderlyKinds, Typing, TypeOK, RepoTypeOK, RunTypeOK, TaskTypeOK,
         HoldsRun, Branch, Content, CommitRows, Early, Announced, cycleVars, batchVars, runVars,
         repoVars, taskVars, Tasks, Web, Reconcilers
<1> QED
  BY <1>1, <1>2, <1>3, <1>4, <1>5, <1>6, <1>7, <1>8, <1>9, <1>10, <1>11, <1>12, <1>13,
     <1>14, <1>15, <1>16, <1>17, <1>18, <1>19, <1>20, <1>21, <1>22, <1>23, <1>24, <1>25,
     <1>26, <1>27, <1>28, <1>29, <1>30, <1>31, <1>32, <1>33, <1>34, <1>35, <1>36, <1>37,
     <1>38, <1>39, <1>40 DEF Next, TurnStep, ReconcileStep, WorkerClaim, Time, Tasks, Web

\* A turn commits once.
LEMMA IntentNext ==
    ASSUME Orderly, Typing, OneBusy, EarlyInv, ActiveInv, LateTurn, CommitRows, IntentInv,
           [Next]_vars
    PROVE  IntentInv'
<1>t. RowsTyped
  BY RowsAreTyped
<1>a. OneActiveRun
  BY DEF ActiveInv
<1> USE DurabilityAssumption DEF Orderly, OrderlyKinds, Typing, TypeOK, RepoTypeOK,
        RunTypeOK, TaskTypeOK, HoldsRun, Branch, Content, OneBusy, Awaits, Undisturbed,
        IntentInv, cycleVars, batchVars, runVars, repoVars, taskVars, Tasks, Web, Reconcilers
<1>1. ASSUME NEW t \in Reconcilers, BeginPass(t) PROVE IntentInv'
  BY <1>1 DEF BeginPass, At, Goto, Working, Counters
<1>2. ASSUME NEW t \in Reconcilers, NEW r \in Runs, ReconcilePush(t, r) PROVE IntentInv'
  BY <1>2 DEF ReconcilePush, At, Goto, Looking, Durable, TriesPush, NeedsGit,
     UnrecordedCommit, Working, Counters
<1>3. ASSUME NEW t \in Reconcilers, ReconcileBatch(t) PROVE IntentInv'
  BY <1>3 DEF ReconcileBatch, At, Goto, SetPhase, Working, Counters
<1>4. ASSUME NEW t \in Reconcilers, ReconcileRun(t) PROVE IntentInv'
  BY <1>4 DEF ReconcileRun, At, Goto, SetStatus, SetPhase, Working, Counters
<1>5. ASSUME NEW t \in Reconcilers, NEW r \in Runs, ReconcileInterrupt(t, r) PROVE IntentInv'
  BY <1>5 DEF ReconcileInterrupt, At, Looking, SetStatus, Working, Counters
<1>6. ASSUME NEW t \in Reconcilers, NEW r \in Runs, ReconcileSkip(t, r) PROVE IntentInv'
  BY <1>6 DEF ReconcileSkip, Working, Counters
<1>7. ASSUME NEW t \in Reconcilers, NEW r \in Runs, ReconcileGitFails(t, r) PROVE IntentInv'
  BY <1>7 DEF ReconcileGitFails, Working, Counters
<1>8. ASSUME NEW t \in Reconcilers, ReconcileFinishFails(t) PROVE IntentInv'
  BY <1>8 DEF ReconcileFinishFails, At, Goto, Working, Counters
<1>9. ASSUME NEW t \in Reconcilers, EndPass(t) PROVE IntentInv'
  BY <1>9 DEF EndPass, At, Goto, Working, Counters
<1>10. ASSUME NEW r \in Runs, ClaimPending(r) PROVE IntentInv'
  BY <1>10 DEF ClaimPending, At, Goto, Pending, BaselineComplete, Working, Counters
<1>11. ASSUME NEW r \in Runs, NEW b \in Batches, ClaimBatch(r, b) PROVE IntentInv'
  BY <1>11 DEF ClaimBatch, At, Goto, SetStatus, Unused, Active, Queued, Working, Counters
<1>12. ASSUME ClaimNothing PROVE IntentInv'
  BY <1>12 DEF ClaimNothing, At, Goto, Working, Counters
<1>13. ASSUME ClaimLeaseExpires PROVE IntentInv'
  BY <1>13 DEF ClaimLeaseExpires, Working, Counters
<1>14. ASSUME Setup PROVE IntentInv'
  BY <1>14 DEF Setup, At, Goto, SetPhase, Checkout, Working, Counters
<1>15. ASSUME Launch PROVE IntentInv'
  BY <1>15 DEF Launch, At, Goto, SetStatus, Working, Counters
<1>16. ASSUME NEW t \in Hooks, NEW r \in Runs, ClaimAwaiting(t, r) PROVE IntentInv'
  BY <1>16 DEF ClaimAwaiting, At, Goto, SetStatus, AwaitsAnswer, Working, Counters
<1>17. ASSUME NEW t \in Web, AgentEdits(t) PROVE IntentInv'
  BY <1>17 DEF AgentEdits, Working, Counters
<1>18. ASSUME NEW t \in Web, TurnAwaits(t) PROVE IntentInv'
  BY <1>18 DEF TurnAwaits, At, Goto, SetStatus, Working, Counters
<1>19. ASSUME NEW t \in Web, MessagesSent(t) PROVE IntentInv'
  BY <1>19 DEF MessagesSent, At, Goto, Return, Working, Counters
<1>20. ASSUME NEW t \in Web, TurnDone(t) PROVE IntentInv'
  BY <1>20 DEF TurnDone, At, Goto, SetPhase, EarlyInv, EarlyTurn, CommitRows, Early,
     Working, Counters
<1>21. ASSUME NEW t \in Web, GitCommit(t) PROVE IntentInv'
  BY <1>21 DEF GitCommit, At, Goto, Commit, Working, Counters
<1>22. ASSUME NEW t \in Web, RecordCommit(t) PROVE IntentInv'
  BY <1>22 DEF RecordCommit, At, Goto, SetPhase, Working, Counters
<1>23. ASSUME NEW t \in Web, GitPush(t) PROVE IntentInv'
  BY <1>23 DEF GitPush, At, Goto, Working, Counters
<1>24. ASSUME NEW t \in Web, RecordPush(t) PROVE IntentInv'
  BY <1>24 DEF RecordPush, At, Goto, SetPhase, Working, Counters
<1>25. ASSUME NEW t \in Web, CompleteBatch(t) PROVE IntentInv'
  BY <1>25 DEF CompleteBatch, At, Goto, Working, Counters
<1>26. ASSUME NEW t \in Web, CompleteRun(t) PROVE IntentInv'
  BY <1>26 DEF CompleteRun, At, Goto, Return, SetStatus, SetPhase, Working, Counters
<1>27. ASSUME SetupFails PROVE IntentInv'
  BY <1>27 DEF SetupFails, At, Goto, Return, FailRun, SetStatus, Working, Counters
<1>28. ASSUME NEW t \in Web, TurnFails(t) PROVE IntentInv'
  BY <1>28 DEF TurnFails, At, Goto, Return, FailRun, SetStatus, Working, Counters
<1>29. ASSUME NEW t \in Web, SendFails(t) PROVE IntentInv'
  BY <1>29 DEF SendFails, At, Goto, Return, FailRun, SetStatus, Working, Counters
<1>30. ASSUME NEW t \in Web, CompletionFails(t) PROVE IntentInv'
  BY <1>30 DEF CompletionFails, At, Goto, FailRun, SetStatus, Working, Counters
<1>31. ASSUME NEW t \in Web, FinalJsonFails(t) PROVE IntentInv'
  BY <1>31 DEF FinalJsonFails, At, Goto, SetStatus, Working, Counters
<1>32. ASSUME NEW t \in Web, FailAgain(t) PROVE IntentInv'
  BY <1>32 DEF FailAgain, At, Goto, Return, Working, Counters
<1>33. ASSUME NEW process \in SUBSET Tasks, Crash(process) PROVE IntentInv'
  BY <1>33 DEF Crash, Working, Counters
<1>34. ASSUME NEW r \in Runs, LeaseExpires(r) PROVE IntentInv'
  BY <1>34 DEF LeaseExpires, InProgress, Working, Counters
<1>35. ASSUME NEW r \in Runs, BackoffEnds(r) PROVE IntentInv'
  BY <1>35 DEF BackoffEnds, Working, Counters
<1>36. ASSUME NEW t \in Clis, Retry(t) PROVE IntentInv'
  BY <1>36 DEF Retry, At, Goto, Retryable, Working, Counters
<1>37. ASSUME NEW r \in Runs, Abandon(r) PROVE IntentInv'
  BY <1>37 DEF Abandon, SetStatus, MayAbandon, InProgress, Working, Counters
<1>38. ASSUME NEW r \in Runs, AbandonEnded(r) PROVE IntentInv'
  BY <1>38 DEF AbandonEnded, Working, Counters
<1>39. ASSUME NEW c \in Outsiders, OutsideCommit(c) PROVE IntentInv'
  BY <1>39 DEF OutsideCommit, Working, Counters
<1>40. ASSUME UNCHANGED vars PROVE IntentInv'
  BY <1>40 DEF vars, Working, Counters
<1> HIDE DEF Orderly, OrderlyKinds, Typing, TypeOK, RepoTypeOK, RunTypeOK, TaskTypeOK,
         HoldsRun, Branch, Content, OneBusy, Awaits, Undisturbed, IntentInv, cycleVars, batchVars,
         runVars, repoVars, taskVars, Tasks, Web, Reconcilers
<1> QED
  BY <1>1, <1>2, <1>3, <1>4, <1>5, <1>6, <1>7, <1>8, <1>9, <1>10, <1>11, <1>12, <1>13,
     <1>14, <1>15, <1>16, <1>17, <1>18, <1>19, <1>20, <1>21, <1>22, <1>23, <1>24, <1>25,
     <1>26, <1>27, <1>28, <1>29, <1>30, <1>31, <1>32, <1>33, <1>34, <1>35, <1>36, <1>37,
     <1>38, <1>39, <1>40 DEF Next, TurnStep, ReconcileStep, WorkerClaim, Time, Tasks, Web

\* What is published or recorded as pushed is on the remote branch, or nothing was committed.
LEMMA AheadNext ==
    ASSUME Orderly, Typing, PhaseInv, EarlyInv, ActiveInv, LateTurn, Rows, BatchTurn, CommitRows,
           AheadInv, [Next]_vars
    PROVE  AheadInv'
<1>t. RowsTyped
  BY RowsAreTyped
<1>a. OneActiveRun
  BY DEF ActiveInv
<1> USE DurabilityAssumption DEF Orderly, OrderlyKinds, Typing, TypeOK, RepoTypeOK,
        RunTypeOK, TaskTypeOK, HoldsRun, Branch, Content, AheadInv, Announced, cycleVars,
        batchVars, runVars, repoVars, taskVars, Tasks, Web, Reconcilers
<1>1. ASSUME NEW t \in Reconcilers, BeginPass(t) PROVE AheadInv'
  BY <1>1 DEF BeginPass, At, Goto, Working, Counters
<1>2. ASSUME NEW t \in Reconcilers, NEW r \in Runs, ReconcilePush(t, r) PROVE AheadInv'
  <2>1. gitPhase' = gitPhase /\ local' = local
    BY <1>2 DEF ReconcilePush
  <2>2. remote' = local \/ remote' = remote
    BY <1>2 DEF ReconcilePush, Push
  <2> QED BY <2>1, <2>2
<1>3. ASSUME NEW t \in Reconcilers, ReconcileBatch(t) PROVE AheadInv'
  BY <1>3 DEF ReconcileBatch, At, Goto, SetPhase, PhaseInv, PushInv, ReconcilerHasPushed,
     PushedNothing, CommitRows, Working, Counters
<1>4. ASSUME NEW t \in Reconcilers, ReconcileRun(t) PROVE AheadInv'
  BY <1>4 DEF ReconcileRun, At, Goto, SetStatus, SetPhase, BatchTurn, Dangling, Working,
     Counters
<1>5. ASSUME NEW t \in Reconcilers, NEW r \in Runs, ReconcileInterrupt(t, r) PROVE AheadInv'
  BY <1>5 DEF ReconcileInterrupt, At, Looking, SetStatus, Working, Counters
<1>6. ASSUME NEW t \in Reconcilers, NEW r \in Runs, ReconcileSkip(t, r) PROVE AheadInv'
  BY <1>6 DEF ReconcileSkip, Working, Counters
<1>7. ASSUME NEW t \in Reconcilers, NEW r \in Runs, ReconcileGitFails(t, r) PROVE AheadInv'
  BY <1>7 DEF ReconcileGitFails, Working, Counters
<1>8. ASSUME NEW t \in Reconcilers, ReconcileFinishFails(t) PROVE AheadInv'
  BY <1>8 DEF ReconcileFinishFails, At, Goto, Working, Counters
<1>9. ASSUME NEW t \in Reconcilers, EndPass(t) PROVE AheadInv'
  BY <1>9 DEF EndPass, At, Goto, Working, Counters
<1>10. ASSUME NEW r \in Runs, ClaimPending(r) PROVE AheadInv'
  BY <1>10 DEF ClaimPending, At, Goto, Pending, BaselineComplete, Working, Counters
<1>11. ASSUME NEW r \in Runs, NEW b \in Batches, ClaimBatch(r, b) PROVE AheadInv'
  BY <1>11 DEF ClaimBatch, At, Goto, SetStatus, Unused, Active, Queued, Working, Counters
<1>12. ASSUME ClaimNothing PROVE AheadInv'
  BY <1>12 DEF ClaimNothing, At, Goto, Working, Counters
<1>13. ASSUME ClaimLeaseExpires PROVE AheadInv'
  BY <1>13 DEF ClaimLeaseExpires, Working, Counters
<1>14. ASSUME Setup PROVE AheadInv'
  BY <1>14 DEF Setup, Checkout
<1>15. ASSUME Launch PROVE AheadInv'
  BY <1>15 DEF Launch, At, Goto, SetStatus, Working, Counters
<1>16. ASSUME NEW t \in Hooks, NEW r \in Runs, ClaimAwaiting(t, r) PROVE AheadInv'
  BY <1>16 DEF ClaimAwaiting, At, Goto, SetStatus, AwaitsAnswer, Working, Counters
<1>17. ASSUME NEW t \in Web, AgentEdits(t) PROVE AheadInv'
  BY <1>17 DEF AgentEdits, Working, Counters
<1>18. ASSUME NEW t \in Web, TurnAwaits(t) PROVE AheadInv'
  BY <1>18 DEF TurnAwaits, At, Goto, SetStatus, Working, Counters
<1>19. ASSUME NEW t \in Web, MessagesSent(t) PROVE AheadInv'
  BY <1>19 DEF MessagesSent, At, Goto, Return, Working, Counters
<1>20. ASSUME NEW t \in Web, TurnDone(t) PROVE AheadInv'
  BY <1>20 DEF TurnDone, At, Goto, SetPhase, LateTurn, EarlyInv, EarlyTurn, Working,
     Counters
<1>21. ASSUME NEW t \in Web, GitCommit(t) PROVE AheadInv'
  <2>1. on[t] \in Runs /\ gitPhase[on[t]] = "commit_intent"
    BY <1>21 DEF GitCommit, At, LateTurn, Working, Counters
  <2> QED BY <1>21, <2>1 DEF GitCommit, Commit
<1>22. ASSUME NEW t \in Web, RecordCommit(t) PROVE AheadInv'
  BY <1>22 DEF RecordCommit, At, Goto, SetPhase, LateTurn, Working, Counters
<1>23. ASSUME NEW t \in Web, GitPush(t) PROVE AheadInv'
  <2>1. gitPhase' = gitPhase /\ local' = local
    BY <1>23 DEF GitPush
  <2>2. remote' = local \/ remote' = remote
    BY <1>23 DEF GitPush, Push
  <2> QED BY <2>1, <2>2
<1>24. ASSUME NEW t \in Web, RecordPush(t) PROVE AheadInv'
  BY <1>24 DEF RecordPush, At, Goto, SetPhase, LateTurn, CommitRows, PhaseInv, PushInv,
     TurnHasPushed, TurnOf, TurnCounters, Working, Counters
<1>25. ASSUME NEW t \in Web, CompleteBatch(t) PROVE AheadInv'
  BY <1>25 DEF CompleteBatch, At, Goto, Working, Counters
<1>26. ASSUME NEW t \in Web, CompleteRun(t) PROVE AheadInv'
  BY <1>26 DEF CompleteRun, At, Goto, Return, SetStatus, SetPhase, LateTurn, Working,
     Counters
<1>27. ASSUME SetupFails PROVE AheadInv'
  BY <1>27 DEF SetupFails, At, Goto, Return, FailRun, SetStatus, Working, Counters
<1>28. ASSUME NEW t \in Web, TurnFails(t) PROVE AheadInv'
  BY <1>28 DEF TurnFails, At, Goto, Return, FailRun, SetStatus, Working, Counters
<1>29. ASSUME NEW t \in Web, SendFails(t) PROVE AheadInv'
  BY <1>29 DEF SendFails, At, Goto, Return, FailRun, SetStatus, Working, Counters
<1>30. ASSUME NEW t \in Web, CompletionFails(t) PROVE AheadInv'
  BY <1>30 DEF CompletionFails, At, Goto, FailRun, SetStatus, Working, Counters
<1>31. ASSUME NEW t \in Web, FinalJsonFails(t) PROVE AheadInv'
  BY <1>31 DEF FinalJsonFails, At, Goto, SetStatus, Working, Counters
<1>32. ASSUME NEW t \in Web, FailAgain(t) PROVE AheadInv'
  BY <1>32 DEF FailAgain, At, Goto, Return, Working, Counters
<1>33. ASSUME NEW process \in SUBSET Tasks, Crash(process) PROVE AheadInv'
  BY <1>33 DEF Crash, Working, Counters
<1>34. ASSUME NEW r \in Runs, LeaseExpires(r) PROVE AheadInv'
  BY <1>34 DEF LeaseExpires, InProgress, Working, Counters
<1>35. ASSUME NEW r \in Runs, BackoffEnds(r) PROVE AheadInv'
  BY <1>35 DEF BackoffEnds, Working, Counters
<1>36. ASSUME NEW t \in Clis, Retry(t) PROVE AheadInv'
  BY <1>36 DEF Retry, At, Goto, Retryable, Working, Counters
<1>37. ASSUME NEW r \in Runs, Abandon(r) PROVE AheadInv'
  BY <1>37 DEF Abandon, SetStatus, MayAbandon, InProgress, Working, Counters
<1>38. ASSUME NEW r \in Runs, AbandonEnded(r) PROVE AheadInv'
  BY <1>38 DEF AbandonEnded, Working, Counters
<1>39. ASSUME NEW c \in Outsiders, OutsideCommit(c) PROVE AheadInv'
  BY <1>39 DEF OutsideCommit, OutsidePush, Working, Counters
<1>40. ASSUME UNCHANGED vars PROVE AheadInv'
  BY <1>40 DEF vars, Working, Counters
<1> HIDE DEF Orderly, OrderlyKinds, Typing, TypeOK, RepoTypeOK, RunTypeOK, TaskTypeOK,
         HoldsRun, Branch, Content, AheadInv, Announced, cycleVars, batchVars, runVars, repoVars,
         taskVars, Tasks, Web, Reconcilers
<1> QED
  BY <1>1, <1>2, <1>3, <1>4, <1>5, <1>6, <1>7, <1>8, <1>9, <1>10, <1>11, <1>12, <1>13,
     <1>14, <1>15, <1>16, <1>17, <1>18, <1>19, <1>20, <1>21, <1>22, <1>23, <1>24, <1>25,
     <1>26, <1>27, <1>28, <1>29, <1>30, <1>31, <1>32, <1>33, <1>34, <1>35, <1>36, <1>37,
     <1>38, <1>39, <1>40 DEF Next, TurnStep, ReconcileStep, WorkerClaim, Time, Tasks, Web

-----------------------------------------------------------------------------
(* The working tree *)

\* The files at the tip of a branch hold the edits of its commits.
FilesAreCommits == local.files = local.commits /\ remote.files = remote.commits

\* A run that may have edited the files without having committed them.
Editing(r) == gitPhase[r] \in {"agent_editing", "commit_intent"} /\ r \notin local.commits
\* A run whose edits are in no commit, perhaps because there are none.
Uncommitted(r) == (Editing(r) \/ gitPhase[r] = "committed") /\ r \notin local.commits

\* A run that was abandoned with its commit made and not recorded.
Stuck(r) == runStatus[r] = "abandoned" /\ gitPhase[r] = "commit_intent" /\ r \in local.commits

\* What a baseline is restored to, and where it is needed.
BaseInv ==
    /\ \A r \in Runs : Uncommitted(r) /\ runStatus[r] \in NonTerminal => base[r] = local.files
    /\ \A t \in Tasks :
          pc[t] = "failing" /\ gitPhase[on[t]] \in {"agent_editing", "commit_intent"}
              => base[on[t]] = local.files
    /\ \A t \in Tasks : pc[t] = "committing" => tree = local.files
    /\ \A r \in Runs : runStatus[r] = "running_agent" => gitPhase[r] # "none"

\* The working tree differs from HEAD by the edits of the active run only.
DirtyInv ==
    \/ tree = local.files
    \/ \E r \in Runs : runStatus[r] \in NonTerminal /\ Editing(r) /\ tree = local.files \cup {r}
    \/ \E r \in Runs : Stuck(r)

\* What the files and the baselines are.
TreeInv == FilesAreCommits /\ BaseInv /\ DirtyInv

\* Reconciliation takes on a run whose commit is in the checkout.
LEMMA FoundIsTaken ==
    ASSUME Typing, PhaseIsTrue, CommitRows, Rows, NEW r \in Runs, r \in local.commits,
           gitPhase[r] \notin {"completed"}
    PROVE  Durable(r) \/ TriesPush(r)
<1>1. gitPhase[r] \in {"commit_intent", "committed", "pushed"}
  BY DEF CommitRows, Early, Typing, TypeOK, RunTypeOK, Phases
<1>2. CASE gitPhase[r] = "pushed"
  BY <1>2 DEF CommitRows, PhaseIsTrue, Durable, NeedsGit, Sha, OnRemote
<1>3. CASE gitPhase[r] \in Announced
  <2>1. local.tip = r
    BY <1>3 DEF CommitRows
  <2>2. gitPhase[r] = "committed" => hasSha[r]
    BY DEF CommitRows
  <2>3. gitPhase[r] = "commit_intent" => ~hasSha[r]
    BY DEF CommitRows
  <2> QED BY <1>3, <2>1, <2>2, <2>3 DEF Durable, TriesPush, NeedsGit, Sha, UnrecordedCommit,
          Announced
<1> QED BY <1>1, <1>2, <1>3 DEF Announced

\* Every step keeps the baseline of the active run equal to the content of HEAD.
LEMMA BaseNext ==
    ASSUME Orderly, Typing, EarlyInv, ActiveInv, OneBusy, LateTurn, Rows, CommitRows, IntentInv,
           BaseInv, [Next]_vars
    PROVE  BaseInv'
<1>t. RowsTyped
  BY RowsAreTyped
<1>a. OneActiveRun
  BY DEF ActiveInv
<1> USE DurabilityAssumption DEF Orderly, OrderlyKinds, Typing, TypeOK, RepoTypeOK,
        RunTypeOK, TaskTypeOK, HoldsRun, Branch, Content, OneBusy, Awaits, Undisturbed, BaseInv,
        Uncommitted, Editing, cycleVars, batchVars, runVars, repoVars, taskVars, Tasks, Web,
        Reconcilers
<1>1. ASSUME NEW t \in Reconcilers, BeginPass(t) PROVE BaseInv'
  BY <1>1 DEF BeginPass, At, Goto, Working, Counters
<1>2. ASSUME NEW t \in Reconcilers, NEW r \in Runs, ReconcilePush(t, r) PROVE BaseInv'
  BY <1>2 DEF ReconcilePush, At, Goto, Looking, Durable, TriesPush, NeedsGit,
     UnrecordedCommit, Working, Counters
<1>3. ASSUME NEW t \in Reconcilers, ReconcileBatch(t) PROVE BaseInv'
  BY <1>3 DEF ReconcileBatch, At, Goto, SetPhase, Working, Counters
<1>4. ASSUME NEW t \in Reconcilers, ReconcileRun(t) PROVE BaseInv'
  BY <1>4 DEF ReconcileRun, At, Goto, SetStatus, SetPhase, Working, Counters
<1>5. ASSUME NEW t \in Reconcilers, NEW r \in Runs, ReconcileInterrupt(t, r) PROVE BaseInv'
  BY <1>5 DEF ReconcileInterrupt, At, Looking, SetStatus, NonTerminal, Working, Counters
<1>6. ASSUME NEW t \in Reconcilers, NEW r \in Runs, ReconcileSkip(t, r) PROVE BaseInv'
  BY <1>6 DEF ReconcileSkip, Working, Counters
<1>7. ASSUME NEW t \in Reconcilers, NEW r \in Runs, ReconcileGitFails(t, r) PROVE BaseInv'
  BY <1>7 DEF ReconcileGitFails, Working, Counters
<1>8. ASSUME NEW t \in Reconcilers, ReconcileFinishFails(t) PROVE BaseInv'
  BY <1>8 DEF ReconcileFinishFails, At, Goto, Working, Counters
<1>9. ASSUME NEW t \in Reconcilers, EndPass(t) PROVE BaseInv'
  BY <1>9 DEF EndPass, At, Goto, Working, Counters
<1>10. ASSUME NEW r \in Runs, ClaimPending(r) PROVE BaseInv'
  BY <1>10 DEF ClaimPending, At, Goto, Pending, BaselineComplete, Working, Counters
<1>11. ASSUME NEW r \in Runs, NEW b \in Batches, ClaimBatch(r, b) PROVE BaseInv'
  BY <1>11 DEF ClaimBatch, At, Goto, SetStatus, Unused, Active, Queued, EarlyInv, EarlyRun,
     Working, Counters
<1>12. ASSUME ClaimNothing PROVE BaseInv'
  BY <1>12 DEF ClaimNothing, At, Goto, Working, Counters
<1>13. ASSUME ClaimLeaseExpires PROVE BaseInv'
  BY <1>13 DEF ClaimLeaseExpires, Working, Counters
<1>14. ASSUME Setup PROVE BaseInv'
  <2>1. /\ on[Worker] \in Runs
        /\ runStatus[on[Worker]] \in NonTerminal
        /\ gitPhase[on[Worker]] \in {"none", "commit_intent"}
    BY <1>14 DEF Setup, At, Typing, TypeOK, RunTypeOK, TaskTypeOK, HoldsRun, Working, Counters,
       ActiveInv, LateTurn, EarlyInv, EarlyTurn, NonTerminal
  <2>2. \A q \in Runs : q # on[Worker] => gitPhase[q] \notin Announced
    BY <1>t, <1>a, <2>1, NoneOwed
  <2>3. gitPhase[on[Worker]] = "none" /\ runStatus[on[Worker]] = "pending_agent"
    BY <1>14 DEF Setup, At, EarlyInv, EarlyTurn, ActiveInv
  <2>4. /\ local' = remote /\ base' = [base EXCEPT ![on[Worker]] = remote.files]
        /\ gitPhase' = [gitPhase EXCEPT ![on[Worker]] = "agent_editing"]
        /\ runStatus' = runStatus /\ on' = on
    BY <1>14 DEF Setup, Checkout, SetPhase
  <2>5. \A q \in Runs : runStatus[q] \in NonTerminal => q = on[Worker]
    BY <1>a, <2>1 DEF OneActiveRun
  <2>6. \A u \in Tasks : pc'[u] \notin {"failing", "committing"}
    BY <1>14 DEF Setup, At, Goto
  <2>7. base'[on[Worker]] = local'.files
    BY <2>1, <2>4
  <2>8. \A q \in Runs : runStatus[q] = "running_agent" => gitPhase'[q] # "none"
    BY <2>3, <2>4
  <2> QED BY <2>4, <2>5, <2>6, <2>7, <2>8
<1>15. ASSUME Launch PROVE BaseInv'
  BY <1>15 DEF Launch, At, Goto, SetStatus, EarlyInv, EarlyTurn, ActiveInv, NonTerminal,
     Working, Counters
<1>16. ASSUME NEW t \in Hooks, NEW r \in Runs, ClaimAwaiting(t, r) PROVE BaseInv'
  BY <1>16 DEF ClaimAwaiting, At, Goto, SetStatus, AwaitsAnswer, EarlyInv, EarlyRun,
     NonTerminal, Working, Counters
<1>17. ASSUME NEW t \in Web, AgentEdits(t) PROVE BaseInv'
  BY <1>17 DEF AgentEdits, At, TypeOK, Working, Counters
<1>18. ASSUME NEW t \in Web, TurnAwaits(t) PROVE BaseInv'
  BY <1>18 DEF TurnAwaits, At, Goto, SetStatus, ActiveInv, NonTerminal, Working, Counters
<1>19. ASSUME NEW t \in Web, MessagesSent(t) PROVE BaseInv'
  BY <1>19 DEF MessagesSent, At, Goto, Return, Working, Counters
<1>20. ASSUME NEW t \in Web, TurnDone(t) PROVE BaseInv'
  BY <1>20 DEF TurnDone, At, Goto, SetPhase, LateTurn, EarlyInv, EarlyTurn, Working,
     Counters
<1>21. ASSUME NEW t \in Web, GitCommit(t) PROVE BaseInv'
  <2>1. /\ on[t] \in Runs
        /\ runStatus[on[t]] \in NonTerminal
        /\ gitPhase[on[t]] \in {"none", "commit_intent"}
    BY <1>21 DEF GitCommit, At, Typing, TypeOK, RunTypeOK, TaskTypeOK, HoldsRun, Working,
       Counters, ActiveInv, LateTurn, EarlyInv, EarlyTurn, NonTerminal
  <2>2. \A q \in Runs : q # on[t] => gitPhase[q] \notin Announced
    BY <1>t, <1>a, <2>1, NoneOwed
  <2>3. /\ gitPhase' = gitPhase /\ runStatus' = runStatus /\ base' = base /\ on' = on /\ tree' = tree
        /\ pc' = [pc EXCEPT ![t] = "committing"]
    BY <1>21 DEF GitCommit, Goto
  <2>4. \A q \in Runs : runStatus[q] \in NonTerminal => q = on[t]
    BY <1>a, <2>1 DEF OneActiveRun
  <2>5. \A u \in Tasks : pc'[u] # "failing"
    BY <1>21 DEF GitCommit, At, Goto
  <2>6. CASE TargetsClean
    <3>1. local' = local /\ tree = local.files
      BY <1>21, <2>6 DEF GitCommit, Commit, TargetsClean
    <3> QED BY <2>3, <2>5, <3>1
  <2>7. CASE ~TargetsClean
    <3>1. local' = [commits |-> local.commits \cup {on[t]}, tip |-> on[t], files |-> tree]
      BY <1>21, <2>7 DEF GitCommit, Commit
    <3>2. on[t] \in local'.commits /\ local'.files = tree
      BY <3>1
    <3> QED BY <2>3, <2>4, <2>5, <3>2
  <2> QED BY <2>6, <2>7
<1>22. ASSUME NEW t \in Web, RecordCommit(t) PROVE BaseInv'
  BY <1>22 DEF RecordCommit, At, Goto, SetPhase, LateTurn, Working, Counters
<1>23. ASSUME NEW t \in Web, GitPush(t) PROVE BaseInv'
  BY <1>23 DEF GitPush, At, Goto, Working, Counters
<1>24. ASSUME NEW t \in Web, RecordPush(t) PROVE BaseInv'
  BY <1>24 DEF RecordPush, At, Goto, SetPhase, Working, Counters
<1>25. ASSUME NEW t \in Web, CompleteBatch(t) PROVE BaseInv'
  BY <1>25 DEF CompleteBatch, At, Goto, Working, Counters
<1>26. ASSUME NEW t \in Web, CompleteRun(t) PROVE BaseInv'
  BY <1>26 DEF CompleteRun, At, Goto, Return, SetStatus, SetPhase, Working, Counters
<1>27. ASSUME SetupFails PROVE BaseInv'
  BY <1>27 DEF SetupFails, At, Goto, Return, FailRun, SetStatus, NonTerminal, Working,
     Counters
<1>28. ASSUME NEW t \in Web, TurnFails(t) PROVE BaseInv'
  BY <1>28 DEF TurnFails, At, Goto, Return, FailRun, SetStatus, NonTerminal, Working,
     Counters
<1>29. ASSUME NEW t \in Web, SendFails(t) PROVE BaseInv'
  BY <1>29 DEF SendFails, At, Goto, Return, FailRun, SetStatus, NonTerminal, Working,
     Counters
<1>30. ASSUME NEW t \in Web, CompletionFails(t) PROVE BaseInv'
  <2>a. Awaits = {"idle", "claim", "agent", "sending"} /\ "overlap" \notin Faults
    OBVIOUS
  <2> HIDE DEF Awaits, Orderly, OrderlyKinds
  <2>1. pc[t] \in {"agent", "intent", "committed", "pushed", "batchDone"} /\ on[t] \in Runs
    BY <1>30 DEF CompletionFails, At, Working, Counters
  <2>2. \A u \in Tasks : pc[u] # "committing"
    BY <1>30, <2>a, <2>1 DEF CompletionFails, At
  <2>3. UNCHANGED <<gitPhase, base, local, on>> /\ pc' = [pc EXCEPT ![t] = "failing"]
    BY <1>30 DEF CompletionFails, FailRun, Goto
  <2>4. runStatus' = [runStatus EXCEPT ![on[t]] = "failed"]
    BY <1>30 DEF CompletionFails, FailRun, SetStatus
  <2>5. gitPhase[on[t]] \in {"agent_editing", "commit_intent"} => base[on[t]] = local.files
    BY <2>1 DEF EarlyInv, EarlyTurn, LateTurn, ActiveInv, NonTerminal, CommitRows, Early, IntentInv
  <2>6. \A q \in Runs : Uncommitted(q)' /\ (runStatus[q] \in NonTerminal)' => base'[q] = local.files'
    BY <2>3, <2>4 DEF NonTerminal
  <2> QED BY <2>1, <2>2, <2>3, <2>4, <2>5, <2>6
<1>31. ASSUME NEW t \in Web, FinalJsonFails(t) PROVE BaseInv'
  BY <1>31 DEF FinalJsonFails, At, Goto, SetStatus, LateTurn, Working, Counters
<1>32. ASSUME NEW t \in Web, FailAgain(t) PROVE BaseInv'
  BY <1>32 DEF FailAgain, At, Goto, Return, Working, Counters
<1>33. ASSUME NEW process \in SUBSET Tasks, Crash(process) PROVE BaseInv'
  BY <1>33 DEF Crash, Working, Counters
<1>34. ASSUME NEW r \in Runs, LeaseExpires(r) PROVE BaseInv'
  BY <1>34 DEF LeaseExpires, InProgress, Working, Counters
<1>35. ASSUME NEW r \in Runs, BackoffEnds(r) PROVE BaseInv'
  BY <1>35 DEF BackoffEnds, Working, Counters
<1>36. ASSUME NEW t \in Clis, Retry(t) PROVE BaseInv'
  BY <1>36 DEF Retry, At, Goto, Retryable, Working, Counters
<1>37. ASSUME NEW r \in Runs, Abandon(r) PROVE BaseInv'
  BY <1>37 DEF Abandon, SetStatus, MayAbandon, InProgress, NonTerminal, Working, Counters
<1>38. ASSUME NEW r \in Runs, AbandonEnded(r) PROVE BaseInv'
  BY <1>38 DEF AbandonEnded, MayAbandon, Working, Counters
<1>39. ASSUME NEW c \in Outsiders, OutsideCommit(c) PROVE BaseInv'
  BY <1>39 DEF OutsideCommit, Working, Counters
<1>40. ASSUME UNCHANGED vars PROVE BaseInv'
  BY <1>40 DEF vars, Working, Counters
<1> HIDE DEF Orderly, OrderlyKinds, Typing, TypeOK, RepoTypeOK, RunTypeOK, TaskTypeOK,
         HoldsRun, Branch, Content, OneBusy, Awaits, Undisturbed, BaseInv, Uncommitted, Editing,
         cycleVars, batchVars, runVars, repoVars, taskVars, Tasks, Web, Reconcilers
<1> QED
  BY <1>1, <1>2, <1>3, <1>4, <1>5, <1>6, <1>7, <1>8, <1>9, <1>10, <1>11, <1>12, <1>13,
     <1>14, <1>15, <1>16, <1>17, <1>18, <1>19, <1>20, <1>21, <1>22, <1>23, <1>24, <1>25,
     <1>26, <1>27, <1>28, <1>29, <1>30, <1>31, <1>32, <1>33, <1>34, <1>35, <1>36, <1>37,
     <1>38, <1>39, <1>40 DEF Next, TurnStep, ReconcileStep, WorkerClaim, Time, Tasks, Web

\* Commits and files change together: a commit adds the edits of its run and no others.
LEMMA FilesNext ==
    ASSUME Orderly, Typing, EarlyInv, ActiveInv, OneBusy, LateTurn, Rows, FilesAreCommits,
           DirtyInv, [Next]_vars
    PROVE  FilesAreCommits'
<1>t. RowsTyped
  BY RowsAreTyped
<1>a. OneActiveRun
  BY DEF ActiveInv
<1> USE DurabilityAssumption DEF Typing, TypeOK, RepoTypeOK, RunTypeOK, TaskTypeOK,
        HoldsRun, Branch, Content, FilesAreCommits, cycleVars, batchVars, runVars, repoVars,
        taskVars, Tasks, Web, Reconcilers
<1>1. ASSUME NEW t \in Reconcilers, BeginPass(t) PROVE FilesAreCommits'
  BY <1>1 DEF BeginPass, At, Goto, Working, Counters
<1>2. ASSUME NEW t \in Reconcilers, NEW r \in Runs, ReconcilePush(t, r) PROVE FilesAreCommits'
  BY <1>2 DEF ReconcilePush, At, Goto, Looking, Durable, TriesPush, NeedsGit,
     UnrecordedCommit, Push, Working, Counters
<1>3. ASSUME NEW t \in Reconcilers, ReconcileBatch(t) PROVE FilesAreCommits'
  BY <1>3 DEF ReconcileBatch, At, Goto, SetPhase, Working, Counters
<1>4. ASSUME NEW t \in Reconcilers, ReconcileRun(t) PROVE FilesAreCommits'
  BY <1>4 DEF ReconcileRun, At, Goto, SetStatus, SetPhase, Working, Counters
<1>5. ASSUME NEW t \in Reconcilers, NEW r \in Runs, ReconcileInterrupt(t, r)
      PROVE  FilesAreCommits'
  BY <1>5 DEF ReconcileInterrupt, At, Looking, SetStatus, Working, Counters
<1>6. ASSUME NEW t \in Reconcilers, NEW r \in Runs, ReconcileSkip(t, r) PROVE FilesAreCommits'
  BY <1>6 DEF ReconcileSkip, Working, Counters
<1>7. ASSUME NEW t \in Reconcilers, NEW r \in Runs, ReconcileGitFails(t, r) PROVE FilesAreCommits'
  BY <1>7 DEF ReconcileGitFails, Working, Counters
<1>8. ASSUME NEW t \in Reconcilers, ReconcileFinishFails(t) PROVE FilesAreCommits'
  BY <1>8 DEF ReconcileFinishFails, At, Goto, Working, Counters
<1>9. ASSUME NEW t \in Reconcilers, EndPass(t) PROVE FilesAreCommits'
  BY <1>9 DEF EndPass, At, Goto, Working, Counters
<1>10. ASSUME NEW r \in Runs, ClaimPending(r) PROVE FilesAreCommits'
  BY <1>10 DEF ClaimPending, At, Goto, Pending, BaselineComplete, Working, Counters
<1>11. ASSUME NEW r \in Runs, NEW b \in Batches, ClaimBatch(r, b) PROVE FilesAreCommits'
  BY <1>11 DEF ClaimBatch, At, Goto, SetStatus, Unused, Active, Queued, Working, Counters
<1>12. ASSUME ClaimNothing PROVE FilesAreCommits'
  BY <1>12 DEF ClaimNothing, At, Goto, Working, Counters
<1>13. ASSUME ClaimLeaseExpires PROVE FilesAreCommits'
  BY <1>13 DEF ClaimLeaseExpires, Working, Counters
<1>14. ASSUME Setup PROVE FilesAreCommits'
  BY <1>14 DEF Setup, Checkout
<1>15. ASSUME Launch PROVE FilesAreCommits'
  BY <1>15 DEF Launch, At, Goto, SetStatus, Working, Counters
<1>16. ASSUME NEW t \in Hooks, NEW r \in Runs, ClaimAwaiting(t, r) PROVE FilesAreCommits'
  BY <1>16 DEF ClaimAwaiting, At, Goto, SetStatus, AwaitsAnswer, Working, Counters
<1>17. ASSUME NEW t \in Web, AgentEdits(t) PROVE FilesAreCommits'
  BY <1>17 DEF AgentEdits, Working, Counters
<1>18. ASSUME NEW t \in Web, TurnAwaits(t) PROVE FilesAreCommits'
  BY <1>18 DEF TurnAwaits, At, Goto, SetStatus, Working, Counters
<1>19. ASSUME NEW t \in Web, MessagesSent(t) PROVE FilesAreCommits'
  BY <1>19 DEF MessagesSent, At, Goto, Return, Working, Counters
<1>20. ASSUME NEW t \in Web, TurnDone(t) PROVE FilesAreCommits'
  BY <1>20 DEF TurnDone, At, Goto, SetPhase, Working, Counters
<1>21. ASSUME NEW t \in Web, GitCommit(t) PROVE FilesAreCommits'
  <2>1. /\ on[t] \in Runs
        /\ runStatus[on[t]] \in NonTerminal
        /\ gitPhase[on[t]] \in {"none", "commit_intent"}
    BY <1>21 DEF GitCommit, At, Typing, TypeOK, RunTypeOK, TaskTypeOK, HoldsRun, Working,
       Counters, ActiveInv, LateTurn, EarlyInv, EarlyTurn, NonTerminal
  <2>2. \A q \in Runs : q # on[t] => gitPhase[q] \notin Announced
    BY <1>t, <1>a, <2>1, NoneOwed
  <2>3. gitPhase[on[t]] = "commit_intent" /\ runStatus[on[t]] = "running_agent"
    BY <1>21 DEF GitCommit, At, LateTurn
  <2>4. ~\E q \in Runs : Stuck(q)
    BY <2>2, <2>3 DEF Stuck, Announced
  <2>5. \A q \in Runs : runStatus[q] \in NonTerminal => q = on[t]
    BY <1>a, <2>1 DEF OneActiveRun
  <2>6. tree = local.files \/ tree = local.files \cup {on[t]}
    BY <2>4, <2>5 DEF DirtyInv
  <2>7. remote' = remote /\ (local' = local \/ (local'.files = tree /\ local'.commits = local.commits \cup {on[t]} /\ ~TargetsClean))
    BY <1>21 DEF GitCommit, Commit
  <2> QED BY <2>6, <2>7 DEF TargetsClean
<1>22. ASSUME NEW t \in Web, RecordCommit(t) PROVE FilesAreCommits'
  BY <1>22 DEF RecordCommit, At, Goto, SetPhase, Working, Counters
<1>23. ASSUME NEW t \in Web, GitPush(t) PROVE FilesAreCommits'
  BY <1>23 DEF GitPush, At, Goto, Push, Working, Counters
<1>24. ASSUME NEW t \in Web, RecordPush(t) PROVE FilesAreCommits'
  BY <1>24 DEF RecordPush, At, Goto, SetPhase, Working, Counters
<1>25. ASSUME NEW t \in Web, CompleteBatch(t) PROVE FilesAreCommits'
  BY <1>25 DEF CompleteBatch, At, Goto, Working, Counters
<1>26. ASSUME NEW t \in Web, CompleteRun(t) PROVE FilesAreCommits'
  BY <1>26 DEF CompleteRun, At, Goto, Return, SetStatus, SetPhase, Working, Counters
<1>27. ASSUME SetupFails PROVE FilesAreCommits'
  BY <1>27 DEF SetupFails, At, Goto, Return, FailRun, SetStatus, Working, Counters
<1>28. ASSUME NEW t \in Web, TurnFails(t) PROVE FilesAreCommits'
  BY <1>28 DEF TurnFails, At, Goto, Return, FailRun, SetStatus, Working, Counters
<1>29. ASSUME NEW t \in Web, SendFails(t) PROVE FilesAreCommits'
  BY <1>29 DEF SendFails, At, Goto, Return, FailRun, SetStatus, Working, Counters
<1>30. ASSUME NEW t \in Web, CompletionFails(t) PROVE FilesAreCommits'
  BY <1>30 DEF CompletionFails, At, Goto, FailRun, SetStatus, Working, Counters
<1>31. ASSUME NEW t \in Web, FinalJsonFails(t) PROVE FilesAreCommits'
  BY <1>31 DEF FinalJsonFails, At, Goto, SetStatus, Working, Counters
<1>32. ASSUME NEW t \in Web, FailAgain(t) PROVE FilesAreCommits'
  BY <1>32 DEF FailAgain, At, Goto, Return, Working, Counters
<1>33. ASSUME NEW process \in SUBSET Tasks, Crash(process) PROVE FilesAreCommits'
  BY <1>33 DEF Crash, Working, Counters
<1>34. ASSUME NEW r \in Runs, LeaseExpires(r) PROVE FilesAreCommits'
  BY <1>34 DEF LeaseExpires, InProgress, Working, Counters
<1>35. ASSUME NEW r \in Runs, BackoffEnds(r) PROVE FilesAreCommits'
  BY <1>35 DEF BackoffEnds, Working, Counters
<1>36. ASSUME NEW t \in Clis, Retry(t) PROVE FilesAreCommits'
  BY <1>36 DEF Retry, At, Goto, Retryable, Working, Counters
<1>37. ASSUME NEW r \in Runs, Abandon(r) PROVE FilesAreCommits'
  BY <1>37 DEF Abandon, SetStatus, MayAbandon, InProgress, Working, Counters
<1>38. ASSUME NEW r \in Runs, AbandonEnded(r) PROVE FilesAreCommits'
  BY <1>38 DEF AbandonEnded, Working, Counters
<1>39. ASSUME NEW c \in Outsiders, OutsideCommit(c) PROVE FilesAreCommits'
  BY <1>39 DEF OutsideCommit, OutsidePush, Working, Counters
<1>40. ASSUME UNCHANGED vars PROVE FilesAreCommits'
  BY <1>40 DEF vars, Working, Counters
<1> HIDE DEF Typing, TypeOK, RepoTypeOK, RunTypeOK, TaskTypeOK, HoldsRun, Branch, Content,
         FilesAreCommits, cycleVars, batchVars, runVars, repoVars, taskVars, Tasks, Web,
         Reconcilers
<1> QED
  BY <1>1, <1>2, <1>3, <1>4, <1>5, <1>6, <1>7, <1>8, <1>9, <1>10, <1>11, <1>12, <1>13,
     <1>14, <1>15, <1>16, <1>17, <1>18, <1>19, <1>20, <1>21, <1>22, <1>23, <1>24, <1>25,
     <1>26, <1>27, <1>28, <1>29, <1>30, <1>31, <1>32, <1>33, <1>34, <1>35, <1>36, <1>37,
     <1>38, <1>39, <1>40 DEF Next, TurnStep, ReconcileStep, WorkerClaim, Time, Tasks, Web

\* An abandoned commit stays where it is.
LEMMA StuckNext ==
    ASSUME Orderly, Typing, PhaseInv, EarlyInv, ActiveInv, LateTurn, PassInv, NEW q \in Runs,
           Stuck(q), [Next]_vars
    PROVE  Stuck(q)'
<1>g. local.commits \subseteq local'.commits
  BY GitNext DEF PhaseInv
<1> USE DurabilityAssumption DEF Orderly, OrderlyKinds, Typing, TypeOK, RunTypeOK,
        TaskTypeOK, HoldsRun, Stuck, cycleVars, batchVars, runVars, repoVars, taskVars, Tasks,
        Web, Reconcilers
<1>1. ASSUME NEW t \in Reconcilers, BeginPass(t) PROVE Stuck(q)'
  BY <1>1, <1>g DEF BeginPass, At, Goto, Working, Counters
<1>2. ASSUME NEW t \in Reconcilers, NEW r \in Runs, ReconcilePush(t, r) PROVE Stuck(q)'
  BY <1>2, <1>g DEF ReconcilePush, At, Goto, Looking, Durable, TriesPush, NeedsGit,
     UnrecordedCommit, Working, Counters
<1>3. ASSUME NEW t \in Reconcilers, ReconcileBatch(t) PROVE Stuck(q)'
  BY <1>3, <1>g DEF ReconcileBatch, At, Goto, SetPhase, PassInv, Passing, Candidates, Working,
     Counters
<1>4. ASSUME NEW t \in Reconcilers, ReconcileRun(t) PROVE Stuck(q)'
  BY <1>4, <1>g DEF ReconcileRun, At, Goto, SetStatus, SetPhase, PassInv, Passing, Candidates,
     Working, Counters
<1>5. ASSUME NEW t \in Reconcilers, NEW r \in Runs, ReconcileInterrupt(t, r) PROVE Stuck(q)'
  BY <1>5, <1>g DEF ReconcileInterrupt, At, Looking, SetStatus, PassInv, Passing, Candidates,
     Working, Counters
<1>6. ASSUME NEW t \in Reconcilers, NEW r \in Runs, ReconcileSkip(t, r) PROVE Stuck(q)'
  BY <1>6, <1>g DEF ReconcileSkip, Working, Counters
<1>7. ASSUME NEW t \in Reconcilers, NEW r \in Runs, ReconcileGitFails(t, r) PROVE Stuck(q)'
  BY <1>7, <1>g DEF ReconcileGitFails, Working, Counters
<1>8. ASSUME NEW t \in Reconcilers, ReconcileFinishFails(t) PROVE Stuck(q)'
  BY <1>8, <1>g DEF ReconcileFinishFails, At, Goto, Working, Counters
<1>9. ASSUME NEW t \in Reconcilers, EndPass(t) PROVE Stuck(q)'
  BY <1>9, <1>g DEF EndPass, At, Goto, Working, Counters
<1>10. ASSUME NEW r \in Runs, ClaimPending(r) PROVE Stuck(q)'
  BY <1>10, <1>g DEF ClaimPending, At, Goto, Pending, BaselineComplete, Working, Counters
<1>11. ASSUME NEW r \in Runs, NEW b \in Batches, ClaimBatch(r, b) PROVE Stuck(q)'
  BY <1>11, <1>g DEF ClaimBatch, At, Goto, SetStatus, Unused, Active, Queued, Working, Counters
<1>12. ASSUME ClaimNothing PROVE Stuck(q)'
  BY <1>12, <1>g DEF ClaimNothing, At, Goto, Working, Counters
<1>13. ASSUME ClaimLeaseExpires PROVE Stuck(q)'
  BY <1>13, <1>g DEF ClaimLeaseExpires, Working, Counters
<1>14. ASSUME Setup PROVE Stuck(q)'
  BY <1>14, <1>g DEF Setup, At, Goto, SetPhase, ActiveInv, Working, Counters
<1>15. ASSUME Launch PROVE Stuck(q)'
  BY <1>15, <1>g DEF Launch, At, Goto, SetStatus, ActiveInv, Working, Counters
<1>16. ASSUME NEW t \in Hooks, NEW r \in Runs, ClaimAwaiting(t, r) PROVE Stuck(q)'
  BY <1>16, <1>g DEF ClaimAwaiting, At, Goto, SetStatus, AwaitsAnswer, Working, Counters
<1>17. ASSUME NEW t \in Web, AgentEdits(t) PROVE Stuck(q)'
  BY <1>17, <1>g DEF AgentEdits, Working, Counters
<1>18. ASSUME NEW t \in Web, TurnAwaits(t) PROVE Stuck(q)'
  BY <1>18, <1>g DEF TurnAwaits, At, Goto, SetStatus, ActiveInv, Working, Counters
<1>19. ASSUME NEW t \in Web, MessagesSent(t) PROVE Stuck(q)'
  BY <1>19, <1>g DEF MessagesSent, At, Goto, Return, Working, Counters
<1>20. ASSUME NEW t \in Web, TurnDone(t) PROVE Stuck(q)'
  BY <1>20, <1>g DEF TurnDone, At, Goto, SetPhase, ActiveInv, Working, Counters
<1>21. ASSUME NEW t \in Web, GitCommit(t) PROVE Stuck(q)'
  BY <1>21, <1>g DEF GitCommit, At, Goto, Working, Counters
<1>22. ASSUME NEW t \in Web, RecordCommit(t) PROVE Stuck(q)'
  BY <1>22, <1>g DEF RecordCommit, At, Goto, SetPhase, LateTurn, Working, Counters
<1>23. ASSUME NEW t \in Web, GitPush(t) PROVE Stuck(q)'
  BY <1>23, <1>g DEF GitPush, At, Goto, Working, Counters
<1>24. ASSUME NEW t \in Web, RecordPush(t) PROVE Stuck(q)'
  BY <1>24, <1>g DEF RecordPush, At, Goto, SetPhase, LateTurn, Working, Counters
<1>25. ASSUME NEW t \in Web, CompleteBatch(t) PROVE Stuck(q)'
  BY <1>25, <1>g DEF CompleteBatch, At, Goto, Working, Counters
<1>26. ASSUME NEW t \in Web, CompleteRun(t) PROVE Stuck(q)'
  BY <1>26, <1>g DEF CompleteRun, At, Goto, Return, SetStatus, SetPhase, LateTurn, Working,
     Counters
<1>27. ASSUME SetupFails PROVE Stuck(q)'
  BY <1>27, <1>g DEF SetupFails, At, Goto, Return, FailRun, SetStatus, ActiveInv, Working,
     Counters
<1>28. ASSUME NEW t \in Web, TurnFails(t) PROVE Stuck(q)'
  BY <1>28, <1>g DEF TurnFails, At, Goto, Return, FailRun, SetStatus, ActiveInv, Working, Counters
<1>29. ASSUME NEW t \in Web, SendFails(t) PROVE Stuck(q)'
  BY <1>29, <1>g DEF SendFails, At, Goto, Return, FailRun, SetStatus, Working, Counters
<1>30. ASSUME NEW t \in Web, CompletionFails(t) PROVE Stuck(q)'
  BY <1>30, <1>g DEF CompletionFails, At, Goto, FailRun, SetStatus, ActiveInv, LateTurn, Working,
     Counters
<1>31. ASSUME NEW t \in Web, FinalJsonFails(t) PROVE Stuck(q)'
  BY <1>31, <1>g DEF FinalJsonFails, At, Goto, SetStatus, LateTurn, Working, Counters
<1>32. ASSUME NEW t \in Web, FailAgain(t) PROVE Stuck(q)'
  BY <1>32, <1>g DEF FailAgain, At, Goto, Return, Working, Counters
<1>33. ASSUME NEW process \in SUBSET Tasks, Crash(process) PROVE Stuck(q)'
  BY <1>33, <1>g DEF Crash, Working, Counters
<1>34. ASSUME NEW r \in Runs, LeaseExpires(r) PROVE Stuck(q)'
  BY <1>34, <1>g DEF LeaseExpires, InProgress, Working, Counters
<1>35. ASSUME NEW r \in Runs, BackoffEnds(r) PROVE Stuck(q)'
  BY <1>35, <1>g DEF BackoffEnds, Working, Counters
<1>36. ASSUME NEW t \in Clis, Retry(t) PROVE Stuck(q)'
  BY <1>36, <1>g DEF Retry, At, Goto, Retryable, Working, Counters
<1>37. ASSUME NEW r \in Runs, Abandon(r) PROVE Stuck(q)'
  BY <1>37, <1>g DEF Abandon, SetStatus, MayAbandon, InProgress, NonTerminal, Working, Counters
<1>38. ASSUME NEW r \in Runs, AbandonEnded(r) PROVE Stuck(q)'
  BY <1>38, <1>g DEF AbandonEnded, Working, Counters
<1>39. ASSUME NEW c \in Outsiders, OutsideCommit(c) PROVE Stuck(q)'
  BY <1>39, <1>g DEF OutsideCommit, Working, Counters
<1>40. ASSUME UNCHANGED vars PROVE Stuck(q)'
  BY <1>40, <1>g DEF vars, Working, Counters
<1> HIDE DEF Orderly, OrderlyKinds, Typing, TypeOK, RunTypeOK, TaskTypeOK, HoldsRun, Stuck,
         cycleVars, batchVars, runVars, repoVars, taskVars, Tasks, Web, Reconcilers
<1> QED
  BY <1>1, <1>2, <1>3, <1>4, <1>5, <1>6, <1>7, <1>8, <1>9, <1>10, <1>11, <1>12, <1>13,
     <1>14, <1>15, <1>16, <1>17, <1>18, <1>19, <1>20, <1>21, <1>22, <1>23, <1>24, <1>25,
     <1>26, <1>27, <1>28, <1>29, <1>30, <1>31, <1>32, <1>33, <1>34, <1>35, <1>36, <1>37,
     <1>38, <1>39, <1>40 DEF Next, TurnStep, ReconcileStep, WorkerClaim, Time, Tasks, Web
\* Every step leaves the working tree clean but for the edits of the active run.
LEMMA DirtyNext ==
    ASSUME Orderly, FilesAreLeft, Typing, PhaseInv, PhaseIsTrue, EarlyInv, ActiveInv, LateTurn,
           PassInv, Rows, BatchTurn, CommitRows, IntentInv, FilesAreCommits, BaseInv, DirtyInv,
           [Next]_vars
    PROVE  DirtyInv'
<1>t. RowsTyped
  BY RowsAreTyped
<1>a. OneActiveRun
  BY DEF ActiveInv
<1>s. \A q \in Runs : Stuck(q) => Stuck(q)'
  BY StuckNext
<1>1. ASSUME NEW t \in Reconcilers, BeginPass(t) PROVE DirtyInv'
  <2>1. UNCHANGED <<tree, local, gitPhase, runStatus>>
    BY <1>1 DEF BeginPass, repoVars, runVars
  <2> QED BY <2>1 DEF DirtyInv, Editing, Stuck
<1>2. ASSUME NEW t \in Reconcilers, NEW r \in Runs, ReconcilePush(t, r) PROVE DirtyInv'
  <2>1. UNCHANGED <<tree, local, gitPhase, runStatus>>
    BY <1>2 DEF ReconcilePush, repoVars, runVars
  <2> QED BY <2>1 DEF DirtyInv, Editing, Stuck
<1>3. ASSUME NEW t \in Reconcilers, ReconcileBatch(t) PROVE DirtyInv'
  <2>1. tree' = tree /\ local' = local
    BY <1>3 DEF ReconcileBatch, repoVars
  <2>2. \A q \in Runs : runStatus[q] \in NonTerminal /\ Editing(q) => runStatus'[q] \in NonTerminal /\ Editing(q)'
    BY <1>3 DEF ReconcileBatch, repoVars, Tasks, Web, Reconcilers, Editing, SetStatus, SetPhase,
       NonTerminal, At, Typing, TypeOK, RunTypeOK, TaskTypeOK, HoldsRun, Working, Counters,
       PhaseInv, PushInv, GitInv, RunsAreLocal, ReconcilerHasPushed, PushedNothing
  <2> QED BY <1>s, <2>1, <2>2 DEF DirtyInv
<1>4. ASSUME NEW t \in Reconcilers, ReconcileRun(t) PROVE DirtyInv'
  <2>1. tree' = tree /\ local' = local
    BY <1>4 DEF ReconcileRun, repoVars
  <2>2. \A q \in Runs : runStatus[q] \in NonTerminal /\ Editing(q) => runStatus'[q] \in NonTerminal /\ Editing(q)'
    BY <1>4 DEF ReconcileRun, repoVars, Tasks, Web, Reconcilers, Editing, SetStatus, SetPhase,
       NonTerminal, At, Typing, TypeOK, RunTypeOK, TaskTypeOK, HoldsRun, Working, Counters,
       BatchTurn, Dangling
  <2> QED BY <1>s, <2>1, <2>2 DEF DirtyInv
<1>5. ASSUME NEW t \in Reconcilers, NEW r \in Runs, ReconcileInterrupt(t, r) PROVE DirtyInv'
  <2>1. local' = local /\ tree' = base[r] /\ runStatus[r] = "running_agent"
        /\ ~(Durable(r) \/ TriesPush(r))
    BY <1>5 DEF ReconcileInterrupt, Restore
  <2>2. gitPhase[r] \notin {"none", "completed"}
    BY <2>1 DEF BaseInv, Rows, RunRows
  <2>3. r \notin local.commits
    BY <2>1, <2>2, FoundIsTaken
  <2>4. gitPhase[r] # "pushed"
    BY <2>1, <2>3 DEF Durable, NeedsGit, PhaseIsTrue
  <2>5. Uncommitted(r)
    BY <1>t, <2>2, <2>3, <2>4 DEF Uncommitted, Editing, RowsTyped, Phases
  <2>9. tree' = local'.files
    BY <2>1, <2>5 DEF BaseInv, NonTerminal
  <2> QED BY <2>9 DEF DirtyInv
<1>6. ASSUME NEW t \in Reconcilers, NEW r \in Runs, ReconcileSkip(t, r) PROVE DirtyInv'
  <2>1. UNCHANGED <<tree, local, gitPhase, runStatus>>
    BY <1>6 DEF ReconcileSkip, repoVars, runVars
  <2> QED BY <2>1 DEF DirtyInv, Editing, Stuck
<1>7. ASSUME NEW t \in Reconcilers, NEW r \in Runs, ReconcileGitFails(t, r) PROVE DirtyInv'
  <2>1. UNCHANGED <<tree, local, gitPhase, runStatus>>
    BY <1>7 DEF ReconcileGitFails, repoVars, runVars
  <2> QED BY <2>1 DEF DirtyInv, Editing, Stuck
<1>8. ASSUME NEW t \in Reconcilers, ReconcileFinishFails(t) PROVE DirtyInv'
  <2>1. UNCHANGED <<tree, local, gitPhase, runStatus>>
    BY <1>8 DEF ReconcileFinishFails, repoVars, runVars
  <2> QED BY <2>1 DEF DirtyInv, Editing, Stuck
<1>9. ASSUME NEW t \in Reconcilers, EndPass(t) PROVE DirtyInv'
  <2>1. UNCHANGED <<tree, local, gitPhase, runStatus>>
    BY <1>9 DEF EndPass, repoVars, runVars
  <2> QED BY <2>1 DEF DirtyInv, Editing, Stuck
<1>10. ASSUME NEW r \in Runs, ClaimPending(r) PROVE DirtyInv'
  <2>1. UNCHANGED <<tree, local, gitPhase, runStatus>>
    BY <1>10 DEF ClaimPending, repoVars, runVars
  <2> QED BY <2>1 DEF DirtyInv, Editing, Stuck
<1>11. ASSUME NEW r \in Runs, NEW b \in Batches, ClaimBatch(r, b) PROVE DirtyInv'
  <2>1. tree' = tree /\ local' = local
    BY <1>11 DEF ClaimBatch, repoVars
  <2>2. \A q \in Runs : runStatus[q] \in NonTerminal /\ Editing(q) => runStatus'[q] \in NonTerminal /\ Editing(q)'
    BY <1>11 DEF ClaimBatch, repoVars, Tasks, Web, Reconcilers, Editing, SetStatus, SetPhase,
       NonTerminal, At, Typing, TypeOK, RunTypeOK, TaskTypeOK, HoldsRun, Working, Counters, Unused
  <2> QED BY <1>s, <2>1, <2>2 DEF DirtyInv
<1>12. ASSUME ClaimNothing PROVE DirtyInv'
  <2>1. UNCHANGED <<tree, local, gitPhase, runStatus>>
    BY <1>12 DEF ClaimNothing, repoVars, runVars
  <2> QED BY <2>1 DEF DirtyInv, Editing, Stuck
<1>13. ASSUME ClaimLeaseExpires PROVE DirtyInv'
  <2>1. UNCHANGED <<tree, local, gitPhase, runStatus>>
    BY <1>13 DEF ClaimLeaseExpires, repoVars, runVars
  <2> QED BY <2>1 DEF DirtyInv, Editing, Stuck
<1>14. ASSUME Setup PROVE DirtyInv'
  <2>1. local' = remote /\ tree = local.files
        /\ tree' = IF local.commits = remote.commits THEN tree ELSE remote.files
    BY <1>14 DEF Setup, Checkout, TargetsClean
  <2>9. tree' = local'.files
    BY <2>1 DEF FilesAreCommits
  <2> QED BY <2>9 DEF DirtyInv
<1>15. ASSUME Launch PROVE DirtyInv'
  <2>1. tree' = tree /\ local' = local
    BY <1>15 DEF Launch, repoVars
  <2>2. \A q \in Runs : runStatus[q] \in NonTerminal /\ Editing(q) => runStatus'[q] \in NonTerminal /\ Editing(q)'
    BY <1>15 DEF Launch, repoVars, Tasks, Web, Reconcilers, Editing, SetStatus, SetPhase,
       NonTerminal, At, Typing, TypeOK, RunTypeOK, TaskTypeOK, HoldsRun, Working, Counters
  <2> QED BY <1>s, <2>1, <2>2 DEF DirtyInv
<1>16. ASSUME NEW t \in Hooks, NEW r \in Runs, ClaimAwaiting(t, r) PROVE DirtyInv'
  <2>1. tree' = tree /\ local' = local
    BY <1>16 DEF ClaimAwaiting, repoVars
  <2>2. \A q \in Runs : runStatus[q] \in NonTerminal /\ Editing(q) => runStatus'[q] \in NonTerminal /\ Editing(q)'
    BY <1>16 DEF ClaimAwaiting, repoVars, Tasks, Web, Reconcilers, Editing, SetStatus, SetPhase,
       NonTerminal, At, Typing, TypeOK, RunTypeOK, TaskTypeOK, HoldsRun, Working, Counters
  <2> QED BY <1>s, <2>1, <2>2 DEF DirtyInv
<1>17. ASSUME NEW t \in Web, AgentEdits(t) PROVE DirtyInv'
  <2>1. /\ local' = local /\ tree' = tree \cup {on[t]} /\ on[t] \notin tree
        /\ gitPhase' = gitPhase /\ runStatus' = runStatus
    BY <1>17 DEF AgentEdits, repoVars, runVars
  <2>2. on[t] \in Runs /\ runStatus[on[t]] \in NonTerminal /\ gitPhase[on[t]] = "agent_editing"
    BY <1>17 DEF AgentEdits, At, ActiveInv, EarlyInv, EarlyTurn, NonTerminal, Tasks, Typing,
       TypeOK, RunTypeOK, TaskTypeOK, HoldsRun, Working, Counters
  <2>3. Editing(on[t])
    BY <2>2 DEF Editing, CommitRows, Early
  <2>4. CASE tree = local.files
    BY <2>1, <2>2, <2>3, <2>4 DEF DirtyInv, Editing
  <2>5. ASSUME NEW q \in Runs, runStatus[q] \in NonTerminal, tree = local.files \cup {q}
        PROVE  FALSE
    BY <1>a, <2>1, <2>2, <2>5 DEF OneActiveRun
  <2>6. CASE \E q \in Runs : Stuck(q)
    BY <1>s, <2>6 DEF DirtyInv
  <2> QED BY <2>4, <2>5, <2>6 DEF DirtyInv
<1>18. ASSUME NEW t \in Web, TurnAwaits(t) PROVE DirtyInv'
  <2>1. tree' = tree /\ local' = local
    BY <1>18 DEF TurnAwaits, repoVars
  <2>2. \A q \in Runs : runStatus[q] \in NonTerminal /\ Editing(q) => runStatus'[q] \in NonTerminal /\ Editing(q)'
    BY <1>18 DEF TurnAwaits, repoVars, Tasks, Web, Reconcilers, Editing, SetStatus, SetPhase,
       NonTerminal, At, Typing, TypeOK, RunTypeOK, TaskTypeOK, HoldsRun, Working, Counters
  <2> QED BY <1>s, <2>1, <2>2 DEF DirtyInv
<1>19. ASSUME NEW t \in Web, MessagesSent(t) PROVE DirtyInv'
  <2>1. UNCHANGED <<tree, local, gitPhase, runStatus>>
    BY <1>19 DEF MessagesSent, repoVars, runVars
  <2> QED BY <2>1 DEF DirtyInv, Editing, Stuck
<1>20. ASSUME NEW t \in Web, TurnDone(t) PROVE DirtyInv'
  <2>1. tree' = tree /\ local' = local
    BY <1>20 DEF TurnDone, repoVars
  <2>2. \A q \in Runs : runStatus[q] \in NonTerminal /\ Editing(q) => runStatus'[q] \in NonTerminal /\ Editing(q)'
    BY <1>20 DEF TurnDone, repoVars, Tasks, Web, Reconcilers, Editing, SetStatus, SetPhase,
       NonTerminal, At, Typing, TypeOK, RunTypeOK, TaskTypeOK, HoldsRun, Working, Counters,
       EarlyInv, EarlyTurn
  <2> QED BY <1>s, <2>1, <2>2 DEF DirtyInv
<1>21. ASSUME NEW t \in Web, GitCommit(t) PROVE DirtyInv'
  <2>1. tree' = tree
    BY <1>21 DEF GitCommit
  <2>9. tree' = local'.files
    BY <1>21, <2>1 DEF GitCommit, Commit, TargetsClean
  <2> QED BY <2>9 DEF DirtyInv
<1>22. ASSUME NEW t \in Web, RecordCommit(t) PROVE DirtyInv'
  <2>1. tree' = tree /\ local' = local
    BY <1>22 DEF RecordCommit, repoVars
  <2>9. tree' = local'.files
    BY <1>22, <2>1 DEF RecordCommit, At, BaseInv, Tasks
  <2> QED BY <2>9 DEF DirtyInv
<1>23. ASSUME NEW t \in Web, GitPush(t) PROVE DirtyInv'
  <2>1. UNCHANGED <<tree, local, gitPhase, runStatus>>
    BY <1>23 DEF GitPush, repoVars, runVars
  <2> QED BY <2>1 DEF DirtyInv, Editing, Stuck
<1>24. ASSUME NEW t \in Web, RecordPush(t) PROVE DirtyInv'
  <2>1. tree' = tree /\ local' = local
    BY <1>24 DEF RecordPush, repoVars
  <2>2. \A q \in Runs : runStatus[q] \in NonTerminal /\ Editing(q) => runStatus'[q] \in NonTerminal /\ Editing(q)'
    BY <1>24 DEF RecordPush, repoVars, Tasks, Web, Reconcilers, Editing, SetStatus, SetPhase,
       NonTerminal, At, Typing, TypeOK, RunTypeOK, TaskTypeOK, HoldsRun, Working, Counters,
       LateTurn
  <2> QED BY <1>s, <2>1, <2>2 DEF DirtyInv
<1>25. ASSUME NEW t \in Web, CompleteBatch(t) PROVE DirtyInv'
  <2>1. UNCHANGED <<tree, local, gitPhase, runStatus>>
    BY <1>25 DEF CompleteBatch, repoVars, runVars
  <2> QED BY <2>1 DEF DirtyInv, Editing, Stuck
<1>26. ASSUME NEW t \in Web, CompleteRun(t) PROVE DirtyInv'
  <2>1. tree' = tree /\ local' = local
    BY <1>26 DEF CompleteRun, repoVars
  <2>2. \A q \in Runs : runStatus[q] \in NonTerminal /\ Editing(q) => runStatus'[q] \in NonTerminal /\ Editing(q)'
    BY <1>26 DEF CompleteRun, repoVars, Tasks, Web, Reconcilers, Editing, SetStatus, SetPhase,
       NonTerminal, At, Typing, TypeOK, RunTypeOK, TaskTypeOK, HoldsRun, Working, Counters,
       LateTurn
  <2> QED BY <1>s, <2>1, <2>2 DEF DirtyInv
<1>27. ASSUME SetupFails PROVE DirtyInv'
  <2>1. local' = local /\ gitPhase' = gitPhase /\ on[Worker] \in Runs /\ SetStatus(on[Worker], "failed")
    BY <1>27 DEF SetupFails, FailRun, At, Tasks, Web, Typing, TypeOK, RunTypeOK, TaskTypeOK,
       HoldsRun, Working, Counters
  <2>2. CASE Editing(on[Worker]) /\ runStatus[on[Worker]] \in NonTerminal /\ tree' = base[on[Worker]]
    <3>9. tree' = local'.files
      BY <2>1, <2>2 DEF BaseInv, Uncommitted, Editing
    <3> QED BY <3>9 DEF DirtyInv
  <2>3. CASE ~Editing(on[Worker]) /\ tree' = tree
    <3>1. \A q \in Runs : runStatus[q] \in NonTerminal /\ Editing(q) => runStatus'[q] \in NonTerminal /\ Editing(q)'
      BY <2>1, <2>3 DEF SetStatus, Editing
    <3> QED BY <1>s, <2>1, <2>3, <3>1 DEF DirtyInv
  <2> QED
    BY <1>27, <2>1, <2>2, <2>3 DEF SetupFails, FailRun, Restore, BaselineComplete, At, ActiveInv,
       EarlyInv, EarlyTurn, EarlyRun,
       LateTurn, CommitRows, Early, IntentInv, Editing, NonTerminal, Orderly, OrderlyKinds,
       Tasks, Web
<1>28. ASSUME NEW t \in Web, TurnFails(t) PROVE DirtyInv'
  <2>1. local' = local /\ gitPhase' = gitPhase /\ on[t] \in Runs /\ SetStatus(on[t], "failed")
    BY <1>28 DEF TurnFails, FailRun, At, Tasks, Web, Typing, TypeOK, RunTypeOK, TaskTypeOK,
       HoldsRun, Working, Counters
  <2>2. CASE Editing(on[t]) /\ runStatus[on[t]] \in NonTerminal /\ tree' = base[on[t]]
    <3>9. tree' = local'.files
      BY <2>1, <2>2 DEF BaseInv, Uncommitted, Editing
    <3> QED BY <3>9 DEF DirtyInv
  <2>3. CASE ~Editing(on[t]) /\ tree' = tree
    <3>1. \A q \in Runs : runStatus[q] \in NonTerminal /\ Editing(q) => runStatus'[q] \in NonTerminal /\ Editing(q)'
      BY <2>1, <2>3 DEF SetStatus, Editing
    <3> QED BY <1>s, <2>1, <2>3, <3>1 DEF DirtyInv
  <2> QED
    BY <1>28, <2>1, <2>2, <2>3 DEF TurnFails, FailRun, Restore, BaselineComplete, At, ActiveInv,
       EarlyInv, EarlyTurn, EarlyRun,
       LateTurn, CommitRows, Early, IntentInv, Editing, NonTerminal, Orderly, OrderlyKinds,
       Tasks, Web
<1>29. ASSUME NEW t \in Web, SendFails(t) PROVE DirtyInv'
  <2>1. local' = local /\ gitPhase' = gitPhase /\ on[t] \in Runs /\ SetStatus(on[t], "failed")
    BY <1>29 DEF SendFails, FailRun, At, Tasks, Web, Typing, TypeOK, RunTypeOK, TaskTypeOK,
       HoldsRun, Working, Counters
  <2>2. CASE Editing(on[t]) /\ runStatus[on[t]] \in NonTerminal /\ tree' = base[on[t]]
    <3>9. tree' = local'.files
      BY <2>1, <2>2 DEF BaseInv, Uncommitted, Editing
    <3> QED BY <3>9 DEF DirtyInv
  <2>3. CASE ~Editing(on[t]) /\ tree' = tree
    <3>1. \A q \in Runs : runStatus[q] \in NonTerminal /\ Editing(q) => runStatus'[q] \in NonTerminal /\ Editing(q)'
      BY <2>1, <2>3 DEF SetStatus, Editing
    <3> QED BY <1>s, <2>1, <2>3, <3>1 DEF DirtyInv
  <2> QED
    BY <1>29, <2>1, <2>2, <2>3 DEF SendFails, FailRun, Restore, BaselineComplete, At, ActiveInv,
       EarlyInv, EarlyTurn, EarlyRun,
       LateTurn, CommitRows, Early, IntentInv, Editing, NonTerminal, Orderly, OrderlyKinds,
       Tasks, Web
<1>30. ASSUME NEW t \in Web, CompletionFails(t) PROVE DirtyInv'
  <2>1. local' = local /\ gitPhase' = gitPhase /\ on[t] \in Runs /\ SetStatus(on[t], "failed")
    BY <1>30 DEF CompletionFails, FailRun, At, Tasks, Web, Typing, TypeOK, RunTypeOK, TaskTypeOK,
       HoldsRun, Working, Counters
  <2>2. CASE Editing(on[t]) /\ runStatus[on[t]] \in NonTerminal /\ tree' = base[on[t]]
    <3>9. tree' = local'.files
      BY <2>1, <2>2 DEF BaseInv, Uncommitted, Editing
    <3> QED BY <3>9 DEF DirtyInv
  <2>3. CASE ~Editing(on[t]) /\ tree' = tree
    <3>1. \A q \in Runs : runStatus[q] \in NonTerminal /\ Editing(q) => runStatus'[q] \in NonTerminal /\ Editing(q)'
      BY <2>1, <2>3 DEF SetStatus, Editing
    <3> QED BY <1>s, <2>1, <2>3, <3>1 DEF DirtyInv
  <2> QED
    BY <1>30, <2>1, <2>2, <2>3 DEF CompletionFails, FailRun, Restore, BaselineComplete, At,
       ActiveInv, EarlyInv, EarlyTurn, EarlyRun,
       LateTurn, CommitRows, Early, IntentInv, Editing, NonTerminal, Orderly, OrderlyKinds,
       Tasks, Web
<1>31. ASSUME NEW t \in Web, FinalJsonFails(t) PROVE DirtyInv'
  <2>1. tree' = tree /\ local' = local
    BY <1>31 DEF FinalJsonFails, repoVars
  <2>2. \A q \in Runs : runStatus[q] \in NonTerminal /\ Editing(q) => runStatus'[q] \in NonTerminal /\ Editing(q)'
    BY <1>31 DEF FinalJsonFails, repoVars, Tasks, Web, Reconcilers, Editing, SetStatus, SetPhase,
       NonTerminal, At, Typing, TypeOK, RunTypeOK, TaskTypeOK, HoldsRun, Working, Counters,
       LateTurn
  <2> QED BY <1>s, <2>1, <2>2 DEF DirtyInv
<1>32. ASSUME NEW t \in Web, FailAgain(t) PROVE DirtyInv'
  <2>1. local' = local /\ gitPhase' = gitPhase /\ runStatus' = runStatus
    BY <1>32 DEF FailAgain, runVars
  <2>2. CASE gitPhase[on[t]] \in {"agent_editing", "commit_intent"}
    <3>9. tree' = local'.files
      BY <1>32, <2>1, <2>2 DEF FailAgain, Restore, At, BaseInv, Tasks
    <3> QED BY <3>9 DEF DirtyInv
  <2>3. CASE gitPhase[on[t]] \notin {"agent_editing", "commit_intent"}
    <3>1. tree' = tree
      BY <1>32, <2>3 DEF FailAgain
    <3> QED BY <2>1, <3>1 DEF DirtyInv, Editing, Stuck
  <2> QED BY <2>2, <2>3
<1>33. ASSUME NEW process \in SUBSET Tasks, Crash(process) PROVE DirtyInv'
  <2>1. UNCHANGED <<tree, local, gitPhase, runStatus>>
    BY <1>33 DEF Crash, repoVars, runVars
  <2> QED BY <2>1 DEF DirtyInv, Editing, Stuck
<1>34. ASSUME NEW r \in Runs, LeaseExpires(r) PROVE DirtyInv'
  <2>1. UNCHANGED <<tree, local, gitPhase, runStatus>>
    BY <1>34 DEF LeaseExpires, repoVars, runVars
  <2> QED BY <2>1 DEF DirtyInv, Editing, Stuck
<1>35. ASSUME NEW r \in Runs, BackoffEnds(r) PROVE DirtyInv'
  <2>1. UNCHANGED <<tree, local, gitPhase, runStatus>>
    BY <1>35 DEF BackoffEnds, repoVars, runVars
  <2> QED BY <2>1 DEF DirtyInv, Editing, Stuck
<1>36. ASSUME NEW t \in Clis, Retry(t) PROVE DirtyInv'
  <2>1. UNCHANGED <<tree, local, gitPhase, runStatus>>
    BY <1>36 DEF Retry, repoVars, runVars
  <2> QED BY <2>1 DEF DirtyInv, Editing, Stuck
<1>37. ASSUME NEW r \in Runs, Abandon(r) PROVE DirtyInv'
  <2>1. /\ local' = local /\ tree' = base[r] /\ runStatus[r] \in NonTerminal /\ gitPhase' = gitPhase
        /\ gitPhase[r] \in {"agent_editing", "commit_intent"} /\ runStatus'[r] = "abandoned"
    BY <1>37, <1>t DEF Abandon, MayAbandon, BaselineComplete, Restore, SetStatus, Rows, RunRows,
       RowsTyped, Phases,
       NonTerminal
  <2>2. CASE r \in local.commits
    BY <2>1, <2>2 DEF CommitRows, Early, Stuck, DirtyInv
  <2>3. CASE r \notin local.commits
    <3>9. tree' = local'.files
      BY <2>1, <2>3 DEF BaseInv, Uncommitted, Editing
    <3> QED BY <3>9 DEF DirtyInv
  <2> QED BY <2>2, <2>3
<1>38. ASSUME NEW r \in Runs, AbandonEnded(r) PROVE DirtyInv'
  BY <1>38 DEF AbandonEnded, FilesAreLeft
<1>39. ASSUME NEW c \in Outsiders, OutsideCommit(c) PROVE DirtyInv'
  <2>1. UNCHANGED <<tree, local, gitPhase, runStatus>>
    BY <1>39 DEF OutsideCommit, repoVars, runVars
  <2> QED BY <2>1 DEF DirtyInv, Editing, Stuck
<1>40. ASSUME UNCHANGED vars PROVE DirtyInv'
  <2>1. UNCHANGED <<tree, local, gitPhase, runStatus>>
    BY <1>40 DEF vars, repoVars, runVars
  <2> QED BY <2>1 DEF DirtyInv, Editing, Stuck
<1> QED
  BY <1>1, <1>2, <1>3, <1>4, <1>5, <1>6, <1>7, <1>8, <1>9, <1>10, <1>11, <1>12, <1>13,
     <1>14, <1>15, <1>16, <1>17, <1>18, <1>19, <1>20, <1>21, <1>22, <1>23, <1>24, <1>25,
     <1>26, <1>27, <1>28, <1>29, <1>30, <1>31, <1>32, <1>33, <1>34, <1>35, <1>36, <1>37,
     <1>38, <1>39, <1>40 DEF Next, TurnStep, ReconcileStep, WorkerClaim, Time, Tasks, Web

-----------------------------------------------------------------------------
(* The inductive invariant and the theorems *)

\* Inductive together with Typing, PhaseInv and EarlyInv.
PublicationInv ==
    /\ ActiveInv
    /\ DoneInv
    /\ TaskInv
    /\ Rows
    /\ BatchTurn
    /\ SeenInv
    /\ CommitInv

\* In the first state nothing is done or committed.
LEMMA PublicationInit == Init => PublicationInv
<1> SUFFICES ASSUME Init PROVE PublicationInv
  OBVIOUS
<1>n. N \in Nat \ {0}
  BY DurabilityAssumption
<1>1. ActiveInv /\ DoneInv
  BY DoneInit
<1> USE DEF Init
<1>2. TaskInv
  BY DEF TaskInv, PassInv, LateTurn, BackoffInv, Passing
<1>3. CycleRows
  BY <1>n DEF CycleRows, Batches
<1>4. LatestRows /\ SuccessRows /\ RunRows
  BY DEF LatestRows, SuccessRows, RunRows, Started, NonTerminal, Ended, Dangling
<1>5. BatchTurn /\ SeenInv
  BY DEF BatchTurn, SeenInv, Dangling
<1>6. CommitInv
  BY DEF CommitInv, CommitRows, IntentInv, AheadInv, RepoInit, Early, Announced
<1> QED BY <1>1, <1>2, <1>3, <1>4, <1>5, <1>6 DEF PublicationInv, Rows

\* Every step keeps it.
LEMMA PublicationNext ==
    ASSUME Orderly, Typing, PhaseInv, EarlyInv, PublicationInv, [Next]_vars
    PROVE  PublicationInv'
<1> USE DEF PublicationInv, TaskInv, CommitInv
<1>1. NoUsurping /\ NoOverlap
  BY DEF Orderly, OrderlyKinds, NoUsurping, NoOverlap
<1>2. PhaseIsTrue
  BY DEF PhaseInv, GitInv, ShaIsLocal, PushInv, NothingIsFinal, PushedNothing, PhaseIsTrue
<1>3. OneBusy /\ TurnInv
  BY DEF DoneInv, PhaseInv
<1>4. ActiveInv'
  BY <1>1, <1>3, ActiveNext
<1>5. DoneInv'
  <2>1. OneBusy'
    BY <1>1, <1>3, BusyNext
  <2>2. FinalTurn' /\ PushedIsFinal'
    BY <1>1, <1>3, FinalNext DEF DoneInv, PhaseInv
  <2>3. DoneByRun'
    BY <2>2, DoneNext DEF DoneInv
  <2> QED BY <2>1, <2>2, <2>3 DEF DoneInv
<1>6. TaskInv'
  BY <1>3, PassNext, LateNext, BackoffNext
<1>7. Rows' /\ BatchTurn' /\ SeenInv'
  BY <1>2, <1>3, RowsNext, BatchNext, SeenNext
<1>8. CommitInv'
  BY <1>3, CommitRowsNext, IntentNext, AheadNext
<1> QED BY <1>4, <1>5, <1>6, <1>7, <1>8

\* All that the theorems below rest on.
PublicationFacts == Typing /\ PhaseInv /\ EarlyInv /\ PublicationInv

\* The inductive invariant behind the theorems below.
LEMMA PublicationInvariant == Orderly => (Spec => []PublicationFacts)
<1> SUFFICES ASSUME Orderly PROVE Spec => []PublicationFacts
  OBVIOUS
<1>1. Typing /\ PhaseInv /\ EarlyInv /\ PublicationInv /\ [Next]_vars => PublicationInv'
  BY PublicationNext
<1> QED BY <1>1, PublicationInit, EarlyInvariant, PTL DEF Spec, PublicationFacts

\* In the first state no file is edited.
LEMMA TreeInit == Init => TreeInv
<1>n. N \in Nat \ {0}
  BY DurabilityAssumption
<1> QED BY <1>n DEF Init, TreeInv, FilesAreCommits, BaseInv, DirtyInv, RepoInit, NonTerminal

\* Every step keeps the files what the commits and the active run make of them.
LEMMA TreeNext ==
    ASSUME Orderly, FilesAreLeft, PublicationFacts, TreeInv, [Next]_vars
    PROVE  TreeInv'
<1> USE DEF PublicationFacts, PublicationInv, TaskInv, CommitInv, TreeInv
<1>1. PhaseIsTrue
  BY DEF PhaseInv, GitInv, ShaIsLocal, PushInv, NothingIsFinal, PushedNothing, PhaseIsTrue
<1>2. OneBusy
  BY DEF DoneInv
<1> QED BY <1>1, <1>2, BaseNext, FilesNext, DirtyNext

\* The files, on top of all that is known of rows and commits.
LEMMA TreeInvariant == Orderly /\ FilesAreLeft => (Spec => [](PublicationFacts /\ TreeInv))
<1> SUFFICES ASSUME Orderly, FilesAreLeft PROVE Spec => [](PublicationFacts /\ TreeInv)
  OBVIOUS
<1>1. PublicationFacts /\ TreeInv /\ [Next]_vars => TreeInv'
  BY TreeNext
<1> QED BY <1>1, TreeInit, PublicationInvariant, PTL DEF Spec

\* A durable run has announced its commit.
LEMMA DurableHasAnnounced ==
    ASSUME PublicationFacts, NEW r \in Runs, DurableRun(r)
    PROVE  Started(r) /\ gitPhase[r] \notin Early
<1> USE DEF PublicationFacts, PublicationInv
<1>1. gitPhase[r] \notin Early
  BY DEF DurableRun, PhaseInv, GitInv, RunsAreLocal, CommitInv, CommitRows, Early
<1> QED BY <1>1, RowsAreTyped DEF RowsTyped, Early

\* No batch is made durable by two runs, in the states of the invariant.
LEMMA OnceInv == PublicationFacts => PublishedOnce
<1> SUFFICES ASSUME PublicationFacts,
                    NEW r \in Runs, NEW s \in Runs, DurableRun(r), DurableRun(s),
                    runBatch[r] = runBatch[s]
             PROVE  r = s
  BY DEF PublishedOnce
<1>1. Started(r) /\ gitPhase[r] \notin Early /\ Started(s) /\ gitPhase[s] \notin Early
  BY DurableHasAnnounced
<1>2. RowsTyped /\ LatestRows
  BY RowsAreTyped DEF PublicationFacts, PublicationInv, Rows
<1> QED BY <1>1, <1>2, LatestIsOne

\* No batch is published twice, whatever is retried, recovered or abandoned: the
\* queue goes on, and retry-cycle queues a batch again, only when no run of the
\* batch has a commit that could still be pushed.  Abandoning a run that has ended
\* puts old files back, but no row and no commit depends on them.
THEOREM BatchesArePublishedOnce == Orderly => (Spec => []PublishedOnce)
BY PublicationInvariant, OnceInv, PTL

\* What is published is what the published runs edited: files and commits move
\* together, and a commit holds no edits of a run that failed before it, unless a
\* run that had ended is abandoned and its old files are committed.
THEOREM ContentIsPublished == Orderly /\ FilesAreLeft => (Spec => []PublishedContent)
<1>1. TreeInv => PublishedContent
  BY DEF TreeInv, FilesAreCommits, PublishedContent
<1> QED BY <1>1, TreeInvariant, PTL

\* A queued batch finds a checkout it can start in: clean target files, and no
\* commit that the remote branch does not have, unless a run that had ended is
\* abandoned.
THEOREM QueueIsStartable == Orderly /\ FilesAreLeft => (Spec => []QueuedIsStartable)
<1>1. PublicationFacts /\ TreeInv => QueuedIsStartable
  <2> SUFFICES ASSUME PublicationFacts, TreeInv, Queued # {}
               PROVE  TargetsClean /\ local.commits \subseteq remote.commits
    BY DEF QueuedIsStartable
  <2> USE DEF PublicationFacts, PublicationInv
  <2>t. RowsTyped
    BY RowsAreTyped
  <2>1. cycleStatus = "active" /\ batchStatus[currentBatch] = "queued"
    BY DEF Queued
  <2>2. \A r \in Runs : ~ActiveAt(r) /\ ~OwedAt(r)
    BY <2>1 DEF ActiveAt, OwedAt
  <2>3. \A r \in Runs : gitPhase[r] \notin Announced
    <3> SUFFICES ASSUME NEW r \in Runs, gitPhase[r] \in Announced PROVE FALSE
      OBVIOUS
    <3>1. runStatus[r] \notin NonTerminal /\ runStatus[r] \notin Ended
      BY <2>2 DEF Rows, RunRows, Dangling, Announced, NeedsGit
    <3>2. runStatus[r] \notin {"none", "completed"}
      BY <2>t DEF Rows, RunRows, RowsTyped, Started, Announced
    <3> QED BY <2>t, <3>1, <3>2 DEF RowsTyped, RunStates, NonTerminal, Ended
  <2>4. tree = local.files
    <3>1. ASSUME NEW r \in Runs, runStatus[r] \in NonTerminal, Editing(r) PROVE FALSE
      BY <2>2, <3>1 DEF Rows, RunRows, Dangling, Editing
    <3>2. ASSUME NEW r \in Runs, Stuck(r) PROVE FALSE
      BY <2>3, <3>2 DEF Stuck, Announced
    <3> QED BY <3>1, <3>2 DEF TreeInv, DirtyInv
  <2>5. local.commits \subseteq remote.commits
    BY <2>3 DEF CommitInv, AheadInv
  <2> QED BY <2>4, <2>5 DEF TargetsClean
<1> QED BY <1>1, TreeInvariant, PTL

\* A stopped cycle goes on, by retry-cycle or by a reconciliation, unless its
\* last run announced a commit it did not make, was abandoned after it, or made
\* one that the remote branch refuses because of commits of others.
THEOREM CyclesGoOn == Orderly => (Spec => []OnlyItsCommitStrands)
<1>1. PublicationFacts => OnlyItsCommitStrands
  <2> SUFFICES ASSUME PublicationFacts, cycleStatus = "stopped", ~Active, ~MayGoOn
               PROVE  /\ gitPhase[LatestRun] \in Announced
                      /\ \/ LatestRun \notin local.commits
                         \/ runStatus[LatestRun] = "abandoned"
                         \/ runStatus[LatestRun] = "failed" /\ PushStaysRefused
    BY DEF OnlyItsCommitStrands
  <2> USE DEF PublicationFacts, PublicationInv
  <2>t. RowsTyped
    BY RowsAreTyped
  <2>p. PhaseIsTrue
    BY DEF PhaseInv, GitInv, ShaIsLocal, PushInv, NothingIsFinal, PushedNothing, PhaseIsTrue
  <2>1. batchStatus[currentBatch] = "stopped" /\ currentBatch \in Batches
    BY <2>t DEF Rows, CycleRows, RowsTyped
  <2>2. LatestRun # NoRun /\ gitPhase[LatestRun] \in {"commit_intent", "committed", "pushed"}
    BY <2>1 DEF MayGoOn, Retryable, LatestRun
  <2>3. LatestRun \in Runs /\ Started(LatestRun)
    BY <2>t, <2>1, <2>2 DEF LatestRun, RowsTyped, Rows, LatestRows
  <2>4. runStatus[LatestRun] \in Ended
    <3>1. runStatus[LatestRun] \notin NonTerminal
      BY <2>3 DEF Active
    <3>2. runStatus[LatestRun] # "completed"
      BY <2>2, <2>3 DEF Rows, RunRows
    <3> QED BY <2>t, <2>3, <3>1, <3>2 DEF RowsTyped, RunStates, NonTerminal, Ended, Started
  <2>5. runStatus[LatestRun] = "failed" => ~Durable(LatestRun)
    BY <2>2 DEF MayGoOn
  <2>6. gitPhase[LatestRun] # "pushed"
    <3> SUFFICES ASSUME gitPhase[LatestRun] = "pushed" PROVE FALSE
      OBVIOUS
    <3>1. Durable(LatestRun)
      BY <2>3, <2>p DEF Durable, NeedsGit, PhaseIsTrue, Sha, OnRemote
    <3>2. runStatus[LatestRun] = "failed"
      BY <2>3, <2>4 DEF Rows, RunRows, Ended
    <3> QED BY <2>5, <3>1, <3>2
  <2>7. ASSUME LatestRun \in local.commits, runStatus[LatestRun] = "failed"
        PROVE  PushStaysRefused
    <3>1. gitPhase[LatestRun] \notin {"completed"}
      BY <2>2
    <3>2. Durable(LatestRun) \/ TriesPush(LatestRun)
      BY <2>3, <2>p, <2>7, <3>1, FoundIsTaken DEF CommitInv
    <3>3. ~CanPush
      BY <2>5, <2>7, <3>2 DEF Durable, TriesPush
    <3>4. \A c \in remote.commits \ local.commits : c \in Outsiders
      BY DEF PhaseInv, GitInv, RunsAreLocal, Typing, TypeOK, RepoTypeOK, Branch, Content
    <3> QED BY <3>3, <3>4 DEF CanPush, PushStaysRefused
  <2>8. gitPhase[LatestRun] \in Announced
    BY <2>2, <2>6 DEF Announced
  <2> QED BY <2>4, <2>7, <2>8 DEF Ended
<1> QED BY <1>1, PublicationInvariant, PTL

-----------------------------------------------------------------------------
(* Refinement of BatchPipeline *)

\* The run made the work of the batch durable.
WorkOf(r, b) == DurableRun(r) /\ runBatch[r] = b

\* The publisher of a batch is the one run that made it durable.
PublisherKnown ==
    /\ Publisher \in [Batches -> Runs \cup {NoRun}]
    /\ \A b \in Batches, r \in Runs : Publisher[b] = r <=> WorkOf(r, b)

\* It is known because no two runs make a batch durable.
LEMMA PublisherIs == PublishedOnce => PublisherKnown
<1> SUFFICES ASSUME PublishedOnce PROVE PublisherKnown
  OBVIOUS
<1>n. NoRun \notin Runs
  BY DurabilityAssumption
<1>1. ASSUME NEW b \in Batches
      PROVE  /\ Publisher[b] \in Runs \cup {NoRun}
             /\ \A r \in Runs : Publisher[b] = r <=> WorkOf(r, b)
  <2>1. CASE \E r \in Runs : DurableRun(r) /\ runBatch[r] = b
    <3>1. Publisher[b] = CHOOSE r \in Runs : DurableRun(r) /\ runBatch[r] = b
      BY <2>1 DEF Publisher
    <3>2. Publisher[b] \in Runs /\ DurableRun(Publisher[b]) /\ runBatch[Publisher[b]] = b
      BY <2>1, <3>1
    <3>3. \A r \in Runs : WorkOf(r, b) => r = Publisher[b]
      BY <3>2 DEF PublishedOnce, WorkOf
    <3> QED BY <3>2, <3>3 DEF WorkOf
  <2>2. CASE ~\E r \in Runs : DurableRun(r) /\ runBatch[r] = b
    <3>1. Publisher[b] = NoRun
      BY <2>2 DEF Publisher
    <3> QED BY <1>n, <2>2, <3>1 DEF WorkOf
  <2> QED BY <2>1, <2>2
<1>2. Publisher \in [Batches -> Runs \cup {NoRun}]
  <2> DEFINE P(b) == IF \E r \in Runs : DurableRun(r) /\ runBatch[r] = b
                     THEN CHOOSE r \in Runs : DurableRun(r) /\ runBatch[r] = b
                     ELSE NoRun
  <2>1. Publisher = [b \in Batches |-> P(b)]
    BY DEF Publisher
  <2>2. \A b \in Batches : Publisher[b] = P(b)
    BY <2>1
  <2>3. \A b \in Batches : P(b) \in Runs \cup {NoRun}
    BY <1>1, <2>2
  <2> HIDE DEF P
  <2> QED BY <2>1, <2>3
<1> QED BY <1>1, <1>2 DEF PublisherKnown

\* Batches with a successful run.
Done == {b \in Batches : successfulRun[b] # NoRun}

\* All batches before the current one are acknowledged, and perhaps the current one.
LEMMA AcknowledgedIs ==
    ASSUME PublicationFacts
    PROVE  /\ IsFiniteSet(Done)
           /\ successfulRun[currentBatch] = NoRun => Acknowledged = currentBatch - 1
<1> USE DEF PublicationFacts, PublicationInv
<1>t. RowsTyped
  BY RowsAreTyped
<1>b. currentBatch \in 1..N /\ Batches = 1..N /\ N \in Nat
  BY <1>t DEF RowsTyped, Batches
<1>1. \A b \in Batches : b < currentBatch => successfulRun[b] # NoRun
  BY DurabilityAssumption DEF Rows, CycleRows, DoneInv, DoneByRun
<1>2. \A b \in Batches : b > currentBatch => successfulRun[b] = NoRun
  BY DEF Rows, CycleRows
<1>3. Done \in SUBSET (1..N)
  BY <1>b DEF Done
<1>4. IsFiniteSet(Done)
  <2>1. IsFiniteSet(1..N)
    <3> HIDE DEF Done
    <3> QED BY <1>b, FS_Interval
  <2> QED BY <1>3, <2>1, FS_Subset
<1>5. ASSUME successfulRun[currentBatch] = NoRun PROVE Acknowledged = currentBatch - 1
  <2>1. ASSUME NEW b PROVE b \in Done <=> b \in 1..(currentBatch - 1)
    BY <1>b, <1>1, <1>2, <1>5 DEF Done
  <2>2. Done = 1..(currentBatch - 1)
    BY <2>1
  <2>3. 1 \in Int /\ currentBatch - 1 \in Int /\ currentBatch - 1 >= 0
    BY <1>b
  <2>4. Cardinality(1..(currentBatch - 1)) = currentBatch - 1
    <3>1. Cardinality(1..(currentBatch - 1))
             = IF 1 > currentBatch - 1 THEN 0 ELSE (currentBatch - 1) - 1 + 1
      BY <2>3, FS_Interval
    <3> QED BY <2>3, <3>1
  <2> QED BY <2>2, <2>4 DEF Acknowledged, Done
<1> QED BY <1>4, <1>5

\* A run that has announced a commit is the last of the current batch, which has
\* no successful run yet.
LEMMA AnnouncedIsCurrent ==
    ASSUME RowsTyped, Rows, NEW r \in Runs, gitPhase[r] \in Announced
    PROVE  /\ runBatch[r] = currentBatch
           /\ Started(r)
           /\ latestRun[currentBatch] = r
           /\ successfulRun[currentBatch] = NoRun
<1> USE DEF RowsTyped
<1>1. Started(r)
  BY DEF Announced
<1>2. ActiveAt(r) \/ OwedAt(r)
  BY <1>1 DEF Rows, RunRows, Dangling, Announced, NeedsGit, Started, RunStates, Ended, NonTerminal
<1>3. runBatch[r] = currentBatch
  BY <1>2 DEF ActiveAt, OwedAt
<1>4. latestRun[currentBatch] = r
  BY <1>1, <1>3 DEF Rows, LatestRows, Announced, Early
<1>5. successfulRun[currentBatch] = NoRun
  BY <1>4 DEF Rows, SuccessRows, Announced, Final
<1> QED BY <1>1, <1>3, <1>4, <1>5

\* The pipeline does not see a step that changes neither what is durable nor
\* what is acknowledged.
LEMMA SameWork ==
    ASSUME PublisherKnown, PublisherKnown', successfulRun' = successfulRun,
           \A r \in Runs, b \in Batches : WorkOf(r, b)' <=> WorkOf(r, b)
    PROVE  UNCHANGED (Pipeline!vars)
<1>1. ASSUME NEW b \in Batches PROVE Publisher'[b] = Publisher[b]
  <2>1. \A r \in Runs : Publisher'[b] = r <=> Publisher[b] = r
    BY DEF PublisherKnown
  <2> QED BY <2>1 DEF PublisherKnown
<1>2. Publisher' = Publisher
  BY <1>1 DEF PublisherKnown
<1>3. Acknowledged' = Acknowledged
  BY DEF Acknowledged
<1> QED BY <1>2, <1>3 DEF Pipeline!vars

\* A push, or the record that there is nothing to push, publishes the batch.
LEMMA NewWork ==
    ASSUME PublicationFacts, PublisherKnown, PublisherKnown', NEW r \in Runs,
           gitPhase[r] \in Announced,
           DurableRun(r) => DurableRun(r)',
           \A q \in Runs : q # r => (DurableRun(q)' <=> DurableRun(q)),
           successfulRun' = successfulRun, runBatch' = runBatch
    PROVE  [Pipeline!Next]_(Pipeline!vars)
<1>t. RowsTyped /\ Rows
  BY RowsAreTyped DEF PublicationFacts, PublicationInv
<1>1. CASE DurableRun(r) <=> DurableRun(r)'
  <2>1. \A q \in Runs : DurableRun(q)' <=> DurableRun(q)
    BY <1>1
  <2>2. \A q \in Runs, b \in Batches : WorkOf(q, b)' <=> WorkOf(q, b)
    BY <2>1 DEF WorkOf
  <2> QED BY <2>2, SameWork
<1>2. CASE ~DurableRun(r) /\ DurableRun(r)'
  <2> DEFINE b == runBatch[r]
  <2>1. b = currentBatch /\ Started(r) /\ latestRun[b] = r /\ successfulRun[b] = NoRun /\ b \in Batches
    BY <1>t, AnnouncedIsCurrent DEF RowsTyped
  <2>2. Acknowledged = b - 1 /\ b = Acknowledged + 1
    <3>1. b \in Nat
      BY <1>t, <2>1 DEF RowsTyped, Batches
    <3> QED BY <2>1, <3>1, AcknowledgedIs
  <2>3. ASSUME NEW q \in Runs, DurableRun(q), runBatch[q] = b PROVE FALSE
    <3>1. Started(q) /\ gitPhase[q] \notin Early
      BY <2>3, DurableHasAnnounced
    <3>2. q = r
      BY <1>t, <2>1, <2>3, <3>1 DEF Rows, LatestRows
    <3> QED BY <1>2, <2>3, <3>2
  <2>4. Publisher[b] = NoRun
    BY <2>1, <2>3 DEF PublisherKnown, WorkOf
  <2>5. \A c \in Batches : Publisher[c] # r
    BY <1>2 DEF PublisherKnown, WorkOf
  <2>6. Publisher'[b] = r
    BY <1>2, <2>1 DEF PublisherKnown, WorkOf
  <2>7. ASSUME NEW c \in Batches, c # b PROVE Publisher'[c] = Publisher[c]
    <3>1. ASSUME NEW q \in Runs PROVE Publisher'[c] = q <=> Publisher[c] = q
      <4>1. WorkOf(q, c)' <=> WorkOf(q, c)
        BY <2>7 DEF WorkOf
      <4> QED BY <4>1 DEF PublisherKnown
    <3> QED BY <3>1 DEF PublisherKnown
  <2>8. Publisher' = [Publisher EXCEPT ![b] = r]
    BY <2>1, <2>6, <2>7 DEF PublisherKnown
  <2>9. Acknowledged' = Acknowledged
    BY DEF Acknowledged
  <2>10. Pipeline!Publish(b, r)
    BY <2>2, <2>4, <2>5, <2>8, <2>9 DEF Pipeline!Publish, Batches
  <2> QED BY <2>1, <2>10 DEF Pipeline!Next, Batches
<1> QED BY <1>1, <1>2

\* The batch of a durable run is acknowledged, once.
LEMMA NewSuccess ==
    ASSUME PublicationFacts, PublisherKnown, PublisherKnown', NEW r \in Runs, DurableRun(r),
           \A q \in Runs : DurableRun(q)' <=> DurableRun(q),
           successfulRun' = [successfulRun EXCEPT ![runBatch[r]] = r], runBatch' = runBatch
    PROVE  [Pipeline!Next]_(Pipeline!vars)
<1> DEFINE b == runBatch[r]
<1>t. RowsTyped /\ Rows
  BY RowsAreTyped DEF PublicationFacts, PublicationInv
<1>b. b \in 1..N /\ Batches = 1..N /\ currentBatch \in 1..N /\ N \in Nat /\ NoRun \notin Runs
      /\ successfulRun \in [Batches -> Runs \cup {NoRun}]
  BY <1>t DEF RowsTyped, Batches
<1>1. Publisher' = Publisher
  <2>1. ASSUME NEW c \in Batches PROVE Publisher'[c] = Publisher[c]
    <3>1. \A q \in Runs : WorkOf(q, c)' <=> WorkOf(q, c)
      BY DEF WorkOf
    <3>2. \A q \in Runs : Publisher'[c] = q <=> Publisher[c] = q
      BY <3>1 DEF PublisherKnown
    <3> QED BY <3>2 DEF PublisherKnown
  <2> QED BY <2>1 DEF PublisherKnown
<1>2. CASE b \in Done
  <2>1. Done' = Done
    BY <1>b, <1>2 DEF Done
  <2> QED BY <1>1, <2>1 DEF Done, Acknowledged, Pipeline!vars
<1>3. CASE b \notin Done
  <2>1. successfulRun[b] = NoRun
    BY <1>b, <1>3 DEF Done
  <2>2. b <= currentBatch
    BY <1>t, DurableHasAnnounced DEF Rows, LatestRows
  <2>3. ~(b < currentBatch)
    BY <1>b, <1>t, <2>1 DEF Rows, CycleRows, PublicationFacts, PublicationInv, DoneInv, DoneByRun
  <2>4. b = currentBatch
    BY <1>b, <2>2, <2>3
  <2>5. Acknowledged = b - 1
    BY <2>1, <2>4, AcknowledgedIs
  <2>6. Done' = Done \cup {b}
    BY <1>b DEF Done
  <2>7. Acknowledged' = Acknowledged + 1
    <3>1. IsFiniteSet(Done)
      BY AcknowledgedIs
    <3>2. Cardinality(Done \cup {b}) = Cardinality(Done) + 1
      BY <1>3, <3>1, FS_AddElement
    <3> QED BY <2>6, <3>2 DEF Acknowledged, Done
  <2>8. Publisher[b] = r
    BY <1>b DEF PublisherKnown, WorkOf
  <2>9. Acknowledged < N /\ Acknowledged + 1 = b
    BY <1>b, <2>5
  <2>10. Pipeline!Acknowledge
    BY <1>1, <1>b, <2>7, <2>8, <2>9 DEF Pipeline!Acknowledge
  <2> QED BY <2>10 DEF Pipeline!Next
<1> QED BY <1>2, <1>3

\* Every step of the program is a step of the pipeline or none.
LEMMA PipelineStep ==
    ASSUME Orderly, PublicationFacts, PublisherKnown, PublisherKnown', [Next]_vars
    PROVE  [Pipeline!Next]_(Pipeline!vars)
<1>t. RowsTyped /\ Rows
  BY RowsAreTyped DEF PublicationFacts, PublicationInv
<1>p. gitPhase \in [Runs -> Phases]
  BY <1>t DEF RowsTyped
<1>f. /\ Typing /\ PhaseInv /\ EarlyInv /\ TaskInv /\ BatchTurn /\ CommitInv
  BY DEF PublicationFacts, PublicationInv
<1>1. ASSUME NEW t \in Reconcilers, BeginPass(t) PROVE [Pipeline!Next]_(Pipeline!vars)
  <2>1. UNCHANGED <<runBatch, successfulRun>> /\ \A q \in Runs : DurableRun(q)' <=> DurableRun(q)
    BY <1>1, <1>f DEF BeginPass, cycleVars, batchVars, runVars, repoVars, taskVars, DurableRun
  <2>2. \A q \in Runs, b \in Batches : WorkOf(q, b)' <=> WorkOf(q, b)
    BY <2>1 DEF WorkOf
  <2> QED BY <2>1, <2>2, SameWork
<1>2. ASSUME NEW t \in Reconcilers, NEW r \in Runs, ReconcilePush(t, r)
      PROVE  [Pipeline!Next]_(Pipeline!vars)
  <2>1. r \in Runs /\ UNCHANGED <<gitPhase, runBatch, successfulRun>> /\ (remote' = remote \/ remote' = local)
    BY <1>2, <1>f DEF ReconcilePush, Push, batchVars, runVars, At, SetPhase, Tasks, Web,
       Reconcilers, Typing, TypeOK, RunTypeOK, TaskTypeOK, HoldsRun, Working, Counters
  <2>2. remote' = remote \/ gitPhase[r] \in Announced
    BY <1>2, <1>f DEF ReconcilePush, TriesPush, UnrecordedCommit, Announced, At, Tasks, Web
  <2>3. CASE remote' = remote
    <3>1. \A q \in Runs, b \in Batches : WorkOf(q, b)' <=> WorkOf(q, b)
      BY <2>1, <2>3 DEF WorkOf, DurableRun
    <3> QED BY <2>1, <3>1, SameWork
  <2>4. CASE remote' = local /\ gitPhase[r] \in Announced
    <3>1. ASSUME NEW q \in Runs, q # r PROVE DurableRun(q)' <=> DurableRun(q)
      <4>1. gitPhase[q] \notin Announced
        BY <1>t, <2>1, <2>4, <3>1, AnnouncedIsCurrent
      <4>2. q \in local.commits => q \in remote.commits
        BY <1>f, <4>1 DEF CommitInv, AheadInv
      <4>3. q \in remote.commits => q \in local.commits
        BY <1>f DEF PhaseInv, GitInv, RunsAreLocal
      <4> QED BY <2>1, <2>4, <4>2, <4>3 DEF DurableRun
    <3>2. DurableRun(r) => DurableRun(r)'
      BY <1>f, <2>1, <2>4 DEF DurableRun, PhaseInv, GitInv, RunsAreLocal
    <3> QED BY <2>1, <2>4, <3>1, <3>2, NewWork
  <2> QED BY <2>1, <2>2, <2>3, <2>4
<1>3. ASSUME NEW t \in Reconcilers, ReconcileBatch(t) PROVE [Pipeline!Next]_(Pipeline!vars)
  <2>1. on[t] \in Runs /\ DurableRun(on[t])
    BY <1>3, <1>f DEF ReconcileBatch, DurableRun, PhaseInv, PushInv, ReconcilerHasPushed,
       PushedNothing, At, SetPhase, Tasks, Web, Reconcilers, Typing, TypeOK, RunTypeOK,
       TaskTypeOK, HoldsRun, Working, Counters
  <2>2. /\ successfulRun' = [successfulRun EXCEPT ![runBatch[on[t]]] = on[t]]
        /\ UNCHANGED <<runBatch, remote>>
        /\ \A q \in Runs : q # on[t] => gitPhase'[q] = gitPhase[q]
        /\ gitPhase'[on[t]] \in {"pushed", gitPhase[on[t]]}
    BY <1>3, <1>f, <2>1 DEF ReconcileBatch, CompleteCycleBatch, SetPhase, runVars, repoVars,
       Typing, TypeOK, RunTypeOK
  <2>3. \A q \in Runs : DurableRun(q)' <=> DurableRun(q)
    BY <2>1, <2>2 DEF DurableRun
  <2> QED BY <2>1, <2>2, <2>3, NewSuccess
<1>4. ASSUME NEW t \in Reconcilers, ReconcileRun(t) PROVE [Pipeline!Next]_(Pipeline!vars)
  <2>1. UNCHANGED <<runBatch, successfulRun>> /\ \A q \in Runs : DurableRun(q)' <=> DurableRun(q)
    BY <1>4, <1>f DEF ReconcileRun, BatchTurn, Dangling, cycleVars, batchVars, runVars, repoVars,
       taskVars, DurableRun, At, SetPhase, Tasks, Web, Reconcilers, Typing, TypeOK, RunTypeOK,
       TaskTypeOK, HoldsRun, Working, Counters
  <2>2. \A q \in Runs, b \in Batches : WorkOf(q, b)' <=> WorkOf(q, b)
    BY <2>1 DEF WorkOf
  <2> QED BY <2>1, <2>2, SameWork
<1>5. ASSUME NEW t \in Reconcilers, NEW r \in Runs, ReconcileInterrupt(t, r)
      PROVE  [Pipeline!Next]_(Pipeline!vars)
  <2>1. UNCHANGED <<runBatch, successfulRun>> /\ \A q \in Runs : DurableRun(q)' <=> DurableRun(q)
    BY <1>5, <1>f DEF ReconcileInterrupt, StopCycle, cycleVars, batchVars, runVars, repoVars,
       taskVars, DurableRun
  <2>2. \A q \in Runs, b \in Batches : WorkOf(q, b)' <=> WorkOf(q, b)
    BY <2>1 DEF WorkOf
  <2> QED BY <2>1, <2>2, SameWork
<1>6. ASSUME NEW t \in Reconcilers, NEW r \in Runs, ReconcileSkip(t, r)
      PROVE  [Pipeline!Next]_(Pipeline!vars)
  <2>1. UNCHANGED <<runBatch, successfulRun>> /\ \A q \in Runs : DurableRun(q)' <=> DurableRun(q)
    BY <1>6, <1>f DEF ReconcileSkip, cycleVars, batchVars, runVars, repoVars, taskVars, DurableRun
  <2>2. \A q \in Runs, b \in Batches : WorkOf(q, b)' <=> WorkOf(q, b)
    BY <2>1 DEF WorkOf
  <2> QED BY <2>1, <2>2, SameWork
<1>7. ASSUME NEW t \in Reconcilers, NEW r \in Runs, ReconcileGitFails(t, r)
      PROVE  [Pipeline!Next]_(Pipeline!vars)
  <2>1. UNCHANGED <<runBatch, successfulRun>> /\ \A q \in Runs : DurableRun(q)' <=> DurableRun(q)
    BY <1>7, <1>f DEF ReconcileGitFails, cycleVars, batchVars, runVars, repoVars, taskVars,
       DurableRun
  <2>2. \A q \in Runs, b \in Batches : WorkOf(q, b)' <=> WorkOf(q, b)
    BY <2>1 DEF WorkOf
  <2> QED BY <2>1, <2>2, SameWork
<1>8. ASSUME NEW t \in Reconcilers, ReconcileFinishFails(t) PROVE [Pipeline!Next]_(Pipeline!vars)
  <2>1. UNCHANGED <<runBatch, successfulRun>> /\ \A q \in Runs : DurableRun(q)' <=> DurableRun(q)
    BY <1>8, <1>f DEF ReconcileFinishFails, cycleVars, batchVars, runVars, repoVars, taskVars,
       DurableRun
  <2>2. \A q \in Runs, b \in Batches : WorkOf(q, b)' <=> WorkOf(q, b)
    BY <2>1 DEF WorkOf
  <2> QED BY <2>1, <2>2, SameWork
<1>9. ASSUME NEW t \in Reconcilers, EndPass(t) PROVE [Pipeline!Next]_(Pipeline!vars)
  <2>1. UNCHANGED <<runBatch, successfulRun>> /\ \A q \in Runs : DurableRun(q)' <=> DurableRun(q)
    BY <1>9, <1>f DEF EndPass, cycleVars, batchVars, runVars, repoVars, taskVars, DurableRun
  <2>2. \A q \in Runs, b \in Batches : WorkOf(q, b)' <=> WorkOf(q, b)
    BY <2>1 DEF WorkOf
  <2> QED BY <2>1, <2>2, SameWork
<1>10. ASSUME NEW r \in Runs, ClaimPending(r) PROVE [Pipeline!Next]_(Pipeline!vars)
  <2>1. UNCHANGED <<runBatch, successfulRun>> /\ \A q \in Runs : DurableRun(q)' <=> DurableRun(q)
    BY <1>10, <1>f DEF ClaimPending, cycleVars, batchVars, runVars, repoVars, taskVars, DurableRun
  <2>2. \A q \in Runs, b \in Batches : WorkOf(q, b)' <=> WorkOf(q, b)
    BY <2>1 DEF WorkOf
  <2> QED BY <2>1, <2>2, SameWork
<1>11. ASSUME NEW r \in Runs, NEW b \in Batches, ClaimBatch(r, b)
       PROVE  [Pipeline!Next]_(Pipeline!vars)
  <2>1. /\ ~DurableRun(r)
        /\ UNCHANGED <<gitPhase, remote, successfulRun>> /\ runBatch' = [runBatch EXCEPT ![r] = b]
    <3>1. ~Started(r)
      BY <1>11, <1>f DEF ClaimBatch, Unused, Started
    <3> QED BY <1>11, <1>f, <3>1, DurableHasAnnounced DEF ClaimBatch, repoVars
  <2>2. \A q \in Runs : DurableRun(q)' <=> DurableRun(q)
    BY <2>1 DEF DurableRun
  <2>3. \A q \in Runs, c \in Batches : WorkOf(q, c)' <=> WorkOf(q, c)
    BY <2>1, <2>2 DEF WorkOf
  <2> QED BY <2>1, <2>3, SameWork
<1>12. ASSUME ClaimNothing PROVE [Pipeline!Next]_(Pipeline!vars)
  <2>1. UNCHANGED <<runBatch, successfulRun>> /\ \A q \in Runs : DurableRun(q)' <=> DurableRun(q)
    BY <1>12, <1>f DEF ClaimNothing, cycleVars, batchVars, runVars, repoVars, taskVars, DurableRun
  <2>2. \A q \in Runs, b \in Batches : WorkOf(q, b)' <=> WorkOf(q, b)
    BY <2>1 DEF WorkOf
  <2> QED BY <2>1, <2>2, SameWork
<1>13. ASSUME ClaimLeaseExpires PROVE [Pipeline!Next]_(Pipeline!vars)
  <2>1. UNCHANGED <<runBatch, successfulRun>> /\ \A q \in Runs : DurableRun(q)' <=> DurableRun(q)
    BY <1>13, <1>f DEF ClaimLeaseExpires, cycleVars, batchVars, runVars, repoVars, taskVars,
       DurableRun
  <2>2. \A q \in Runs, b \in Batches : WorkOf(q, b)' <=> WorkOf(q, b)
    BY <2>1 DEF WorkOf
  <2> QED BY <2>1, <2>2, SameWork
<1>14. ASSUME Setup PROVE [Pipeline!Next]_(Pipeline!vars)
  <2>1. UNCHANGED <<runBatch, successfulRun>> /\ \A q \in Runs : DurableRun(q)' <=> DurableRun(q)
    BY <1>14, <1>f DEF Setup, EarlyInv, EarlyTurn, cycleVars, batchVars, runVars, repoVars,
       taskVars, DurableRun, At, SetPhase, Tasks, Web, Reconcilers, Typing, TypeOK, RunTypeOK,
       TaskTypeOK, HoldsRun, Working, Counters
  <2>2. \A q \in Runs, b \in Batches : WorkOf(q, b)' <=> WorkOf(q, b)
    BY <2>1 DEF WorkOf
  <2> QED BY <2>1, <2>2, SameWork
<1>15. ASSUME Launch PROVE [Pipeline!Next]_(Pipeline!vars)
  <2>1. UNCHANGED <<runBatch, successfulRun>> /\ \A q \in Runs : DurableRun(q)' <=> DurableRun(q)
    BY <1>15, <1>f DEF Launch, cycleVars, batchVars, runVars, repoVars, taskVars, DurableRun
  <2>2. \A q \in Runs, b \in Batches : WorkOf(q, b)' <=> WorkOf(q, b)
    BY <2>1 DEF WorkOf
  <2> QED BY <2>1, <2>2, SameWork
<1>16. ASSUME NEW t \in Hooks, NEW r \in Runs, ClaimAwaiting(t, r)
       PROVE  [Pipeline!Next]_(Pipeline!vars)
  <2>1. UNCHANGED <<runBatch, successfulRun>> /\ \A q \in Runs : DurableRun(q)' <=> DurableRun(q)
    BY <1>16, <1>f DEF ClaimAwaiting, cycleVars, batchVars, runVars, repoVars, taskVars,
       DurableRun
  <2>2. \A q \in Runs, b \in Batches : WorkOf(q, b)' <=> WorkOf(q, b)
    BY <2>1 DEF WorkOf
  <2> QED BY <2>1, <2>2, SameWork
<1>17. ASSUME NEW t \in Web, AgentEdits(t) PROVE [Pipeline!Next]_(Pipeline!vars)
  <2>1. UNCHANGED <<runBatch, successfulRun>> /\ \A q \in Runs : DurableRun(q)' <=> DurableRun(q)
    BY <1>17, <1>f DEF AgentEdits, cycleVars, batchVars, runVars, repoVars, taskVars, DurableRun
  <2>2. \A q \in Runs, b \in Batches : WorkOf(q, b)' <=> WorkOf(q, b)
    BY <2>1 DEF WorkOf
  <2> QED BY <2>1, <2>2, SameWork
<1>18. ASSUME NEW t \in Web, TurnAwaits(t) PROVE [Pipeline!Next]_(Pipeline!vars)
  <2>1. UNCHANGED <<runBatch, successfulRun>> /\ \A q \in Runs : DurableRun(q)' <=> DurableRun(q)
    BY <1>18, <1>f DEF TurnAwaits, cycleVars, batchVars, runVars, repoVars, taskVars, DurableRun
  <2>2. \A q \in Runs, b \in Batches : WorkOf(q, b)' <=> WorkOf(q, b)
    BY <2>1 DEF WorkOf
  <2> QED BY <2>1, <2>2, SameWork
<1>19. ASSUME NEW t \in Web, MessagesSent(t) PROVE [Pipeline!Next]_(Pipeline!vars)
  <2>1. UNCHANGED <<runBatch, successfulRun>> /\ \A q \in Runs : DurableRun(q)' <=> DurableRun(q)
    BY <1>19, <1>f DEF MessagesSent, cycleVars, batchVars, runVars, repoVars, taskVars, DurableRun
  <2>2. \A q \in Runs, b \in Batches : WorkOf(q, b)' <=> WorkOf(q, b)
    BY <2>1 DEF WorkOf
  <2> QED BY <2>1, <2>2, SameWork
<1>20. ASSUME NEW t \in Web, TurnDone(t) PROVE [Pipeline!Next]_(Pipeline!vars)
  <2>1. UNCHANGED <<runBatch, successfulRun>> /\ \A q \in Runs : DurableRun(q)' <=> DurableRun(q)
    BY <1>20, <1>f DEF TurnDone, EarlyInv, EarlyTurn, cycleVars, batchVars, runVars, repoVars,
       taskVars, DurableRun, At, SetPhase, Tasks, Web, Reconcilers, Typing, TypeOK, RunTypeOK,
       TaskTypeOK, HoldsRun, Working, Counters
  <2>2. \A q \in Runs, b \in Batches : WorkOf(q, b)' <=> WorkOf(q, b)
    BY <2>1 DEF WorkOf
  <2> QED BY <2>1, <2>2, SameWork
<1>21. ASSUME NEW t \in Web, GitCommit(t) PROVE [Pipeline!Next]_(Pipeline!vars)
  <2>1. UNCHANGED <<runBatch, successfulRun>> /\ \A q \in Runs : DurableRun(q)' <=> DurableRun(q)
    BY <1>21, <1>f DEF GitCommit, cycleVars, batchVars, runVars, repoVars, taskVars, DurableRun
  <2>2. \A q \in Runs, b \in Batches : WorkOf(q, b)' <=> WorkOf(q, b)
    BY <2>1 DEF WorkOf
  <2> QED BY <2>1, <2>2, SameWork
<1>22. ASSUME NEW t \in Web, RecordCommit(t) PROVE [Pipeline!Next]_(Pipeline!vars)
  <2>1. UNCHANGED <<runBatch, successfulRun>> /\ \A q \in Runs : DurableRun(q)' <=> DurableRun(q)
    BY <1>22, <1>f DEF RecordCommit, TaskInv, LateTurn, cycleVars, batchVars, runVars, repoVars,
       taskVars, DurableRun, At, SetPhase, Tasks, Web, Reconcilers, Typing, TypeOK, RunTypeOK,
       TaskTypeOK, HoldsRun, Working, Counters
  <2>2. \A q \in Runs, b \in Batches : WorkOf(q, b)' <=> WorkOf(q, b)
    BY <2>1 DEF WorkOf
  <2> QED BY <2>1, <2>2, SameWork
<1>23. ASSUME NEW t \in Web, GitPush(t) PROVE [Pipeline!Next]_(Pipeline!vars)
  <2>p. on[t] \in Runs
    BY <1>23, <1>f DEF GitPush, At, SetPhase, Tasks, Web, Reconcilers, Typing, TypeOK, RunTypeOK,
       TaskTypeOK, HoldsRun, Working, Counters
  <2>r. PICK r \in Runs : r = on[t]
    BY <2>p
  <2>1. r \in Runs /\ UNCHANGED <<gitPhase, runBatch, successfulRun>> /\ (remote' = remote \/ remote' = local)
    BY <1>23, <1>f, <2>r DEF GitPush, Push, batchVars, runVars, At, SetPhase, Tasks, Web,
       Reconcilers, Typing, TypeOK, RunTypeOK, TaskTypeOK, HoldsRun, Working, Counters
  <2>2. remote' = remote \/ gitPhase[r] \in Announced
    BY <1>23, <1>f, <2>r DEF GitPush, TaskInv, LateTurn, Announced, At, Tasks, Web
  <2>3. CASE remote' = remote
    <3>1. \A q \in Runs, b \in Batches : WorkOf(q, b)' <=> WorkOf(q, b)
      BY <2>1, <2>3 DEF WorkOf, DurableRun
    <3> QED BY <2>1, <3>1, SameWork
  <2>4. CASE remote' = local /\ gitPhase[r] \in Announced
    <3>1. ASSUME NEW q \in Runs, q # r PROVE DurableRun(q)' <=> DurableRun(q)
      <4>1. gitPhase[q] \notin Announced
        BY <1>t, <2>1, <2>4, <3>1, AnnouncedIsCurrent
      <4>2. q \in local.commits => q \in remote.commits
        BY <1>f, <4>1 DEF CommitInv, AheadInv
      <4>3. q \in remote.commits => q \in local.commits
        BY <1>f DEF PhaseInv, GitInv, RunsAreLocal
      <4> QED BY <2>1, <2>4, <4>2, <4>3 DEF DurableRun
    <3>2. DurableRun(r) => DurableRun(r)'
      BY <1>f, <2>1, <2>4 DEF DurableRun, PhaseInv, GitInv, RunsAreLocal
    <3> QED BY <2>1, <2>4, <3>1, <3>2, NewWork
  <2> QED BY <2>1, <2>2, <2>3, <2>4
<1>24. ASSUME NEW t \in Web, RecordPush(t) PROVE [Pipeline!Next]_(Pipeline!vars)
  <2>p. on[t] \in Runs
    BY <1>24, <1>f DEF RecordPush, At, SetPhase, Tasks, Web, Reconcilers, Typing, TypeOK,
       RunTypeOK, TaskTypeOK, HoldsRun, Working, Counters
  <2>r. PICK r \in Runs : r = on[t]
    BY <2>p
  <2>1. r \in Runs /\ gitPhase[r] = "committed"
    BY <1>24, <1>f, <2>r DEF RecordPush, TaskInv, LateTurn, At, SetPhase, Tasks, Web,
       Reconcilers, Typing, TypeOK, RunTypeOK, TaskTypeOK, HoldsRun, Working, Counters
  <2>2. /\ gitPhase' = [gitPhase EXCEPT ![r] = "pushed"]
        /\ UNCHANGED <<runBatch, successfulRun, remote>>
    BY <1>24, <1>f, <2>r DEF RecordPush, SetPhase, batchVars, repoVars
  <2>3. \A q \in Runs : q # r => (DurableRun(q)' <=> DurableRun(q))
    BY <2>2 DEF DurableRun
  <2>4. DurableRun(r)'
    BY <1>p, <2>1, <2>2 DEF DurableRun
  <2> QED BY <2>1, <2>2, <2>3, <2>4, NewWork DEF Announced
<1>25. ASSUME NEW t \in Web, CompleteBatch(t) PROVE [Pipeline!Next]_(Pipeline!vars)
  <2>1. on[t] \in Runs /\ DurableRun(on[t])
    BY <1>25, <1>f DEF CompleteBatch, DurableRun, TaskInv, LateTurn, At, SetPhase, Tasks, Web,
       Reconcilers, Typing, TypeOK, RunTypeOK, TaskTypeOK, HoldsRun, Working, Counters
  <2>2. /\ successfulRun' = [successfulRun EXCEPT ![runBatch[on[t]]] = on[t]]
        /\ UNCHANGED <<runBatch, remote>>
        /\ \A q \in Runs : q # on[t] => gitPhase'[q] = gitPhase[q]
        /\ gitPhase'[on[t]] \in {"pushed", gitPhase[on[t]]}
    BY <1>25, <1>f, <2>1 DEF CompleteBatch, CompleteCycleBatch, SetPhase, runVars, repoVars,
       Typing, TypeOK, RunTypeOK
  <2>3. \A q \in Runs : DurableRun(q)' <=> DurableRun(q)
    BY <2>1, <2>2 DEF DurableRun
  <2> QED BY <2>1, <2>2, <2>3, NewSuccess
<1>26. ASSUME NEW t \in Web, CompleteRun(t) PROVE [Pipeline!Next]_(Pipeline!vars)
  <2>1. UNCHANGED <<runBatch, successfulRun>> /\ \A q \in Runs : DurableRun(q)' <=> DurableRun(q)
    BY <1>26, <1>f DEF CompleteRun, TaskInv, LateTurn, cycleVars, batchVars, runVars, repoVars,
       taskVars, DurableRun, At, SetPhase, Tasks, Web, Reconcilers, Typing, TypeOK, RunTypeOK,
       TaskTypeOK, HoldsRun, Working, Counters
  <2>2. \A q \in Runs, b \in Batches : WorkOf(q, b)' <=> WorkOf(q, b)
    BY <2>1 DEF WorkOf
  <2> QED BY <2>1, <2>2, SameWork
<1>27. ASSUME SetupFails PROVE [Pipeline!Next]_(Pipeline!vars)
  <2>1. UNCHANGED <<runBatch, successfulRun>> /\ \A q \in Runs : DurableRun(q)' <=> DurableRun(q)
    BY <1>27, <1>f DEF SetupFails, FailRun, StopCycle, cycleVars, batchVars, runVars, repoVars,
       taskVars, DurableRun
  <2>2. \A q \in Runs, b \in Batches : WorkOf(q, b)' <=> WorkOf(q, b)
    BY <2>1 DEF WorkOf
  <2> QED BY <2>1, <2>2, SameWork
<1>28. ASSUME NEW t \in Web, TurnFails(t) PROVE [Pipeline!Next]_(Pipeline!vars)
  <2>1. UNCHANGED <<runBatch, successfulRun>> /\ \A q \in Runs : DurableRun(q)' <=> DurableRun(q)
    BY <1>28, <1>f DEF TurnFails, FailRun, StopCycle, cycleVars, batchVars, runVars, repoVars,
       taskVars, DurableRun
  <2>2. \A q \in Runs, b \in Batches : WorkOf(q, b)' <=> WorkOf(q, b)
    BY <2>1 DEF WorkOf
  <2> QED BY <2>1, <2>2, SameWork
<1>29. ASSUME NEW t \in Web, SendFails(t) PROVE [Pipeline!Next]_(Pipeline!vars)
  <2>1. UNCHANGED <<runBatch, successfulRun>> /\ \A q \in Runs : DurableRun(q)' <=> DurableRun(q)
    BY <1>29, <1>f DEF SendFails, FailRun, StopCycle, cycleVars, batchVars, runVars, repoVars,
       taskVars, DurableRun
  <2>2. \A q \in Runs, b \in Batches : WorkOf(q, b)' <=> WorkOf(q, b)
    BY <2>1 DEF WorkOf
  <2> QED BY <2>1, <2>2, SameWork
<1>30. ASSUME NEW t \in Web, CompletionFails(t) PROVE [Pipeline!Next]_(Pipeline!vars)
  <2>1. UNCHANGED <<runBatch, successfulRun>> /\ \A q \in Runs : DurableRun(q)' <=> DurableRun(q)
    BY <1>30, <1>f DEF CompletionFails, FailRun, StopCycle, cycleVars, batchVars, runVars,
       repoVars, taskVars, DurableRun
  <2>2. \A q \in Runs, b \in Batches : WorkOf(q, b)' <=> WorkOf(q, b)
    BY <2>1 DEF WorkOf
  <2> QED BY <2>1, <2>2, SameWork
<1>31. ASSUME NEW t \in Web, FinalJsonFails(t) PROVE [Pipeline!Next]_(Pipeline!vars)
  <2>1. on[t] \in Runs /\ DurableRun(on[t])
    BY <1>31, <1>f DEF FinalJsonFails, DurableRun, TaskInv, LateTurn, At, SetPhase, Tasks, Web,
       Reconcilers, Typing, TypeOK, RunTypeOK, TaskTypeOK, HoldsRun, Working, Counters
  <2>2. /\ successfulRun' = [successfulRun EXCEPT ![runBatch[on[t]]] = on[t]]
        /\ UNCHANGED <<runBatch, remote>>
        /\ \A q \in Runs : q # on[t] => gitPhase'[q] = gitPhase[q]
        /\ gitPhase'[on[t]] \in {"pushed", gitPhase[on[t]]}
    BY <1>31, <1>f, <2>1 DEF FinalJsonFails, CompleteCycleBatch, SetPhase, runVars, repoVars,
       Typing, TypeOK, RunTypeOK
  <2>3. \A q \in Runs : DurableRun(q)' <=> DurableRun(q)
    BY <2>1, <2>2 DEF DurableRun
  <2> QED BY <2>1, <2>2, <2>3, NewSuccess
<1>32. ASSUME NEW t \in Web, FailAgain(t) PROVE [Pipeline!Next]_(Pipeline!vars)
  <2>1. UNCHANGED <<runBatch, successfulRun>> /\ \A q \in Runs : DurableRun(q)' <=> DurableRun(q)
    BY <1>32, <1>f DEF FailAgain, StopCycle, cycleVars, batchVars, runVars, repoVars, taskVars,
       DurableRun
  <2>2. \A q \in Runs, b \in Batches : WorkOf(q, b)' <=> WorkOf(q, b)
    BY <2>1 DEF WorkOf
  <2> QED BY <2>1, <2>2, SameWork
<1>33. ASSUME NEW process \in SUBSET Tasks, Crash(process) PROVE [Pipeline!Next]_(Pipeline!vars)
  <2>1. UNCHANGED <<runBatch, successfulRun>> /\ \A q \in Runs : DurableRun(q)' <=> DurableRun(q)
    BY <1>33, <1>f DEF Crash, cycleVars, batchVars, runVars, repoVars, taskVars, DurableRun
  <2>2. \A q \in Runs, b \in Batches : WorkOf(q, b)' <=> WorkOf(q, b)
    BY <2>1 DEF WorkOf
  <2> QED BY <2>1, <2>2, SameWork
<1>34. ASSUME NEW r \in Runs, LeaseExpires(r) PROVE [Pipeline!Next]_(Pipeline!vars)
  <2>1. UNCHANGED <<runBatch, successfulRun>> /\ \A q \in Runs : DurableRun(q)' <=> DurableRun(q)
    BY <1>34, <1>f DEF LeaseExpires, cycleVars, batchVars, runVars, repoVars, taskVars, DurableRun
  <2>2. \A q \in Runs, b \in Batches : WorkOf(q, b)' <=> WorkOf(q, b)
    BY <2>1 DEF WorkOf
  <2> QED BY <2>1, <2>2, SameWork
<1>35. ASSUME NEW r \in Runs, BackoffEnds(r) PROVE [Pipeline!Next]_(Pipeline!vars)
  <2>1. UNCHANGED <<runBatch, successfulRun>> /\ \A q \in Runs : DurableRun(q)' <=> DurableRun(q)
    BY <1>35, <1>f DEF BackoffEnds, cycleVars, batchVars, runVars, repoVars, taskVars, DurableRun
  <2>2. \A q \in Runs, b \in Batches : WorkOf(q, b)' <=> WorkOf(q, b)
    BY <2>1 DEF WorkOf
  <2> QED BY <2>1, <2>2, SameWork
<1>36. ASSUME NEW t \in Clis, Retry(t) PROVE [Pipeline!Next]_(Pipeline!vars)
  <2>1. UNCHANGED <<runBatch, successfulRun>> /\ \A q \in Runs : DurableRun(q)' <=> DurableRun(q)
    BY <1>36, <1>f DEF Retry, cycleVars, batchVars, runVars, repoVars, taskVars, DurableRun
  <2>2. \A q \in Runs, b \in Batches : WorkOf(q, b)' <=> WorkOf(q, b)
    BY <2>1 DEF WorkOf
  <2> QED BY <2>1, <2>2, SameWork
<1>37. ASSUME NEW r \in Runs, Abandon(r) PROVE [Pipeline!Next]_(Pipeline!vars)
  <2>1. UNCHANGED <<runBatch, successfulRun>> /\ \A q \in Runs : DurableRun(q)' <=> DurableRun(q)
    BY <1>37, <1>f DEF Abandon, StopCycle, cycleVars, batchVars, runVars, repoVars, taskVars,
       DurableRun
  <2>2. \A q \in Runs, b \in Batches : WorkOf(q, b)' <=> WorkOf(q, b)
    BY <2>1 DEF WorkOf
  <2> QED BY <2>1, <2>2, SameWork
<1>38. ASSUME NEW r \in Runs, AbandonEnded(r) PROVE [Pipeline!Next]_(Pipeline!vars)
  <2>1. UNCHANGED <<runBatch, successfulRun>> /\ \A q \in Runs : DurableRun(q)' <=> DurableRun(q)
    BY <1>38, <1>f DEF AbandonEnded, cycleVars, batchVars, runVars, repoVars, taskVars, DurableRun
  <2>2. \A q \in Runs, b \in Batches : WorkOf(q, b)' <=> WorkOf(q, b)
    BY <2>1 DEF WorkOf
  <2> QED BY <2>1, <2>2, SameWork
<1>39. ASSUME NEW c \in Outsiders, OutsideCommit(c) PROVE [Pipeline!Next]_(Pipeline!vars)
  <2>r. c \notin Runs
    BY RepoAssumption
  <2>1. UNCHANGED <<runBatch, successfulRun>> /\ \A q \in Runs : DurableRun(q)' <=> DurableRun(q)
    BY <1>39, <1>f, <2>r DEF OutsideCommit, OutsidePush, cycleVars, batchVars, runVars, repoVars,
       taskVars, DurableRun
  <2>2. \A q \in Runs, b \in Batches : WorkOf(q, b)' <=> WorkOf(q, b)
    BY <2>1 DEF WorkOf
  <2> QED BY <2>1, <2>2, SameWork
<1>40. ASSUME UNCHANGED vars PROVE [Pipeline!Next]_(Pipeline!vars)
  <2>1. UNCHANGED <<runBatch, successfulRun>> /\ \A q \in Runs : DurableRun(q)' <=> DurableRun(q)
    BY <1>40, <1>f DEF vars, cycleVars, batchVars, runVars, repoVars, taskVars, DurableRun
  <2>2. \A q \in Runs, b \in Batches : WorkOf(q, b)' <=> WorkOf(q, b)
    BY <2>1 DEF WorkOf
  <2> QED BY <2>1, <2>2, SameWork
<1> QED
  BY <1>1, <1>2, <1>3, <1>4, <1>5, <1>6, <1>7, <1>8, <1>9, <1>10, <1>11, <1>12, <1>13,
     <1>14, <1>15, <1>16, <1>17, <1>18, <1>19, <1>20, <1>21, <1>22, <1>23, <1>24, <1>25,
     <1>26, <1>27, <1>28, <1>29, <1>30, <1>31, <1>32, <1>33, <1>34, <1>35, <1>36, <1>37,
     <1>38, <1>39, <1>40 DEF Next, TurnStep, ReconcileStep, WorkerClaim, Time, Tasks, Web

\* In the first state nothing is durable and nothing acknowledged.
LEMMA PipelineStart == Init => Pipeline!Init
<1> SUFFICES ASSUME Init PROVE Pipeline!Init
  OBVIOUS
<1>1. \A r \in Runs : ~DurableRun(r)
  BY DEF Init, RepoInit, DurableRun
<1>2. Publisher = [b \in 1..N |-> NoRun]
  BY <1>1 DEF Publisher, Batches
<1>3. {b \in Batches : successfulRun[b] # NoRun} = {}
  BY DEF Init
<1>4. Acknowledged = 0
  BY <1>3, FS_EmptySet DEF Acknowledged
<1> QED BY <1>2, <1>4 DEF Pipeline!Init

\* The program makes batches durable as BatchPipeline says: in order, each by one
\* run, and none before the one ahead of it is acknowledged.
THEOREM PipelineIsFollowed == Orderly => (Spec => PipelineSafety)
<1> SUFFICES ASSUME Orderly PROVE Spec => PipelineSafety
  OBVIOUS
<1>1. PublicationFacts => PublisherKnown
  BY OnceInv, PublisherIs
<1>2. PublicationFacts /\ PublisherKnown /\ PublisherKnown' /\ [Next]_vars => [Pipeline!Next]_(Pipeline!vars)
  BY PipelineStep
<1> QED BY <1>1, <1>2, PipelineStart, PublicationInvariant, PTL DEF Spec, PipelineSafety

=============================================================================
