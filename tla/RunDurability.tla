---------------------------- MODULE RunDurability ----------------------------
(***************************************************************************)
(* How one weekly cycle's batches become durable: the queue worker, the    *)
(* Telegram handlers that continue a run, the commit protocol of a         *)
(* finished run, start-up reconciliation, and the operator's retry-cycle   *)
(* and abandon-run commands (workflow.py, worker.py, recovery.py,          *)
(* cycles.py).                                                             *)
(*                                                                         *)
(* The module starts where the snapshot ends: the cycle is active, its     *)
(* first batch queued.  One action is one stretch of code between two      *)
(* database commits, two external effects, or two awaits, so a crash may   *)
(* fall between any two actions.  The web process runs its tasks on one    *)
(* event loop: between two awaits a task is not interleaved with another   *)
(* task of the process (Undisturbed).  Commands run in their own process.  *)
(* Database rows are read afresh at every action, except what a task is    *)
(* known to hold in memory; that is fixed by its program counter.          *)
(***************************************************************************)
EXTENDS Naturals, FiniteSets, OpinionsRepo

CONSTANTS
    N,       \* number of batches in the cycle
    Worker,  \* the worker_loop task of the web process
    Hooks,   \* webhook handlers running at the same time in the web process
    Clis,    \* retry-cycle commands running at the same time
    NoRun,   \* "no run": the null of a run reference
    Faults   \* which faults and operator acts may occur, see FaultKinds

(***************************************************************************)
(* crash           the web process dies between any two of its steps       *)
(* kill            a command dies between any two of its steps             *)
(* turn            the model turn, the final validation or the sending of  *)
(*                 the turn's messages raises                              *)
(* commit          `git commit` raises                                     *)
(* push            a fetch or a push raises in a turn                      *)
(* finish          a turn's work after its push raises                     *)
(* reconcile       a fetch, a push, the validation or the directory move   *)
(*                 raises in a reconciliation                              *)
(* abandon         the operator abandons a run that no task is working on  *)
(* abandonLive     ... or one whose turn is in progress                    *)
(* abandonTerminal ... or one that has already ended                       *)
(* staleSend       sending fails after another task has taken the run over *)
(* slowNotice      other tasks run while a failure notice is being sent    *)
(* overlap         a command runs while the web process is between two     *)
(*                 awaits                                                  *)
(***************************************************************************)
FaultKinds == {"crash", "kill", "turn", "commit", "push", "finish", "reconcile", "abandon",
               "abandonLive", "abandonTerminal", "staleSend", "slowNotice", "overlap"}

Web == {Worker} \cup Hooks
Tasks == Web \cup Clis
Reconcilers == {Worker} \cup Clis

ASSUME DurabilityAssumption ==
    /\ N \in Nat \ {0}
    /\ NoRun \notin Runs
    /\ Worker \notin Hooks \cup Clis
    /\ Hooks \cap Clis = {}
    /\ Faults \subseteq FaultKinds

Batches == 1..N
CycleStates == {"active", "stopped", "completed"}
BatchStates == {"pending", "queued", "running", "awaiting_user", "stopped", "completed"}
RunStates == {"none", "pending_agent", "running_agent", "awaiting_user", "completed", "failed",
              "abandoned"}
Phases == {"none", "agent_editing", "commit_intent", "committed", "pushed", "completed"}
Leases == {"none", "live", "expired"}
Counters == {"idle", "reconcile", "recPushed", "recBatch", "claim", "setup", "launch", "agent",
             "sending", "intent", "committing", "committed", "pushing", "pushed", "batchDone",
             "failing"}

NonTerminal == {"pending_agent", "running_agent", "awaiting_user"}

VARIABLES
    cycleStatus, currentBatch,               \* the opinion_cycles row
    batchStatus, latestRun, successfulRun,   \* opinion_batches, by batch number
    runStatus, runBatch, gitPhase, hasSha,   \* opinion_runs, by run; hasSha is
    runLease,                                \*   git_result_sha # NULL
    base,        \* content of the baseline copies in <run>/recovery/baseline
    pc, on,      \* program counter of each task and the run it works on
    todo,        \* candidates a reconciling task has not looked at yet
    rowsHeld,    \* the worker still holds the cycle and batch rows it loaded when it
                 \*   created the run; assigning the value it holds writes nothing
    claimLease,  \* the opinion-worker-claim row: free, held, or left by a dead worker
    backoff      \* runs whose reconcile_after lies in the future

cycleVars == <<cycleStatus, currentBatch>>
batchVars == <<batchStatus, latestRun, successfulRun>>
runVars == <<runStatus, runBatch, gitPhase, hasSha, runLease, base>>
taskVars == <<pc, on, todo, rowsHeld, claimLease, backoff>>
vars == <<cycleVars, batchVars, runVars, repoVars, taskVars>>

CycleTypeOK ==
    /\ cycleStatus \in CycleStates
    /\ currentBatch \in Batches
    /\ batchStatus \in [Batches -> BatchStates]
    /\ latestRun \in [Batches -> Runs \cup {NoRun}]
    /\ successfulRun \in [Batches -> Runs \cup {NoRun}]

RunTypeOK ==
    /\ runStatus \in [Runs -> RunStates]
    /\ runBatch \in [Runs -> Batches]
    /\ gitPhase \in [Runs -> Phases]
    /\ hasSha \in [Runs -> BOOLEAN]
    /\ runLease \in [Runs -> Leases]
    /\ base \in [Runs -> Content]

TaskTypeOK ==
    /\ pc \in [Tasks -> Counters]
    /\ on \in [Tasks -> Runs \cup {NoRun}]
    /\ todo \in [Tasks -> SUBSET Runs]
    /\ rowsHeld \in BOOLEAN
    /\ claimLease \in {"free", "held", "orphan"}
    /\ backoff \in SUBSET Runs

TypeOK == RepoTypeOK /\ CycleTypeOK /\ RunTypeOK /\ TaskTypeOK

Init ==
    /\ RepoInit
    /\ cycleStatus = "active"
    /\ currentBatch = 1
    /\ batchStatus = [b \in Batches |-> IF b = 1 THEN "queued" ELSE "pending"]
    /\ latestRun = [b \in Batches |-> NoRun]
    /\ successfulRun = [b \in Batches |-> NoRun]
    /\ runStatus = [r \in Runs |-> "none"]
    /\ runBatch = [r \in Runs |-> 1]
    /\ gitPhase = [r \in Runs |-> "none"]
    /\ hasSha = [r \in Runs |-> FALSE]
    /\ runLease = [r \in Runs |-> "none"]
    /\ base = [r \in Runs |-> {}]
    /\ pc = [t \in Tasks |-> "idle"]
    /\ on = [t \in Tasks |-> NoRun]
    /\ todo = [t \in Tasks |-> {}]
    /\ rowsHeld = FALSE
    /\ claimLease = "free"
    /\ backoff = {}

-----------------------------------------------------------------------------
(* Control helpers *)

\* Counters at which a task waits on the network, on the model or on nothing.
Awaits == {"idle", "claim", "agent", "sending"}
            \cup (IF "slowNotice" \in Faults THEN {"failing"} ELSE {})

\* No task that could not be preempted is between two awaits.
Undisturbed(t) ==
    \A u \in Tasks \ {t} :
        \/ pc[u] \in Awaits
        \/ "overlap" \in Faults /\ ~({t, u} \subseteq Web)

At(t, counter) == pc[t] = counter /\ Undisturbed(t)
Goto(t, counter) == pc' = [pc EXCEPT ![t] = counter]

\* The task returns; the worker leaves process_queued_once and its finally clause.
Return(t) ==
    /\ Goto(t, "idle")
    /\ on' = [on EXCEPT ![t] = NoRun]
    /\ claimLease' = IF t = Worker THEN "free" ELSE claimLease
    /\ rowsHeld' = (rowsHeld /\ t # Worker)

InProgress(run) == \E t \in Tasks : on[t] = run
Active == \E r \in Runs : runStatus[r] \in NonTerminal
BaselineComplete(run) == gitPhase[run] # "none"

Holds(t) == t = Worker /\ rowsHeld

\* Variant: the batch row is forgotten.
StopCycleOnly(run) ==
    /\ cycleStatus' = "stopped"
    /\ UNCHANGED <<currentBatch, batchVars>>

\* _stop_cycle
StopCycle(run) ==
    /\ cycleStatus' = "stopped"
    /\ batchStatus' = [batchStatus EXCEPT ![runBatch[run]] = "stopped"]
    /\ UNCHANGED <<currentBatch, latestRun, successfulRun>>

\* Variant: the files are archived and left as they are.
ArchiveOnly(run) == tree' = tree

\* archive_and_restore_run: the archive is left out, the restore is not.
Restore(run) == tree' = base[run]

SetStatus(run, status) == runStatus' = [runStatus EXCEPT ![run] = status]
SetPhase(run, phase) == gitPhase' = [gitPhase EXCEPT ![run] = phase]

\* Variant: the last batch is taken to have a successor.
HasNextOffByOne(b) == b <= N

\* The query for batch_number + 1 finds a batch.
HasNext(b) == b < N

\* _complete_cycle_batch up to its commit
CompleteCycleBatch(run, held) ==
    LET b == runBatch[run] IN
    /\ successfulRun' = [successfulRun EXCEPT ![b] = run]
    /\ \/ /\ HasNext(b)
          /\ batchStatus' = [batchStatus EXCEPT ![b] = "completed", ![b + 1] = "queued"]
          /\ currentBatch' = b + 1
          /\ cycleStatus' = IF held THEN cycleStatus ELSE "active"
       \/ /\ ~HasNext(b)
          /\ batchStatus' = [batchStatus EXCEPT ![b] = "completed"]
          /\ currentBatch' = N
          /\ cycleStatus' = "completed"
    /\ UNCHANGED latestRun

-----------------------------------------------------------------------------
(* Reconciliation: reconcile_startup, by the worker or by retry-cycle *)

\* Variants: a status is missing from the query.
FailedOnly == {r \in Runs : runStatus[r] = "failed"}
RunningOnly == {r \in Runs : runStatus[r] = "running_agent"}

\* The runs reconcile_startup selects.
Candidates == {r \in Runs : runStatus[r] \in {"running_agent", "failed"}}

BeginPass(t) ==
    /\ At(t, "idle")
    /\ Goto(t, "reconcile")
    /\ todo' = [todo EXCEPT ![t] = Candidates]
    /\ UNCHANGED <<cycleVars, batchVars, runVars, repoVars, on, rowsHeld, claimLease, backoff>>

\* The commit this run left at HEAD without recording it.
UnrecordedCommit(run) == gitPhase[run] = "commit_intent" /\ ~hasSha[run] /\ local.tip = run
Sha(run) == hasSha[run] \/ UnrecordedCommit(run)
NeedsGit(run) == gitPhase[run] \in {"commit_intent", "committed", "pushed"}

\* Variant: only a recorded commit is pushed.
TriesRecordedPush(run) ==
    /\ gitPhase[run] = "committed" /\ hasSha[run] /\ ~OnRemote(run)
    /\ local.tip = run

\* reconcile_git_durability reaches its push.
TriesPush(run) ==
    /\ NeedsGit(run) /\ Sha(run) /\ ~OnRemote(run)
    /\ gitPhase[run] = "committed" \/ UnrecordedCommit(run)
    /\ local.tip = run

\* reconcile_git_durability returns True.
Durable(run) ==
    /\ NeedsGit(run)
    /\ \/ gitPhase[run] = "pushed" /\ ~hasSha[run]
       \/ Sha(run) /\ OnRemote(run)
       \/ TriesPush(run) /\ CanPush

Looking(t, run) == At(t, "reconcile") /\ run \in todo[t] \ backoff

\* The git half of a candidate: the push, if one is due.  The phase and the
\* SHA it works out stay in memory until the batch is committed.
ReconcilePush(t, run) ==
    /\ Looking(t, run)
    /\ Durable(run)
    /\ IF TriesPush(run) THEN Push ELSE UNCHANGED remote
    /\ Goto(t, "recPushed")
    /\ on' = [on EXCEPT ![t] = run]
    /\ UNCHANGED <<cycleVars, batchVars, runVars, local, tree, todo, rowsHeld, claimLease,
                   backoff>>

\* complete_reconciled_run up to the commit inside _complete_cycle_batch.
ReconcileBatch(t) ==
    /\ At(t, "recPushed")
    /\ CompleteCycleBatch(on[t], FALSE)
    /\ SetPhase(on[t], "pushed")
    /\ hasSha' = [hasSha EXCEPT ![on[t]] = @ \/ OnRemote(on[t])]
    /\ Goto(t, "recBatch")
    /\ UNCHANGED <<runStatus, runBatch, runLease, base, repoVars, on, todo, rowsHeld,
                   claimLease, backoff>>

\* ... and its final commit.
ReconcileRun(t) ==
    /\ At(t, "recBatch")
    /\ SetStatus(on[t], "completed")
    /\ SetPhase(on[t], "completed")
    /\ runLease' = [runLease EXCEPT ![on[t]] = "none"]
    /\ backoff' = backoff \ {on[t]}
    /\ todo' = [todo EXCEPT ![t] = @ \ {on[t]}]
    /\ Goto(t, "reconcile")
    /\ on' = [on EXCEPT ![t] = NoRun]
    /\ UNCHANGED <<cycleVars, batchVars, runBatch, hasSha, base, repoVars, rowsHeld, claimLease>>

\* A model turn whose lease ran out.
ReconcileInterrupt(t, run) ==
    /\ Looking(t, run)
    /\ ~Durable(run) /\ ~TriesPush(run)
    /\ runStatus[run] = "running_agent"
    /\ runLease[run] = "expired"
    /\ Restore(run)
    /\ SetStatus(run, "failed")
    /\ StopCycle(run)
    /\ todo' = [todo EXCEPT ![t] = @ \ {run}]
    /\ UNCHANGED <<runBatch, gitPhase, hasSha, runLease, base, local, remote, pc, on, rowsHeld,
                   claimLease, backoff>>

\* Nothing to do: backed off, already failed, or the lease is still valid.
ReconcileSkip(t, run) ==
    /\ At(t, "reconcile")
    /\ run \in todo[t]
    /\ \/ run \in backoff
       \/ /\ ~Durable(run) /\ ~TriesPush(run)
          /\ runStatus[run] = "failed" \/ runLease[run] # "expired"
    /\ todo' = [todo EXCEPT ![t] = @ \ {run}]
    /\ UNCHANGED <<cycleVars, batchVars, runVars, repoVars, pc, on, rowsHeld, claimLease,
                   backoff>>

\* The fetch or push raises: roll back and set reconcile_after.
ReconcileGitFails(t, run) ==
    /\ Looking(t, run)
    /\ NeedsGit(run) /\ Sha(run)
    /\ "reconcile" \in Faults \/ (TriesPush(run) /\ ~CanPush)
    /\ backoff' = backoff \cup {run}
    /\ todo' = [todo EXCEPT ![t] = @ \ {run}]
    /\ UNCHANGED <<cycleVars, batchVars, runVars, repoVars, pc, on, rowsHeld, claimLease>>

\* Validation (before the batch commit) or the directory move (after it, when
\* the cycle is finished) raises.
ReconcileFinishFails(t) ==
    /\ "reconcile" \in Faults
    /\ At(t, "recPushed") \/ (At(t, "recBatch") /\ runBatch[on[t]] = N)
    /\ backoff' = backoff \cup {on[t]}
    /\ todo' = [todo EXCEPT ![t] = @ \ {on[t]}]
    /\ Goto(t, "reconcile")
    /\ on' = [on EXCEPT ![t] = NoRun]
    /\ UNCHANGED <<cycleVars, batchVars, runVars, repoVars, rowsHeld, claimLease>>

EndPass(t) ==
    /\ At(t, "reconcile")
    /\ todo[t] = {}
    /\ Goto(t, "claim")
    /\ UNCHANGED <<cycleVars, batchVars, runVars, repoVars, on, todo, rowsHeld, claimLease,
                   backoff>>

-----------------------------------------------------------------------------
(* The worker claims work: the second half of process_queued_once *)

Pending == {r \in Runs : runStatus[r] = "pending_agent"}
Queued == {b \in Batches : batchStatus[b] = "queued" /\ cycleStatus = "active" /\ b = currentBatch}
Unused == {r \in Runs : runStatus[r] = "none"}

\* run_pending_opinion_run: a run whose process died before its first turn.
ClaimPending(run) ==
    /\ At(Worker, "claim")
    /\ claimLease = "free"
    /\ run \in Pending
    /\ Goto(Worker, IF BaselineComplete(run) THEN "launch" ELSE "setup")
    /\ on' = [on EXCEPT ![Worker] = run]
    /\ claimLease' = "held"
    /\ UNCHANGED <<cycleVars, batchVars, runVars, repoVars, todo, rowsHeld, backoff>>

\* start_materialized_opinion_run up to its first commit.
ClaimBatch(run, b) ==
    /\ At(Worker, "claim")
    /\ claimLease = "free"
    /\ ~Active
    /\ b \in Queued
    /\ run \in Unused
    /\ SetStatus(run, "pending_agent")
    /\ runBatch' = [runBatch EXCEPT ![run] = b]
    /\ latestRun' = [latestRun EXCEPT ![b] = run]
    /\ batchStatus' = [batchStatus EXCEPT ![b] = "running"]
    /\ Goto(Worker, "setup")
    /\ on' = [on EXCEPT ![Worker] = run]
    /\ claimLease' = "held"
    /\ rowsHeld' = TRUE
    /\ UNCHANGED <<cycleVars, successfulRun, gitPhase, hasSha, runLease, base, repoVars, todo,
                   backoff>>

\* The lease is taken, a run is active or nothing is queued (or, a bound of
\* the model, no run identifier is left).
ClaimNothing ==
    /\ At(Worker, "claim")
    /\ \/ claimLease = "orphan"
       \/ Pending = {} /\ (Active \/ Queued = {} \/ Unused = {})
    /\ Goto(Worker, "idle")
    /\ UNCHANGED <<cycleVars, batchVars, runVars, repoVars, on, todo, rowsHeld, claimLease,
                   backoff>>

ClaimLeaseExpires ==
    /\ claimLease = "orphan"
    /\ claimLease' = "free"
    /\ UNCHANGED <<cycleVars, batchVars, runVars, repoVars, pc, on, todo, rowsHeld, backoff>>

-----------------------------------------------------------------------------
(* A turn, by the worker or by a webhook handler *)

\* ensure_opinions_repo, capture_run_baseline and their commit.
Setup ==
    LET run == on[Worker] IN
    /\ At(Worker, "setup")
    /\ CanCheckout /\ TargetsClean
    /\ Checkout
    /\ base' = [base EXCEPT ![run] = remote.files]
    /\ SetPhase(run, "agent_editing")
    /\ Goto(Worker, "launch")
    /\ UNCHANGED <<cycleVars, batchVars, runStatus, runBatch, hasSha, runLease, remote, on, todo,
                   rowsHeld, claimLease, backoff>>

\* _run_agent_turn: pending_agent -> running_agent under a fresh lease.
Launch ==
    LET run == on[Worker] IN
    /\ At(Worker, "launch")
    /\ SetStatus(run, "running_agent")
    /\ runLease' = [runLease EXCEPT ![run] = "live"]
    /\ Goto(Worker, "agent")
    /\ UNCHANGED <<cycleVars, batchVars, runBatch, gitPhase, hasSha, base, repoVars, on, todo,
                   rowsHeld, claimLease, backoff>>

\* Variant: a late answer also continues a run that has failed.
LateAnswer(run) == runStatus[run] \in {"awaiting_user", "failed"}

\* The WHERE clause of _claim_awaiting_run.
AwaitsAnswer(run) == runStatus[run] = "awaiting_user"

\* _claim_awaiting_run: compare-and-swap awaiting_user -> running_agent.
ClaimAwaiting(h, run) ==
    /\ At(h, "idle")
    /\ AwaitsAnswer(run)
    /\ SetStatus(run, "running_agent")
    /\ runLease' = [runLease EXCEPT ![run] = "live"]
    /\ Goto(h, "agent")
    /\ on' = [on EXCEPT ![h] = run]
    /\ UNCHANGED <<cycleVars, batchVars, runBatch, gitPhase, hasSha, base, repoVars, todo,
                   rowsHeld, claimLease, backoff>>

\* The agent writes the opinions files while the task awaits it.
AgentEdits(t) ==
    /\ At(t, "agent")
    /\ on[t] \notin tree
    /\ tree' = tree \cup {on[t]}
    /\ UNCHANGED <<cycleVars, batchVars, runVars, local, remote, taskVars>>

\* The turn ends by asking the user: commit first, then send the messages.
TurnAwaits(t) ==
    LET run == on[t] IN
    /\ At(t, "agent")
    /\ SetStatus(run, "awaiting_user")
    /\ runLease' = [runLease EXCEPT ![run] = "none"]
    /\ batchStatus' = [batchStatus EXCEPT ![runBatch[run]] = "awaiting_user"]
    /\ Goto(t, "sending")
    /\ UNCHANGED <<cycleVars, latestRun, successfulRun, runBatch, gitPhase, hasSha, base,
                   repoVars,
                   on, todo, rowsHeld, claimLease, backoff>>

MessagesSent(t) ==
    /\ At(t, "sending")
    /\ Return(t)
    /\ UNCHANGED <<cycleVars, batchVars, runVars, repoVars, todo, backoff>>

\* The final output passed validation: record the intent to commit.
TurnDone(t) ==
    /\ At(t, "agent")
    /\ SetPhase(on[t], "commit_intent")
    /\ Goto(t, "intent")
    /\ UNCHANGED <<cycleVars, batchVars, runStatus, runBatch, hasSha, runLease, base, repoVars,
                   on,
                   todo, rowsHeld, claimLease, backoff>>

\* commit_and_push_opinions_files, push=False
GitCommit(t) ==
    /\ At(t, "intent")
    /\ Commit(on[t])
    /\ Goto(t, "committing")
    /\ UNCHANGED <<cycleVars, batchVars, runVars, remote, tree, on, todo, rowsHeld, claimLease,
                   backoff>>

RecordCommit(t) ==
    /\ At(t, "committing")
    /\ hasSha' = [hasSha EXCEPT ![on[t]] = on[t] \in local.commits]
    /\ SetPhase(on[t], "committed")
    /\ Goto(t, "committed")
    /\ UNCHANGED <<cycleVars, batchVars, runStatus, runBatch, runLease, base, repoVars, on, todo,
                   rowsHeld, claimLease, backoff>>

\* The push; a run that changed nothing has no SHA and pushes nothing.
GitPush(t) ==
    /\ At(t, "committed")
    /\ \/ hasSha[on[t]] /\ CanPush /\ Push
       \/ ~hasSha[on[t]] /\ UNCHANGED remote
    /\ Goto(t, "pushing")
    /\ UNCHANGED <<cycleVars, batchVars, runVars, local, tree, on, todo, rowsHeld, claimLease,
                   backoff>>

RecordPush(t) ==
    /\ At(t, "pushing")
    /\ SetPhase(on[t], "pushed")
    /\ Goto(t, "pushed")
    /\ UNCHANGED <<cycleVars, batchVars, runStatus, runBatch, hasSha, runLease, base, repoVars,
                   on,
                   todo, rowsHeld, claimLease, backoff>>

CompleteBatch(t) ==
    /\ At(t, "pushed")
    /\ CompleteCycleBatch(on[t], Holds(t))
    /\ Goto(t, "batchDone")
    /\ UNCHANGED <<runVars, repoVars, on, todo, rowsHeld, claimLease, backoff>>

\* The directory move of a finished cycle, and the final commit.
CompleteRun(t) ==
    LET run == on[t] IN
    /\ At(t, "batchDone")
    /\ SetStatus(run, "completed")
    /\ SetPhase(run, "completed")
    /\ runLease' = [runLease EXCEPT ![run] = "none"]
    /\ Return(t)
    /\ UNCHANGED <<cycleVars, batchVars, runBatch, hasSha, base, repoVars, todo, backoff>>

-----------------------------------------------------------------------------
(* Failures *)

\* _fail_run: restore the files unless the commit is recorded, end the run
\* and stop its cycle.  A task in a turn holds a non-terminal status.
FailRun(t) ==
    LET run == on[t] IN
    /\ IF BaselineComplete(run) /\ pc[t] \in {"setup", "launch", "agent", "sending", "intent"}
       THEN Restore(run)
       ELSE UNCHANGED tree
    /\ SetStatus(run, "failed")
    /\ StopCycle(run)
    /\ UNCHANGED <<runBatch, gitPhase, hasSha, runLease, base, local, remote, todo, backoff>>

\* The checkout cannot be prepared, or the fetch raises.
SetupFails ==
    /\ At(Worker, "setup")
    /\ "push" \in Faults \/ ~CanCheckout \/ ~TargetsClean
    /\ FailRun(Worker)
    /\ Return(Worker)

\* The agent raises.
TurnFails(t) ==
    /\ At(t, "agent")
    /\ "turn" \in Faults
    /\ FailRun(t)
    /\ Return(t)

\* A message cannot be sent; the awaiting_user commit is already made.
SendFails(t) ==
    /\ At(t, "sending")
    /\ "turn" \in Faults
    /\ "staleSend" \in Faults \/ runStatus[on[t]] = "awaiting_user"
    /\ FailRun(t)
    /\ Return(t)

\* A step of _complete_done_run raises: its own handler fails the run, sends
\* a notice, and raises again.
CompletionFails(t) ==
    /\ \/ At(t, "agent") /\ "turn" \in Faults
       \/ At(t, "intent") /\ "commit" \in Faults
       \/ At(t, "committed") /\ hasSha[on[t]] /\ ("push" \in Faults \/ ~CanPush)
       \/ At(t, "pushed") /\ "finish" \in Faults
       \/ At(t, "batchDone") /\ "finish" \in Faults /\ runBatch[on[t]] = N
    /\ FailRun(t)
    /\ Goto(t, "failing")
    /\ UNCHANGED <<on, rowsHeld, claimLease>>

\* final.json cannot be written: _fail_run's commit keeps the batch's
\* successful run, which _complete_cycle_batch had set in the session.
FinalJsonFails(t) ==
    LET run == on[t] IN
    /\ At(t, "pushed")
    /\ "finish" \in Faults
    /\ SetStatus(run, "failed")
    /\ cycleStatus' = "stopped"
    /\ batchStatus' = [batchStatus EXCEPT ![runBatch[run]] = "stopped"]
    /\ successfulRun' = [successfulRun EXCEPT ![runBatch[run]] = run]
    /\ Goto(t, "failing")
    /\ UNCHANGED <<currentBatch, latestRun, runBatch, gitPhase, hasSha, runLease, base,
                   repoVars, on,
                   todo, rowsHeld, claimLease, backoff>>

\* The caller's handler calls _fail_run once more, after that notice.  The
\* status it holds is already terminal and is not written again.
FailAgain(t) ==
    LET run == on[t] IN
    /\ At(t, "failing")
    /\ IF gitPhase[run] \in {"agent_editing", "commit_intent"}
       THEN Restore(run)
       ELSE UNCHANGED tree
    /\ IF Holds(t) THEN UNCHANGED <<cycleVars, batchVars>> ELSE StopCycle(run)
    /\ Return(t)
    /\ UNCHANGED <<runVars, local, remote, todo, backoff>>

\* A process dies.  What its tasks held in memory is gone; the worker-claim
\* lease of a dead worker stays until it expires.
Crash(process) ==
    /\ \E t \in process : pc[t] # "idle"
    /\ pc' = [t \in Tasks |-> IF t \in process THEN "idle" ELSE pc[t]]
    /\ on' = [t \in Tasks |-> IF t \in process THEN NoRun ELSE on[t]]
    /\ todo' = [t \in Tasks |-> IF t \in process THEN {} ELSE todo[t]]
    /\ claimLease' = IF Worker \in process /\ claimLease = "held" THEN "orphan" ELSE claimLease
    /\ rowsHeld' = (rowsHeld /\ Worker \notin process)
    /\ UNCHANGED <<cycleVars, batchVars, runVars, repoVars, backoff>>

\* The heartbeat renews the lease of a turn in progress.
LeaseExpires(run) ==
    /\ runStatus[run] = "running_agent"
    /\ runLease[run] = "live"
    /\ ~InProgress(run)
    /\ runLease' = [runLease EXCEPT ![run] = "expired"]
    /\ UNCHANGED <<cycleVars, batchVars, runStatus, runBatch, gitPhase, hasSha, base, repoVars,
                   taskVars>>

BackoffEnds(run) ==
    /\ run \in backoff
    /\ backoff' = backoff \ {run}
    /\ UNCHANGED <<cycleVars, batchVars, runVars, repoVars, pc, on, todo, rowsHeld, claimLease>>

-----------------------------------------------------------------------------
(* The operator *)

\* Variant: the phase of the latest run is not looked at.
RetryableAnyPhase ==
    /\ cycleStatus = "stopped"
    /\ batchStatus[currentBatch] = "stopped"
    /\ ~Active

\* The guard of retry_stopped_cycle.
Retryable ==
    /\ cycleStatus = "stopped"
    /\ batchStatus[currentBatch] = "stopped"
    /\ \/ latestRun[currentBatch] = NoRun
       \/ gitPhase[latestRun[currentBatch]] \notin {"commit_intent", "committed", "pushed"}
    /\ ~Active

\* retry-cycle, after its reconciliation pass.
Retry(c) ==
    /\ At(c, "claim")
    /\ IF Retryable
       THEN /\ batchStatus' = [batchStatus EXCEPT ![currentBatch] = "queued"]
            /\ cycleStatus' = "active"
       ELSE UNCHANGED <<batchStatus, cycleStatus>>
    /\ Goto(c, "idle")
    /\ UNCHANGED <<currentBatch, latestRun, successfulRun, runVars, repoVars, on, todo, rowsHeld,
                   claimLease, backoff>>

\* abandon-run on a cycle run: restore, then the transition.
MayAbandon(run) ==
    /\ gitPhase[run] \notin {"committed", "pushed"}
    /\ BaselineComplete(run)
    /\ "overlap" \in Faults \/ \A t \in Tasks : pc[t] \in Awaits
    /\ InProgress(run) => "abandonLive" \in Faults

Abandon(run) ==
    /\ "abandon" \in Faults
    /\ MayAbandon(run)
    /\ runStatus[run] \in NonTerminal
    /\ Restore(run)
    /\ SetStatus(run, "abandoned")
    /\ StopCycle(run)
    /\ UNCHANGED <<runBatch, gitPhase, hasSha, runLease, base, local, remote, taskVars>>

\* The transition refuses a run that has ended, but the files are restored first.
AbandonEnded(run) ==
    /\ "abandonTerminal" \in Faults
    /\ MayAbandon(run)
    /\ runStatus[run] \in {"completed", "failed", "abandoned"}
    /\ Restore(run)
    /\ UNCHANGED <<cycleVars, batchVars, runVars, local, remote, taskVars>>

\* Somebody else pushes to the remote branch.
OutsideCommit(commit) ==
    /\ OutsidePush(commit)
    /\ UNCHANGED <<cycleVars, batchVars, runVars, local, tree, taskVars>>

-----------------------------------------------------------------------------

TurnStep(t) ==
    \/ AgentEdits(t) \/ TurnAwaits(t) \/ MessagesSent(t) \/ TurnDone(t)
    \/ GitCommit(t) \/ RecordCommit(t) \/ GitPush(t) \/ RecordPush(t)
    \/ CompleteBatch(t) \/ CompleteRun(t)
    \/ TurnFails(t) \/ SendFails(t) \/ CompletionFails(t) \/ FinalJsonFails(t)
    \/ FailAgain(t)

ReconcileStep(t) ==
    \/ BeginPass(t) \/ EndPass(t)
    \/ ReconcileBatch(t) \/ ReconcileRun(t) \/ ReconcileFinishFails(t)
    \/ \E run \in Runs :
          \/ ReconcilePush(t, run) \/ ReconcileInterrupt(t, run)
          \/ ReconcileSkip(t, run) \/ ReconcileGitFails(t, run)

WorkerClaim ==
    \/ \E run \in Runs : ClaimPending(run)
    \/ \E run \in Runs, b \in Batches : ClaimBatch(run, b)
    \/ ClaimNothing \/ Setup \/ Launch \/ SetupFails

Time ==
    \/ ClaimLeaseExpires
    \/ \E run \in Runs : LeaseExpires(run) \/ BackoffEnds(run)

Next ==
    \/ \E t \in Reconcilers : ReconcileStep(t)
    \/ \E t \in Web : TurnStep(t)
    \/ WorkerClaim
    \/ \E h \in Hooks, run \in Runs : ClaimAwaiting(h, run)
    \/ \E c \in Clis : Retry(c)
    \/ \E run \in Runs : Abandon(run) \/ AbandonEnded(run)
    \/ \E commit \in Outsiders : OutsideCommit(commit)
    \/ "crash" \in Faults /\ Crash(Web)
    \/ "kill" \in Faults /\ \E c \in Clis : Crash({c})
    \/ Time

Spec == Init /\ [][Next]_vars

-----------------------------------------------------------------------------
(* Properties *)

\* At most one run is in a non-terminal status (find_active_run's guard holds
\* across the worker, the handlers, retries and restarts).
OneActiveRun ==
    \A r, s \in Runs : {runStatus[r], runStatus[s]} \subseteq NonTerminal => r = s

\* A completed batch names the run that made it durable: a run of that batch,
\* past its push, whose commit, if it made one, is on the remote branch.
CompletedIsDurable ==
    \A b \in Batches :
        batchStatus[b] = "completed" =>
            /\ successfulRun[b] \in Runs
            /\ runBatch[successfulRun[b]] = b
            /\ gitPhase[successfulRun[b]] \in {"pushed", "completed"}
            /\ hasSha[successfulRun[b]] => successfulRun[b] \in remote.commits

\* A run is durable once its commit is on the remote branch or, when it had
\* nothing to commit, once that is recorded.
DurableRun(r) == r \in remote.commits \/ gitPhase[r] \in {"pushed", "completed"}

\* No batch is made durable by two runs: over crashes, failing commits, pushes
\* and completions, retries, recovery and abandons, a retry never repeats a
\* pushed batch.  It does not hold when a reconciliation dies or fails half way
\* (kill, reconcile), nor when another task works between two steps of a
\* failure (slowNotice, overlap, staleSend, abandonLive).
PublishedOnce ==
    \A r, s \in Runs : DurableRun(r) /\ DurableRun(s) /\ runBatch[r] = runBatch[s] => r = s

\* Counters of a turn that has not ended.
TurnCounters == {"setup", "launch", "agent", "intent", "committing", "committed", "pushing",
                 "pushed", "batchDone"}

TurnOf(t, r) == on[t] = r /\ pc[t] \in TurnCounters

\* At most one task is in a turn of a run, whatever other tasks and commands
\* write over its status meanwhile.
OneTurn == \A r \in Runs, t, u \in Tasks : TurnOf(t, r) /\ TurnOf(u, r) => t = u

\* The published files hold exactly the edits of the published runs: nothing
\* of a failed or abandoned run leaks in, nothing published is reverted.
PublishedContent == remote.files = remote.commits

\* Whenever a batch waits to be started, the checkout can start it: clean
\* targets and nothing that the remote branch does not have.
QueuedIsStartable == Queued # {} => TargetsClean /\ local.commits \subseteq remote.commits

\* The recorded phase of a run never runs ahead of git: a recorded SHA names a
\* commit that exists, and a run recorded as pushed or completed is on the
\* remote branch unless it committed nothing.
PhaseIsTrue ==
    \A r \in Runs :
        hasSha[r] =>
            /\ r \in local.commits
            /\ gitPhase[r] \in {"pushed", "completed"} => r \in remote.commits

\* No step loses a commit: not a restore, a checkout, a push, or a crash between
\* any two of them (a commit whose push failed is kept for recovery, and
\* nothing somebody else published is pushed over).
CommitsAreKept ==
    [][local.commits \subseteq local'.commits /\ remote.commits \subseteq remote'.commits]_vars

\* Every task has returned.
Quiet == \A t \in Tasks : pc[t] \in {"idle", "reconcile", "claim"}

\* The run a retry would look at, or NoRun.
LatestRun == latestRun[currentBatch]

\* The phases of a run between its decision to commit and a recorded push.
Announced == {"commit_intent", "committed"}

\* A stopped cycle can go on as it is: the operator can retry its batch, or the
\* next reconciliation finishes the commit of its last run, whose push, if one
\* is still due, the remote branch would take.
MayGoOn ==
    \/ Retryable
    \/ LatestRun # NoRun /\ runStatus[LatestRun] = "failed" /\ Durable(LatestRun)

\* The remote branch has commits of others, and only of others, that the
\* checkout lacks: reconciliation repeats its push and is refused every time.
PushStaysRefused ==
    LET missing == remote.commits \ local.commits
    IN  missing # {} /\ missing \subseteq Outsiders

\* What strands a stopped cycle is the commit its last run announced
\* (commit_intent) or recorded (committed), so that retry-cycle takes the run
\* for one that may have published:
\*   - there is no such commit, and reconciliation has nothing to push; or
\*   - there is one and its run was abandoned: no reconciliation looks at it; or
\*   - there is one, and somebody else pushed before it was pushed.
\* A cycle whose run failed before it announced a commit, or whose commit can
\* still be pushed or has been, goes on, whatever crashed or failed on the way.
OnlyItsCommitStrands ==
    cycleStatus = "stopped" /\ Quiet /\ ~Active /\ ~MayGoOn =>
        /\ gitPhase[LatestRun] \in Announced
        /\ \/ LatestRun \notin local.commits
           \/ runStatus[LatestRun] = "abandoned"
           \/ runStatus[LatestRun] = "failed" /\ PushStaysRefused

-----------------------------------------------------------------------------
(* Fairness and liveness *)

\* Steps of a turn that do not wait for the model or the user.
CommitStep(t) ==
    \/ GitCommit(t) \/ RecordCommit(t) \/ GitPush(t) \/ RecordPush(t)
    \/ CompleteBatch(t) \/ CompleteRun(t) \/ FailAgain(t)

\* Synchronous code runs on unless it raises or its process dies.  The worker
\* loop keeps polling; a step it repeats after every restart or failure gets
\* through in the end (strong fairness).  Commands end.  Leases and backoffs
\* run out, and a send returns or raises.  Nothing is assumed of the model,
\* of the user or of the operator.
Fairness ==
    /\ \A t \in Web : WF_vars(CommitStep(t)) /\ WF_vars(MessagesSent(t) \/ SendFails(t))
    /\ WF_vars(ReconcileStep(Worker))
    /\ SF_vars(BeginPass(Worker)) /\ SF_vars(EndPass(Worker))
    /\ SF_vars(ReconcileBatch(Worker)) /\ SF_vars(ReconcileRun(Worker))
    /\ SF_vars(WorkerClaim)
    /\ \A r \in Runs :
          /\ SF_vars(ReconcilePush(Worker, r))
          /\ SF_vars(ReconcileInterrupt(Worker, r) \/ ReconcileSkip(Worker, r))
          /\ WF_vars(LeaseExpires(r)) /\ WF_vars(BackoffEnds(r))
    /\ WF_vars(ClaimLeaseExpires)
    /\ \A c \in Clis : WF_vars(ReconcileStep(c) \/ Retry(c))

FairSpec == Spec /\ Fairness

\* A commit that was made is pushed and its run completed, whatever crashes or
\* fails in its turn, unless the run is abandoned, and as long as nobody else
\* pushes to the branch and the reconciliations themselves do not keep failing.
CommitCompletes ==
    \A r \in Runs : r \in local.commits ~> runStatus[r] \in {"completed", "abandoned"}

\* A run whose process died does not block the queue for ever, under the same
\* conditions.
InterruptedRunEnds ==
    \A r \in Runs :
        runStatus[r] = "running_agent" /\ ~InProgress(r) ~> runStatus[r] # "running_agent"

-----------------------------------------------------------------------------
(* Refinement of BatchPipeline *)

Publisher ==
    [b \in Batches |->
        IF \E r \in Runs : DurableRun(r) /\ runBatch[r] = b
        THEN CHOOSE r \in Runs : DurableRun(r) /\ runBatch[r] = b
        ELSE NoRun]

Acknowledged == Cardinality({b \in Batches : successfulRun[b] # NoRun})

Pipeline == INSTANCE BatchPipeline WITH publisher <- Publisher, acknowledged <- Acknowledged

PipelineSafety == Pipeline!Init /\ [][Pipeline!Next]_(Pipeline!vars)
PipelineSpec == Pipeline!Spec
=============================================================================
