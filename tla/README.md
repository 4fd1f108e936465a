# Verification of opinions-agent

TLA+ models of `opinions-agent` (`src/src/opinions_agent`), the TLC runs that
check them and the theorems TLAPS proves about them.

The program turns a week's reading highlights into changes of `OPINIONS.md`.
Once a week it freezes the week's evidence into a *cycle* of ordered *batches*;
for each batch it starts a *run*, in which a language model proposes edits, asks
the user over Telegram and edits two files in a git checkout; the run's edits
are validated, committed and pushed, and the next batch starts. All of it must
survive crashes, restarts, repeated webhooks, failing pushes and an operator who
retries and abandons.

## Inventory

| component | state | operations | interacts with |
|---|---|---|---|
| cycle snapshot (`cycles.py`) | `opinion_cycles`, `opinion_batches`, `opinion_evidence_assignments`, bundle files, `snapshot.json`, lease `opinion-cycle-start` | `start_opinion_cycle`, `retry_stopped_snapshot`, `reconcile_starting_cycles` | Reader sync (await), worker (recovery), CLI |
| queue worker (`worker.py`) | lease `opinion-worker-claim`, `reconcile_after` | `process_queued_once`, `reconcile_startup` | runs, git, snapshot |
| run workflow (`workflow.py`) | `opinion_runs`, batch and cycle status, run leases | start, turn, complete, fail, abandon | agent (await), git, Telegram (await) |
| git durability (`recovery.py`, `repo_checkout.py`, `tools/git_ops.py`) | local branch, remote branch, working files, baselines | checkout, capture, commit, push, restore, reconcile | run workflow, worker |
| Telegram conversation (`workflow.py`, `telegram.py`) | `telegram_interactions` | send, record a response, resume | webhook handlers, run workflow |
| operator commands (`cli.py`) | none of their own; a process beside the web process | `retry-cycle`, `abandon-run`, `opinion-cycle`, `opinion-run` | all of the above |
| web application (`app.py`) | readiness flag | lifespan, webhook, cycle start | owns the event loop the tasks share |
| evidence partition (`cycles.py` 66-205) | none | `partition_evidence` | snapshot |
| Reader sync, corpus (`reader.py`, `corpus.py`, `fsio.py`) | JSONL corpus, `state.json` watermark | `sync_reader`, `normalize_rows`, upserts | snapshot, selection |
| artifact validation (`validation.py`, `opinions_doc.py`) | the two opinion files, `opinion-id-high-water.json` | `run_artifact_validation`, `update_opinion_id_high_water` | run workflow, recovery |
| manual runs and selection (`selection.py`) | a run's bundle | `start_opinion_run` | corpus, run workflow |
| agent harness (`agent.py`) | `candidate-opinions.jsonl`, the validated structure | file tools, `validate_candidates`, `validate_consolidation` | run workflow, the language model |
| evaluations (`evals/`) | scores, shared verdicts | scorers, `run_opinion_eval`, the summary | the judge, a language model |
| prompts, sample runs, configuration, tracing | — | — | — |

What is hard, and what makes a component correct:

* **Crashes between any two commits.** A run records commit intent, commit, push
  and completion as separate phases; git, the database and the files change one
  after another. Recovery must infer what happened. (No batch published twice, a
  completed batch is durable, a commit made is finished, the recorded phase is
  true of git.)
* **Awaits.** The web process runs the worker and all webhook handlers on one
  event loop; each keeps rows it loaded before its awaits, and `db.py` builds
  sessions that never expire what they loaded. CLI commands run beside them.
  (One turn of a run at a time, status transitions only along
  `VALID_TRANSITIONS`, an answer acts once, no resume on a part of the answers.)
* **Recovery that may overlap its victim.** Leases are taken for fixed times.
  (One snapshot build at a time, the bundle of an active cycle does not change.)
* **Files that outlive what wrote them.** The high-water file, a bundle's
  candidate file, a half-synced corpus and a dirty checkout are read by a later
  run, sync or turn. (An id is never reused, published evidence is the run's own,
  no decision rests on an earlier run's candidates, what the watermark covers
  is in the corpus and offered once.)
* **A model that may do anything at any point of a turn.** (No evidence ends in
  two proposals over what was validated, in whichever order it writes, validates
  and decides.)
* **Everybody waiting for somebody else.** Worker, reconciliation and operator
  each have guards that leave a case to the others. (A stopped cycle can go on
  unless its commit is missing, abandoned or refused; an interrupted run ends; a
  reserved cycle settles.)

`PROJECT.json` lists all components with what is and is not modelled, and every
hazard with its line and the properties that watch it.

## Modules

| module | models |
|---|---|
| `OpinionsRepo` | the checkout, its remote branch and the two files |
| `RunDurability` (extends it) | worker, reconciliation, turns, commit protocol, failures, retry, abandon |
| `BatchPipeline` | abstract specification of `RunDurability` |
| `TelegramTurn` | the conversation of one run |
| `CycleSnapshot` | how a cycle comes to be |
| `ReaderSync` | the sync of Readwise Reader into the corpus files, and what the corpus offers as evidence |
| `OpinionIds` | the two opinion files, their validation and the id high-water file, in cycle and manual runs |
| `EvidencePartition` | `partition_evidence`: batch count, legal boundaries, splits |
| `CandidateReview` | the candidate file of a batch and the two validation tools |
| `EvalScoring` | the concurrent scorers of an experiment and its summary |
| `RunDurability_proof`, `TelegramTurn_proof`, `CycleSnapshot_proof`, `ReaderSync_proof`, `OpinionIds_proof`, `CandidateReview_proof`, `EvalScoring_proof`, `EvidencePartition_proof` | theorems and proofs |
| `...MC` | instances for TLC |

`OpinionIds` looks at the same workflow as `RunDurability` along another axis: it
has the contents of the files, which `RunDurability` reduces to the name of a run,
and one process at a time, where `RunDurability` interleaves them all.

Definitions named *Variant* in a comment are plausible wrong versions of the
operator that follows them; nothing in the specifications uses them. They are
there to be put in that operator's place and show that the property notices.

### How code becomes actions

A task of the program (the worker, a webhook handler, a command, a start) has a
program counter `pc`. One action is the code between two points at which
somebody else can see or interrupt it: a database commit, an external effect
(git, Telegram, a file that recovery looks at), or an await. A crash may fall
between any two actions, never inside one: a database transaction is atomic, and
so is one git command or one atomic file write.

Tasks of the web process are interleaved at awaits only; the conjunct
`Undisturbed(t)` in each action's guard says so (`At(t, counter)`). Commands run
in another process; the fault `overlap` lets them interleave with the web
process everywhere. Without it a command runs between two steps of the event
loop, which is the common case and keeps the runs small.

What a task holds in memory over an await is a variable or follows from its
program counter: `on` (the run), `rowsHeld` (the worker still has the cycle and
batch rows it loaded when it created the run, and the ORM writes only
attributes that differ from what it loaded), `seenTurn` (the `turn_seq` a
handler loaded), `cycle` and `selected` (a start).

Faults are a constant, `Faults`; every fault kind names what may raise or die,
and which misfortune of timing may happen. A run states its faults, so it also
says under which faults a property holds; the list below the runs says which
additional fault breaks it.

### OpinionsRepo and RunDurability

A commit is named by the run that made it. History is linear here, so a branch
is a set of commits, its tip and its content: the set of runs whose edits it
includes. `CanPush` is git's fast-forward rule, `CanCheckout` and `Checkout` are
`ensure_opinions_repo`, `Commit` is `commit_and_push_opinions_files`.

`RunDurability` starts when the snapshot is done: cycle active, batch 1 queued.
Per turn: `ClaimBatch`/`ClaimPending`, `Setup`, `Launch`, `AgentEdits`, then
either `TurnAwaits`, `MessagesSent` and, by a handler, `ClaimAwaiting`; or
`TurnDone`, `GitCommit`, `RecordCommit`, `GitPush`, `RecordPush`,
`CompleteBatch`, `CompleteRun`, one per durable phase of `_complete_done_run`.
Failures follow the handlers: `FailRun` is `_fail_run`, `CompletionFails` the
inner handler of `_complete_done_run`, `FailAgain` the outer one that calls
`_fail_run` a second time. `ReconcilePush` to `ReconcileFinishFails` are the
branches of `reconcile_startup`, which the worker and `retry-cycle` share.

`BatchPipeline` says what all that machinery is for: batches are published one
after another, each by one run, and acknowledged before the next. The
refinement maps `publisher` to the run that is durable for a batch and
`acknowledged` to the number of batches with a successful run.

### TelegramTurn

One run, up to `Turns` turns. `Intend`, `Show`, `RecordSent` are the three
moments of sending one message (row committed, user sees it, message id
stored). `RecordResponse` is a callback or reply up to the commit of the
response; the handler then awaits two Telegram calls (`acking`) and either
resumes the agent (`ResumeByResponse`) or returns. An update is delivered until
it is answered, also concurrently. `heard` and `resumedBy` are history
variables: which responses were put into a prompt, and which update resumed
each turn.

### CycleSnapshot

`StartLease`, `Reserve`, `Select`, `WriteSome`, `WriteMarker`, `Materialize`,
`Activate` follow `start_opinion_cycle`; `RetrySnapshot` enters the same path at
the sync. `WriteSome` leaves any part of the bundle on disk, over what an earlier
attempt left. `Promote` and `Discard` are `reconcile_starting_cycles`. The
corpus grows at any time (`Arrive`): another sync may be running. An evidence
version stands for an evidence id with a content fingerprint; the batches of a
cycle are the set of their evidence.

### ReaderSync

A version of an item is the time of its last change, so `documents`, `evidence`
and `content` hold the versions the files were made from. An evidence row has
three: of the highlight or note, of the document whose title, author, summary and
link are copied into the row, and of the highlight's note. `Normalized` is
`normalize_rows`: what a batch (`got`) makes of the stored rows. The files are
replaced one after another (`UpsertDocuments`, `UpsertHighlights`, `WriteFiles`,
`Save`), each atomically (`fsio.py`), and a sync may die between any two. Reader
itself is external: `Change` is what its user does, `ListPage` shows items as
they are when the page is made, any of them and in any order. `shifted` remembers
what changed while a listing was in progress, since a listing over a cursor may
miss that; the properties speak of the other items.

Which evidence the corpus offers (`CorpusEvidence`, from `selection.py`) is a
function of the files: its rows, and a document that stands for itself by its
summary as long as no row names it.

### OpinionIds

A document is its bullets with their inline sources and its source rows; text is
left out, since validation compares ids, sources and metadata. `Valid` is
`run_artifact_validation`, one operator per group of checks (`WellFormed`,
`IdsFresh`, `RowsEvidenced`, `Covered`). A branch is the sequence of its
versions, so that the properties can ask what an id meant before. The agent is
any sequence of single edits (`Edit`), or `DeterministicOpinionAgent`. `Done`,
`Commit`, `Push`, `Complete` are the phases of `_complete_done_run` with a crash
before each of them is recorded; the high-water file is written between the push
and the completion and is restored together with the documents by
`archive_and_restore_run` (`Restore`). `ReconcileDurable` validates the files
again, against the HEAD that the run has itself committed, because
`complete_reconciled_run` does.

### CandidateReview

The structure that the first `validate_candidates` saw is kept in a closure of
the tool, so it lasts one turn; the file lasts longer, and the first turn of a
run removes it (`FileAtStart`). A decision on one candidate (`ValidateConsolidation`)
is checked against the file as it is at that moment, not against that structure:
the file may have been rewritten since, or never validated. `Comparable` says
between which decisions a property can hold nevertheless.

### EvidencePartition

`partition_evidence` with its loop as a state machine: `Found`, `Split` and
`NextCount` are the three ways an iteration ends. `LegalCuts` is the recursive
search of `_best_boundaries` as a set, `Rank` the tuple it minimises. The
properties compare the outcome with reference definitions over single rows and
whole documents.

### EvalScoring

One action is what a scorer does between two awaits. `Ask`, `Conclude`,
`JudgeAttempt` and `JudgePair` are the shared evaluation: the first scorer starts
it, the others wait for it. It goes through the targets of a week by their places
(`Remaining`, `Current`), since two targets may be equal, and has a verdict per
place. Scores are fractions; `Rounded` is the `round` by
which the summary recovers the number of targets.

## Runs

Deadlock is checked in the runs of `RunDurability`, whose worker polls for ever,
and of `EvidencePartition`, which ends in a state that steps to itself. It is not
where the system may stop: a run's conversation ends (`TelegramTurn`), the weeks
and runs of an instance are used up (`CycleSnapshot`, `OpinionIds`,
`CandidateReview`), an experiment is scored (`EvalScoring`), and nothing forces a
next sync (`ReaderSync`).

| run | faults and bounds | shows |
|---|---|---|
| `RunDurability_safety` | crash, commit, push, finish, abandon; 3 runs, 2 batches, 1 handler, 1 command, 1 outside commit | one active run; a completed batch is durable and published once; published content is exactly the published runs' edits; queued batches can start; no commit is lost; a stopped cycle is stranded only by a commit that is missing, abandoned or refused; refinement of `BatchPipeline` |
| `RunDurability_allFaults` | all faults; 1 run, 1 batch, 2 handlers, 1 command | the recorded phase is true of git, one turn of a run at a time |
| `RunDurability_live` | crash, turn, commit, push, finish; nobody else pushes and reconciliations succeed; fair; 2 runs, 2 batches | commits complete, interrupted runs end, liveness of `BatchPipeline` |
| `TelegramTurn_crash` | crash, agent, send, mixed; texts, no GO or SKIP; 2 turns of 2 messages, 3 updates, 2 handlers | one turn at a time, no update acts twice, every recorded response of the turn is in the prompt |
| `TelegramTurn_live` | agent, send; texts and GO; fair; 2 updates | waits with all messages sent, resumes when complete, and does resume |
| `CycleSnapshot_recovery` | crash, sync, write, move, overlap; fair; 2 weeks, 4 versions, 2 builds | the safety properties of the snapshot, and a reserved cycle settles |
| `CycleSnapshot_slow` | slowSync, overlap; 2 weeks, 2 versions, 2 builds | the unique constraints hold the line when the lease does not |
| `ReaderSync_catchUp` | crash; fair; a document with a summary, a highlight, a note on each; 4 changes | what the watermark covers is in the corpus and offered as evidence exactly once, nothing stored is taken back, the corpus catches up |
| `OpinionIds_publish` | crash, turn, finish, abandon; a cycle run and a manual run, 3 ids, 2 edits a turn, 1 push by the owner | ids are never reused, what is published is evidenced by its run, the mark is earned by commits, only a manual run leaves dirty files |
| `CandidateReview_turns` | 2 attempts of 2 turns, 2 candidates, 7 files of at most 2 rows, 2 decisions a turn | no evidence ends in two proposals over what a turn has had confirmed, the tools accept only what the run itself wrote |
| `EvidencePartition_small` | all orders of up to 6 rows, grouped rows up to 10; 2 documents, 5 rows a batch | the smallest legal partition is found, with every row once, and documents are split only when they must be |
| `EvalScoring_week` | failing judge; 2 weeks, 3 targets, up to 3 proposals, one week at a time | the scores of a week agree, the summary counts the targets that were judged |

Why the bounds are enough: two batches give a batch with and one without a
successor; three runs give a first attempt, a retry and a run of the next batch;
two runs suffice where one batch is retried. One worker, one command and one
handler are the three kinds of actor, two handlers race for one run. Two turns
of two messages give a current and a stale turn and partial answers; the third
update lets one arrive late. Two weeks order, three kinds of evidence (before,
inside and after the window), two builds overlap. Four changes create all items
or create some and change them again, in every order and at any step of a sync. Two runs
of `OpinionIds` suffice because an id is reused or evidence leaks from one run
into the next; three ids are the two published at first and one to give out, and
the owner's push takes one away or adds one. Its two edits a turn add a bullet
and its row, or retire an opinion. Two rows over two candidates are the least in
which evidence can be shared, moved and left. Six rows in any order and ten in
groups reach two to five batches, both limits and splits of splits; the limits
(20 documents and 50 rows in the code) are parameters, and small ones are reached by
fewer rows. Three targets over two weeks give a week with both kinds, a week
without targets to add, and averages that need rounding; weeks share no state,
so one at a time (the code allows three) loses only symmetric interleavings.
Identifiers of runs, updates and builds are interchangeable and symmetric, but
not in the runs under fairness.

### Where the code and its documents differ

Met while modelling, and reproducible by changing a configuration as said:

* A `git commit` that raises leaves the run at `commit_intent` without a commit:
  the cycle stops and `retry-cycle` refuses it for ever. `src/README.md:230` says
  to run `retry-cycle` when validation, commit or push fails.
  (`OnlyItsCommitStrands` names this case; without it the property fails in
  `RunDurability_safety`.)
* So does a push that is refused because somebody else pushed to the branch
  between the run's checkout and its push: the run ends `failed` at `committed`, with
  a commit. Every push of a reconciliation is refused as well
  (`recovery.py:158`; only `reconcile_after` is set), `retry-cycle` refuses the
  phase (`cycles.py:583`) and `abandon-run` refuses it too (`workflow.py:1252`). The
  cycle is stranded until somebody repairs the checkout by hand.
  `docs/behavior.md:198` (GIT-5) speaks of manual recovery, `src/README.md:230` of
  `retry-cycle`. (`OnlyItsCommitStrands` names it as `PushStaysRefused`; without it
  the property fails in `RunDurability_safety`.)
* The second `_fail_run` (`workflow.py:936`) stops a cycle whose batch a
  reconciliation has completed while the notice about the first was being sent; a
  retry then publishes that batch again. `docs/behavior.md:204` (GIT-11) excludes
  it. (`PublishedOnce`, in `RunDurability_safety` with faults push, slowNotice, or
  finish, slowNotice. Without `slowNotice` the model lets no other task of the
  process run during the notice.)
* A reconciliation that has completed a batch (the commit inside
  `_complete_cycle_batch`) and dies before it has completed the run leaves a
  `failed` run to be reconciled again. If that fails once (a fetch raises:
  `reconcile_after`), the worker goes on with the next batch; after the backoff
  the run is completed, and `workflow.py:1233` queues the next batch again,
  although it may be published by then. GIT-11 excludes this too.
  (`PublishedOnce`, also `QueuedIsStartable`, in `RunDurability_safety` with
  faults crash, finish, reconcile; `PublishedOnce` with crash, push, reconcile too.)
* `docs/behavior.md:57` (RUN-7D) and `src/README.md:51` say that the candidate file
  is frozen after validation. Only `validate_candidates` compares it, and only
  within a turn; `validate_consolidation` loads the file again (`agent.py:323`) and
  accepts a decision on one that was rewritten and not validated, so that two
  decisions of a turn may give the same evidence to two proposals. The freeze is
  left to the prompt. (`EvidenceMovesOnce` without `Comparable`, in
  `CandidateReview_turns`.)
* A batch that brings a changed document and a note for a stored highlight of it
  leaves the old title, author, summary and link on the highlight: the loop at
  `reader.py:250` skips every row the note loop has put in, although its comment
  promises the refresh for existing highlights of re-synced documents.
* A highlight that arrives in a later batch than its `backfill` document becomes
  evidence (`reader.py:235` finds no stored parent), although CORPUS-11
  (`docs/behavior.md:36`) excludes it. `ReflectedUpToWatermark` and
  `RepresentedOnce` leave backfill open.
* `src/README.md:85`: ids are never reused after retirement. A reconciled run is
  validated against the HEAD it has itself committed, so the highest id, if that
  run retired it, is known only from the high-water file. Before the first
  completed run writes that file, a crash between push and file loses the id.
  (`OpinionIds_publish` with `FirstHighWater = 0` and without the antecedent of
  `IdsAreNeverReused`; fresh production starts with a mark, `src/README.md`.)

Some properties hold for less than all faults. The faults that break them are
left out of their runs and listed here, because each is a behaviour of the code
a reader should know:

* With `abandonLive` the end of a turn overwrites `abandoned`, and with
  `staleSend` a failing sender marks a run failed that another handler has taken
  over: transitions `VALID_TRANSITIONS` does not have, which the code does not
  check.
* `PublishedOnce` fails with `reconcile`, see above, and with three runs with each
  of `kill`, `overlap`, `slowNotice`, `staleSend` and `abandonLive`;
  `QueuedIsStartable` fails with `reconcile`, `kill`, `slowNotice` and `overlap`:
  after each the worker may queue or take up a batch while the completion of the
  run before it is still owed. It fails with `abandonTerminal` too, like
  `PublishedContent`: an ended run's old baseline is restored over the files, and
  the next commit takes them. `PublishedOnce` and `OnlyItsCommitStrands` hold with
  it.
* `CommitCompletes` and `InterruptedRunEnds` fail with an outside commit between the
  checkout and the push: every reconciliation's push is refused, and a run whose
  process died stays `running_agent`. Both are checked without an outsider.
* `ResumesWhenComplete` fails with `mixed` (a reply to a message that asks for
  nothing resumes the agent before the question is sent), with `outrun` (a slow
  handler judges the new turn with the old turn's number) and with `crash`
  (messages that were never sent are not waited for).
* `WaitsWithAllSent` fails with `crash`: `awaiting_user` is committed before the
  messages are sent.
* `CompleteResumes` fails with `crash`: a process that dies between the last
  response and the claim leaves a run that nothing resumes.
* `WeeksInOrder`, `SnapshotAgrees`, `SnapshotIsFrozen` and
  `StoppedSnapshotIsRetryable` fail with `slowSync`: the later of two builds
  writes over the bundle of an active cycle, completes the cycle whose batches are
  queued, or stops it for good. `EvidenceTakenOnce` holds even then.
* `NothingIsTakenBack` and `ReflectedUpToWatermark` fail with two syncs at a
  time (the command `sync` beside the weekly one): the slower one writes back
  the files it read.
* A stopped cycle can be retried, or is completed by the next reconciliation,
  except after a failing or empty commit, after an abandon between the commit and
  its record, and after a commit that the remote branch refuses;
  `OnlyItsCommitStrands` says that nothing else strands it.
* `HighWaterIsEarned` and `IdsAreNeverReused` fail with `early` (a manual start
  between the push and the completion of a run that failed), and the latter also
  with `abandonPushed` (`abandon-run` on a manual run that has pushed: the guard at
  `workflow.py:1252` is for cycle runs only). `PublishedIsEvidenced` and
  `LeftoversAreManual` hold with both.

### Fairness

* `RunDurability`: code between awaits runs on, commands end, leases and
  backoffs run out (weak fairness). The worker polls every two seconds for ever,
  and what it repeats after every failure or restart gets through in the end
  (strong fairness): pushes do not fail for ever, the process does not die for
  ever just before the same step. The weak fairness of the whole
  `ReconcileStep` says that a pass goes on even when its git calls keep failing.
  Nothing is assumed of the model, the user or the operator.
* `TelegramTurn`: code between awaits runs on; a handler's two calls return,
  because the HTTP client has a timeout. Nothing of the agent or the user.
* `CycleSnapshot`: a build's next step is taken (a sync returns or raises),
  leases run out, and the worker's recovery finds the lease free again and again
  (strong fairness).
* `ReaderSync`: syncs start again and again, and do not die at the same step for
  ever (strong fairness of each step, and of a listing's last page). Nothing of
  the user, who may also stop changing things.

## Proofs

The theorems hold for every value of the constants that satisfies the modules'
assumptions: any number of batches, runs, handlers, commands, messages, updates,
weeks, evidence versions, builds and items, and, unless a theorem says
otherwise, every set of faults.

`RunDurability_proof` and `TelegramTurn_proof`, the basics:

* `TypeCorrect` (both). The invariant is `Typing`: types, and that a task in the
  middle of a run's code holds that run. `CompleteCycleBatch` is well-typed only
  because of its `HasNext` guard, and a sender stays within its turn's messages
  (`SendsMessage`).
* `PhasesAreTrue`: `Spec => []PhaseIsTrue`. Not inductive, because whether a
  recorded `pushed` is true depends on what tasks are about to record. `PhaseInv`
  adds three parts. `GitInv`: the tip of a branch is one of its commits, and
  commits of runs reach the remote branch through the checkout. `TurnInv`: at
  most one task is in a turn of a run, and the run's status then excludes every
  claim. `PushInv`: behind its push a turn's commit is on the remote branch
  (`TurnHasPushed`), likewise for a reconciliation (`ReconcilerHasPushed`), and a
  run recorded as pushed without a commit there never gets one
  (`NothingIsFinal`). Each is proved to be kept with one step per action
  (`GitNext`, `TurnNext`, `PushNext`).
* `TurnsExcludeEachOther` (both): from `TurnInv`.
* `OneRunIsActive` assumes `NoUsurping` (no `abandonLive`, no `staleSend`). The
  guard that no run is active is only evaluated where a run is created, so the
  proof must show that nothing else makes a second one active. `EarlyInv` says
  that a run that can be claimed has announced no commit and that a turn before
  its commit finds the phase `agent_editing`; `ActiveInv` adds that the run of such
  a turn is the active one, so that the turn's own writes of `running_agent` and
  `awaiting_user` are no second one.
* `CompletedStaysDurable` assumes `NoOverlap`. `DoneInv` has four parts: at most
  one task is between two awaits (`OneBusy`); only the end of a turn is left of a
  run recorded as pushed (`FinalTurn`), so no claim or turn sets its phase back; that
  end begins only then (`PushedIsFinal`); and a completed batch names such a run
  (`DoneByRun`). With `PhasesAreTrue` its commit is on the remote branch. With an
  overlapping command a reconciliation completes a batch between two steps of the
  turn that then records `committed` over it.
* `CommitsStay`: `Spec => CommitsAreKept`, an action property, from `GitInv`
  and the guards of checkout and push: each replaces a branch by one that
  includes it.
* `UpdatesActOnce`: an update that resumed the agent is stored, and one a
  handler still works on has not resumed anything (`ActedIsStored`,
  `WaitingIsUnused`).

Publication, the second half of `RunDurability_proof`. `BatchesArePublishedOnce`,
`ContentIsPublished`, `QueueIsStartable`, `CyclesGoOn` and the refinement
`PipelineIsFollowed` assume `Orderly`: crashes of the web process, failures of
turns, commits, pushes and completions, runs abandoned while they wait or after
they ended. TLC finds that every other fault breaks `PublishedOnce` (the list
above), so with one more fault the first of the five is false. `CyclesGoOn` says what
strands a stopped cycle, not that nothing does: its commit is in the checkout
(`FoundIsTaken`: then reconciliation takes the run on) and cannot be pushed, and
then what the checkout lacks is somebody else's (`RunsAreLocal`); or it was
abandoned; or there is none. `ContentIsPublished`
and `QueueIsStartable` speak of files and also assume `FilesAreLeft`, that nobody
abandons a run that has ended. What the five need of each other is one invariant,
`PublicationInv`, which relates all the places where the program remembers what
happened to a batch:

* `Rows`, the rows of the database among themselves. Batches before the current
  one are completed and those after it untouched (`CycleRows`); a run that is not
  the latest of its batch ended before it announced a commit (`LatestRows`), which
  is what makes a second publication impossible; a run in a non-terminal status
  has its batch being worked on (`ActiveAt`), one that ended with a commit to
  recover holds the cycle up (`OwedAt`), and one whose batch is completed and
  which is not itself, `Dangling`, has left the next batch queued and untouched.
* `TaskInv` and `BatchTurn`, what a task knows of its run at each step.
* `SeenInv`: the worker sees a dangling run that failed before it takes the next
  batch, because it reconciles first in each iteration. This is the part that a
  reconciliation that fails, or stops half way, takes away.
* `CommitInv`: what the phase and the SHA of a run say of its commit
  (`CommitRows`), and what the remote branch lacks is announced by its run
  (`AheadInv`).
* `TreeInv`, for the two theorems about files, on top of the rest: files are
  commits (`FilesAreCommits`), the baseline that a failure restores is that of HEAD
  (`BaseInv`), and the working tree differs from HEAD by the edits of the active run
  only (`DirtyInv`), except after a run was abandoned between its commit and its
  record (`Stuck`), which holds the queue up anyway.

The refinement goes step by step (`PipelineStep`, a case per action). `Publisher`
is well defined because a batch is published once (`PublisherKnown`); a step that
makes no run durable and completes no batch stutters (`SameWork`), one that makes
a run durable publishes the batch after the acknowledged ones (`NewWork`,
`AcknowledgedIs`), and one that enters a successful run acknowledges it
(`NewSuccess`).

Messages and answers, the second half of `TelegramTurn_proof`:

* `SendersInOrder`, for every fault: a turn has one sender, what lies behind it is
  sent and what lies before it has no row (`SenderInv`), and the user answers what
  was sent.
* `WaitsWithEverythingSent` assumes no `crash`. A failed send fails the run, so a
  run that awaits the user has a sender that goes on or has none left to send
  (`WaitInv`).
* `AnswersReachTheAgent` assumes no `outrun` and no GO. The prompt is made from the
  rows of the turn the handler has seen; `HandlerInv` says that this is still the
  last turn when its two calls return. GO and SKIP pass no answers on by design.
* `ResumesAreComplete` assumes no `crash`, `mixed` or `outrun`, each of which breaks
  it (see above). A handler looks at the rows there are, and later messages of the
  turn have none yet. A turn asks with all its messages or with none (`AsksInv`), so
  while it is being sent the message at the sender has a row and no answer
  (`AnsweredInv`), and the handler waits.

`CycleSnapshot_proof`:

* `EvidenceIsTakenOnce` needs nothing but types and the unique constraints
  (`Conflict`): it is inductive by itself, and holds with `slowSync`.
* `WeeksAreInOrder`, `SnapshotsAgree`, `StoppedIsRetryable` and
  `SnapshotsAreFrozen` assume `NoSlowSync`. None is inductive: whether the rows
  and files of a cycle agree when it becomes active depends on what its builder
  has in memory. `SnapshotInv` adds `LeaseHeld`, whoever is not idle owns the
  live lease, which makes builders exclude each other and recovery;
  `BuildIsSound`, what the builder has written of its cycle at each step and that
  the cycle is still `starting`; and `CycleIsSound`, what each status says of rows
  and bundle. A cycle without evidence is completed before its directory is
  moved, and a failing move stops it again: the order of the weeks survives this
  only because nothing after it has begun, which is a part of `BuildIsSound`.

`ReaderSync_proof`:

* `TypeCorrect`, for any number of syncs at a time.
* `NothingTakenBack` assumes `OneSync`. A step replaces rows by what the sync has
  in memory, so the invariant `AheadInv` bounds that from both sides: Reader is
  ahead of the corpus (`CorpusPast`), what was listed is ahead of the watermark and
  of the files (`BatchAhead`, `ListingAhead`), and the rows of the export are no
  older than those they will replace (`ExportAhead`). `ExportRows` goes through
  the four ways in which `normalize_rows` makes a row; a note needs that Reader has
  one note per highlight (`ReaderAssumption`).
* `ReadIsReflected`, also for `OneSync`: `Spec => []ReflectedUpToWatermark`. Not inductive: what the
  next watermark will say is only in the memory of the sync. `ReflectInv` adds
  `ListingInv`, what did not change during the listing was shown as it is;
  `StageInv`, what was shown and is no newer than the watermark to be saved has
  reached as many of the three files as the sync has written; and `OthersKept`, the
  export leaves rows and notes that were not listed. Nothing under the old
  watermark is ever listed (`ListedIsNew`), so a step cannot disturb what was
  reflected before (`StillReflected`). The heart is `ExportHolds`: a highlight and a
  note on a document need their document, a note on a highlight needs the
  highlight, and each is in the batch or, being older, already in the corpus.
* `ReadIsRepresented`: `RepresentedOnce` follows from the same invariant.

`OpinionIds_proof`:

* `PublishedSourcesAreEvidence` holds with every fault. What is about to be
  committed has been validated against the HEAD it is put on (`TreeChecked`), and
  every published version comes out of a commit of the checkout (`EvidenceInv`).
* `OnlyManualRunsLeaveFiles` holds with every fault. At most one run is live, that
  is in progress or with a commit that can never be pushed (`OneLive`); where the
  commit of a run can be, by status (`CommitsOf`: a failed run whose commit is not
  pushed has left the remote branch behind for good, so nothing starts on top of
  it); and the files of a run in progress that has committed are those of HEAD and
  valid (`HasCommitted`, `FilesSettled`). This is `RunsInv`, which every fault
  keeps. `LeftoverInv` rests on it: what a run restores is HEAD until it commits,
  and what it leaves after its commit is HEAD. The exception for manual runs has to
  be those that have not pushed (`Left`), since one that has is completed later.
* `MarkIsEarned` assumes that nobody starts while the completion of another run is
  owed (no `early`) and that the first mark is that of a first opinion. A run whose
  completion failed after the push is no longer live, and its reconciliation takes
  the mark from whatever is in the checkout: with `early` these are the unfinished
  edits of the next run. `OwedInv` says that otherwise it is the only run and its
  files are as it left them, so that the reconciliation accepts them
  (`ReconcileSettled`) and the mark it writes is that of committed ids (`EarnedInv`).
* `IdsStayApart` assumes `IdsAreKept`, that moreover no run is abandoned after its
  push: its mark would never be written, and the next run could give its ids away.
  The property itself speaks of a high-water file that covers the first ids. The
  file is written after the push, so between the two it does not cover what is
  published, and a restore may even lower it. `IdsInv` says why no other run can
  notice: what a run that has committed publishes is within the ids of HEAD and the
  file (`SettledInv`), and the file covers every published id unless a run is about
  to be completed (`HighWaterInv`).
* Neither assumption can be dropped: TLC finds `IdsAreNeverReused` violated with
  either fault added to `OpinionIds_publish`, and `HighWaterIsEarned` with `early`.

`CandidateReview_proof`, for any set of files the agent may write:

* `EvidenceIsMovedOnce`: every decision divides the evidence of one row of the file
  it was validated against, and that file was well formed (`DecisionInv`). The tool
  looks at one candidate only; that the rows of one file share no evidence does the
  rest. All structures confirmed in a turn are the one the tool holds
  (`ConfirmedInv`), so decisions on confirmed files are decisions on one.
* `RunDecidesOnOwnFile`: a file that a turn of this run sees was written by this
  run, since its first turn removes what was there (`OwnFile`).

`EvalScoring_proof`, for any weeks, targets, outputs and answers of the judge:

* `ScoresOfAWeekAgree`. A score is recorded long after the verdicts it counts;
  `ScoreInv` says that it is still the grade of the verdicts in its evaluation,
  because an evaluation that is done or has failed does not change
  (`EvaluationInv`, `StatusKeeps`). Each verdict is about the target at its place
  and what is linked to that target (`VerdictInv`). What is left is counting: the
  grades that are compared are sizes of subsets of one finite set of places.
* `SummaryIsOfTargets`: `Rounded` recovers the numerator of a fraction over the
  number of targets exactly (`RoundedIs`), and two sums are equal because the
  functions that are summed are. No property of the fold is needed.

`EvidencePartition_proof`, for any rows (one at least), any documents in any
order, and any limits of at least two (the code's are 20 and 50, `cycles.py:38`;
with a limit of one, one row would have a first count of two, which no partition
of one row has):

* `SearchIsComplete`: `PartInv` is inductive. At each step the segments are
  `Complete`, none is empty and together they are the rows in the order of their
  documents, whatever was split; the count is between the first one and the
  number of rows; each smaller count has no legal boundaries even between single
  rows; if something was split, this count has none between whole documents; and
  a result is `BestBoundaries` of segments that have legal ones.
* The upper bound on the count is why the search never ends without a partition,
  so its `ValueError` (`cycles.py:116`) is dead code: a count of one is legal whenever
  it is tried (`LegalAtOne`), one row per batch always is (`LegalAtTotal`), and
  segments that are fewer than the rows have one that can be cut
  (`CompleteIs`, `NearestCutIs`).
* `PartitionsAreLegal` follows: batches of a cut are together the pieces that were
  cut (`BatchesFlatten`), so they have every row once, and the least count comes
  from what the invariant says of the smaller ones. `DocumentsStayWhole` follows
  since boundaries between unsplit segments part no document.
* The operators are recursive or counting: concatenation (`FlattenSeq`), the
  ascending order of a set (`Ascending`), the least of a set of tuples (`Least`).
  The induction theorems of the library cannot be used, so what these compute is
  proved from induction over a set: of numbers (`UpTo`), of the sequences closed
  under `Append` (`Appending`), of the finite sets that have a least element
  (`LeastExists`).

Only model-checked: all liveness, that of `BatchPipeline` included, and
`CompleteResumes`; liveness and ENABLED are out of the prover's reach. Every
safety invariant and every action property of the runs has a theorem.

## Not modelled

* `opinion-run` beside the worker: `OpinionIds` has manual runs, but one process at
  a time. `find_active_run` is looked at before the run is inserted, without a
  lock, so two processes can both start; `opinion-run` also pulls (`cli.py:350`)
  before that check.
* Notices about failed and started runs, except that sending one awaits. A crash
  between the commit of a failure and its notice loses the notice; a failed send
  leaves the row at `sending`, and the next attempt only marks it `uncertain`;
  `retry-cycle` throws away the list of stopped cycles that `reconcile_startup`
  returns, so nobody is told of them.
* Failing database commits and a full disk; `archive_and_restore_run` succeeds,
  although the code logs and swallows its failure (`workflow.py:1159`).
* Some reads of rows that a session loaded earlier. `reconcile_startup` works from the
  rows of the start of its pass (`worker.py:56`), `ReconcileInterrupt` from the
  present ones; `_fail_run` tests the status its session holds (`workflow.py:1161`),
  `FailRun` of `TelegramTurn` the present one. The notice about a failed run is an
  await only with `slowNotice`.
* In `reconcile_starting_cycles` the test of the lease, the query and the discard
  are one action (`cycles.py:481`, `cycles.py:539`).
* The distances `_split_near_global_boundary` compares are floats; `NearestCut`
  compares them exactly. No property depends on how a tie is broken.
* The decision log, restored with the opinion files but not committed.
* Texts: of opinions, messages, highlights, prompts and judges; parsing and
  formatting of files; HTML.
* PostgreSQL's row locks: a duplicate update is refused at once.
* Shutdown: the worker finishes its iteration. A crash is the harder case.
* The guards of `retry_stopped_snapshot` and its lease are one action.
* In Reader: two items that change at the same moment, a document that is tagged
  or untagged `backfill` after it was saved, deletions. A note that is emptied
  keeps its old text in the corpus. `raw/` is written and never read.
* GO and SKIP resume the agent without the responses recorded so far, and a button
  of an earlier turn's message can be pressed while a later turn waits: both are
  behaviours of `TelegramTurn`, but no property speaks of them.
* In evaluations: version 1, the smoke test, datasets, `candidate_grouping` and
  `opinion_brevity`, which ask nobody, and outputs without a candidate snapshot, which
  are scored `None` (`scorers.py:189`, `scorers.py:227`). Two targets may share a source, although
  `verify_week_partition`'s docstring says "exactly once" (`targets.py:80`): only
  the union is compared.
* Sample runs, configuration, tracing, redaction, the critic and session files of
  the agent: no state that another component relies on.

## Plan

Left, in the order of what it would add:

1. `IdempotentSend`: notices with their sending, uncertain and sent states.
2. `opinion-run` beside the worker, and a composition of `CycleSnapshot` and
   `RunDurability` over several weeks.
