------------------------------ MODULE OpinionIds ------------------------------
(***************************************************************************)
(* What a run may publish (validation.py, opinions_doc.py): the agent's    *)
(* edits of OPINIONS.md and OPINIONS_SOURCES.jsonl, their validation       *)
(* against HEAD, the evidence of the run and the opinion-id high-water     *)
(* file, and the life of that file through failure, restore, crash and     *)
(* reconciliation (workflow.py, recovery.py).  Cycle runs and manual runs  *)
(* differ in how they are cleaned up.                                      *)
(*                                                                         *)
(* History is linear, so a branch is the sequence of its versions, each    *)
(* with the run that committed it or Owner for somebody else.  A run that  *)
(* waits for the user is left out, nothing of this changes while it waits; *)
(* so is a start that is refused.  RunDurability has the interleavings of  *)
(* the processes, one works here at a time.                                *)
(***************************************************************************)
EXTENDS Naturals, Sequences, FiniteSetsExt, SequencesExt

CONSTANTS
    Runs, Manual,  \* the runs, and those of them started by `opinion-run`
    Owner, Idle,   \* somebody who pushes to the repository; no run in progress
    Selected,      \* selected-highlights.jsonl: the evidence of a run
    FirstDoc, FirstHighWater,  \* the files before the first run; 0 without the third
    MaxId, MaxEdits, MaxOutside,  \* bounds on ids, edits of a turn, outside pushes
    Faults         \* subset of FaultKinds

FaultKinds == {"crash", "turn", "finish", "early", "abandon", "abandonPushed"}

Evidence == UNION {Selected[r] : r \in Runs} \cup {row.evidence : row \in FirstDoc.rows}
Ids == 1..MaxId

\* A bullet of OPINIONS.md with its inline sources; a row of OPINIONS_SOURCES.jsonl,
\* exact when its document and text are those of the evidence.
Bullet == [id : Ids, sources : SUBSET Evidence]
Row == [id : Ids, evidence : Evidence, exact : BOOLEAN]
Doc == [bullets : SUBSET Bullet, rows : SUBSET Row]
Version == [by : Runs \cup {Owner}, doc : Doc]

ASSUME OpinionIdsAssumption ==
    /\ Manual \subseteq Runs /\ Owner \notin Runs /\ Idle \notin Runs
    /\ {MaxId, MaxEdits, MaxOutside} \subseteq Nat /\ Faults \subseteq FaultKinds
    /\ FirstDoc \in Doc /\ FirstHighWater \in 0..MaxId

VARIABLES
    local, remote,  \* the checked-out branch, the remote branch
    tree,           \* the two files in the working tree
    highWater,      \* opinion-id-high-water.json
    status, phase,  \* OpinionRun.status and git_phase
    base,           \* recovery/<run>/baseline, as [doc, highWater]
    mark,           \* ArtifactValidationResult.high_water_mark, in memory
    busy,           \* the run a process is working on
    edits           \* edits of the turn in progress

files == <<local, remote, tree, highWater>>
vars == <<files, status, phase, base, mark, busy, edits>>

Statuses == {"new", "running_agent", "failed", "completed", "abandoned"}
Phases == {"none", "agent_editing", "commit_intent", "committed", "pushed", "completed"}

TypeOK ==
    /\ local \in Seq(Version) \ {<<>>} /\ remote \in Seq(Version) \ {<<>>}
    /\ tree \in Doc /\ highWater \in 0..MaxId
    /\ status \in [Runs -> Statuses] /\ phase \in [Runs -> Phases]
    /\ base \in [Runs -> [doc : Doc, highWater : 0..MaxId]]
    /\ mark \in 0..MaxId /\ busy \in Runs \cup {Idle} /\ edits \in 0..MaxEdits

Init ==
    /\ local = <<[by |-> Owner, doc |-> FirstDoc]>>
    /\ remote = local /\ tree = FirstDoc /\ highWater = FirstHighWater
    /\ status = [r \in Runs |-> "new"] /\ phase = [r \in Runs |-> "none"]
    /\ base = [r \in Runs |-> [doc |-> FirstDoc, highWater |-> 0]]
    /\ mark = 0 /\ busy = Idle /\ edits = 0

-----------------------------------------------------------------------------
(* Validation *)

IdsOf(doc) == {bullet.id : bullet \in doc.bullets}
PairsOf(doc) == {<<row.id, row.evidence>> : row \in doc.rows}

Highest(numbers) == Max(numbers \cup {0})
NextOpinionId(doc) == Highest(IdsOf(doc)) + 1

\* parse_opinions and validate_opinions_files.
WellFormed(doc) ==
    /\ \A b, c \in doc.bullets : b.id = c.id => b = c
    /\ \A v, w \in doc.rows : v.id = w.id /\ v.evidence = w.evidence => v = w
    /\ \A row \in doc.rows : row.id \in IdsOf(doc)

\* _validate_source_coverage
Covered(doc) ==
    \A b \in doc.bullets :
        /\ \E row \in doc.rows : row.id = b.id
        /\ \A e \in b.sources : <<b.id, e>> \in PairsOf(doc)

HeadDoc == Last(local).doc

\* Variant: only the ids of HEAD are taken, the file is not read.
IdsFreshInHead(doc) ==
    \A id \in IdsOf(doc) \ IdsOf(HeadDoc) : id > Highest(IdsOf(HeadDoc))

\* "new opinion ids must be greater than high-water"
IdsFresh(doc) ==
    \A id \in IdsOf(doc) \ IdsOf(HeadDoc) : id > Highest(IdsOf(HeadDoc) \cup {highWater})

\* Variant: the metadata of a row is not compared with the evidence.
RowsSelected(r, doc) ==
    \A row \in doc.rows :
        <<row.id, row.evidence>> \notin PairsOf(HeadDoc) => row.evidence \in Selected[r]

\* Evidence outside the current run, metadata that does not match the evidence.
RowsEvidenced(r, doc) ==
    \A row \in doc.rows :
        <<row.id, row.evidence>> \notin PairsOf(HeadDoc) => row.evidence \in Selected[r] /\ row.exact

\* run_artifact_validation
Valid(r) ==
    /\ WellFormed(tree) /\ WellFormed(HeadDoc)
    /\ IdsFresh(tree) /\ RowsEvidenced(r, tree) /\ Covered(tree)

\* Variant: one past the highest id.
PastHighWater == Highest(IdsOf(HeadDoc) \cup IdsOf(tree) \cup {highWater}) + 1

NextHighWater == Highest(IdsOf(HeadDoc) \cup IdsOf(tree) \cup {highWater})

-----------------------------------------------------------------------------
(* The checkout and the baseline *)

Clean == tree = HeadDoc

\* ensure_opinions_repo: `pull --ff-only` over clean files, and HEAD is the remote branch.
CanPull == IsPrefix(local, remote) /\ (local = remote \/ Clean)

\* git refuses a push that is no fast-forward.
CanPush == IsPrefix(remote, local)

By(r, branch) == \E i \in DOMAIN branch : branch[i].by = r

\* Variant: the edits of the files are left in the working tree.
RestoreHighWater(r) ==
    /\ highWater' = base[r].highWater
    /\ UNCHANGED <<tree, local, remote>>

\* archive_and_restore_run
Restore(r) ==
    /\ tree' = base[r].doc
    /\ highWater' = base[r].highWater
    /\ UNCHANGED <<local, remote>>

\* The process has left the run, or is dead.
Leave ==
    /\ busy' = Idle
    /\ mark' = 0
    /\ edits' = 0

SetStatus(r, value) == status' = [status EXCEPT ![r] = value]
SetPhase(r, value) == phase' = [phase EXCEPT ![r] = value]

-----------------------------------------------------------------------------
(* A run *)

\* find_active_run
Active == {r \in Runs : status[r] = "running_agent"}

\* A run that ended after its push and before it was completed: every pass of
\* the worker begins by completing it, a manual start or a backoff may come first.
Unreconciled == {r \in Runs : status[r] = "failed" /\ phase[r] = "pushed"}

\* capture_run_baseline: HEAD is the fetched remote branch, and the writable files
\* and the high-water file are copied as they are.
Capture(r) ==
    /\ local' = remote
    /\ base' = [base EXCEPT ![r] = [doc |-> tree', highWater |-> highWater]]
    /\ SetPhase(r, "agent_editing")

\* start_opinion_run, start_materialized_opinion_run: refresh and clean files,
\* then the baseline.
Start(r) ==
    /\ busy = Idle /\ status[r] = "new" /\ Active = {} /\ Selected[r] # {}
    /\ Unreconciled = {} \/ "early" \in Faults
    /\ CanPull /\ Clean
    /\ tree' = Last(remote).doc
    /\ Capture(r)
    /\ SetStatus(r, "running_agent")
    /\ busy' = r
    /\ UNCHANGED <<remote, highWater, mark, edits>>

\* The agent's edit and write tools: one bullet or one row at a time.
Edited(doc) ==
    {[doc EXCEPT !.bullets = @ \cup {b}] : b \in Bullet}
    \cup {[doc EXCEPT !.bullets = @ \ {b}] : b \in doc.bullets}
    \cup {[doc EXCEPT !.rows = @ \cup {row}] : row \in Row}
    \cup {[doc EXCEPT !.rows = @ \ {row}] : row \in doc.rows}

Edit(r) ==
    /\ busy = r /\ phase[r] = "agent_editing"
    /\ edits < MaxEdits
    /\ edits' = edits + 1
    /\ tree' \in Edited(tree) \ {tree}
    /\ UNCHANGED <<local, remote, highWater, status, phase, base, mark, busy>>

\* DeterministicOpinionAgent: one opinion for the first highlight.
DeterministicEdit(r) ==
    /\ busy = r /\ phase[r] = "agent_editing" /\ edits = 0
    /\ NextOpinionId(tree) \in Ids
    /\ edits' = MaxEdits
    /\ LET id == NextOpinionId(tree)
           first == CHOOSE e \in Selected[r] : TRUE
       IN  tree' = [bullets |-> tree.bullets \cup {[id |-> id, sources |-> {first}]},
                    rows |-> tree.rows \cup {[id |-> id, evidence |-> first, exact |-> TRUE]}]
    /\ UNCHANGED <<local, remote, highWater, status, phase, base, mark, busy>>

\* The agent raises.  start_opinion_run fails its first turn without restoring.
TurnFails(r) ==
    /\ "turn" \in Faults
    /\ busy = r /\ phase[r] = "agent_editing"
    /\ Restore(r) \/ (r \in Manual /\ UNCHANGED files)
    /\ SetStatus(r, "failed") /\ Leave
    /\ UNCHANGED <<phase, base>>

\* _complete_done_run up to the commit intent.
Done(r) ==
    /\ busy = r /\ phase[r] = "agent_editing" /\ Valid(r)
    /\ mark' = NextHighWater
    /\ SetPhase(r, "commit_intent")
    /\ UNCHANGED <<files, status, base, busy, edits>>

Rejected(r) ==
    /\ busy = r /\ phase[r] = "agent_editing" /\ ~Valid(r)
    /\ Restore(r)
    /\ SetStatus(r, "failed") /\ Leave
    /\ UNCHANGED <<phase, base>>

\* The process dies after a step that was not recorded.
Dies == "crash" \in Faults /\ Leave

\* commit_and_push_opinions_files(push = FALSE), and the sha recorded.
Commit(r) ==
    /\ busy = r /\ phase[r] = "commit_intent"
    /\ local' = IF Clean THEN local ELSE Append(local, [by |-> r, doc |-> tree])
    /\ \/ SetPhase(r, "committed") /\ UNCHANGED <<busy, mark, edits>>
       \/ Dies /\ UNCHANGED phase
    /\ UNCHANGED <<remote, tree, highWater, status, base>>

Push(r) ==
    /\ busy = r /\ phase[r] = "committed"
    /\ By(r, local) => CanPush
    /\ remote' = IF By(r, local) THEN local ELSE remote
    /\ \/ SetPhase(r, "pushed") /\ UNCHANGED <<busy, mark, edits>>
       \/ Dies /\ UNCHANGED phase
    /\ UNCHANGED <<local, tree, highWater, status, base>>

\* Nothing is restored after the commit.
PushRefused(r) ==
    /\ busy = r /\ phase[r] = "committed" /\ By(r, local) /\ ~CanPush
    /\ SetStatus(r, "failed") /\ Leave
    /\ UNCHANGED <<files, phase, base>>

\* update_opinion_id_high_water
UpdateHighWater(value) == highWater' = Highest({highWater, value})

\* The high-water file, then the completion.
Complete(r) ==
    /\ busy = r /\ phase[r] = "pushed"
    /\ UpdateHighWater(mark)
    /\ \/ SetStatus(r, "completed") /\ SetPhase(r, "completed") /\ Leave
       \/ "finish" \in Faults /\ SetStatus(r, "failed") /\ Leave /\ UNCHANGED phase
       \/ Dies /\ UNCHANGED <<status, phase>>
    /\ UNCHANGED <<local, remote, tree, base>>

\* The high-water file cannot be written.
CompleteFails(r) ==
    /\ "finish" \in Faults
    /\ busy = r /\ phase[r] = "pushed"
    /\ SetStatus(r, "failed") /\ Leave
    /\ UNCHANGED <<files, phase, base>>

Crash ==
    /\ "crash" \in Faults /\ busy # Idle
    /\ Leave
    /\ UNCHANGED <<files, status, phase, base>>

-----------------------------------------------------------------------------
(* Reconciliation and the operator *)

\* reconcile_git_durability: HEAD is the commit of the run, recorded or not.
Announced(r) == phase[r] \in {"commit_intent", "committed"} /\ Last(local).by = r

Durable(r) ==
    \/ phase[r] = "pushed"
    \/ Announced(r) /\ (By(r, remote) \/ CanPush)

\* reconcile_startup: push what was committed, then complete_reconciled_run,
\* which validates the files as they are now; when it refuses them the pass is
\* rolled back and tried again later.
ReconcileDurable(r) ==
    /\ busy = Idle /\ status[r] \in {"running_agent", "failed"} /\ Durable(r)
    /\ remote' = IF Announced(r) /\ ~By(r, remote) THEN local ELSE remote
    /\ IF Valid(r)
       THEN /\ UpdateHighWater(NextHighWater)
            /\ SetStatus(r, "completed") /\ SetPhase(r, "completed")
       ELSE UNCHANGED <<highWater, status, phase>>
    /\ UNCHANGED <<local, tree, base, mark, busy, edits>>

\* The lease of an interrupted run has expired and there is no commit.
ReconcileInterrupted(r) ==
    /\ busy = Idle /\ status[r] = "running_agent"
    /\ phase[r] # "pushed" /\ ~Announced(r)
    /\ Restore(r)
    /\ SetStatus(r, "failed")
    /\ UNCHANGED <<phase, base, mark, busy, edits>>

\* abandon-run on a run in progress: a cycle run is restored and refused after
\* its commit; a manual run is neither.
Abandon(r) ==
    /\ "abandon" \in Faults
    /\ busy = Idle /\ status[r] = "running_agent"
    /\ \/ r \notin Manual /\ phase[r] \notin {"committed", "pushed"} /\ Restore(r)
       \/ /\ r \in Manual /\ UNCHANGED files
          /\ phase[r] \in {"committed", "pushed"} => "abandonPushed" \in Faults
    /\ SetStatus(r, "abandoned")
    /\ UNCHANGED <<phase, base, mark, busy, edits>>

\* Somebody removes an opinion with its rows, or adds a bullet alone.
OutsidePush ==
    /\ Cardinality({i \in DOMAIN remote : remote[i].by = Owner}) <= MaxOutside
    /\ LET doc == Last(remote).doc
       IN  \E id \in Ids :
             remote' = Append(remote, [by |-> Owner, doc |->
               IF id \in IdsOf(doc)
               THEN [bullets |-> {b \in doc.bullets : b.id # id},
                     rows |-> {row \in doc.rows : row.id # id}]
               ELSE [doc EXCEPT !.bullets = @ \cup {[id |-> id, sources |-> {}]}]])
    /\ UNCHANGED <<local, tree, highWater, status, phase, base, mark, busy, edits>>

Next ==
    \/ \E r \in Runs :
        \/ Start(r) \/ Edit(r) \/ DeterministicEdit(r) \/ TurnFails(r)
        \/ Done(r) \/ Rejected(r) \/ Commit(r) \/ Push(r) \/ PushRefused(r)
        \/ Complete(r) \/ CompleteFails(r)
        \/ ReconcileDurable(r) \/ ReconcileInterrupted(r) \/ Abandon(r)
    \/ Crash
    \/ OutsidePush

Spec == Init /\ [][Next]_vars

-----------------------------------------------------------------------------
(* Properties *)

Before(k) == remote[k - 1].doc

\* The versions whose ids the application has seen: the first and those of its runs.
Known(i) == i = 1 \/ remote[i].by \in Runs

\* An id that was there at first or that a run has published is never given to
\* another opinion by a later run, though the opinion was removed meanwhile, and
\* the run that did it failed, crashed or was reconciled (opinion-id-high-water.json).
\* The file has to cover the first ids: where there is none yet, a crash between the
\* push and the file loses the highest id that the run has retired.
IdsAreNeverReused ==
    FirstHighWater >= Highest(IdsOf(FirstDoc)) =>
    \A k \in DOMAIN remote : remote[k].by \in Runs =>
        \A id \in IdsOf(remote[k].doc) \ IdsOf(Before(k)) :
            \A i \in 1..(k - 1) : Known(i) => id \notin IdsOf(remote[i].doc)

\* What a run adds to the published sources is exactly evidence of that run:
\* nothing that another run left in the checkout is ever published with it.
PublishedIsEvidenced ==
    \A k \in DOMAIN remote : remote[k].by \in Runs =>
        /\ WellFormed(remote[k].doc) /\ Covered(remote[k].doc)
        /\ \A row \in remote[k].doc.rows :
            <<row.id, row.evidence>> \notin PairsOf(Before(k)) =>
                row.exact /\ row.evidence \in Selected[remote[k].by]

\* The high-water mark never passes the ids that were committed: a run that
\* was refused, restored or abandoned uses none up.
HighWaterIsEarned ==
    highWater <= Highest(UNION {IdsOf(version.doc) : version \in ToSet(local) \cup ToSet(remote)})

\* With no run in progress and no commit left unpushed the files are those of
\* HEAD, so that the next run can start: only a manual run that failed or was
\* abandoned leaves its edits behind.
LeftoversAreManual ==
    Active = {} /\ busy = Idle /\ IsPrefix(local, remote) /\ ~Clean =>
        \E r \in Manual : status[r] \in {"failed", "abandoned"}
=============================================================================
