----------------------------- MODULE EvalScoring -----------------------------
(***************************************************************************)
(* Scoring one experiment (evals/v2/scorers.py, evals/v2/runner.py): per   *)
(* week the scorers run concurrently over what the agent proposed and over *)
(* the week's targets.  Four of them await one evaluation per week, whose  *)
(* judge calls go out one after the other; candidate_quality runs the same *)
(* evaluation over the candidates and the add targets, for itself, and     *)
(* candidate_independent_quality has each candidate judged alone.  The     *)
(* summary recovers the number of targets from the scores.                 *)
(*                                                                         *)
(* The judge is a model: each call may answer either way, or fail.  A      *)
(* score is a fraction [num, den]; texts are left out, whether an update   *)
(* quotes the canonical opinion is a flag.  candidate_grouping and         *)
(* opinion_brevity ask nobody, count no targets and are left out.          *)
(***************************************************************************)
EXTENDS Naturals, Sequences, FiniteSets, FiniteSetsExt, Functions

CONSTANTS
    Weeks,
    Targets,       \* by week, a sequence of [kind, sources]
    NotConverted,  \* by week, the evidence that belongs to no target
    Selected,      \* by week, the evidence the corpus offers for it
    Outputs,       \* by week, what the agent may put out: [proposals, candidates]
    MaxConcurrency,  \* max_concurrency: weeks in progress at the same time
    Faults         \* {"judge"} or {}: a judge call raises

\* converted_evidence_ids
Converted(w) == UNION {t.sources : t \in Range(Targets[w])}

\* verify_week_partition: the labels are those of the selected evidence, and none
\* is labelled both ways; run_opinion_eval stops before a case that fails it.
WeekPartition(w) ==
    /\ Converted(w) \cap NotConverted[w] = {}
    /\ Converted(w) \cup NotConverted[w] = Selected[w]

ASSUME ScoringAssumption ==
    /\ Faults \subseteq {"judge"} /\ MaxConcurrency \in Nat \ {0}
    /\ \A w \in Weeks :
        /\ IsFiniteSet(Selected[w]) /\ WeekPartition(w)
        /\ Targets[w] \in Seq([kind : {"add", "update"}, sources : (SUBSET Selected[w]) \ {{}}])

Gated == {"opinion_quality", "opinion_attempted", "operation_accuracy", "opinion_quality_v2"}
OfCandidates == {"candidate_quality", "candidate_independent_quality"}
Scorers == Gated \cup OfCandidates
Evaluations == Scorers \cup {"shared"}

VARIABLES
    output,      \* by week, the output of the agent
    evaluation,  \* by week and evaluation: [status, results, asking]
    score        \* by week and scorer

vars == <<output, evaluation, score>>

\* A score of a week: not there yet, None, raised, or a fraction.
Unscored == [is |-> "unscored"]
NoScore == [is |-> "none"]
Raised == [is |-> "raised"]
Fraction(num, den) == [is |-> "score", num |-> num, den |-> den]

Init ==
    /\ output \in {o \in [Weeks -> UNION {Outputs[w] : w \in Weeks}] : \A w \in Weeks : o[w] \in Outputs[w]}
    /\ evaluation = [w \in Weeks |-> [e \in Evaluations |->
                        [status |-> "absent", results |-> <<>>, asking |-> FALSE]]]
    /\ score = [w \in Weeks |-> [s \in Scorers |-> Unscored]]

-----------------------------------------------------------------------------
(* Proposals and targets *)

CitedBy(proposals) == UNION {p.evidence : p \in proposals}

\* Where the targets that are judged stand in the list of the week: all of them, or
\* those to add.
Judged(w, name) ==
    {i \in DOMAIN Targets[w] : name \in OfCandidates => Targets[w][i].kind = "add"}

\* The scorers of candidates present them as proposals to add.
Presented(w, name) == IF name \in OfCandidates THEN output[w].candidates ELSE output[w].proposals

\* _proposals_for_target
Linked(proposals, target) == {p \in proposals : p.evidence \cap target.sources # {}}

\* Variant: the evidence need not be routed completely.
KindsMatch(target, linked) ==
    /\ linked # {}
    /\ \A p \in linked : p.kind = target.kind /\ (target.kind = "update" => p.current)

\* _operation_result: complete routing, the right kind, and for an update the
\* canonical text of the opinion it replaces.
OperationValid(target, linked) ==
    /\ linked # {} /\ target.sources \subseteq CitedBy(linked)
    /\ \A p \in linked : p.kind = target.kind /\ (target.kind = "update" => p.current)

-----------------------------------------------------------------------------
(* The evaluation of a week *)

\* Variant: every scorer has an evaluation of its own.
OwnEvaluation(scorer) == scorer

\* make_opinion_judges is called once for the four and once for candidate_quality;
\* candidate_independent_quality has a loop of its own.
EvaluationOf(scorer) == IF scorer \in Gated THEN "shared" ELSE scorer

\* The name whose targets and proposals an evaluation is over.
Subject(e) == IF e = "shared" THEN "opinion_quality" ELSE e

\* The week is one of those the framework works on: its scorers have begun, or a
\* place among MaxConcurrency is free.
Begun(w) ==
    \/ \E s \in Scorers : score[w][s] # Unscored
    \/ \E e \in Evaluations : evaluation[w][e].status # "absent"
Ended(w) == \A s \in Scorers : score[w][s] # Unscored
Admitted(w) == Begun(w) \/ Cardinality({v \in Weeks : Begun(v) /\ ~Ended(v)}) < MaxConcurrency

\* The first scorer that asks starts the task, the others await the same one.
Ask(w, s) ==
    LET e == EvaluationOf(s)
    IN  /\ Admitted(w) /\ Judged(w, s) # {}
        /\ evaluation[w][e].status = "absent"
        /\ evaluation' = [evaluation EXCEPT ![w][e].status = "running"]
        /\ UNCHANGED <<output, score>>

\* The loop goes through the targets in order.
Remaining(w, e) == Judged(w, Subject(e)) \ DOMAIN evaluation[w][e].results
Current(w, e) == Min(Remaining(w, e))
CurrentTarget(w, e) == Targets[w][Current(w, e)]
CurrentlyLinked(w, e) == Linked(Presented(w, Subject(e)), CurrentTarget(w, e))

Result(linked, passed, attempted, target) ==
    [matched |-> linked # {}, passed |-> passed, attempted |-> attempted,
     valid |-> OperationValid(target, linked)]

\* The result of a target is appended; after the last one the task is done.
Conclude(w, e, result) ==
    LET before == evaluation[w][e].results
        i == Current(w, e)
    IN  evaluation' = [evaluation EXCEPT ![w][e] =
            [status |-> IF Remaining(w, e) = {i} THEN "done" ELSE "running",
             results |-> [j \in DOMAIN before \cup {i} |-> IF j = i THEN result ELSE before[j]],
             asking |-> FALSE]]

\* A target without a linked proposal: nobody is asked.
Unmatched(w, e) ==
    /\ evaluation[w][e].status = "running"
    /\ CurrentlyLinked(w, e) = {}
    /\ Conclude(w, e, Result({}, FALSE, FALSE, CurrentTarget(w, e)))
    /\ UNCHANGED <<output, score>>

\* _judge_pair: a pass is an attempt, after a fail the attempt is asked for.
JudgePair(w, e) ==
    /\ e # "candidate_independent_quality"
    /\ evaluation[w][e].status = "running" /\ ~evaluation[w][e].asking
    /\ CurrentlyLinked(w, e) # {}
    /\ \/ Conclude(w, e, Result(CurrentlyLinked(w, e), TRUE, TRUE, CurrentTarget(w, e)))
       \/ evaluation' = [evaluation EXCEPT ![w][e].asking = TRUE]
    /\ UNCHANGED <<output, score>>

\* _judge_attempt
JudgeAttempt(w, e) ==
    /\ evaluation[w][e].status = "running" /\ evaluation[w][e].asking
    /\ \E attempted \in BOOLEAN :
        Conclude(w, e, Result(CurrentlyLinked(w, e), FALSE, attempted, CurrentTarget(w, e)))
    /\ UNCHANGED <<output, score>>

\* candidate_independent_quality: the linked candidates are judged concurrently,
\* each alone; one pass is enough.
JudgeEach(w) ==
    LET e == "candidate_independent_quality"
    IN  /\ evaluation[w][e].status = "running"
        /\ CurrentlyLinked(w, e) # {}
        /\ \E passing \in SUBSET CurrentlyLinked(w, e) :
            Conclude(w, e, Result(CurrentlyLinked(w, e), passing # {}, FALSE, CurrentTarget(w, e)))
        /\ UNCHANGED <<output, score>>

\* The judge cannot be reached or its answer is no JSON: the task keeps the exception.
JudgeFails(w, e) ==
    /\ "judge" \in Faults
    /\ evaluation[w][e].status = "running"
    /\ CurrentlyLinked(w, e) # {}
    /\ evaluation' = [evaluation EXCEPT ![w][e].status = "failed"]
    /\ UNCHANGED <<output, score>>

-----------------------------------------------------------------------------
(* The scorers *)

Count(results, Holds(_)) == Cardinality({i \in DOMAIN results : Holds(results[i])})

\* What the scorers count in the results of their evaluation.
Grade(s, results) ==
    CASE s \in {"opinion_quality"} \cup OfCandidates -> Count(results, LAMBDA r : r.passed)
      [] s = "opinion_attempted" -> Count(results, LAMBDA r : r.attempted)
      [] s = "operation_accuracy" -> Count(results, LAMBDA r : r.valid)
      [] s = "opinion_quality_v2" -> Count(results, LAMBDA r : r.passed /\ r.valid)

Record(w, s, value) ==
    /\ score' = [score EXCEPT ![w][s] = value]
    /\ UNCHANGED <<output, evaluation>>

Score(w, s) ==
    /\ Admitted(w) /\ score[w][s] = Unscored
    /\ \/ Judged(w, s) = {} /\ Record(w, s, NoScore)
       \/ /\ evaluation[w][EvaluationOf(s)].status = "done"
          /\ LET results == evaluation[w][EvaluationOf(s)].results
             IN  Record(w, s, Fraction(Grade(s, results), Cardinality(DOMAIN results)))
       \/ evaluation[w][EvaluationOf(s)].status = "failed" /\ Record(w, s, Raised)

\* round(score * n)
Rounded(value, n) == (2 * value.num * n + value.den) \div (2 * value.den)

\* Variant: every target of the week, whatever its kind.
AllTargets(name, w) == Cardinality(DOMAIN Targets[w])

\* The targets a summary counts: those of target_kind, where one is given.
Eligible(name, w) == Cardinality(Judged(w, name))

\* summarize_target_weighted_quality skips weeks without a score or without targets.
WeeksScored(name) ==
    {w \in Weeks : score[w][name].is = "score" /\ Eligible(name, w) > 0}

Summary(name) ==
    [passed |-> SumFunction([w \in WeeksScored(name) |-> Rounded(score[w][name], Eligible(name, w))]),
     total |-> SumFunction([w \in WeeksScored(name) |-> Eligible(name, w)])]

\* evidence_recall and evidence_precision as [num, den]: for den = 0 the first is
\* None and the second 1.
EvidenceRecall(w) ==
    [num |-> Cardinality(Converted(w) \cap CitedBy(output[w].proposals)), den |-> Cardinality(Converted(w))]
EvidencePrecision(w) ==
    LET inWeek == CitedBy(output[w].proposals) \cap (Converted(w) \cup NotConverted[w])
    IN  [num |-> Cardinality(inWeek \ NotConverted[w]), den |-> Cardinality(inWeek)]

Next ==
    \E w \in Weeks :
        \/ \E s \in Scorers : Ask(w, s) \/ Score(w, s)
        \/ \E e \in Evaluations :
            Unmatched(w, e) \/ JudgePair(w, e) \/ JudgeAttempt(w, e) \/ JudgeFails(w, e)
        \/ JudgeEach(w)

Spec == Init /\ [][Next]_vars

-----------------------------------------------------------------------------
(* Properties *)

Num(w, s) == score[w][s].num

\* Gated quality is what passed and is valid, nothing passes that was not
\* attempted, and the numbers add up to what one set of verdicts allows.
FromOneEvaluation(w) ==
    /\ Num(w, "opinion_quality_v2") <= Num(w, "opinion_quality")
    /\ Num(w, "opinion_quality_v2") <= Num(w, "operation_accuracy")
    /\ Num(w, "opinion_quality") <= Num(w, "opinion_attempted")
    /\ Num(w, "opinion_quality") + Num(w, "operation_accuracy")
         <= Num(w, "opinion_quality_v2") + Len(Targets[w])

\* Valid operations on all targets cite all converted evidence, and what cites
\* none of it was never attempted.
WithinEvidence(w) ==
    /\ Num(w, "operation_accuracy") = Len(Targets[w]) => EvidenceRecall(w).num = EvidenceRecall(w).den
    /\ EvidenceRecall(w).num = 0 =>
        Num(w, "opinion_attempted") = 0 /\ EvidencePrecision(w).num = 0

\* The scores of a week agree though four scorers await the judge at different
\* moments: they speak of the same verdicts and of the same evidence as the scores
\* that ask nobody, and when the judge fails they fail together.
ScoresAgree ==
    \A w \in Weeks :
        /\ (\A s \in Gated : score[w][s].is = "score") => FromOneEvaluation(w) /\ WithinEvidence(w)
        /\ \A s, u \in Gated : score[w][s] = Raised => score[w][u] \in {Raised, Unscored}

\* The printed counts are those of the targets themselves: the rounding recovers,
\* over weeks with add and update targets, with and without a score, how many of
\* the targets that were judged have passed.
SummaryCountsTargets ==
    \A name \in {"opinion_quality"} \cup OfCandidates :
        LET results(w) == evaluation[w][EvaluationOf(name)].results
        IN  Summary(name) =
                [passed |-> SumFunction([w \in WeeksScored(name) |-> Count(results(w), LAMBDA r : r.passed)]),
                 total |-> SumFunction([w \in WeeksScored(name) |-> Cardinality(DOMAIN results(w))])]
=============================================================================
