------------------------- MODULE EvalScoring_proof -------------------------
(***************************************************************************)
(* Theorems about EvalScoring, for any weeks, targets, outputs and answers *)
(* of the judge: the scores of a week agree, and the summary counts the    *)
(* targets that were judged.                                               *)
(*                                                                         *)
(* Scores are recorded at different moments, long after the verdicts they  *)
(* count.  ScoreInv says that a score is still the grade of the verdicts   *)
(* in its evaluation, which is true because an evaluation that is done or  *)
(* has failed does not change; EvaluationInv says what each verdict is     *)
(* worth: it is about the target at its place and what is linked to it,    *)
(* and an evaluation is done when no target remains.  What is left is      *)
(* counting: the grades of one set of verdicts are the sizes of subsets of *)
(* the same places.                                                        *)
(***************************************************************************)
EXTENDS EvalScoring, FiniteSetTheorems, WellFoundedInduction, TLAPS

-----------------------------------------------------------------------------
(* Sets of numbers *)

\* A set of numbers that is not empty has a minimum.
LEMMA MinIsLeast ==
    ASSUME NEW S \in SUBSET Nat, S # {}
    PROVE  Min(S) \in S /\ \A x \in S : Min(S) <= x
<1> DEFINE IsMin(m) == m \in S /\ \A y \in S : m <= y
           R == OpToRel(<, Nat)
<1>1. \A a, b \in Nat : a < b => <<a, b>> \in R
  BY SMT DEF OpToRel
<1>2. PICK x \in S : \A y \in S : <<y, x>> \notin R
  <2>1. IsWellFoundedOn(R, Nat)
    BY NatLessThanWellFounded
  <2> HIDE DEF R
  <2> QED BY Zenon, <2>1, WFMin
<1>3. \A y \in S : ~(y < x)
  <2> HIDE DEF R
  <2> QED BY Zenon, <1>1, <1>2
<1>4. IsMin(x)
  BY <1>3
<1>5. IsMin(CHOOSE m : IsMin(m))
  BY Zenon, <1>4
<1>6. Min(S) = CHOOSE m : IsMin(m)
  BY Zenon DEF Min
<1> QED BY <1>5, <1>6

-----------------------------------------------------------------------------
(* Types *)

Verdict == [matched : BOOLEAN, passed : BOOLEAN, attempted : BOOLEAN, valid : BOOLEAN]
Results == UNION {[D -> Verdict] : D \in SUBSET Nat}

Evaluating == [status : {"absent", "running", "done", "failed"}, results : Results, asking : BOOLEAN]

TypeOK ==
    /\ evaluation \in [Weeks -> [Evaluations -> Evaluating]]
    /\ score = [w \in Weeks |-> [s \in Scorers |-> score[w][s]]]

\* What the verdict on the target at place i of an evaluation says is so.
VerdictInv(w, e, i) ==
    LET verdict == evaluation[w][e].results[i]
        linked == Linked(Presented(w, Subject(e)), Targets[w][i])
    IN  /\ verdict.valid <=> OperationValid(Targets[w][i], linked)
        /\ verdict.attempted => linked # {}
        /\ e = "shared" => (verdict.passed => verdict.attempted)

\* An evaluation has been asked for, goes through its targets, and is done when
\* none remains; the judge is asked about targets something is linked to.
EvaluationInv(w, e) ==
    /\ DOMAIN evaluation[w][e].results \subseteq Judged(w, Subject(e))
    /\ \A i \in DOMAIN evaluation[w][e].results : VerdictInv(w, e, i)
    /\ evaluation[w][e].status = "absent" => DOMAIN evaluation[w][e].results = {}
    /\ evaluation[w][e].status # "absent" => Judged(w, Subject(e)) # {}
    /\ evaluation[w][e].status = "running" => Remaining(w, e) # {}
    /\ evaluation[w][e].status = "done" => Remaining(w, e) = {}
    /\ evaluation[w][e].asking => evaluation[w][e].status \in {"running", "failed"}
    /\ evaluation[w][e].asking => CurrentlyLinked(w, e) # {}

\* A score is the grade of the verdicts of a finished evaluation, or says why there is none.
ScoreInv(w, s) ==
    LET ev == evaluation[w][EvaluationOf(s)]
    IN  \/ score[w][s] = Unscored
        \/ score[w][s] = NoScore /\ Judged(w, s) = {}
        \/ score[w][s] = Raised /\ ev.status = "failed"
        \/ /\ ev.status = "done"
           /\ score[w][s] = Fraction(Grade(s, ev.results), Cardinality(DOMAIN ev.results))

EvalInv ==
    /\ TypeOK
    /\ \A w \in Weeks : \A e \in Evaluations : EvaluationInv(w, e)
    /\ \A w \in Weeks : \A s \in Scorers : ScoreInv(w, s)

-----------------------------------------------------------------------------
(* Targets and evaluations *)

\* The places of the targets of a week are numbers, and the subject of the evaluation
\* of a scorer is judged by the same targets as the scorer itself.
LEMMA Places ==
    ASSUME NEW w \in Weeks
    PROVE  /\ DOMAIN Targets[w] \in SUBSET Nat
           /\ IsFiniteSet(DOMAIN Targets[w])
           /\ Cardinality(DOMAIN Targets[w]) = Len(Targets[w])
           /\ \A s \in Scorers : /\ EvaluationOf(s) \in Evaluations
                                 /\ Judged(w, Subject(EvaluationOf(s))) = Judged(w, s)
<1>1. /\ Len(Targets[w]) \in Nat
      /\ DOMAIN Targets[w] = 1..Len(Targets[w])
  BY ScoringAssumption
<1>2. IsFiniteSet(1..Len(Targets[w])) /\ Cardinality(1..Len(Targets[w])) = Len(Targets[w])
  BY <1>1, FS_Interval
<1>3. ASSUME NEW s \in Scorers
      PROVE  /\ EvaluationOf(s) \in Evaluations
             /\ Judged(w, Subject(EvaluationOf(s))) = Judged(w, s)
  BY DEF Scorers, Gated, OfCandidates, Evaluations, EvaluationOf, Subject, Judged
<1> QED BY <1>1, <1>2, <1>3

\* The target an evaluation is at is one of those that remain.
LEMMA CurrentRemains ==
    ASSUME NEW w \in Weeks, NEW e \in Evaluations, Remaining(w, e) # {}
    PROVE  /\ Current(w, e) \in Remaining(w, e)
           /\ Current(w, e) \in Nat
<1>1. Remaining(w, e) \in SUBSET Nat
  BY Places DEF Remaining, Judged
<1> QED BY <1>1, MinIsLeast DEF Current

\* What is said of an evaluation depends on it and on the output of its week.
LEMMA SameEvaluation ==
    ASSUME NEW w \in Weeks, NEW e \in Evaluations, EvaluationInv(w, e),
           output' = output, evaluation'[w][e] = evaluation[w][e]
    PROVE  EvaluationInv(w, e)'
<1>1. Presented(w, Subject(e))' = Presented(w, Subject(e))
  BY DEF Presented
<1>2. Remaining(w, e)' = Remaining(w, e)
  BY DEF Remaining
<1>3. CurrentlyLinked(w, e)' = CurrentlyLinked(w, e)
  BY <1>1, <1>2 DEF CurrentlyLinked, CurrentTarget, Current
<1>4. \A i \in DOMAIN evaluation[w][e].results : VerdictInv(w, e, i)'
  BY <1>1 DEF EvaluationInv, VerdictInv
<1> QED BY <1>2, <1>3, <1>4 DEF EvaluationInv

\* A conclusion adds the verdict on the current target.
LEMMA ConcludeKeeps ==
    ASSUME EvalInv, NEW w \in Weeks, NEW e \in Evaluations,
           evaluation[w][e].status = "running",
           NEW passed \in BOOLEAN, NEW attempted \in BOOLEAN,
           e = "shared" => (passed => attempted),
           attempted => CurrentlyLinked(w, e) # {},
           Conclude(w, e, Result(CurrentlyLinked(w, e), passed, attempted, CurrentTarget(w, e))),
           UNCHANGED <<output, score>>
    PROVE  EvalInv'
<1> DEFINE i == Current(w, e)
           before == evaluation[w][e].results
           result == Result(CurrentlyLinked(w, e), passed, attempted, CurrentTarget(w, e))
           after == [j \in DOMAIN before \cup {i} |-> IF j = i THEN result ELSE before[j]]
           ended == IF Remaining(w, e) = {i} THEN "done" ELSE "running"
<1>1. i \in Remaining(w, e) /\ i \in Nat
  BY CurrentRemains DEF EvalInv, EvaluationInv
<1>2. result \in Verdict
  <2>1. OperationValid(CurrentTarget(w, e), CurrentlyLinked(w, e)) \in BOOLEAN
    BY DEF OperationValid
  <2> QED BY <2>1 DEF Result, Verdict
<1>3. before \in Results
  BY DEF EvalInv, TypeOK, Evaluating
<1>4. after \in Results /\ DOMAIN after = DOMAIN before \cup {i}
  <2>1. PICK D \in SUBSET Nat : before \in [D -> Verdict]
    BY <1>3 DEF Results
  <2>2. after \in [D \cup {i} -> Verdict]
    BY <2>1, <1>2
  <2>3. D \cup {i} \in SUBSET Nat
    BY <1>1
  <2> QED BY <2>2, <2>3 DEF Results
<1> HIDE DEF after, before, result, i, ended
<1>5. evaluation' = [evaluation EXCEPT ![w][e] =
                        [status |-> ended, results |-> after, asking |-> FALSE]]
  BY DEF Conclude, after, before, result, i, ended
<1>6. ended \in {"done", "running"}
  BY DEF ended
<1>7. TypeOK'
  BY <1>4, <1>5, <1>6 DEF EvalInv, TypeOK, Evaluating
<1>8. evaluation'[w][e] = [status |-> ended, results |-> after, asking |-> FALSE]
  BY <1>5 DEF EvalInv, TypeOK
<1>9. \A v \in Weeks, f \in Evaluations : v # w \/ f # e => evaluation'[v][f] = evaluation[v][f]
  BY <1>5 DEF EvalInv, TypeOK
<1>10. \A v \in Weeks, f \in Evaluations : Presented(v, Subject(f))' = Presented(v, Subject(f))
  BY DEF Presented
<1>11. ASSUME NEW v \in Weeks, NEW f \in Evaluations, v # w \/ f # e
       PROVE  EvaluationInv(v, f)'
  <2>1. EvaluationInv(v, f)
    BY DEF EvalInv
  <2> QED BY <1>9, <1>11, <2>1, SameEvaluation
<1>12. EvaluationInv(w, e)'
  <2>1. EvaluationInv(w, e)
    BY DEF EvalInv
  <2>2. Remaining(w, e)' = Remaining(w, e) \ {i}
    BY <1>4, <1>8 DEF Remaining, before
  <2>3. DOMAIN after \subseteq Judged(w, Subject(e))
    BY <1>1, <1>4, <2>1 DEF EvaluationInv, Remaining, before
  <2>4. ASSUME NEW j \in DOMAIN after PROVE VerdictInv(w, e, j)'
    <3>1. CASE j = i
      <4>1. evaluation'[w][e].results[j] = result
        BY <1>8, <3>1, <2>4 DEF after
      <4>2. CurrentTarget(w, e) = Targets[w][j]
        BY <3>1 DEF CurrentTarget, i
      <4>3. CurrentlyLinked(w, e) = Linked(Presented(w, Subject(e)), Targets[w][j])
        BY <4>2 DEF CurrentlyLinked
      <4> QED BY <1>10, <4>1, <4>2, <4>3 DEF VerdictInv, result, Result
    <3>2. CASE j # i
      <4>1. j \in DOMAIN before /\ evaluation'[w][e].results[j] = evaluation[w][e].results[j]
        BY <1>4, <1>8, <3>2, <2>4 DEF after, before
      <4>2. VerdictInv(w, e, j)
        BY <4>1, <2>1 DEF EvaluationInv, before
      <4> QED BY <1>10, <4>1, <4>2 DEF VerdictInv
    <3> QED BY <3>1, <3>2
  <2>5. ended = "done" <=> Remaining(w, e) = {i}
    BY DEF ended
  <2>6. evaluation[w][e].status # "absent"
    OBVIOUS
  <2> QED BY <1>1, <1>6, <1>8, <2>1, <2>2, <2>3, <2>4, <2>5, <2>6 DEF EvaluationInv
<1>13. ASSUME NEW v \in Weeks, NEW s \in Scorers PROVE ScoreInv(v, s)'
  <2>1. ScoreInv(v, s) /\ EvaluationOf(s) \in Evaluations
    BY Places DEF EvalInv
  <2> QED BY <1>8, <1>9, <2>1 DEF ScoreInv
<1> QED BY <1>7, <1>11, <1>12, <1>13 DEF EvalInv

\* In the first state nothing has been asked or scored.
LEMMA EvalInit == Init => EvalInv
<1> SUFFICES ASSUME Init PROVE EvalInv
  OBVIOUS
<1>1. <<>> \in Results /\ DOMAIN <<>> = {}
  <2>1. <<>> \in [{} -> Verdict]
    OBVIOUS
  <2> QED BY <2>1 DEF Results
<1>2. TypeOK
  BY <1>1 DEF Init, TypeOK, Evaluating
<1>3. \A w \in Weeks : \A e \in Evaluations : EvaluationInv(w, e)
  BY <1>1 DEF Init, EvaluationInv
<1>4. \A w \in Weeks : \A s \in Scorers : ScoreInv(w, s)
  BY DEF Init, ScoreInv
<1> QED BY <1>2, <1>3, <1>4 DEF EvalInv

\* Of all evaluations this one changes.
OnlyThis(w, e) ==
    /\ evaluation' \in [Weeks -> [Evaluations -> Evaluating]]
    /\ \A v \in Weeks, f \in Evaluations : v # w \/ f # e => evaluation'[v][f] = evaluation[v][f]

\* A step that changes the status of an evaluation, or whether it asks for an attempt,
\* and no verdict.
LEMMA StatusKeeps ==
    ASSUME EvalInv, NEW w \in Weeks, NEW e \in Evaluations,
           evaluation[w][e].status \in {"absent", "running"}, Judged(w, Subject(e)) # {},
           OnlyThis(w, e),
           evaluation'[w][e].results = evaluation[w][e].results,
           evaluation'[w][e].status \in {"running", "failed"},
           evaluation'[w][e].status = "running" => Remaining(w, e) # {},
           evaluation'[w][e].asking => CurrentlyLinked(w, e) # {},
           UNCHANGED <<output, score>>
    PROVE  EvalInv'
<1>1. TypeOK'
  BY DEF EvalInv, TypeOK, OnlyThis
<1>4. \A v \in Weeks, f \in Evaluations : evaluation'[v][f].results = evaluation[v][f].results
  BY DEF OnlyThis
<1>5. \A v \in Weeks, f \in Evaluations :
        /\ Presented(v, Subject(f))' = Presented(v, Subject(f))
        /\ Remaining(v, f)' = Remaining(v, f)
        /\ CurrentlyLinked(v, f)' = CurrentlyLinked(v, f)
  BY <1>4 DEF Presented, Remaining, Current, CurrentTarget, CurrentlyLinked
<1>6. ASSUME NEW v \in Weeks, NEW f \in Evaluations PROVE EvaluationInv(v, f)'
  <2>1. EvaluationInv(v, f)
    BY DEF EvalInv
  <2>2. \A i \in DOMAIN evaluation[v][f].results : VerdictInv(v, f, i)'
    BY <1>4, <1>5, <2>1 DEF EvaluationInv, VerdictInv
  <2>3. CASE v = w /\ f = e
    BY <1>5, <2>1, <2>2, <2>3 DEF EvaluationInv
  <2>4. CASE ~(v = w /\ f = e)
    BY <2>1, <2>4, SameEvaluation DEF OnlyThis
  <2> QED BY <2>3, <2>4
<1>7. ASSUME NEW v \in Weeks, NEW s \in Scorers PROVE ScoreInv(v, s)'
  <2>1. ScoreInv(v, s) /\ EvaluationOf(s) \in Evaluations
    BY Places DEF EvalInv
  <2> QED BY <2>1 DEF ScoreInv, OnlyThis
<1> QED BY <1>1, <1>6, <1>7 DEF EvalInv

\* Setting the status of an evaluation leaves its other fields and the other evaluations.
LEMMA StatusSet ==
    ASSUME TypeOK, NEW w \in Weeks, NEW e \in Evaluations,
           NEW status \in {"absent", "running", "done", "failed"}
    PROVE  evaluation' = [evaluation EXCEPT ![w][e].status = status] =>
            /\ OnlyThis(w, e)
            /\ evaluation'[w][e].status = status
            /\ evaluation'[w][e].results = evaluation[w][e].results
            /\ evaluation'[w][e].asking = evaluation[w][e].asking
<1> DEFINE ev == evaluation[w][e]
           new == [status |-> status, results |-> ev.results, asking |-> ev.asking]
           set == [ev EXCEPT !.status = status]
<1>1. ev \in Evaluating
  BY DEF TypeOK
<1>2. set \in Evaluating /\ set = new
  BY <1>1 DEF Evaluating
<1>3. ASSUME evaluation' = [evaluation EXCEPT ![w][e].status = status]
      PROVE  evaluation' = [evaluation EXCEPT ![w][e] = set]
  BY <1>3
<1> HIDE DEF set
<1>4. evaluation' = [evaluation EXCEPT ![w][e] = set] => OnlyThis(w, e) /\ evaluation'[w][e] = set
  BY <1>2 DEF TypeOK, OnlyThis
<1>5. evaluation' = [evaluation EXCEPT ![w][e] = set] => OnlyThis(w, e) /\ evaluation'[w][e] = new
  BY <1>2, <1>4
<1>6. OnlyThis(w, e) /\ evaluation'[w][e] = new =>
            /\ OnlyThis(w, e)
            /\ evaluation'[w][e].status = status
            /\ evaluation'[w][e].results = evaluation[w][e].results
            /\ evaluation'[w][e].asking = evaluation[w][e].asking
  OBVIOUS
<1> HIDE DEF new
<1> QED BY Zenon, <1>3, <1>5, <1>6

\* So does setting whether it asks for an attempt.
LEMMA AskingSet ==
    ASSUME TypeOK, NEW w \in Weeks, NEW e \in Evaluations,
           NEW asking \in BOOLEAN
    PROVE  evaluation' = [evaluation EXCEPT ![w][e].asking = asking] =>
            /\ OnlyThis(w, e)
            /\ evaluation'[w][e].status = evaluation[w][e].status
            /\ evaluation'[w][e].results = evaluation[w][e].results
<1> DEFINE ev == evaluation[w][e]
           new == [status |-> ev.status, results |-> ev.results, asking |-> asking]
           set == [ev EXCEPT !.asking = asking]
<1>1. ev \in Evaluating
  BY DEF TypeOK
<1>2. set \in Evaluating /\ set = new
  BY <1>1 DEF Evaluating
<1>3. ASSUME evaluation' = [evaluation EXCEPT ![w][e].asking = asking]
      PROVE  evaluation' = [evaluation EXCEPT ![w][e] = set]
  BY <1>3
<1> HIDE DEF set
<1>4. evaluation' = [evaluation EXCEPT ![w][e] = set] => OnlyThis(w, e) /\ evaluation'[w][e] = set
  BY <1>2 DEF TypeOK, OnlyThis
<1>5. evaluation' = [evaluation EXCEPT ![w][e] = set] => OnlyThis(w, e) /\ evaluation'[w][e] = new
  BY <1>2, <1>4
<1>6. OnlyThis(w, e) /\ evaluation'[w][e] = new =>
            /\ OnlyThis(w, e)
            /\ evaluation'[w][e].status = evaluation[w][e].status
            /\ evaluation'[w][e].results = evaluation[w][e].results
  OBVIOUS
<1> HIDE DEF new
<1> QED BY Zenon, <1>3, <1>5, <1>6

\* A scorer records the grade of its evaluation, or why there is none.
LEMMA RecordKeeps ==
    ASSUME EvalInv, NEW w \in Weeks, NEW s \in Scorers, NEW value, Record(w, s, value),
           LET ev == evaluation[w][EvaluationOf(s)]
           IN  \/ value = NoScore /\ Judged(w, s) = {}
               \/ value = Raised /\ ev.status = "failed"
               \/ /\ ev.status = "done"
                  /\ value = Fraction(Grade(s, ev.results), Cardinality(DOMAIN ev.results))
    PROVE  EvalInv'
<1>1. TypeOK'
  BY DEF Record, EvalInv, TypeOK
<1>2. \A v \in Weeks, u \in Scorers :
        score'[v][u] = IF v = w /\ u = s THEN value ELSE score[v][u]
  BY DEF Record, EvalInv, TypeOK
<1>3. \A v \in Weeks, e \in Evaluations : EvaluationInv(v, e)'
  BY SameEvaluation DEF Record, EvalInv
<1>4. ASSUME NEW v \in Weeks, NEW u \in Scorers PROVE ScoreInv(v, u)'
  <2>1. ScoreInv(v, u)
    BY DEF EvalInv
  <2>2. evaluation' = evaluation
    BY DEF Record
  <2> QED BY <1>2, <2>1, <2>2 DEF ScoreInv
<1> QED BY <1>1, <1>3, <1>4 DEF EvalInv

\* Every step keeps the invariant.
LEMMA EvalNext == EvalInv /\ [Next]_vars => EvalInv'
<1> SUFFICES ASSUME EvalInv, [Next]_vars PROVE EvalInv'
  OBVIOUS
<1>1. ASSUME NEW w \in Weeks, NEW s \in Scorers, Ask(w, s) PROVE EvalInv'
  <2> DEFINE e == EvaluationOf(s)
  <2>1. e \in Evaluations /\ Judged(w, Subject(e)) # {}
    BY <1>1, Places DEF Ask
  <2>2. /\ evaluation[w][e].status = "absent"
        /\ evaluation' = [evaluation EXCEPT ![w][e].status = "running"]
        /\ UNCHANGED <<output, score>>
    BY <1>1 DEF Ask
  <2> HIDE DEF e
  <2>3. EvaluationInv(w, e) /\ evaluation[w][e].asking \in BOOLEAN
    BY <2>1 DEF EvalInv, TypeOK, Evaluating
  <2>4. evaluation[w][e].asking = FALSE /\ Remaining(w, e) # {}
    BY <2>1, <2>2, <2>3 DEF EvaluationInv, Remaining
  <2>5. /\ OnlyThis(w, e)
        /\ evaluation'[w][e].results = evaluation[w][e].results
        /\ evaluation'[w][e].status = "running"
        /\ evaluation'[w][e].asking = FALSE
    BY <2>1, <2>2, <2>4, StatusSet DEF EvalInv
  <2> QED BY <2>1, <2>2, <2>4, <2>5, StatusKeeps
<1>2. ASSUME NEW w \in Weeks, NEW s \in Scorers, Score(w, s) PROVE EvalInv'
  BY <1>2, RecordKeeps DEF Score
<1>3. ASSUME NEW w \in Weeks, NEW e \in Evaluations, Unmatched(w, e) PROVE EvalInv'
  <2>1. Conclude(w, e, Result(CurrentlyLinked(w, e), FALSE, FALSE, CurrentTarget(w, e)))
    BY <1>3 DEF Unmatched
  <2> QED BY <1>3, <2>1, ConcludeKeeps DEF Unmatched
<1>4. ASSUME NEW w \in Weeks, NEW e \in Evaluations, JudgePair(w, e) PROVE EvalInv'
  <2>1. CASE Conclude(w, e, Result(CurrentlyLinked(w, e), TRUE, TRUE, CurrentTarget(w, e)))
    BY <1>4, <2>1, ConcludeKeeps DEF JudgePair
  <2>2. CASE evaluation' = [evaluation EXCEPT ![w][e].asking = TRUE]
    <3>1. EvaluationInv(w, e) /\ evaluation[w][e].status = "running"
      BY <1>4 DEF JudgePair, EvalInv
    <3>2. /\ OnlyThis(w, e)
          /\ evaluation'[w][e].results = evaluation[w][e].results
          /\ evaluation'[w][e].status = "running"
      BY <2>2, <3>1, AskingSet DEF EvalInv
    <3>3. /\ Judged(w, Subject(e)) # {}
          /\ Remaining(w, e) # {}
          /\ CurrentlyLinked(w, e) # {}
          /\ UNCHANGED <<output, score>>
      BY <1>4, <3>1 DEF JudgePair, EvaluationInv
    <3> QED BY <3>1, <3>2, <3>3, StatusKeeps
  <2> QED BY <1>4, <2>1, <2>2 DEF JudgePair
<1>5. ASSUME NEW w \in Weeks, NEW e \in Evaluations, JudgeAttempt(w, e) PROVE EvalInv'
  <2>1. PICK attempted \in BOOLEAN :
            Conclude(w, e, Result(CurrentlyLinked(w, e), FALSE, attempted, CurrentTarget(w, e)))
    BY <1>5 DEF JudgeAttempt
  <2>2. CurrentlyLinked(w, e) # {}
    BY <1>5 DEF JudgeAttempt, EvalInv, EvaluationInv
  <2> QED BY <1>5, <2>1, <2>2, ConcludeKeeps DEF JudgeAttempt
<1>6. ASSUME NEW w \in Weeks, NEW e \in Evaluations, JudgeFails(w, e) PROVE EvalInv'
  <2>1. EvaluationInv(w, e) /\ evaluation[w][e].asking \in BOOLEAN
    BY DEF EvalInv, TypeOK, Evaluating
  <2>2. /\ OnlyThis(w, e)
        /\ evaluation'[w][e].results = evaluation[w][e].results
        /\ evaluation'[w][e].status = "failed"
    BY <1>6, <2>1, StatusSet DEF JudgeFails, EvalInv
  <2>3. /\ evaluation[w][e].status = "running"
        /\ Judged(w, Subject(e)) # {}
        /\ CurrentlyLinked(w, e) # {}
        /\ UNCHANGED <<output, score>>
    BY <1>6, <2>1 DEF JudgeFails, EvaluationInv
  <2> QED BY <2>1, <2>2, <2>3, StatusKeeps
<1>7. ASSUME NEW w \in Weeks, JudgeEach(w) PROVE EvalInv'
  <2> DEFINE e == "candidate_independent_quality"
  <2>1. PICK passing \in SUBSET CurrentlyLinked(w, e) :
            Conclude(w, e, Result(CurrentlyLinked(w, e), passing # {}, FALSE, CurrentTarget(w, e)))
    BY <1>7 DEF JudgeEach
  <2>2. e \in Evaluations /\ e # "shared" /\ (passing # {}) \in BOOLEAN
    BY DEF Evaluations, Scorers, OfCandidates
  <2> QED BY <1>7, <2>1, <2>2, ConcludeKeeps DEF JudgeEach
<1>8. CASE UNCHANGED vars
  <2>1. output' = output /\ evaluation' = evaluation /\ score' = score
    BY <1>8 DEF vars
  <2> QED BY <2>1, SameEvaluation DEF EvalInv, TypeOK, ScoreInv
<1> QED BY <1>1, <1>2, <1>3, <1>4, <1>5, <1>6, <1>7, <1>8 DEF Next

\* The scores rest on this.
LEMMA EvalInvariant == Spec => []EvalInv
BY EvalInit, EvalNext, PTL DEF Spec

-----------------------------------------------------------------------------
(* Counting *)

\* Two subsets of a finite set, the part they share and the whole.
LEMMA Overlap ==
    ASSUME NEW D, IsFiniteSet(D), NEW P \in SUBSET D, NEW V \in SUBSET D
    PROVE  /\ Cardinality(P \cap V) <= Cardinality(P)
           /\ Cardinality(P \cap V) <= Cardinality(V)
           /\ Cardinality(P) + Cardinality(V) <= Cardinality(P \cap V) + Cardinality(D)
<1>1. IsFiniteSet(P) /\ IsFiniteSet(V)
  BY FS_Subset
<1>2. /\ Cardinality(P \cap V) <= Cardinality(P)
      /\ Cardinality(P \cap V) <= Cardinality(V)
      /\ IsFiniteSet(P \cap V)
  <2>1. P \cap V \in SUBSET P /\ P \cap V \in SUBSET V
    OBVIOUS
  <2> QED BY <1>1, <2>1, FS_Subset
<1>3. Cardinality(P \cup V) = Cardinality(P) + Cardinality(V) - Cardinality(P \cap V)
  BY <1>1, FS_Union
<1>4. Cardinality(P \cup V) <= Cardinality(D)
  <2>1. P \cup V \in SUBSET D
    OBVIOUS
  <2> QED BY <2>1, FS_Subset
<1>5. /\ Cardinality(P) \in Nat /\ Cardinality(V) \in Nat /\ Cardinality(D) \in Nat
      /\ Cardinality(P \cap V) \in Nat /\ Cardinality(P \cup V) \in Nat
  <2>1. IsFiniteSet(P \cup V)
    BY <1>1, FS_Union
  <2> QED BY <1>1, <1>2, <2>1, FS_CardinalityType
<1> QED BY <1>2, <1>3, <1>4, <1>5

\* What is counted is a number of places.
Passed(r) == {i \in DOMAIN r : r[i].passed}
Attempted(r) == {i \in DOMAIN r : r[i].attempted}
Valid(r) == {i \in DOMAIN r : r[i].valid}
LEMMA Grades ==
    ASSUME NEW r
    PROVE  /\ \A s \in {"opinion_quality"} \cup OfCandidates : Grade(s, r) = Cardinality(Passed(r))
           /\ Grade("opinion_attempted", r) = Cardinality(Attempted(r))
           /\ Grade("operation_accuracy", r) = Cardinality(Valid(r))
           /\ Grade("opinion_quality_v2", r) = Cardinality(Passed(r) \cap Valid(r))
<1>1. \A s \in {"opinion_quality"} \cup OfCandidates : Grade(s, r) = Cardinality(Passed(r))
  BY DEF Grade, Count, Passed, OfCandidates
<1>2. Grade("opinion_attempted", r) = Cardinality(Attempted(r))
  BY DEF Grade, Count, Attempted, OfCandidates
<1>3. Grade("operation_accuracy", r) = Cardinality(Valid(r))
  BY DEF Grade, Count, Valid, OfCandidates
<1>4. Grade("opinion_quality_v2", r) = Cardinality(Passed(r) \cap Valid(r))
  <2>1. Passed(r) \cap Valid(r) = {i \in DOMAIN r : r[i].passed /\ r[i].valid}
    BY DEF Passed, Valid
  <2> QED BY <2>1 DEF Grade, Count, OfCandidates
<1> QED BY <1>1, <1>2, <1>3, <1>4

\* Rounding a fraction of n times n gives back its numerator.
LEMMA RoundedIs ==
    ASSUME NEW p \in Nat, NEW n \in Nat \ {0}
    PROVE  Rounded(Fraction(p, n), n) = p
<1> DEFINE d == 2 * n
<1>1. Rounded(Fraction(p, n), n) = (2 * p * n + n) \div d
  BY DEF Rounded, Fraction
<1>2. 2 * p * n + n = p * d + n /\ d \in Nat \ {0} /\ n < d
  OBVIOUS
<1>3. \A c, a, b \in Nat : c > 0 /\ b < c => (a * c + b) \div c = a
  OBVIOUS
<1> QED BY <1>1, <1>2, <1>3

-----------------------------------------------------------------------------
(* The theorems *)

\* The kinds of scores differ.
LEMMA ScoreKinds ==
    /\ Unscored.is = "unscored" /\ NoScore.is = "none" /\ Raised.is = "raised"
    /\ \A num, den : Fraction(num, den).is = "score" /\ Fraction(num, den).num = num
BY DEF Unscored, NoScore, Raised, Fraction

\* A scored evaluation is complete, and its score is its grade.
LEMMA ScoredIsGraded ==
    ASSUME EvalInv, NEW w \in Weeks, NEW s \in Scorers, score[w][s].is = "score"
    PROVE  LET r == evaluation[w][EvaluationOf(s)].results
           IN  /\ DOMAIN r = Judged(w, s)
               /\ score[w][s] = Fraction(Grade(s, r), Cardinality(DOMAIN r))
<1> DEFINE e == EvaluationOf(s)
           r == evaluation[w][e].results
<1>1. evaluation[w][e].status = "done" /\ score[w][s] = Fraction(Grade(s, r), Cardinality(DOMAIN r))
  BY ScoreKinds DEF EvalInv, ScoreInv
<1>2. e \in Evaluations /\ Judged(w, Subject(e)) = Judged(w, s)
  BY Places
<1>3. EvaluationInv(w, e)
  BY <1>2 DEF EvalInv
<1>4. DOMAIN r = Judged(w, s)
  BY <1>1, <1>2, <1>3 DEF EvaluationInv, Remaining
<1> QED BY <1>1, <1>4

\* The scores of a week are numbers of places in one set of verdicts.
LEMMA GatedNumbers ==
    ASSUME EvalInv, NEW w \in Weeks, \A s \in Gated : score[w][s].is = "score"
    PROVE  LET r == evaluation[w]["shared"].results
           IN  /\ DOMAIN r = DOMAIN Targets[w]
               /\ Num(w, "opinion_quality") = Cardinality(Passed(r))
               /\ Num(w, "opinion_attempted") = Cardinality(Attempted(r))
               /\ Num(w, "operation_accuracy") = Cardinality(Valid(r))
               /\ Num(w, "opinion_quality_v2") = Cardinality(Passed(r) \cap Valid(r))
               /\ \A i \in DOMAIN r : VerdictInv(w, "shared", i)
<1> DEFINE r == evaluation[w]["shared"].results
<1>1. \A s \in Gated : s \in Scorers /\ EvaluationOf(s) = "shared" /\ Judged(w, s) = DOMAIN Targets[w]
  BY DEF Scorers, EvaluationOf, Gated, OfCandidates, Judged
<1>2. \A s \in Gated : /\ DOMAIN r = Judged(w, s)
                       /\ score[w][s] = Fraction(Grade(s, r), Cardinality(DOMAIN r))
  BY <1>1, ScoredIsGraded
<1>3. \A s \in Gated : Num(w, s) = Grade(s, r)
  BY <1>2, ScoreKinds DEF Num
<1>4. \A i \in DOMAIN r : VerdictInv(w, "shared", i)
  BY DEF EvalInv, EvaluationInv, Evaluations
<1> HIDE DEF r
<1>5. /\ Num(w, "opinion_quality") = Cardinality(Passed(r))
      /\ Num(w, "opinion_attempted") = Cardinality(Attempted(r))
      /\ Num(w, "operation_accuracy") = Cardinality(Valid(r))
      /\ Num(w, "opinion_quality_v2") = Cardinality(Passed(r) \cap Valid(r))
  BY <1>3, Grades DEF Gated
<1>6. DOMAIN r = DOMAIN Targets[w]
  BY <1>1, <1>2 DEF Gated
<1> QED BY <1>4, <1>5, <1>6 DEF r

\* Counting passed, attempted and valid verdicts.
LEMMA OneSet ==
    ASSUME EvalInv, NEW w \in Weeks, \A s \in Gated : score[w][s].is = "score"
    PROVE  FromOneEvaluation(w)
<1> DEFINE r == evaluation[w]["shared"].results
           D == DOMAIN Targets[w]
<1>1. /\ DOMAIN r = D
      /\ Num(w, "opinion_quality") = Cardinality(Passed(r))
      /\ Num(w, "opinion_attempted") = Cardinality(Attempted(r))
      /\ Num(w, "operation_accuracy") = Cardinality(Valid(r))
      /\ Num(w, "opinion_quality_v2") = Cardinality(Passed(r) \cap Valid(r))
      /\ \A i \in DOMAIN r : VerdictInv(w, "shared", i)
  BY GatedNumbers
<1>2. IsFiniteSet(D) /\ Cardinality(D) = Len(Targets[w])
  BY Places
<1>3. Passed(r) \in SUBSET Attempted(r)
  BY <1>1 DEF Passed, Attempted, VerdictInv
<1>4. Passed(r) \in SUBSET D /\ Attempted(r) \in SUBSET D /\ Valid(r) \in SUBSET D
  BY <1>1 DEF Passed, Attempted, Valid
<1> HIDE DEF r, D
<1>5. Cardinality(Passed(r)) <= Cardinality(Attempted(r))
  <2>1. IsFiniteSet(Attempted(r))
    BY <1>2, <1>4, FS_Subset
  <2> QED BY <1>3, <2>1, FS_Subset
<1>6. /\ Cardinality(Passed(r) \cap Valid(r)) <= Cardinality(Passed(r))
      /\ Cardinality(Passed(r) \cap Valid(r)) <= Cardinality(Valid(r))
      /\ Cardinality(Passed(r)) + Cardinality(Valid(r))
           <= Cardinality(Passed(r) \cap Valid(r)) + Cardinality(D)
  BY <1>2, <1>4, Overlap
<1> QED BY <1>1, <1>2, <1>5, <1>6 DEF FromOneEvaluation

\* What the verdicts say of the evidence that is cited.
LEMMA SameEvidence ==
    ASSUME EvalInv, NEW w \in Weeks, \A s \in Gated : score[w][s].is = "score"
    PROVE  WithinEvidence(w)
<1> DEFINE r == evaluation[w]["shared"].results
           D == DOMAIN Targets[w]
           proposals == output[w].proposals
           shared == Converted(w) \cap CitedBy(proposals)
           linked(i) == Linked(proposals, Targets[w][i])
<1>1. /\ DOMAIN r = D
      /\ Num(w, "opinion_attempted") = Cardinality(Attempted(r))
      /\ Num(w, "operation_accuracy") = Cardinality(Valid(r))
      /\ \A i \in DOMAIN r : VerdictInv(w, "shared", i)
  BY GatedNumbers
<1>2. \A i \in D : /\ r[i].valid <=> OperationValid(Targets[w][i], linked(i))
                   /\ r[i].attempted => linked(i) # {}
  <2>1. Presented(w, Subject("shared")) = proposals
    BY DEF Presented, Subject, OfCandidates
  <2> QED BY <1>1, <2>1 DEF VerdictInv
<1>3. IsFiniteSet(D) /\ Cardinality(D) = Len(Targets[w])
  BY Places
<1>4. \A x : x \in Converted(w) <=> \E i \in D : x \in Targets[w][i].sources
  BY DEF Converted, Range
<1>5. ASSUME Num(w, "operation_accuracy") = Len(Targets[w])
      PROVE  EvidenceRecall(w).num = EvidenceRecall(w).den
  <2>1. Valid(r) = D
    <3>1. Valid(r) \in SUBSET D
      BY <1>1 DEF Valid
    <3>2. Cardinality(D) = Cardinality(Valid(r))
      BY <1>1, <1>3, <1>5
    <3> HIDE DEF r, D
    <3> QED BY <1>3, <3>1, <3>2, FS_Subset
  <2>2. ASSUME NEW i \in D PROVE Targets[w][i].sources \subseteq CitedBy(proposals)
    <3>1. OperationValid(Targets[w][i], linked(i))
      BY <1>1, <1>2, <2>1 DEF Valid
    <3>2. linked(i) \subseteq proposals
      BY DEF Linked
    <3>3. CitedBy(linked(i)) \subseteq CitedBy(proposals)
      BY <3>2 DEF CitedBy
    <3> QED BY <3>1, <3>3 DEF OperationValid
  <2>3. shared = Converted(w)
    BY <1>4, <2>2
  <2> QED BY <2>3 DEF EvidenceRecall
<1>6. ASSUME EvidenceRecall(w).num = 0
      PROVE  Num(w, "opinion_attempted") = 0 /\ EvidencePrecision(w).num = 0
  <2>1. shared = {}
    <3>1. Cardinality(shared) = 0
      BY <1>6 DEF EvidenceRecall
    <3>2. shared \in SUBSET Selected[w] /\ IsFiniteSet(Selected[w])
      BY ScoringAssumption DEF WeekPartition
    <3>3. IsFiniteSet(shared)
      BY <3>2, FS_Subset
    <3> QED BY <3>1, <3>3, FS_EmptySet
  <2>2. Attempted(r) = {}
    <3>1. ASSUME NEW i \in D, linked(i) # {} PROVE FALSE
      <4>1. PICK p \in proposals : p.evidence \cap Targets[w][i].sources # {}
        BY <3>1 DEF Linked
      <4>2. PICK x \in p.evidence : x \in Targets[w][i].sources
        BY <4>1
      <4>3. x \in Converted(w) /\ x \in CitedBy(proposals)
        BY <1>4, <4>1, <4>2 DEF CitedBy
      <4> QED BY <2>1, <4>3
    <3> QED BY <1>1, <1>2, <3>1 DEF Attempted
  <2>3. Num(w, "opinion_attempted") = 0
    BY <1>1, <2>2, FS_EmptySet
  <2> DEFINE inWeek == CitedBy(proposals) \cap (Converted(w) \cup NotConverted[w])
  <2>4. inWeek \ NotConverted[w] = {}
    BY <2>1
  <2>5. EvidencePrecision(w).num = 0
    BY <2>4, FS_EmptySet DEF EvidencePrecision
  <2> QED BY <2>3, <2>5
<1> QED BY <1>5, <1>6 DEF WithinEvidence

\* In the states of the invariant the scores agree.
LEMMA AgreeInv == EvalInv => ScoresAgree
<1> SUFFICES ASSUME EvalInv PROVE ScoresAgree
  OBVIOUS
<1>1. ASSUME NEW w \in Weeks, NEW s \in Gated, NEW u \in Gated, score[w][s] = Raised
      PROVE  score[w][u] \in {Raised, Unscored}
  <2>1. /\ s \in Scorers /\ EvaluationOf(s) = "shared"
        /\ u \in Scorers /\ EvaluationOf(u) = "shared"
        /\ Judged(w, s) = Judged(w, u) /\ Judged(w, u) = Judged(w, Subject("shared"))
        /\ "shared" \in Evaluations
    BY DEF Scorers, EvaluationOf, Gated, OfCandidates, Judged, Subject, Evaluations
  <2>2. evaluation[w]["shared"].status = "failed"
    <3>1. score[w][s].is = "raised"
      BY <1>1, ScoreKinds
    <3>2. ScoreInv(w, s)
      BY <2>1 DEF EvalInv
    <3> QED BY <2>1, <3>1, <3>2, ScoreKinds DEF ScoreInv
  <2>3. Judged(w, u) # {}
    BY <2>1, <2>2 DEF EvalInv, EvaluationInv
  <2> QED BY <2>1, <2>2, <2>3 DEF EvalInv, ScoreInv
<1> QED BY <1>1, OneSet, SameEvidence DEF ScoresAgree

\* Whatever the judge answers and in whatever order the scorers ask for it, the
\* scores of a week are of one set of verdicts (_shared_evaluation), agree with the
\* evidence that is cited, and fail together.
THEOREM ScoresOfAWeekAgree == Spec => []ScoresAgree
BY EvalInvariant, AgreeInv, PTL

\* In the states of the invariant the summary recovers the counts.
LEMMA SummaryInv == EvalInv => SummaryCountsTargets
<1> SUFFICES ASSUME EvalInv, NEW name \in {"opinion_quality"} \cup OfCandidates
             PROVE  Summary(name) =
                [passed |-> SumFunction([w \in WeeksScored(name) |->
                        Count(evaluation[w][EvaluationOf(name)].results, LAMBDA r : r.passed)]),
                 total |-> SumFunction([w \in WeeksScored(name) |->
                        Cardinality(DOMAIN evaluation[w][EvaluationOf(name)].results)])]
  BY DEF SummaryCountsTargets
<1> DEFINE results(w) == evaluation[w][EvaluationOf(name)].results
           recovered == [w \in WeeksScored(name) |-> Rounded(score[w][name], Eligible(name, w))]
           counted == [w \in WeeksScored(name) |-> Count(results(w), LAMBDA r : r.passed)]
           eligible == [w \in WeeksScored(name) |-> Eligible(name, w)]
           judged == [w \in WeeksScored(name) |-> Cardinality(DOMAIN results(w))]
<1>1. ASSUME NEW w \in WeeksScored(name)
      PROVE  /\ Rounded(score[w][name], Eligible(name, w)) = Count(results(w), LAMBDA r : r.passed)
             /\ Eligible(name, w) = Cardinality(DOMAIN results(w))
  <2>1. w \in Weeks /\ name \in Scorers /\ score[w][name].is = "score" /\ Eligible(name, w) > 0
    BY DEF WeeksScored, Scorers, Gated
  <2>2. /\ DOMAIN results(w) = Judged(w, name)
        /\ score[w][name] = Fraction(Grade(name, results(w)), Cardinality(DOMAIN results(w)))
    BY <2>1, ScoredIsGraded
  <2>3. Count(results(w), LAMBDA r : r.passed) = Cardinality(Passed(results(w)))
    BY DEF Count, Passed
  <2>4. Grade(name, results(w)) = Cardinality(Passed(results(w)))
    BY Grades
  <2>5. /\ IsFiniteSet(Judged(w, name))
        /\ IsFiniteSet(Passed(results(w)))
    <3>1. Judged(w, name) \in SUBSET DOMAIN Targets[w] /\ IsFiniteSet(DOMAIN Targets[w])
      BY <2>1, Places DEF Judged
    <3>2. IsFiniteSet(Judged(w, name))
      BY <3>1, FS_Subset
    <3>3. Passed(results(w)) \in SUBSET Judged(w, name)
      BY <2>2 DEF Passed
    <3> QED BY <3>2, <3>3, FS_Subset
  <2>6. Cardinality(Judged(w, name)) \in Nat /\ Cardinality(Passed(results(w))) \in Nat
    BY <2>5, FS_CardinalityType
  <2>7. Eligible(name, w) = Cardinality(Judged(w, name))
    BY DEF Eligible
  <2> HIDE DEF results
  <2> QED BY <2>1, <2>2, <2>3, <2>4, <2>6, <2>7, RoundedIs
<1>2. recovered = counted /\ eligible = judged
  BY <1>1
<1> HIDE DEF recovered, counted, eligible, judged
<1>3. SumFunction(recovered) = SumFunction(counted) /\ SumFunction(eligible) = SumFunction(judged)
  BY <1>2
<1> QED BY <1>3 DEF Summary, recovered, counted, eligible, judged

\* Over any weeks, summarize_target_weighted_quality prints how many of the targets
\* that were judged passed, though it sees only rounded fractions.
THEOREM SummaryIsOfTargets == Spec => []SummaryCountsTargets
BY EvalInvariant, SummaryInv, PTL
=============================================================================
