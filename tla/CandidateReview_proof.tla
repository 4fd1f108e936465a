------------------------ MODULE CandidateReview_proof ------------------------
(***************************************************************************)
(* Theorems about CandidateReview, for any files the agent may write, any  *)
(* number of runs of the batch, of turns and of decisions.                 *)
(***************************************************************************)
EXTENDS CandidateReview, TLAPS

-----------------------------------------------------------------------------
(* Decisions *)

\* A decision divides the evidence of one row of the file it was validated against.
Divides(result) ==
    /\ WellFormed(result.of)
    /\ \E i \in DOMAIN result.of :
        /\ result.of[i].id = result.candidate
        /\ result.moved \cup result.remaining = EvidenceOf(result.of[i])

DecisionInv == \A result \in results : Divides(result)

\* A decision that validate_consolidation accepts divides the row it names.
LEMMA AcceptedDivides ==
    ASSUME NEW row, ValidateConsolidation(row), DecisionInv
    PROVE  DecisionInv'
<1>1. PICK moved \in {{}} \cup (IF opinions = {} THEN {} ELSE Movable(row)) :
        results' = results \cup
            {[candidate |-> row.id, moved |-> moved, remaining |-> EvidenceOf(row) \ moved,
              of |-> file, writer |-> writer]}
  BY DEF ValidateConsolidation
<1> DEFINE new == [candidate |-> row.id, moved |-> moved,
                   remaining |-> EvidenceOf(row) \ moved, of |-> file, writer |-> writer]
<1>2. moved \subseteq EvidenceOf(row)
  BY DEF Movable
<1>3. PICK i \in DOMAIN file : file[i] = row
  BY DEF ValidateConsolidation, ToSet
<1>4. /\ new.of = file /\ new.candidate = row.id
      /\ new.moved = moved /\ new.remaining = EvidenceOf(row) \ moved
  OBVIOUS
<1> HIDE DEF new
<1>5. Divides(new)
  BY <1>2, <1>3, <1>4 DEF Divides, ValidateConsolidation, Loadable
<1> QED BY <1>1, <1>5 DEF DecisionInv, new

\* Every other step keeps the decisions or forgets them.
LEMMA DecisionStep == DecisionInv /\ [Next]_vars => DecisionInv'
<1> SUFFICES ASSUME DecisionInv, [Next]_vars PROVE DecisionInv'
  OBVIOUS
<1>1. ASSUME results' \in {results, {}} PROVE DecisionInv'
  BY <1>1 DEF DecisionInv
<1>2. ASSUME NEW row, ValidateConsolidation(row) PROVE DecisionInv'
  BY <1>2, AcceptedDivides
<1>3. CASE \E row : ValidateConsolidation(row)
  BY <1>2, <1>3
<1>4. CASE ~\E row : ValidateConsolidation(row)
  <2>1. results' \in {results, {}}
    BY <1>4 DEF Next, vars, turnVars, reviewVars, StartTurn, EndTurn, Retry, Write,
       EditOpinions, ValidateCandidates
  <2> QED BY <1>1, <2>1
<1> QED BY <1>3, <1>4

\* What was confirmed in a turn is the one structure the tool holds.
ConfirmedInv == \A c \in confirmed : c.of # None /\ c.of = validatedStructure

\* Every step keeps what the tool holds, once it has confirmed it, or starts anew.
LEMMA ConfirmedStep == ConfirmedInv /\ [Next]_vars => ConfirmedInv'
<1> SUFFICES ASSUME ConfirmedInv, [Next]_vars PROVE ConfirmedInv'
  OBVIOUS
<1> USE DEF ConfirmedInv
<1>1. CASE confirmed' = {}
  BY <1>1
<1>2. CASE UNCHANGED <<validatedStructure, confirmed>>
  BY <1>2
<1>3. CASE ValidateCandidates
  BY <1>3 DEF ValidateCandidates, Loadable, SameStructure
<1> QED BY <1>1, <1>2, <1>3 DEF Next, vars, turnVars, reviewVars, StartTurn, EndTurn, Retry,
        Write, EditOpinions, ValidateConsolidation

\* No evidence ends in two proposals over one structure of the file, or over all
\* that a turn has had confirmed, whatever the agent writes in between.
THEOREM EvidenceIsMovedOnce == Spec => []EvidenceMovesOnce
<1>1. Init => DecisionInv /\ ConfirmedInv
  BY DEF Init, DecisionInv, ConfirmedInv
<1>2. DecisionInv /\ ConfirmedInv => EvidenceMovesOnce
  <2> SUFFICES ASSUME DecisionInv, ConfirmedInv, NEW p \in results, NEW q \in results,
                      Comparable(p, q), p.candidate # q.candidate
               PROVE  (p.moved \cup p.remaining) \cap (q.moved \cup q.remaining) = {}
    BY DEF EvidenceMovesOnce
  <2>0. p.of = q.of
    BY DEF Comparable, ConfirmedInv
  <2>1. PICK i \in DOMAIN p.of :
          /\ p.of[i].id = p.candidate
          /\ p.moved \cup p.remaining = EvidenceOf(p.of[i])
    BY DEF DecisionInv, Divides
  <2>2. PICK j \in DOMAIN p.of :
          /\ p.of[j].id = q.candidate
          /\ q.moved \cup q.remaining = EvidenceOf(p.of[j])
    BY <2>0 DEF DecisionInv, Divides
  <2>3. i # j
    BY <2>1, <2>2
  <2>4. WellFormed(p.of)
    BY DEF DecisionInv, Divides
  <2>5. EvidenceOf(p.of[i]) \cap EvidenceOf(p.of[j]) = {}
    BY <2>3, <2>4 DEF WellFormed
  <2> QED BY <2>1, <2>2, <2>5
<1> QED BY DecisionStep, ConfirmedStep, <1>1, <1>2, PTL DEF Spec

-----------------------------------------------------------------------------
(* The writer *)

\* A file that a turn of this run may see was written by the run, since its first
\* turn has removed what was there.
OwnFile == file # None /\ (inTurn \/ turn > 0) => writer = attempt

WriterInv == turn \in Nat /\ OwnFile /\ DecidesOnOwnFile

\* Every step keeps the file of a run its own.
LEMMA WriterStep == WriterInv /\ [Next]_vars => WriterInv'
<1> SUFFICES ASSUME WriterInv, [Next]_vars PROVE WriterInv'
  OBVIOUS
<1> USE DEF WriterInv, OwnFile, DecidesOnOwnFile
<1>1. ASSUME StartTurn PROVE WriterInv'
  BY <1>1 DEF StartTurn, FileAtStart
<1>2. ASSUME EndTurn PROVE WriterInv'
  BY <1>2 DEF EndTurn, reviewVars
<1>3. ASSUME Retry PROVE WriterInv'
  BY <1>3 DEF Retry
<1>4. ASSUME NEW rows \in Files, Write(rows) PROVE WriterInv'
  BY <1>4 DEF Write, turnVars, reviewVars
<1>5. ASSUME NEW opinion \in Opinions, EditOpinions(opinion) PROVE WriterInv'
  BY <1>5 DEF EditOpinions, turnVars, reviewVars
<1>6. ASSUME ValidateCandidates PROVE WriterInv'
  BY <1>6 DEF ValidateCandidates, Loadable, turnVars
<1>7. ASSUME NEW row, ValidateConsolidation(row) PROVE WriterInv'
  BY <1>7 DEF ValidateConsolidation, Loadable, turnVars
<1>8. CASE UNCHANGED vars
  BY <1>8 DEF vars, turnVars, reviewVars
<1> QED BY <1>1, <1>2, <1>3, <1>4, <1>5, <1>6, <1>7, <1>8 DEF Next

\* What the tools confirm or decide on was written by the run itself, never by the
\* run of the batch that failed before it.
THEOREM RunDecidesOnOwnFile == Spec => []DecidesOnOwnFile
<1>1. Init => WriterInv
  BY DEF Init, WriterInv, OwnFile, DecidesOnOwnFile
<1>2. WriterInv => DecidesOnOwnFile
  BY DEF WriterInv
<1> QED BY WriterStep, <1>1, <1>2, PTL DEF Spec
=============================================================================
