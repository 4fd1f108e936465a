--------------------------- MODULE CandidateReview ---------------------------
(***************************************************************************)
(* The candidate file of a batch (agent.py): the agent writes and edits    *)
(* candidate-opinions.jsonl with its file tools, has it validated, and has *)
(* the consolidators' decisions validated against it.  The structure that  *)
(* the first validation saw is kept in the closure of a tool, so it lives  *)
(* as long as one harness run, which is one turn; the file stays in the    *)
(* bundle from turn to turn and from one run of the batch to the next.     *)
(* The validation of a decision loads the file afresh and knows nothing of *)
(* that structure: a decision may rest on a file that was never validated, *)
(* or was rewritten since.                                                 *)
(*                                                                         *)
(* Opinion text is left out: critics may change it at any time.  A section *)
(* is frozen like the id and left out.  The agent is a model: it may write *)
(* any file and hand over any decision, at any point of a turn.            *)
(***************************************************************************)
EXTENDS Naturals, Sequences, FiniteSets, SequencesExt

CONSTANTS
    CandidateIds, Opinions,
    Selected,   \* selected-highlights.jsonl of the batch
    Files,      \* what the agent may write: sequences of rows
    None,       \* no file, or nothing validated yet
    MaxAttempts, MaxTurns, MaxResults  \* runs of the batch, turns of a run, results of a turn

ASSUME CandidateAssumption ==
    /\ None \notin Files
    /\ \A file \in Files : \A i \in DOMAIN file :
        file[i].id \in CandidateIds /\ file[i].evidence \in Seq(STRING \cup Selected)

VARIABLES
    file,                \* candidate-opinions.jsonl
    writer,              \* the run that wrote it
    attempt, turn,       \* run of the batch, turn_seq; inTurn: the harness runs
    inTurn,
    opinions,            \* ids in OPINIONS.md
    validatedStructure,  \* validated_structure of the tool
    confirmed,           \* structures the tool has confirmed in this turn
    results              \* decisions that were validated in this turn
\* Both have the structure they are "of" and its writer.

turnVars == <<attempt, turn, inTurn>>
reviewVars == <<validatedStructure, confirmed, results>>
vars == <<file, writer, turnVars, opinions, reviewVars>>

Init ==
    /\ file = None /\ writer = 0
    /\ attempt = 1 /\ turn = 0 /\ inTurn = FALSE
    /\ opinions \in SUBSET Opinions
    /\ validatedStructure = None /\ confirmed = {} /\ results = {}

-----------------------------------------------------------------------------
(* The file *)

EvidenceOf(row) == ToSet(row.evidence)

\* Variant: evidence may have more than one owner.
WellFormedSharing(rows) ==
    \A i, j \in DOMAIN rows :
        /\ EvidenceOf(rows[i]) \subseteq Selected
        /\ i # j => rows[i].id # rows[j].id

\* OpinionCandidate and load_opinion_candidates: no duplicate, no row without
\* evidence, only evidence of this run, and one owner for each.
WellFormed(rows) ==
    \A i, j \in DOMAIN rows :
        /\ rows[i].evidence # <<>> /\ IsInjective(rows[i].evidence)
        /\ EvidenceOf(rows[i]) \subseteq Selected
        /\ i # j => rows[i].id # rows[j].id /\ EvidenceOf(rows[i]) \cap EvidenceOf(rows[j]) = {}

Loadable == file # None /\ WellFormed(file)

-----------------------------------------------------------------------------
(* Turns *)

\* Variant: the file of an earlier run of the batch is kept.
KeptFile == file

\* _execute_claimed_turn: the first turn removes the file.
FileAtStart == IF turn = 0 THEN None ELSE file

\* _run_harness: the tools are built anew for every turn.
StartTurn ==
    /\ ~inTurn /\ turn < MaxTurns
    /\ inTurn' = TRUE
    /\ file' = FileAtStart
    /\ validatedStructure' = None /\ confirmed' = {} /\ results' = {}
    /\ UNCHANGED <<writer, attempt, turn, opinions>>

\* The turn ends waiting for the user, or done.
EndTurn ==
    /\ inTurn
    /\ inTurn' = FALSE /\ turn' = turn + 1
    /\ UNCHANGED <<file, writer, attempt, opinions, reviewVars>>

\* The run fails or is interrupted, in a turn or between two; the batch is retried
\* with its own bundle, by a new run.
Retry ==
    /\ attempt < MaxAttempts
    /\ attempt' = attempt + 1 /\ turn' = 0 /\ inTurn' = FALSE
    /\ confirmed' = {} /\ results' = {} /\ validatedStructure' = None
    /\ UNCHANGED <<file, writer, opinions>>

\* The agent's write and edit tools.
Write(rows) ==
    /\ inTurn /\ rows # file
    /\ file' = rows /\ writer' = attempt
    /\ UNCHANGED <<turnVars, opinions, reviewVars>>

\* The agent adds or retires an opinion while it applies what was approved.
EditOpinions(opinion) ==
    /\ inTurn
    /\ opinions' = IF opinion \in opinions THEN opinions \ {opinion} ELSE opinions \cup {opinion}
    /\ UNCHANGED <<file, writer, turnVars, reviewVars>>

-----------------------------------------------------------------------------
(* Validation *)

\* Variant: the last structure validated is the one that counts.
AnyStructure == TRUE

\* "changed after initial validation"
SameStructure == validatedStructure = None \/ file = validatedStructure

\* validate_candidates; a refusal changes nothing.
ValidateCandidates ==
    /\ inTurn /\ Loadable /\ SameStructure
    /\ validatedStructure' = file
    /\ confirmed' = confirmed \cup {[of |-> file, writer |-> writer]}
    /\ UNCHANGED <<file, writer, turnVars, opinions, results>>

\* The evidence an attach or a revise may move: a non-empty part of the candidate's.
Movable(row) == SUBSET EvidenceOf(row) \ {{}}

\* validate_consolidation: independent, or attach and revise, which it treats alike.
ValidateConsolidation(row) ==
    /\ inTurn /\ Loadable /\ row \in ToSet(file)
    /\ Cardinality(results) < MaxResults
    /\ \E moved \in {{}} \cup (IF opinions = {} THEN {} ELSE Movable(row)) :
        results' = results \cup
            {[candidate |-> row.id, moved |-> moved, remaining |-> EvidenceOf(row) \ moved,
              of |-> file, writer |-> writer]}
    /\ UNCHANGED <<file, writer, turnVars, opinions, validatedStructure, confirmed>>

Next ==
    \/ StartTurn \/ EndTurn \/ Retry
    \/ \E rows \in Files : Write(rows)
    \/ \E opinion \in Opinions : EditOpinions(opinion)
    \/ ValidateCandidates
    \/ IF file = None THEN FALSE ELSE \E row \in ToSet(file) : ValidateConsolidation(row)

Spec == Init /\ [][Next]_vars

-----------------------------------------------------------------------------
(* Properties *)

\* Two decisions are comparable if they are of one structure of the file, or each
\* of a structure that validate_candidates has confirmed in the turn.
Comparable(p, q) ==
    p.of = q.of \/ {p.of, q.of} \subseteq {c.of : c \in confirmed}

\* What the decisions on two candidates move and leave never meets, so no evidence
\* ends in two proposals, if both are of one structure, or of structures that
\* were confirmed in the turn, whatever was written in between: a decision
\* looks at one candidate only, and relies on the load for the others and on
\* validate_candidates for the decisions made before a rewrite.  Nothing is said
\* of a decision on a file that was rewritten and not validated again.
EvidenceMovesOnce ==
    \A p, q \in results :
        Comparable(p, q) /\ p.candidate # q.candidate =>
            (p.moved \cup p.remaining) \cap (q.moved \cup q.remaining) = {}

\* Whatever the tools confirm or decide on was written by the run that asks, though
\* the bundle still holds the file of the run that failed before it (RUN-7C: a
\* retry recreates the candidates).
DecidesOnOwnFile == \A p \in confirmed \cup results : p.writer = attempt
=============================================================================
