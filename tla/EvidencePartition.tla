-------------------------- MODULE EvidencePartition --------------------------
(***************************************************************************)
(* partition_evidence (cycles.py): the evidence of a week is cut into the  *)
(* batches that are reviewed one after the other.  The rows are grouped by *)
(* document; for a batch count, the best legal boundaries between groups   *)
(* are sought, and as long as there are none a group is split in two; when *)
(* every group is one row the next count is tried.                         *)
(*                                                                         *)
(* Rows are numbered in their sorted order (highlighted_at, highlight_id), *)
(* and the number stands for the id where ids break a tie.  Distances to   *)
(* the row target are multiplied by the batch count to stay integers.      *)
(***************************************************************************)
EXTENDS Integers, Sequences, FiniteSetsExt, SequencesExt

CONSTANTS
    Inputs,                        \* sequences: the document of each row
    MaxDocuments, MaxEvidenceRows  \* limits of a batch

ASSUME PartitionAssumption ==
    /\ \A input \in Inputs : Len(input) \in Nat \ {0}
    /\ {MaxDocuments, MaxEvidenceRows} \subseteq Nat \ {0, 1}

VARIABLES
    documentOf,   \* the sorted rows
    segments,     \* pieces of documents, in order
    batchCount,
    batches       \* the result, a sequence of sequences of rows

vars == <<documentOf, segments, batchCount, batches>>

-----------------------------------------------------------------------------
(* Rows and documents *)

Total == Len(documentOf)
Documents(rows) == {documentOf[row] : row \in rows}

\* Ascending order of a set of numbers.
Ascending(numbers) ==
    [i \in 1..Cardinality(numbers) |->
        CHOOSE n \in numbers : Cardinality({m \in numbers : m < n}) = i - 1]

\* _document_groups: documents in the order of their first row.
DocumentGroups ==
    LET firsts == {row \in 1..Total : \A i \in 1..(row - 1) : documentOf[i] # documentOf[row]}
        of(first) == {row \in 1..Total : documentOf[row] = documentOf[first]}
    IN  [i \in 1..Cardinality(firsts) |-> Ascending(of(Ascending(firsts)[i]))]

Ceiling(a, b) == (a + b - 1) \div b

\* Variant: a batch that reaches a limit is still one batch.
MinimumAtLimit ==
    Max({1, Ceiling(Cardinality(Documents(1..Total)), MaxDocuments), Ceiling(Total, MaxEvidenceRows)})

Minimum ==
    LET documents == Cardinality(Documents(1..Total))
    IN  Max({IF documents >= MaxDocuments \/ Total >= MaxEvidenceRows THEN 2 ELSE 1,
             Ceiling(documents, MaxDocuments), Ceiling(Total, MaxEvidenceRows)})

-----------------------------------------------------------------------------
(* _best_boundaries *)

\* The order of Python on tuples of one length.
Before(s, t) == \E i \in DOMAIN s : s[i] < t[i] /\ \A j \in 1..(i - 1) : s[j] = t[j]

\* The least of a set of tuples.
Least(tuples) == CHOOSE s \in tuples : \A t \in tuples \ {s} : Before(s, t)

\* Cutting after the segments of cuts gives batches.
BatchesOf(pieces, cuts) ==
    LET ends == Ascending(cuts \cup {0, Len(pieces)})
    IN  [b \in 1..(Cardinality(cuts) + 1) |-> FlattenSeq(SubSeq(pieces, ends[b] + 1, ends[b + 1]))]

\* Both limits, and half to one and a half of the equal row target.
Legal(rows, count) ==
    /\ Len(rows) <= MaxEvidenceRows
    /\ Cardinality(Documents(ToSet(rows))) <= MaxDocuments
    /\ Len(rows) \in Ceiling(Total, 2 * count)..((3 * Total) \div (2 * count))

LegalCuts(pieces, count) ==
    {cuts \in kSubset(count - 1, 1..(Len(pieces) - 1)) :
        \A b \in 1..count : Legal(BatchesOf(pieces, cuts)[b], count)}

\* The greatest distance from the target, then the spread of document counts,
\* then the last row before each boundary.
Rank(pieces, count, cuts) ==
    LET found == BatchesOf(pieces, cuts)
        distance(b) == LET d == Len(found[b]) * count - Total IN IF d < 0 THEN -d ELSE d
        documents == {Cardinality(Documents(ToSet(found[b]))) : b \in 1..count}
        ends == Ascending(cuts)
    IN  <<Max({distance(b) : b \in 1..count}), Max(documents) - Min(documents)>>
            \o [i \in 1..(count - 1) |-> Last(pieces[ends[i]])]

BestBoundaries(pieces, count) ==
    LET legal == LegalCuts(pieces, count)
        best == Least({Rank(pieces, count, cuts) : cuts \in legal})
    IN  BatchesOf(pieces, CHOOSE cuts \in legal : Rank(pieces, count, cuts) = best)

-----------------------------------------------------------------------------
(* _split_near_global_boundary *)

Offset(pieces, i) == Len(FlattenSeq(SubSeq(pieces, 1, i - 1)))

\* The cut nearest to a multiple of the target; then the longest segment, the first.
NearestCut(pieces, count) ==
    LET distance(position) ==
            Min({LET d == position * count - Total * k IN IF d < 0 THEN -d ELSE d : k \in 1..(count - 1)})
        cutsOf(i) == {<<distance(Offset(pieces, i) + cut), -Len(pieces[i]), i, cut>> :
                         cut \in 1..(Len(pieces[i]) - 1)}
    IN  Least(UNION {cutsOf(i) : i \in DOMAIN pieces})

\* Variant: the row at the cut is in neither half.
SplitLosing(pieces, i, cut) ==
    SubSeq(pieces, 1, i - 1)
        \o <<SubSeq(pieces[i], 1, cut), SubSeq(pieces[i], cut + 2, Len(pieces[i]))>>
        \o SubSeq(pieces, i + 1, Len(pieces))

SplitAt(pieces, i, cut) ==
    SubSeq(pieces, 1, i - 1)
        \o <<SubSeq(pieces[i], 1, cut), SubSeq(pieces[i], cut + 1, Len(pieces[i]))>>
        \o SubSeq(pieces, i + 1, Len(pieces))

-----------------------------------------------------------------------------
(* partition_evidence *)

Init ==
    /\ documentOf \in Inputs
    /\ segments = DocumentGroups
    /\ batchCount = Minimum
    /\ batches = <<>>

Searching == batches = <<>> /\ batchCount <= Total

Found ==
    /\ Searching /\ LegalCuts(segments, batchCount) # {}
    /\ batches' = BestBoundaries(segments, batchCount)
    /\ UNCHANGED <<documentOf, segments, batchCount>>

Split ==
    /\ Searching /\ LegalCuts(segments, batchCount) = {}
    /\ Len(segments) < Total
    /\ LET cut == NearestCut(segments, batchCount)
       IN  segments' = SplitAt(segments, cut[3], cut[4])
    /\ UNCHANGED <<documentOf, batchCount, batches>>

\* Variant: the segments that were split stay split.
SegmentsAgain == segments

\* segments = [list(group) for group in groups]
WholeAgain == DocumentGroups

NextCount ==
    /\ Searching /\ LegalCuts(segments, batchCount) = {}
    /\ Len(segments) = Total
    /\ batchCount' = batchCount + 1
    /\ segments' = WholeAgain
    /\ UNCHANGED <<documentOf, batches>>

\* The result is returned, or "could not create a legal evidence partition".
Finished == ~Searching /\ UNCHANGED vars

Next == Found \/ Split \/ NextCount \/ Finished

Spec == Init /\ [][Next]_vars

-----------------------------------------------------------------------------
(* Properties *)

\* The rows one by one, in the order of the groups.
SingleRows == LET order == FlattenSeq(DocumentGroups) IN [i \in 1..Total |-> <<order[i]>>]

\* The smallest legal partition is always found, no search ends without one: it has
\* every row once, in the order of the groups; its batches keep both limits and the
\* balance of half to one and a half of the target (RUN-20); and no smaller count
\* has legal batches, wherever documents are cut (RUN-19).
PartitionIsLegal ==
    /\ batchCount <= Total
    /\ batches # <<>> =>
        /\ FlattenSeq(batches) = FlattenSeq(DocumentGroups)
        /\ ToSet(FlattenSeq(batches)) = 1..Total
        /\ \A b \in DOMAIN batches : Legal(batches[b], Len(batches))
        /\ Len(batches) = 1 => Cardinality(Documents(1..Total)) < MaxDocuments /\ Total < MaxEvidenceRows
        /\ \A count \in Minimum..(Len(batches) - 1) : LegalCuts(SingleRows, count) = {}

\* A document is in two batches only when whole documents have no legal boundaries
\* for this number of batches (RUN-21), whatever was split for smaller numbers.
WholeDocuments ==
    batches # <<>> /\ LegalCuts(DocumentGroups, Len(batches)) # {} =>
        \A a, b \in DOMAIN batches :
            a # b => Documents(ToSet(batches[a])) \cap Documents(ToSet(batches[b])) = {}
=============================================================================
