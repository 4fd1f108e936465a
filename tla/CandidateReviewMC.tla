--------------------------- MODULE CandidateReviewMC ---------------------------
(***************************************************************************)
(* Instances of CandidateReview for TLC: files of at most two rows over    *)
(* two candidates and two evidence rows of the batch.  Valid ones differ   *)
(* in order and in ownership; the others repeat a candidate, share a row   *)
(* of evidence, or cite one that was not selected.                         *)
(***************************************************************************)
EXTENDS CandidateReview, TLC

CONSTANTS c1, c2

MCSelected == {"a", "b"}

LOCAL Row(id, evidence) == [id |-> id, evidence |-> evidence]

MCFiles == {
    <<Row(c1, <<"a">>)>>, <<Row(c1, <<"a", "b">>)>>,
    <<Row(c1, <<"a">>), Row(c2, <<"b">>)>>, <<Row(c2, <<"b">>), Row(c1, <<"a">>)>>,
    <<Row(c1, <<"a">>), Row(c1, <<"b">>)>>,
    <<Row(c1, <<"a", "b">>), Row(c2, <<"b">>)>>,
    <<Row(c1, <<"a">>), Row(c2, <<"other">>)>> }
=============================================================================
