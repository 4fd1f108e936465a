----------------------------- MODULE OpinionIdsMC -----------------------------
(***************************************************************************)
(* Instances of OpinionIds for TLC: two opinions published before the      *)
(* first run, a cycle run and a manual run with a highlight each.          *)
(***************************************************************************)
EXTENDS OpinionIds, TLC

CONSTANTS weekly, byHand, old, quote, note

MCSelected == (weekly :> {quote}) @@ (byHand :> {note})

MCFirstDoc ==
    [bullets |-> {[id |-> i, sources |-> {}] : i \in 1..2},
     rows |-> {[id |-> i, evidence |-> old, exact |-> TRUE] : i \in 1..2}]
=============================================================================
