---------------------------- MODULE EvalScoringMC ----------------------------
(***************************************************************************)
(* Instances of EvalScoring for TLC: a week with a target to add and one   *)
(* to update, and a week with a target to update only.                     *)
(***************************************************************************)
EXTENDS EvalScoring, TLC

CONSTANTS w1, w2

MCTargets ==
    (w1 :> <<[kind |-> "add", sources |-> {"a", "b"}], [kind |-> "update", sources |-> {"c"}]>>) @@
    (w2 :> <<[kind |-> "update", sources |-> {"d"}]>>)

MCNotConverted == (w1 :> {"x"}) @@ (w2 :> {})
MCSelected == (w1 :> {"a", "b", "c", "x"}) @@ (w2 :> {"d"})

LOCAL Proposal(kind, evidence, current) == [kind |-> kind, evidence |-> evidence, current |-> current]

\* Half routed, and merged over both targets without the text it replaces;
\* a complete update in the other week.
MCOutputs ==
    (w1 :> {
        [proposals |-> {Proposal("add", {"a", "x"}, FALSE), Proposal("update", {"c"}, TRUE)},
         candidates |-> {Proposal("add", {"a", "b"}, FALSE), Proposal("add", {"c"}, FALSE)}],
        [proposals |-> {Proposal("update", {"a", "b", "c"}, FALSE)}, candidates |-> {}]}) @@
    (w2 :> {
        [proposals |-> {Proposal("update", {"d"}, TRUE)}, candidates |-> {Proposal("add", {"d"}, FALSE)}]})
=============================================================================
