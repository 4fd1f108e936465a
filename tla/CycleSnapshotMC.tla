--------------------------- MODULE CycleSnapshotMC ---------------------------
(***************************************************************************)
(* Instances of CycleSnapshot for TLC: one version from before the launch  *)
(* boundary, two of the first window and one of the second; or only the    *)
(* two of the first window.                                                *)
(***************************************************************************)
EXTENDS CycleSnapshot, TLC

MCVersions == {"older", "early", "late", "next"}
MCFewVersions == {"early", "late"}
MCWeekOf ==
    [v \in Versions |->
        CASE v = "older" -> 0 [] v = "next" -> 2 [] OTHER -> 1]

ProcSymmetry == Permutations(Procs)
=============================================================================
