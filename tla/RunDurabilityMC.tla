-------------------------- MODULE RunDurabilityMC ---------------------------
(***************************************************************************)
(* Instances of RunDurability for TLC.                                     *)
(***************************************************************************)
EXTENDS RunDurability, TLC

RunSymmetry == Permutations(Runs)
=============================================================================
