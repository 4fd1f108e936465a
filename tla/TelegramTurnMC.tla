--------------------------- MODULE TelegramTurnMC ---------------------------
(***************************************************************************)
(* Instances of TelegramTurn for TLC.                                      *)
(***************************************************************************)
EXTENDS TelegramTurn, TLC

UpdateSymmetry == Permutations(Handlers) \cup Permutations(Updates)
=============================================================================
