--------------------------- MODULE MCCoreRecovery ---------------------------
(* CoreRecovery with its times scaled down: the order of the constants is   *)
(* that of the code (a back-off is shorter than the window, the grace and   *)
(* the healthy period lie in between).                                      *)
EXTENDS CoreRecovery, TLC

ShortDelays == <<1, 2>>
PidSymmetry == Permutations(Pids)
=============================================================================
