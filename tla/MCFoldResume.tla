--------------------------- MODULE MCFoldResume ---------------------------
(* Two configurations that share a directory, two folds.                   *)
EXTENDS FoldResume, TLC
CONSTANTS wide, narrow
TwoConfigs == {wide, narrow}
Either == Permutations(TwoConfigs)
===========================================================================
