------------------------- MODULE MCFileVolumeStore --------------------------
(* The file volume store for TLC: callers are interchangeable.             *)
EXTENDS FileVolumeStore, TLC

Callers == Permutations(Task)

=============================================================================
