---------------------------- MODULE MCCompaction ----------------------------
(***************************************************************************)
(* Small instances of Compaction for TLC.                                  *)
(***************************************************************************)
EXTENDS Compaction, TLC

NoRequests == {}
Both == {<<2, 1>>}
Symmetry == Permutations(Contents)
AllAlike == Contents \X Contents

=============================================================================
