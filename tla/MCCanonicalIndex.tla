-------------------------- MODULE MCCanonicalIndex --------------------------
(***************************************************************************)
(* Small instances of CanonicalIndex for TLC.                              *)
(***************************************************************************)
EXTENDS CanonicalIndexInvariants, TLC

AllFaults == FaultKinds
AllOps == OpKinds

\* Requests, sweepers and records are interchangeable (safety runs only).
Symmetry ==
    Permutations(Clients) \cup Permutations(Sweepers) \cup Permutations(Records)

=============================================================================
