---------------------------- MODULE MCFileLease ----------------------------
(* FileLease with two concurrent consumptions.                           *)
EXTENDS FileLease, TLC

\* The calls are interchangeable.
Symmetry == Permutations(Calls)
=============================================================================
