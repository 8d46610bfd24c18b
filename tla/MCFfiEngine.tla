---------------------------- MODULE MCFfiEngine ----------------------------
(* Instances of FfiEngine for TLC.                                         *)
EXTENDS FfiEngine, TLC

CONSTANTS o1, o2, id1, id2

\* Each submission under an identifier of its own, and one identifier reused.
DistinctIds == o1 :> id1 @@ o2 :> id2
SharedId    == [o \in Ops |-> id1]
=============================================================================
