---------------------------- MODULE MCCompaction ----------------------------
(* Small instances of Compaction. *)
EXTENDS Compaction, TLC

CONSTANTS b1, b2, v1, v2, e1, e2, e3
OneOwner == [e \in {e1, e2} |-> v1]
TwoOwners == (e1 :> v1) @@ (e2 :> v1) @@ (e3 :> v2)
Interchangeable == Permutations({b1, b2})
=============================================================================
