--------------------------- MODULE MCVertexStore ---------------------------
(* Small instances of VertexStore. *)
EXTENDS VertexStore, TLC

CONSTANTS b1, b2, v1, v2, n1

BothBackends == {b1, b2}
OneVertex    == {v1}
TwoVertices  == {v1, v2}
OneBit       == {n1}

Interchangeable == Permutations(BothBackends)
=============================================================================
