--------------------------- MODULE MCLabelMigration ---------------------------
(* Small instances of LabelMigration. *)
EXTENDS LabelMigration, TLC

CONSTANTS vl1, vl2, el1, el2, v1, v2, e1, e2, x1, x2

\* x1 has another bit under each label, and only vl1 supports x2.
TwoSchemas == [l \in {vl1, vl2} |-> IF l = vl1 THEN <<x2, x1>> ELSE <<x1>>]

Interchangeable == Permutations({e1, e2}) \cup Permutations({el1, el2})
=============================================================================
