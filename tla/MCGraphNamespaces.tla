-------------------------- MODULE MCGraphNamespaces --------------------------
(* Small instances of GraphNamespaces. *)
EXTENDS GraphNamespaces, TLC

CONSTANTS b1, b2, n1, n2, public, other, s1, s2

Interchangeable ==
    Permutations({b1, b2}) \cup Permutations({n1, n2}) \cup Permutations({public, other})
        \cup Permutations({s1, s2})
=============================================================================
