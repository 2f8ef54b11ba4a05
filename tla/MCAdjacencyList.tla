-------------------------- MODULE MCAdjacencyList --------------------------
(* Small instances of AdjacencyList. *)
EXTENDS AdjacencyList, TLC

CONSTANTS b1, b2, u, v, e1, e2, e3

\* An edge each way and a self-loop.
BothWaysFrom == (e1 :> u) @@ (e2 :> v) @@ (e3 :> u)
BothWaysTo   == (e1 :> v) @@ (e2 :> u) @@ (e3 :> u)
BothWaysId   == (e1 :> 1) @@ (e2 :> 2) @@ (e3 :> 3)

\* Two parallel edges of one label.
AllFromU == [e \in {e1, e2} |-> u]
AllToV   == [e \in {e1, e2} |-> v]
OneLabel == (e1 :> 1) @@ (e2 :> 2)
=============================================================================
