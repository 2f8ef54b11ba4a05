--------------------------- MODULE MCCatalogHeap ---------------------------
(* Small instances of CatalogHeap. *)
EXTENDS CatalogHeap, TLC

CONSTANTS b1, b2, l1
Interchangeable == Permutations({b1, b2})
=============================================================================
