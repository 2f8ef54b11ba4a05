--------------------------- MODULE MCLabelCatalog ---------------------------
(* Small instances of LabelCatalog. *)
EXTENDS LabelCatalog, TLC

CONSTANTS l1, l2, x1
NoneOrOne == {NoMap, <<x1>>}
=============================================================================
