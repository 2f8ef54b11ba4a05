------------------------------ MODULE LabelPaths ------------------------------
(***************************************************************************)
(* Label paths and annotation maps as the label code computes with them.   *)
(* A path is the sequence of an ltree's tokens, the root token first; an   *)
(* annotation map is the text array that gives every bit of an annotation  *)
(* bitset its name, or NoMap where the column is null.                     *)
(***************************************************************************)
EXTENDS Naturals, SequencesExt

CONSTANTS
    Root,   \* CATALOG_LTREE_ROOT_LABEL, "_"
    NoMap

\* A sequence without an element that may occur several times: Remove, which
\* rests on SelectSeq, in a form that can be proved about.
Without(seq, x) ==
    LET kept[i \in 0 .. Len(seq)] ==
            IF i = 0 THEN <<>>
            ELSE IF seq[i] = x THEN kept[i - 1] ELSE Append(kept[i - 1], seq[i])
    IN  kept[Len(seq)]

\* The path below the root.
Stripped(path) == IF Head(path) = Root THEN Tail(path) ELSE path

\* merge_elabels cuts off "_." only: the root label alone stays as it is.
BelowRoot(path) == IF Len(path) > 1 THEN Stripped(path) ELSE path

\* An emptied path falls back to the root.
OrRoot(path) == IF path = <<>> THEN <<Root>> ELSE path

\* Mutant: the child's tokens come first.
MergedChildFirst(parent, child) == <<Root>> \o Stripped(child) \o Stripped(parent)

\* The path of a merged vertex label: the parent's tokens, then the child's.
MergedPath(parent, child) == <<Root>> \o Stripped(parent) \o Stripped(child)

\* Dropping or removing a vertex label takes the first occurrence out ...
WithoutFirst(path, t) == OrRoot(RemoveFirst(path, t))

\* ... removing an edge label takes out all of them ...
WithoutAny(path, t) == Without(path, t)

\* ... and a renaming changes all of them.
Renamed(path, old, new) == ReplaceAll(path, old, new)

\* Whether a drop takes out the last token, which demotes the partition.
DropsLast(path, t) == SelectInSeq(path, LAMBDA x : x = t) = Len(path)

\* ltree_isparent: descendants share the whole path as a prefix.
IsUnder(target, path) == IsPrefix(target, path)

\* merge_and_dedupe_text_arrays: the first map, then what the second adds.
MapUnion(a, b) ==
    IF a = NoMap THEN b
    ELSE IF b = NoMap THEN a
    ELSE LET all == FoldLeft(LAMBDA m, x : IF Contains(m, x) THEN m ELSE Append(m, x), a, b)
         IN  IF all = <<>> THEN NoMap ELSE all

\* The annotations a map names.
NamesOf(map) == IF map = NoMap THEN {} ELSE ToSet(map)
=============================================================================
