----------------------------- MODULE LabelCatalog -----------------------------
(***************************************************************************)
(* The labels of one graph: the vertex and edge label catalogs, the global *)
(* catalog of label names, the two label id sequences and the current      *)
(* annotation schema of every label id.  The calls are those of SQL        *)
(* (create, merge, drop, rename, add and drop an annotation) and the       *)
(* labels that set_vertex_label and its like create on the way.            *)
(*                                                                         *)
(* One session works on the catalogs, in transactions that may abort at    *)
(* any point.  An abort takes back catalog rows and names; sequences and   *)
(* the slots of the schema map, which are overwritten in place, stay.  An  *)
(* error inside a call is an abort.  What several sessions see of each     *)
(* other's catalog rows is the subject of CatalogHeap.                     *)
(***************************************************************************)
EXTENDS LabelPaths, FiniteSetsExt

CONSTANTS
    Name,       \* label names callers use, without the root
    Annotation, \* annotation names
    GivenMap,   \* annotation arrays callers pass
    MaxLabel,   \* bound: label ids per kind
    MaxCalls    \* bound: calls in a history

ASSUME LabelCatalogAssumption ==
    /\ {MaxLabel, MaxCalls} \subseteq Nat \ {0}
    /\ Root \notin Name
    /\ IsFiniteSet(Annotation)
    /\ NoMap \in GivenMap
    /\ \A map \in GivenMap \ {NoMap} : map \in Seq(Annotation) /\ IsInjective(map)

VARIABLES
    calls,  \* calls so far
    cat,    \* rows, names, last, schema (see Init)
    saved,  \* rows and names as of the last commit
    put,    \* reference: label ids whose schema slot this transaction wrote
    leaked  \* reference: ids whose slot an aborted transaction wrote

vars == <<calls, cat, saved, put, leaked>>

Kind == {"vertex", "edge"}
\* A call creates at most two labels.
LabelId == 1 .. MaxLabel + 2

\* A row of a label catalog; bits stands for its annotation table.
Row(id, path, map, bits) ==
    [id |-> id, path |-> path, map |-> map, bits |-> bits, primary |-> TRUE]

\* setup_vertex_label_catalog and setup_edge_label_catalog: only the root.
Init ==
    /\ calls = 0
    /\ cat = [rows   |-> [vertex |-> <<Row(1, <<Root>>, NoMap, TRUE)>>,
                          edge   |-> <<Row(1, <<Root>>, NoMap, FALSE)>>],
              names  |-> <<>>,                      \* np_label_catalog
              last   |-> [k \in Kind |-> 1],       \* the label id sequences
              schema |-> [i \in LabelId |-> NoMap]]
    /\ saved = [rows |-> cat.rows, names |-> cat.names]
    /\ put = {}
    /\ leaked = {}

-----------------------------------------------------------------------------
(* Reading the catalogs.  Scans go through the rows in heap order, and an  *)
(* updated row is at the end.                                              *)

RowOf(c, k, id) == CHOOSE r \in ToSet(c.rows[k]) : r.id = id
Ids(c, k) == {r.id : r \in ToSet(c.rows[k])}
HasPath(c, k, path) == \E r \in ToSet(c.rows[k]) : r.path = path
FirstWith(c, k, path) == c.rows[k][SelectInSeq(c.rows[k], LAMBDA r : r.path = path)]

\* The first row whose path below the root is the given one.
HasStruct(c, k, p) == \E r \in ToSet(c.rows[k]) : Stripped(r.path) = p
StructRow(c, k, p) ==
    c.rows[k][SelectInSeq(c.rows[k], LAMBDA r : Stripped(r.path) = p)]

\* What get_vlabel_ids and get_elabel_ids find: the partial index holds the
\* primary rows only.
IdsByPath(c, k, toks) ==
    {r.id : r \in {x \in ToSet(c.rows[k]) : x.primary /\ toks \subseteq ToSet(x.path)}}
IdsByAnyOf(c, k, toks) ==
    {r.id : r \in {x \in ToSet(c.rows[k]) : x.primary /\ toks \cap ToSet(x.path) # {}}}

-----------------------------------------------------------------------------
(* Writing them.                                                           *)

AddRow(c, k, path, map, bits) ==
    [c EXCEPT !.last[k] = @ + 1,
              !.rows[k] = Append(@, Row(c.last[k] + 1, path, map, bits))]

UpdateRow(c, k, r, new) == [c EXCEPT !.rows[k] = Append(Without(@, r), new)]

\* insert_annotation_schema: one slot per label id, whatever its kind.
InsertSchema(c, id, map) == [c EXCEPT !.schema[id] = map]

VertexLabel(c, path, map) ==
    LET new == AddRow(c, "vertex", path, map, TRUE)
    IN  IF map = NoMap THEN new ELSE InsertSchema(new, new.last["vertex"], map)

EdgeLabel(c, path, map, hasBits) ==
    LET new == AddRow(c, "edge", path, map, hasBits)
    IN  IF hasBits THEN InsertSchema(new, new.last["edge"], map) ELSE new

(* The global catalog of names: rows [name, type] with "s" for structural  *)
(* and "a" for annotation labels, again in heap order.                     *)

IsNamed(c, n) == \E e \in ToSet(c.names) : e.name = n
TypeOf(c, n) == c.names[SelectInSeq(c.names, LAMBDA e : e.name = n)].type

\* enforce_and_insert_label_catalog refuses a name of the other type.
MayRegister(c, n, type) == IsNamed(c, n) => TypeOf(c, n) = type
Register(c, n, type) ==
    IF IsNamed(c, n) THEN c ELSE [c EXCEPT !.names = Append(@, [name |-> n, type |-> type])]

Unregister(c, n, type) == [c EXCEPT !.names = Without(@, [name |-> n, type |-> type])]

\* The first row of that name gets the other one; nothing checks it is free.
RenameName(c, n, m) ==
    IF ~IsNamed(c, n) THEN c
    ELSE LET i == SelectInSeq(c.names, LAMBDA e : e.name = n)
         IN  [c EXCEPT !.names = Append(RemoveAt(@, i), [c.names[i] EXCEPT !.name = m])]

-----------------------------------------------------------------------------
(* The calls, as operators on the catalogs: CanX is false where the code   *)
(* raises an error.                                                        *)

\* create_vlabel_internal and register_and_validate_labels.
CanCreateVertex(c, n, map) ==
    /\ n \notin NamesOf(map)
    /\ MayRegister(c, n, "s")
    /\ \A x \in NamesOf(map) : MayRegister(c, x, "a")

CreateVertex(c, n, map) ==
    LET named == FoldLeft(LAMBDA acc, x : Register(acc, x, "a"), Register(c, n, "s"),
                          IF map = NoMap THEN <<>> ELSE map)
    IN  VertexLabel(named, <<Root, n>>, map)

\* merge_vlabels_internal: no look at whether the path exists.
CanMergeVertex(c, parent, child) == {parent, child} \subseteq Ids(c, "vertex") /\ parent # child
MergeVertex(c, parent, child) ==
    LET p == RowOf(c, "vertex", parent)
        q == RowOf(c, "vertex", child)
    IN  VertexLabel(c, MergedPath(p.path, q.path), MapUnion(p.map, q.map))

\* create_elabel_internal: the global catalog is not asked.
CreateEdge(c, n, map) == EdgeLabel(c, <<Root, n>>, map, NamesOf(map) # {})

\* merge_elabels_internal.  Both cache lookups of the call fill the entry
\* keyed by the same stack address, so that both pointers show the second row.
MergeEdge(c, current, base) ==
    LET b == RowOf(c, "edge", base)
        map == MapUnion(b.map, b.map)
    IN  EdgeLabel(c, b.path \o BelowRoot(b.path), map, map # NoMap)

\* The map an annotation call starts from: the slot, else the row's column.
LatestMap(c, r) ==
    LET map == IF c.schema[r.id] # NoMap THEN c.schema[r.id] ELSE r.map
    IN  IF map = NoMap THEN <<>> ELSE map

\* Mutant: the slot of the schema map keeps the old schema.
PutMapOnly(c, k, r, map, bits) == UpdateRow(c, k, r, [r EXCEPT !.map = map, !.bits = bits])

PutMap(c, k, r, map, bits) ==
    UpdateRow(InsertSchema(c, r.id, map), k, r, [r EXCEPT !.map = map, !.bits = bits])

\* Mutants: no table for the bits; the new annotation comes first.
AddToRowNoTable(c, k, r, x) ==
    LET old == LatestMap(c, r)
    IN  IF Contains(old, x) THEN c ELSE PutMap(c, k, r, Append(old, x), r.bits)

AddToRowInFront(c, k, r, x) ==
    LET old == LatestMap(c, r)
    IN  IF Contains(old, x) THEN c ELSE PutMap(c, k, r, <<x>> \o old, TRUE)

\* np_apply_add_annotation_to_tuple
AddToRow(c, k, r, x) ==
    LET old == LatestMap(c, r)
    IN  IF Contains(old, x) THEN c ELSE PutMap(c, k, r, Append(old, x), TRUE)

\* np_other_parent_owns_annotation: some other token's own label has it.
OtherParentOwns(c, k, path, p, x) ==
    /\ Len(Stripped(path)) > 1
    /\ \E t \in ToSet(Stripped(path)) :
          /\ p # <<t>>
          /\ HasPath(c, k, <<Root, t>>)
          /\ x \in NamesOf(FirstWith(c, k, <<Root, t>>).map)

\* np_apply_drop_annotation_to_tuple; the parents are those the call began with.
DropFromRow(began, c, k, r, target, p, x) ==
    LET old == LatestMap(c, r)
    IN  IF \/ r.path # target /\ OtherParentOwns(began, k, r.path, p, x)
           \/ ~Contains(old, x)
        THEN c
        ELSE PutMap(c, k, r, Without(old, x), r.bits)

\* Both calls work on the descendants of the first row with that path, among
\* the vertex labels and then among the edge labels.
AddUnder(c, k, p, x) ==
    IF ~HasStruct(c, k, p) THEN c
    ELSE LET target == StructRow(c, k, p).path
         IN  FoldLeft(LAMBDA acc, r : IF IsUnder(target, r.path) THEN AddToRow(acc, k, r, x) ELSE acc,
                      c, c.rows[k])
DropUnder(c, k, p, x) ==
    IF ~HasStruct(c, k, p) THEN c
    ELSE LET target == StructRow(c, k, p).path
         IN  FoldLeft(LAMBDA acc, r : IF IsUnder(target, r.path)
                                      THEN DropFromRow(c, acc, k, r, target, p, x) ELSE acc,
                      c, c.rows[k])

\* Mutant: the name is not registered.
AddUnregistered(c, p, x) == AddUnder(AddUnder(c, "vertex", p, x), "edge", p, x)

\* The name is entered, or refused, when all the rest is written.
AddEverywhere(c, p, x) == AddUnder(AddUnder(c, "vertex", p, x), "edge", p, x)
AddAnnotationTo(c, p, x) == Register(AddEverywhere(c, p, x), x, "a")
DropAnnotationFrom(c, p, x) ==
    Unregister(DropUnder(DropUnder(c, "vertex", p, x), "edge", p, x), x, "a")

\* drop_vlabel and drop_elabel: a new version of every row with the token.
Rewritten(rows, t, new) ==
    FoldLeft(LAMBDA acc, r : IF Contains(r.path, t) THEN Append(Without(acc, r), new[r]) ELSE acc,
             rows, rows)

DropToken(c, k, t) ==
    LET new == [r \in ToSet(c.rows[k]) |->
                  [r EXCEPT !.path = WithoutFirst(@, t),
                            !.primary = @ /\ ~DropsLast(r.path, t)]]
    IN  Unregister([c EXCEPT !.rows[k] = Rewritten(@, t, new)], t, "s")

RenameToken(c, k, old, new) ==
    LET renamed == [r \in ToSet(c.rows[k]) |-> [r EXCEPT !.path = Renamed(@, old, new)]]
    IN  RenameName([c EXCEPT !.rows[k] = Rewritten(@, old, renamed)], old, new)

-----------------------------------------------------------------------------
(* The labels a migration moves to, with what the call creates for it:     *)
(* the catalogs after it and the label it answers, 0 where it finds none.  *)

Answer(c, id) == [cat |-> c, id |-> id]
NoLabel == 0

\* Looked up again after the merge, by the path that was asked for.
Found(c, k, path) == Answer(c, IF HasPath(c, k, path) THEN FirstWith(c, k, path).id ELSE NoLabel)

\* resolve_or_create_target_label and resolve_or_create_target_edge_label.
CanResolve(c, k, n) ==
    k = "vertex" /\ ~HasPath(c, k, <<Root, n>>) => CanCreateVertex(c, n, NoMap)

WithBase(c, k, n) ==
    IF HasPath(c, k, <<Root, n>>) THEN c
    ELSE IF k = "vertex" THEN CreateVertex(c, n, NoMap) ELSE CreateEdge(c, n, NoMap)

\* An edge label's row is written under the path asked for; its map is the
\* base label's twice over, through the cache entry both lookups fill.
MergedFor(c, k, current, base, path) ==
    IF k = "vertex" THEN MergeVertex(c, current, base)
    ELSE LET map == MapUnion(RowOf(c, k, base).map, RowOf(c, k, base).map)
         IN  EdgeLabel(c, path, map, map # NoMap)

Resolve(c, k, current, n) ==
    LET path   == RowOf(c, k, current).path
        based  == WithBase(c, k, n)
        target == IF path = <<Root>> THEN <<Root, n>> ELSE Append(path, n)
    IN  IF path # <<Root>> /\ Contains(path, n) THEN Answer(based, current)
        ELSE IF HasPath(based, k, target) THEN Found(based, k, target)
        ELSE Found(MergedFor(based, k, current, FirstWith(based, k, <<Root, n>>).id, target),
                   k, target)

\* resolve_reduced_target_label: a label created on the way has no map.
ResolveReduced(c, current, n) ==
    LET path   == RowOf(c, "vertex", current).path
        target == WithoutFirst(path, n)
        made   == VertexLabel(c, target, NoMap)
    IN  IF ~Contains(path, n) THEN Answer(c, current)
        ELSE IF HasPath(c, "vertex", target) THEN Found(c, "vertex", target)
        ELSE Answer(made, made.last["vertex"])

\* resolve_target_edge_label_for_removal: the label keeps the whole map, and
\* the root is refused.
CanResolveRemoval(c, current, n) ==
    LET path == RowOf(c, "edge", current).path
    IN  Contains(path, n) => WithoutAny(path, n) # <<Root>>
ResolveRemoval(c, current, n) ==
    LET r      == RowOf(c, "edge", current)
        target == WithoutAny(r.path, n)
        made   == EdgeLabel(c, target, MapUnion(r.map, NoMap), r.map # NoMap)
    IN  IF ~Contains(r.path, n) THEN Answer(c, current)
        ELSE IF HasPath(c, "edge", target) THEN Found(c, "edge", target)
        ELSE Answer(made, made.last["edge"])

-----------------------------------------------------------------------------
\* A call that has gone through leaves the catalogs as c.
Step(c) ==
    /\ calls < MaxCalls /\ calls' = calls + 1
    /\ \A k \in Kind : c.last[k] <= MaxLabel
    /\ cat' = c
    /\ put' = put \cup {i \in LabelId : c.schema[i] # cat.schema[i]}
    /\ UNCHANGED <<saved, leaked>>

CreateVLabel(n, map) == CanCreateVertex(cat, n, map) /\ Step(CreateVertex(cat, n, map))
MergeVLabels(p, q) == CanMergeVertex(cat, p, q) /\ Step(MergeVertex(cat, p, q))
CreateELabel(n, map) == Step(CreateEdge(cat, n, map))
MergeELabels(p, q) == {p, q} \subseteq Ids(cat, "edge") /\ Step(MergeEdge(cat, p, q))

AddAnnotation(p, x) ==
    /\ \E k \in Kind : HasStruct(cat, k, p)
    /\ MayRegister(cat, x, "a")
    /\ Step(AddAnnotationTo(cat, p, x))

DropAnnotation(p, x) ==
    /\ \E k \in Kind : HasStruct(cat, k, p)
    /\ Step(DropAnnotationFrom(cat, p, x))

DropLabel(k, n) == Step(DropToken(cat, k, n))

HasToken(k, n) == \E r \in ToSet(cat.rows[k]) : Contains(r.path, n)

\* The new name must be free in the global catalog ...
RenameVLabel(old, new) ==
    /\ old # new
    /\ ~IsNamed(cat, new)
    /\ IsNamed(cat, old) /\ TypeOf(cat, old) = "s"
    /\ Step(RenameToken(cat, "vertex", old, new))

\* ... for an edge label only among the edge labels.
RenameELabel(old, new) ==
    /\ old # new
    /\ HasToken("edge", old) /\ ~HasToken("edge", new)
    /\ Step(RenameToken(cat, "edge", old, new))

\* The catalog part of set_vertex_label and set_edge_label ...
ResolveTarget(k, id, n) ==
    CanResolve(cat, k, n) /\ Step(Resolve(cat, k, id, n).cat)

\* ... of remove_vertex_label and of remove_edge_label.
ResolveWithout(k, id, n) ==
    IF k = "vertex" THEN Step(ResolveReduced(cat, id, n).cat)
    ELSE CanResolveRemoval(cat, id, n) /\ Step(ResolveRemoval(cat, id, n).cat)

Commit ==
    /\ saved' = [rows |-> cat.rows, names |-> cat.names]
    /\ put' = {}
    /\ UNCHANGED <<calls, cat, leaked>>

Abort ==
    /\ cat' = [cat EXCEPT !.rows = saved.rows, !.names = saved.names]
    /\ leaked' = leaked \cup put
    /\ put' = {}
    /\ UNCHANGED <<calls, saved>>

\* add_annotation_label that is refused: the transaction aborts, and the slots the
\* call has written for each label stay.
RefuseAnnotation(p, x) ==
    LET c == AddEverywhere(cat, p, x)
    IN  /\ calls < MaxCalls /\ calls' = calls + 1
        /\ \E k \in Kind : HasStruct(cat, k, p)
        /\ ~MayRegister(cat, x, "a")
        /\ cat' = [c EXCEPT !.rows = saved.rows, !.names = saved.names]
        /\ leaked' = (leaked \cup put) \cup {i \in LabelId : c.schema[i] # cat.schema[i]}
        /\ put' = {} /\ UNCHANGED saved

Structs == {Stripped(r.path) : r \in UNION {ToSet(cat.rows[k]) : k \in Kind}}

RollsBack == Abort \/ \E p \in Structs, x \in Annotation : RefuseAnnotation(p, x)

Next ==
    \/ \E n \in Name, map \in GivenMap : CreateVLabel(n, map) \/ CreateELabel(n, map)
    \/ \E p, q \in Ids(cat, "vertex") : MergeVLabels(p, q)
    \/ \E p, q \in Ids(cat, "edge") : MergeELabels(p, q)
    \/ \E p \in Structs, x \in Annotation : AddAnnotation(p, x) \/ DropAnnotation(p, x)
    \/ \E k \in Kind, n \in Name : DropLabel(k, n)
    \/ \E old, new \in Name : RenameVLabel(old, new) \/ RenameELabel(old, new)
    \/ \E k \in Kind : \E id \in Ids(cat, k), n \in Name :
          ResolveTarget(k, id, n) \/ ResolveWithout(k, id, n)
    \/ Commit
    \/ RollsBack

Spec == Init /\ [][Next]_vars

-----------------------------------------------------------------------------
\* No label of the other kind has this id, and no rollback left its schema.
Alone(k, id) == \A j \in Kind \ {k} : id \notin Ids(cat, j)
Sound(k, id) == Alone(k, id) /\ id \notin leaked

Bit == {NoMap} \cup {s \in BoundedSeq(Annotation, Cardinality(Annotation)) : IsInjective(s)}

\* Shapes: label ids are handed out once per kind, a map names an annotation
\* once, and a label with annotations has a table for their bits (but for one
\* that took them over from a slot that was not its own).
TypeOK ==
    /\ cat.last \in [Kind -> 1 .. MaxLabel]
    /\ cat.schema \in [LabelId -> Bit]
    /\ \A k \in Kind : \A i, j \in DOMAIN cat.rows[k] :
          LET r == cat.rows[k][i]
          IN  /\ r.id \in 1 .. cat.last[k]
              /\ ToSet(r.path) \subseteq Name \cup {Root} /\ r.path # <<>>
              /\ r.map \in Bit
              /\ Sound(k, r.id) /\ NamesOf(r.map) # {} => r.bits
              /\ r.id = cat.rows[k][j].id => i = j
    /\ ToSet(cat.names) \subseteq [name : Name \cup Annotation, type : {"s", "a"}]

\* Bitsets are written by the row's map and read by the slot's schema (or the
\* other way round, call by call): for every label whose id no label of the
\* other kind shares, and whose slot no rollback left behind, the two agree.
SchemaAgrees ==
    \A k \in Kind : \A r \in ToSet(cat.rows[k]) :
        Sound(k, r.id) =>
            IF cat.schema[r.id] = NoMap THEN NamesOf(r.map) = {} ELSE cat.schema[r.id] = r.map

\* A bit keeps its meaning: only dropping an annotation, or a rollback, moves
\* or removes a position of such a label's map.
BitsKeepMeaning ==
    [][\/ RollsBack
       \/ \E p \in Structs, x \in Annotation : DropAnnotation(p, x)
       \/ \A k \in Kind : \A r \in ToSet(cat.rows[k]) :
             Sound(k, r.id) /\ r.map # NoMap => IsPrefix(r.map, RowOf(cat', k, r.id).map)]_vars

\* The names vertex labels use and the global catalog does not have with
\* that use, as [name, type].
UsedAs(c, type) ==
    UNION {IF type = "s" THEN ToSet(Stripped(r.path)) ELSE NamesOf(r.map) :
             r \in ToSet(c.rows["vertex"])}
Unregistered(c) ==
    UNION {{[name |-> n, type |-> type] :
              n \in {m \in UsedAs(c, type) : ~(IsNamed(c, m) /\ TypeOf(c, m) = type)}} :
           type \in {"s", "a"}}

\* A name in use keeps its registration, and no vertex label gets a name
\* without one, but for: a call on an edge label of that name, a drop of the
\* annotation that leaves it to some label, the drop of a label a path has
\* twice, and a schema slot with another label's or a rolled-back schema.
RegistrationLostOnlyBy ==
    [][RollsBack \/ \A e \in Unregistered(cat') \ Unregistered(cat) :
         \/ e.type = "s" /\ DropLabel("edge", e.name)
         \/ \E m \in Name : RenameELabel(e.name, m)
         \/ e.type = "a" /\ \E p \in Structs : DropAnnotation(p, e.name)
         \/ /\ DropLabel("vertex", e.name)
            /\ \E r \in ToSet(cat.rows["vertex"]) : Len(SelectSeq(r.path, LAMBDA t : t = e.name)) > 1
         \/ \E id \in Ids(cat, "vertex") : ~Sound("vertex", id) /\ e.name \in NamesOf(cat.schema[id])]_vars

\* A migration ends at a label with exactly the path asked for, which a search
\* by any of its tokens finds: unless a drop has archived a label of that path.
TargetIsExact ==
    [][\A k \in Kind : \A id \in Ids(cat, k), n \in Name :
         ResolveTarget(k, id, n) =>
            LET path   == RowOf(cat, k, id).path
                target == IF Contains(path, n) THEN path ELSE Append(path, n)
                to     == Resolve(cat, k, id, n).id
            IN  /\ to \in Ids(cat', k)
                /\ RowOf(cat', k, to).path = target
                /\ (\A r \in ToSet(cat.rows[k]) : r.path = target => r.primary) =>
                      /\ to \in IdsByPath(cat', k, ToSet(target))
                      /\ \A t \in ToSet(target) : to \in IdsByAnyOf(cat', k, {t})]_vars

=============================================================================
