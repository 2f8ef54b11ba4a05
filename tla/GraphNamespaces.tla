--------------------------- MODULE GraphNamespaces ---------------------------
(***************************************************************************)
(* Graphs, the relations that belong to them and the cache of graph rows.  *)
(* A graph's own sequences and tables and its labels' tables are created   *)
(* in the graph's namespace, its catalogs and the labels' sequences in the *)
(* extension's, Own.  alter_graph and drop_graph first collect a graph's   *)
(* relations and then, waiting for whoever holds a lock on them, move or   *)
(* drop what they have collected.  A label is created for a graph that a   *)
(* caller names, or for the graph of a vertex or edge whose id the cache   *)
(* resolves.                                                               *)
(*                                                                         *)
(* The cache lies in shared memory.  An entry is made under the address of *)
(* the key and not under the key, so a lookup by name never finds one and  *)
(* always reads the catalog; it may overwrite an entry made from the same  *)
(* place.  A lookup by id takes any entry that shows the id.  A call is    *)
(* given the address of its entry and reads it again and again, between    *)
(* steps that may wait: what it then reads is what the last lookup that    *)
(* was given the address, any backend's, has left there.                   *)
(***************************************************************************)
EXTENDS NPXact, FiniteSets

CONSTANTS
    Backend, Name, Namespace,
    Own,        \* the namespace "neopostgraph"
    Slot,       \* bound: addresses at which an entry may lie
    MaxGraphs,  \* bound: graphs
    MaxLabels,  \* bound: labels of a graph
    MaxXid,     \* bound: transactions
    MaxCalls    \* bound: calls

ASSUME GraphNamespacesAssumption ==
    Own \in Namespace /\ {MaxGraphs, MaxLabels, MaxXid, MaxCalls} \subseteq Nat

VARIABLES
    xact, xid,
    rows,   \* np_graph: versions of the graphs' rows
    rels,   \* pg_class: versions of the relations' rows
    used,   \* the addresses of the entries in the cache
    shown,  \* what is to be read at an address, in the cache or no longer
    call,   \* a backend's call between its lookups and its work
    raced,  \* reference: graphs two transactions worked on at once, and
            \* those of an entry overwritten while a call held it
    calls   \* calls so far

cache == <<used, shown>>
vars == <<xact, xid, rows, rels, used, shown, call, raced, calls>>

NoCall == [op |-> "none"]
Flushing == [op |-> "flush"]   \* the abort is to be followed by its callback
Nothing == [id |-> 0]
NoSlot == 0
Live(b, r) == TupleIsLive(xact, xid[b], r)
LiveRows(b) == {r \in rows : Live(b, r)}
Copy(r) == [id |-> r.id, name |-> r.name, ns |-> r.ns]

\* Another version of the row, or a first one, of backend b.
TopXid(b) == IF xid[b] = NoXid THEN Len(xact) + 1 ELSE xid[b]
Written(b, r) == [r EXCEPT !.xmin = TopXid(b), !.xmax = NoXid]
Stamped(b, r) == [r EXCEPT !.xmax = TopXid(b)]
-----------------------------------------------------------------------------
(* Relations.                                                              *)

\* What is created with a graph ("own" stands for the label sequences and the
\* schema tables, "catalog" for the two label catalogs, "names" for the
\* catalog of names) and with a label ("table" and "sequence").
Relation(kind, g, label, ns) ==
    [kind |-> kind, graph |-> g, label |-> label, ns |-> ns,
     asked |-> g, how |-> "create", xmin |-> NoXid, xmax |-> NoXid]

\* build_vertex_label_infrastructure, create_elabel_internal: `asked` is the
\* graph the label was made for and `how` the way its namespace was found.
LabelRelations(g, label, ns, asked, how) ==
    {[x EXCEPT !.asked = asked, !.how = how] :
       x \in {Relation("table", g, label, ns), Relation("sequence", g, label, Own)}}

GraphRelations(g, ns) ==
    {Relation("own", g, 0, ns), Relation("catalog", g, 0, Own), Relation("names", g, 0, Own)}
        \cup LabelRelations(g, 1, ns, g, "create")

\* A relation keeps its Oid when it moves.
Oid(x) == [kind |-> x.kind, graph |-> x.graph, label |-> x.label]
Of(g) == {x \in rels : x.graph = g}
LiveOf(b, g) == {x \in Of(g) : Live(b, x)}

\* np_collect_graph_namespace_rels: by Oid from the row of np_graph, then by Oid
\* from the rows of the label catalogs and by name in Own.
Part(read) == IF read = 0 THEN {"own"} ELSE {"catalog", "names", "table", "sequence"}
Collected(b, g, kinds) ==
    {Oid(x) : x \in {y \in LiveOf(b, g) :
        y.kind \in kinds /\ (y.kind \in {"own", "catalog", "table"} \/ y.ns = Own)}}

\* Locks follow from what running transactions have written: moving or dropping
\* takes a graph's own relations exclusively, making a label shares them.
Excludes(b, g) == xid[b] # NoXid /\ \E x \in Of(g) : x.kind = "own" /\ x.xmax = xid[b]
Shares(b, g) ==
    \/ xid[b] # NoXid /\ \E x \in Of(g) : x.kind = "table" /\ x.xmin = xid[b]
    \/ call[b].op = "elabel" /\ call[b].first = g
MayShare(b, g) == \A c \in Backend \ {b} : ~Excludes(c, g)
MayExclude(b, g) == \A c \in Backend \ {b} : ~Excludes(c, g) /\ ~Shares(c, g)

\* np_catalog_update and np_catalog_delete refuse a row another one has stamped.
MayWrite(b, r) == MayReplace(xact, xid[b], r)

\* The unique index on name and namespace; twins are the subject of CatalogHeap.
Unused(b, name, ns) ==
    \A r \in rows : (r.name = name /\ r.ns = ns) =>
        ~Live(b, r) /\ ~InProgress(xact, r.xmin) /\ ~TupleXmaxOther(xact, xid[b], r)
-----------------------------------------------------------------------------
(* The cache.                                                              *)

Holds(c, s) == call[c].op \notin {"none", "flush"} /\ call[c].entry = s

\* What a call reads through the address it was given.
Shown(b) == shown[call[b].entry]

\* Row r is entered at s.  The calls that others have under way with an entry
\* there read r from now on.
Enters(s, r) == used' = used \cup {s} /\ shown' = [shown EXCEPT ![s] = Copy(r)]
Holders(b, s) == {c \in Backend \ {b} : Holds(c, s)}
Overwritten(b, s, r) ==
    IF Holders(b, s) = {} THEN {} ELSE {r.id} \cup {call[c].graph : c \in Holders(b, s)}

\* search_graph_id_cache finds an entry that shows the graph at s, or enters its row
\* under a key that is in no use.
FindsById(b, g, s) == s \in used /\ shown[s].id = g
EntersById(b, g, s, r) ==
    /\ \A t \in used : shown[t].id # g
    /\ s \notin used /\ r \in LiveRows(b) /\ r.id = g

\* flush_graph_name_namespace_cache: what is left of the entries, and what can still
\* be read by those who hold one.
Flushed(entries) == {}
Legible(entries, s) == s \in entries \/ \E c \in Backend : Holds(c, s)
Remains(entries) == [s \in Slot |-> IF Legible(entries, s) THEN shown[s] ELSE Nothing]

\* Mutant: an abort leaves the entries.
KeptOnAbort(entries) == entries
AfterAbort(entries) == Flushed(entries)

\* Some backend learns of a change to pg_namespace.
Invalidate ==
    /\ used # {} /\ used' = Flushed(used) /\ shown' = Remains(Flushed(used))
    /\ UNCHANGED <<xact, xid, rows, rels, call, raced, calls>>
-----------------------------------------------------------------------------
(* Transactions.                                                           *)

\* Someone else works on the graph.
Busy(b, g) ==
    \E c \in Backend \ {b} :
        \/ call[c].op \notin {"none", "flush"} /\ call[c].graph = g
        \/ xid[c] # NoXid /\ \E t \in {r \in rows : r.id = g} \cup Of(g) : xid[c] \in {t.xmin, t.xmax}
Met(b, gs) == IF (\E g, h \in gs : g # h) \/ (\E g \in gs : Busy(b, g)) THEN gs ELSE {}

Assign(b) ==
    /\ Len(xact) < MaxXid \/ xid[b] # NoXid
    /\ xact' = IF xid[b] = NoXid THEN Append(xact, "running") ELSE xact
    /\ xid' = [xid EXCEPT ![b] = TopXid(b)]

End(b, status, next) ==
    /\ xid[b] # NoXid
    /\ xact' = [xact EXCEPT ![xid[b]] = status]
    /\ xid' = [xid EXCEPT ![b] = NoXid]
    /\ call' = [call EXCEPT ![b] = next]
    /\ UNCHANGED <<rows, rels, used, shown, raced, calls>>

Commit(b) == call[b].op = "none" /\ End(b, "committed", NoCall)
Abort(b) == End(b, "aborted", Flushing)

\* An error: nothing was written yet, the rest is undone by an abort.
Fail(b) ==
    /\ call[b].op \notin {"none", "flush"} /\ xid[b] = NoXid
    /\ call' = [call EXCEPT ![b] = Flushing]
    /\ UNCHANGED <<xact, xid, rows, rels, used, shown, raced, calls>>

\* np_cache_xact_callback, once others may see that the transaction has aborted.
Flush(b) ==
    /\ call[b].op = "flush" /\ call' = [call EXCEPT ![b] = NoCall]
    /\ used' = AfterAbort(used) /\ shown' = Remains(AfterAbort(used))
    /\ UNCHANGED <<xact, xid, rows, rels, raced, calls>>

\* A call of backend b looks a graph up, row r of the catalog, and is given an address.
Looks(b, c, over) ==
    /\ call' = [call EXCEPT ![b] = c]
    /\ raced' = raced \cup Met(b, {c.graph}) \cup over
    /\ UNCHANGED <<xact, xid, rows, rels>>
LooksByName(b, r, c) ==
    \E s \in Slot : Enters(s, r) /\ Looks(b, [c EXCEPT !.entry = s], Overwritten(b, s, r))
LooksById(b, c) ==
    \E s \in Slot :
        \/ /\ FindsById(b, c.graph, s) /\ UNCHANGED cache
           /\ Looks(b, [c EXCEPT !.entry = s, !.row = shown[s]], {})
        \/ \E r \in LiveRows(b) :
             /\ EntersById(b, c.graph, s, r) /\ Enters(s, r)
             /\ Looks(b, [c EXCEPT !.entry = s, !.row = Copy(r)], Overwritten(b, s, r))

Calls(b) == call[b].op = "none" /\ calls < MaxCalls /\ calls' = calls + 1

\* Its work is done, on graphs gs.
Ends(b, gs) ==
    /\ Assign(b)
    /\ call' = [call EXCEPT ![b] = NoCall]
    /\ raced' = raced \cup Met(b, gs)

\* A call that has looked up a graph; `row` is what it found, `first` the graph it
\* read the first time it used its entry, `oids` what it has collected in `reads` reads.
CallOn(op, r) ==
    [op |-> op, graph |-> r.id, row |-> Copy(r), to |-> r.ns, asked |-> r.id, how |-> "create",
     entry |-> NoSlot, first |-> 0, oids |-> {}, reads |-> 0]
-----------------------------------------------------------------------------
(* Graphs.                                                                 *)

Ids == {r.id : r \in rows}

\* The id comes from a sequence; a lookup that finds nothing enters nothing.
CreateGraph(b, name, ns) ==
    LET g == Cardinality(Ids) + 1
    IN  /\ Calls(b) /\ g <= MaxGraphs
        /\ Unused(b, name, ns)
        /\ rows' = rows \cup {Written(b, [id |-> g, name |-> name, ns |-> ns,
                                          xmin |-> NoXid, xmax |-> NoXid])}
        /\ rels' = rels \cup {Written(b, x) : x \in GraphRelations(g, ns)}
        /\ Ends(b, {g}) /\ UNCHANGED <<used, shown>>

StartAlter(b, r, to) ==
    /\ to # r.ns
    /\ Calls(b) /\ LooksByName(b, r, [CallOn("alter", r) EXCEPT !.to = to])

StartDrop(b, r) == Calls(b) /\ LooksByName(b, r, CallOn("drop", r))

\* np_collect_graph_namespace_rels reads the entry for the relations it names, opens the
\* catalogs, which may wait, and reads it for their rows.  Before, alter_graph has looked
\* for a graph in its way.
Collect(b) ==
    LET c == call[b]
    IN  /\ c.op \in {"alter", "drop"} /\ c.reads < 2
        /\ (c.op = "alter" /\ c.reads = 0) =>
             \A s \in LiveRows(b) : ~(s.name = c.row.name /\ s.ns = c.to)
        /\ call' = [call EXCEPT ![b].oids = @ \cup Collected(b, Shown(b).id, Part(c.reads)),
                               ![b].reads = @ + 1]
        /\ UNCHANGED <<xact, xid, rows, rels, used, shown, raced, calls>>

\* The row the call ends with is looked up anew, by name: if the graph was renamed
\* meanwhile it may be another graph's.
RowNow(b, r) ==
    /\ call[b].row.name = r.name /\ call[b].row.ns = r.ns
    /\ MayWrite(b, r)

\* Mutant: whatever was collected is moved.
MovesAll(x, from) == TRUE

\* The graphs whose relations a call has collected.
WorkedOn(c) == {o.graph : o \in c.oids}

\* np_move_rel_to_namespace: what has been moved or dropped since is skipped.
Moves(x, from) == x.ns = from

FinishAlter(b) ==
    LET c == call[b]
        moved == {x \in {y \in rels : Live(b, y) /\ Oid(y) \in c.oids} : Moves(x, c.row.ns)}
    IN  /\ c.op = "alter" /\ c.reads = 2 /\ \A g \in WorkedOn(c) : MayExclude(b, g)
        /\ \E r \in LiveRows(b) :
             /\ RowNow(b, r) /\ Unused(b, r.name, c.to)
             /\ rows' = (rows \ {r}) \cup {Stamped(b, r), Written(b, [r EXCEPT !.ns = c.to])}
             /\ Ends(b, {c.graph, r.id} \cup WorkedOn(c))
        /\ rels' = (rels \ moved) \cup {Stamped(b, x) : x \in moved}
                        \cup {Written(b, [x EXCEPT !.ns = c.to]) : x \in moved}
        /\ UNCHANGED <<used, shown, calls>>

\* np_drop_rel
FinishDrop(b) ==
    LET c == call[b]
        dropped == {y \in rels : Live(b, y) /\ Oid(y) \in c.oids}
    IN  /\ c.op = "drop" /\ c.reads = 2 /\ \A g \in WorkedOn(c) : MayExclude(b, g)
        /\ \E r \in LiveRows(b) :
             /\ RowNow(b, r)
             /\ rows' = (rows \ {r}) \cup {Stamped(b, r)}
             /\ Ends(b, {c.graph, r.id} \cup WorkedOn(c))
        /\ rels' = (rels \ dropped) \cup {Stamped(b, x) : x \in dropped}
        /\ UNCHANGED <<used, shown, calls>>

\* Relations bear the graph's id and keep their names.  Removing the entry of the
\* old name from the cache removes none, here and above.
RenameGraph(b, r, name) ==
    /\ Calls(b)
    /\ name # r.name /\ Unused(b, name, r.ns) /\ MayWrite(b, r)
    /\ Assign(b) /\ call' = [call EXCEPT ![b] = NoCall] /\ UNCHANGED rels
    /\ \E s \in Slot :
         /\ Enters(s, r)
         /\ raced' = raced \cup Met(b, {r.id}) \cup Overwritten(b, s, r)
    /\ rows' = (rows \ {r}) \cup {Stamped(b, r), Written(b, [r EXCEPT !.name = name])}
-----------------------------------------------------------------------------
(* Labels.                                                                 *)

\* The sequence of label numbers is the graph's own and shared with whoever moves it,
\* the catalogs are found in Own.
NumbersAt(b, g) == MayShare(b, g) /\ \E x \in LiveOf(b, g) : x.kind = "own"
NamesAt(b, g) == \E x \in LiveOf(b, g) : x.kind = "catalog" /\ x.ns = Own

\* create_vlabel, merge_vlabels, create_elabel, merge_elabels: for the graph the
\* caller names, in the namespace it was found in.
StartLabel(b, r) == Calls(b) /\ LooksByName(b, r, CallOn("label", r))

\* set_vertex_label and set_edge_label of an element of a graph.
StartSetLabel(b, r) == Calls(b) /\ LooksById(b, CallOn("set", r))

\* The label is new: the name the entry shows is looked up along the caller's path.
NameLabel(b, r, path) ==
    LET g == call[b].graph
        there == \E s \in LiveRows(b) : s.id = g /\ s.ns = path
    IN  /\ call[b].op = "set" /\ UNCHANGED calls
        /\ r.name = Shown(b).name /\ r.ns = path
        /\ LooksByName(b, r, [CallOn("label", r) EXCEPT !.asked = g,
                                 !.how = IF there THEN "name" ELSE "path"])

\* The label two labels of an edge merge into: where the entry shows the graph.
StartEdgeLabel(b, r) == Calls(b) /\ LooksById(b, [CallOn("edge label", r) EXCEPT !.how = "copy"])

\* create_vlabel_from_path_internal: the graph is the caller's, the namespace Own.
StartReducedLabel(b, r) ==
    Calls(b) /\ LooksById(b, [CallOn("reduced", r) EXCEPT !.to = Own, !.how = "fixed"])

\* register_and_validate_labels; or a number and the table of a label of edges.
\* The entry is read for the graph, and will be again.
FirstRead(b) ==
    LET c == call[b]
        g == Shown(b).id
        reads(op) == call' = [call EXCEPT ![b].op = op, ![b].first = g]
    IN  /\ UNCHANGED <<xact, xid, rows, rels, used, shown, raced, calls>>
        /\ \/ c.op = "label" /\ NamesAt(b, g) /\ reads("vlabel")
           \/ c.op \in {"label", "edge label"} /\ NumbersAt(b, g) /\ reads("elabel")

\* What is built for the label: of a label of vertices, all that belongs to it is of the
\* graph that is read last; of a label of edges the table is of the graph read first.
FinishLabel(b) ==
    LET c == call[b]
        g == IF c.op = "reduced" THEN c.graph ELSE Shown(b).id
        h == IF c.op = "elabel" THEN c.first ELSE g
        to == IF c.how = "copy" THEN Shown(b).ns ELSE c.to
        label == Cardinality({x.label : x \in Of(g) \cup Of(h)})
        made == {x \in LabelRelations(h, label, to, c.asked, c.how) : x.kind = "table"}
                  \cup {x \in LabelRelations(g, label, to, c.asked, c.how) : x.kind = "sequence"}
    IN  /\ c.op \in {"vlabel", "elabel", "reduced"} /\ label <= MaxLabels
        /\ NumbersAt(b, g) /\ NumbersAt(b, h) /\ NamesAt(b, g)
        /\ rels' = rels \cup {Written(b, x) : x \in made}
        /\ Ends(b, {g, h}) /\ UNCHANGED <<rows, used, shown, calls>>
-----------------------------------------------------------------------------
\* A graph stands, created by transaction 1.
Init ==
    /\ xact = <<"committed">> /\ xid = [b \in Backend |-> NoXid]
    /\ \E name \in Name, ns \in Namespace :
         /\ rows = {[id |-> 1, name |-> name, ns |-> ns, xmin |-> 1, xmax |-> NoXid]}
         /\ rels = {[x EXCEPT !.xmin = 1] : x \in GraphRelations(1, ns)}
    /\ used = {} /\ shown = [s \in Slot |-> Nothing] /\ raced = {} /\ calls = 0
    /\ call = [b \in Backend |-> NoCall]

Next ==
    \/ Invalidate
    \/ \E b \in Backend :
        \/ Commit(b) \/ Abort(b) \/ Fail(b) \/ Flush(b)
        \/ Collect(b) \/ FinishAlter(b) \/ FinishDrop(b)
        \/ FirstRead(b) \/ FinishLabel(b)
        \/ \E name \in Name, ns \in Namespace : CreateGraph(b, name, ns)
        \/ \E r \in LiveRows(b) :
            \/ StartDrop(b, r) \/ StartLabel(b, r)
            \/ \E to \in Namespace : StartAlter(b, r, to)
            \/ \E name \in Name : RenameGraph(b, r, name)
            \/ StartSetLabel(b, r) \/ StartEdgeLabel(b, r) \/ StartReducedLabel(b, r)
            \/ \E path \in Namespace : NameLabel(b, r, path)

Spec == Init /\ [][Next]_vars
-----------------------------------------------------------------------------
(* Properties.                                                             *)

Stands(t) == DidCommit(xact, t.xmin) /\ ~DidCommit(xact, t.xmax)
Row(g) == {r \in rows : r.id = g /\ Stands(r)}
Relations(g) == {x \in Of(g) : Stands(x)}

\* The graph had other names or namespaces; it once was in Own and left it.
Changed(g) == Cardinality({Copy(r) : r \in {s \in rows : s.id = g}}) > 1
LeftOwn(g) ==
    LET places == {r.ns : r \in {s \in rows : s.id = g}} IN Own \in places /\ places # {Own}

\* The relations of a graph stand where they are looked for by name: the
\* catalogs and sequences in Own, the tables in the graph's namespace; those of
\* a dropped graph are gone.  Except for what leaves Own with a graph, for labels
\* made in Own and for those made where the cache showed a graph before.
StandWithGraph(g) ==
    /\ Row(g) = {} => (Relations(g) = {} \/ LeftOwn(g))
    /\ \A r \in Row(g), x \in Relations(g) :
         CASE x.kind = "own" -> x.ns = r.ns
           [] x.kind = "table" -> x.ns = r.ns \/ x.how = "fixed" \/ (x.how = "copy" /\ Changed(g))
           [] OTHER -> x.ns = Own \/ LeftOwn(g)

\* A label is made in the graph it is made for; except when that graph was
\* raced for, renamed or moved, or the caller's path leads to another one of its name.
MadeWhereAsked(g) ==
    \A x \in Relations(g) :
        \/ x.asked = g \/ x.asked \in raced
        \/ x.how = "name" /\ Changed(x.asked)
        \/ x.how = "path"

\* However calls, commits and rollbacks follow each other, as long as no two
\* transactions work on the graph at once and no lookup overwrites the entry of a
\* call on it (np_graph.c:345, :534, label_commands.c:410).
RelationsFollowGraph == \A g \in Ids \ raced : StandWithGraph(g) /\ MadeWhereAsked(g)

\* An entry of the cache shows a row that a running transaction or one that
\* committed wrote: what is rolled back is gone from the cache (np_cache.c:880),
\* once the callbacks of those that aborted have run.
CopiesWereWritten ==
    \/ \E b \in Backend : call[b].op = "flush"
    \/ \A s \in used : \E r \in rows : Copy(r) = shown[s] /\ ~DidAbort(xact, r.xmin)
=============================================================================
