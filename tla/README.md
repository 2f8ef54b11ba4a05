# NeoPostGraph in TLA+

TLA+ models of NeoPostGraph, a PostgreSQL extension that stores property
graphs, with TLC runs over small instances and TLAPS proofs. The reference is
the C code under `src/src/backend`; every definition that models code is
listed in `PROJECT.json` with the lines it stands for.

## 1. The system

A graph has vertex labels and edge labels. A vertex label owns several tables,
each with a table access method of the extension's own:

| Table | Written by | State |
|---|---|---|
| entity store (`np_entity_store.c`) | `dml_insert.c`, `dml_update.c`, `dml_delete.c`, `dml_labels.c` | versions of vertex (or edge) tuples: `xmin`, `xmax`, `prev_itemptr`, payload |
| annotation store (entity store AM) | `np_label.c`, `dml_insert.c` | versions of a vertex's annotation bitset |
| physical map (`np_phys_map.c`) | all of the above | an array indexed by vertex id: TID of the vertex tuple, head of its edge list, TID of its bitset |
| linked lists (`np_linked_list.c`), rotated by `create_new_active_linked_list` | `dml_insert.c`, `dml_delete.c` | one record per edge and direction, doubly linked per vertex |
| array lists (`np_arraylist.c`) | compaction (`np_adj_list.c`) | blocks of edges moved out of closed linked-list tables |
| label catalog, annotation schemas (`np_catalog_heap.c`) | `np_label.c`, `np_catalog.c` | heap rows under catalog rules: `xmin/xmax/cmin/cmax`, B-tree indexes |
| list metadata (a plain heap table) | `create_new_active_linked_list`, compaction | one row per list table: active, compacted |

An edge label owns an entity store and a physical map. Labels form a hierarchy
of ltree paths; a graph has a row in `np_graph`, two label catalogs, a catalog
of names and one annotation schema table with a map of its own, addressed by
label id. Rows of graphs, labels and dictionaries are cached in shared memory
(`np_cache.c`); the executor side hands rows to SQL as `vertex`, `edge` and
`gtype` values (`utils/adt`).

| Component | Operations | What makes it correct | Modules |
|---|---|---|---|
| Vertex rows | insert, update, annotate, delete a vertex; hang an edge on it | one live version; no update lost; the map finds the live row, the live bitset and the newest list head | `VertexStore` |
| Edges and lists | insert, delete an edge; delete a vertex with or without DETACH | no committed edge is cut off; lists are lists; edge tuple and its two records agree; no edge without its vertices | `AdjacencyList` |
| Map addressing | place a record, set a head, id to TID | every id has its own slot, all functions agree where | `PhysMapAddress`, `PhysMapFile` |
| Catalog heap | insert, update, delete, scan, index fetch, register a name | scans see their snapshot; names are unique; indexes find what stands | `CatalogHeap` |
| Compaction | close a list table, move its edges to array lists, insert and delete meanwhile | a vertex keeps its edges, a deletion stays; one table is active | `Compaction` |
| Label hierarchy and DDL | create, merge, drop, rename labels; choose a migration's target | names in use are registered; a migration ends at the label asked for | `LabelPaths`, `LabelCatalog` |
| Annotation schemas | add, drop an annotation on a label and those below it | the label's row and its schema slot hold one list; a bit keeps its meaning | `LabelCatalog` |
| Label migration | set or remove the label of a vertex or an edge | a vertex keeps its annotations and its edges, an edge its ends; nothing else changes | `LabelledGraph`, `LabelMigration` |
| Graph DDL and cache | create, move, rename, drop a graph; look up, enter, flush | a graph's relations go where it goes; nothing rolled back is in the cache | `GraphNamespaces` |
| Dictionaries, gtype | encode, decode, compare | decoding inverts encoding; comparison is an order | not modelled |

Components meet in shared pages only: there are no messages, no background
processes and, outside graph DDL, no heavyweight locks that exclude. Each function takes the lock of one
buffer, reads or writes, releases it and takes the next one. What is hard
follows from that:

- **interleaving**: a value read under one lock is acted on under a later one
  (list heads, whole map records, checks before stamps);
- **rollback**: tuples and records carry transaction ids, so an abort makes
  them invisible; map slots, `next`/`prev` pointers and index-entry hints
  are overwritten in place and stay as they are;
- **two notions of "deleted"**: some code asks the transaction log about
  a stamp, some only whether a stamp is there;
- **addresses are arithmetic**: slots are computed from ids, in more than
  one way.

## 2. Modules

**`NPXact`** is the transaction log all models share: `xact` is a sequence of
statuses, `TupleIsLive` and `TupleXmaxOther` are the two predicates of
`np_entity_store.c`. They read the transaction log and no snapshot. A crash is
an abort of the transactions that ran: pages are written through WAL (`GenericXLog`)
one at a time, which is the granularity of the steps.

**`VertexStore`** models one vertex label. `vtab` and `atab` are the two
stores, a row's position being its TID; `pmap` is the map; `rec` and `old` are
the C locals that live across lock releases: the copied map record and
the TID of the old version. `update_vertex` is `UpdateVertex` (read the map),
`AppendVersion` (check and append; the appended row is unreachable until
mapped), `OverwriteMap` and `StampVersion`. Annotations take the same path over
`atab`; `np_place_physmap_record` is `PlaceMap`; the list head comes in as
`PushEdge`. `Reject` is the error path, which aborts the transaction.

**`AdjacencyList`** models `insert_edge`, `delete_edge` and `delete_vertex`
over edge tuples, list records and list heads. `insert_edge_one_direction` is
four steps, `ReadHead`, `AppendRecord`, `FixPrev`, `SetHead`, run once per
direction. Deletion stamps the edge and walks both lists
(`StartWalk`, `WalkOn`, `StampRecord`, `NextList`, `WalkEnds`). `delete_vertex` collects the active
edges (`Collect`, `Refuse`) and cascades (`CascadeDelete`, each with the two walks) before it
stamps the vertex. Here a map slot is only its list head; what
`update_vertex` does to that head is `VertexStore`'s subject.

**`PhysMapAddress`** is the arithmetic with the real numbers (8192-byte pages,
22- and 12-byte records); **`PhysMapFile`** the file that grows and is padded.
Three counts are kept apart: `PerPage` (what insertion computes, 314),
`HeadPerPage` (what `np_calculate_tuples_per_page` computes, 157) and `Capacity`
(what fits once items are aligned, 291).

**`CatalogHeap`** has rows with command ids, snapshots, and the set of index
entries a reader has marked dead. `done` in a snapshot is a reference
only: what had committed when it was taken. Two visibility rules are compared with
it: the catalog's and the one list access methods use.

**`Compaction`** models a vertex label's list tables, their metadata and the
array list. `node` holds the records and blocks of all tables, so a number
stands for a (table, TID) pair; `meta` is the metadata table, `maker` tells which
transaction created a list table and thereby who can open it. The operations
are `Insert` and `Delete` for one direction of an edge (each edge has one entry in
each of two such lists; the models of the two lists do not interact), `RotateActive`, and
`Compact`: pick the oldest closed table, `Scan` it, and per vertex `Merge` the
block below, `Rewrite` and `Wire`, then `Mark` the table. The ghost variable `calm` says
that transactions have come one after another and that none was rolled back out of a call, or
after a rotation or compaction.

**`LabelPaths`** and **`LabelCatalog`** are the DDL. `LabelPaths` has the path
arithmetic as operators (`MergedPath`, `WithoutFirst`, `Renamed`, ...).
`Without` is a recursive function because what takes elements out of a sequence in the
standard modules is opaque to the prover.
`LabelCatalog` keeps in `cat` the rows of both label catalogs in scan order, the
names in the global catalog and the schema slots; a call is one action, since
one session runs it, and an abort restores everything but the slots. `leaked`
collects the slots a rollback left behind, or a call that is refused after it has written them
(`RefuseAnnotation`). `ResolveTarget` is the part of
`set_vertex_label` and `set_edge_label` that finds or makes the label to move to.

**`LabelMigration`** is the other part: the stores, maps and lists that
`set_vertex_label`, `remove_vertex_label`, `set_edge_label` and
`remove_edge_label` work on, in one session, with rollbacks between any two steps. A
vertex's migration is `Migrate` (new row, annotations), then `ReadNode`,
`TakeEdge`, `PutEdge` for each node of the old list, `Tombstone` and
`ClearSlot`; an edge's is `SetEdgeLabel` and `Reinsert`. `CompactLists` puts the
lists into array blocks between transactions, in the form `Compaction` ends with,
because the array branch takes all edges of a block before it puts any.

**`LabelledGraph`** is the abstract specification: vertices with a label and
annotations, edges with two ends and a label, a draft that a commit makes the graph.
`LabelMigration!KeepsGraph` states that the stores implement it. The
refinement mapping is `View`: a vertex is where its one live row is, its
annotations are the bits of the live bitsets read by that label's schema, an edge goes between the
vertices its live row names; `graph` reads the rows as committed and `draft` as the
session sees them. The view is taken between calls (`shown`), so a
call is one abstract step however many steps it has; TLC checks the steps in between as
stutters.

**`GraphNamespaces`** models `np_graph.c`, the cache of graph rows and what
makes labels, in the same vocabulary of versioned rows: `rows` is `np_graph`,
`rels` the relations with their namespace. The cache is shared memory: `used` are the addresses of
its entries, `shown` is what is to be read at an address, in an entry or in one that was removed while a call
holds it. `hash_search` is given the address of the key pointer, so a lookup by
name never hits, and an entry may overwrite any other that was made from the same place
(`LooksByName`, `Enters`); a search by id takes any entry showing that id (`LooksById`).

A call is given an address and reads it again, between steps that may wait. `alter_graph` and `drop_graph`
look a graph up, collect its relations in two reads of the entry with the opening of the catalogs in between
(`Collect`), wait for exclusive locks and work (`FinishAlter`, `FinishDrop`). Making a label is the lookup, the read that
registers names or numbers an edge label (`FirstRead`) and the read that numbers and builds the label
(`FinishLabel`; the reads after the label's number are taken as one); `set_vertex_label` looks the graph up by id and then
by the name it finds there (`NameLabel`). An abort is followed by its callback, `Flush`, as a step of its own.
`raced` is a reference: the graphs two transactions have worked on at once, and those an overwritten entry
showed before and after, if another call held it.

The modules meet as follows. `AdjacencyList`, `Compaction` and `LabelMigration` share the
lists: the first takes insertions and deletions apart, the second the tables the
lists run through, the third takes both as wholes and looks at a vertex with all its
tables. `VertexStore` and `LabelMigration` share slots and bitsets. `LabelCatalog` decides
which label `LabelMigration` moves to, and `CatalogHeap` is the heap under `LabelCatalog`
and `GraphNamespaces`. All but `LabelPaths`, `LabelCatalog` and the map modules extend `NPXact`.

Definitions under the comment `Mutant` are deliberately wrong variants of the
definition next to them; nothing in the models uses them. `PROJECT.json` says
which property each of them breaks.

## 3. Runs

All runs are finite; the bounds are constants and appear as guards
(`MaxXid`, `MaxTuples`, `MaxPushes`, `MaxRows`, `MaxCid`, `MaxTables`, `MaxLabel`,
`MaxLabels`, `MaxGraphs`, `MaxCalls`). Deadlock is not
checked: sessions may stop at any time, and bounded instances end.

### Runs that pass

| Run | Instance | Shows |
|---|---|---|
| `VertexStore` | 2 backends, 1 vertex, 3 versions, overlapping transactions whose calls take turns, rollback, ids not seen by the caller | chains lead back within the vertex, slots name its rows; one live version, no update lost, the map finds the live row and bitset, only rolled-back stamps are stamped over |
| `AdjacencySerial` | 1 backend, edges u→v, v→u and u→u, several calls per transaction, rollback | deletion, cascade and refusal agree with the edges; no committed edge is lost |
| `AdjacencyConcurrent` | 2 backends, 2 parallel edges, rollback, ids not seen by the caller, fairness | types, list shape, `prev` inverts `next`, unlinking belongs to a deletion, every call ends |
| `PhysMapOneCount` | one count of 2 records a page, ids over four pages | with one count the addressing is right on several pages, in any order |
| `CatalogHeap` | 2 backends, isolated writers, commands, rollback | scans see exactly their snapshot and keep seeing it; so does the list rule; names are unique and indexes complete |
| `Compaction` | 2 backends, 1 vertex, 2 entries, 3 list tables, blocks of one member, rollback | one active table and downward array chains in every interleaving; in calm histories each entry is found once, deletions stay, compacted tables are out of use, the scan's assertion holds |
| `LabelCatalog` | 1 session, 2 names, 2 annotations of which one is also a label's name, 4 labels, 4 calls, refused ones included, rollback | row and schema slot agree, bits keep their meaning, names in use are registered, migrations end at the label asked for |
| `LabelMigration` | 1 session, 2 vertices, 2 edges (self-loops included), 2 labels of each kind with the annotations at other bits, 3 calls, compacted lists, rollback between steps | stores, maps and lists agree between calls, a migration meets nothing it cannot fetch, and the stores implement `LabelledGraph` |
| `GraphNamespaces` | 2 backends, 2 graphs, 2 names, 3 namespaces, 2 addresses in the cache, 3 calls in 3 transactions, rollback | relations stand with their graph and labels are made in the graph asked for; the cache has nothing that was rolled back |

`CallsApart` (`VertexStore`) restricts callers: of the calls under way no two are about one vertex; the
transactions they belong to may be. `Isolated` (`CatalogHeap`): no open transaction writes a row another
one replaces. `Rollback` allows aborts and errors. `OneCall` makes every call its own
transaction. `AnyId` lets calls name rows the caller cannot see, which SQL
functions with an id argument permit.

Several properties name the histories the code does not survive, and hold of
all others. What they except is what the code gets wrong, found by checking the
property without the exception:

| Property | Except | Because |
|---|---|---|
| `MapFindsLive` | vertices with a rolled-back version or bitset | the slot is overwritten before the commit and keeps naming the aborted row |
| `DeletedMeansUnlinked` | records with an aborted stamp | a later deletion skips every stamped record |
| `DeletionAgrees` | edges with an aborted stamp on a record; aborted insertions; self-loops | a stamped record counts as inactive, so `DELETE` is not refused; an aborted insertion's record counts as active; a self-loop is collected twice and its second deletion fails |
| `ScansMatchMVCC` (the list rule) | rows with an aborted `xmin` or `xmax` | below the snapshot's horizon every transaction is taken as committed |
| `NoTwinRows`, `CommittedIsIndexed` | names with an undecided row when they were looked up | see below |
| `EachOnce`, `CompactionIsSafe` | histories that are not calm | see below |
| `SchemaAgrees`, `BitsKeepMeaning` | schema slots a rollback left, or two labels share | the slot is addressed by label id alone, for vertex and edge labels, and overwritten in place |
| `RegistrationLostOnlyBy` | edge labels of the same name, `drop_annotation_label`, paths with a name twice | the global entry is changed without asking who else uses the name |
| `TargetIsExact` | labels whose path an archived label has too | the archived one may be found first, and searches by path skip it |
| `KeepsGraph`, `StoresAgree` | edges that share their id with another; what a rolled-back transaction has worked on | an edge keeps its id under the new label; old slots, edge slots and list stamps are written in place |
| `MigrationFinishes` | self-loops in an array block | both members are copied, and the second one's edge was just deleted |
| `RelationsFollowGraph` | graphs two transactions work on at once; the graphs of an entry overwritten while a call held it; what leaves `neopostgraph` with a graph; labels made after a rename or move, or along a search path with another graph of the name | relations are collected before they are locked; the call goes on with what the entry shows then, and builds its label, or collects relations, in another graph; catalogs and sequences are looked for in `neopostgraph`; the cache shows the former name and namespace |
| `CopiesWereWritten` | the time between an abort and its callback | the flush comes after the abort is visible |

Two calls at once on one vertex are left out of the run `VertexStore`, because the code gets them wrong in two ways. Both
may pass the check on one version (`dml_update.c:251`, `np_label.c:1502`, under a lock that is dropped) before either stamps it;
both commit and one update is lost. The run `VertexLostUpdate` shows it. And an update that writes a map record back
(`dml_update.c:286`) overwrites a list head an insertion set meanwhile, so that the edge is cut off; no property is about
that, since with calls that take turns there is nothing it could lose. `Isolated` in `CatalogHeap` leaves out that a replaced catalog
row may lose another transaction's stamp (`np_catalog_heap.c:470`, seen as a violation of `ScanIsStable` with it switched off).

Two transactions may register one label name at once. One is enough if it deletes the name, looks
it up again and rolls back: `np_catalog_heap.c:630` then has the index entry marked dead although
the row stands, and the name can be registered a second time. `NoTwinRows` and `CommittedIsIndexed` leave out the names
that were looked up while a row of theirs was undecided.

`Compaction` without `calm` reaches: a deletion between `Scan` and `Wire` that comes undone; an
insertion by a transaction that does not yet see a rotation, whose record is cut off or makes the
scan's assertion fail; a rolled-back compaction that is repeated and moves the head over newer
records; a rolled-back rotation whose dropped table a head still names.

Four more observations are in no property. `merge_elabels` makes the new label of its second
parent twice: both cached pointers show that one (`np_label.c:414`; the recorded output of `regress/sql/edge.sql:178`
has it, and so has `LabelCatalog!MergeEdge`). `prev` leads to newer records,
while `design/planner_setup.md:72` speaks of older ones; `UnlinkMeansDeleted`
needs ids that are unique across edge labels, which the sequences do not give; 291
map records fit on a page where insertion assumes 314, so the first id that does not
fit is 292.

Why the bounds are enough to be interesting: a forked chain needs two
transactions over one version and a third to have written it (`MaxXid = 3`,
three versions); a cut-off record needs two insertions at one vertex; a stale
`prev` needs two records and two walks; an address error needs ids on two
pages and one out of order; merging a block needs two compactions, so three
tables, and with blocks of one member every merge also makes a chain.
A label path with a name twice takes two calls, a third to drop the name and a fourth to
meet what is left. An edge moves with its vertex after one call beside the insertion
that `Init` makes; two calls move both its ends or change its label and then its end; the third meets what
they left, or what a rollback left, or a second edge with the same id. A stale cache entry needs a lookup, a
rename or move, and a label; an overwritten entry needs a call of one backend, a lookup
of the other and the rest of the first call; each exception of `RelationsFollowGraph` is reached.
`xact` starts with the transaction that set the tables up, so `MaxXid` counts one
less than it says. The mutants break each property inside these bounds.

### Runs that find a violation

Each checks one property that a comment, test, error message or design note
states; section `findings` of `PROJECT.json` quotes it.

| Run | Property | Trace |
|---|---|---|
| `VertexLostUpdate` | `BitsetUpdatesAreKept` | two annotation calls check one bitset, then stamp it in turn; both commit, and one annotation is lost |
| `AdjacencyLostEdge` | `NothingLost` | two insertions read one head; the first record is no longer reachable |
| `PhysMapHeadSlot` | `OthersUntouched` | the real counts, ids 1, 158, 315: the head of 158 lands in the slot of 315 |

### Fairness

Only `CallsFinish` (run `AdjacencyConcurrent`) needs it: `FairSpec` adds
`WF_vars(Continue(b))` for each backend. A backend inside a call holds one buffer lock for
one step and waits for nothing while it holds it, so the scheduler lets each
call proceed. Nothing is assumed of `Begin`, `Commit`, `Abort` or the start of a
call: clients may never issue them. That walks over a growing list come to an end is
then a matter of `next` always leading to older records.

## 4. Proofs

The theorems hold for any number of backends, vertices, edges, rows, tables, graphs, transactions
and calls. They use the named `ASSUME`s of the modules, which TLC evaluates in every run,
and the hypothesis in the last column.

| Module | Theorems about | Hypothesis |
|---|---|---|
| `VertexStoreProofs` | `TypeOK`, `PrevChain`, `MapTargets` | none |
| | `DeathIsFinal`, `NoLostUpdate`, `OneLiveVersion`, `MapFindsLive` | `CallsApart` |
| `AdjacencyListProofs` | `TypeOK`, `ListShape`, `PrevInvertsNext` | none |
| | `UnlinkMeansDeleted` | `UniqueIds` |
| | `NothingLost` | `OneAtATime` |
| | `DeletedMeansUnlinked` | `OneAtATime`, `UniqueIds` |
| | `DeletionAgrees` | `OneAtATime`, `UniqueIds`, `~AnyId` |
| `PhysMapFileProofs` | `SlotIsFound`, `OthersUntouched` | `SlotsAgree` |
| | ids and slots are inverse (`TidRoundTrip`), when two counts agree (`CountsAgreeOnFirstPage`), the source's numbers (`SourceNumbers`), which counts give `SlotsAgree` (`WhenSlotsAgree`), slots past the page stay empty (`SlotsPastThePage`) | none |
| `CatalogHeapProofs` | `TypeOK`, `ScansMatchMVCC` | none |
| | `NoTwinRows`, `CommittedIsIndexed`, `ScanIsStable` | `Isolated` |
| `CompactionProofs` | `TypeOK`, `BlocksLeadDown`, `OneActive` | none |
| `CompactionCalmProofs` | `EachOnce`, `CompactionIsSafe` | none (the properties speak of calm histories) |
| `LabelCatalogProofs` | `TypeOK`, `SchemaAgrees`, `BitsKeepMeaning`, `TargetIsExact` | none |
| `GraphNamespacesProofs` | `CopiesWereWritten`, `RelationsFollowGraph` | none |

The hypotheses are restrictions on callers, each satisfied by a run that passes:

- `CallsApart` is the constant of `VertexStore` (section 3): calls take turns on a vertex, while their transactions may
  overlap on it (run `VertexStore`). Without it the code loses updates (run `VertexLostUpdate`).
- `Isolated` is the constant of `CatalogHeap`: no open transaction writes a row another one replaces (run `CatalogHeap`).
- `OneAtATime`: at most one transaction is open. It is assumed of the behaviour
  (`Spec /\ []OneAtATime`) and not of a constant; one backend is a case of it (run `AdjacencySerial`),
  and several backends that take turns are another.
- `UniqueIds`: distinct edges have distinct ids. The code gives that only within a label.
- `~AnyId`: callers name edges and vertices they see.
- `SlotsAgree`: every function computes the same slot for an id, and it is on the page (run `PhysMapOneCount`). `WhenSlotsAgree` says that one
  count that fits the page is enough, and that the source's three numbers give it exactly
  as long as ids do not exceed 157.

### Arguments

**`VertexStoreProofs`.** The inductive invariant adds `SavedTargets` to the properties: what a
backend has copied (`rec`, `old`) also names rows of the vertex it works on. Without it
the write-back of a map record could not be shown to restore anything valid. Rows
never change their `id`, and tables only grow, so other backends' copies stay valid. `ApartInv` adds that
the calls under way are about different vertices (`VerticesApart`), so that the version found free at the check is
still free, or stamped in vain, when it is stamped (`OldIsFree`): whatever other transactions have done and may yet do to the vertex,
none of their calls comes in between, and a stamp of a transaction that is still open makes the check fail (`StampsFollow`).

Its second part is about versions. The two stores of a vertex are versioned the same way. What is proved of one
store is stated of a transaction log, a table, the slots and what each backend is doing in it
(`VertexWork` and `BitsetWork` read that off `pc`, `rec` and `old`), and cited twice. `StoreInv` says: who replaced a row has stamped it or will,
unless he rolled back (`Replaces`); of two successors of a version one was rolled back (`NoForks`); of two rows of a vertex that may both
come to count, an open transaction takes one and has written the other (`RivalsEnd`); a row of a vertex without rollbacks is
in the slot, on its way there, or replaced (`SlotIsLast`, `SlotIsSet`). `Mirrors` ties the copied map record to the map
for as long as the call lasts.

**`AdjacencyListProofs`.** The invariant adds `Held`: what an insertion has saved and appended hangs
on the vertex it inserts at, the new record's `next` is the saved one, and records are only
written at the end. `FixPrev` then keeps `PrevInvertsNext` although two insertions may write the same `prev`,
because each new record's `next` is that record.

Its second part, one transaction at a time, has three layers, each on the one before.
`SerialInv`: a record belongs to its edge and direction and is the only one (`RecordsBelong`, `RecordedOnce`), what a list head or a `next`
skips was rolled back (`Skips`, `Tops`), so what may count is reachable. `DeleteInv`: the unstamped records of a
deleted edge lie ahead of the walk that is on its way (`Walks`, `Unlinked`), and no edge is deleted while it is
inserted (`Fresh`). `VertexInv`: the active edges of the vertex are still ahead, collected, or being deleted (`Collects`), those collected can be deleted (`CanDelete`),
and what is left at a deleted vertex carries the mark of a rolled-back deletion (`Fenced`).
`Chain` is a recursive function of the list; as induction over data is out of reach, it is unfolded one step at
a time, and reachability is defined as the intersection of all sets closed under `next` (`Reach`).

**`PhysMapFileProofs`.** `FileInv` adds that the slot of every placed id holds that id and its head (`SlotsHold`);
injectivity of the address arithmetic keeps other slots apart, whatever the padding.

**`CatalogHeapProofs`.** A snapshot sorts transactions into its own, those that ran, committed and aborted (`SnapshotsSort`), and a row is stamped by its own
writer or after it has committed (`StampsFollow`); visibility follows by cases. Under isolation a row being replaced is
free of other stamps (`ReplacedIsFree`), an index entry is killed only with a dead row or of a name set aside (`KilledAreDead`), and of two rows of a name that may
both come to stand an open transaction takes one and has written the other (`RivalsAreSettled`).

**`CompactionProofs`.** `LocalsOK` types what a call has saved, `RecordsFollow` orders records below blocks, and a block
written leads to the next of its run or to an older one (`BlocksLeadDown`). For the metadata, one active row
counts for everybody (`OneBase`), and a backend has one of its own exactly if it has stamped that one and is
past the moment between its two writes (`OwnReplaces`). `np_catalog_update` refuses a row another one has
stamped, so only one of two racing rotations gets there; nothing of this needs `calm`.

**`CompactionCalmProofs`.** `CalmInv` says of calm histories three things, again in layers. `TablesInv`: there is one
transaction at a time, tables are compacted in the order they were made, and the table an operation has picked is still the
active or the oldest one. `ListsInv`: no walk goes in a circle (`Founded`), the records of a chain stand
before its blocks (`Standing`, `ChainStands`), and what an insertion or a compaction has read still holds
(`InsertSet`, `JobSet`). `EntriesInv`: an entry is on the nodes a walk meets exactly once, or is still to come
(`EntriesOnce`), its stamps agree with its deletion (`StampsAgree`), what a deletion walks towards is below it (`CallsSet`), and only
the block being replaced bears a stamp (`Unmerged`). `EachOnce` counts members of a sequence of nodes, while the argument is about
sets of nodes (`Reaches`, `On`); `Agrees` ties the two, and so `Merge`, `Rewrite` and `Wire` are shown to swap nodes
that hold the same members. `Chain` and the community modules' `FlattenSeq` are recursive functions: that they exist is
shown first (`ChainSteps`, `FlattenThere`), by the least number at which they would not.

**`LabelCatalogProofs`.** `CatalogInv` says that rows and schema slots agree wherever a label has its slot for itself (`Agree`), in the
catalogs as they are and in those a rollback would leave. The second half needs the ids whose slot the transaction
has written, and `Filled`: a filled slot belongs to a label or was left by a rollback, so a new label, which may be made without
writing its slot, finds it empty. A call is either `Grew` (labels added, none touched) or works through the rows of a catalog with a fold. The
folds of the community modules are functions of sets of positions; `FoldThere` and `FoldRuns` show that they exist and run from
the first position to the last, and `Under` is the invariant of such a run: the first `i` rows worked on, the others untouched, each
label still there once. `Kept` is what the steps have in common, and says that no map has lost a position unless an annotation was dropped, which is
`BitsKeepMeaning`. Paths keep the root first (`Path`), whatever is merged, renamed or taken out. `TargetIsExact` follows from
what `Resolve` answers in each of its cases (`ResolveOK`): a row found under the path, or a new one, which is primary.

**`GraphNamespacesProofs`.** Whatever lookups enter and overwrite, an entry is a copy of a row its backend could see; such a row's writer has committed or is running, and an abort
is followed by a flush before anything else its backend does. `CallsOK`: what a call reads through its address is the row it found, or its graph
and the one it reads now are both in `raced`; a lookup of another backend is the one step that can change it (`StillReads`), and
a flush leaves it legible.
For `RelationsFollowGraph` the invariant `GraphInv` speaks of views: what stands is one view of a graph, what a backend's
transaction sees another. As long as the graph is not in `raced` one backend at most works on it (`Alone`), so every other view is the
one that stands, and a commit or a rollback turns this backend's view into that or the other way round (`EndGraph`). Work changes
one view only (`RowsWork`, `RelsWork`), which is in place again when what the call has looked up still fits it (`CallFits`): all
that can be moved or dropped was collected, a label goes where the row is or falls under an exception. The exceptions never
cease (`ExceptionsStay`), because stamped rows remain. `RivalsEnd` gives a graph one row in each view.

### What is only model-checked

- `CallsFinish`: liveness, out of the prover's reach.
- `LabelCatalog`'s `RegistrationLostOnlyBy`: the names of all vertex labels against the global catalog.
- `LabelMigration`'s `TypeOK`, `StoresAgree`, `MigrationFinishes` and its refinement of `LabelledGraph`, `KeepsGraph`.

## 5. What is not modelled

- Payloads, page layout inside the entity store, WAL records, the
  table-AM entry points that the graph functions do not use (the entity store's update holds the old
  row's page while it waits for the last page of the file, `np_entity_store.c:449`).
- `update_edge` and edge annotations: `update_vertex` and vertex annotations over the edge's map.
- In `Compaction`: a scan over several pages, several calls in one statement, and the array branch of
  `delete_vertex`, which takes a raw record for a heap tuple and grows
  a null pointer, so that it fails at the first edge (`dml_delete.c:267`).
- A second session inside a label migration. The old row is stamped without a new check and the list head is read
  before the new row is there, so nearly everything about two such sessions would be an exception; this is listed
  as a hazard.
- In `LabelCatalog`: the syntax of names, duplicates within an annotation array a caller passes,
  dropping or removing the root `_` itself, which `drop_vlabel` and `remove_vertex_label` do not refuse (`dml_labels.c:1126`, `:1236`), two sessions.
- In `GraphNamespaces`: search paths other than a single namespace, dropping a schema, the label and
  dictionary caches (which point into one backend's memory), the growth of the shared tables.
- Savepoints: rows carry the top transaction's id, so `ROLLBACK TO` is a
  hazard of its own (listed).
- Vacuum and transaction-id wraparound: ids are 64 bits wide, rows are never removed.
- Dictionaries: no store is created with one (`label_commands.c:168` is commented out). `gtype`: parser, output and
  comparison of values, without shared state.
- `np_logical.c` is not part of the build.

## 6. Plan

1. `LabelMigration!TypeOK`, that its initial states map to those of `LabelledGraph`, and that its
   steps do.
2. An abstract set of edges that `AdjacencyList` with one session and `Compaction` in calm histories implement.
3. `PageLocks`: which pages one call holds while it waits for another.
