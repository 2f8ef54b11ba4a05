----------------------------- MODULE Compaction -----------------------------
(***************************************************************************)
(* Rotation and compaction of the lists of one vertex label.  New records  *)
(* go to the active list table.  A rotation closes it and opens another;   *)
(* a compaction takes the oldest closed table, merges each vertex's        *)
(* records with the first array block below them, writes the result as new *)
(* blocks and points whatever stood above at the first of them.  A         *)
(* vertex's chain thus leads from the active table through closed ones     *)
(* into the array list.                                                    *)
(*                                                                         *)
(* An entry is one direction of an edge, the unit insert_edge_one_direction *)
(* and np_delete_edge_from_adj_list work on; the edge's tuple is kept with *)
(* it.  Records and blocks of all tables share one sequence of nodes, so a *)
(* (table, TID) pair of the code is one number here.                       *)
(***************************************************************************)
EXTENDS NPXact, SequencesExt

CONSTANTS
    Backend, Vertex, Entry,
    OwnerOf,    \* the vertex whose list an entry belongs to
    PerBlock,   \* MAX_EDGES_PER_BLOCK
    MaxXid,     \* bound: transactions
    MaxTables   \* bound: list tables

ASSUME CompactionAssumption ==
    /\ OwnerOf \in [Entry -> Vertex]
    /\ {PerBlock, MaxXid, MaxTables} \subseteq Nat \ {0}

VARIABLES
    xact, xid, pc,
    etup,   \* edge tuple headers, xmin = NoXid before the insertion
    meta,   \* linked_list_meta: rows in TID order
    maker,  \* the transaction that created each list table, by table number
    node,   \* list records (one member) and array blocks
    head,   \* e_tbl_id and e_itemptr of the phys_map slots
    loc,    \* locals of the operation a backend is in
    calm    \* reference: transactions have come one after another, and none
            \* was rolled back out of a call, a rotation or a compaction

data == <<etup, meta, maker, node, head>>
vars == <<xact, xid, pc, data, loc, calm>>

Nil == 0
ArrayList == 0    \* the table number of the array list

NoLocals ==
    [entry |-> Nil,    \* the entry inserted or deleted
     tbl   |-> Nil,    \* the table inserted into, opened or compacted
     at    |-> Nil,    \* head read, node walked to, first new block
     new   |-> Nil,    \* the record appended
     row   |-> Nil,    \* the metadata row being replaced
     batch |-> {},     \* what a compaction has still to move, by vertex
     job   |-> Nil,    \* the part of it in hand
     then  |-> "",     \* what follows a rotation
     ddl   |-> FALSE]  \* the transaction has changed the metadata

Steps == {"idle", "readHead", "appendRecord", "fixPrev", "setHead",
          "startWalk", "walk", "close", "addActive",
          "pick", "scan", "merge", "rewrite", "wire", "findRow", "mark"}

Init ==
    /\ xact = <<"committed">>
    /\ xid = [b \in Backend |-> NoXid]
    /\ pc = [b \in Backend |-> "idle"]
    /\ etup = [e \in Entry |-> [xmin |-> NoXid, xmax |-> NoXid]]
    /\ meta = <<[tbl |-> 1, active |-> TRUE, compacted |-> FALSE,
                 xmin |-> 1, xmax |-> NoXid]>>
    /\ maker = <<1>>
    /\ node = <<>>
    /\ head = [v \in Vertex |-> Nil]
    /\ loc = [b \in Backend |-> NoLocals]
    /\ calm = TRUE

Goto(b, step) == pc' = [pc EXCEPT ![b] = step]
CanCall(b) == pc[b] = "idle" /\ xid[b] # NoXid

\* After a call only the note that the metadata was changed is left.
Return(b) ==
    /\ Goto(b, "idle")
    /\ loc' = [loc EXCEPT ![b] = [NoLocals EXCEPT !.ddl = loc[b].ddl]]

Begin(b) ==
    /\ pc[b] = "idle" /\ xid[b] = NoXid
    /\ Len(xact) < MaxXid
    /\ xact' = Append(xact, "running")
    /\ xid' = [xid EXCEPT ![b] = Len(xact) + 1]
    /\ calm' = (calm /\ \A x \in DOMAIN xact : ~InProgress(xact, x))
    /\ UNCHANGED <<pc, data, loc>>

End(b, status) ==
    /\ xact' = [xact EXCEPT ![xid[b]] = status]
    /\ xid' = [xid EXCEPT ![b] = NoXid]
    /\ Goto(b, "idle")
    /\ loc' = [loc EXCEPT ![b] = NoLocals]
    /\ UNCHANGED data

Commit(b) ==
    /\ CanCall(b)
    /\ End(b, "committed")
    /\ UNCHANGED calm

\* ROLLBACK, a crash, or an error: a tuple or catalog row that may not be
\* replaced, a table that is gone, the assertion of the scan.  Where one of
\* these holds, the guards below leave nothing else to a backend.
Abort(b) ==
    /\ xid[b] # NoXid
    /\ End(b, "aborted")
    /\ calm' = (calm /\ pc[b] = "idle" /\ ~loc[b].ddl)

\* The table of a node.  table_open waits for a running creator, whose lock
\* conflicts, and fails when the creator was rolled back and the table is gone.
TableOf(n) == node[n].tbl
Opens(b, t) == t # ArrayList => maker[t] = xid[b] \/ DidCommit(xact, maker[t])

\* systable_beginscan with a fresh catalog snapshot, and the row it meets first.
VisibleRows(b) == {i \in DOMAIN meta : TupleIsLive(xact, xid[b], meta[i])}
ActiveRows(b) == {i \in VisibleRows(b) : meta[i].active}
FirstOf(S) == CHOOSE i \in S : \A j \in S : i <= j
-----------------------------------------------------------------------------
(* An entry is inserted: insert_edge_one_direction.                         *)

Insert(b, e) ==
    /\ CanCall(b)
    /\ etup[e].xmin = NoXid
    /\ ActiveRows(b) # {}    \* or "No active linked list"
    /\ etup' = [etup EXCEPT ![e].xmin = xid[b]]
    /\ loc' = [loc EXCEPT ![b].entry = e,
                          ![b].tbl = meta[FirstOf(ActiveRows(b))].tbl]
    /\ Goto(b, "readHead")
    /\ UNCHANGED <<xact, xid, meta, maker, node, head, calm>>

\* table_open of the active table, then get_current_head_tid.
ReadHead(b) ==
    /\ pc[b] = "readHead" /\ Opens(b, loc[b].tbl)
    /\ loc' = [loc EXCEPT ![b].at = head[OwnerOf[loc[b].entry]]]
    /\ Goto(b, "appendRecord")
    /\ UNCHANGED <<xact, xid, data, calm>>

Record(b) ==
    [tbl |-> loc[b].tbl, owner |-> OwnerOf[loc[b].entry],
     members |-> <<[entry |-> loc[b].entry, xmin |-> xid[b], xmax |-> NoXid]>>,
     next |-> loc[b].at, prev |-> Nil, xmax |-> NoXid]

AppendRecord(b) ==
    /\ pc[b] = "appendRecord"
    /\ node' = Append(node, Record(b))
    /\ loc' = [loc EXCEPT ![b].new = Len(node) + 1]
    /\ Goto(b, IF loc[b].at = Nil THEN "setHead" ELSE "fixPrev")
    /\ UNCHANGED <<xact, xid, etup, meta, maker, head, calm>>

\* update_edge_prev_pointer or np_update_arraylist_prev_pointer_inplace.
FixPrev(b) ==
    /\ pc[b] = "fixPrev" /\ Opens(b, TableOf(loc[b].at))
    /\ node' = [node EXCEPT ![loc[b].at].prev = loc[b].new]
    /\ Goto(b, "setHead")
    /\ UNCHANGED <<xact, xid, etup, meta, maker, head, loc, calm>>

SetHead(b) ==
    /\ pc[b] = "setHead"
    /\ head' = [head EXCEPT ![OwnerOf[loc[b].entry]] = loc[b].new]
    /\ Return(b)
    /\ UNCHANGED <<xact, xid, etup, meta, maker, node, calm>>
-----------------------------------------------------------------------------
(* An entry is deleted: the tuple is stamped, then the first unstamped      *)
(* member found on the way down the chain.                                  *)

Delete(b, e) ==
    /\ CanCall(b)
    /\ MayReplace(xact, xid[b], etup[e])
    /\ etup' = [etup EXCEPT ![e].xmax = xid[b]]
    /\ loc' = [loc EXCEPT ![b].entry = e]
    /\ Goto(b, "startWalk")
    /\ UNCHANGED <<xact, xid, meta, maker, node, head, calm>>

StartWalk(b) ==
    /\ pc[b] = "startWalk"
    /\ loc' = [loc EXCEPT ![b].at = head[OwnerOf[loc[b].entry]]]
    /\ Goto(b, "walk")
    /\ UNCHANGED <<xact, xid, data, calm>>

Wanted(b) ==
    {i \in DOMAIN node[loc[b].at].members :
       LET m == node[loc[b].at].members[i] IN m.entry = loc[b].entry /\ m.xmax = NoXid}

StampMember(b) ==
    /\ pc[b] = "walk" /\ loc[b].at # Nil
    /\ Opens(b, TableOf(loc[b].at))
    /\ Wanted(b) # {}
    /\ node' = [node EXCEPT ![loc[b].at].members[FirstOf(Wanted(b))].xmax = xid[b]]
    /\ Return(b)
    /\ UNCHANGED <<xact, xid, etup, meta, maker, head, calm>>

WalkOn(b) ==
    /\ pc[b] = "walk" /\ loc[b].at # Nil
    /\ Opens(b, TableOf(loc[b].at))
    /\ Wanted(b) = {}
    /\ loc' = [loc EXCEPT ![b].at = node[loc[b].at].next]
    /\ UNCHANGED <<xact, xid, pc, data, calm>>

WalkEnds(b) ==
    /\ pc[b] = "walk" /\ loc[b].at = Nil
    /\ Return(b)
    /\ UNCHANGED <<xact, xid, data, calm>>
-----------------------------------------------------------------------------
(* create_new_active_linked_list.                                           *)

\* np_catalog_update on a plain heap table: it waits for a running transaction
\* that has replaced the row, and fails if that one commits.
ReplaceMeta(b, row) ==
    /\ MayReplace(xact, xid[b], meta[loc[b].row])
    /\ meta' = Append([meta EXCEPT ![loc[b].row].xmax = xid[b]],
                      [row EXCEPT !.xmin = xid[b], !.xmax = NoXid])

\* The next table is created and the row of the active one looked up.
Rotate(b, then) ==
    /\ Len(maker) < MaxTables
    /\ maker' = Append(maker, xid[b])
    /\ loc' = [loc EXCEPT ![b].tbl = Len(maker) + 1, ![b].then = then, ![b].ddl = TRUE,
                          ![b].row = FirstOf(ActiveRows(b))]
    /\ Goto(b, "close")
    /\ UNCHANGED <<xact, xid, etup, meta, node, head, calm>>

RotateActive(b) == CanCall(b) /\ Rotate(b, "return")

CloseActive(b) ==
    /\ pc[b] = "close"
    /\ ReplaceMeta(b, [meta[loc[b].row] EXCEPT !.active = FALSE])
    /\ Goto(b, "addActive")
    /\ UNCHANGED <<xact, xid, etup, maker, node, head, loc, calm>>

\* Mutants: the row names the table after it; the new table is not active.
AddActiveNextTable(b) ==
    /\ pc[b] = "addActive"
    /\ meta' = Append(meta, [tbl |-> loc[b].tbl + 1, active |-> TRUE, compacted |-> FALSE,
                             xmin |-> xid[b], xmax |-> NoXid])
    /\ IF loc[b].then = "return" THEN Return(b) ELSE Goto(b, "pick") /\ UNCHANGED loc
    /\ UNCHANGED <<xact, xid, etup, maker, node, head, calm>>

AddInactive(b) ==
    /\ pc[b] = "addActive"
    /\ meta' = Append(meta, [tbl |-> loc[b].tbl, active |-> FALSE, compacted |-> FALSE,
                             xmin |-> xid[b], xmax |-> NoXid])
    /\ IF loc[b].then = "return" THEN Return(b) ELSE Goto(b, "pick") /\ UNCHANGED loc
    /\ UNCHANGED <<xact, xid, etup, maker, node, head, calm>>

AddActive(b) ==
    /\ pc[b] = "addActive"
    /\ meta' = Append(meta, [tbl |-> loc[b].tbl, active |-> TRUE, compacted |-> FALSE,
                             xmin |-> xid[b], xmax |-> NoXid])
    /\ IF loc[b].then = "return" THEN Return(b) ELSE Goto(b, "pick") /\ UNCHANGED loc
    /\ UNCHANGED <<xact, xid, etup, maker, node, head, calm>>
-----------------------------------------------------------------------------
(* compact_oldest_linked_list_table.                                        *)

Closed(b) == {meta[i].tbl : i \in {j \in VisibleRows(b) : ~meta[j].active /\ ~meta[j].compacted}}

\* get_oldest_inactive_linked_list: the smallest id.
PickOldest(b) ==
    /\ Closed(b) # {}
    /\ loc' = [loc EXCEPT ![b].tbl = FirstOf(Closed(b)), ![b].ddl = TRUE]
    /\ Goto(b, "scan")
    /\ UNCHANGED <<xact, xid, data, calm>>

Compact(b) == CanCall(b) /\ PickOldest(b)

\* Without a closed table a rotation comes first.
CompactActive(b) == CanCall(b) /\ Closed(b) = {} /\ Rotate(b, "compact")
PickClosed(b) == pc[b] = "pick" /\ PickOldest(b)

\* The records of a vertex in a table, and a set of nodes in physical order.
RecordsOf(v, t) == {n \in DOMAIN node : node[n].tbl = t /\ node[n].owner = v}
InOrder(S) ==
    [i \in 1 .. Cardinality(S) |-> CHOOSE n \in S : Cardinality({m \in S : m <= n}) = i]

Leaves(n, t) == n # Nil /\ TableOf(n) # t

\* Where the chain comes from and goes to, each from the last record of a set
\* that leads out of the table.
LastOf(S) == CHOOSE n \in S : \A m \in S : m <= n
Up(S, t) ==
    LET out == {n \in S : node[n].prev = Nil \/ Leaves(node[n].prev, t)}
    IN  IF out = {} THEN Nil ELSE node[LastOf(out)].prev
Down(S, t) ==
    LET out == {n \in S : Leaves(node[n].next, t)}
    IN  IF out = {} THEN Nil ELSE node[LastOf(out)].next

\* Mutant: the members come without their stamps.
GatheredUnstamped(v, t) ==
    LET R == RecordsOf(v, t)
    IN  [owner |-> v,
         members |-> [i \in 1 .. Cardinality(R) |->
                        [node[InOrder(R)[i]].members[1] EXCEPT !.xmax = NoXid]],
         up |-> Up(R, t), down |-> Down(R, t), rest |-> Nil]

\* What the scan gathers of a vertex.
Gathered(v, t) ==
    LET R == RecordsOf(v, t)
    IN  [owner |-> v,
         members |-> [i \in 1 .. Cardinality(R) |-> node[InOrder(R)[i]].members[1]],
         up |-> Up(R, t), down |-> Down(R, t), rest |-> Nil]

\* Assert(!OidIsValid(rec->next_tbl) || rec->next_tbl == arraylist_oid)
LeadsIntoArray(t) ==
    \A n \in DOMAIN node : TableOf(n) = t =>
        (Leaves(node[n].next, t) => TableOf(node[n].next) = ArrayList)

\* One pass over the table, a page at a time under a share lock; the tables
\* of the instances have one page.
Scan(b) ==
    /\ pc[b] = "scan" /\ LeadsIntoArray(loc[b].tbl)
    /\ LET V == {node[n].owner : n \in {k \in DOMAIN node : TableOf(k) = loc[b].tbl}}
       IN  /\ loc' = [loc EXCEPT ![b].batch = {Gathered(v, loc[b].tbl) : v \in V}]
           /\ Goto(b, IF V = {} THEN "findRow" ELSE "merge")
    /\ UNCHANGED <<xact, xid, data, calm>>

\* Mutant: the members of the old block are left behind.
MergeWithoutMembers(b) ==
    /\ pc[b] = "merge"
    /\ \E j \in loc[b].batch :
         loc' = [loc EXCEPT
            ![b].batch = @ \ {j},
            ![b].job = IF j.down = Nil THEN j ELSE [j EXCEPT !.rest = node[j.down].next]]
    /\ Goto(b, "rewrite")
    /\ UNCHANGED <<xact, xid, data, calm>>

\* np_merge_existing_arraylist, up to the stamp.  The hash table gives the
\* vertices in any order.
Merge(b) ==
    /\ pc[b] = "merge"
    /\ \E j \in loc[b].batch :
         loc' = [loc EXCEPT
            ![b].batch = @ \ {j},
            ![b].job = IF j.down = Nil THEN j
                       ELSE [j EXCEPT !.members = @ \o node[j.down].members,
                                      !.rest = node[j.down].next]]
    /\ Goto(b, "rewrite")
    /\ UNCHANGED <<xact, xid, data, calm>>

\* Mutant: the last block points back up.
BlocksLeadUp(j, n) ==
    LET chunks == (Len(j.members) + PerBlock - 1) \div PerBlock
    IN  [i \in 1 .. chunks |->
           [tbl |-> ArrayList, owner |-> j.owner,
            members |-> SubSeq(j.members, (i - 1) * PerBlock + 1,
                          IF i = chunks THEN Len(j.members) ELSE i * PerBlock),
            next |-> IF i = chunks THEN j.up ELSE n + i + 1,
            prev |-> IF i = 1 THEN j.up ELSE n + i - 1,
            xmax |-> NoXid]]

\* The blocks np_insert_chunked_arraylist writes from node number n + 1 on:
\* each points to the one after it, the last one to the rest of the chain.
Blocks(j, n) ==
    LET chunks == (Len(j.members) + PerBlock - 1) \div PerBlock
    IN  [i \in 1 .. chunks |->
           [tbl |-> ArrayList, owner |-> j.owner,
            members |-> SubSeq(j.members, (i - 1) * PerBlock + 1,
                          IF i = chunks THEN Len(j.members) ELSE i * PerBlock),
            next |-> IF i = chunks THEN j.rest ELSE n + i + 1,
            prev |-> IF i = 1 THEN j.up ELSE n + i - 1,
            xmax |-> NoXid]]

\* delete_arraylist_record stamps the merged block, which no walk looks at,
\* and the new blocks are out of reach until they are wired: one step.
Rewrite(b) ==
    /\ pc[b] = "rewrite"
    /\ LET j == loc[b].job
           N == IF j.down = Nil THEN node ELSE [node EXCEPT ![j.down].xmax = xid[b]]
       IN  node' = N \o Blocks(j, Len(node))
    /\ loc' = [loc EXCEPT ![b].at = Len(node) + 1]
    /\ Goto(b, "wire")
    /\ UNCHANGED <<xact, xid, etup, meta, maker, head, calm>>

\* The upstream record, or the map slot, leads to the first new block.
Wire(b) ==
    /\ pc[b] = "wire"
    /\ LET j == loc[b].job
       IN  IF j.up # Nil
           THEN /\ Opens(b, TableOf(j.up))
                /\ node' = [node EXCEPT ![j.up].next = loc[b].at]
                /\ UNCHANGED head
           ELSE /\ head' = [head EXCEPT ![j.owner] = loc[b].at]
                /\ UNCHANGED node
    /\ loc' = [loc EXCEPT ![b].job = Nil]
    /\ Goto(b, IF loc[b].batch = {} THEN "findRow" ELSE "merge")
    /\ UNCHANGED <<xact, xid, etup, meta, maker, calm>>

RowsOf(b, t) == {i \in VisibleRows(b) : meta[i].tbl = t}

\* The row of the table is looked up again, and replaced by a compacted one.
FindRow(b) ==
    /\ pc[b] = "findRow"
    /\ loc' = [loc EXCEPT ![b].row = FirstOf(RowsOf(b, loc[b].tbl))]
    /\ Goto(b, "mark")
    /\ UNCHANGED <<xact, xid, data, calm>>

Mark(b) ==
    /\ pc[b] = "mark"
    /\ ReplaceMeta(b, [meta[loc[b].row] EXCEPT !.compacted = TRUE])
    /\ Return(b)
    /\ UNCHANGED <<xact, xid, etup, maker, node, head, calm>>
-----------------------------------------------------------------------------
Next == \E b \in Backend :
    \/ Begin(b) \/ Commit(b) \/ Abort(b)
    \/ \E e \in Entry : Insert(b, e) \/ Delete(b, e)
    \/ ReadHead(b) \/ AppendRecord(b) \/ FixPrev(b) \/ SetHead(b)
    \/ StartWalk(b) \/ StampMember(b) \/ WalkOn(b) \/ WalkEnds(b)
    \/ RotateActive(b) \/ CloseActive(b) \/ AddActive(b)
    \/ Compact(b) \/ CompactActive(b) \/ PickClosed(b)
    \/ Scan(b) \/ Merge(b) \/ Rewrite(b) \/ Wire(b)
    \/ FindRow(b) \/ Mark(b)

Spec == Init /\ [][Next]_vars
-----------------------------------------------------------------------------
(* Properties.                                                              *)

MetaRow ==
    [tbl : DOMAIN maker, active : BOOLEAN, compacted : BOOLEAN,
     xmin : XidsOf(xact), xmax : XidsOf(xact)]
Member == [entry : Entry, xmin : XidsOf(xact), xmax : XidsOf(xact)]
Node ==
    [tbl : 0 .. Len(maker), owner : Vertex, members : Seq(Member) \ {<<>>},
     next : 0 .. Len(node), prev : 0 .. Len(node), xmax : XidsOf(xact)]

TypeOK ==
    /\ xact \in Seq(XactStatus)
    /\ xid \in [Backend -> XidsOf(xact)]
    /\ pc \in [Backend -> Steps]
    /\ etup \in [Entry -> [xmin : XidsOf(xact), xmax : XidsOf(xact)]]
    /\ maker \in Seq(DOMAIN xact)
    /\ meta \in Seq(MetaRow)
    /\ node \in Seq(Node)
    /\ head \in [Vertex -> 0 .. Len(node)]
    /\ calm \in BOOLEAN

\* Whatever interleaves and aborts, an array block leads to the block written
\* with it or to an older block, and never into a list table: walks stay in the
\* array list once they are there, and come to its end.
BlocksLeadDown ==
    \A n \in DOMAIN node :
        (TableOf(n) = ArrayList /\ node[n].next # Nil) =>
            /\ TableOf(node[n].next) = ArrayList
            /\ node[n].next = n + 1 \/ node[n].next < n

\* The assertion of compact_oldest_linked_list_table's scan: in a calm history a chain leaves the table that
\* is compacted for the array list, as all older tables were compacted before.
AssertionHolds ==
    calm => \A b \in Backend : pc[b] = "scan" => LeadsIntoArray(loc[b].tbl)

\* Whoever rotates, however rotations race and abort, every backend finds one
\* active table: an insertion never ends in "No active linked list", and never
\* goes to another table than the next insertion.
OneActive ==
    \A b \in Backend : pc[b] # "addActive" => Cardinality(ActiveRows(b)) = 1

\* The nodes from node n on, in the order a walk meets them.
Chain[n \in 0 .. Len(node)] == IF n = Nil THEN <<>> ELSE <<n>> \o Chain[node[n].next]

\* The members a walk meets from a vertex's head on.
Found(v) ==
    LET C == Chain[head[v]] IN FlattenSeq([i \in DOMAIN C |-> node[C[i]].members])

\* Compaction moves entries, it neither loses nor doubles them: in a calm
\* history, also half way through a compaction, a committed entry is found
\* exactly once from its vertex.
EachOnce ==
    calm => \A e \in Entry : DidCommit(xact, etup[e].xmin) =>
        Cardinality({i \in DOMAIN Found(OwnerOf[e]) : Found(OwnerOf[e])[i].entry = e}) = 1

\* A deletion survives compaction: what a walk meets of an entry whose deletion
\* has committed bears that deletion's stamp, or one that was rolled back.
DeletedStaysDeleted ==
    calm => \A e \in Entry : DidCommit(xact, etup[e].xmax) =>
        \A i \in DOMAIN Found(OwnerOf[e]) :
            LET m == Found(OwnerOf[e])[i]
            IN  m.entry = e => m.xmax = etup[e].xmax \/ DidAbort(xact, m.xmax)

\* No chain leads into a table that is marked compacted, or through a block
\* that was merged into another one.
CompactedIsUnused ==
    calm => \A v \in Vertex : \A n \in ToSet(Chain[head[v]]) :
        /\ ~DidCommit(xact, node[n].xmax)
        /\ ~\E i \in DOMAIN meta :
              /\ meta[i].tbl = TableOf(n) /\ meta[i].compacted
              /\ DidCommit(xact, meta[i].xmin)

\* What a compaction must keep, together: deletions, the tables in use, and the
\* order of the tables its scan asserts.
CompactionIsSafe == DeletedStaysDeleted /\ CompactedIsUnused /\ AssertionHolds
=============================================================================
