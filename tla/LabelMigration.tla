---------------------------- MODULE LabelMigration ----------------------------
(***************************************************************************)
(* Moving vertices and edges to another label.  set_vertex_label and       *)
(* remove_vertex_label write the vertex under a new id into the target     *)
(* label's stores, carry its annotations over by name, move its edges one  *)
(* by one (delete, then insert with the new end) and stamp the old row.    *)
(* set_edge_label and remove_edge_label do the same for one edge, which    *)
(* keeps its id.                                                           *)
(*                                                                         *)
(* One session, in transactions of several calls that may be rolled back   *)
(* between any two steps; a call that raises an error is a rollback.  Rows *)
(* are versioned, while map slots, list heads and stamps in lists are      *)
(* written in place and stay after a rollback.  Which label a call ends at *)
(* is the subject of LabelCatalog: here it is any other label.  Two        *)
(* sessions in each other's lists are the subject of AdjacencyList.        *)
(***************************************************************************)
EXTENDS NPXact, SequencesExt, FiniteSetsExt

CONSTANTS
    Vertex, Edge,    \* what the payloads describe
    VLabel, ELabel,  \* labels of vertices and of edges
    Home,            \* the label the vertices are inserted under
    Schema,          \* annotations a vertex label supports, in bit order
    MaxCalls         \* bound: calls in a history

ASSUME LabelMigrationAssumption ==
    /\ Home \in VLabel /\ MaxCalls \in Nat
    /\ \A l \in VLabel : IsInjective(Schema[l])

VARIABLES
    xact,   \* transaction log
    xid,    \* the session's transaction, NoXid when none
    db,     \* the stores and maps (see Init)
    pc,     \* where the session is inside a call
    call,   \* the call in progress
    shown,  \* reference: the graph between the calls (see Show)
    calls   \* calls so far

vars == <<xact, xid, db, pc, call, shown, calls>>

Nil == 0
Steps == {"idle", "migrate", "clear", "reinsert"}
NoCall == [old |-> Nil, new |-> Nil, at |-> Nil, todo |-> <<>>, moved |-> <<>>]
Ref(label, id) == [label |-> label, id |-> id]
NamesOf(label) == ToSet(Schema[label])

-----------------------------------------------------------------------------
(* Reference: the graph the rows of D show, when the log is X and the       *)
(* session's transaction me.                                               *)

RolledBack(X, t) == DidAbort(X, t.xmin) \/ DidAbort(X, t.xmax)

\* Vertices whose migration or annotation was rolled back.
LostVertices(D, X) ==
    {r.of : r \in {s \in ToSet(D.vrow) :
       RolledBack(X, s) \/ \E t \in ToSet(D.bits) : t.at = s.at /\ RolledBack(X, t)}}

\* Edges whose id another edge has, which an aborted transaction inserted or
\* moved, or has stamped in a list.
LostEdges(D, X) ==
    {r.of : r \in {s \in ToSet(D.erow) :
        \/ RolledBack(X, s)
        \/ \E t \in ToSet(D.erow) : t.of # s.of /\ t.at.id = s.at.id
        \/ \E n \in ToSet(D.node) : \E m \in ToSet(n.members) :
               m.edge.id = s.at.id /\ DidAbort(X, m.xmax)}}

\* The graph shown by the rows that Sees lets through.
View(D, lost, Sees(_)) ==
    LET Of(rows, x) == {r \in ToSet(rows) : r.of = x /\ Sees(r)}
        At == [v \in Vertex |-> LET R == Of(D.vrow, v)
                 IN  IF Cardinality(R) = 1 THEN (CHOOSE r \in R : TRUE).at ELSE Ref("several", Nil)]
        Who(at) == LET W == {v \in Vertex : At[v] = at}
                   IN  IF W = {} THEN "gone" ELSE CHOOSE v \in W : TRUE
    IN  [label |-> [v \in Vertex |-> At[v].label],
         names |-> [v \in Vertex |->
             IF v \in lost THEN {}
             ELSE UNION {{Schema[b.at.label][i] : i \in b.set} :
                           b \in {c \in ToSet(D.bits) : c.at = At[v] /\ Sees(c)}}],
         edge |-> [e \in Edge |->
             LET R == Of(D.erow, e) IN
             IF e \in lost \/ R = {} THEN <<>>
             ELSE IF Cardinality(R) > 1 THEN <<"several">>
             ELSE LET r == CHOOSE r \in R : TRUE IN <<Who(r.from), Who(r.to), r.at.label>>]]

Show(D, X, me) ==
    LET lost == LostVertices(D, X) \cup LostEdges(D, X)
    IN  [graph |-> View(D, lost, LAMBDA t : DidCommit(X, t.xmin) /\ ~DidCommit(X, t.xmax)),
         draft |-> View(D, lost, LAMBDA t : TupleIsLive(X, me, t)),
         lost  |-> lost]

-----------------------------------------------------------------------------
(* Reading the stores D.                                                   *)

Slot(D, at) == D.vmap[at.label][at.id]
Live(t) == TupleIsLive(xact, xid, t)

\* np_internal_fetch_vertex and np_internal_fetch_edge raise an error when the
\* slot names no row or one that is not live.
VertexFetched(D, at) == LET r == Slot(D, at).v IN r # Nil /\ Live(D.vrow[r])
EdgeSlot(D, at) == IF at.id \in DOMAIN D.emap[at.label] THEN D.emap[at.label][at.id] ELSE Nil
EdgeFetched(D, at) == LET r == EdgeSlot(D, at) IN r # Nil /\ Live(D.erow[r])

\* Mutant: stamped members are taken along.
AllMembers(members) == members

Unstamped(members) == SelectSeq(members, LAMBDA m : m.xmax = NoXid)

\* The annotations the bits of the slot's bitset stand for.
NamesAt(D, at) ==
    LET a == Slot(D, at).a
    IN  IF a = Nil THEN {} ELSE {Schema[at.label][i] : i \in D.bits[a].set}
-----------------------------------------------------------------------------
(* Writing them: what D becomes.                                           *)

\* GetTopFullTransactionId
TopXid == IF xid = NoXid THEN Len(xact) + 1 ELSE xid

\* The bits of names in the label's schema.
Bits(label, names) == {i \in DOMAIN Schema[label] : Schema[label][i] \in names}

\* A bitset, and the slot naming it: np_internal_insert_vertex for a row that
\* has none yet, add_vertex_annotation_label otherwise.
WithNames(D, at, names) ==
    LET a == Slot(D, at).a
        B == IF a = Nil THEN D.bits ELSE [D.bits EXCEPT ![a].xmax = TopXid]
    IN  [D EXCEPT !.bits = Append(B, [at |-> at, set |-> Bits(at.label, names),
                                      xmin |-> TopXid, xmax |-> NoXid]),
                  !.vmap[at.label][at.id].a = Len(B) + 1]

\* np_internal_insert_vertex under the next id of the label.
InsertVertex(D, v, label, names) ==
    LET at == Ref(label, Len(D.vmap[label]) + 1)
        E  == [D EXCEPT !.vrow = Append(@, [of |-> v, at |-> at, xmin |-> TopXid, xmax |-> NoXid]),
                        !.vmap[label] = Append(@, [v |-> Len(D.vrow) + 1, a |-> Nil, e |-> Nil])]
    IN  IF names = {} THEN E ELSE WithNames(E, at, names)

\* insert_edge_one_direction: a record before the head, and the head on it.
Hang(D, at, edge, other, dir) ==
    [D EXCEPT !.node = Append(@, [array |-> FALSE, next |-> Slot(D, at).e,
                 members |-> <<[edge |-> edge, other |-> other, dir |-> dir, xmax |-> NoXid]>>]),
              !.vmap[at.label][at.id].e = Len(D.node) + 1]

\* Mutant: the slot after the last one is taken.
WithNextSlot(map, id, row) == Append(map, row)

\* The slot of an id; slots before it are filled with blank ones.
WithSlot(map, id, row) ==
    [i \in 1 .. (IF id > Len(map) THEN id ELSE Len(map)) |->
        IF i = id THEN row ELSE IF i <= Len(map) THEN map[i] ELSE Nil]

\* np_internal_insert_edge of payload e between vertices s and t.
InsertEdge(D, e, s, t) ==
    LET E == [D EXCEPT !.erow = Append(@, [of |-> e.of, at |-> e.at, from |-> e.from, to |-> e.to,
                                           xmin |-> TopXid, xmax |-> NoXid]),
                       !.emap[e.at.label] = WithSlot(@, e.at.id, Len(D.erow) + 1)]
    IN  Hang(Hang(E, s, e.at, t, 0), t, e.at, s, 1)

\* The same under the next id of the label.
WithEdge(D, e, s, t, label) ==
    LET at == Ref(label, D.seq[label] + 1)
        E  == InsertEdge(D, [of |-> e, at |-> at, from |-> s, to |-> t], s, t)
    IN  [E EXCEPT !.seq[label] = @ + 1]

\* np_delete_edge_from_adj_list: the first member with the edge's id, whatever
\* its label, that bears no stamp gets one.
Unlink(D, at, id) ==
    LET Wanted(n) == {i \in DOMAIN D.node[n].members :
                        D.node[n].members[i].edge.id = id /\ D.node[n].members[i].xmax = NoXid}
        Found[n \in 0 .. Len(D.node)] ==
            IF n = Nil \/ Wanted(n) # {} THEN n ELSE Found[D.node[n].next]
        hit == Found[Slot(D, at).e]
    IN  IF hit = Nil THEN D
        ELSE [D EXCEPT !.node[hit].members[Min(Wanted(hit))].xmax = TopXid]

\* Mutant: only the start's list is walked.
DeleteEdgeAtStart(D, at) ==
    LET r == EdgeSlot(D, at)
        E == [D EXCEPT !.erow[r].xmax = TopXid]
    IN  Unlink(E, D.erow[r].from, at.id)

\* np_internal_delete_edge: the row its slot names, and the ends that row has.
DeleteEdge(D, at) ==
    LET r == EdgeSlot(D, at)
        E == [D EXCEPT !.erow[r].xmax = TopXid]
    IN  Unlink(Unlink(E, D.erow[r].from, at.id), D.erow[r].to, at.id)
-----------------------------------------------------------------------------
(* Transactions.  What a rollback takes back is known from the log.        *)

End(status) ==
    /\ xid # NoXid
    /\ xact' = [xact EXCEPT ![xid] = status] /\ xid' = NoXid
    /\ pc' = "idle" /\ call' = NoCall
    /\ shown' = Show(db, xact', NoXid)
    /\ UNCHANGED <<db, calls>>

Commit == pc = "idle" /\ End("committed")
Abort == End("aborted")

\* The first call gets the transaction its id.
CallStarts ==
    /\ pc = "idle" /\ calls < MaxCalls /\ calls' = calls + 1
    /\ xact' = IF xid = NoXid THEN Append(xact, "running") ELSE xact
    /\ xid' = TopXid
InOneStep(D) ==
    /\ CallStarts /\ db' = D /\ shown' = Show(D, xact', xid')
    /\ UNCHANGED <<pc, call>>
Starts(D, step, c) == CallStarts /\ db' = D /\ pc' = step /\ call' = c /\ UNCHANGED shown
Goes(D, step, c) ==
    /\ db' = D /\ pc' = step /\ call' = c
    /\ UNCHANGED <<xact, xid, shown, calls>>
Returns(D) ==
    /\ db' = D /\ shown' = Show(D, xact, xid) /\ pc' = "idle" /\ call' = NoCall
    /\ UNCHANGED <<xact, xid, calls>>
-----------------------------------------------------------------------------
\* The vertices stand in their first label's store, committed by transaction
\* 1, and the session has inserted an edge from the first of them.  Row, TID and
\* id are positions: an id is never handed out twice.
Unlinked ==
    LET born == SetToSeq(Vertex)
    IN  [vrow |-> [i \in DOMAIN born |->
                     [of |-> born[i], at |-> Ref(Home, i), xmin |-> 1, xmax |-> NoXid]],
         bits |-> <<>>,        \* annotation stores
         vmap |-> [l \in VLabel |-> IF l # Home THEN <<>>
                     ELSE [i \in DOMAIN born |-> [v |-> i, a |-> Nil, e |-> Nil]]],
         erow |-> <<>>,
         emap |-> [k \in ELabel |-> <<>>],
         seq  |-> [k \in ELabel |-> 0],
         node |-> <<>>]        \* list records, and blocks of an array list

Init ==
    /\ xact = <<"committed", "running">> /\ xid = 2
    /\ \E e \in Edge, k \in ELabel, to \in DOMAIN Unlinked.vrow :
         db = WithEdge(Unlinked, e, Ref(Home, 1), Ref(Home, to), k)
    /\ pc = "idle" /\ call = NoCall /\ calls = 0
    /\ shown = Show(db, xact, xid)

\* The (label, id) pairs a caller can hold: those of rows it sees.
VertexRefs == {r.at : r \in {s \in ToSet(db.vrow) : Live(s)}}
EdgeRefs == {r.at : r \in {s \in ToSet(db.erow) : Live(s)}}

\* insert_edge, the id taken from the sequence of the edge's label.
NewEdge(e, s, t, label) ==
    /\ \A r \in ToSet(db.erow) : r.of # e
    /\ InOneStep(WithEdge(db, e, s, t, label))

\* add_vertex_annotation_label
AddAnnotation(at, x) ==
    /\ x \in NamesOf(at.label)
    /\ Slot(db, at).a # Nil => Live(db.bits[Slot(db, at).a])
    /\ InOneStep(WithNames(db, at, NamesAt(db, at) \cup {x}))

\* What compact_oldest_linked_list_table leaves of the lists once every table
\* was rotated and compacted: one array block per vertex (see Compaction).
CompactLists ==
    /\ xid = NoXid /\ calls < MaxCalls /\ calls' = calls + 1
    /\ \E n \in DOMAIN db.node : ~db.node[n].array
    /\ LET Members[n \in 0 .. Len(db.node)] ==
               IF n = Nil THEN <<>> ELSE db.node[n].members \o Members[db.node[n].next]
           hung == SetToSeq({at \in [label : VLabel, id : 1 .. Max({Len(db.vmap[l]) : l \in VLabel})] :
                               at.id <= Len(db.vmap[at.label]) /\ Slot(db, at).e # Nil})
           blocks == [i \in DOMAIN hung |->
                        [array |-> TRUE, next |-> Nil, members |-> Members[Slot(db, hung[i]).e]]]
           place(at) == Len(db.node) + CHOOSE i \in DOMAIN hung : hung[i] = at
           D == [db EXCEPT !.node = @ \o blocks,
                           !.vmap = [l \in VLabel |-> [i \in DOMAIN @[l] |->
                              IF @[l][i].e = Nil THEN @[l][i]
                              ELSE [@[l][i] EXCEPT !.e = place(Ref(l, i))]]]]
       IN  db' = D
    /\ UNCHANGED <<xact, xid, pc, call, shown>>

-----------------------------------------------------------------------------
(* set_vertex_label and remove_vertex_label.                               *)

\* The map record is read once, before the new row is inserted; the list is
\* walked from that record's head.
Migrate(at, label, names) ==
    LET row == db.vrow[Slot(db, at).v]
    IN  Starts(InsertVertex(db, row.of, label, names), "migrate",
               [NoCall EXCEPT !.old = at,
                              !.new = Ref(label, Len(db.vmap[label]) + 1),
                              !.at = Slot(db, at).e])

\* "Annotation label '%s' is not valid for this structural label"
SetVertexLabel(at, label) ==
    /\ label # at.label
    /\ VertexFetched(db, at)
    /\ NamesAt(db, at) \subseteq NamesOf(label)
    /\ Migrate(at, label, NamesAt(db, at))

\* What the target label supports of the annotations; also within a label,
\* when the vertex does not have the name that is to be removed.
Kept(at, label) == NamesAt(db, at) \cap NamesOf(label)

RemoveVertexLabel(at, label) ==
    /\ VertexFetched(db, at)
    /\ Migrate(at, label, Kept(at, label))

\* migrate_vertex_edges: the members of the next node, copied under its lock.
ReadNode ==
    /\ pc = "migrate" /\ call.todo = <<>> /\ call.moved = <<>> /\ call.at # Nil
    /\ Goes(db, "migrate", [call EXCEPT !.todo = Unstamped(db.node[call.at].members),
                                        !.at = db.node[call.at].next])

\* Pass 1: fetch the neighbour and the edge, delete the edge.
CanTake(m) == VertexFetched(db, m.other) /\ EdgeFetched(db, m.edge)
TakeEdge ==
    /\ pc = "migrate" /\ call.todo # <<>>
    /\ LET m == Head(call.todo)
           r == db.erow[EdgeSlot(db, m.edge)]
       IN  /\ CanTake(m)
           /\ Goes(DeleteEdge(db, m.edge), "migrate",
                   [call EXCEPT !.todo = Tail(@),
                                !.moved = Append(@, [of |-> r.of, at |-> r.at, from |-> r.from,
                                                     to |-> r.to, other |-> m.other])])

\* Mutant: only the start of an edge is looked at.
RewrittenStart(m) == [m EXCEPT !.from = IF @ = call.old THEN call.new ELSE @]

\* The payload with the new vertex for the old one.
Rewritten(m) ==
    [m EXCEPT !.from = IF @ = call.old THEN call.new ELSE @,
              !.to   = IF @ = call.old THEN call.new ELSE @]

\* Pass 2: insert it between the new vertex and the neighbour, the way round
\* its start tells.
PutEdge ==
    /\ pc = "migrate" /\ call.todo = <<>> /\ call.moved # <<>>
    /\ LET e     == Rewritten(Head(call.moved))
           other == IF e.other = call.old THEN call.new ELSE e.other
       IN  Goes(IF e.from = call.new THEN InsertEdge(db, e, call.new, other)
                ELSE InsertEdge(db, e, other, call.new),
                "migrate", [call EXCEPT !.moved = Tail(@)])

\* The old row is stamped, then its slot loses it.
Tombstone ==
    /\ pc = "migrate" /\ call.todo = <<>> /\ call.moved = <<>> /\ call.at = Nil
    /\ Goes([db EXCEPT !.vrow[Slot(db, call.old).v].xmax = xid], "clear", call)

ClearSlot ==
    /\ pc = "clear"
    /\ Returns([db EXCEPT !.vmap[call.old.label][call.old.id].v = Nil])
-----------------------------------------------------------------------------
\* set_edge_label and remove_edge_label: the edge is deleted under its label
\* and, its ends fetched anew, inserted under the other one with the same id.
SetEdgeLabel(at, label) ==
    /\ label # at.label
    /\ EdgeFetched(db, at)
    /\ LET r == db.erow[EdgeSlot(db, at)]
       IN  Starts(DeleteEdge(db, at), "reinsert",
                  [NoCall EXCEPT !.moved = <<[of |-> r.of, at |-> Ref(label, r.at.id),
                                              from |-> r.from, to |-> r.to]>>])

Reinsert ==
    /\ pc = "reinsert"
    /\ LET e == Head(call.moved)
       IN  /\ VertexFetched(db, e.from) /\ VertexFetched(db, e.to)
           /\ Returns(InsertEdge(db, e, e.from, e.to))

Next ==
    \/ Commit \/ Abort \/ CompactLists
    \/ \E at \in VertexRefs, l \in VLabel : SetVertexLabel(at, l) \/ RemoveVertexLabel(at, l)
    \/ \E at \in VertexRefs, x \in UNION {NamesOf(l) : l \in VLabel} : AddAnnotation(at, x)
    \/ \E e \in Edge, s, t \in VertexRefs, k \in ELabel : NewEdge(e, s, t, k)
    \/ \E at \in EdgeRefs, k \in ELabel : SetEdgeLabel(at, k)
    \/ ReadNode \/ TakeEdge \/ PutEdge \/ Tombstone \/ ClearSlot \/ Reinsert

Spec == Init /\ [][Next]_vars
-----------------------------------------------------------------------------
(* Properties.                                                             *)

Stamps(t) == {t.xmin, t.xmax} \subseteq XidsOf(xact) /\ t.xmin # NoXid

\* Types; a slot names a row with its own label and id.
TypeOK ==
    /\ xact \in Seq(XactStatus) /\ xid \in XidsOf(xact) /\ pc \in Steps
    /\ \A r \in ToSet(db.vrow) : r.of \in Vertex /\ Stamps(r)
    /\ \A r \in ToSet(db.erow) : r.of \in Edge /\ Stamps(r)
    /\ \A r \in ToSet(db.bits) : r.set \subseteq DOMAIN Schema[r.at.label] /\ Stamps(r)
    /\ \A l \in VLabel : \A i \in DOMAIN db.vmap[l] :
         LET s == db.vmap[l][i]
         IN  /\ s.v # Nil => db.vrow[s.v].at = Ref(l, i)
             /\ s.a # Nil => db.bits[s.a].at = Ref(l, i)
             /\ s.e \in 0 .. Len(db.node)
    /\ \A k \in ELabel : \A i \in DOMAIN db.emap[k] :
         db.emap[k][i] # Nil => db.erow[db.emap[k][i]].at = Ref(k, i)
    /\ \A n \in DOMAIN db.node :
         /\ db.node[n].next < n
         /\ \A m \in ToSet(db.node[n].members) : m.xmax \in XidsOf(xact)

Graph == INSTANCE LabelledGraph WITH
    Names <- NamesOf, graph <- shown.graph, draft <- shown.draft, lost <- shown.lost

\* The calls do to the graph what LabelledGraph says, and a rollback takes it
\* back: a vertex has one row, with the label and the annotations it should
\* have, and an edge has one row, between the vertices it was inserted at,
\* wherever these have been moved.
KeepsGraph == Graph!Spec

\* The nodes of a list.
Chain(D, at) ==
    LET From[n \in 0 .. Len(D.node)] == IF n = Nil THEN {} ELSE {n} \cup From[D.node[n].next]
    IN  From[Slot(D, at).e]

\* The places of unstamped members in a list.
Hanging(at) ==
    {p \in UNION {{n} \X DOMAIN db.node[n].members : n \in Chain(db, at)} :
       db.node[p[1]].members[p[2]].xmax = NoXid}
Member(p) == db.node[p[1]].members[p[2]]

\* Between calls, maps and lists lead to what the rows hold: the slot of a
\* vertex or edge in sight names its row, an edge hangs once at each of its
\* ends, and nothing else hangs there; but for what is lost.
StoresAgree ==
    pc = "idle" =>
        LET lostE == LostEdges(db, xact)
            lostId == {r.at.id : r \in {s \in ToSet(db.erow) : s.of \in lostE}}
            edges == {i \in DOMAIN db.erow : Live(db.erow[i]) /\ db.erow[i].of \notin lostE}
            wanted(at) == {[edge |-> db.erow[i].at, other |-> db.erow[i].to, dir |-> 0, xmax |-> NoXid] :
                             i \in {j \in edges : db.erow[j].from = at}}
                     \cup {[edge |-> db.erow[i].at, other |-> db.erow[i].from, dir |-> 1, xmax |-> NoXid] :
                             i \in {j \in edges : db.erow[j].to = at}}
        IN  /\ \A i \in edges : EdgeSlot(db, db.erow[i].at) = i
            /\ \A i \in DOMAIN db.vrow :
                 (Live(db.vrow[i]) /\ db.vrow[i].of \notin LostVertices(db, xact)) =>
                    LET at    == db.vrow[i].at
                        found == {p \in Hanging(at) : Member(p).edge.id \notin lostId}
                    IN  /\ Slot(db, at).v = i
                        /\ {Member(p) : p \in found} = wanted(at)
                        /\ Cardinality(found) = Cardinality(wanted(at))

\* A migration is not stopped by what earlier calls have left in the lists:
\* it can fetch and delete what it meets; but for what is lost, and for the
\* second member of a self-loop in an array block, which it has just deleted.
MigrationFinishes ==
    (pc = "migrate" /\ call.todo # <<>>) =>
        LET m == Head(call.todo)
        IN  \/ CanTake(m)
            \/ \E r \in ToSet(db.erow) : r.at = m.edge /\ r.of \in LostEdges(db, xact)
            \/ \E r \in ToSet(db.vrow) : r.at = m.other /\ r.of \in LostVertices(db, xact)
            \/ m.other = call.old /\ \E i \in DOMAIN call.moved : call.moved[i].at = m.edge
=============================================================================
