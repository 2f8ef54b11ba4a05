---------------------------- MODULE AdjacencyList ----------------------------
(***************************************************************************)
(* Edges and the linked lists they hang in.  An edge is a tuple of its     *)
(* label's entity store and two list records, one in the list of its start *)
(* vertex and one in that of its end vertex.  A list grows at its head:    *)
(* the phys_map slot of the vertex names the newest record, next leads to  *)
(* older records and prev back to newer ones.  Records are never removed;  *)
(* deleting an edge stamps its tuple and then looks for its two records.   *)
(*                                                                         *)
(* A step is what the code does under one buffer lock.  Nothing spans the  *)
(* steps of an operation: no lock, and no undo of the pointers and of the  *)
(* head when the transaction aborts.                                       *)
(***************************************************************************)
EXTENDS NPXact

CONSTANTS
    Backend, Vertex,
    Edge,           \* edges that may be inserted, each once
    Source, Target, \* their end points
    IdOf,           \* the id an edge has within its label (labels count apart)
    NoVertex,       \* "no vertex is being deleted"
    MaxXid,         \* bound: transactions
    OneCall,        \* TRUE: every transaction is one call (autocommit)
    AnyId,          \* TRUE: calls may name rows the caller does not see
    Rollback        \* TRUE: transactions may abort

ASSUME EndpointsAssumption ==
    /\ Source \in [Edge -> Vertex] /\ Target \in [Edge -> Vertex]
    /\ DOMAIN IdOf = Edge
    /\ NoVertex \notin Vertex
    /\ MaxXid \in Nat
    /\ {OneCall, AnyId, Rollback} \subseteq BOOLEAN

VARIABLES
    xact,   \* transaction log; the first transaction created the vertices
    vtup,   \* vertex tuple headers
    etup,   \* edge tuple headers, xmin = NoXid before the insertion
    list,   \* the list table: a record's position stands for its TID
    head,   \* e_itemptr of the vertices' phys_map slots
    xid, pc,
    edge,   \* the edge an operation is working on
    dir,    \* which of its two lists: 0 the start vertex's, 1 the end vertex's
    saved,  \* head an insertion has read / the record a walk is at
    new,    \* the record an insertion has appended
    doomed, \* the vertex being deleted, or NoVertex
    detach, \* DETACH DELETE
    todo    \* edges the vertex deletion has collected

tables == <<vtup, etup, list, head>>
frame  == <<edge, dir, saved, new, doomed, detach, todo>>
vars   == <<xact, tables, xid, pc, frame>>

Nil == 0
Directions == {0, 1}

Steps == {"idle", "end", "readHead", "appendRecord", "fixPrev", "setHead",
          "startWalk", "walk", "collect", "cascade"}

Endpoint(e, d) == IF d = 0 THEN Source[e] ELSE Target[e]
-----------------------------------------------------------------------------
Init ==
    /\ xact = <<"committed">>
    /\ vtup = [v \in Vertex |-> [xmin |-> 1, xmax |-> NoXid]]
    /\ etup = [e \in Edge |-> [xmin |-> NoXid, xmax |-> NoXid]]
    /\ list = <<>>
    /\ head = [v \in Vertex |-> Nil]
    /\ xid = [b \in Backend |-> NoXid]
    /\ pc = [b \in Backend |-> "idle"]
    /\ \E e \in Edge : edge = [b \in Backend |-> e]
    /\ dir = [b \in Backend |-> 0]
    /\ saved = [b \in Backend |-> Nil]
    /\ new = [b \in Backend |-> Nil]
    /\ doomed = [b \in Backend |-> NoVertex]
    /\ detach = [b \in Backend |-> FALSE]
    /\ todo = [b \in Backend |-> <<>>]

Goto(b, step) == pc' = [pc EXCEPT ![b] = step]

\* After a call the transaction goes on, or ends if it is a single statement.
Return(b) == Goto(b, IF OneCall THEN "end" ELSE "idle")

CanCall(b) == pc[b] = "idle" /\ xid[b] # NoXid

Live(b, t) == TupleIsLive(xact, xid[b], t)
Replaceable(b, t) == MayReplace(xact, xid[b], t)

Begin(b) ==
    /\ pc[b] = "idle" /\ xid[b] = NoXid
    /\ Len(xact) < MaxXid
    /\ xact' = Append(xact, "running")
    /\ xid' = [xid EXCEPT ![b] = Len(xact) + 1]
    /\ UNCHANGED <<tables, pc, frame>>

End(b, status) ==
    /\ xact' = [xact EXCEPT ![xid[b]] = status]
    /\ xid' = [xid EXCEPT ![b] = NoXid]
    /\ Goto(b, "idle")
    /\ saved' = [saved EXCEPT ![b] = Nil]
    /\ new' = [new EXCEPT ![b] = Nil]
    /\ doomed' = [doomed EXCEPT ![b] = NoVertex]
    /\ todo' = [todo EXCEPT ![b] = <<>>]
    /\ UNCHANGED <<tables, edge, dir, detach>>

Commit(b) ==
    /\ pc[b] \in {"idle", "end"} /\ xid[b] # NoXid
    /\ End(b, "committed")

\* ROLLBACK, an error elsewhere in the transaction, or a crash.
Abort(b) ==
    /\ Rollback /\ xid[b] # NoXid
    /\ End(b, "aborted")
-----------------------------------------------------------------------------
(* np_internal_insert_edge: the tuple, then insert_edge_one_direction for   *)
(* the start vertex and for the end vertex.                                 *)

InsertEdge(b, e) ==
    /\ CanCall(b)
    /\ etup[e].xmin = NoXid
    /\ AnyId \/ \A d \in Directions : Live(b, vtup[Endpoint(e, d)])
    /\ etup' = [etup EXCEPT ![e].xmin = xid[b]]
    /\ edge' = [edge EXCEPT ![b] = e]
    /\ dir' = [dir EXCEPT ![b] = 0]
    /\ Goto(b, "readHead")
    /\ UNCHANGED <<xact, vtup, list, head, xid, saved, new, doomed, detach, todo>>

Owner(b) == Endpoint(edge[b], dir[b])

\* get_current_head_tid, under a share lock that is dropped at once.
ReadHead(b) ==
    /\ pc[b] = "readHead"
    /\ saved' = [saved EXCEPT ![b] = head[Owner(b)]]
    /\ Goto(b, "appendRecord")
    /\ UNCHANGED <<xact, tables, xid, edge, dir, new, doomed, detach, todo>>

\* Mutant: the new record is not linked to the old head.
AppendUnlinked(b) ==
    /\ pc[b] = "appendRecord"
    /\ list' = Append(list, [edge |-> edge[b], dir |-> dir[b], owner |-> Owner(b),
                             xmin |-> xid[b], xmax |-> NoXid,
                             next |-> Nil, prev |-> Nil])
    /\ new' = [new EXCEPT ![b] = Len(list) + 1]
    /\ Goto(b, "setHead")
    /\ UNCHANGED <<xact, vtup, etup, head, xid, edge, dir, saved, doomed, detach, todo>>

AppendRecord(b) ==
    /\ pc[b] = "appendRecord"
    /\ list' = Append(list, [edge |-> edge[b], dir |-> dir[b], owner |-> Owner(b),
                             xmin |-> xid[b], xmax |-> NoXid,
                             next |-> saved[b], prev |-> Nil])
    /\ new' = [new EXCEPT ![b] = Len(list) + 1]
    /\ Goto(b, IF saved[b] = Nil THEN "setHead" ELSE "fixPrev")
    /\ UNCHANGED <<xact, vtup, etup, head, xid, edge, dir, saved, doomed, detach, todo>>

\* Mutant: the pointer goes into the new record.
FixPrevOfNewRecord(b) ==
    /\ pc[b] = "fixPrev"
    /\ list' = [list EXCEPT ![new[b]].prev = saved[b]]
    /\ Goto(b, "setHead")
    /\ UNCHANGED <<xact, vtup, etup, head, xid, frame>>

\* update_edge_prev_pointer
FixPrev(b) ==
    /\ pc[b] = "fixPrev"
    /\ list' = [list EXCEPT ![saved[b]].prev = new[b]]
    /\ Goto(b, "setHead")
    /\ UNCHANGED <<xact, vtup, etup, head, xid, frame>>

\* Mutant: the head of the other end point is moved.
SetHeadOfOtherEnd(b) ==
    /\ pc[b] = "setHead"
    /\ head' = [head EXCEPT ![Endpoint(edge[b], 1 - dir[b])] = new[b]]
    /\ dir' = [dir EXCEPT ![b] = 1 - @]
    /\ IF dir[b] = 0 THEN Goto(b, "readHead") ELSE Return(b)
    /\ UNCHANGED <<xact, vtup, etup, list, xid, edge, saved, new, doomed, detach, todo>>

\* update_vertex_phys_map
SetHead(b) ==
    /\ pc[b] = "setHead"
    /\ head' = [head EXCEPT ![Owner(b)] = new[b]]
    /\ dir' = [dir EXCEPT ![b] = 1 - @]
    /\ IF dir[b] = 0 THEN Goto(b, "readHead") ELSE Return(b)
    /\ UNCHANGED <<xact, vtup, etup, list, xid, edge, saved, new, doomed, detach, todo>>
-----------------------------------------------------------------------------
(* np_internal_delete_edge: check and stamp the tuple under one lock, then  *)
(* np_delete_edge_from_adj_list in the two lists.                           *)

StampEdge(b, e) ==
    /\ Replaceable(b, etup[e])
    /\ etup' = [etup EXCEPT ![e].xmax = xid[b]]
    /\ edge' = [edge EXCEPT ![b] = e]
    /\ dir' = [dir EXCEPT ![b] = 0]
    /\ Goto(b, "startWalk")

DeleteEdge(b, e) ==
    /\ CanCall(b)
    /\ StampEdge(b, e)
    /\ UNCHANGED <<xact, vtup, list, head, xid, saved, new, doomed, detach, todo>>

\* ereport(ERROR, "Edge ID %ld was concurrently deleted or updated")
DeleteEdgeFails(b, e) ==
    /\ CanCall(b)
    /\ etup[e].xmin # NoXid
    /\ AnyId \/ Live(b, etup[e])
    /\ ~Replaceable(b, etup[e])
    /\ End(b, "aborted")

StartWalk(b) ==
    /\ pc[b] = "startWalk"
    /\ saved' = [saved EXCEPT ![b] = head[Owner(b)]]
    /\ Goto(b, "walk")
    /\ UNCHANGED <<xact, tables, xid, edge, dir, new, doomed, detach, todo>>

\* Mutant: the id is not compared.
IsUnstamped(b, r) == r.xmax = NoXid

\* The first unstamped record with the edge's id, whatever its label.
IsWanted(b, r) == IdOf[r.edge] = IdOf[edge[b]] /\ r.xmax = NoXid

\* Mutant: only the start vertex's list is walked.
NoSecondList(b) ==
    /\ UNCHANGED dir
    /\ IF doomed[b] # NoVertex THEN Goto(b, "cascade") ELSE Return(b)

\* The walk of one list is over: go on with the other list, then with the
\* vertex deletion this belongs to, if any.
NextList(b) ==
    /\ dir' = [dir EXCEPT ![b] = 1 - @]
    /\ IF dir[b] = 0 THEN Goto(b, "startWalk")
       ELSE IF doomed[b] # NoVertex THEN Goto(b, "cascade") ELSE Return(b)

\* Mutant: the record gets the id of the next transaction.
StampRecordWithNextXid(b) ==
    /\ pc[b] = "walk" /\ saved[b] # Nil
    /\ IsWanted(b, list[saved[b]])
    /\ list' = [list EXCEPT ![saved[b]].xmax = Len(xact) + 1]
    /\ NextList(b)
    /\ UNCHANGED <<xact, vtup, etup, head, xid, edge, saved, new, doomed, detach, todo>>

StampRecord(b) ==
    /\ pc[b] = "walk" /\ saved[b] # Nil
    /\ IsWanted(b, list[saved[b]])
    /\ list' = [list EXCEPT ![saved[b]].xmax = xid[b]]
    /\ NextList(b)
    /\ UNCHANGED <<xact, vtup, etup, head, xid, edge, saved, new, doomed, detach, todo>>

\* Mutant: the walk goes back to the head.
WalkFromHead(b) ==
    /\ pc[b] = "walk" /\ saved[b] # Nil
    /\ ~IsWanted(b, list[saved[b]])
    /\ saved' = [saved EXCEPT ![b] = head[Owner(b)]]
    /\ UNCHANGED <<xact, tables, xid, pc, edge, dir, new, doomed, detach, todo>>

WalkOn(b) ==
    /\ pc[b] = "walk" /\ saved[b] # Nil
    /\ ~IsWanted(b, list[saved[b]])
    /\ saved' = [saved EXCEPT ![b] = list[saved[b]].next]
    /\ UNCHANGED <<xact, tables, xid, pc, edge, dir, new, doomed, detach, todo>>

WalkEnds(b) ==
    /\ pc[b] = "walk" /\ saved[b] = Nil
    /\ NextList(b)
    /\ UNCHANGED <<xact, tables, xid, edge, saved, new, doomed, detach, todo>>
-----------------------------------------------------------------------------
(* delete_vertex: read the slot, walk the list for active edges, delete     *)
(* them, then check and stamp the vertex tuple.                             *)

DeleteVertex(b, v, cascade) ==
    /\ CanCall(b)
    /\ AnyId \/ Live(b, vtup[v])
    /\ doomed' = [doomed EXCEPT ![b] = v]
    /\ detach' = [detach EXCEPT ![b] = cascade]
    /\ saved' = [saved EXCEPT ![b] = head[v]]
    /\ Goto(b, "collect")
    /\ UNCHANGED <<xact, tables, xid, edge, dir, new, todo>>

\* Mutant: the last record is not looked at.
AtActiveEdgeBeforeLast(b) ==
    /\ pc[b] = "collect" /\ saved[b] # Nil
    /\ list[saved[b]].xmax = NoXid /\ list[saved[b]].next # Nil

\* What the walk calls an active edge: a record nobody has stamped.
AtActiveEdge(b) ==
    pc[b] = "collect" /\ saved[b] # Nil /\ list[saved[b]].xmax = NoXid

\* "Cannot delete vertex %ld because it still has active edges."
Refuse(b) ==
    /\ AtActiveEdge(b) /\ ~detach[b]
    /\ End(b, "aborted")

Collect(b) ==
    /\ pc[b] = "collect" /\ saved[b] # Nil
    /\ AtActiveEdge(b) => detach[b]
    /\ todo' = IF AtActiveEdge(b)
               THEN [todo EXCEPT ![b] = Append(@, list[saved[b]].edge)] ELSE todo
    /\ saved' = [saved EXCEPT ![b] = list[saved[b]].next]
    /\ UNCHANGED <<xact, tables, xid, pc, edge, dir, new, doomed, detach>>

CollectEnds(b) ==
    /\ pc[b] = "collect" /\ saved[b] = Nil
    /\ Goto(b, "cascade")
    /\ UNCHANGED <<xact, tables, xid, frame>>

CascadeDelete(b) ==
    /\ pc[b] = "cascade" /\ todo[b] # <<>>
    /\ StampEdge(b, Head(todo[b]))
    /\ todo' = [todo EXCEPT ![b] = Tail(@)]
    /\ UNCHANGED <<xact, vtup, list, head, xid, saved, new, doomed, detach>>

StampVertex(b) ==
    /\ pc[b] = "cascade" /\ todo[b] = <<>>
    /\ Replaceable(b, vtup[doomed[b]])
    /\ vtup' = [vtup EXCEPT ![doomed[b]].xmax = xid[b]]
    /\ doomed' = [doomed EXCEPT ![b] = NoVertex]
    /\ Return(b)
    /\ UNCHANGED <<xact, etup, list, head, xid, edge, dir, saved, new, detach, todo>>

\* A tuple of the cascade was concurrently deleted.
CascadeFails(b) ==
    /\ pc[b] = "cascade"
    /\ ~Replaceable(b, IF todo[b] = <<>> THEN vtup[doomed[b]] ELSE etup[Head(todo[b])])
    /\ End(b, "aborted")
-----------------------------------------------------------------------------
Call(b) ==
    \/ \E e \in Edge : InsertEdge(b, e) \/ DeleteEdge(b, e) \/ DeleteEdgeFails(b, e)
    \/ \E v \in Vertex, cascade \in BOOLEAN : DeleteVertex(b, v, cascade)

Continue(b) ==
    \/ ReadHead(b) \/ AppendRecord(b) \/ FixPrev(b) \/ SetHead(b)
    \/ StartWalk(b) \/ StampRecord(b) \/ WalkOn(b) \/ WalkEnds(b)
    \/ Collect(b) \/ Refuse(b) \/ CollectEnds(b)
    \/ CascadeDelete(b) \/ StampVertex(b) \/ CascadeFails(b)

Next == \E b \in Backend :
    Begin(b) \/ Commit(b) \/ Abort(b) \/ Call(b) \/ Continue(b)

Spec == Init /\ [][Next]_vars

\* A backend inside a call holds no lock another one waits for while it waits
\* itself, so the operating system lets every call go on.
FairSpec == Spec /\ \A b \in Backend : WF_vars(Continue(b))
-----------------------------------------------------------------------------
(* Properties.                                                              *)

Record == [edge : Edge, dir : Directions, owner : Vertex,
           xmin : XidsOf(xact), xmax : XidsOf(xact), next : Nat, prev : Nat]
Header == [xmin : XidsOf(xact), xmax : XidsOf(xact)]

\* Types; every transaction id that is held or written down was handed out.
TypeOK ==
    /\ xact \in Seq(XactStatus)
    /\ vtup \in [Vertex -> Header]
    /\ etup \in [Edge -> Header]
    /\ list \in Seq(Record)
    /\ head \in [Vertex -> Nat]
    /\ xid \in [Backend -> XidsOf(xact)]
    /\ pc \in [Backend -> Steps]
    /\ edge \in [Backend -> Edge]
    /\ dir \in [Backend -> Directions]
    /\ saved \in [Backend -> Nat]
    /\ new \in [Backend -> Nat]
    /\ doomed \in [Backend -> Vertex \cup {NoVertex}]
    /\ detach \in [Backend -> BOOLEAN]
    /\ todo \in [Backend -> Seq(Edge)]

\* Record r hangs in the list of vertex v.
HangsOn(r, v) == r \in DOMAIN list /\ list[r].owner = v

\* Lists stay lists whatever interleaves and aborts: a head names a record of
\* its vertex, next leads to an older record of the same vertex and prev to a
\* newer one.  No list is ever circular and no two lists ever share a record.
ListShape ==
    /\ \A v \in Vertex : head[v] # Nil => HangsOn(head[v], v)
    /\ \A r \in DOMAIN list :
         /\ list[r].next # Nil => list[r].next < r /\ HangsOn(list[r].next, list[r].owner)
         /\ list[r].prev # Nil => list[r].prev > r /\ HangsOn(list[r].prev, list[r].owner)

\* A prev pointer is never wrong, only missing or out of date at the other
\* end: the record it names does have this one as its next.
PrevInvertsNext ==
    \A r \in DOMAIN list : list[r].prev # Nil => list[list[r].prev].next = r

\* The records reachable from record r, r included.
Chain[r \in 0..Len(list)] ==
    IF r = Nil THEN {} ELSE {r} \cup Chain[list[r].next]

\* Some record for end d of edge e can be reached from the vertex at that end.
Hangs(e, d) ==
    \E r \in Chain[head[Endpoint(e, d)]] : list[r].edge = e /\ list[r].dir = d

\* Every edge whose insertion committed is found from both its vertices.
NothingLost ==
    \A e \in Edge : DidCommit(xact, etup[e].xmin) =>
        \A d \in Directions : Hangs(e, d)

\* A record is unlinked only for the deletion of its own edge: unless that
\* deletion aborted, the edge tuple carries the same stamp.
UnlinkMeansDeleted ==
    \A r \in DOMAIN list :
        (list[r].xmax # NoXid /\ ~DidAbort(xact, list[r].xmax))
            => etup[list[r].edge].xmax = list[r].xmax

\* The tombstone cascades: when the deletion of an edge has committed, all of
\* its records carry that deletion's stamp, or still that of an earlier one
\* which was rolled back.
DeletedMeansUnlinked ==
    \A r \in DOMAIN list :
        DidCommit(xact, etup[list[r].edge].xmax)
            => \/ list[r].xmax = etup[list[r].edge].xmax
               \/ DidAbort(xact, list[r].xmax)

\* Committed and not deleted, for everybody.
Stands(t) == DidCommit(xact, t.xmin) /\ ~DidCommit(xact, t.xmax)

\* A vertex is not deleted from under an edge, unless a rolled-back deletion
\* has left its stamp on a record of the edge, which then counts as inactive.
NoDanglingEdge ==
    \A e \in Edge : Stands(etup[e]) =>
        \A d \in Directions :
            \/ Stands(vtup[Endpoint(e, d)])
            \/ \E r \in DOMAIN list : list[r].edge = e /\ DidAbort(xact, list[r].xmax)

\* A DELETE without DETACH is refused only on account of an edge that is
\* there, or whose insertion was rolled back: the error says the vertex "still
\* has active edges", and an aborted record counts as one.
RefusalIsJustified ==
    \A b \in Backend :
        AtActiveEdge(b) => \/ Live(b, etup[list[saved[b]].edge])
                           \/ DidAbort(xact, list[saved[b]].xmin)

\* A DETACH DELETE in a quiet database is not stopped by its own cascade: what
\* it has collected can be deleted, save edges whose insertion was rolled back
\* and self-loops, which it meets twice.
CascadeCanDelete ==
    \A b \in Backend :
        (pc[b] = "cascade" /\ todo[b] # <<>>) =>
            \/ Replaceable(b, etup[Head(todo[b])])
            \/ DidAbort(xact, etup[Head(todo[b])].xmin)
            \/ Source[Head(todo[b])] = Target[Head(todo[b])]

\* What delete_vertex concludes from the list of a vertex agrees with the edge
\* tuples, which are what a query sees: no edge dangles, no deletion is refused
\* for nothing, and no cascade runs into itself.
DeletionAgrees == NoDanglingEdge /\ RefusalIsJustified /\ CascadeCanDelete

\* Every call comes to an end, even on lists other backends are changing.
CallsFinish == \A b \in Backend : pc[b] \notin {"idle", "end"} ~> pc[b] \in {"idle", "end"}
=============================================================================
