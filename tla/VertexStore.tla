----------------------------- MODULE VertexStore -----------------------------
(***************************************************************************)
(* The rows of one vertex label: the entity store (versions of vertex      *)
(* tuples), the annotation store (versions of bitsets) and the physical    *)
(* map, the array indexed by vertex id through which every operation finds *)
(* them.  The two stores are versioned: a row carries the transaction that *)
(* wrote it and the one that stamped it.  The map is not: a slot is        *)
(* overwritten in place and a rollback leaves it as it is.                 *)
(*                                                                         *)
(* A step is what the code does under one buffer lock, so the operations   *)
(* of different backends interleave between the steps.  The append of a    *)
(* new version is taken together with the check before it: nobody can find *)
(* the row before the map names it.                                        *)
(***************************************************************************)
EXTENDS NPXact

CONSTANTS
    Backend,      \* sessions
    Vertex,       \* ids the label's sequence hands out
    Annotation,   \* bit positions of the annotation bitset
    MaxXid,       \* bound: transactions
    MaxTuples,    \* bound: versions in each store
    MaxPushes,    \* bound: edges hung on one vertex
    CallsApart,   \* TRUE: two calls are never at work on one vertex at once; their
                  \* transactions may be
    AnyId,        \* TRUE: calls may name vertices the caller does not see
    Rollback      \* TRUE: transactions may abort

ASSUME BoundsAssumption ==
    /\ MaxXid \in Nat /\ MaxTuples \in Nat /\ MaxPushes \in Nat
    /\ {CallsApart, AnyId, Rollback} \subseteq BOOLEAN

VARIABLES
    xact,     \* transaction log
    vtab,     \* entity store: a row's position stands for its TID, 0 is invalid
    atab,     \* annotation store
    pmap,     \* phys_map: vertex id -> [v, e, a]
    pushed,   \* list records ever written for a vertex (names the next head)
    xid,      \* the backend's transaction, NoXid when none
    touched,  \* the vertices the open transaction of a backend worked on
    pc,       \* where a backend is inside an operation
    vid,      \* the vertex the operation in progress is about
    rec,      \* the map record the operation will write back
    old       \* the version the operation will stamp

vars == <<xact, vtab, atab, pmap, pushed, xid, touched, pc, vid, rec, old>>

NoRow == 0
EmptySlot == [v |-> NoRow, e |-> 0, a |-> NoRow]

Steps == {"idle", "insertBits", "placeMap",
          "updateCheck", "updateMap", "updateStamp",
          "annotateCheck", "annotateMap", "annotateStamp", "deleteStamp"}

MapRecord == [v : Nat, e : Nat, a : Nat]
-----------------------------------------------------------------------------
Init ==
    /\ xact = <<>> /\ vtab = <<>> /\ atab = <<>>
    /\ pmap = [v \in Vertex |-> EmptySlot]
    /\ pushed = [v \in Vertex |-> 0]
    /\ xid = [b \in Backend |-> NoXid]
    /\ touched = [b \in Backend |-> {}]
    /\ pc = [b \in Backend |-> "idle"]
    /\ vid \in [Backend -> Vertex]
    /\ \A b, c \in Backend : vid[b] = vid[c]
    /\ rec = [b \in Backend |-> EmptySlot]
    /\ old = [b \in Backend |-> NoRow]

VertexTuple(b, v, p) == [id |-> v, xmin |-> xid[b], xmax |-> NoXid, prev |-> p]
BitsetTuple(b, v, p, set) ==
    [id |-> v, xmin |-> xid[b], xmax |-> NoXid, prev |-> p, bits |-> set]

\* The caller found the vertex by a scan of the entity store.
Sees(b, v) ==
    \E i \in DOMAIN vtab : vtab[i].id = v /\ TupleIsLive(xact, xid[b], vtab[i])

\* A backend starts an operation on v inside its open transaction.
Touch(b, v) ==
    /\ pc[b] = "idle" /\ xid[b] # NoXid
    /\ CallsApart => \A c \in Backend \ {b} : pc[c] = "idle" \/ vid[c] # v
    /\ touched' = [touched EXCEPT ![b] = @ \cup {v}]
    /\ vid' = [vid EXCEPT ![b] = v]

Goto(b, step) == pc' = [pc EXCEPT ![b] = step]

\* The transaction ends; what the operation had saved is gone with it.
End(b, status) ==
    /\ xact' = [xact EXCEPT ![xid[b]] = status]
    /\ xid' = [xid EXCEPT ![b] = NoXid]
    /\ touched' = [touched EXCEPT ![b] = {}]
    /\ Goto(b, "idle")
    /\ rec' = [rec EXCEPT ![b] = EmptySlot]
    /\ old' = [old EXCEPT ![b] = NoRow]
    /\ UNCHANGED <<vtab, atab, pmap, pushed, vid>>

\* GetTopFullTransactionId, at the first write of a transaction.
Begin(b) ==
    /\ xid[b] = NoXid
    /\ Len(xact) < MaxXid
    /\ xact' = Append(xact, "running")
    /\ xid' = [xid EXCEPT ![b] = Len(xact) + 1]
    /\ UNCHANGED <<vtab, atab, pmap, pushed, touched, pc, vid, rec, old>>

Commit(b) ==
    /\ xid[b] # NoXid /\ pc[b] = "idle"
    /\ End(b, "committed")

\* ROLLBACK, an error elsewhere in the transaction, or a crash of the server:
\* it can come between any two steps of an operation.
Abort(b) ==
    /\ Rollback
    /\ xid[b] # NoXid
    /\ End(b, "aborted")
-----------------------------------------------------------------------------
(* np_internal_insert_vertex: append the vertex, append its bitset when the *)
(* caller gave annotations, then fill the slot of the (fresh) id.           *)

InsertVertex(b, v) ==
    /\ Touch(b, v)
    /\ Len(vtab) < MaxTuples
    /\ \A i \in DOMAIN vtab : vtab[i].id # v
    /\ vtab' = Append(vtab, VertexTuple(b, v, NoRow))
    /\ rec' = [rec EXCEPT ![b] = [v |-> Len(vtab) + 1, e |-> 0, a |-> NoRow]]
    /\ Goto(b, "insertBits")
    /\ UNCHANGED <<xact, atab, pmap, pushed, xid, old>>

InsertBits(b) ==
    /\ pc[b] = "insertBits"
    /\ \/ UNCHANGED <<atab, rec>>
       \/ \E set \in SUBSET Annotation :
            /\ Len(atab) < MaxTuples
            /\ atab' = Append(atab, BitsetTuple(b, vid[b], NoRow, set))
            /\ rec' = [rec EXCEPT ![b].a = Len(atab) + 1]
    /\ Goto(b, "placeMap")
    /\ UNCHANGED <<xact, vtab, pmap, pushed, xid, touched, vid, old>>

\* np_place_physmap_record writes the whole record into the slot.
PlaceMap(b) ==
    /\ pc[b] = "placeMap"
    /\ pmap' = [pmap EXCEPT ![vid[b]] = rec[b]]
    /\ Goto(b, "idle")
    /\ UNCHANGED <<xact, vtab, atab, pushed, xid, touched, vid, rec, old>>
-----------------------------------------------------------------------------
(* The operations on an existing vertex start from the map record, read     *)
(* under a share lock that is dropped at once.  Callers name ids that were  *)
(* handed out.                                                              *)

ReadMap(b, v, step) ==
    /\ Touch(b, v)
    /\ \E i \in DOMAIN vtab : vtab[i].id = v
    /\ AnyId \/ Sees(b, v)
    /\ rec' = [rec EXCEPT ![b] = pmap[v]]
    /\ Goto(b, step)
    /\ UNCHANGED <<xact, vtab, atab, pmap, pushed, xid, old>>

UpdateVertex(b, v)   == ReadMap(b, v, "updateCheck")
AnnotateVertex(b, v) == ReadMap(b, v, "annotateCheck")
DeleteVertex(b, v)   == ReadMap(b, v, "deleteStamp")

\* Mutants: no concurrency check; none for a stamp of a running transaction.
VertexExists(b) == rec[b].v # NoRow
VertexIsLive(b) == rec[b].v # NoRow /\ TupleIsLive(xact, xid[b], vtab[rec[b].v])

\* The vertex version the saved record names may be replaced or deleted.
VertexAdmits(b) ==
    rec[b].v # NoRow /\ MayReplace(xact, xid[b], vtab[rec[b].v])

\* So may the bitset version, if there is one.
BitsetAdmits(b) ==
    rec[b].a # NoRow => MayReplace(xact, xid[b], atab[rec[b].a])

\* Mutant of the next action: the row's prev is the row itself.
AppendLinkedToItself(b) ==
    /\ pc[b] = "updateCheck" /\ VertexAdmits(b)
    /\ Len(vtab) < MaxTuples
    /\ vtab' = Append(vtab, VertexTuple(b, vid[b], Len(vtab) + 1))
    /\ old' = [old EXCEPT ![b] = rec[b].v]
    /\ rec' = [rec EXCEPT ![b].v = Len(vtab) + 1]
    /\ Goto(b, "updateMap")
    /\ UNCHANGED <<xact, atab, pmap, pushed, xid, touched, vid>>

\* update_vertex: check the old version under a share lock, append the new one.
AppendVersion(b) ==
    /\ pc[b] = "updateCheck" /\ VertexAdmits(b)
    /\ Len(vtab) < MaxTuples
    /\ vtab' = Append(vtab, VertexTuple(b, vid[b], rec[b].v))
    /\ old' = [old EXCEPT ![b] = rec[b].v]
    /\ rec' = [rec EXCEPT ![b].v = Len(vtab) + 1]
    /\ Goto(b, "updateMap")
    /\ UNCHANGED <<xact, atab, pmap, pushed, xid, touched, vid>>

\* Mutant of the next action: the bitset's TID lands in the field of the vertex.
AppendBitsetWrongField(b) ==
    LET bits == IF rec[b].a = NoRow THEN {} ELSE atab[rec[b].a].bits IN
    /\ pc[b] = "annotateCheck" /\ BitsetAdmits(b)
    /\ Len(atab) < MaxTuples
    /\ \E n \in Annotation : \E set \in {bits \cup {n}, bits \ {n}} :
         atab' = Append(atab, BitsetTuple(b, vid[b], rec[b].a, set))
    /\ old' = [old EXCEPT ![b] = rec[b].a]
    /\ rec' = [rec EXCEPT ![b].v = Len(atab) + 1]
    /\ Goto(b, "annotateMap")
    /\ UNCHANGED <<xact, vtab, pmap, pushed, xid, touched, vid>>

\* add_vertex_annotation_label and remove_vertex_annotation_label: the old
\* bits (none if the vertex has no bitset) with one bit set or cleared.
AppendBitset(b) ==
    LET bits == IF rec[b].a = NoRow THEN {} ELSE atab[rec[b].a].bits IN
    /\ pc[b] = "annotateCheck" /\ BitsetAdmits(b)
    /\ Len(atab) < MaxTuples
    /\ \E n \in Annotation : \E set \in {bits \cup {n}, bits \ {n}} :
         atab' = Append(atab, BitsetTuple(b, vid[b], rec[b].a, set))
    /\ old' = [old EXCEPT ![b] = rec[b].a]
    /\ rec' = [rec EXCEPT ![b].a = Len(atab) + 1]
    /\ Goto(b, "annotateMap")
    /\ UNCHANGED <<xact, vtab, pmap, pushed, xid, touched, vid>>

\* Mutant: the write loses the bitset.
OverwriteLosesBits(b) ==
    /\ \/ pc[b] = "updateMap" /\ Goto(b, "updateStamp")
       \/ pc[b] = "annotateMap" /\ Goto(b, "annotateStamp")
    /\ pmap' = [pmap EXCEPT ![vid[b]].v = rec[b].v]
    /\ UNCHANGED <<xact, vtab, atab, pushed, xid, touched, vid, rec, old>>

\* np_overwrite_physmap_in_page: the whole saved record goes back.
OverwriteMap(b) ==
    /\ \/ pc[b] = "updateMap" /\ Goto(b, "updateStamp")
       \/ pc[b] = "annotateMap" /\ Goto(b, "annotateStamp")
    /\ pmap' = [pmap EXCEPT ![vid[b]] = rec[b]]
    /\ UNCHANGED <<xact, vtab, atab, pushed, xid, touched, vid, rec, old>>

\* Mutants: the old version is not stamped; it is stamped with the id the
\* next transaction will get.
StampForgotten(b) ==
    /\ pc[b] = "updateStamp"
    /\ Goto(b, "idle")
    /\ UNCHANGED <<xact, vtab, atab, pmap, pushed, xid, touched, vid, rec, old>>

StampWithNextXid(b) ==
    /\ pc[b] = "updateStamp"
    /\ vtab' = [vtab EXCEPT ![old[b]].xmax = Len(xact) + 1]
    /\ Goto(b, "idle")
    /\ UNCHANGED <<xact, atab, pmap, pushed, xid, touched, vid, rec, old>>

\* The old version is stamped under a second lock, without a second check.
StampVersion(b) ==
    /\ pc[b] = "updateStamp"
    /\ vtab' = [vtab EXCEPT ![old[b]].xmax = xid[b]]
    /\ Goto(b, "idle")
    /\ UNCHANGED <<xact, atab, pmap, pushed, xid, touched, vid, rec, old>>

StampBitset(b) ==
    /\ pc[b] = "annotateStamp"
    /\ atab' = IF old[b] = NoRow THEN atab
               ELSE [atab EXCEPT ![old[b]].xmax = xid[b]]
    /\ Goto(b, "idle")
    /\ UNCHANGED <<xact, vtab, pmap, pushed, xid, touched, vid, rec, old>>

\* delete_vertex (its edges are AdjacencyList's): check and stamp in one lock.
StampDeleted(b) ==
    /\ pc[b] = "deleteStamp" /\ VertexAdmits(b)
    /\ vtab' = [vtab EXCEPT ![rec[b].v].xmax = xid[b]]
    /\ Goto(b, "idle")
    /\ UNCHANGED <<xact, atab, pmap, pushed, xid, touched, vid, rec, old>>

\* ereport(ERROR, "... was concurrently deleted or updated"), or no such id.
Reject(b) ==
    /\ \/ pc[b] \in {"updateCheck", "deleteStamp"} /\ ~VertexAdmits(b)
       \/ pc[b] = "annotateCheck" /\ ~BitsetAdmits(b)
    /\ End(b, "aborted")

\* update_vertex_phys_map: an edge insertion moves the list head in place.
PushEdge(b, v) ==
    /\ Touch(b, v)
    /\ AnyId \/ Sees(b, v)
    /\ pmap[v].v # NoRow
    /\ pushed[v] < MaxPushes
    /\ pushed' = [pushed EXCEPT ![v] = @ + 1]
    /\ pmap' = [pmap EXCEPT ![v].e = pushed[v] + 1]
    /\ UNCHANGED <<xact, vtab, atab, xid, pc, rec, old>>
-----------------------------------------------------------------------------
Step(b) ==
    \/ Begin(b) \/ Commit(b) \/ Abort(b)
    \/ \E v \in Vertex : InsertVertex(b, v) \/ UpdateVertex(b, v)
                         \/ AnnotateVertex(b, v) \/ DeleteVertex(b, v)
                         \/ PushEdge(b, v)
    \/ InsertBits(b) \/ PlaceMap(b)
    \/ AppendVersion(b) \/ AppendBitset(b) \/ OverwriteMap(b)
    \/ StampVersion(b) \/ StampBitset(b) \/ StampDeleted(b) \/ Reject(b)

Next == \E b \in Backend : Step(b)

Spec == Init /\ [][Next]_vars
-----------------------------------------------------------------------------
(* Properties.                                                              *)

VertexRow == [id : Vertex, xmin : XidsOf(xact), xmax : XidsOf(xact), prev : Nat]
BitsetRow == [id : Vertex, xmin : XidsOf(xact), xmax : XidsOf(xact), prev : Nat,
              bits : SUBSET Annotation]

\* Types; every transaction id that is held or written down was handed out.
TypeOK ==
    /\ xact \in Seq(XactStatus)
    /\ vtab \in Seq(VertexRow)
    /\ atab \in Seq(BitsetRow)
    /\ pmap \in [Vertex -> MapRecord]
    /\ pushed \in [Vertex -> Nat]
    /\ xid \in [Backend -> XidsOf(xact)]
    /\ touched \in [Backend -> SUBSET Vertex]
    /\ pc \in [Backend -> Steps]
    /\ vid \in [Backend -> Vertex]
    /\ rec \in [Backend -> MapRecord]
    /\ old \in [Backend -> Nat]

\* Row r of store `tab` is a version of vertex v.
IsVersionOf(tab, r, v) == r \in DOMAIN tab /\ tab[r].id = v

PointsBack(tab) ==
    \A i \in DOMAIN tab :
        LET p == tab[i].prev IN p # NoRow => p < i /\ IsVersionOf(tab, p, tab[i].id)

\* A version's prev_itemptr names an older version of the same vertex, so the
\* backward walk over versions terminates and never leaves the vertex.
PrevChain == PointsBack(vtab) /\ PointsBack(atab)

\* Whatever interleaves and whatever rolls back, the slot of a vertex names
\* rows of that vertex and a list head that was really written for it.
MapTargets ==
    \A v \in Vertex :
        /\ pmap[v].v # NoRow => IsVersionOf(vtab, pmap[v].v, v)
        /\ pmap[v].a # NoRow => IsVersionOf(atab, pmap[v].a, v)
        /\ pmap[v].e <= pushed[v]

\* A committed version replaced one that had committed; that one bears the stamp of
\* who replaced it, and no other committed version replaces it.
CommittedRowsChain(tab) ==
    \A j \in DOMAIN tab :
        LET p == tab[j].prev
        IN  p # NoRow /\ DidCommit(xact, tab[j].xmin) =>
              /\ DidCommit(xact, tab[p].xmin) /\ tab[p].xmax = tab[j].xmin
              /\ \A i \in DOMAIN tab \ {j} : tab[i].prev = p => ~DidCommit(xact, tab[i].xmin)

\* What the "Concurrency Check" of the DML functions is for: however the calls of
\* open transactions take turns on a vertex, none replaces what another one has
\* replaced, or has written and may still roll back.
NoLostUpdate == CommittedRowsChain(vtab) /\ CommittedRowsChain(atab)

\* "Concurrency Check: ensure no one deleted/updated this annotation bitset
\* concurrently" (np_label.c:1502): without CallsApart two calls pass that check on one
\* bitset before either stamps it, both commit, and the annotation of one is lost.
BitsetUpdatesAreKept == CommittedRowsChain(atab)

\* A stamp gives way to another one only when the transaction that made it has
\* rolled back: a deletion or replacement that counts, or still may, is never
\* stamped over, although the stamp comes two locks after the check.
StampsGiveWay(tab, ntab) ==
    \A i \in DOMAIN tab :
        tab[i].xmax = NoXid \/ DidAbort(xact, tab[i].xmax) \/ ntab[i].xmax = tab[i].xmax

DeathIsFinal == [][StampsGiveWay(vtab, vtab') /\ StampsGiveWay(atab, atab')]_vars

\* A backend between operations sees at most one version of a vertex and one
\* of its bitset, its own uncommitted ones included, wherever the calls of
\* others on that vertex are.
OneLiveRow(tab, b, v) ==
    \A i, j \in DOMAIN tab :
        (/\ tab[i].id = v /\ TupleIsLive(xact, xid[b], tab[i])
         /\ tab[j].id = v /\ TupleIsLive(xact, xid[b], tab[j])) => i = j

OneLiveVersion ==
    \A b \in Backend, v \in Vertex :
        pc[b] = "idle" => OneLiveRow(vtab, b, v) /\ OneLiveRow(atab, b, v)

\* A row of v was written by a transaction that aborted: from then on the slot
\* may name it, for no rollback restores a slot.
RolledBack(tab, v) == \E i \in DOMAIN tab : tab[i].id = v /\ DidAbort(xact, tab[i].xmin)

\* Nobody but b's own transaction is at work on v.
Settled(b, v) ==
    /\ pc[b] = "idle"
    /\ \A c \in Backend \ {b} : v \notin touched[c]

\* The version of a vertex and the bitset a backend may see are the ones its
\* slot names, as long as no new version of either was rolled back:
\* get_phys_map_vpointer returns "the current vertex property TID".
MapFindsLive ==
    \A b \in Backend :
        /\ \A i \in DOMAIN vtab :
              (/\ Settled(b, vtab[i].id) /\ TupleIsLive(xact, xid[b], vtab[i])
               /\ ~RolledBack(vtab, vtab[i].id)) => pmap[vtab[i].id].v = i
        /\ \A i \in DOMAIN atab :
              (/\ Settled(b, atab[i].id) /\ TupleIsLive(xact, xid[b], atab[i])
               /\ ~RolledBack(atab, atab[i].id)) => pmap[atab[i].id].a = i
=============================================================================
