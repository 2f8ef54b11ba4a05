----------------------------- MODULE CatalogHeap -----------------------------
(***************************************************************************)
(* The np_catalog table access method: heap rows that are never vacuumed,  *)
(* stamped with transaction and command ids, read through snapshots, and   *)
(* an index whose entries a reader may mark dead.  The rows stand for the  *)
(* catalog of label names: registering, removing and replacing a name.     *)
(*                                                                         *)
(* The visibility rule of the linked list and array list access methods    *)
(* is stated beside the catalog's, over the same row headers.              *)
(***************************************************************************)
EXTENDS NPXact, FiniteSets

CONSTANTS
    Backend, Label,
    MaxXid,     \* bound: transactions
    MaxRows,    \* bound: rows
    MaxCid,     \* bound: commands in a transaction
    Isolated,   \* TRUE: nobody writes a row that is being replaced
    Rollback    \* TRUE: transactions may abort, by choice or by an error

ASSUME CatalogAssumption ==
    {MaxXid, MaxRows, MaxCid} \subseteq Nat /\ {Isolated, Rollback} \subseteq BOOLEAN

VARIABLES
    xact, xid,
    cid,     \* current command of the backend's transaction
    snap,    \* the snapshot its running query holds, NoSnapshot if none
    rows,    \* the heap, in TID order
    killed,  \* rows whose index entry is marked dead
    hasty,   \* reference: rows judged while a transaction on them ran
    pc, at   \* step of the operation and the row or label it is about

vars == <<xact, xid, cid, snap, rows, killed, hasty, pc, at>>

Nothing == 0
NoSnapshot == [xmin |-> 0, xmax |-> 0, running |-> {}, curcid |-> 0, done |-> {}]
-----------------------------------------------------------------------------
(* Snapshots.                                                               *)

Running(x) == InProgress(xact, x)

\* GetSnapshotData; `done` is the reference: what had committed by then.
Snapshot(b) ==
    [xmin |-> CHOOSE x \in 1 .. Len(xact) + 1 :
                /\ x = Len(xact) + 1 \/ Running(x)
                /\ \A y \in 1 .. x - 1 : ~Running(y),
     xmax |-> Len(xact) + 1,
     running |-> {x \in DOMAIN xact : Running(x)} \ {xid[b]},
     curcid |-> cid[b],
     done |-> {x \in DOMAIN xact : DidCommit(xact, x)}]

XidInMVCCSnapshot(x, s) == x >= s.xmax \/ x \in s.running

\* Mutant: the transaction's own deletions take effect at once.
LosesOwnDeletions(b, s, r) ==
    /\ r.xmin # NoXid
    /\ IF IsOwn(xid[b], r.xmin) THEN r.cmin < s.curcid
       ELSE ~XidInMVCCSnapshot(r.xmin, s) /\ DidCommit(xact, r.xmin)
    /\ \/ r.xmax = NoXid
       \/ /\ ~IsOwn(xid[b], r.xmax)
          /\ \/ IsOwn(xid[b], r.xmin)
             \/ XidInMVCCSnapshot(r.xmax, s)
             \/ ~DidCommit(xact, r.xmax)

\* np_catalog_tuple_visible under an MVCC snapshot
CatalogVisible(b, s, r) ==
    /\ r.xmin # NoXid
    /\ IF IsOwn(xid[b], r.xmin) THEN r.cmin < s.curcid
       ELSE ~XidInMVCCSnapshot(r.xmin, s) /\ DidCommit(xact, r.xmin)
    /\ \/ r.xmax = NoXid
       \/ IsOwn(xid[b], r.xmax) /\ r.cmax >= s.curcid
       \/ /\ ~IsOwn(xid[b], r.xmax)
          /\ \/ IsOwn(xid[b], r.xmin)
             \/ XidInMVCCSnapshot(r.xmax, s)
             \/ ~DidCommit(xact, r.xmax)

\* Mutant: a deletion counts as soon as it has committed.
ListVisibleUntilCommit(b, s, r) ==
    /\ r.xmin # NoXid
    /\ \/ r.xmin < s.xmin
       \/ IsOwn(xid[b], r.xmin) /\ r.cmin < s.curcid
       \/ /\ ~IsOwn(xid[b], r.xmin)
          /\ ~XidInMVCCSnapshot(r.xmin, s) /\ DidCommit(xact, r.xmin)
    /\ \/ r.xmax = NoXid
       \/ /\ r.xmax >= s.xmin
          /\ IF IsOwn(xid[b], r.xmax) THEN r.cmax >= s.curcid
             ELSE ~DidCommit(xact, r.xmax)

\* np_record_satisfies_snapshot and np_arraylist_record_satisfies_snapshot:
\* below the snapshot's xmin a transaction is taken to have committed.
ListVisible(b, s, r) ==
    /\ r.xmin # NoXid
    /\ \/ r.xmin < s.xmin
       \/ IsOwn(xid[b], r.xmin) /\ r.cmin < s.curcid
       \/ /\ ~IsOwn(xid[b], r.xmin)
          /\ ~XidInMVCCSnapshot(r.xmin, s) /\ DidCommit(xact, r.xmin)
    /\ \/ r.xmax = NoXid
       \/ /\ r.xmax >= s.xmin
          /\ IF IsOwn(xid[b], r.xmax) THEN r.cmax >= s.curcid
             ELSE XidInMVCCSnapshot(r.xmax, s) \/ ~DidCommit(xact, r.xmax)

\* np_catalog_index_fetch_tuple finds a row only if its entry is not marked
\* dead and the row is live as well as visible.
IndexFetches(b, s, i) ==
    /\ i \notin killed
    /\ TupleIsLive(xact, xid[b], rows[i])
    /\ CatalogVisible(b, s, rows[i])

\* Mutant: every stamped row is reported dead, also one whose deletion aborted.
MayKillStamped(b, l) ==
    {i \in DOMAIN rows : rows[i].key = l /\ rows[i].xmax # NoXid}

\* It reports every other row of the key as dead to all, and the index may
\* then mark the entry.
MayKill(b, l) ==
    {i \in DOMAIN rows : rows[i].key = l /\ ~TupleIsLive(xact, xid[b], rows[i])}
-----------------------------------------------------------------------------
Init ==
    /\ xact = <<>> /\ rows = <<>> /\ killed = {} /\ hasty = {}
    /\ xid = [b \in Backend |-> NoXid]
    /\ cid = [b \in Backend |-> 0]
    /\ snap = [b \in Backend |-> NoSnapshot]
    /\ pc = [b \in Backend |-> "idle"]
    /\ at = [b \in Backend |-> Nothing]

Goto(b, step, what) ==
    /\ pc' = [pc EXCEPT ![b] = step]
    /\ at' = [at EXCEPT ![b] = what]

Return(b) == Goto(b, "idle", Nothing)

Ready(b) == pc[b] = "idle" /\ xid[b] # NoXid

Begin(b) ==
    /\ xid[b] = NoXid
    /\ Len(xact) < MaxXid
    /\ xact' = Append(xact, "running")
    /\ xid' = [xid EXCEPT ![b] = Len(xact) + 1]
    /\ UNCHANGED <<cid, snap, rows, killed, hasty, pc, at>>

End(b, status) ==
    /\ xact' = [xact EXCEPT ![xid[b]] = status]
    /\ xid' = [xid EXCEPT ![b] = NoXid]
    /\ cid' = [cid EXCEPT ![b] = 0]
    /\ snap' = [snap EXCEPT ![b] = NoSnapshot]
    /\ Goto(b, "idle", Nothing)
    /\ UNCHANGED <<rows, killed, hasty>>

Commit(b) == pc[b] = "idle" /\ xid[b] # NoXid /\ End(b, "committed")
Abort(b)  == Rollback /\ xid[b] # NoXid /\ End(b, "aborted")

\* A query starts and keeps its snapshot while functions it calls write.
TakeSnapshot(b) ==
    /\ Ready(b)
    /\ snap' = [snap EXCEPT ![b] = Snapshot(b)]
    /\ UNCHANGED <<xact, xid, cid, rows, killed, hasty, pc, at>>

CommandCounterIncrement(b) ==
    /\ Ready(b)
    /\ cid[b] < MaxCid
    /\ cid' = [cid EXCEPT ![b] = @ + 1]
    /\ UNCHANGED <<xact, xid, snap, rows, killed, hasty, pc, at>>
-----------------------------------------------------------------------------
(* enforce_and_insert_label_catalog: an index lookup under a fresh snapshot *)
(* and, if it finds nothing, an insertion into the heap and the index.      *)

\* The rows of that name on which a transaction is running.
Unsettled(l) ==
    {i \in DOMAIN rows : rows[i].key = l /\ (Running(rows[i].xmin) \/ Running(rows[i].xmax))}

LookUp(b, l) ==
    /\ Ready(b)
    /\ \E dead \in {{}, MayKill(b, l)} : killed' = killed \cup dead
    /\ IF \E i \in DOMAIN rows : rows[i].key = l /\ IndexFetches(b, Snapshot(b), i)
       THEN Return(b)
       ELSE Goto(b, "insert", l)
    /\ hasty' = hasty \cup Unsettled(l)
    /\ UNCHANGED <<xact, xid, cid, snap, rows>>

\* Mutant: the row belongs to the next command.
RowOfNextCommand(b, l) ==
    [key |-> l, xmin |-> xid[b], cmin |-> cid[b] + 1, xmax |-> NoXid, cmax |-> 0]

Row(b, l) ==
    [key |-> l, xmin |-> xid[b], cmin |-> cid[b], xmax |-> NoXid, cmax |-> 0]

\* The unique index finds a conflict only in a row that is live to the caller.
Conflict(b, l) ==
    \E i \in DOMAIN rows \ killed : rows[i].key = l /\ TupleIsLive(xact, xid[b], rows[i])

Insert(b) ==
    /\ pc[b] = "insert" /\ ~Conflict(b, at[b])
    /\ Len(rows) < MaxRows
    /\ \E dead \in {{}, MayKill(b, at[b])} : killed' = killed \cup dead
    /\ hasty' = hasty \cup Unsettled(at[b])
    /\ rows' = Append(rows, Row(b, at[b]))
    /\ Return(b)
    /\ UNCHANGED <<xact, xid, cid, snap>>

\* duplicate key value violates unique constraint
InsertFails(b) ==
    /\ Rollback
    /\ pc[b] = "insert" /\ Conflict(b, at[b])
    /\ End(b, "aborted")
-----------------------------------------------------------------------------
(* A row found by a sequential scan under a fresh snapshot is deleted or    *)
(* replaced.                                                                *)

Found(b, i) ==
    /\ CatalogVisible(b, Snapshot(b), rows[i])
    /\ Isolated => \A c \in Backend : pc[c] = "stamp" => at[c] # i

Stamped(b, i) == [rows EXCEPT ![i].xmax = xid[b], ![i].cmax = cid[b]]

\* np_catalog_tuple_delete: check and stamp under one lock.
Delete(b, i) ==
    /\ Ready(b) /\ Found(b, i)
    /\ MayReplace(xact, xid[b], rows[i])
    /\ rows' = Stamped(b, i)
    /\ Return(b)
    /\ UNCHANGED <<xact, xid, cid, snap, killed, hasty>>

\* np_catalog_tuple_update: check, unlock, append the new version, ...
Replace(b, i) ==
    /\ Ready(b) /\ Found(b, i)
    /\ MayReplace(xact, xid[b], rows[i])
    /\ Len(rows) < MaxRows
    /\ rows' = Append(rows, Row(b, rows[i].key))
    /\ Goto(b, "stamp", i)
    /\ UNCHANGED <<xact, xid, cid, snap, killed, hasty>>

\* Mutant: the old version is not stamped.
ReplaceWithoutStamp(b) ==
    /\ pc[b] = "stamp"
    /\ Return(b)
    /\ UNCHANGED <<xact, xid, cid, snap, rows, killed, hasty>>

\* ... lock again and stamp the old one.
StampReplaced(b) ==
    /\ pc[b] = "stamp"
    /\ rows' = Stamped(b, at[b])
    /\ Return(b)
    /\ UNCHANGED <<xact, xid, cid, snap, killed, hasty>>

\* "failed to update catalog tuple", "failed to delete catalog tuple"
WriteFails(b, i) ==
    /\ Rollback
    /\ Ready(b) /\ Found(b, i)
    /\ ~MayReplace(xact, xid[b], rows[i])
    /\ End(b, "aborted")
-----------------------------------------------------------------------------
Next == \E b \in Backend :
    \/ Begin(b) \/ Commit(b) \/ Abort(b)
    \/ TakeSnapshot(b) \/ CommandCounterIncrement(b)
    \/ \E l \in Label : LookUp(b, l)
    \/ Insert(b) \/ InsertFails(b)
    \/ \E i \in DOMAIN rows : Delete(b, i) \/ Replace(b, i) \/ WriteFails(b, i)
    \/ StampReplaced(b)

Spec == Init /\ [][Next]_vars
-----------------------------------------------------------------------------
(* Properties.                                                              *)

TypeOK ==
    /\ xact \in Seq(XactStatus)
    /\ xid \in [Backend -> XidsOf(xact)]
    /\ cid \in [Backend -> 0 .. MaxCid]
    /\ rows \in Seq([key : Label, xmin : XidsOf(xact), cmin : 0 .. MaxCid,
                     xmax : XidsOf(xact), cmax : 0 .. MaxCid])
    /\ killed \subseteq DOMAIN rows /\ hasty \subseteq DOMAIN rows
    /\ pc \in [Backend -> {"idle", "insert", "stamp"}]
    /\ at \in [Backend -> Label \cup Nat]
    /\ \A b \in Backend :
         /\ pc[b] = "insert" => at[b] \in Label
         /\ pc[b] = "stamp" => at[b] \in DOMAIN rows

\* What a snapshot shows by definition: the work of the transactions that had
\* committed when it was taken, and the caller's earlier commands.
Shows(b, s, x, c) ==
    x # NoXid /\ IF IsOwn(xid[b], x) THEN c < s.curcid ELSE x \in s.done

ReferenceVisible(b, s, r) ==
    Shows(b, s, r.xmin, r.cmin) /\ ~Shows(b, s, r.xmax, r.cmax)

Held == {b \in Backend : snap[b] # NoSnapshot}

\* A scan of a catalog shows exactly the rows its snapshot contains; so do the
\* scans of list tables, as long as neither transaction on the row was rolled
\* back: below the snapshot's horizon they take every transaction as committed.
ScansMatchMVCC ==
    \A b \in Held : \A i \in DOMAIN rows :
        LET r == rows[i]
        IN  /\ CatalogVisible(b, snap[b], r) <=> ReferenceVisible(b, snap[b], r)
            /\ \/ DidAbort(xact, r.xmin) \/ DidAbort(xact, r.xmax)
               \/ ListVisible(b, snap[b], r) <=> ReferenceVisible(b, snap[b], r)

\* While a query keeps its snapshot, what it sees does not change, whoever
\* writes, commits or aborts; in particular it never meets the new version of
\* a row it has itself just replaced (the Halloween problem).
ScanIsStable ==
    [][\A b \in Held : snap'[b] = snap[b] =>
         /\ \A i \in DOMAIN rows :
              CatalogVisible(b, snap[b], rows[i])' <=> CatalogVisible(b, snap[b], rows[i])
         /\ \A i \in DOMAIN rows' \ DOMAIN rows : ~CatalogVisible(b, snap[b], rows[i])']_vars

Stands(i) ==
    DidCommit(xact, rows[i].xmin) /\ ~DidCommit(xact, rows[i].xmax)

\* A label name has one committed row, unless a look-up or a uniqueness check
\* has met a row of that name while a transaction on it was running.
NoTwinRows ==
    \A i, j \in DOMAIN rows :
        (/\ rows[i].key = rows[j].key /\ Stands(i) /\ Stands(j)
         /\ \A k \in hasty : rows[k].key # rows[i].key) => i = j

\* A committed row whose deletion has not committed can be found through the
\* index, which no reader repairs: a mark on its entry is for ever.  Only an
\* entry marked while a transaction on the row ran can be wrong.
CommittedIsIndexed == \A i \in killed \ hasty : ~Stands(i)
=============================================================================
