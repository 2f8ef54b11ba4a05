------------------------------- MODULE NPXact -------------------------------
(***************************************************************************)
(* Transactions as the storage code sees them.  PostgreSQL hands out full  *)
(* transaction ids in order and answers three questions about one: is it   *)
(* mine, is it running, did it commit.  A transaction log is a sequence of *)
(* statuses indexed by transaction id; NoXid is InvalidFullTransactionId.  *)
(* The predicates on tuple headers are those of access/np_entity_store.c.  *)
(***************************************************************************)
EXTENDS Integers, Sequences

NoXid == 0

XactStatus == {"running", "committed", "aborted"}

\* Transaction ids handed out so far, with the invalid one.
XidsOf(xact) == {NoXid} \cup DOMAIN xact

InProgress(xact, x) == x # NoXid /\ xact[x] = "running"
DidCommit(xact, x)  == x # NoXid /\ xact[x] = "committed"
DidAbort(xact, x)   == x # NoXid /\ xact[x] = "aborted"

\* TransactionIdIsCurrentTransactionId for a backend whose id is `me`.
IsOwn(me, x) == x # NoXid /\ x = me

(***************************************************************************)
(* np_entity_tuple_is_live: an own tuple is live until its own transaction *)
(* stamps it; a foreign one once its writer committed, as long as nobody   *)
(* who committed (and not the caller itself) has stamped it.               *)
(***************************************************************************)
TupleIsLive(xact, me, t) ==
    \/ /\ IsOwn(me, t.xmin)
       /\ ~IsOwn(me, t.xmax)
    \/ /\ ~IsOwn(me, t.xmin)
       /\ DidCommit(xact, t.xmin)
       /\ ~IsOwn(me, t.xmax)
       /\ ~DidCommit(xact, t.xmax)

\* np_entity_tuple_xmax_other: another running transaction stamped the tuple.
TupleXmaxOther(xact, me, t) ==
    ~IsOwn(me, t.xmax) /\ InProgress(xact, t.xmax)

\* The "Concurrency Check" every DML function makes of a tuple it replaces.
MayReplace(xact, me, t) ==
    TupleIsLive(xact, me, t) /\ ~TupleXmaxOther(xact, me, t)
=============================================================================
