---------------------------- MODULE PhysMapAddress ----------------------------
(***************************************************************************)
(* The address arithmetic of the physical map.  A slot is not searched:    *)
(* its page and offset are computed from the vertex or edge id and the     *)
(* number of records on a page.  The source computes that number in two    *)
(* ways, and a page holds a third number of records.                       *)
(***************************************************************************)
EXTENDS Integers

\* BLCKSZ - SizeOfPageHeaderData, sizeof(ItemIdData), SizeofHeapTupleHeader
PageSpace == 8192 - 24
LinePointer == 4
HeapTupleHeader == 23

\* sizeof(NeoPhysMapRecord), sizeof(NeoEdgePhysMapRecord)
VertexRecordSize == 22
EdgeRecordSize == 12

MaxAlign(n) == ((n + 7) \div 8) * 8

\* The inline computation in the insert, update, delete and label functions.
InlineTuplesPerPage(size) == PageSpace \div (size + LinePointer)

\* np_calculate_tuples_per_page, used to read and to move the list head.
CalculateTuplesPerPage(size) ==
    PageSpace \div (MaxAlign(HeapTupleHeader + size) + LinePointer)

\* How many records PageAddItemExtended puts on a page before it gives up.
PageCapacity(size) == PageSpace \div (MaxAlign(size) + LinePointer)

\* np_id_to_tid and np_tid_to_id
IdToTid(id, perPage) ==
    [block |-> (id - 1) \div perPage, offset |-> ((id - 1) % perPage) + 1]

TidToId(tid, perPage) == tid.block * perPage + (tid.offset - 1) + 1
=============================================================================
