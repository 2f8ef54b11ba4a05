----------------------------- MODULE PhysMapFile -----------------------------
(***************************************************************************)
(* The file of a vertex label's physical map: pages of records at computed *)
(* addresses.  An insertion extends the file, pads the page with empty     *)
(* records up to its slot and adds its record; an edge insertion writes    *)
(* the list head into the slot it computes.  Every operation is one step:  *)
(* it holds the page's exclusive lock.                                     *)
(***************************************************************************)
EXTENDS PhysMapAddress, Sequences, FiniteSets

CONSTANTS
    Id,         \* vertex ids in use
    PerPage,    \* records on a page, as the insertion counts them
    HeadPerPage,\* records on a page, as the list-head functions count them
    Capacity    \* records that fit on a page

ASSUME PageAssumption ==
    /\ Id \subseteq Nat \ {0}
    /\ {PerPage, HeadPerPage, Capacity} \subseteq Nat \ {0}

VARIABLES
    file,    \* the pages, each a sequence of records
    placed,  \* ids whose insertion has filled (or tried to fill) their slot
    hung     \* ids whose list head has been set

vars == <<file, placed, hung>>

NoId == 0
\* whose v_itemptr and whose list head a record holds
Blank == [v |-> NoId, e |-> NoId]

Init == file = <<>> /\ placed = {} /\ hung = {}

Slot(id) == IdToTid(id, PerPage)

HeadSlot(id) == IdToTid(id, HeadPerPage)

\* The page is there and the line pointer is normal.
IsNormal(tid) == tid.block < Len(file) /\ tid.offset <= Len(file[tid.block + 1])

RecordAt(tid) == file[tid.block + 1][tid.offset]

\* The file with empty pages up to the block.
Extended(block) ==
    [p \in 1 .. (IF block < Len(file) THEN Len(file) ELSE block + 1) |->
        IF p <= Len(file) THEN file[p] ELSE <<>>]

\* Mutants: a slot that is there already is left as it is; the padding starts
\* at the first slot.
AddedIfMissing(page, offset, record) ==
    [o \in 1 .. (IF offset <= Len(page) THEN Len(page) ELSE offset) |->
       IF o <= Len(page) THEN page[o] ELSE IF o = offset THEN record ELSE Blank]

AddedOverPadding(page, offset, record) ==
    [o \in 1 .. (IF offset <= Len(page) THEN Len(page) ELSE offset) |->
       IF o = offset THEN record ELSE Blank]

\* PageAddItemExtended adds what fits: the results of the calls are not looked
\* at, and a record past the capacity of the page is dropped in silence.
Added(page, offset, record) ==
    LET size == IF offset <= Len(page) THEN Len(page)
                ELSE IF offset <= Capacity THEN offset
                ELSE IF Capacity <= Len(page) THEN Len(page) ELSE Capacity
    IN [o \in 1 .. size |->
          IF o = offset THEN record ELSE IF o <= Len(page) THEN page[o] ELSE Blank]

\* np_place_physmap_record, at the end of np_internal_insert_vertex
Place(id) ==
    LET tid == Slot(id)
        pages == Extended(tid.block) IN
    /\ id \notin placed
    /\ file' = [pages EXCEPT ![tid.block + 1] =
                  Added(@, tid.offset, [v |-> id, e |-> NoId])]
    /\ placed' = placed \cup {id}
    /\ UNCHANGED hung

\* update_vertex_phys_map, at the end of insert_edge_one_direction; it raises
\* an error when the slot it computes does not exist.  Callers hold a vertex
\* value, so the vertex was inserted.
SetHead(id) ==
    LET tid == HeadSlot(id) IN
    /\ id \in placed
    /\ IsNormal(tid)
    /\ file' = [file EXCEPT ![tid.block + 1] = [@ EXCEPT ![tid.offset].e = id]]
    /\ hung' = hung \cup {id}
    /\ UNCHANGED placed

Next == \E id \in Id : Place(id) \/ SetHead(id)

Spec == Init /\ [][Next]_vars
-----------------------------------------------------------------------------
\* An inserted vertex is found: its slot, computed as the readers compute it,
\* exists and holds its record, and once a list head was written it is in that
\* slot too, where delete_vertex and the label functions look for it.
SlotIsFound ==
    \A id \in placed :
        /\ IsNormal(Slot(id)) /\ RecordAt(Slot(id)).v = id
        /\ id \in hung => RecordAt(Slot(id)).e = id

\* No write of one vertex changes the slot of another one.
OthersUntouched ==
    [][\A id \in placed : IsNormal(Slot(id)) =>
         RecordAt(Slot(id))' = RecordAt(Slot(id)) \/ id \in hung' \ hung]_vars
=============================================================================
