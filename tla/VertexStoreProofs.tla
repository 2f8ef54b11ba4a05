--------------------------- MODULE VertexStoreProofs ---------------------------
(***************************************************************************)
(* Theorems about VertexStore, for every number of backends, vertices,     *)
(* annotations and rows, with and without rollback, and whether calls work *)
(* on one vertex at once or not.                                           *)
(***************************************************************************)
EXTENDS VertexStore, SequenceTheorems, TLAPS

(***************************************************************************)
(* What an operation carries from one lock to the next: the record it will *)
(* write back names rows of its vertex and a head written for it, and the  *)
(* version it will stamp is a row.  Without it neither PrevChain nor       *)
(* MapTargets is inductive: the map would be overwritten with anything.    *)
(***************************************************************************)
RecordTargets(r, v) ==
    /\ r.v # NoRow => IsVersionOf(vtab, r.v, v)
    /\ r.a # NoRow => IsVersionOf(atab, r.a, v)
    /\ r.e <= pushed[v]

SavedTargets ==
    \A b \in Backend :
        /\ pc[b] # "idle" => RecordTargets(rec[b], vid[b])
        /\ pc[b] \in {"updateMap", "updateStamp"} => old[b] \in DOMAIN vtab
        /\ pc[b] \in {"annotateMap", "annotateStamp"} =>
             old[b] = NoRow \/ old[b] \in DOMAIN atab
        /\ pc[b] # "idle" => xid[b] # NoXid

IInv == TypeOK /\ PrevChain /\ MapTargets /\ SavedTargets
-----------------------------------------------------------------------------
(* Sequences of rows.                                                       *)

\* The second table has the rows of the first, perhaps stamped, and maybe more.
Extends(new, tab) ==
    \A i \in DOMAIN tab : /\ i \in DOMAIN new
                          /\ new[i].id = tab[i].id
                          /\ new[i].prev = tab[i].prev

\* Appending a row leaves the earlier rows where they are.
LEMMA AppendFacts ==
    ASSUME NEW S, NEW tab \in Seq(S), NEW row \in S
    PROVE  /\ Append(tab, row) \in Seq(S)
           /\ DOMAIN Append(tab, row) = DOMAIN tab \cup {Len(tab) + 1}
           /\ DOMAIN tab = 1 .. Len(tab) /\ Len(tab) \in Nat
           /\ Append(tab, row)[Len(tab) + 1] = row
           /\ \A i \in DOMAIN tab : Append(tab, row)[i] = tab[i]
           /\ Extends(Append(tab, row), tab)
    BY DEF Extends

\* Stamping a row changes nothing but its xmax.
LEMMA StampFacts ==
    ASSUME NEW S, NEW tab \in Seq(S), NEW k \in DOMAIN tab, NEW x,
           [tab[k] EXCEPT !.xmax = x] \in S,
           [tab[k] EXCEPT !.xmax = x].id = tab[k].id,
           [tab[k] EXCEPT !.xmax = x].prev = tab[k].prev
    PROVE  /\ [tab EXCEPT ![k].xmax = x] \in Seq(S)
           /\ DOMAIN [tab EXCEPT ![k].xmax = x] = DOMAIN tab
           /\ Extends([tab EXCEPT ![k].xmax = x], tab)
  <1>1. DOMAIN tab = 1 .. Len(tab) /\ k \in 1 .. Len(tab)
    BY LenProperties
  <1>2. DEFINE new == [tab EXCEPT ![k] = [tab[k] EXCEPT !.xmax = x]]
  <1>3. /\ new \in Seq(S) /\ DOMAIN new = DOMAIN tab
        /\ \A j \in DOMAIN tab : new[j] = IF j = k THEN [tab[k] EXCEPT !.xmax = x] ELSE tab[j]
    BY <1>1, ExceptSeq, LenProperties
  <1>4. QED  BY <1>3 DEF Extends

\* An appended version that names an older one of its vertex keeps the chain.
LEMMA AppendPointsBack ==
    ASSUME NEW S, NEW tab \in Seq(S), NEW row \in S, PointsBack(tab),
           row.prev # NoRow => IsVersionOf(tab, row.prev, row.id)
    PROVE  PointsBack(Append(tab, row))
  <1> DEFINE new == Append(tab, row)
  <1>1. /\ DOMAIN new = DOMAIN tab \cup {Len(tab) + 1}
        /\ DOMAIN tab = 1 .. Len(tab) /\ Len(tab) \in Nat
        /\ new[Len(tab) + 1] = row
        /\ \A i \in DOMAIN tab : new[i] = tab[i]
    BY AppendFacts
  <1> HIDE DEF new
  <1>2. ASSUME NEW i \in DOMAIN new, new[i].prev # NoRow
        PROVE  new[i].prev < i /\ IsVersionOf(new, new[i].prev, new[i].id)
    <2>1. CASE i \in DOMAIN tab
      BY <1>1, <1>2, <2>1 DEF PointsBack, IsVersionOf
    <2>2. CASE i = Len(tab) + 1
      BY <1>1, <1>2, <2>2 DEF IsVersionOf
    <2>3. QED  BY <1>1, <2>1, <2>2
  <1>3. QED  BY <1>2 DEF PointsBack, new

\* So does a stamp.
LEMMA StampPointsBack ==
    ASSUME NEW tab, NEW new, PointsBack(tab), Extends(new, tab), DOMAIN new = DOMAIN tab
    PROVE  PointsBack(new)
    BY DEF PointsBack, IsVersionOf, Extends

\* The targets of a record stay what they are when the tables grow and more
\* list records are written.
LEMMA TargetsKept ==
    ASSUME TypeOK, TypeOK', NEW r \in MapRecord, NEW v \in Vertex, RecordTargets(r, v),
           Extends(vtab', vtab), Extends(atab', atab), pushed'[v] >= pushed[v]
    PROVE  RecordTargets(r, v)'
    BY SMTT(20) DEF RecordTargets, IsVersionOf, Extends, TypeOK, MapRecord

LEMMA ExtendsItself == ASSUME NEW tab PROVE Extends(tab, tab)
    BY DEF Extends
-----------------------------------------------------------------------------
(* The initial states.                                                      *)

LEMMA InitIInv == Init => IInv
  <1> SUFFICES ASSUME Init PROVE IInv
    OBVIOUS
  <1>1. TypeOK
    BY DEF Init, TypeOK, VertexRow, BitsetRow, EmptySlot, NoRow, MapRecord, Steps, NoXid, XidsOf, XactStatus
  <1>2. PrevChain
    BY DEF Init, PrevChain, PointsBack
  <1>3. MapTargets
    BY DEF Init, MapTargets, EmptySlot, NoRow
  <1>4. SavedTargets
    BY DEF Init, SavedTargets
  <1>5. QED  BY <1>1, <1>2, <1>3, <1>4 DEF IInv
-----------------------------------------------------------------------------
(* Transactions.                                                            *)

\* Rows stay well formed when more transaction ids have been handed out.
LEMMA RowsKept ==
    ASSUME TypeOK, XidsOf(xact) \subseteq XidsOf(xact')
    PROVE  vtab \in Seq(VertexRow') /\ atab \in Seq(BitsetRow')
  <1>1. VertexRow \subseteq VertexRow' /\ BitsetRow \subseteq BitsetRow'
    BY DEF VertexRow, BitsetRow
  <1>2. vtab \in Seq(VertexRow) /\ atab \in Seq(BitsetRow)
    BY DEF TypeOK
  <1>3. QED  BY <1>1, <1>2, SeqMonotonic

\* A step that writes neither the stores nor the map nor a saved record, and
\* at most returns to "idle", keeps the three invariants about them.
LEMMA NothingWritten ==
    ASSUME IInv, NEW b \in Backend,
           UNCHANGED <<vtab, atab, pmap, pushed, vid>>,
           \A c \in Backend \ {b} : /\ pc'[c] = pc[c] /\ rec'[c] = rec[c]
                                    /\ old'[c] = old[c] /\ xid'[c] = xid[c],
           pc'[b] = "idle"
    PROVE  PrevChain' /\ MapTargets' /\ SavedTargets'
  <1>1. PrevChain'
    BY DEF IInv, PrevChain
  <1>2. MapTargets'
    BY DEF IInv, MapTargets, IsVersionOf
  <1>3. SavedTargets'
    BY DEF IInv, SavedTargets, RecordTargets, IsVersionOf
  <1>4. QED  BY <1>1, <1>2, <1>3

LEMMA BeginStep == ASSUME IInv, NEW b \in Backend, Begin(b) PROVE IInv'
  <1>1. /\ xact \in Seq(XactStatus) /\ "running" \in XactStatus
        /\ xact' = Append(xact, "running")
    BY DEF IInv, TypeOK, XactStatus, Begin
  <1>2. /\ xact' \in Seq(XactStatus) /\ Len(xact) + 1 \in XidsOf(xact')
        /\ XidsOf(xact) \subseteq XidsOf(xact')
    BY <1>1, AppendFacts DEF XidsOf
  <1>3. pc[b] = "idle" /\ pc'[b] = "idle"
    BY DEF IInv, SavedTargets, Begin
  <1>4. TypeOK'
    <2>1. vtab' \in Seq(VertexRow') /\ atab' \in Seq(BitsetRow')
      BY <1>2, RowsKept DEF IInv, Begin
    <2>2. xid' \in [Backend -> XidsOf(xact')]
      BY <1>2 DEF IInv, TypeOK, Begin
    <2>3. QED  BY <1>2, <2>1, <2>2 DEF IInv, TypeOK, Begin
  <1>5. PrevChain' /\ MapTargets' /\ SavedTargets'
    BY <1>3, NothingWritten DEF Begin, IInv, TypeOK
  <1>6. QED  BY <1>4, <1>5 DEF IInv

LEMMA EndStep ==
    ASSUME IInv, NEW b \in Backend, xid[b] # NoXid, NEW status \in XactStatus, End(b, status)
    PROVE  IInv'
  <1>1. /\ xact \in Seq(XactStatus) /\ xid[b] \in 1 .. Len(xact)
        /\ xact' = [xact EXCEPT ![xid[b]] = status]
    BY LenProperties DEF IInv, TypeOK, End, XidsOf
  <1>2. xact' \in Seq(XactStatus) /\ XidsOf(xact') = XidsOf(xact)
    BY <1>1, ExceptSeq, LenProperties DEF XidsOf
  <1>3. TypeOK'
    <2>1. vtab' \in Seq(VertexRow') /\ atab' \in Seq(BitsetRow')
      BY <1>2, RowsKept DEF IInv, End
    <2>2. xid' \in [Backend -> XidsOf(xact')] /\ NoXid \in XidsOf(xact')
      BY <1>2 DEF IInv, TypeOK, End, XidsOf
    <2>3. /\ rec' \in [Backend -> MapRecord] /\ old' \in [Backend -> Nat]
          /\ pc' \in [Backend -> Steps] /\ touched' \in [Backend -> SUBSET Vertex]
      BY DEF IInv, TypeOK, End, Goto, EmptySlot, MapRecord, NoRow, Steps
    <2>4. QED  BY <1>2, <2>1, <2>2, <2>3 DEF IInv, TypeOK, End
  <1>4. pc'[b] = "idle"
    BY DEF IInv, TypeOK, End, Goto
  <1>5. \A c \in Backend \ {b} : /\ pc'[c] = pc[c] /\ rec'[c] = rec[c]
                                 /\ old'[c] = old[c] /\ xid'[c] = xid[c]
    BY DEF IInv, TypeOK, End, Goto
  <1>6. PrevChain' /\ MapTargets' /\ SavedTargets'
    BY <1>4, <1>5, NothingWritten DEF End
  <1>7. QED  BY <1>3, <1>6 DEF IInv
-----------------------------------------------------------------------------
(* Steps of operations.                                                     *)

\* A step of b leaves what the other backends hold alone.
OnlyBy(b) ==
    \A c \in Backend \ {b} : /\ pc'[c] = pc[c] /\ rec'[c] = rec[c] /\ vid'[c] = vid[c]
                             /\ old'[c] = old[c] /\ xid'[c] = xid[c]

\* Rows and list records are added and stamped, never taken back.
Growth ==
    /\ Extends(vtab', vtab) /\ Extends(atab', atab)
    /\ \A v \in Vertex : pushed'[v] >= pushed[v]

SavedBy(b) ==
    /\ pc[b] # "idle" => RecordTargets(rec[b], vid[b])
    /\ pc[b] \in {"updateMap", "updateStamp"} => old[b] \in DOMAIN vtab
    /\ pc[b] \in {"annotateMap", "annotateStamp"} => old[b] = NoRow \/ old[b] \in DOMAIN atab
    /\ pc[b] # "idle" => xid[b] # NoXid

\* What the other backends have saved survives a step that lets the tables
\* grow; so it is enough to look at the backend that takes the step.
LEMMA OthersKeep ==
    ASSUME IInv, TypeOK', NEW b \in Backend, Growth, OnlyBy(b), SavedBy(b)'
    PROVE  SavedTargets'
  <1>1. ASSUME NEW c \in Backend \ {b} PROVE SavedBy(c)'
    <2>1. SavedBy(c) /\ rec[c] \in MapRecord /\ vid[c] \in Vertex
      BY DEF IInv, SavedTargets, SavedBy, TypeOK
    <2>2. pc[c] # "idle" => RecordTargets(rec[c], vid[c])'
      <3>1. ASSUME NEW r \in MapRecord, NEW v \in Vertex, RecordTargets(r, v)
            PROVE  RecordTargets(r, v)'
        BY <3>1, TargetsKept DEF IInv, Growth
      <3>2. pc[c] # "idle" => /\ rec[c].v # NoRow => IsVersionOf(vtab', rec[c].v, vid[c])
                              /\ rec[c].a # NoRow => IsVersionOf(atab', rec[c].a, vid[c])
                              /\ rec[c].e <= pushed'[vid[c]]
        BY <2>1, <3>1 DEF SavedBy, RecordTargets
      <3>3. QED  BY <3>2 DEF RecordTargets, OnlyBy
    <2>3. DOMAIN vtab \subseteq DOMAIN vtab' /\ DOMAIN atab \subseteq DOMAIN atab'
      BY DEF Growth, Extends
    <2>4. QED  BY <2>1, <2>2, <2>3 DEF SavedBy, OnlyBy
  <1>2. QED  BY <1>1 DEF SavedTargets, SavedBy

\* So does the map, in the slots the step does not write.
LEMMA SlotsKeep ==
    ASSUME IInv, TypeOK', Growth,
           \A v \in Vertex : pmap'[v] = pmap[v] \/ RecordTargets(pmap[v], v)'
    PROVE  MapTargets'
  <1>1. ASSUME NEW v \in Vertex PROVE RecordTargets(pmap[v], v)'
    <2>1. pmap[v] \in MapRecord /\ RecordTargets(pmap[v], v)
      BY DEF IInv, TypeOK, MapTargets, RecordTargets
    <2>2. CASE pmap'[v] = pmap[v]
      BY <2>1, <2>2 DEF IInv, RecordTargets, IsVersionOf, Growth, Extends, TypeOK, MapRecord
    <2>3. QED  BY <2>2
  <1>2. QED  BY <1>1 DEF MapTargets, RecordTargets

\* Together: what is left to show of a step.
LEMMA StepKeeps ==
    ASSUME IInv, TypeOK', PrevChain', NEW b \in Backend, Growth, OnlyBy(b), SavedBy(b)',
           \A v \in Vertex : pmap'[v] = pmap[v] \/ RecordTargets(pmap[v], v)'
    PROVE  IInv'
    BY OthersKeep, SlotsKeep DEF IInv

LEMMA InsertVertexStep ==
    ASSUME IInv, NEW b \in Backend, NEW v \in Vertex, InsertVertex(b, v) PROVE IInv'
  <1> DEFINE row == VertexTuple(b, v, NoRow)
  <1>1. /\ vtab \in Seq(VertexRow) /\ row \in VertexRow /\ row.id = v /\ row.prev = NoRow
        /\ UNCHANGED <<xact, atab, pmap, pushed, xid, old>> /\ vtab' = Append(vtab, row)
        /\ VertexRow' = VertexRow /\ BitsetRow' = BitsetRow
    BY DEF IInv, TypeOK, InsertVertex, VertexTuple, VertexRow, BitsetRow, XidsOf, NoXid, NoRow
  <1>2. /\ vtab' \in Seq(VertexRow) /\ Extends(vtab', vtab) /\ Len(vtab) + 1 \in Nat
        /\ Len(vtab) + 1 \in DOMAIN vtab' /\ vtab'[Len(vtab) + 1] = row
    BY <1>1, AppendFacts
  <1>3. TypeOK'
    BY <1>1, <1>2 DEF IInv, TypeOK, InsertVertex, Touch, Goto, MapRecord, NoRow, Steps
  <1>4. PrevChain'
    BY <1>1, AppendPointsBack DEF IInv, PrevChain
  <1>5. Growth
    BY <1>1, <1>2, ExtendsItself DEF IInv, TypeOK, Growth
  <1>6. OnlyBy(b)
    BY DEF IInv, TypeOK, InsertVertex, Touch, Goto, OnlyBy
  <1>7. SavedBy(b)'
    <2>1. /\ pc'[b] = "insertBits" /\ vid'[b] = v /\ xid'[b] # NoXid
          /\ rec'[b] = [v |-> Len(vtab) + 1, e |-> 0, a |-> NoRow]
      BY <1>1 DEF InsertVertex, Touch, Goto, IInv, TypeOK
    <2>2. 0 <= pushed'[v]
      BY <1>3 DEF TypeOK
    <2>3. QED  BY <1>1, <1>2, <2>1, <2>2 DEF SavedBy, RecordTargets, IsVersionOf
  <1>8. QED  BY <1>1, <1>3, <1>4, <1>5, <1>6, <1>7, StepKeeps

LEMMA InsertBitsStep == ASSUME IInv, NEW b \in Backend, InsertBits(b) PROVE IInv'
  <1>1. /\ UNCHANGED <<xact, vtab, pmap, pushed, xid, touched, vid, old>>
        /\ pc' = [pc EXCEPT ![b] = "placeMap"] /\ pc[b] = "insertBits"
        /\ VertexRow' = VertexRow /\ BitsetRow' = BitsetRow
        /\ RecordTargets(rec[b], vid[b]) /\ xid[b] # NoXid
        /\ rec[b] \in MapRecord /\ vid[b] \in Vertex /\ atab \in Seq(BitsetRow)
    BY DEF IInv, TypeOK, InsertBits, Goto, VertexRow, BitsetRow, SavedTargets
  <1>2. CASE UNCHANGED <<atab, rec>>
    <2>1. TypeOK'
      BY <1>1, <1>2 DEF IInv, TypeOK, Steps
    <2>2. PrevChain' /\ Growth /\ OnlyBy(b)
      BY <1>1, <1>2, ExtendsItself DEF IInv, TypeOK, PrevChain, Growth, OnlyBy
    <2>3. SavedBy(b)'
      BY <1>1, <1>2 DEF SavedBy, RecordTargets, IsVersionOf, IInv, TypeOK
    <2>4. QED  BY <1>1, <2>1, <2>2, <2>3, StepKeeps
  <1>3. ASSUME NEW set \in SUBSET Annotation,
               atab' = Append(atab, BitsetTuple(b, vid[b], NoRow, set)),
               rec' = [rec EXCEPT ![b].a = Len(atab) + 1]
        PROVE  IInv'
    <2> DEFINE row == BitsetTuple(b, vid[b], NoRow, set)
    <2>1. row \in BitsetRow /\ row.id = vid[b] /\ row.prev = NoRow
      BY <1>1 DEF IInv, TypeOK, BitsetTuple, BitsetRow, XidsOf, NoXid, NoRow
    <2>2. /\ atab' \in Seq(BitsetRow) /\ Extends(atab', atab) /\ Len(atab) + 1 \in Nat
          /\ Len(atab) + 1 \in DOMAIN atab' /\ atab'[Len(atab) + 1] = row
      BY <1>1, <1>3, <2>1, AppendFacts
    <2>3. rec' \in [Backend -> MapRecord] /\ rec'[b] = [rec[b] EXCEPT !.a = Len(atab) + 1]
      BY <1>3, <2>2 DEF IInv, TypeOK, MapRecord
    <2>4. TypeOK'
      BY <1>1, <2>2, <2>3 DEF IInv, TypeOK, Steps
    <2>5. PrevChain'
      BY <1>1, <1>3, <2>1, AppendPointsBack DEF IInv, PrevChain
    <2>6. Growth /\ OnlyBy(b)
      BY <1>1, <1>3, <2>2, ExtendsItself DEF IInv, TypeOK, Growth, OnlyBy
    <2>7. SavedBy(b)'
      <3>1. /\ rec'[b].v = rec[b].v /\ rec'[b].e = rec[b].e /\ rec'[b].a = Len(atab) + 1
            /\ pc'[b] = "placeMap"
        BY <1>1, <2>3 DEF MapRecord, IInv, TypeOK
      <3>2. QED  BY <1>1, <2>1, <2>2, <3>1 DEF SavedBy, RecordTargets, IsVersionOf
    <2>8. QED  BY <1>1, <2>4, <2>5, <2>6, <2>7, StepKeeps
  <1>4. QED  BY <1>2, <1>3 DEF InsertBits

\* Writing the saved record into the slot of its vertex is sound because the
\* record was.
LEMMA MapWritten ==
    ASSUME IInv, NEW b \in Backend, pc[b] # "idle",
           pmap' = [pmap EXCEPT ![vid[b]] = rec[b]],
           UNCHANGED <<vtab, atab, pushed>>
    PROVE  /\ pmap' \in [Vertex -> MapRecord]
           /\ \A v \in Vertex : pmap'[v] = pmap[v] \/ RecordTargets(pmap[v], v)'
  <1>1. RecordTargets(rec[b], vid[b]) /\ vid[b] \in Vertex /\ rec[b] \in MapRecord
    BY DEF IInv, SavedTargets, TypeOK
  <1>2. pmap' \in [Vertex -> MapRecord]
    BY <1>1 DEF IInv, TypeOK
  <1>3. ASSUME NEW v \in Vertex, v = vid[b] PROVE RecordTargets(pmap[v], v)'
    BY <1>1, <1>3 DEF IInv, TypeOK, RecordTargets, IsVersionOf
  <1>4. \A v \in Vertex : v # vid[b] => pmap'[v] = pmap[v]
    BY DEF IInv, TypeOK
  <1>5. QED  BY <1>2, <1>3, <1>4

LEMMA PlaceMapStep == ASSUME IInv, NEW b \in Backend, PlaceMap(b) PROVE IInv'
  <1>1. /\ UNCHANGED <<xact, vtab, atab, pushed, xid, touched, vid, rec, old>>
        /\ pc[b] # "idle" /\ pc' = [pc EXCEPT ![b] = "idle"]
        /\ pmap' = [pmap EXCEPT ![vid[b]] = rec[b]]
    BY DEF PlaceMap, Goto
  <1>2. TypeOK'
    BY <1>1, MapWritten DEF IInv, TypeOK, Steps, VertexRow, BitsetRow
  <1>3. PrevChain' /\ Growth /\ OnlyBy(b) /\ SavedBy(b)'
    BY <1>1, ExtendsItself DEF IInv, TypeOK, PrevChain, Growth, OnlyBy, SavedBy
  <1>4. QED  BY <1>1, <1>2, <1>3, MapWritten, StepKeeps

LEMMA ReadMapStep ==
    ASSUME IInv, NEW b \in Backend, NEW v \in Vertex,
           NEW step \in {"updateCheck", "annotateCheck", "deleteStamp"}, ReadMap(b, v, step)
    PROVE  IInv'
  <1>1. /\ UNCHANGED <<xact, vtab, atab, pmap, pushed, xid, old>> /\ xid[b] # NoXid
        /\ rec' = [rec EXCEPT ![b] = pmap[v]] /\ vid' = [vid EXCEPT ![b] = v]
        /\ pc' = [pc EXCEPT ![b] = step] /\ touched' = [touched EXCEPT ![b] = @ \cup {v}]
    BY DEF ReadMap, Touch, Goto
  <1>2. pmap[v] \in MapRecord /\ RecordTargets(pmap[v], v)
    BY DEF IInv, TypeOK, MapTargets, RecordTargets
  <1>3. TypeOK'
    BY <1>1, <1>2 DEF IInv, TypeOK, Steps, VertexRow, BitsetRow
  <1>4. PrevChain' /\ Growth /\ OnlyBy(b)
    BY <1>1, ExtendsItself DEF IInv, TypeOK, PrevChain, Growth, OnlyBy
  <1>5. SavedBy(b)'
    BY <1>1, <1>2 DEF IInv, TypeOK, SavedBy, RecordTargets, IsVersionOf
  <1>6. QED  BY <1>1, <1>3, <1>4, <1>5, StepKeeps

LEMMA OverwriteMapStep == ASSUME IInv, NEW b \in Backend, OverwriteMap(b) PROVE IInv'
  <1>1. /\ UNCHANGED <<xact, vtab, atab, pushed, xid, touched, vid, rec, old>>
        /\ \/ pc[b] = "updateMap" /\ pc' = [pc EXCEPT ![b] = "updateStamp"]
           \/ pc[b] = "annotateMap" /\ pc' = [pc EXCEPT ![b] = "annotateStamp"]
        /\ pmap' = [pmap EXCEPT ![vid[b]] = rec[b]]
    BY DEF OverwriteMap, Goto
  <1>2. TypeOK'
    BY <1>1, MapWritten DEF IInv, TypeOK, Steps, VertexRow, BitsetRow
  <1>3. PrevChain' /\ Growth /\ OnlyBy(b)
    BY <1>1, ExtendsItself DEF IInv, TypeOK, PrevChain, Growth, OnlyBy
  <1>4. SavedBy(b)'
    <2>1. SavedBy(b)
      BY DEF IInv, SavedTargets, SavedBy
    <2>2. QED
      BY <1>1, <2>1 DEF IInv, TypeOK, SavedBy, RecordTargets, IsVersionOf
  <1>5. QED  BY <1>1, <1>2, <1>3, <1>4, MapWritten, StepKeeps

LEMMA AppendVersionStep == ASSUME IInv, NEW b \in Backend, AppendVersion(b) PROVE IInv'
  <1> DEFINE row == VertexTuple(b, vid[b], rec[b].v)
  <1>1. /\ vtab \in Seq(VertexRow) /\ vtab' = Append(vtab, row)
        /\ UNCHANGED <<xact, atab, pmap, pushed, xid, touched, vid>>
        /\ pc[b] = "updateCheck" /\ pc' = [pc EXCEPT ![b] = "updateMap"]
        /\ rec' = [rec EXCEPT ![b].v = Len(vtab) + 1] /\ old' = [old EXCEPT ![b] = rec[b].v]
        /\ VertexRow' = VertexRow /\ BitsetRow' = BitsetRow
        /\ rec[b].v # NoRow /\ rec[b] \in MapRecord /\ vid[b] \in Vertex
    BY DEF IInv, TypeOK, AppendVersion, VertexAdmits, Goto, VertexRow, BitsetRow
  <1>2. RecordTargets(rec[b], vid[b]) /\ IsVersionOf(vtab, rec[b].v, vid[b]) /\ xid[b] # NoXid
    BY <1>1 DEF IInv, SavedTargets, RecordTargets
  <1>3. row \in VertexRow /\ row.id = vid[b] /\ row.prev = rec[b].v
    BY <1>1 DEF IInv, TypeOK, VertexTuple, VertexRow, XidsOf, NoXid, MapRecord
  <1>4. /\ vtab' \in Seq(VertexRow) /\ Extends(vtab', vtab) /\ Len(vtab) + 1 \in Nat
        /\ Len(vtab) + 1 \in DOMAIN vtab' /\ vtab'[Len(vtab) + 1] = row
    BY <1>1, <1>3, AppendFacts
  <1>5. rec' \in [Backend -> MapRecord] /\ rec'[b] = [rec[b] EXCEPT !.v = Len(vtab) + 1]
    BY <1>1, <1>4 DEF IInv, TypeOK, MapRecord
  <1>6. old' \in [Backend -> Nat] /\ old'[b] = rec[b].v
    BY <1>1 DEF IInv, TypeOK, MapRecord
  <1>7. TypeOK'
    BY <1>1, <1>4, <1>5, <1>6 DEF IInv, TypeOK, Steps
  <1>8. PrevChain'
    BY <1>1, <1>2, <1>3, AppendPointsBack DEF IInv, PrevChain
  <1>9. Growth /\ OnlyBy(b)
    BY <1>1, <1>4, ExtendsItself DEF IInv, TypeOK, Growth, OnlyBy
  <1>10. SavedBy(b)'
    <2>1. /\ rec'[b].v = Len(vtab) + 1 /\ rec'[b].e = rec[b].e /\ rec'[b].a = rec[b].a
          /\ pc'[b] = "updateMap"
      BY <1>1, <1>5 DEF MapRecord, IInv, TypeOK
    <2>2. old'[b] \in DOMAIN vtab'
      BY <1>2, <1>4, <1>6 DEF IsVersionOf, Extends
    <2>3. QED
      BY <1>1, <1>2, <1>3, <1>4, <2>1, <2>2 DEF SavedBy, RecordTargets, IsVersionOf
  <1>11. QED  BY <1>1, <1>7, <1>8, <1>9, <1>10, StepKeeps

LEMMA AppendBitsetStep == ASSUME IInv, NEW b \in Backend, AppendBitset(b) PROVE IInv'
  <1>1. PICK set \in SUBSET Annotation :
          atab' = Append(atab, BitsetTuple(b, vid[b], rec[b].a, set))
    <2> DEFINE bits == IF rec[b].a = NoRow THEN {} ELSE atab[rec[b].a].bits
    <2>1. bits \in SUBSET Annotation
      <3>1. CASE rec[b].a = NoRow
        BY <3>1
      <3>2. CASE rec[b].a # NoRow
        <4>1. rec[b].a \in DOMAIN atab
          BY <3>2 DEF IInv, SavedTargets, RecordTargets, IsVersionOf, AppendBitset
        <4>2. atab[rec[b].a] \in BitsetRow
          BY <4>1 DEF IInv, TypeOK
        <4>3. QED  BY <3>2, <4>2 DEF BitsetRow
      <3>3. QED  BY <3>1, <3>2
    <2>2. PICK n \in Annotation : \E set \in {bits \cup {n}, bits \ {n}} :
            atab' = Append(atab, BitsetTuple(b, vid[b], rec[b].a, set))
      BY DEF AppendBitset
    <2>3. {bits \cup {n}, bits \ {n}} \subseteq SUBSET Annotation
      BY <2>1
    <2>4. QED  BY <2>2, <2>3
  <1> DEFINE row == BitsetTuple(b, vid[b], rec[b].a, set)
  <1>2. /\ atab \in Seq(BitsetRow) /\ atab' = Append(atab, row)
        /\ UNCHANGED <<xact, vtab, pmap, pushed, xid, touched, vid>>
        /\ pc[b] = "annotateCheck" /\ pc' = [pc EXCEPT ![b] = "annotateMap"]
        /\ rec' = [rec EXCEPT ![b].a = Len(atab) + 1] /\ old' = [old EXCEPT ![b] = rec[b].a]
        /\ VertexRow' = VertexRow /\ BitsetRow' = BitsetRow
        /\ rec[b] \in MapRecord /\ vid[b] \in Vertex
    BY <1>1 DEF IInv, TypeOK, AppendBitset, Goto, VertexRow, BitsetRow
  <1>3. /\ RecordTargets(rec[b], vid[b]) /\ xid[b] # NoXid
        /\ rec[b].a # NoRow => IsVersionOf(atab, rec[b].a, vid[b])
    BY <1>2 DEF IInv, SavedTargets, RecordTargets
  <1>4. row \in BitsetRow /\ row.id = vid[b] /\ row.prev = rec[b].a
    BY <1>2 DEF IInv, TypeOK, BitsetTuple, BitsetRow, XidsOf, NoXid, MapRecord
  <1>5. /\ atab' \in Seq(BitsetRow) /\ Extends(atab', atab) /\ Len(atab) + 1 \in Nat
        /\ Len(atab) + 1 \in DOMAIN atab' /\ atab'[Len(atab) + 1] = row
    BY <1>2, <1>4, AppendFacts
  <1>6. rec' \in [Backend -> MapRecord] /\ rec'[b] = [rec[b] EXCEPT !.a = Len(atab) + 1]
    BY <1>2, <1>5 DEF IInv, TypeOK, MapRecord
  <1>7. old' \in [Backend -> Nat] /\ old'[b] = rec[b].a
    BY <1>2 DEF IInv, TypeOK, MapRecord
  <1>8. TypeOK'
    BY <1>2, <1>5, <1>6, <1>7 DEF IInv, TypeOK, Steps
  <1>9. PrevChain'
    BY <1>2, <1>3, <1>4, AppendPointsBack DEF IInv, PrevChain
  <1>10. Growth /\ OnlyBy(b)
    BY <1>2, <1>5, ExtendsItself DEF IInv, TypeOK, Growth, OnlyBy
  <1>11. SavedBy(b)'
    <2>1. /\ rec'[b].a = Len(atab) + 1 /\ rec'[b].e = rec[b].e /\ rec'[b].v = rec[b].v
          /\ pc'[b] = "annotateMap"
      BY <1>2, <1>6 DEF MapRecord, IInv, TypeOK
    <2>2. old'[b] = NoRow \/ old'[b] \in DOMAIN atab'
      BY <1>3, <1>5, <1>7 DEF IsVersionOf, Extends
    <2>3. QED
      BY <1>2, <1>3, <1>4, <1>5, <2>1, <2>2 DEF SavedBy, RecordTargets, IsVersionOf
  <1>12. QED  BY <1>2, <1>8, <1>9, <1>10, <1>11, StepKeeps
-----------------------------------------------------------------------------
(* Stamps.                                                                  *)

\* A step that only stamps a row of one of the stores and ends the operation.
LEMMA StampStep ==
    ASSUME IInv, NEW b \in Backend, xid[b] # NoXid,
           UNCHANGED <<xact, pmap, pushed, xid, touched, vid, rec, old>>,
           pc' = [pc EXCEPT ![b] = "idle"],
           \/ \E k \in DOMAIN vtab : vtab' = [vtab EXCEPT ![k].xmax = xid[b]]
           \/ vtab' = vtab,
           \/ \E k \in DOMAIN atab : atab' = [atab EXCEPT ![k].xmax = xid[b]]
           \/ atab' = atab
    PROVE  IInv'
  <1>1. /\ vtab \in Seq(VertexRow) /\ atab \in Seq(BitsetRow) /\ xid[b] \in XidsOf(xact)
        /\ VertexRow' = VertexRow /\ BitsetRow' = BitsetRow
    BY DEF IInv, TypeOK, VertexRow, BitsetRow
  <1>2. vtab' \in Seq(VertexRow) /\ DOMAIN vtab' = DOMAIN vtab /\ Extends(vtab', vtab)
    <2>1. ASSUME NEW k \in DOMAIN vtab, vtab' = [vtab EXCEPT ![k].xmax = xid[b]]
          PROVE  vtab' \in Seq(VertexRow) /\ DOMAIN vtab' = DOMAIN vtab /\ Extends(vtab', vtab)
      <3>1. vtab[k] \in VertexRow
        BY <1>1
      <3>2. /\ [vtab[k] EXCEPT !.xmax = xid[b]] \in VertexRow
            /\ [vtab[k] EXCEPT !.xmax = xid[b]].id = vtab[k].id
            /\ [vtab[k] EXCEPT !.xmax = xid[b]].prev = vtab[k].prev
        BY <1>1, <3>1 DEF VertexRow
      <3>3. QED  BY <1>1, <2>1, <3>2, StampFacts
    <2>2. QED  BY <1>1, <2>1, ExtendsItself
  <1>3. atab' \in Seq(BitsetRow) /\ DOMAIN atab' = DOMAIN atab /\ Extends(atab', atab)
    <2>1. ASSUME NEW k \in DOMAIN atab, atab' = [atab EXCEPT ![k].xmax = xid[b]]
          PROVE  atab' \in Seq(BitsetRow) /\ DOMAIN atab' = DOMAIN atab /\ Extends(atab', atab)
      <3>1. atab[k] \in BitsetRow
        BY <1>1
      <3>2. /\ [atab[k] EXCEPT !.xmax = xid[b]] \in BitsetRow
            /\ [atab[k] EXCEPT !.xmax = xid[b]].id = atab[k].id
            /\ [atab[k] EXCEPT !.xmax = xid[b]].prev = atab[k].prev
        BY <1>1, <3>1 DEF BitsetRow
      <3>3. QED  BY <1>1, <2>1, <3>2, StampFacts
    <2>2. QED  BY <1>1, <2>1, ExtendsItself
  <1>4. TypeOK'
    BY <1>1, <1>2, <1>3 DEF IInv, TypeOK, Steps
  <1>5. PrevChain'
    BY <1>2, <1>3, StampPointsBack DEF IInv, PrevChain
  <1>6. Growth /\ OnlyBy(b) /\ SavedBy(b)'
    BY <1>2, <1>3 DEF IInv, TypeOK, Growth, OnlyBy, SavedBy
  <1>7. QED  BY <1>4, <1>5, <1>6, StepKeeps

LEMMA StampVersionStep == ASSUME IInv, NEW b \in Backend, StampVersion(b) PROVE IInv'
  <1>1. old[b] \in DOMAIN vtab /\ xid[b] # NoXid
    BY DEF IInv, SavedTargets, StampVersion
  <1>2. QED  BY <1>1, StampStep DEF StampVersion, Goto

LEMMA StampBitsetStep == ASSUME IInv, NEW b \in Backend, StampBitset(b) PROVE IInv'
  <1>1. (old[b] = NoRow \/ old[b] \in DOMAIN atab) /\ xid[b] # NoXid
    BY DEF IInv, SavedTargets, StampBitset
  <1>2. QED  BY <1>1, StampStep DEF StampBitset, Goto

LEMMA StampDeletedStep == ASSUME IInv, NEW b \in Backend, StampDeleted(b) PROVE IInv'
  <1>1. rec[b].v \in DOMAIN vtab /\ xid[b] # NoXid
    BY DEF IInv, SavedTargets, StampDeleted, VertexAdmits, RecordTargets, IsVersionOf
  <1>2. QED  BY <1>1, StampStep DEF StampDeleted, Goto

LEMMA PushEdgeStep ==
    ASSUME IInv, NEW b \in Backend, NEW v \in Vertex, PushEdge(b, v) PROVE IInv'
  <1>1. /\ UNCHANGED <<xact, vtab, atab, xid, pc, rec, old>> /\ pc[b] = "idle"
        /\ vid' = [vid EXCEPT ![b] = v] /\ touched' = [touched EXCEPT ![b] = @ \cup {v}]
        /\ pushed' = [pushed EXCEPT ![v] = @ + 1]
        /\ pmap' = [pmap EXCEPT ![v].e = pushed[v] + 1]
    BY DEF PushEdge, Touch
  <1>2. /\ pmap[v] \in MapRecord /\ RecordTargets(pmap[v], v) /\ pushed[v] \in Nat
        /\ pmap'[v] = [pmap[v] EXCEPT !.e = pushed[v] + 1] /\ pushed'[v] = pushed[v] + 1
    BY <1>1 DEF IInv, TypeOK, MapTargets, RecordTargets
  <1>3. /\ pmap'[v] \in MapRecord /\ pmap'[v].v = pmap[v].v /\ pmap'[v].a = pmap[v].a
        /\ pmap'[v].e = pushed[v] + 1
    BY <1>2 DEF MapRecord
  <1>4. TypeOK'
    BY <1>1, <1>2, <1>3 DEF IInv, TypeOK, VertexRow, BitsetRow
  <1>5. PrevChain' /\ Growth /\ OnlyBy(b) /\ SavedBy(b)'
    BY <1>1, ExtendsItself DEF IInv, TypeOK, PrevChain, Growth, OnlyBy, SavedBy
  <1>6. RecordTargets(pmap[v], v)'
    BY <1>1, <1>2, <1>3 DEF RecordTargets, IsVersionOf
  <1>7. \A w \in Vertex : w # v => pmap'[w] = pmap[w]
    BY <1>1 DEF IInv, TypeOK
  <1>8. QED  BY <1>4, <1>5, <1>6, <1>7, StepKeeps
-----------------------------------------------------------------------------
(* The theorems.                                                            *)

LEMMA NextStep == IInv /\ [Next]_vars => IInv'
  <1> SUFFICES ASSUME IInv, [Next]_vars PROVE IInv'
    OBVIOUS
  <1>1. CASE UNCHANGED vars
    BY <1>1 DEF vars, IInv, TypeOK, PrevChain, MapTargets, SavedTargets, RecordTargets,
                IsVersionOf, VertexRow, BitsetRow
  <1>2. ASSUME NEW b \in Backend, Step(b) PROVE IInv'
    <2>1. CASE Begin(b)
      BY <2>1, BeginStep
    <2>2. CASE Commit(b) \/ Abort(b) \/ Reject(b)
      <3>1. xid[b] # NoXid
        BY <2>2 DEF Commit, Abort, Reject, IInv, SavedTargets
      <3>2. {"committed", "aborted"} \subseteq XactStatus
        BY DEF XactStatus
      <3>3. End(b, "committed") \/ End(b, "aborted")
        BY <2>2 DEF Commit, Abort, Reject
      <3>4. QED  BY <3>1, <3>2, <3>3, EndStep
    <2>3. ASSUME NEW v \in Vertex,
                 \/ InsertVertex(b, v) \/ UpdateVertex(b, v) \/ AnnotateVertex(b, v)
                 \/ DeleteVertex(b, v) \/ PushEdge(b, v)
          PROVE  IInv'
      BY <2>3, InsertVertexStep, ReadMapStep, PushEdgeStep
         DEF UpdateVertex, AnnotateVertex, DeleteVertex
    <2>4. CASE InsertBits(b) \/ PlaceMap(b) \/ OverwriteMap(b)
      BY <2>4, InsertBitsStep, PlaceMapStep, OverwriteMapStep
    <2>5. CASE AppendVersion(b) \/ AppendBitset(b)
      BY <2>5, AppendVersionStep, AppendBitsetStep
    <2>6. CASE StampVersion(b) \/ StampBitset(b) \/ StampDeleted(b)
      BY <2>6, StampVersionStep, StampBitsetStep, StampDeletedStep
    <2>7. QED  BY <1>2, <2>1, <2>2, <2>3, <2>4, <2>5, <2>6 DEF Step
  <1>3. QED  BY <1>1, <1>2 DEF Next

LEMMA IInvHolds == Spec => []IInv
    BY InitIInv, NextStep, PTL DEF Spec

\* Every transaction id a row or a session holds was handed out.
THEOREM TypeCorrect == Spec => []TypeOK
    BY IInvHolds, PTL DEF IInv

\* np_internal_insert_vertex, update_vertex and the annotation functions only
\* ever chain a version to an older one of its own vertex.
THEOREM PrevChainHolds == Spec => []PrevChain
    BY IInvHolds, PTL DEF IInv

\* However the functions interleave and whichever transactions roll back, a
\* phys_map slot never names another vertex's row or a head not written for it.
THEOREM MapTargetsHold == Spec => []MapTargets
    BY IInvHolds, PTL DEF IInv
-----------------------------------------------------------------------------
(***************************************************************************)
(* Stamps, if calls take turns on a vertex.  update_vertex checks the old  *)
(* version, lets the lock go and stamps it two locks later.  What the      *)
(* check found must still hold then; it does if no other call is at work   *)
(* on the vertex in between, whatever transactions are open on it.         *)
(***************************************************************************)

\* Open transactions are running and are different ones.
OpenXactsRun ==
    \A b \in Backend : xid[b] # NoXid =>
        /\ xact[xid[b]] = "running"
        /\ \A c \in Backend \ {b} : xid[c] # xid[b]

\* The calls under way are about different vertices.
VerticesApart ==
    /\ \A b \in Backend : pc[b] # "idle" => vid[b] \in touched[b]
    /\ \A b \in Backend, c \in Backend :
         b # c /\ pc[b] # "idle" /\ pc[c] # "idle" => vid[b] # vid[c]

\* Nobody's stamp counts on row k of tab, now or later.
Unstamped(tab, k) == tab[k].xmax = NoXid \/ DidAbort(xact, tab[k].xmax)

\* b or a committed transaction wrote it.
Written(b, tab, k) == tab[k].xmin = xid[b] \/ DidCommit(xact, tab[k].xmin)

\* A stamp is by the writer of the row or came after the writer's commit.
StampsFollow(log, tab) ==
    \A k \in DOMAIN tab : tab[k].xmax # NoXid =>
        tab[k].xmax = tab[k].xmin \/ DidCommit(log, tab[k].xmin)

\* The version about to be stamped is one of the vertex at hand and is as the
\* check found it.
OldIsFree(b) ==
    /\ pc[b] \in {"updateMap", "updateStamp"} =>
         IsVersionOf(vtab, old[b], vid[b]) /\ Unstamped(vtab, old[b]) /\ Written(b, vtab, old[b])
    /\ pc[b] \in {"annotateMap", "annotateStamp"} /\ old[b] # NoRow =>
         IsVersionOf(atab, old[b], vid[b]) /\ Unstamped(atab, old[b]) /\ Written(b, atab, old[b])

ApartInv ==
    /\ IInv /\ OpenXactsRun /\ VerticesApart
    /\ StampsFollow(xact, vtab) /\ StampsFollow(xact, atab)
    /\ \A b \in Backend : OldIsFree(b)

LEMMA InitApart == Init => ApartInv
  <1> SUFFICES ASSUME Init PROVE ApartInv
    OBVIOUS
  <1>1. /\ OpenXactsRun /\ VerticesApart /\ \A b \in Backend : OldIsFree(b)
        /\ StampsFollow(xact, vtab) /\ StampsFollow(xact, atab)
    BY DEF Init, OpenXactsRun, VerticesApart, OldIsFree, StampsFollow
  <1>2. QED  BY <1>1, InitIInv DEF ApartInv

\* A check that lets b replace a row finds it free.
LEMMA ReplaceableIsFree ==
    ASSUME TypeOK, OpenXactsRun, NEW b \in Backend, xid[b] # NoXid,
           NEW tab, StampsFollow(xact, tab), NEW k \in DOMAIN tab, tab[k].xmax \in XidsOf(xact),
           MayReplace(xact, xid[b], tab[k])
    PROVE  Unstamped(tab, k) /\ Written(b, tab, k)
  <1> DEFINE x == tab[k].xmax
  <1>1. ~IsOwn(xid[b], x)
    BY DEF MayReplace, TupleIsLive
  <1>2. ~InProgress(xact, x)
    BY <1>1 DEF MayReplace, TupleXmaxOther
  <1>3. ~DidCommit(xact, x)
    <2>1. CASE IsOwn(xid[b], tab[k].xmin)
      <3>1. ~DidCommit(xact, tab[k].xmin)
        BY <2>1 DEF OpenXactsRun, IsOwn, DidCommit
      <3>2. x = NoXid \/ x = tab[k].xmin
        BY <3>1 DEF StampsFollow
      <3>3. QED  BY <1>1, <2>1, <3>2 DEF IsOwn, DidCommit
    <2>2. QED  BY <2>1 DEF MayReplace, TupleIsLive
  <1>4. x # NoXid => xact[x] \in {"running", "committed", "aborted"}
    BY DEF TypeOK, XidsOf, XactStatus
  <1>5. Written(b, tab, k)
    BY DEF MayReplace, TupleIsLive, IsOwn, Written
  <1> HIDE DEF x
  <1>6. x = NoXid \/ DidAbort(xact, x)
    BY <1>2, <1>3, <1>4 DEF InProgress, DidCommit, DidAbort
  <1>7. QED  BY <1>5, <1>6 DEF Unstamped, x

\* A transaction that has ended stays as it ended.
EndedStay ==
    \A x \in XidsOf(xact) : /\ DidAbort(xact, x) => DidAbort(xact', x)
                            /\ DidCommit(xact, x) => DidCommit(xact', x)

\* What a step of b leaves of the rows: all of them while b is between
\* operations, those of other vertices while it is inside one.
RowsApartKept(b) ==
    /\ \A k \in DOMAIN vtab : (pc[b] = "idle" \/ vtab[k].id # vid[b]) =>
         k \in DOMAIN vtab' /\ vtab'[k] = vtab[k]
    /\ \A k \in DOMAIN atab : (pc[b] = "idle" \/ atab[k].id # vid[b]) =>
         k \in DOMAIN atab' /\ atab'[k] = atab[k]

\* It is again enough to look at the backend that takes the step.
LEMMA OldKept ==
    ASSUME ApartInv, NEW b \in Backend, OnlyBy(b), RowsApartKept(b), EndedStay,
           NEW c \in Backend \ {b}
    PROVE  OldIsFree(c)'
  <1>1. OldIsFree(c)
    BY DEF ApartInv
  <1>2. pc[c] # "idle" /\ pc[b] # "idle" => vid[c] # vid[b]
    BY DEF ApartInv, VerticesApart
  <1>3. pc'[c] = pc[c] /\ old'[c] = old[c] /\ vid'[c] = vid[c] /\ xid'[c] = xid[c]
    BY DEF OnlyBy
  <1>4. ASSUME pc[c] \in {"updateMap", "updateStamp"}
        PROVE  (IsVersionOf(vtab, old[c], vid[c]) /\ Unstamped(vtab, old[c])
                 /\ Written(c, vtab, old[c]))'
    <2>1. /\ old[c] \in DOMAIN vtab /\ vtab[old[c]].id = vid[c]
          /\ Unstamped(vtab, old[c]) /\ Written(c, vtab, old[c])
      BY <1>1, <1>4 DEF OldIsFree, IsVersionOf
    <2>2. old[c] \in DOMAIN vtab' /\ vtab'[old[c]] = vtab[old[c]]
      BY <1>2, <1>4, <2>1 DEF RowsApartKept
    <2>3. vtab[old[c]] \in VertexRow
      BY <2>1 DEF ApartInv, IInv, TypeOK
    <2>4. vtab[old[c]].xmax \in XidsOf(xact) /\ vtab[old[c]].xmin \in XidsOf(xact)
      BY <2>3 DEF VertexRow
    <2>5. QED  BY <1>3, <2>1, <2>2, <2>4 DEF Unstamped, Written, IsVersionOf, EndedStay
  <1>5. ASSUME pc[c] \in {"annotateMap", "annotateStamp"}, old[c] # NoRow
        PROVE  (IsVersionOf(atab, old[c], vid[c]) /\ Unstamped(atab, old[c])
                 /\ Written(c, atab, old[c]))'
    <2>1. /\ old[c] \in DOMAIN atab /\ atab[old[c]].id = vid[c]
          /\ Unstamped(atab, old[c]) /\ Written(c, atab, old[c])
      BY <1>1, <1>5 DEF OldIsFree, IsVersionOf
    <2>2. old[c] \in DOMAIN atab' /\ atab'[old[c]] = atab[old[c]]
      BY <1>2, <1>5, <2>1 DEF RowsApartKept
    <2>3. atab[old[c]] \in BitsetRow
      BY <2>1 DEF ApartInv, IInv, TypeOK
    <2>4. atab[old[c]].xmax \in XidsOf(xact) /\ atab[old[c]].xmin \in XidsOf(xact)
      BY <2>3 DEF BitsetRow
    <2>5. QED  BY <1>3, <2>1, <2>2, <2>4 DEF Unstamped, Written, IsVersionOf, EndedStay
  <1>6. QED  BY <1>3, <1>4, <1>5 DEF OldIsFree

\* What is left to show of a step.
LEMMA ApartStepKeeps ==
    ASSUME ApartInv, IInv', NEW b \in Backend, OnlyBy(b), RowsApartKept(b), EndedStay,
           OpenXactsRun', VerticesApart', OldIsFree(b)',
           StampsFollow(xact', vtab'), StampsFollow(xact', atab')
    PROVE  ApartInv'
    BY OldKept DEF ApartInv

\* The rows keep their stamps in order when nothing but a transaction changes.
LEMMA StampsFollowEnded ==
    ASSUME ApartInv, EndedStay, UNCHANGED <<vtab, atab>>
    PROVE  StampsFollow(xact', vtab') /\ StampsFollow(xact', atab')
  <1>1. \A k \in DOMAIN vtab : vtab[k].xmin \in XidsOf(xact)
    <2>1. \A k \in DOMAIN vtab : vtab[k] \in VertexRow
      BY DEF ApartInv, IInv, TypeOK
    <2>2. QED  BY <2>1 DEF VertexRow
  <1>2. \A k \in DOMAIN atab : atab[k].xmin \in XidsOf(xact)
    <2>1. \A k \in DOMAIN atab : atab[k] \in BitsetRow
      BY DEF ApartInv, IInv, TypeOK
    <2>2. QED  BY <2>1 DEF BitsetRow
  <1>3. StampsFollow(xact, vtab) /\ StampsFollow(xact, atab)
    BY DEF ApartInv
  <1>4. QED  BY <1>1, <1>2, <1>3 DEF StampsFollow, EndedStay

LEMMA ApartBegin == ASSUME ApartInv, IInv', NEW b \in Backend, Begin(b) PROVE ApartInv'
  <1>1. /\ UNCHANGED <<vtab, atab, pmap, pushed, touched, pc, vid, rec, old>>
        /\ xid[b] = NoXid /\ xid' = [xid EXCEPT ![b] = Len(xact) + 1]
        /\ xact' = Append(xact, "running") /\ xact \in Seq(XactStatus)
        /\ pc[b] = "idle" /\ "running" \in XactStatus
        /\ \A c \in Backend : xid[c] \in XidsOf(xact)
    BY DEF Begin, ApartInv, IInv, TypeOK, SavedTargets, XactStatus
  <1>2. /\ Len(xact) \in Nat /\ xact'[Len(xact) + 1] = "running" /\ DOMAIN xact = 1 .. Len(xact)
        /\ \A x \in DOMAIN xact : xact'[x] = xact[x]
    BY <1>1, AppendFacts
  <1>3. EndedStay
    BY <1>2 DEF EndedStay, XidsOf, DidAbort, DidCommit
  <1>4. OnlyBy(b) /\ RowsApartKept(b)
    BY <1>1 DEF OnlyBy, RowsApartKept, ApartInv, IInv, TypeOK
  <1>5. OpenXactsRun'
    <2>1. xid'[b] = Len(xact) + 1 /\ \A c \in Backend \ {b} : xid'[c] = xid[c]
      BY <1>1 DEF ApartInv, IInv, TypeOK
    <2>2. \A c \in Backend : xid[c] # NoXid => xid[c] \in DOMAIN xact
      BY <1>1 DEF XidsOf
    <2>3. QED  BY <1>2, <2>1, <2>2 DEF OpenXactsRun, ApartInv, NoXid
  <1>6. VerticesApart' /\ OldIsFree(b)'
    BY <1>1 DEF ApartInv, VerticesApart, OldIsFree
  <1>7. QED  BY <1>1, <1>3, <1>4, <1>5, <1>6, StampsFollowEnded, ApartStepKeeps

LEMMA ApartEnd ==
    ASSUME ApartInv, IInv', NEW b \in Backend, xid[b] # NoXid, NEW status, End(b, status)
    PROVE  ApartInv'
  <1>1. /\ UNCHANGED <<vtab, atab, pmap, pushed, vid>>
        /\ xid' = [xid EXCEPT ![b] = NoXid] /\ xact' = [xact EXCEPT ![xid[b]] = status]
        /\ touched' = [touched EXCEPT ![b] = {}] /\ pc' = [pc EXCEPT ![b] = "idle"]
        /\ xact[xid[b]] = "running"
        /\ \A c \in Backend : xid[c] \in XidsOf(xact)
    BY DEF End, Goto, ApartInv, IInv, TypeOK, OpenXactsRun
  <1>2. /\ xid'[b] = NoXid /\ touched'[b] = {} /\ pc'[b] = "idle"
        /\ \A c \in Backend \ {b} : xid'[c] = xid[c] /\ touched'[c] = touched[c] /\ pc'[c] = pc[c]
    BY <1>1 DEF ApartInv, IInv, TypeOK
  <1>3. \A x \in DOMAIN xact : x # xid[b] => xact'[x] = xact[x]
    BY <1>1
  <1>4. EndedStay
    BY <1>1, <1>3 DEF EndedStay, XidsOf, DidAbort, DidCommit
  <1>5. OnlyBy(b) /\ RowsApartKept(b)
    BY <1>1 DEF End, OnlyBy, RowsApartKept, ApartInv, IInv, TypeOK
  <1>6. OpenXactsRun'
    <2>1. ASSUME NEW c \in Backend, c # b, xid[c] # NoXid
          PROVE  xact'[xid[c]] = "running" /\ \A d \in Backend \ {c} : xid'[d] # xid[c]
      <3>1. xid[c] \in DOMAIN xact /\ xact[xid[c]] = "running" /\ xid[c] # xid[b]
        BY <1>1, <2>1 DEF XidsOf, ApartInv, OpenXactsRun
      <3>2. \A d \in Backend \ {c} : xid'[d] # xid[c]
        BY <1>2, <2>1 DEF ApartInv, OpenXactsRun
      <3>3. QED  BY <1>3, <3>1, <3>2
    <2>2. QED  BY <1>2, <2>1 DEF OpenXactsRun
  <1>7. VerticesApart' /\ OldIsFree(b)'
    BY <1>1, <1>2 DEF ApartInv, VerticesApart, OldIsFree
  <1>8. QED  BY <1>1, <1>4, <1>5, <1>6, <1>7, StampsFollowEnded, ApartStepKeeps

\* Nothing about transactions changes in the steps of an operation.
LEMMA SameXacts ==
    ASSUME ApartInv, UNCHANGED <<xact, xid>>
    PROVE  EndedStay /\ OpenXactsRun'
    BY DEF ApartInv, EndedStay, OpenXactsRun

\* A backend turns to a vertex that no other call is at work on.
LEMMA ApartTouch ==
    ASSUME ApartInv, CallsApart, NEW b \in Backend, NEW v \in Vertex, Touch(b, v),
           \A c \in Backend \ {b} : pc'[c] = pc[c]
    PROVE  VerticesApart'
  <1>1. /\ touched' = [touched EXCEPT ![b] = @ \cup {v}] /\ vid' = [vid EXCEPT ![b] = v]
        /\ \A c \in Backend \ {b} : pc[c] = "idle" \/ vid[c] # v
    BY DEF Touch
  <1>2. /\ touched'[b] = touched[b] \cup {v} /\ vid'[b] = v
        /\ \A c \in Backend \ {b} : touched'[c] = touched[c] /\ vid'[c] = vid[c]
    BY <1>1 DEF ApartInv, IInv, TypeOK
  <1>3. QED  BY <1>1, <1>2 DEF ApartInv, VerticesApart

LEMMA ApartStart ==
    ASSUME ApartInv, IInv', CallsApart, NEW b \in Backend, NEW v \in Vertex,
           \/ InsertVertex(b, v) \/ PushEdge(b, v)
           \/ \E step \in {"updateCheck", "annotateCheck", "deleteStamp"} : ReadMap(b, v, step)
    PROVE  ApartInv'
  <1>1. /\ UNCHANGED <<xact, xid, old>> /\ Touch(b, v) /\ pc[b] = "idle" /\ atab' = atab
        /\ vid' = [vid EXCEPT ![b] = v]
        /\ \/ vtab' = vtab
           \/ vtab' = Append(vtab, VertexTuple(b, v, NoRow))
        /\ pc'[b] \notin {"updateMap", "updateStamp", "annotateMap", "annotateStamp"}
        /\ OnlyBy(b)
    BY DEF InsertVertex, PushEdge, ReadMap, Touch, Goto, OnlyBy, ApartInv, IInv, TypeOK
  <1>2. vtab \in Seq(VertexRow) /\ VertexTuple(b, v, NoRow) \in VertexRow
    BY DEF ApartInv, IInv, TypeOK, VertexTuple, VertexRow, XidsOf, NoXid, NoRow
  <1>3. RowsApartKept(b)
    BY <1>1, <1>2, AppendFacts DEF RowsApartKept
  <1>4. StampsFollow(xact', vtab') /\ StampsFollow(xact', atab')
    <2>1. VertexTuple(b, v, NoRow).xmax = NoXid
      BY DEF VertexTuple
    <2>2. StampsFollow(xact, vtab) /\ StampsFollow(xact, atab)
      BY DEF ApartInv
    <2>3. CASE vtab' = Append(vtab, VertexTuple(b, v, NoRow))
      <3>1. \A k \in DOMAIN vtab' :
              vtab'[k].xmax = NoXid \/ (k \in DOMAIN vtab /\ vtab'[k] = vtab[k])
        BY <1>2, <2>1, <2>3, AppendFacts
      <3>2. QED  BY <1>1, <2>2, <3>1 DEF StampsFollow
    <2>4. QED  BY <1>1, <2>2, <2>3
  <1>5. VerticesApart'
    BY <1>1, ApartTouch DEF OnlyBy
  <1>6. OldIsFree(b)'
    BY <1>1 DEF OldIsFree
  <1>7. QED  BY <1>1, <1>3, <1>4, <1>5, <1>6, SameXacts, ApartStepKeeps

\* Inside an operation a backend stays with its vertex.
LEMMA ApartInside ==
    ASSUME ApartInv, NEW b \in Backend, pc[b] # "idle", UNCHANGED <<touched, vid>>, OnlyBy(b)
    PROVE  VerticesApart'
    BY DEF ApartInv, VerticesApart, OnlyBy

LEMMA ApartBits == ASSUME ApartInv, IInv', NEW b \in Backend, InsertBits(b) PROVE ApartInv'
  <1>1. /\ UNCHANGED <<xact, vtab, xid, touched, vid, old>> /\ pc[b] # "idle"
        /\ pc'[b] = "placeMap" /\ OnlyBy(b)
    BY DEF InsertBits, Goto, OnlyBy, ApartInv, IInv, TypeOK
  <1>2. \A k \in DOMAIN atab' :
          atab'[k].xmax = NoXid \/ (k \in DOMAIN atab /\ atab'[k] = atab[k])
    <2>1. ASSUME NEW set \in SUBSET Annotation,
                 atab' = Append(atab, BitsetTuple(b, vid[b], NoRow, set))
          PROVE  \A k \in DOMAIN atab' :
                   atab'[k].xmax = NoXid \/ (k \in DOMAIN atab /\ atab'[k] = atab[k])
      <3>1. /\ BitsetTuple(b, vid[b], NoRow, set) \in BitsetRow
            /\ BitsetTuple(b, vid[b], NoRow, set).xmax = NoXid /\ atab \in Seq(BitsetRow)
        BY DEF ApartInv, IInv, TypeOK, BitsetTuple, BitsetRow, XidsOf, NoXid, NoRow
      <3>2. QED  BY <2>1, <3>1, AppendFacts
    <2>2. QED  BY <2>1 DEF InsertBits
  <1>3. \A k \in DOMAIN atab : k \in DOMAIN atab' /\ atab'[k] = atab[k]
    <2>1. ASSUME NEW set \in SUBSET Annotation,
                 atab' = Append(atab, BitsetTuple(b, vid[b], NoRow, set))
          PROVE  \A k \in DOMAIN atab : k \in DOMAIN atab' /\ atab'[k] = atab[k]
      <3>1. BitsetTuple(b, vid[b], NoRow, set) \in BitsetRow /\ atab \in Seq(BitsetRow)
        BY DEF ApartInv, IInv, TypeOK, BitsetTuple, BitsetRow, XidsOf, NoXid, NoRow
      <3>2. QED  BY <2>1, <3>1, AppendFacts
    <2>2. QED  BY <2>1 DEF InsertBits
  <1>4. StampsFollow(xact', vtab') /\ StampsFollow(xact', atab')
    BY <1>1, <1>2 DEF StampsFollow, ApartInv
  <1>5. RowsApartKept(b) /\ OldIsFree(b)'
    BY <1>1, <1>3 DEF RowsApartKept, OldIsFree
  <1>6. QED  BY <1>1, <1>4, <1>5, ApartInside, SameXacts, ApartStepKeeps

LEMMA ApartMap ==
    ASSUME ApartInv, IInv', NEW b \in Backend, PlaceMap(b) \/ OverwriteMap(b)
    PROVE  ApartInv'
  <1>1. /\ UNCHANGED <<xact, vtab, atab, xid, touched, vid, old>> /\ pc[b] # "idle"
        /\ OnlyBy(b) /\ RowsApartKept(b)
        /\ pc'[b] = "updateStamp" => pc[b] = "updateMap"
        /\ pc'[b] = "annotateStamp" => pc[b] = "annotateMap"
        /\ pc'[b] \notin {"updateMap", "annotateMap"}
    BY DEF PlaceMap, OverwriteMap, Goto, OnlyBy, RowsApartKept, ApartInv, IInv, TypeOK
  <1>2. OldIsFree(b)
    BY DEF ApartInv
  <1>3. OldIsFree(b)'
    BY <1>1, <1>2 DEF OldIsFree, IsVersionOf, Unstamped, Written
  <1>4. StampsFollow(xact', vtab') /\ StampsFollow(xact', atab')
    BY <1>1 DEF ApartInv
  <1>5. QED  BY <1>1, <1>3, <1>4, ApartInside, SameXacts, ApartStepKeeps

LEMMA ApartAppendVersion ==
    ASSUME ApartInv, IInv', NEW b \in Backend, AppendVersion(b) PROVE ApartInv'
  <1> DEFINE row == VertexTuple(b, vid[b], rec[b].v)
  <1>1. /\ UNCHANGED <<xact, atab, xid, touched, vid>> /\ pc[b] # "idle"
        /\ pc'[b] = "updateMap" /\ OnlyBy(b) /\ vtab' = Append(vtab, row)
        /\ old'[b] = rec[b].v
    BY DEF AppendVersion, Goto, OnlyBy, ApartInv, IInv, TypeOK
  <1>2. /\ vtab \in Seq(VertexRow) /\ row \in VertexRow /\ row.xmax = NoXid
        /\ rec[b].v \in DOMAIN vtab /\ IsVersionOf(vtab, rec[b].v, vid[b])
        /\ MayReplace(xact, xid[b], vtab[rec[b].v]) /\ xid[b] # NoXid
    <2>1. /\ vid[b] \in Vertex /\ rec[b] \in MapRecord /\ xid[b] \in XidsOf(xact)
          /\ vtab \in Seq(VertexRow)
      BY DEF ApartInv, IInv, TypeOK
    <2>2. row \in VertexRow /\ row.xmax = NoXid
      BY <2>1 DEF VertexTuple, VertexRow, MapRecord, XidsOf, NoXid
    <2>3. IsVersionOf(vtab, rec[b].v, vid[b]) /\ xid[b] # NoXid
      BY DEF ApartInv, IInv, SavedTargets, RecordTargets, AppendVersion, VertexAdmits
    <2>4. MayReplace(xact, xid[b], vtab[rec[b].v])
      BY DEF AppendVersion, VertexAdmits
    <2>5. QED  BY <2>1, <2>2, <2>3, <2>4 DEF IsVersionOf
  <1>3. vtab[rec[b].v].xmax \in XidsOf(xact)
    <2>1. vtab[rec[b].v] \in VertexRow
      BY <1>2
    <2>2. QED  BY <2>1 DEF VertexRow
  <1>4. Unstamped(vtab, rec[b].v) /\ Written(b, vtab, rec[b].v)
    BY <1>2, <1>3, ReplaceableIsFree DEF ApartInv, IInv
  <1> HIDE DEF row
  <1>5. /\ \A k \in DOMAIN vtab : k \in DOMAIN vtab' /\ vtab'[k] = vtab[k]
        /\ \A k \in DOMAIN vtab' : k \in DOMAIN vtab \/ vtab'[k].xmax = NoXid
    BY <1>1, <1>2, AppendFacts
  <1>6. StampsFollow(xact', vtab') /\ StampsFollow(xact', atab')
    BY <1>1, <1>5 DEF StampsFollow, ApartInv
  <1>7. RowsApartKept(b)
    BY <1>1, <1>5 DEF RowsApartKept
  <1>8. OldIsFree(b)'
    BY <1>1, <1>2, <1>4, <1>5 DEF OldIsFree, IsVersionOf, Unstamped, Written
  <1>9. QED  BY <1>1, <1>6, <1>7, <1>8, ApartInside, SameXacts, ApartStepKeeps

LEMMA ApartAppendBitset ==
    ASSUME ApartInv, IInv', NEW b \in Backend, AppendBitset(b) PROVE ApartInv'
  <1>1. /\ UNCHANGED <<xact, vtab, xid, touched, vid>> /\ pc[b] # "idle"
        /\ pc'[b] = "annotateMap" /\ OnlyBy(b) /\ old'[b] = rec[b].a
        /\ \E set : atab' = Append(atab, BitsetTuple(b, vid[b], rec[b].a, set))
    BY DEF AppendBitset, Goto, OnlyBy, ApartInv, IInv, TypeOK
  <1>2. PICK set : atab' = Append(atab, BitsetTuple(b, vid[b], rec[b].a, set))
    BY <1>1
  <1> DEFINE row == BitsetTuple(b, vid[b], rec[b].a, set)
  <1>3. atab \in Seq(BitsetRow) /\ Len(atab) \in Nat /\ DOMAIN atab = 1 .. Len(atab)
    BY LenProperties DEF ApartInv, IInv, TypeOK
  <1>4. /\ \A k \in DOMAIN atab : k \in DOMAIN atab' /\ atab'[k] = atab[k]
        /\ \A k \in DOMAIN atab' : k \in DOMAIN atab \/ atab'[k].xmax = NoXid
    <2>1. row \in {row} \cup BitsetRow /\ row.xmax = NoXid
      BY DEF BitsetTuple
    <2> HIDE DEF row
    <2>2. atab \in Seq({row} \cup BitsetRow)
      BY <1>3, SeqMonotonic
    <2>3. atab' = Append(atab, row)
      BY <1>2 DEF row
    <2>4. QED  BY <2>1, <2>2, <2>3, AppendFacts
  <1>5. rec[b].a # NoRow =>
          /\ IsVersionOf(atab, rec[b].a, vid[b])
          /\ Unstamped(atab, rec[b].a) /\ Written(b, atab, rec[b].a)
    <2> SUFFICES ASSUME rec[b].a # NoRow
                 PROVE  /\ IsVersionOf(atab, rec[b].a, vid[b])
                        /\ Unstamped(atab, rec[b].a) /\ Written(b, atab, rec[b].a)
      OBVIOUS
    <2>1. IsVersionOf(atab, rec[b].a, vid[b]) /\ rec[b].a \in DOMAIN atab /\ xid[b] # NoXid
      BY <1>1 DEF ApartInv, IInv, SavedTargets, RecordTargets, IsVersionOf
    <2>2. atab[rec[b].a] \in BitsetRow
      BY <1>3, <2>1
    <2>3. atab[rec[b].a].xmax \in XidsOf(xact)
      BY <2>2 DEF BitsetRow
    <2>4. MayReplace(xact, xid[b], atab[rec[b].a])
      BY DEF AppendBitset, BitsetAdmits
    <2>5. QED  BY <2>1, <2>3, <2>4, ReplaceableIsFree DEF ApartInv, IInv
  <1>6. StampsFollow(xact', vtab') /\ StampsFollow(xact', atab')
    BY <1>1, <1>4 DEF StampsFollow, ApartInv
  <1>7. RowsApartKept(b)
    BY <1>1, <1>4 DEF RowsApartKept
  <1>8. OldIsFree(b)'
    BY <1>1, <1>4, <1>5 DEF OldIsFree, IsVersionOf, Unstamped, Written
  <1>9. QED  BY <1>1, <1>6, <1>7, <1>8, ApartInside, SameXacts, ApartStepKeeps

\* The action of DeathIsFinal.
StampsStay == StampsGiveWay(vtab, vtab') /\ StampsGiveWay(atab, atab')

\* A step that stamps a free row of the vertex at hand, and ends the operation.
LEMMA ApartStamp ==
    ASSUME ApartInv, IInv', NEW b \in Backend, pc[b] # "idle",
           UNCHANGED <<xact, pmap, pushed, xid, touched, vid, rec, old>>,
           pc' = [pc EXCEPT ![b] = "idle"],
           \/ vtab' = vtab
           \/ \E k \in DOMAIN vtab :
                /\ vtab' = [vtab EXCEPT ![k].xmax = xid[b]]
                /\ IsVersionOf(vtab, k, vid[b])
                /\ Unstamped(vtab, k) /\ Written(b, vtab, k),
           \/ atab' = atab
           \/ \E k \in DOMAIN atab :
                /\ atab' = [atab EXCEPT ![k].xmax = xid[b]]
                /\ IsVersionOf(atab, k, vid[b])
                /\ Unstamped(atab, k) /\ Written(b, atab, k)
    PROVE  ApartInv' /\ StampsStay
  <1>1. /\ vtab \in Seq(VertexRow) /\ atab \in Seq(BitsetRow)
        /\ StampsFollow(xact, vtab) /\ StampsFollow(xact, atab)
        /\ pc'[b] = "idle" /\ OnlyBy(b)
    BY DEF ApartInv, IInv, TypeOK, OnlyBy
  <1>2. /\ StampsFollow(xact, vtab')
        /\ \A i \in DOMAIN vtab : vtab[i].id # vid[b] => i \in DOMAIN vtab' /\ vtab'[i] = vtab[i]
        /\ StampsGiveWay(vtab, vtab')
    <2>1. \A i \in DOMAIN vtab : vtab[i] \in VertexRow
      BY <1>1
    <2>2. CASE vtab' = vtab
      BY <1>1, <2>2 DEF StampsGiveWay
    <2>3. ASSUME NEW k \in DOMAIN vtab, vtab' = [vtab EXCEPT ![k].xmax = xid[b]],
                 IsVersionOf(vtab, k, vid[b]), Unstamped(vtab, k), Written(b, vtab, k)
          PROVE  /\ StampsFollow(xact, vtab')
                 /\ \A i \in DOMAIN vtab :
                      vtab[i].id # vid[b] => i \in DOMAIN vtab' /\ vtab'[i] = vtab[i]
                 /\ StampsGiveWay(vtab, vtab')
      <3>1. /\ DOMAIN vtab' = DOMAIN vtab /\ \A i \in DOMAIN vtab : i # k => vtab'[i] = vtab[i]
            /\ vtab'[k] = [vtab[k] EXCEPT !.xmax = xid[b]]
        BY <2>3
      <3>2. vtab'[k].xmax = xid[b] /\ vtab'[k].xmin = vtab[k].xmin
        BY <2>1, <3>1 DEF VertexRow
      <3>3. StampsGiveWay(vtab, vtab')
        BY <2>3, <3>1 DEF Unstamped, StampsGiveWay
      <3>4. StampsFollow(xact, vtab')
        BY <1>1, <2>3, <3>1, <3>2 DEF StampsFollow, Written
      <3>5. QED  BY <2>3, <3>1, <3>3, <3>4 DEF IsVersionOf
    <2>4. QED  BY <2>2, <2>3
  <1>3. /\ StampsFollow(xact, atab')
        /\ \A i \in DOMAIN atab : atab[i].id # vid[b] => i \in DOMAIN atab' /\ atab'[i] = atab[i]
        /\ StampsGiveWay(atab, atab')
    <2>1. \A i \in DOMAIN atab : atab[i] \in BitsetRow
      BY <1>1
    <2>2. CASE atab' = atab
      BY <1>1, <2>2 DEF StampsGiveWay
    <2>3. ASSUME NEW k \in DOMAIN atab, atab' = [atab EXCEPT ![k].xmax = xid[b]],
                 IsVersionOf(atab, k, vid[b]), Unstamped(atab, k), Written(b, atab, k)
          PROVE  /\ StampsFollow(xact, atab')
                 /\ \A i \in DOMAIN atab :
                      atab[i].id # vid[b] => i \in DOMAIN atab' /\ atab'[i] = atab[i]
                 /\ StampsGiveWay(atab, atab')
      <3>1. /\ DOMAIN atab' = DOMAIN atab /\ \A i \in DOMAIN atab : i # k => atab'[i] = atab[i]
            /\ atab'[k] = [atab[k] EXCEPT !.xmax = xid[b]]
        BY <2>3
      <3>2. atab'[k].xmax = xid[b] /\ atab'[k].xmin = atab[k].xmin
        BY <2>1, <3>1 DEF BitsetRow
      <3>3. StampsGiveWay(atab, atab')
        BY <2>3, <3>1 DEF Unstamped, StampsGiveWay
      <3>4. StampsFollow(xact, atab')
        BY <1>1, <2>3, <3>1, <3>2 DEF StampsFollow, Written
      <3>5. QED  BY <2>3, <3>1, <3>3, <3>4 DEF IsVersionOf
    <2>4. QED  BY <2>2, <2>3
  <1>4. RowsApartKept(b) /\ OldIsFree(b)'
    BY <1>1, <1>2, <1>3 DEF RowsApartKept, OldIsFree
  <1>5. ApartInv'
    BY <1>1, <1>2, <1>3, <1>4, ApartInside, SameXacts, ApartStepKeeps
  <1>6. QED  BY <1>2, <1>3, <1>5 DEF StampsStay, StampsGiveWay

LEMMA ApartStamps ==
    ASSUME ApartInv, IInv', NEW b \in Backend,
           StampVersion(b) \/ StampBitset(b) \/ StampDeleted(b)
    PROVE  ApartInv' /\ StampsStay
  <1>1. OldIsFree(b) /\ xid[b] # NoXid
    BY DEF ApartInv, IInv, SavedTargets, StampVersion, StampBitset, StampDeleted
  <1>2. CASE StampVersion(b)
    <2>1. /\ IsVersionOf(vtab, old[b], vid[b]) /\ old[b] \in DOMAIN vtab
          /\ Unstamped(vtab, old[b]) /\ Written(b, vtab, old[b])
      BY <1>1, <1>2 DEF StampVersion, OldIsFree, IsVersionOf
    <2>2. QED  BY <1>2, <2>1, ApartStamp DEF StampVersion, Goto
  <1>3. CASE StampBitset(b)
    <2>1. old[b] # NoRow => /\ IsVersionOf(atab, old[b], vid[b]) /\ old[b] \in DOMAIN atab
                            /\ Unstamped(atab, old[b]) /\ Written(b, atab, old[b])
      BY <1>1, <1>3 DEF StampBitset, OldIsFree, IsVersionOf
    <2>2. QED  BY <1>3, <2>1, ApartStamp DEF StampBitset, Goto
  <1>4. CASE StampDeleted(b)
    <2>1. IsVersionOf(vtab, rec[b].v, vid[b]) /\ rec[b].v \in DOMAIN vtab
      BY <1>4 DEF ApartInv, IInv, SavedTargets, RecordTargets, StampDeleted, VertexAdmits,
                  IsVersionOf
    <2>2. vtab[rec[b].v] \in VertexRow
      BY <2>1 DEF ApartInv, IInv, TypeOK
    <2>3. vtab[rec[b].v].xmax \in XidsOf(xact)
      BY <2>2 DEF VertexRow
    <2>4. MayReplace(xact, xid[b], vtab[rec[b].v])
      BY <1>4 DEF StampDeleted, VertexAdmits
    <2>5. Unstamped(vtab, rec[b].v) /\ Written(b, vtab, rec[b].v)
      BY <1>1, <2>1, <2>3, <2>4, ReplaceableIsFree DEF ApartInv, IInv
    <2>6. QED  BY <1>4, <2>1, <2>5, ApartStamp DEF StampDeleted, Goto
  <1>5. QED  BY <1>2, <1>3, <1>4

\* Every other step keeps the stamps of the rows that are there.
LEMMA AppendKeepsStamps ==
    ASSUME IInv, IInv', NEW b \in Backend,
           \/ InsertBits(b) \/ AppendVersion(b) \/ AppendBitset(b)
           \/ \E v \in Vertex : InsertVertex(b, v)
    PROVE  StampsStay
  <1>1. /\ vtab \in Seq(VertexRow) /\ atab \in Seq(BitsetRow)
        /\ vtab' \in Seq(VertexRow') /\ atab' \in Seq(BitsetRow')
        /\ vtab' = vtab \/ \E row : vtab' = Append(vtab, row)
        /\ atab' = atab \/ \E row : atab' = Append(atab, row)
    BY DEF IInv, TypeOK, InsertBits, AppendVersion, AppendBitset, InsertVertex
  <1>2. ASSUME NEW S, NEW tab \in Seq(S), NEW row
        PROVE  \A i \in DOMAIN tab : Append(tab, row)[i] = tab[i]
    <2>1. tab \in Seq(S \cup {row})
      BY SeqMonotonic
    <2>2. QED  BY <2>1, AppendFacts
  <1>3. /\ \A i \in DOMAIN vtab : vtab'[i] = vtab[i]
        /\ \A i \in DOMAIN atab : atab'[i] = atab[i]
    BY ZenonT(60), <1>1, <1>2
  <1>4. QED  BY <1>3 DEF StampsStay, StampsGiveWay

LEMMA ApartNext ==
    ASSUME CallsApart, ApartInv, IInv', [Next]_vars
    PROVE  ApartInv' /\ StampsStay
  <1>1. CASE UNCHANGED vars
    <2>1. ApartInv'
      BY <1>1 DEF vars, ApartInv, OpenXactsRun, VerticesApart, OldIsFree, IsVersionOf,
                  Unstamped, Written
    <2>2. QED  BY <1>1, <2>1 DEF vars, StampsStay, StampsGiveWay
  <1>2. ASSUME NEW b \in Backend, Step(b) PROVE ApartInv' /\ StampsStay
    <2>1. CASE Begin(b)
      BY <2>1, ApartBegin DEF Begin, StampsStay, StampsGiveWay
    <2>2. CASE Commit(b) \/ Abort(b) \/ Reject(b)
      <3>1. xid[b] # NoXid
        BY <2>2 DEF Commit, Abort, Reject, ApartInv, IInv, SavedTargets
      <3>2. End(b, "committed") \/ End(b, "aborted")
        BY <2>2 DEF Commit, Abort, Reject
      <3>3. QED  BY <3>1, <3>2, ApartEnd DEF End, StampsStay, StampsGiveWay
    <2>3. ASSUME NEW v \in Vertex, InsertVertex(b, v)
          PROVE  ApartInv' /\ StampsStay
      BY <2>3, ApartStart, AppendKeepsStamps DEF ApartInv
    <2>4. ASSUME NEW v \in Vertex,
                 \/ UpdateVertex(b, v) \/ AnnotateVertex(b, v) \/ DeleteVertex(b, v)
                 \/ PushEdge(b, v)
          PROVE  ApartInv' /\ StampsStay
      BY <2>4, ApartStart
         DEF UpdateVertex, AnnotateVertex, DeleteVertex, ReadMap, PushEdge, StampsStay, StampsGiveWay
    <2>5. CASE InsertBits(b) \/ AppendVersion(b) \/ AppendBitset(b)
      BY <2>5, ApartBits, ApartAppendVersion, ApartAppendBitset, AppendKeepsStamps
         DEF ApartInv
    <2>6. CASE PlaceMap(b) \/ OverwriteMap(b)
      BY <2>6, ApartMap DEF PlaceMap, OverwriteMap, StampsStay, StampsGiveWay
    <2>7. CASE StampVersion(b) \/ StampBitset(b) \/ StampDeleted(b)
      BY <2>7, ApartStamps
    <2>8. QED  BY <1>2, <2>1, <2>2, <2>3, <2>4, <2>5, <2>6, <2>7 DEF Step
  <1>3. QED  BY <1>1, <1>2 DEF Next

\* As long as calls take turns on a vertex, update_vertex and the annotation
\* functions, which stamp without a second check, replace the stamps of rolled-back
\* transactions only, whatever other transactions have stamped meanwhile.
THEOREM DeathIsFinalIfCallsApart == CallsApart => (Spec => DeathIsFinal)
  <1> SUFFICES ASSUME CallsApart PROVE Spec => DeathIsFinal
    OBVIOUS
  <1>1. ApartInv /\ [Next]_vars => ApartInv' /\ [StampsStay]_vars
    <2> SUFFICES ASSUME ApartInv, [Next]_vars
                 PROVE  ApartInv' /\ [StampsStay]_vars
      OBVIOUS
    <2>1. IInv'
      BY NextStep DEF ApartInv
    <2>2. QED  BY <2>1, ApartNext
  <1>2. [][StampsStay]_vars <=> DeathIsFinal
    BY DEF StampsStay, DeathIsFinal
  <1>3. QED  BY <1>1, <1>2, InitApart, PTL DEF Spec
-----------------------------------------------------------------------------
(***************************************************************************)
(* The versions of a vertex and of its bitset, if calls take turns on a     *)
(* vertex: nobody's update is lost, a backend sees one version, and the    *)
(* physical map names it.                                                  *)
(***************************************************************************)

(***************************************************************************)
(* One of the two stores of VertexStore, seen alone: `log` is the          *)
(* transaction log, `tab` the rows, cur[v] the row the slot of v names and *)
(* w[b] what backend b is doing in this store: its transaction x, the      *)
(* vertex v, the row it has appended (new), the one it will stamp (old)    *)
(* and how far it is.  "added" and "flying": the slot does not name the    *)
(* new row yet; "flying" and "stamping": the old row is not stamped yet.   *)
(***************************************************************************)

DeadRow(log, tab, i) == DidAbort(log, tab[i].xmin) \/ DidCommit(log, tab[i].xmax)

FreeRow(log, tab, i) == tab[i].xmax = NoXid \/ DidAbort(log, tab[i].xmax)

\* b has appended row i of v and not yet put it into the slot.
Carries(w, b, v, i) == w[b].phase \in {"added", "flying"} /\ w[b].v = v /\ w[b].new = i

WillStamp(w, b, i) == w[b].phase \in {"flying", "stamping"} /\ w[b].old = i

\* b has stamped row i or is about to.
Takes(tab, w, b, i) == w[b].x # NoXid /\ (tab[i].xmax = w[b].x \/ WillStamp(w, b, i))

\* What IInv says of a store: the rows name transactions and older
\* rows, open transactions run, their calls under way are about different
\* vertices, and the row about to be stamped is free.
StoreBase(log, tab, w) ==
    /\ NoRow \notin DOMAIN tab
    /\ \A i \in DOMAIN tab :
         /\ tab[i].xmin \in XidsOf(log) /\ tab[i].xmax \in XidsOf(log)
         /\ tab[i].prev # NoRow => tab[i].prev \in DOMAIN tab /\ tab[tab[i].prev].id = tab[i].id
    /\ \A b \in Backend :
         /\ w[b].x # NoXid => /\ w[b].x \in DOMAIN log /\ log[w[b].x] = "running"
                              /\ \A c \in Backend \ {b} : w[c].x # w[b].x
         /\ w[b].phase # "none" => /\ w[b].x # NoXid
                                   /\ \A c \in Backend \ {b} :
                                        w[c].phase # "none" => w[c].v # w[b].v
         /\ \A i \in DOMAIN tab : WillStamp(w, b, i) =>
              tab[i].id = w[b].v /\ FreeRow(log, tab, i)

Carried(tab, cur, w) ==
    \A b \in Backend : w[b].phase \in {"added", "flying"} =>
        /\ w[b].new \in DOMAIN tab /\ tab[w[b].new].id = w[b].v
        /\ tab[w[b].new].xmin = w[b].x /\ tab[w[b].new].prev = cur[w[b].v]

\* Who replaced a row has stamped it or will, unless he rolled back.
Replaces(log, tab, w) ==
    \A j \in DOMAIN tab : tab[j].prev # NoRow =>
        \/ DidAbort(log, tab[j].xmin)
        \/ tab[tab[j].prev].xmax = tab[j].xmin
        \/ \E b \in Backend : w[b].x = tab[j].xmin /\ WillStamp(w, b, tab[j].prev)

NoForks(log, tab) ==
    \A i, j \in DOMAIN tab : i # j /\ tab[i].prev = tab[j].prev /\ tab[i].prev # NoRow =>
        DidAbort(log, tab[i].xmin) \/ DidAbort(log, tab[j].xmin)

\* Of two rows of a vertex that may both be live some day, an open transaction
\* takes one and has written the other.
RowRivals(log, tab, i, j) ==
    i # j /\ tab[i].id = tab[j].id /\ ~DeadRow(log, tab, i) /\ ~DeadRow(log, tab, j)

RivalsEnd(log, tab, w) ==
    \A i, j \in DOMAIN tab : RowRivals(log, tab, i, j) =>
        \E b \in Backend : \/ Takes(tab, w, b, i) /\ tab[j].xmin = w[b].x
                           \/ Takes(tab, w, b, j) /\ tab[i].xmin = w[b].x

RolledBackIn(log, tab, v) == \E i \in DOMAIN tab : tab[i].id = v /\ DidAbort(log, tab[i].xmin)

\* A row of a vertex without rollbacks is in the slot, on its way there, or
\* replaced.
SlotIsLast(log, tab, cur, w) ==
    \A i \in DOMAIN tab :
        \/ RolledBackIn(log, tab, tab[i].id)
        \/ cur[tab[i].id] = i
        \/ \E b \in Backend : Carries(w, b, tab[i].id, i)
        \/ \E j \in DOMAIN tab : tab[j].prev = i

\* The slot of a vertex with a row that was not rolled back names a row.
SlotIsSet(log, tab, cur, w) ==
    \A i \in DOMAIN tab :
        \/ DidAbort(log, tab[i].xmin)
        \/ cur[tab[i].id] # NoRow
        \/ \E b \in Backend : /\ w[b].phase \in {"added", "flying"} /\ w[b].v = tab[i].id
                              /\ w[b].x = tab[i].xmin

StoreInv(log, tab, cur, w) ==
    /\ \A i \in DOMAIN tab : tab[i].xmin # NoXid
    /\ Carried(tab, cur, w) /\ Replaces(log, tab, w) /\ NoForks(log, tab)
    /\ RivalsEnd(log, tab, w) /\ SlotIsLast(log, tab, cur, w) /\ SlotIsSet(log, tab, cur, w)
-----------------------------------------------------------------------------
(* The two stores.                                                          *)

VertexPhase(step) ==
    CASE step \in {"insertBits", "placeMap"} -> "added"
      [] step = "updateMap" -> "flying"
      [] step = "updateStamp" -> "stamping"
      [] OTHER -> "none"

BitsetPhase(step, a) ==
    CASE step = "placeMap" /\ a # NoRow -> "added"
      [] step = "annotateMap" -> "flying"
      [] step = "annotateStamp" -> "stamping"
      [] OTHER -> "none"

VertexSlots == [v \in Vertex |-> pmap[v].v]
BitsetSlots == [v \in Vertex |-> pmap[v].a]

VertexWork ==
    [b \in Backend |-> [x |-> xid[b], v |-> vid[b], old |-> old[b], new |-> rec[b].v,
                        phase |-> VertexPhase(pc[b])]]
BitsetWork ==
    [b \in Backend |-> [x |-> xid[b], v |-> vid[b], old |-> old[b], new |-> rec[b].a,
                        phase |-> BitsetPhase(pc[b], rec[b].a)]]

HasRow(v) == \E i \in DOMAIN vtab : vtab[i].id = v

\* An operation is about an id with rows.  The record it will write back is the
\* slot of its vertex, but for the row it has appended; a vertex being inserted
\* has an empty slot.
Mirrors(b) ==
    LET slot == pmap[vid[b]]
    IN  /\ pc[b] # "idle" => HasRow(vid[b])
        /\ pc[b] \in {"updateCheck", "annotateCheck", "deleteStamp", "updateStamp",
                      "annotateStamp"} => rec[b] = slot
        /\ pc[b] = "updateMap" => rec[b].e = slot.e /\ rec[b].a = slot.a /\ old[b] = slot.v
        /\ pc[b] = "annotateMap" => rec[b].e = slot.e /\ rec[b].v = slot.v /\ old[b] = slot.a
        /\ pc[b] \in {"insertBits", "placeMap"} => slot = EmptySlot
        /\ pc[b] = "insertBits" => rec[b].a = NoRow
        /\ pc[b] = "annotateMap" => rec[b].a # NoRow

\* The slot of an id without rows is empty.
SlotsOfRows == \A v \in Vertex : pmap[v] = EmptySlot \/ HasRow(v)

\* A running transaction is some backend's, and the vertices of the rows it
\* wrote are among those it worked on.
XactsHeld == \A x \in DOMAIN xact : xact[x] = "running" => \E b \in Backend : xid[b] = x

WritesTouched(tab) ==
    \A b \in Backend, i \in DOMAIN tab :
        xid[b] # NoXid /\ tab[i].xmin = xid[b] => tab[i].id \in touched[b]

VersionsInv ==
    /\ \A b \in Backend : Mirrors(b)
    /\ SlotsOfRows /\ XactsHeld /\ WritesTouched(vtab) /\ WritesTouched(atab)
    /\ StoreInv(xact, vtab, VertexSlots, VertexWork)
    /\ StoreInv(xact, atab, BitsetSlots, BitsetWork)
-----------------------------------------------------------------------------
(* One store, step by step.                                                 *)

\* What every step does to the log: transactions that ended stay as they did.
LogGrows(log, nlog) ==
    \A x \in XidsOf(log) : /\ DidAbort(log, x) => DidAbort(nlog, x)
                           /\ DidCommit(log, x) => DidCommit(nlog, x)

\* The rows stay, with their vertex, writer and predecessor.
SameRows(tab, ntab) ==
    /\ DOMAIN ntab = DOMAIN tab
    /\ \A i \in DOMAIN tab : /\ ntab[i].id = tab[i].id /\ ntab[i].xmin = tab[i].xmin
                             /\ ntab[i].prev = tab[i].prev

\* A backend that has no part in the store, or gives up its part: it has rolled
\* back or has no row to stamp.
Leaves(nlog, w, b) ==
    \/ w[b].phase = "none"
    \/ DidAbort(nlog, w[b].x)
    \/ w[b].phase = "stamping" /\ w[b].old = NoRow

\* A transaction goes on, begins, or ends; it commits outside an operation.
XactGoes(nlog, w, nw, b) ==
    \/ nw[b].x = w[b].x \/ w[b].x = NoXid
    \/ DidAbort(nlog, w[b].x)
    \/ DidCommit(nlog, w[b].x) /\ w[b].phase = "none"

LEMMA StoreKept ==
    ASSUME NEW log, NEW nlog, NEW tab, NEW cur, NEW w, NEW nw, NEW b \in Backend,
           StoreBase(log, tab, w), StoreInv(log, tab, cur, w), LogGrows(log, nlog),
           \A c \in Backend \ {b} : nw[c] = w[c],
           nw[b].phase = "none", Leaves(nlog, w, b), XactGoes(nlog, w, nw, b)
    PROVE  StoreInv(nlog, tab, cur, nw)
  <1>1. \A i \in DOMAIN tab : /\ tab[i].xmin # NoXid
                              /\ DidAbort(log, tab[i].xmin) => DidAbort(nlog, tab[i].xmin)
                              /\ DeadRow(log, tab, i) => DeadRow(nlog, tab, i)
    BY DEF StoreBase, StoreInv, LogGrows, DeadRow
  <1>2. Carried(tab, cur, nw)
    BY DEF StoreInv, Carried
  <1>3. Replaces(nlog, tab, nw)
    <2>1. SUFFICES ASSUME NEW j \in DOMAIN tab, tab[j].prev # NoRow,
                          ~DidAbort(nlog, tab[j].xmin), tab[tab[j].prev].xmax # tab[j].xmin
                   PROVE  \E c \in Backend : nw[c].x = tab[j].xmin /\ WillStamp(nw, c, tab[j].prev)
      BY DEF Replaces
    <2>2. PICK c \in Backend : w[c].x = tab[j].xmin /\ WillStamp(w, c, tab[j].prev)
      BY <1>1, <2>1 DEF StoreInv, Replaces
    <2>3. c # b
      BY <2>1, <2>2 DEF WillStamp, Leaves
    <2>4. QED  BY <2>2, <2>3 DEF WillStamp
  <1>4. NoForks(nlog, tab)
    BY <1>1 DEF StoreInv, NoForks
  <1>5. RivalsEnd(nlog, tab, nw)
    <2>1. SUFFICES ASSUME NEW i \in DOMAIN tab, NEW j \in DOMAIN tab, RowRivals(nlog, tab, i, j)
                   PROVE  \E c \in Backend : \/ Takes(tab, nw, c, i) /\ tab[j].xmin = nw[c].x
                                             \/ Takes(tab, nw, c, j) /\ tab[i].xmin = nw[c].x
      BY DEF RivalsEnd
    <2>2. RowRivals(log, tab, i, j)
      BY <1>1, <2>1 DEF RowRivals
    <2>3. PICK c \in Backend : \/ Takes(tab, w, c, i) /\ tab[j].xmin = w[c].x
                               \/ Takes(tab, w, c, j) /\ tab[i].xmin = w[c].x
      BY <2>2 DEF StoreInv, RivalsEnd
    <2>4. CASE c # b
      BY <2>3, <2>4 DEF Takes, WillStamp
    <2>5. CASE c = b
      <3>1. ~DidAbort(nlog, w[b].x)
        BY <2>1, <2>3, <2>5 DEF RowRivals, DeadRow
      <3>2. ~WillStamp(w, b, i) /\ ~WillStamp(w, b, j)
        BY <3>1 DEF Leaves, WillStamp, StoreBase
      <3>3. w[b].x # NoXid /\ (tab[i].xmax = w[b].x \/ tab[j].xmax = w[b].x)
        BY <2>3, <2>5, <3>2 DEF Takes
      <3>4. ~DidCommit(nlog, w[b].x)
        BY <2>1, <3>3 DEF RowRivals, DeadRow
      <3>5. nw[b].x = w[b].x
        BY <3>1, <3>3, <3>4 DEF XactGoes
      <3>6. QED  BY <2>3, <2>5, <3>2, <3>5 DEF Takes
    <2>6. QED  BY <2>4, <2>5
  <1>6. SlotIsLast(nlog, tab, cur, nw)
    <2>1. SUFFICES ASSUME NEW i \in DOMAIN tab, ~RolledBackIn(nlog, tab, tab[i].id),
                          cur[tab[i].id] # i, \A j \in DOMAIN tab : tab[j].prev # i
                   PROVE  \E c \in Backend : Carries(nw, c, tab[i].id, i)
      BY DEF SlotIsLast
    <2>2. PICK c \in Backend : Carries(w, c, tab[i].id, i)
      BY <1>1, <2>1 DEF StoreInv, SlotIsLast, RolledBackIn
    <2>3. tab[i].xmin = w[c].x
      BY <2>2 DEF StoreInv, Carried, Carries
    <2>4. c # b
      BY <2>1, <2>2, <2>3 DEF Leaves, Carries, RolledBackIn
    <2>5. QED  BY <2>2, <2>4 DEF Carries
  <1>7. SlotIsSet(nlog, tab, cur, nw)
    BY <1>1 DEF StoreInv, SlotIsSet, Leaves
  <1>8. QED  BY <1>1, <1>2, <1>3, <1>4, <1>5, <1>6, <1>7 DEF StoreInv

\* A backend appends row k, a version of the one the slot of v names, which is
\* free, or the first row of v.
LEMMA StoreAppend ==
    ASSUME NEW log, NEW tab, NEW ntab, NEW cur, NEW w, NEW nw, NEW b \in Backend, NEW k, NEW v,
           StoreBase(log, tab, w), StoreInv(log, tab, cur, w),
           \A c \in Backend \ {b} : nw[c] = w[c] /\ (w[c].phase # "none" => w[c].v # v),
           w[b].phase = "none", w[b].x # NoXid, nw[b].x = w[b].x,
           nw[b].phase \in {"added", "flying"}, nw[b].new = k, nw[b].v = v,
           DOMAIN ntab = DOMAIN tab \cup {k}, k \notin DOMAIN tab, k # NoRow,
           \A i \in DOMAIN tab : ntab[i] = tab[i],
           ntab[k].id = v, ntab[k].xmin = w[b].x, ntab[k].prev = cur[v],
           cur[v] # NoRow => /\ cur[v] \in DOMAIN tab /\ tab[cur[v]].id = v
                             /\ FreeRow(log, tab, cur[v])
                             /\ \/ tab[cur[v]].xmin = w[b].x
                                \/ DidCommit(log, tab[cur[v]].xmin)
                             /\ nw[b].phase = "flying" /\ nw[b].old = cur[v]
    PROVE  StoreInv(log, ntab, cur, nw)
  <1>1. /\ log[w[b].x] = "running"
        /\ \A c \in Backend \ {b} : w[c].x # w[b].x
    BY DEF StoreBase
  <1>2. \A j \in DOMAIN tab : /\ tab[j].xmin # NoXid /\ tab[j].prev # k
                              /\ tab[j].prev # NoRow => tab[j].prev \in DOMAIN tab
    BY DEF StoreBase, StoreInv
  <1>3. Carried(ntab, cur, nw)
    BY DEF StoreInv, Carried
  \* Nobody takes the row that is replaced.
  <1>4. ASSUME cur[v] # NoRow, NEW c \in Backend PROVE ~Takes(tab, w, c, cur[v])
    <2>1. ~WillStamp(w, c, cur[v])
      BY <1>4 DEF StoreBase, WillStamp
    <2>2. w[c].x # NoXid => tab[cur[v]].xmax # w[c].x
      BY <1>4 DEF StoreBase, FreeRow, DidAbort
    <2>3. QED  BY <2>1, <2>2 DEF Takes
  <1>5. Replaces(log, ntab, nw)
    <2>1. ASSUME NEW j \in DOMAIN tab, tab[j].prev # NoRow
          PROVE  \/ DidAbort(log, tab[j].xmin)
                 \/ tab[tab[j].prev].xmax = tab[j].xmin
                 \/ \E c \in Backend : nw[c].x = tab[j].xmin /\ WillStamp(nw, c, tab[j].prev)
      BY <2>1 DEF StoreInv, Replaces, WillStamp
    <2>2. cur[v] # NoRow => nw[b].x = ntab[k].xmin /\ WillStamp(nw, b, ntab[k].prev)
      BY DEF WillStamp
    <2>3. QED  BY <1>2, <2>1, <2>2 DEF Replaces
  <1>6. NoForks(log, ntab)
    <2>1. ASSUME NEW j \in DOMAIN tab, tab[j].prev = cur[v], cur[v] # NoRow
          PROVE  DidAbort(log, tab[j].xmin)
      <3>1. tab[cur[v]].xmax = tab[j].xmin => DidAbort(log, tab[j].xmin)
        BY <1>2, <2>1 DEF FreeRow
      <3>2. \A c \in Backend : w[c].x = tab[j].xmin => ~WillStamp(w, c, cur[v])
        BY <1>2, <1>4, <2>1 DEF Takes
      <3>3. QED  BY <2>1, <3>1, <3>2 DEF StoreInv, Replaces
    <2>2. QED  BY <1>2, <2>1 DEF StoreInv, NoForks
  <1>7. RivalsEnd(log, ntab, nw)
    <2>1. ASSUME NEW j \in DOMAIN tab, tab[j].id = v, ~DeadRow(log, tab, j)
          PROVE  Takes(ntab, nw, b, j)
      <3>1. CASE cur[v] = NoRow
        BY <2>1, <3>1 DEF StoreInv, SlotIsSet, DeadRow
      <3>2. CASE cur[v] = j
        BY <1>2, <2>1, <3>2 DEF Takes, WillStamp, StoreBase
      <3>3. CASE cur[v] # NoRow /\ cur[v] # j
        <4>1. ~DeadRow(log, tab, cur[v])
          BY <1>1, <3>3 DEF DeadRow, FreeRow, DidAbort, DidCommit
        <4>2. RowRivals(log, tab, cur[v], j)
          BY <2>1, <3>3, <4>1 DEF RowRivals
        <4>3. PICK c \in Backend : Takes(tab, w, c, j) /\ tab[cur[v]].xmin = w[c].x
          BY <1>4, <3>3, <4>2 DEF StoreInv, RivalsEnd
        <4>4. c = b
          BY <1>1, <3>3, <4>3 DEF Takes, StoreBase, DidCommit
        <4>5. tab[j].xmax = w[b].x
          BY <4>3, <4>4 DEF Takes, WillStamp
        <4>6. QED  BY <4>5 DEF Takes
      <3>4. QED  BY <3>1, <3>2, <3>3
    <2>2. ASSUME NEW i \in DOMAIN tab, NEW j \in DOMAIN tab, RowRivals(log, ntab, i, j)
          PROVE  \E c \in Backend : \/ Takes(ntab, nw, c, i) /\ ntab[j].xmin = nw[c].x
                                    \/ Takes(ntab, nw, c, j) /\ ntab[i].xmin = nw[c].x
      <3>1. RowRivals(log, tab, i, j)
        BY <2>2 DEF RowRivals, DeadRow
      <3>2. PICK c \in Backend : \/ Takes(tab, w, c, i) /\ tab[j].xmin = w[c].x
                                 \/ Takes(tab, w, c, j) /\ tab[i].xmin = w[c].x
        BY <3>1 DEF StoreInv, RivalsEnd
      <3>3. \A l \in DOMAIN tab : Takes(tab, w, c, l) => Takes(ntab, nw, c, l)
        BY DEF Takes, WillStamp
      <3>4. nw[c].x = w[c].x
        OBVIOUS
      <3>5. QED  BY <3>2, <3>3, <3>4
    <2>3. ASSUME NEW j \in DOMAIN tab, RowRivals(log, ntab, k, j) \/ RowRivals(log, ntab, j, k)
          PROVE  Takes(ntab, nw, b, j) /\ ntab[k].xmin = nw[b].x
      BY <2>1, <2>3 DEF RowRivals, DeadRow
    <2>4. ~RowRivals(log, ntab, k, k)
      BY DEF RowRivals
    <2>5. QED  BY <2>2, <2>3, <2>4 DEF RivalsEnd
  <1>8. SlotIsLast(log, ntab, cur, nw)
    <2>1. Carries(nw, b, ntab[k].id, k)
      BY DEF Carries
    <2>2. ASSUME NEW i \in DOMAIN tab
          PROVE  \/ RolledBackIn(log, ntab, ntab[i].id)
                 \/ cur[ntab[i].id] = i
                 \/ \E c \in Backend : Carries(nw, c, ntab[i].id, i)
                 \/ \E j \in DOMAIN ntab : ntab[j].prev = i
      <3>1. RolledBackIn(log, tab, tab[i].id) => RolledBackIn(log, ntab, ntab[i].id)
        BY DEF RolledBackIn
      <3>2. \A c \in Backend : Carries(w, c, tab[i].id, i) => Carries(nw, c, ntab[i].id, i)
        BY DEF Carries
      <3>3. QED  BY <3>1, <3>2 DEF StoreInv, SlotIsLast
    <2>3. QED  BY <2>1, <2>2 DEF SlotIsLast
  <1>9. SlotIsSet(log, ntab, cur, nw)
    BY DEF StoreInv, SlotIsSet
  <1>10. \A i \in DOMAIN ntab : ntab[i].xmin # NoXid
    BY <1>2
  <1>11. QED  BY <1>3, <1>5, <1>6, <1>7, <1>8, <1>9, <1>10 DEF StoreInv

\* A backend puts the row it has appended into the slot.
LEMMA StoreMap ==
    ASSUME NEW log, NEW tab, NEW cur, NEW ncur, NEW w, NEW nw, NEW b \in Backend,
           StoreBase(log, tab, w), StoreInv(log, tab, cur, w),
           \A c \in Backend \ {b} : nw[c] = w[c],
           nw[b].x = w[b].x, nw[b].v = w[b].v, nw[b].old = w[b].old,
           \/ w[b].phase = "added" /\ nw[b].phase = "none"
           \/ w[b].phase = "flying" /\ nw[b].phase = "stamping",
           ncur[w[b].v] = w[b].new,
           \A i \in DOMAIN tab : tab[i].id # w[b].v => ncur[tab[i].id] = cur[tab[i].id],
           \A c \in Backend \ {b} : w[c].v # w[b].v => ncur[w[c].v] = cur[w[c].v]
    PROVE  StoreInv(log, tab, ncur, nw)
  <1>1. /\ w[b].new \in DOMAIN tab /\ tab[w[b].new].id = w[b].v
        /\ tab[w[b].new].prev = cur[w[b].v] /\ w[b].new # NoRow
    BY DEF StoreInv, Carried, StoreBase
  <1>2. \A c \in Backend \ {b} : w[c].phase # "none" => w[c].v # w[b].v
    BY DEF StoreBase
  <1>3. Carried(tab, ncur, nw)
    BY <1>2 DEF StoreInv, Carried
  <1>4. \A c \in Backend, i \in DOMAIN tab : /\ WillStamp(w, c, i) => WillStamp(nw, c, i)
                                             /\ Takes(tab, w, c, i) => Takes(tab, nw, c, i)
    BY DEF WillStamp, Takes
  <1>5. \A c \in Backend : nw[c].x = w[c].x
    OBVIOUS
  <1>6. Replaces(log, tab, nw)
    BY <1>4, <1>5 DEF StoreInv, StoreBase, Replaces
  <1>7. RivalsEnd(log, tab, nw)
    BY <1>4, <1>5 DEF StoreInv, RivalsEnd
  <1>8. SlotIsLast(log, tab, ncur, nw)
    <2>1. SUFFICES ASSUME NEW i \in DOMAIN tab, ~RolledBackIn(log, tab, tab[i].id),
                          ncur[tab[i].id] # i, \A j \in DOMAIN tab : tab[j].prev # i
                   PROVE  \E c \in Backend : Carries(nw, c, tab[i].id, i)
      BY DEF SlotIsLast
    <2>2. CASE cur[tab[i].id] = i
      BY <1>1, <2>1, <2>2
    <2>3. ASSUME NEW c \in Backend, Carries(w, c, tab[i].id, i)
          PROVE  \E d \in Backend : Carries(nw, d, tab[i].id, i)
      <3>1. c # b
        BY <2>1, <2>3 DEF Carries
      <3>2. QED  BY <2>3, <3>1 DEF Carries
    <2>4. QED  BY <2>1, <2>2, <2>3 DEF StoreInv, SlotIsLast
  <1>9. SlotIsSet(log, tab, ncur, nw)
    BY <1>1 DEF StoreInv, SlotIsSet
  <1>10. QED  BY <1>3, <1>6, <1>7, <1>8, <1>9 DEF StoreInv

\* A backend stamps row k, which is free, and which nobody else takes.
LEMMA StoreStamp ==
    ASSUME NEW log, NEW tab, NEW ntab, NEW cur, NEW w, NEW nw, NEW b \in Backend,
           NEW k \in DOMAIN tab,
           StoreBase(log, tab, w), StoreInv(log, tab, cur, w), SameRows(tab, ntab),
           \A c \in Backend \ {b} : nw[c] = w[c] /\ (w[c].phase # "none" => w[c].v # tab[k].id),
           nw[b].phase = "none", nw[b].x = w[b].x, w[b].x # NoXid,
           w[b].phase = "none" \/ (w[b].phase = "stamping" /\ w[b].old = k),
           ntab[k].xmax = w[b].x, \A i \in DOMAIN tab : i # k => ntab[i].xmax = tab[i].xmax,
           FreeRow(log, tab, k)
    PROVE  StoreInv(log, ntab, cur, nw)
  <1>1. /\ \A i \in DOMAIN tab : /\ tab[i].xmin # NoXid
                                 /\ DeadRow(log, tab, i) => DeadRow(log, ntab, i)
        /\ \A c \in Backend : nw[c].x = w[c].x
    BY DEF StoreInv, SameRows, DeadRow, FreeRow, DidAbort, DidCommit
  <1>2. \A c \in Backend : w[c].x # NoXid => tab[k].xmax # w[c].x
    BY DEF StoreBase, FreeRow, DidAbort
  <1>3. ASSUME NEW c \in Backend, NEW i \in DOMAIN tab, Takes(tab, w, c, i)
        PROVE  Takes(ntab, nw, c, i)
    <2>1. CASE i = k
      BY <1>2, <1>3, <2>1 DEF Takes, WillStamp, StoreBase
    <2>2. CASE i # k
      BY <1>3, <2>2 DEF Takes, WillStamp
    <2>3. QED  BY <2>1, <2>2
  <1>4. Carried(ntab, cur, nw)
    BY DEF StoreInv, Carried, SameRows
  <1>5. Replaces(log, ntab, nw)
    <2>1. SUFFICES ASSUME NEW j \in DOMAIN tab, tab[j].prev # NoRow, ~DidAbort(log, tab[j].xmin)
                   PROVE  \/ ntab[tab[j].prev].xmax = tab[j].xmin
                          \/ \E c \in Backend :
                               nw[c].x = tab[j].xmin /\ WillStamp(nw, c, tab[j].prev)
      BY DEF Replaces, SameRows
    <2>2. tab[j].prev \in DOMAIN tab
      BY <2>1 DEF StoreBase
    <2>3. CASE tab[tab[j].prev].xmax = tab[j].xmin
      <3>1. tab[j].prev # k
        BY <1>1, <2>1, <2>3 DEF FreeRow
      <3>2. QED  BY <2>2, <2>3, <3>1
    <2>4. ASSUME NEW c \in Backend, w[c].x = tab[j].xmin, WillStamp(w, c, tab[j].prev)
          PROVE  \/ ntab[tab[j].prev].xmax = tab[j].xmin
                 \/ WillStamp(nw, c, tab[j].prev)
      BY <2>4 DEF WillStamp
    <2>5. QED  BY <1>1, <2>1, <2>3, <2>4 DEF StoreInv, Replaces
  <1>6. NoForks(log, ntab)
    BY DEF StoreInv, NoForks, SameRows
  <1>7. RivalsEnd(log, ntab, nw)
    <2>1. ASSUME NEW i \in DOMAIN tab, NEW j \in DOMAIN tab, RowRivals(log, ntab, i, j)
          PROVE  RowRivals(log, tab, i, j)
      BY <1>1, <2>1 DEF RowRivals, SameRows
    <2>2. QED  BY <1>1, <1>3, <2>1 DEF StoreInv, RivalsEnd, SameRows
  <1>8. SlotIsLast(log, ntab, cur, nw)
    <2>1. ASSUME NEW c \in Backend, NEW i, NEW v, Carries(w, c, v, i) PROVE Carries(nw, c, v, i)
      BY <2>1 DEF Carries
    <2>2. ASSUME NEW i \in DOMAIN tab
          PROVE  /\ ntab[i].id = tab[i].id
                 /\ RolledBackIn(log, tab, tab[i].id) => RolledBackIn(log, ntab, ntab[i].id)
      BY DEF RolledBackIn, SameRows
    <2>3. QED  BY <2>1, <2>2 DEF StoreInv, SlotIsLast, SameRows
  <1>9. SlotIsSet(log, ntab, cur, nw)
    BY DEF StoreInv, SlotIsSet, SameRows
  <1>10. \A i \in DOMAIN ntab : ntab[i].xmin # NoXid
    BY <1>1 DEF SameRows
  <1>11. QED  BY <1>4, <1>5, <1>6, <1>7, <1>8, <1>9, <1>10 DEF StoreInv
-----------------------------------------------------------------------------
(* The two stores are such stores.                                          *)

LEMMA WorkFacts ==
    ASSUME NEW b \in Backend
    PROVE  /\ /\ VertexWork[b].x = xid[b] /\ VertexWork[b].v = vid[b]
              /\ VertexWork[b].old = old[b] /\ VertexWork[b].new = rec[b].v
              /\ VertexWork[b].phase = VertexPhase(pc[b])
           /\ /\ BitsetWork[b].x = xid[b] /\ BitsetWork[b].v = vid[b]
              /\ BitsetWork[b].old = old[b] /\ BitsetWork[b].new = rec[b].a
              /\ BitsetWork[b].phase = BitsetPhase(pc[b], rec[b].a)
    BY DEF VertexWork, BitsetWork

LEMMA PhaseFacts ==
    ASSUME NEW step, NEW a
    PROVE  /\ /\ VertexPhase(step) = "added" <=> step \in {"insertBits", "placeMap"}
              /\ VertexPhase(step) = "flying" <=> step = "updateMap"
              /\ VertexPhase(step) = "stamping" <=> step = "updateStamp"
              /\ VertexPhase(step) = "none" <=>
                   step \notin {"insertBits", "placeMap", "updateMap", "updateStamp"}
           /\ /\ BitsetPhase(step, a) = "added" <=> step = "placeMap" /\ a # NoRow
              /\ BitsetPhase(step, a) = "flying" <=> step = "annotateMap"
              /\ BitsetPhase(step, a) = "stamping" <=> step = "annotateStamp"
              /\ BitsetPhase(step, a) = "none" <=>
                   /\ step \notin {"annotateMap", "annotateStamp"}
                   /\ step = "placeMap" => a = NoRow
    BY DEF VertexPhase, BitsetPhase

LEMMA Rows ==
    ASSUME TypeOK
    PROVE  /\ vtab \in Seq(VertexRow) /\ DOMAIN vtab = 1 .. Len(vtab) /\ Len(vtab) \in Nat
           /\ atab \in Seq(BitsetRow) /\ DOMAIN atab = 1 .. Len(atab) /\ Len(atab) \in Nat
           /\ \A i \in DOMAIN vtab :
                /\ vtab[i] \in VertexRow /\ vtab[i].id \in Vertex
                /\ vtab[i].xmin \in XidsOf(xact) /\ vtab[i].xmax \in XidsOf(xact)
           /\ \A i \in DOMAIN atab :
                /\ atab[i] \in BitsetRow /\ atab[i].id \in Vertex
                /\ atab[i].xmin \in XidsOf(xact) /\ atab[i].xmax \in XidsOf(xact)
  <1>1. /\ vtab \in Seq(VertexRow) /\ DOMAIN vtab = 1 .. Len(vtab) /\ Len(vtab) \in Nat
        /\ atab \in Seq(BitsetRow) /\ DOMAIN atab = 1 .. Len(atab) /\ Len(atab) \in Nat
    BY LenProperties DEF TypeOK
  <1>2. (\A i \in DOMAIN vtab : vtab[i] \in VertexRow) /\ (\A i \in DOMAIN atab : atab[i] \in BitsetRow)
    BY <1>1
  <1>3. QED  BY <1>1, <1>2 DEF VertexRow, BitsetRow

\* Nobody else is inside an operation on the vertex of one that is.
LEMMA InsideApart ==
    ASSUME ApartInv, NEW b \in Backend, NEW c \in Backend \ {b},
           pc[b] # "idle", pc[c] # "idle"
    PROVE  vid[b] # vid[c]
    BY DEF ApartInv, VerticesApart

LEMMA Bases == ApartInv => /\ StoreBase(xact, vtab, VertexWork)
                              /\ StoreBase(xact, atab, BitsetWork)
  <1> SUFFICES ASSUME ApartInv
               PROVE  StoreBase(xact, vtab, VertexWork) /\ StoreBase(xact, atab, BitsetWork)
    OBVIOUS
  <1>1. TypeOK /\ PrevChain /\ OpenXactsRun
    BY DEF ApartInv, IInv
  <1>2. /\ NoRow \notin DOMAIN vtab /\ NoRow \notin DOMAIN atab
        /\ \A i \in DOMAIN vtab :
             /\ vtab[i].xmin \in XidsOf(xact) /\ vtab[i].xmax \in XidsOf(xact)
             /\ vtab[i].prev # NoRow =>
                  vtab[i].prev \in DOMAIN vtab /\ vtab[vtab[i].prev].id = vtab[i].id
        /\ \A i \in DOMAIN atab :
             /\ atab[i].xmin \in XidsOf(xact) /\ atab[i].xmax \in XidsOf(xact)
             /\ atab[i].prev # NoRow =>
                  atab[i].prev \in DOMAIN atab /\ atab[atab[i].prev].id = atab[i].id
    BY <1>1, Rows DEF PrevChain, PointsBack, IsVersionOf, NoRow
  <1>3. ASSUME NEW b \in Backend, xid[b] # NoXid
        PROVE  /\ xid[b] \in DOMAIN xact /\ xact[xid[b]] = "running"
               /\ \A c \in Backend \ {b} : xid[c] # xid[b]
    BY <1>1, <1>3 DEF OpenXactsRun, TypeOK, XidsOf
  <1>4. \A b \in Backend : pc[b] # "idle" => xid[b] # NoXid
    BY DEF ApartInv, IInv, SavedTargets
  <1>5. ASSUME NEW b \in Backend, NEW i \in DOMAIN vtab, WillStamp(VertexWork, b, i)
        PROVE  vtab[i].id = VertexWork[b].v /\ FreeRow(xact, vtab, i)
    <2>1. pc[b] \in {"updateMap", "updateStamp"} /\ old[b] = i
      BY <1>5, WorkFacts, PhaseFacts DEF WillStamp
    <2>2. IsVersionOf(vtab, old[b], vid[b]) /\ Unstamped(vtab, old[b])
      BY <2>1 DEF ApartInv, OldIsFree
    <2>3. QED  BY <2>1, <2>2, WorkFacts DEF IsVersionOf, Unstamped, FreeRow
  <1>6. ASSUME NEW b \in Backend, NEW i \in DOMAIN atab, WillStamp(BitsetWork, b, i)
        PROVE  atab[i].id = BitsetWork[b].v /\ FreeRow(xact, atab, i)
    <2>1. pc[b] \in {"annotateMap", "annotateStamp"} /\ old[b] = i /\ old[b] # NoRow
      BY <1>2, <1>6, WorkFacts, PhaseFacts DEF WillStamp
    <2>2. IsVersionOf(atab, old[b], vid[b]) /\ Unstamped(atab, old[b])
      BY <2>1 DEF ApartInv, OldIsFree
    <2>3. QED  BY <2>1, <2>2, WorkFacts DEF IsVersionOf, Unstamped, FreeRow
  <1>7. ASSUME NEW b \in Backend
        PROVE  /\ VertexWork[b].phase # "none" => pc[b] # "idle"
               /\ BitsetWork[b].phase # "none" => pc[b] # "idle"
    BY WorkFacts, PhaseFacts
  <1>8. ASSUME NEW b \in Backend, NEW c \in Backend \ {b}, pc[b] # "idle", pc[c] # "idle"
        PROVE  vid[c] # vid[b]
    BY <1>8, InsideApart
  <1>9. StoreBase(xact, vtab, VertexWork)
    BY <1>2, <1>3, <1>4, <1>5, <1>7, <1>8, WorkFacts DEF StoreBase
  <1>10. StoreBase(xact, atab, BitsetWork)
    BY <1>2, <1>3, <1>4, <1>6, <1>7, <1>8, WorkFacts DEF StoreBase
  <1>11. QED  BY <1>9, <1>10

LEMMA SlotFacts ==
    ASSUME NEW v \in Vertex
    PROVE  VertexSlots[v] = pmap[v].v /\ BitsetSlots[v] = pmap[v].a
    BY DEF VertexSlots, BitsetSlots

LEMMA InitVersions == Init => VersionsInv
  <1> SUFFICES ASSUME Init PROVE VersionsInv
    OBVIOUS
  <1>1. \A b \in Backend : Mirrors(b)
    BY DEF Init, Mirrors
  <1>2. SlotsOfRows /\ XactsHeld /\ WritesTouched(vtab) /\ WritesTouched(atab)
    BY DEF Init, SlotsOfRows, XactsHeld, WritesTouched
  <1>3. ASSUME NEW log, NEW cur, NEW w, \A b \in Backend : w[b].phase = "none"
        PROVE  StoreInv(log, <<>>, cur, w)
    BY <1>3 DEF StoreInv, Carried, Replaces, NoForks, RivalsEnd, SlotIsLast, SlotIsSet
  <1>4. \A b \in Backend : VertexWork[b].phase = "none" /\ BitsetWork[b].phase = "none"
    BY WorkFacts, PhaseFacts DEF Init
  <1>5. /\ StoreInv(xact, vtab, VertexSlots, VertexWork)
        /\ StoreInv(xact, atab, BitsetSlots, BitsetWork)
    BY <1>3, <1>4 DEF Init
  <1>6. QED  BY <1>1, <1>2, <1>5 DEF VersionsInv
-----------------------------------------------------------------------------
(* Steps.                                                                   *)

LEMMA WorkNext ==
    ASSUME NEW b \in Backend
    PROVE  /\ /\ VertexWork'[b].x = xid'[b] /\ VertexWork'[b].v = vid'[b]
              /\ VertexWork'[b].old = old'[b] /\ VertexWork'[b].new = rec'[b].v
              /\ VertexWork'[b].phase = VertexPhase(pc'[b])
           /\ /\ BitsetWork'[b].x = xid'[b] /\ BitsetWork'[b].v = vid'[b]
              /\ BitsetWork'[b].old = old'[b] /\ BitsetWork'[b].new = rec'[b].a
              /\ BitsetWork'[b].phase = BitsetPhase(pc'[b], rec'[b].a)
    BY DEF VertexWork, BitsetWork

LEMMA SlotsNext ==
    ASSUME NEW v \in Vertex
    PROVE  VertexSlots'[v] = pmap'[v].v /\ BitsetSlots'[v] = pmap'[v].a
    BY DEF VertexSlots, BitsetSlots

LEMMA OthersWork ==
    ASSUME NEW b \in Backend, OnlyBy(b), NEW c \in Backend \ {b}
    PROVE  VertexWork'[c] = VertexWork[c] /\ BitsetWork'[c] = BitsetWork[c]
    BY DEF OnlyBy, VertexWork, BitsetWork

\* A step that has nothing to do with a store leaves it as it is.
LEMMA VertexQuiet ==
    ASSUME ApartInv, VersionsInv, NEW b \in Backend, OnlyBy(b),
           UNCHANGED <<xact, xid, vtab>>, VertexSlots' = VertexSlots,
           VertexPhase(pc[b]) = "none", VertexPhase(pc'[b]) = "none"
    PROVE  StoreInv(xact', vtab', VertexSlots', VertexWork')
  <1>1. LogGrows(xact, xact)
    BY DEF LogGrows
  <1>2. /\ VertexWork'[b].phase = "none" /\ VertexWork[b].phase = "none"
        /\ VertexWork'[b].x = VertexWork[b].x
    BY WorkFacts, WorkNext
  <1>3. StoreBase(xact, vtab, VertexWork) /\ StoreInv(xact, vtab, VertexSlots, VertexWork)
    BY Bases DEF VersionsInv
  <1>4. StoreInv(xact, vtab, VertexSlots, VertexWork')
    BY <1>1, <1>2, <1>3, OthersWork, StoreKept DEF Leaves, XactGoes
  <1>5. QED  BY <1>4

LEMMA BitsetQuiet ==
    ASSUME ApartInv, VersionsInv, NEW b \in Backend, OnlyBy(b),
           UNCHANGED <<xact, xid, atab>>, BitsetSlots' = BitsetSlots,
           \/ BitsetPhase(pc[b], rec[b].a) = "none"
           \/ BitsetPhase(pc[b], rec[b].a) = "stamping" /\ old[b] = NoRow,
           BitsetPhase(pc'[b], rec'[b].a) = "none"
    PROVE  StoreInv(xact', atab', BitsetSlots', BitsetWork')
  <1>1. LogGrows(xact, xact)
    BY DEF LogGrows
  <1>2. /\ BitsetWork'[b].phase = "none" /\ BitsetWork'[b].x = BitsetWork[b].x
        /\ \/ BitsetWork[b].phase = "none"
           \/ BitsetWork[b].phase = "stamping" /\ BitsetWork[b].old = NoRow
    BY WorkFacts, WorkNext
  <1>3. StoreBase(xact, atab, BitsetWork) /\ StoreInv(xact, atab, BitsetSlots, BitsetWork)
    BY Bases DEF VersionsInv
  <1>4. StoreInv(xact, atab, BitsetSlots, BitsetWork')
    BY <1>1, <1>2, <1>3, OthersWork, StoreKept DEF Leaves, XactGoes
  <1>5. QED  BY <1>4

\* The rows of a store stay, and b has written the new ones, for a vertex it
\* worked on.
RowsBy(b, tab, ntab) ==
    \A i \in DOMAIN ntab :
        \/ i \in DOMAIN tab /\ ntab[i].id = tab[i].id /\ ntab[i].xmin = tab[i].xmin
        \/ ntab[i].xmin = xid[b] /\ ntab[i].id \in touched'[b]

\* What is left to show of a step inside a transaction.
LEMMA VersionsKept ==
    ASSUME ApartInv, VersionsInv, NEW b \in Backend, OnlyBy(b),
           UNCHANGED <<xact, xid>>, \A c \in Backend : touched[c] \subseteq touched'[c],
           \A v \in Vertex :
             \/ pmap'[v] = pmap[v]
             \/ /\ \A c \in Backend \ {b} : pc[c] # "idle" => vid[c] # v
                /\ HasRow(v),
           Extends(vtab', vtab), RowsBy(b, vtab, vtab'), RowsBy(b, atab, atab'),
           Mirrors(b)',
           StoreInv(xact', vtab', VertexSlots', VertexWork'),
           StoreInv(xact', atab', BitsetSlots', BitsetWork')
    PROVE  VersionsInv'
  <1>1. ASSUME NEW c \in Backend \ {b} PROVE Mirrors(c)'
    <2>1. /\ pc'[c] = pc[c] /\ rec'[c] = rec[c] /\ vid'[c] = vid[c] /\ old'[c] = old[c]
          /\ vid[c] \in Vertex
      BY DEF OnlyBy, ApartInv, IInv, TypeOK
    <2>2. pc[c] # "idle" => pmap'[vid'[c]] = pmap[vid[c]]
      BY <2>1
    <2>3. Mirrors(c)
      BY DEF VersionsInv
    <2>4. pc[c] # "idle" => HasRow(vid[c])'
      BY <2>1, <2>3 DEF Mirrors, HasRow, Extends
    <2>5. QED  BY <2>1, <2>2, <2>3, <2>4 DEF Mirrors, HasRow
  <1>2. SlotsOfRows'
    BY DEF VersionsInv, SlotsOfRows, HasRow, Extends
  <1>3. XactsHeld'
    BY DEF VersionsInv, XactsHeld
  <1>4. \A c \in Backend \ {b} : xid[b] # NoXid => xid[c] # xid[b]
    BY DEF ApartInv, OpenXactsRun
  <1>5. WritesTouched(vtab)' /\ WritesTouched(atab)'
    BY <1>4 DEF VersionsInv, WritesTouched, RowsBy
  <1>6. QED  BY <1>1, <1>2, <1>3, <1>5 DEF VersionsInv

LEMMA VersionsBegin ==
    ASSUME ApartInv, VersionsInv, NEW b \in Backend, Begin(b) PROVE VersionsInv'
  <1>1. /\ UNCHANGED <<vtab, atab, pmap, touched, pc, vid, rec, old>>
        /\ xid[b] = NoXid /\ xid' = [xid EXCEPT ![b] = Len(xact) + 1]
        /\ xact' = Append(xact, "running") /\ xact \in Seq(XactStatus) /\ "running" \in XactStatus
        /\ pc[b] = "idle" /\ \A c \in Backend : xid[c] \in XidsOf(xact)
    BY DEF Begin, ApartInv, IInv, TypeOK, SavedTargets, XactStatus
  <1>2. /\ Len(xact) \in Nat /\ DOMAIN xact = 1 .. Len(xact)
        /\ DOMAIN xact' = DOMAIN xact \cup {Len(xact) + 1}
        /\ \A x \in DOMAIN xact : xact'[x] = xact[x]
    BY <1>1, AppendFacts
  <1>3. LogGrows(xact, xact')
    BY <1>2 DEF LogGrows, XidsOf, DidAbort, DidCommit
  <1>4. /\ xid'[b] = Len(xact) + 1 /\ \A c \in Backend \ {b} : xid'[c] = xid[c]
        /\ OnlyBy(b) /\ VertexSlots' = VertexSlots /\ BitsetSlots' = BitsetSlots
    BY <1>1 DEF OnlyBy, ApartInv, IInv, TypeOK, VertexSlots, BitsetSlots
  <1>5. /\ VertexWork[b].phase = "none" /\ VertexWork'[b].phase = "none"
        /\ BitsetWork[b].phase = "none" /\ BitsetWork'[b].phase = "none"
        /\ VertexWork[b].x = NoXid /\ BitsetWork[b].x = NoXid
    BY <1>1, WorkFacts, WorkNext, PhaseFacts
  <1>6. /\ StoreInv(xact', vtab, VertexSlots, VertexWork')
        /\ StoreInv(xact', atab, BitsetSlots, BitsetWork')
    <2>1. /\ StoreBase(xact, vtab, VertexWork) /\ StoreInv(xact, vtab, VertexSlots, VertexWork)
          /\ StoreBase(xact, atab, BitsetWork) /\ StoreInv(xact, atab, BitsetSlots, BitsetWork)
      BY Bases DEF VersionsInv
    <2>2. StoreInv(xact', vtab, VertexSlots, VertexWork')
      BY <1>3, <1>4, <1>5, <2>1, OthersWork, StoreKept DEF Leaves, XactGoes
    <2>3. StoreInv(xact', atab, BitsetSlots, BitsetWork')
      BY <1>3, <1>4, <1>5, <2>1, OthersWork, StoreKept DEF Leaves, XactGoes
    <2>4. QED  BY <2>2, <2>3
  <1>7. (\A c \in Backend : Mirrors(c)') /\ SlotsOfRows'
    BY <1>1 DEF VersionsInv, Mirrors, SlotsOfRows, HasRow
  <1>8. XactsHeld'
    BY <1>1, <1>2, <1>4 DEF VersionsInv, XactsHeld, NoXid
  <1>9. WritesTouched(vtab)' /\ WritesTouched(atab)'
    <2>1. /\ \A i \in DOMAIN vtab : vtab[i].xmin # Len(xact) + 1
          /\ \A i \in DOMAIN atab : atab[i].xmin # Len(xact) + 1
      BY <1>2, Rows DEF ApartInv, IInv, XidsOf, NoXid
    <2>2. QED  BY <1>1, <1>4, <2>1 DEF VersionsInv, WritesTouched
  <1>10. QED  BY <1>1, <1>4, <1>6, <1>7, <1>8, <1>9 DEF VersionsInv

LEMMA VersionsEnd ==
    ASSUME ApartInv, VersionsInv, NEW b \in Backend, xid[b] # NoXid,
           \/ End(b, "committed") /\ pc[b] = "idle"
           \/ End(b, "aborted")
    PROVE  VersionsInv'
  <1>1. /\ UNCHANGED <<vtab, atab, pmap, vid>>
        /\ \/ xact' = [xact EXCEPT ![xid[b]] = "committed"] /\ pc[b] = "idle"
           \/ xact' = [xact EXCEPT ![xid[b]] = "aborted"]
        /\ xid'[b] = NoXid /\ pc'[b] = "idle"
        /\ \A c \in Backend \ {b} : xid'[c] = xid[c] /\ touched'[c] = touched[c]
        /\ xact[xid[b]] = "running" /\ xid[b] \in DOMAIN xact /\ OnlyBy(b)
    BY DEF End, Goto, OnlyBy, ApartInv, IInv, TypeOK, OpenXactsRun, XidsOf
  <1>2. \A x \in DOMAIN xact : x # xid[b] => xact'[x] = xact[x]
    BY <1>1
  <1>3. LogGrows(xact, xact') /\ DOMAIN xact' = DOMAIN xact
    BY <1>1, <1>2 DEF LogGrows, XidsOf, DidAbort, DidCommit
  <1>4. \/ DidCommit(xact', xid[b]) /\ pc[b] = "idle"
        \/ DidAbort(xact', xid[b])
    BY <1>1 DEF DidAbort, DidCommit
  <1>5. VertexSlots' = VertexSlots /\ BitsetSlots' = BitsetSlots
    BY <1>1 DEF VertexSlots, BitsetSlots
  <1>6. /\ VertexWork'[b].phase = "none" /\ BitsetWork'[b].phase = "none"
        /\ VertexWork[b].x = xid[b] /\ BitsetWork[b].x = xid[b]
        /\ pc[b] = "idle" => VertexWork[b].phase = "none" /\ BitsetWork[b].phase = "none"
    BY <1>1, WorkFacts, WorkNext, PhaseFacts
  <1>7. /\ StoreInv(xact', vtab, VertexSlots, VertexWork')
        /\ StoreInv(xact', atab, BitsetSlots, BitsetWork')
    <2>1. /\ StoreBase(xact, vtab, VertexWork) /\ StoreInv(xact, vtab, VertexSlots, VertexWork)
          /\ StoreBase(xact, atab, BitsetWork) /\ StoreInv(xact, atab, BitsetSlots, BitsetWork)
      BY Bases DEF VersionsInv
    <2>2. StoreInv(xact', vtab, VertexSlots, VertexWork')
      BY <1>1, <1>3, <1>4, <1>6, <2>1, OthersWork, StoreKept DEF Leaves, XactGoes
    <2>3. StoreInv(xact', atab, BitsetSlots, BitsetWork')
      BY <1>1, <1>3, <1>4, <1>6, <2>1, OthersWork, StoreKept DEF Leaves, XactGoes
    <2>4. QED  BY <2>2, <2>3
  <1>8. \A c \in Backend : Mirrors(c)'
    BY <1>1 DEF VersionsInv, Mirrors, OnlyBy, HasRow
  <1>9. XactsHeld'
    <2>1. SUFFICES ASSUME NEW x \in DOMAIN xact, xact'[x] = "running"
                   PROVE  \E c \in Backend : xid'[c] = x
      BY <1>3 DEF XactsHeld
    <2>2. x # xid[b]
      BY <1>1, <2>1
    <2>3. PICK c \in Backend : xid[c] = x
      BY <1>2, <2>1, <2>2 DEF VersionsInv, XactsHeld
    <2>4. QED  BY <1>1, <2>2, <2>3
  <1>10. SlotsOfRows' /\ WritesTouched(vtab)' /\ WritesTouched(atab)'
    BY <1>1 DEF VersionsInv, SlotsOfRows, HasRow, WritesTouched
  <1>11. QED  BY <1>1, <1>5, <1>7, <1>8, <1>9, <1>10 DEF VersionsInv

\* Who turns to a vertex finds nobody else at work on it.
LEMMA TouchedAlone ==
    ASSUME CallsApart, ApartInv, NEW b \in Backend, NEW v \in Vertex, Touch(b, v)
    PROVE  /\ \A c \in Backend \ {b} : pc[c] # "idle" => vid[c] # v
           /\ pc[b] = "idle" /\ xid[b] # NoXid /\ vid'[b] = v /\ v \in touched'[b]
           /\ \A c \in Backend : touched[c] \subseteq touched'[c]
    BY DEF Touch, ApartInv, VerticesApart, IInv, TypeOK

LEMMA SameTables ==
    ASSUME NEW tab, NEW b
    PROVE  Extends(tab, tab) /\ RowsBy(b, tab, tab)
    BY DEF Extends, RowsBy

\* A row that b appends is the only new one.
LEMMA OneRowMore ==
    ASSUME NEW b, NEW S, NEW tab \in Seq(S), NEW row \in S, row.xmin = xid[b], row.id \in touched'[b]
    PROVE  Extends(Append(tab, row), tab) /\ RowsBy(b, tab, Append(tab, row))
  <1> DEFINE new == Append(tab, row)
  <1>1. /\ DOMAIN new = DOMAIN tab \cup {Len(tab) + 1} /\ new[Len(tab) + 1] = row
        /\ \A i \in DOMAIN tab : new[i] = tab[i]
        /\ Extends(new, tab)
    BY AppendFacts
  <1> HIDE DEF new
  <1>2. RowsBy(b, tab, new)
    BY <1>1 DEF RowsBy
  <1>3. QED  BY <1>1, <1>2 DEF new

LEMMA VersionsRead ==
    ASSUME CallsApart, ApartInv, VersionsInv, NEW b \in Backend, NEW v \in Vertex,
           \/ PushEdge(b, v)
           \/ \E step \in {"updateCheck", "annotateCheck", "deleteStamp"} : ReadMap(b, v, step)
    PROVE  VersionsInv'
  <1>1. /\ UNCHANGED <<xact, xid, vtab, atab>> /\ Touch(b, v) /\ OnlyBy(b)
        /\ pc'[b] \in {"idle", "updateCheck", "annotateCheck", "deleteStamp"}
        /\ pc'[b] # "idle" => rec'[b] = pmap[v] /\ pmap' = pmap
        /\ pmap' = pmap \/ \E e : pmap' = [pmap EXCEPT ![v].e = e]
    BY DEF PushEdge, ReadMap, Touch, Goto, OnlyBy, ApartInv, IInv, TypeOK
  <1>2. /\ \A c \in Backend \ {b} : pc[c] # "idle" => vid[c] # v
        /\ pc[b] = "idle" /\ vid'[b] = v /\ \A c \in Backend : touched[c] \subseteq touched'[c]
    BY <1>1, TouchedAlone
  <1>3. VertexSlots' = VertexSlots /\ BitsetSlots' = BitsetSlots
    <2>1. \A u \in Vertex : pmap'[u].v = pmap[u].v /\ pmap'[u].a = pmap[u].a
      <3>1. \A u \in Vertex : pmap[u] \in MapRecord /\ DOMAIN pmap = Vertex
        BY DEF ApartInv, IInv, TypeOK
      <3>2. QED  BY <1>1, <3>1 DEF MapRecord
    <2>2. QED  BY <2>1 DEF VertexSlots, BitsetSlots
  <1>4. \A u \in Vertex : pmap'[u] = pmap[u] \/ (u = v /\ HasRow(v))
    <2>1. CASE pmap' = pmap
      BY <2>1
    <2>2. CASE PushEdge(b, v)
      <3>1. pmap[v].v # NoRow /\ \A u \in Vertex \ {v} : pmap'[u] = pmap[u]
        BY <2>2 DEF PushEdge, ApartInv, IInv, TypeOK
      <3>2. QED  BY <3>1 DEF ApartInv, IInv, MapTargets, IsVersionOf, HasRow
    <2>3. QED  BY <2>1, <2>2 DEF ReadMap
  <1>5. Mirrors(b)'
    <2>1. pc'[b] # "idle" => HasRow(v)'
      BY <1>1, <1>2 DEF PushEdge, ReadMap, HasRow
    <2>2. QED  BY <1>1, <1>2, <2>1 DEF Mirrors, HasRow
  <1>6. /\ StoreInv(xact', vtab', VertexSlots', VertexWork')
        /\ StoreInv(xact', atab', BitsetSlots', BitsetWork')
    <2>1. /\ VertexPhase(pc[b]) = "none" /\ VertexPhase(pc'[b]) = "none"
          /\ BitsetPhase(pc[b], rec[b].a) = "none" /\ BitsetPhase(pc'[b], rec'[b].a) = "none"
      BY <1>1, <1>2, PhaseFacts
    <2>2. StoreInv(xact', vtab', VertexSlots', VertexWork')
      BY <1>1, <1>3, <2>1, VertexQuiet
    <2>3. QED  BY <1>1, <1>3, <2>1, <2>2, BitsetQuiet
  <1>7. QED  BY <1>1, <1>2, <1>4, <1>5, <1>6, SameTables, VersionsKept

LEMMA VersionsInsert ==
    ASSUME CallsApart, ApartInv, VersionsInv, NEW b \in Backend, NEW v \in Vertex,
           InsertVertex(b, v)
    PROVE  VersionsInv'
  <1> DEFINE row == VertexTuple(b, v, NoRow)
  <1>1. /\ UNCHANGED <<xact, xid, atab, pmap>> /\ Touch(b, v) /\ OnlyBy(b)
        /\ vtab' = Append(vtab, row) /\ pc'[b] = "insertBits"
        /\ rec'[b] = [v |-> Len(vtab) + 1, e |-> 0, a |-> NoRow]
        /\ \A i \in DOMAIN vtab : vtab[i].id # v
    BY DEF InsertVertex, Touch, Goto, OnlyBy, ApartInv, IInv, TypeOK
  <1>2. /\ \A c \in Backend \ {b} : pc[c] # "idle" => vid[c] # v
        /\ pc[b] = "idle" /\ xid[b] # NoXid /\ vid'[b] = v /\ v \in touched'[b]
        /\ \A c \in Backend : touched[c] \subseteq touched'[c]
    BY <1>1, TouchedAlone
  <1>3. /\ vtab \in Seq(VertexRow) /\ row \in VertexRow
        /\ row.id = v /\ row.xmin = xid[b] /\ row.prev = NoRow
    BY DEF ApartInv, IInv, TypeOK, VertexTuple, VertexRow, XidsOf, NoXid, NoRow
  <1> HIDE DEF row
  <1>4. pmap[v] = EmptySlot /\ VertexSlots' = VertexSlots /\ BitsetSlots' = BitsetSlots
    BY <1>1 DEF VersionsInv, SlotsOfRows, HasRow, VertexSlots, BitsetSlots
  <1>5. /\ DOMAIN vtab' = DOMAIN vtab \cup {Len(vtab) + 1} /\ vtab'[Len(vtab) + 1] = row
        /\ \A i \in DOMAIN vtab : vtab'[i] = vtab[i]
        /\ Len(vtab) + 1 \notin DOMAIN vtab /\ Len(vtab) + 1 # NoRow
        /\ Extends(vtab', vtab) /\ RowsBy(b, vtab, vtab')
    <2>1. DOMAIN vtab = 1 .. Len(vtab) /\ Len(vtab) \in Nat
      BY <1>3, AppendFacts
    <2>2. Len(vtab) + 1 \notin DOMAIN vtab /\ Len(vtab) + 1 # NoRow
      BY <2>1 DEF NoRow
    <2>3. Extends(vtab', vtab) /\ RowsBy(b, vtab, vtab')
      BY <1>1, <1>2, <1>3, OneRowMore
    <2>4. QED  BY <1>1, <1>3, <2>2, <2>3, AppendFacts
  <1>6. StoreInv(xact', vtab', VertexSlots', VertexWork')
    <2>1. /\ VertexWork[b].phase = "none" /\ VertexWork[b].x = xid[b]
          /\ VertexWork'[b].phase = "added" /\ VertexWork'[b].x = xid[b]
          /\ VertexWork'[b].new = Len(vtab) + 1 /\ VertexWork'[b].v = v
      BY <1>1, <1>2, WorkFacts, WorkNext, PhaseFacts
    <2>2. ASSUME NEW c \in Backend \ {b}
          PROVE  /\ VertexWork'[c] = VertexWork[c]
                 /\ VertexWork[c].phase # "none" => VertexWork[c].v # v
      BY <1>1, <1>2, OthersWork, WorkFacts, PhaseFacts
    <2>3. VertexSlots[v] = NoRow
      BY <1>4, SlotFacts DEF EmptySlot
    <2>4. StoreBase(xact, vtab, VertexWork) /\ StoreInv(xact, vtab, VertexSlots, VertexWork)
      BY Bases DEF VersionsInv
    <2>5. StoreInv(xact, vtab', VertexSlots, VertexWork')
      BY <1>2, <1>3, <1>5, <2>1, <2>2, <2>3, <2>4, StoreAppend
    <2>6. QED  BY <1>1, <1>4, <2>5
  <1>7. StoreInv(xact', atab', BitsetSlots', BitsetWork')
    BY <1>1, <1>2, <1>4, PhaseFacts, BitsetQuiet
  <1>8. Mirrors(b)'
    <2>1. HasRow(v)'
      BY <1>3, <1>5 DEF HasRow
    <2>2. QED  BY <1>1, <1>2, <1>4, <2>1 DEF Mirrors, HasRow
  <1>9. QED  BY <1>1, <1>2, <1>5, <1>6, <1>7, <1>8, SameTables, VersionsKept

\* What a backend inside an operation knows.
LEMMA InsideFacts ==
    ASSUME ApartInv, NEW b \in Backend, pc[b] # "idle"
    PROVE  /\ xid[b] # NoXid /\ vid[b] \in touched[b] /\ vid[b] \in Vertex
           /\ rec[b] \in MapRecord /\ pmap[vid[b]] \in MapRecord
           /\ \A c \in Backend \ {b} : pc[c] # "idle" => vid[c] # vid[b]
           /\ \A c \in Backend \ {b} :
                /\ VertexWork[c].phase # "none" => VertexWork[c].v # vid[b]
                /\ BitsetWork[c].phase # "none" => BitsetWork[c].v # vid[b]
  <1>1. /\ xid[b] # NoXid /\ vid[b] \in touched[b] /\ vid[b] \in Vertex
        /\ rec[b] \in MapRecord /\ pmap[vid[b]] \in MapRecord
    BY DEF ApartInv, VerticesApart, IInv, TypeOK, SavedTargets
  <1>2. \A c \in Backend \ {b} : pc[c] # "idle" => vid[c] # vid[b]
    BY InsideApart
  <1>3. ASSUME NEW c \in Backend \ {b}
        PROVE  /\ VertexWork[c].phase # "none" => VertexWork[c].v # vid[b]
               /\ BitsetWork[c].phase # "none" => BitsetWork[c].v # vid[b]
    BY <1>2, WorkFacts, PhaseFacts
  <1>4. QED  BY <1>1, <1>2, <1>3

LEMMA VersionsInsertBits ==
    ASSUME ApartInv, VersionsInv, NEW b \in Backend, InsertBits(b) PROVE VersionsInv'
  <1>1. /\ UNCHANGED <<xact, xid, vtab, pmap, touched, vid, old>> /\ OnlyBy(b)
        /\ pc[b] = "insertBits" /\ pc'[b] = "placeMap" /\ rec'[b].v = rec[b].v
        /\ VertexSlots' = VertexSlots /\ BitsetSlots' = BitsetSlots
    <2>1. rec[b] \in MapRecord /\ rec \in [Backend -> MapRecord]
      BY DEF ApartInv, IInv, TypeOK
    <2>2. rec'[b].v = rec[b].v
      BY <2>1 DEF InsertBits, MapRecord
    <2>3. QED
      BY <2>2 DEF InsertBits, Goto, OnlyBy, ApartInv, IInv, TypeOK, VertexSlots, BitsetSlots
  <1>2. /\ xid[b] # NoXid /\ vid[b] \in touched'[b] /\ vid[b] \in Vertex
        /\ \A c \in Backend \ {b} : /\ pc[c] # "idle" => vid[c] # vid[b]
                                    /\ BitsetWork[c].phase # "none" => BitsetWork[c].v # vid[b]
    BY <1>1, InsideFacts
  <1>3. pmap[vid[b]] = EmptySlot /\ rec[b].a = NoRow
    BY <1>1 DEF VersionsInv, Mirrors
  <1>4. StoreInv(xact', vtab', VertexSlots', VertexWork')
    <2>1. ASSUME NEW c \in Backend PROVE VertexWork'[c] = VertexWork[c]
      <3>1. CASE c = b
        <4>1. VertexPhase(pc'[b]) = VertexPhase(pc[b])
          BY <1>1, PhaseFacts
        <4>2. QED  BY <1>1, <3>1, <4>1 DEF VertexWork
      <3>2. QED  BY <1>1, <3>1, OthersWork
    <2>2. VertexWork' = VertexWork
      BY <2>1 DEF VertexWork
    <2>3. QED  BY <1>1, <2>2 DEF VersionsInv
  <1>5. Mirrors(b)'
    BY <1>1, <1>3 DEF VersionsInv, Mirrors, HasRow
  <1>6. CASE UNCHANGED <<atab, rec>>
    <2>1. StoreInv(xact', atab', BitsetSlots', BitsetWork')
      BY <1>1, <1>3, <1>6, PhaseFacts, BitsetQuiet
    <2>2. QED  BY <1>1, <1>2, <1>4, <1>5, <1>6, <2>1, SameTables, VersionsKept
  <1>7. ASSUME NEW set \in SUBSET Annotation,
               atab' = Append(atab, BitsetTuple(b, vid[b], NoRow, set)), rec'[b].a = Len(atab) + 1
        PROVE  VersionsInv'
    <2> DEFINE row == BitsetTuple(b, vid[b], NoRow, set)
    <2>1. /\ atab \in Seq(BitsetRow) /\ row \in BitsetRow
          /\ row.id = vid[b] /\ row.xmin = xid[b] /\ row.prev = NoRow
      BY DEF ApartInv, IInv, TypeOK, BitsetTuple, BitsetRow, XidsOf, NoXid, NoRow
    <2>2. atab' = Append(atab, row)
      BY <1>7
    <2> HIDE DEF row
    <2>3. /\ DOMAIN atab' = DOMAIN atab \cup {Len(atab) + 1} /\ atab'[Len(atab) + 1] = row
          /\ \A i \in DOMAIN atab : atab'[i] = atab[i]
          /\ DOMAIN atab = 1 .. Len(atab) /\ Len(atab) \in Nat
      BY <2>1, <2>2, AppendFacts
    <2>4. Extends(atab', atab) /\ RowsBy(b, atab, atab')
      BY <1>2, <2>1, <2>2, OneRowMore
    <2>5. Len(atab) + 1 \notin DOMAIN atab /\ Len(atab) + 1 # NoRow
      BY <2>3 DEF NoRow
    <2>6. /\ BitsetWork[b].phase = "none" /\ BitsetWork[b].x = xid[b]
          /\ BitsetWork'[b].phase = "added" /\ BitsetWork'[b].x = xid[b]
          /\ BitsetWork'[b].new = Len(atab) + 1 /\ BitsetWork'[b].v = vid[b]
      BY <1>1, <1>3, <1>7, <2>5, WorkFacts, WorkNext, PhaseFacts
    <2>7. BitsetSlots[vid[b]] = NoRow
      BY <1>2, <1>3, SlotFacts DEF EmptySlot
    <2>8. StoreBase(xact, atab, BitsetWork) /\ StoreInv(xact, atab, BitsetSlots, BitsetWork)
      BY Bases DEF VersionsInv
    <2>9. \A c \in Backend \ {b} : BitsetWork'[c] = BitsetWork[c]
      BY <1>1, OthersWork
    <2>10. StoreInv(xact, atab', BitsetSlots, BitsetWork')
      <3>1. \A c \in Backend \ {b} : /\ BitsetWork'[c] = BitsetWork[c]
                                     /\ BitsetWork[c].phase # "none" => BitsetWork[c].v # vid[b]
        BY <1>2, <2>9
      <3>2. DOMAIN atab' = DOMAIN atab \cup {Len(atab) + 1} /\ \A i \in DOMAIN atab : atab'[i] = atab[i]
        BY <2>3
      <3>3. /\ atab'[Len(atab) + 1].id = vid[b] /\ atab'[Len(atab) + 1].xmin = BitsetWork[b].x
            /\ atab'[Len(atab) + 1].prev = BitsetSlots[vid[b]]
        BY <2>1, <2>3, <2>6, <2>7
      <3>4. BitsetWork[b].x # NoXid
        BY <1>2, <2>6
      <3>5. QED  BY <2>5, <2>6, <2>7, <2>8, <3>1, <3>2, <3>3, <3>4, StoreAppend
    <2>11. StoreInv(xact', atab', BitsetSlots', BitsetWork')
      BY <1>1, <2>10
    <2>12. QED  BY <1>1, <1>2, <1>4, <1>5, <2>4, <2>11, SameTables, VersionsKept
  <1>8. QED
    <2>1. rec[b] \in MapRecord /\ rec \in [Backend -> MapRecord]
      BY DEF ApartInv, IInv, TypeOK
    <2>2. ASSUME rec' = [rec EXCEPT ![b].a = Len(atab) + 1] PROVE rec'[b].a = Len(atab) + 1
      BY <2>1, <2>2 DEF MapRecord
    <2>3. QED  BY <1>6, <1>7, <2>2 DEF InsertBits

\* A write of the saved record to the slot of the vertex at hand.
LEMMA SlotWritten ==
    ASSUME ApartInv, VersionsInv, NEW b \in Backend, pc[b] # "idle",
           pmap' = [pmap EXCEPT ![vid[b]] = rec[b]]
    PROVE  /\ pmap'[vid[b]] = rec[b]
           /\ VertexSlots'[vid[b]] = rec[b].v /\ BitsetSlots'[vid[b]] = rec[b].a
           /\ \A v \in Vertex : v # vid[b] => /\ pmap'[v] = pmap[v]
                                              /\ VertexSlots'[v] = VertexSlots[v]
                                              /\ BitsetSlots'[v] = BitsetSlots[v]
           /\ \A v \in Vertex :
                \/ pmap'[v] = pmap[v]
                \/ /\ \A c \in Backend \ {b} : pc[c] # "idle" => vid[c] # v
                   /\ HasRow(v)
           /\ rec[b].v = pmap[vid[b]].v => VertexSlots' = VertexSlots
           /\ rec[b].a = pmap[vid[b]].a => BitsetSlots' = BitsetSlots
  <1>1. vid[b] \in Vertex /\ \A c \in Backend \ {b} : pc[c] # "idle" => vid[c] # vid[b]
    BY InsideFacts
  <1>2. pmap'[vid[b]] = rec[b] /\ \A v \in Vertex : v # vid[b] => pmap'[v] = pmap[v]
    BY <1>1 DEF ApartInv, IInv, TypeOK
  <1>3. VertexSlots'[vid[b]] = rec[b].v /\ BitsetSlots'[vid[b]] = rec[b].a
    BY <1>1, <1>2, SlotsNext
  <1>4. ASSUME NEW v \in Vertex, v # vid[b]
        PROVE  VertexSlots'[v] = VertexSlots[v] /\ BitsetSlots'[v] = BitsetSlots[v]
    BY <1>2, <1>4, SlotsNext, SlotFacts
  <1>5. HasRow(vid[b])
    BY DEF VersionsInv, Mirrors
  <1>6. rec[b].v = pmap[vid[b]].v => VertexSlots' = VertexSlots
    BY <1>1, <1>2 DEF VertexSlots
  <1>7. rec[b].a = pmap[vid[b]].a => BitsetSlots' = BitsetSlots
    BY <1>1, <1>2 DEF BitsetSlots
  <1>8. QED  BY <1>1, <1>2, <1>3, <1>4, <1>5, <1>6, <1>7

LEMMA VersionsPlaceMap ==
    ASSUME ApartInv, VersionsInv, NEW b \in Backend, PlaceMap(b) PROVE VersionsInv'
  <1>1. /\ UNCHANGED <<xact, xid, vtab, atab, touched, vid, rec, old>> /\ OnlyBy(b)
        /\ pc[b] = "placeMap" /\ pc'[b] = "idle" /\ pmap' = [pmap EXCEPT ![vid[b]] = rec[b]]
    BY DEF PlaceMap, Goto, OnlyBy, ApartInv, IInv, TypeOK
  <1>2. /\ StoreBase(xact, vtab, VertexWork) /\ StoreInv(xact, vtab, VertexSlots, VertexWork)
        /\ StoreBase(xact, atab, BitsetWork) /\ StoreInv(xact, atab, BitsetSlots, BitsetWork)
    BY Bases DEF VersionsInv
  <1>3. /\ VertexSlots'[vid[b]] = rec[b].v /\ BitsetSlots'[vid[b]] = rec[b].a
        /\ \A v \in Vertex : v # vid[b] => /\ VertexSlots'[v] = VertexSlots[v]
                                           /\ BitsetSlots'[v] = BitsetSlots[v]
        /\ \A v \in Vertex :
             \/ pmap'[v] = pmap[v]
             \/ (\A c \in Backend \ {b} : pc[c] # "idle" => vid[c] # v) /\ HasRow(v)
        /\ rec[b].a = pmap[vid[b]].a => BitsetSlots' = BitsetSlots
    BY <1>1, SlotWritten
  <1>4. /\ \A i \in DOMAIN vtab : vtab[i].id \in Vertex
        /\ \A i \in DOMAIN atab : atab[i].id \in Vertex
        /\ \A c \in Backend : VertexWork[c].v \in Vertex /\ BitsetWork[c].v \in Vertex
    BY Rows, WorkFacts DEF ApartInv, IInv, TypeOK
  <1>5. /\ VertexWork[b].v = vid[b] /\ VertexWork[b].new = rec[b].v /\ VertexWork[b].phase = "added"
        /\ VertexWork'[b].x = VertexWork[b].x /\ VertexWork'[b].v = VertexWork[b].v
        /\ VertexWork'[b].old = VertexWork[b].old /\ VertexWork'[b].phase = "none"
    BY <1>1, WorkFacts, WorkNext, PhaseFacts
  <1>6. /\ BitsetWork[b].v = vid[b] /\ BitsetWork[b].new = rec[b].a
        /\ rec[b].a # NoRow => BitsetWork[b].phase = "added"
        /\ BitsetWork'[b].x = BitsetWork[b].x /\ BitsetWork'[b].v = BitsetWork[b].v
        /\ BitsetWork'[b].old = BitsetWork[b].old /\ BitsetWork'[b].phase = "none"
    BY <1>1, WorkFacts, WorkNext, PhaseFacts
  <1>7. \A c \in Backend \ {b} : VertexWork'[c] = VertexWork[c] /\ BitsetWork'[c] = BitsetWork[c]
    BY <1>1, OthersWork
  <1>8. StoreInv(xact, vtab, VertexSlots', VertexWork')
    BY <1>2, <1>3, <1>4, <1>5, <1>7, StoreMap
  <1>9. StoreInv(xact', atab', BitsetSlots', BitsetWork')
    <2>1. CASE rec[b].a = NoRow
      <3>1. rec[b].a = pmap[vid[b]].a
        BY <1>1, <2>1 DEF VersionsInv, Mirrors, EmptySlot
      <3>2. BitsetPhase(pc[b], rec[b].a) = "none" /\ BitsetPhase(pc'[b], rec'[b].a) = "none"
        BY <1>1, <2>1, PhaseFacts
      <3>3. QED  BY <1>1, <1>3, <3>1, <3>2, BitsetQuiet
    <2>2. CASE rec[b].a # NoRow
      <3>1. StoreInv(xact, atab, BitsetSlots', BitsetWork')
        BY <1>2, <1>3, <1>4, <1>6, <1>7, <2>2, StoreMap
      <3>2. QED  BY <1>1, <3>1
    <2>3. QED  BY <2>1, <2>2
  <1>10. Mirrors(b)'
    BY <1>1 DEF Mirrors
  <1>11. StoreInv(xact', vtab', VertexSlots', VertexWork')
    BY <1>1, <1>8
  <1>12. Extends(vtab', vtab) /\ RowsBy(b, vtab, vtab') /\ RowsBy(b, atab, atab')
    BY <1>1, SameTables
  <1>13. QED  BY <1>1, <1>3, <1>9, <1>10, <1>11, <1>12, VersionsKept

LEMMA VersionsOverwriteMap ==
    ASSUME ApartInv, VersionsInv, NEW b \in Backend, OverwriteMap(b) PROVE VersionsInv'
  <1>1. /\ UNCHANGED <<xact, xid, vtab, atab, touched, vid, rec, old>> /\ OnlyBy(b)
        /\ \/ pc[b] = "updateMap" /\ pc'[b] = "updateStamp"
           \/ pc[b] = "annotateMap" /\ pc'[b] = "annotateStamp"
        /\ pmap' = [pmap EXCEPT ![vid[b]] = rec[b]]
    BY DEF OverwriteMap, Goto, OnlyBy, ApartInv, IInv, TypeOK
  <1>2. /\ StoreBase(xact, vtab, VertexWork) /\ StoreInv(xact, vtab, VertexSlots, VertexWork)
        /\ StoreBase(xact, atab, BitsetWork) /\ StoreInv(xact, atab, BitsetSlots, BitsetWork)
    BY Bases DEF VersionsInv
  <1>3. /\ VertexSlots'[vid[b]] = rec[b].v /\ BitsetSlots'[vid[b]] = rec[b].a
        /\ \A v \in Vertex : v # vid[b] => /\ VertexSlots'[v] = VertexSlots[v]
                                           /\ BitsetSlots'[v] = BitsetSlots[v]
        /\ \A v \in Vertex :
             \/ pmap'[v] = pmap[v]
             \/ (\A c \in Backend \ {b} : pc[c] # "idle" => vid[c] # v) /\ HasRow(v)
        /\ rec[b].v = pmap[vid[b]].v => VertexSlots' = VertexSlots
        /\ rec[b].a = pmap[vid[b]].a => BitsetSlots' = BitsetSlots
        /\ pmap'[vid[b]] = rec[b]
    BY ZenonT(60), <1>1, SlotWritten
  <1>4. /\ \A i \in DOMAIN vtab : vtab[i].id \in Vertex
        /\ \A i \in DOMAIN atab : atab[i].id \in Vertex
        /\ \A c \in Backend : VertexWork[c].v \in Vertex /\ BitsetWork[c].v \in Vertex
    BY Rows, WorkFacts DEF ApartInv, IInv, TypeOK
  <1>5. \A c \in Backend \ {b} : VertexWork'[c] = VertexWork[c] /\ BitsetWork'[c] = BitsetWork[c]
    BY <1>1, OthersWork
  <1>6. /\ \A i \in DOMAIN vtab : vtab[i].id # vid[b] => VertexSlots'[vtab[i].id] = VertexSlots[vtab[i].id]
        /\ \A c \in Backend : VertexWork[c].v # vid[b] =>
             VertexSlots'[VertexWork[c].v] = VertexSlots[VertexWork[c].v]
    BY <1>3, <1>4
  <1>7. /\ \A i \in DOMAIN atab : atab[i].id # vid[b] => BitsetSlots'[atab[i].id] = BitsetSlots[atab[i].id]
        /\ \A c \in Backend : BitsetWork[c].v # vid[b] =>
             BitsetSlots'[BitsetWork[c].v] = BitsetSlots[BitsetWork[c].v]
    BY <1>3, <1>4
  <1>8. VertexSlots'[vid[b]] = rec[b].v /\ BitsetSlots'[vid[b]] = rec[b].a
    BY <1>3
  <1>9. ASSUME pc[b] = "updateMap"
        PROVE  /\ StoreInv(xact, vtab, VertexSlots', VertexWork')
               /\ StoreInv(xact, atab, BitsetSlots', BitsetWork')
    <2>1. /\ VertexWork[b].v = vid[b] /\ VertexWork[b].new = rec[b].v
          /\ VertexWork[b].phase = "flying" /\ VertexWork'[b].phase = "stamping"
          /\ VertexWork'[b].x = VertexWork[b].x /\ VertexWork'[b].v = VertexWork[b].v
          /\ VertexWork'[b].old = VertexWork[b].old
      BY <1>1, <1>9, WorkFacts, WorkNext, PhaseFacts
    <2>2. StoreInv(xact, vtab, VertexSlots', VertexWork')
      <3>1. /\ VertexSlots'[VertexWork[b].v] = VertexWork[b].new
            /\ \A i \in DOMAIN vtab : vtab[i].id # VertexWork[b].v =>
                 VertexSlots'[vtab[i].id] = VertexSlots[vtab[i].id]
            /\ \A c \in Backend \ {b} : VertexWork[c].v # VertexWork[b].v =>
                 VertexSlots'[VertexWork[c].v] = VertexSlots[VertexWork[c].v]
        BY <1>6, <1>8, <2>1
      <3>2. StoreBase(xact, vtab, VertexWork) /\ StoreInv(xact, vtab, VertexSlots, VertexWork)
        BY <1>2
      <3>3. \A c \in Backend \ {b} : VertexWork'[c] = VertexWork[c]
        BY <1>5
      <3>4. QED  BY <2>1, <3>1, <3>2, <3>3, StoreMap
    <2>3. rec[b].a = pmap[vid[b]].a
      BY <1>9 DEF VersionsInv, Mirrors
    <2>4. BitsetPhase(pc[b], rec[b].a) = "none" /\ BitsetPhase(pc'[b], rec'[b].a) = "none"
      BY <1>1, <1>9, PhaseFacts
    <2>5. StoreInv(xact', atab', BitsetSlots', BitsetWork')
      BY <1>1, <1>3, <2>3, <2>4, BitsetQuiet
    <2>6. QED  BY <1>1, <2>2, <2>5
  <1>10. ASSUME pc[b] = "annotateMap"
        PROVE  /\ StoreInv(xact, vtab, VertexSlots', VertexWork')
               /\ StoreInv(xact, atab, BitsetSlots', BitsetWork')
    <2>1. /\ BitsetWork[b].v = vid[b] /\ BitsetWork[b].new = rec[b].a
          /\ BitsetWork[b].phase = "flying" /\ BitsetWork'[b].phase = "stamping"
          /\ BitsetWork'[b].x = BitsetWork[b].x /\ BitsetWork'[b].v = BitsetWork[b].v
          /\ BitsetWork'[b].old = BitsetWork[b].old
      BY <1>1, <1>10, WorkFacts, WorkNext, PhaseFacts
    <2>2. StoreInv(xact, atab, BitsetSlots', BitsetWork')
      <3>1. /\ BitsetSlots'[BitsetWork[b].v] = BitsetWork[b].new
            /\ \A i \in DOMAIN atab : atab[i].id # BitsetWork[b].v =>
                 BitsetSlots'[atab[i].id] = BitsetSlots[atab[i].id]
            /\ \A c \in Backend \ {b} : BitsetWork[c].v # BitsetWork[b].v =>
                 BitsetSlots'[BitsetWork[c].v] = BitsetSlots[BitsetWork[c].v]
        BY <1>7, <1>8, <2>1
      <3>2. StoreBase(xact, atab, BitsetWork) /\ StoreInv(xact, atab, BitsetSlots, BitsetWork)
        BY <1>2
      <3>3. \A c \in Backend \ {b} : BitsetWork'[c] = BitsetWork[c]
        BY <1>5
      <3>4. QED  BY <2>1, <3>1, <3>2, <3>3, StoreMap
    <2>3. rec[b].v = pmap[vid[b]].v
      BY <1>10 DEF VersionsInv, Mirrors
    <2>4. VertexPhase(pc[b]) = "none" /\ VertexPhase(pc'[b]) = "none"
      BY <1>1, <1>10, PhaseFacts
    <2>5. StoreInv(xact', vtab', VertexSlots', VertexWork')
      BY <1>1, <1>3, <2>3, <2>4, VertexQuiet
    <2>6. QED  BY <1>1, <2>2, <2>5
  <1>11. Mirrors(b)'
    BY <1>1, <1>3 DEF VersionsInv, Mirrors, HasRow
  <1>12. Extends(vtab', vtab) /\ RowsBy(b, vtab, vtab') /\ RowsBy(b, atab, atab')
    BY <1>1, SameTables
  <1>13. /\ StoreInv(xact', vtab', VertexSlots', VertexWork')
         /\ StoreInv(xact', atab', BitsetSlots', BitsetWork')
    BY <1>1, <1>9, <1>10
  <1>14. QED  BY <1>1, <1>3, <1>11, <1>12, <1>13, VersionsKept

LEMMA VersionsAppendVersion ==
    ASSUME ApartInv, VersionsInv, NEW b \in Backend, AppendVersion(b) PROVE VersionsInv'
  <1> DEFINE row == VertexTuple(b, vid[b], rec[b].v)
  <1>1. /\ UNCHANGED <<xact, xid, atab, pmap, touched, vid>> /\ OnlyBy(b)
        /\ pc[b] = "updateCheck" /\ pc'[b] = "updateMap" /\ vtab' = Append(vtab, row)
        /\ old'[b] = rec[b].v /\ rec' = [rec EXCEPT ![b].v = Len(vtab) + 1]
        /\ VertexSlots' = VertexSlots /\ BitsetSlots' = BitsetSlots
    BY DEF AppendVersion, Goto, OnlyBy, ApartInv, IInv, TypeOK, VertexSlots, BitsetSlots
  <1>2. rec'[b].v = Len(vtab) + 1 /\ rec'[b].e = rec[b].e /\ rec'[b].a = rec[b].a
    <2>1. rec[b] \in MapRecord /\ rec \in [Backend -> MapRecord]
      BY DEF ApartInv, IInv, TypeOK
    <2>2. QED  BY <1>1, <2>1 DEF MapRecord
  <1>3. /\ xid[b] # NoXid /\ vid[b] \in touched'[b] /\ vid[b] \in Vertex /\ rec[b] \in MapRecord
        /\ \A c \in Backend \ {b} :
             VertexWork[c].phase # "none" => VertexWork[c].v # vid[b]
    BY <1>1, InsideFacts
  <1>4. rec[b] = pmap[vid[b]] /\ HasRow(vid[b])
    BY <1>1 DEF VersionsInv, Mirrors
  <1>5. /\ vtab \in Seq(VertexRow) /\ row \in VertexRow
        /\ row.id = vid[b] /\ row.xmin = xid[b] /\ row.prev = rec[b].v
    <2>1. vid[b] \in Vertex /\ xid[b] \in XidsOf(xact) /\ vtab \in Seq(VertexRow) /\ rec[b].v \in Nat
      BY <1>3 DEF ApartInv, IInv, TypeOK, MapRecord
    <2>2. QED  BY <2>1 DEF VertexTuple, VertexRow, XidsOf, NoXid
  <1>6. /\ rec[b].v \in DOMAIN vtab /\ vtab[rec[b].v].id = vid[b] /\ rec[b].v # NoRow
        /\ FreeRow(xact, vtab, rec[b].v)
        /\ vtab[rec[b].v].xmin = xid[b] \/ DidCommit(xact, vtab[rec[b].v].xmin)
    <2>1. rec[b].v # NoRow /\ MayReplace(xact, xid[b], vtab[rec[b].v])
      BY DEF AppendVersion, VertexAdmits
    <2>2. rec[b].v \in DOMAIN vtab /\ vtab[rec[b].v].id = vid[b]
      BY <1>1, <2>1 DEF ApartInv, IInv, SavedTargets, RecordTargets, IsVersionOf
    <2>3. vtab[rec[b].v].xmax \in XidsOf(xact)
      BY <2>2, Rows DEF ApartInv, IInv
    <2>4. Unstamped(vtab, rec[b].v) /\ Written(b, vtab, rec[b].v)
      BY <1>3, <2>1, <2>2, <2>3, ReplaceableIsFree DEF ApartInv, IInv
    <2>5. QED  BY <2>1, <2>2, <2>4 DEF Unstamped, Written, FreeRow
  <1> HIDE DEF row
  <1>7. /\ DOMAIN vtab' = DOMAIN vtab \cup {Len(vtab) + 1} /\ vtab'[Len(vtab) + 1] = row
        /\ \A i \in DOMAIN vtab : vtab'[i] = vtab[i]
        /\ DOMAIN vtab = 1 .. Len(vtab) /\ Len(vtab) \in Nat
    BY <1>1, <1>5, AppendFacts
  <1>8. Len(vtab) + 1 \notin DOMAIN vtab /\ Len(vtab) + 1 # NoRow
    BY <1>7 DEF NoRow
  <1>9. Extends(vtab', vtab) /\ RowsBy(b, vtab, vtab') /\ RowsBy(b, atab, atab')
    BY <1>1, <1>3, <1>5, OneRowMore, SameTables
  <1>10. StoreInv(xact, vtab', VertexSlots, VertexWork')
    <2>1. /\ VertexWork[b].phase = "none" /\ VertexWork[b].x = xid[b]
          /\ VertexWork'[b].phase = "flying" /\ VertexWork'[b].x = xid[b]
          /\ VertexWork'[b].new = Len(vtab) + 1 /\ VertexWork'[b].v = vid[b]
          /\ VertexWork'[b].old = rec[b].v
      BY <1>1, <1>2, WorkFacts, WorkNext, PhaseFacts
    <2>2. VertexSlots[vid[b]] = rec[b].v
      BY <1>3, <1>4, SlotFacts
    <2>3. StoreBase(xact, vtab, VertexWork) /\ StoreInv(xact, vtab, VertexSlots, VertexWork)
      BY Bases DEF VersionsInv
    <2>4. \A c \in Backend \ {b} : /\ VertexWork'[c] = VertexWork[c]
                                   /\ VertexWork[c].phase # "none" => VertexWork[c].v # vid[b]
      BY <1>1, <1>3, OthersWork
    <2>5. DOMAIN vtab' = DOMAIN vtab \cup {Len(vtab) + 1} /\ \A i \in DOMAIN vtab : vtab'[i] = vtab[i]
      BY <1>7
    <2>6. /\ vtab'[Len(vtab) + 1].id = vid[b] /\ vtab'[Len(vtab) + 1].xmin = VertexWork[b].x
          /\ vtab'[Len(vtab) + 1].prev = VertexSlots[vid[b]] /\ VertexWork[b].x # NoXid
      BY <1>3, <1>5, <1>7, <2>1, <2>2
    <2>7. /\ VertexSlots[vid[b]] \in DOMAIN vtab /\ vtab[VertexSlots[vid[b]]].id = vid[b]
          /\ FreeRow(xact, vtab, VertexSlots[vid[b]])
          /\ \/ vtab[VertexSlots[vid[b]]].xmin = VertexWork[b].x
             \/ DidCommit(xact, vtab[VertexSlots[vid[b]]].xmin)
          /\ VertexWork'[b].phase = "flying" /\ VertexWork'[b].old = VertexSlots[vid[b]]
      BY <1>6, <2>1, <2>2
    <2>8. QED  BY <1>8, <2>1, <2>3, <2>4, <2>5, <2>6, <2>7, StoreAppend
  <1>11. StoreInv(xact', vtab', VertexSlots', VertexWork')
    BY <1>1, <1>10
  <1>12. StoreInv(xact', atab', BitsetSlots', BitsetWork')
    BY <1>1, PhaseFacts, BitsetQuiet
  <1>13. Mirrors(b)'
    BY <1>1, <1>2, <1>4, <1>7 DEF Mirrors, HasRow
  <1>14. QED  BY <1>1, <1>9, <1>11, <1>12, <1>13, VersionsKept

LEMMA VersionsAppendBitset ==
    ASSUME ApartInv, VersionsInv, NEW b \in Backend, AppendBitset(b) PROVE VersionsInv'
  <1>1. /\ UNCHANGED <<xact, xid, vtab, pmap, touched, vid>> /\ OnlyBy(b)
        /\ pc[b] = "annotateCheck" /\ pc'[b] = "annotateMap"
        /\ old'[b] = rec[b].a /\ rec' = [rec EXCEPT ![b].a = Len(atab) + 1]
        /\ VertexSlots' = VertexSlots /\ BitsetSlots' = BitsetSlots
    BY DEF AppendBitset, Goto, OnlyBy, ApartInv, IInv, TypeOK, VertexSlots, BitsetSlots
  <1>2. rec'[b].a = Len(atab) + 1 /\ rec'[b].e = rec[b].e /\ rec'[b].v = rec[b].v
    <2>1. rec[b] \in MapRecord /\ rec \in [Backend -> MapRecord]
      BY DEF ApartInv, IInv, TypeOK
    <2>2. QED  BY <1>1, <2>1 DEF MapRecord
  <1>3. /\ xid[b] # NoXid /\ vid[b] \in touched'[b] /\ vid[b] \in Vertex /\ rec[b] \in MapRecord
        /\ \A c \in Backend \ {b} :
             BitsetWork[c].phase # "none" => BitsetWork[c].v # vid[b]
    BY <1>1, InsideFacts
  <1>4. rec[b] = pmap[vid[b]] /\ HasRow(vid[b])
    BY <1>1 DEF VersionsInv, Mirrors
  <1>5. PICK set : atab' = Append(atab, BitsetTuple(b, vid[b], rec[b].a, set))
    BY DEF AppendBitset
  <1> DEFINE row == BitsetTuple(b, vid[b], rec[b].a, set)
             S == BitsetRow \cup {row}
  <1>6. /\ atab \in Seq(S) /\ row \in S /\ atab' = Append(atab, row)
        /\ row.id = vid[b] /\ row.xmin = xid[b] /\ row.prev = rec[b].a
    <2>1. atab \in Seq(BitsetRow)
      BY DEF ApartInv, IInv, TypeOK
    <2>2. atab \in Seq(S)
      BY <2>1, SeqMonotonic
    <2>3. QED  BY <1>5, <2>2 DEF BitsetTuple
  <1>7. ASSUME rec[b].a # NoRow
        PROVE  /\ rec[b].a \in DOMAIN atab /\ atab[rec[b].a].id = vid[b]
               /\ FreeRow(xact, atab, rec[b].a)
               /\ atab[rec[b].a].xmin = xid[b] \/ DidCommit(xact, atab[rec[b].a].xmin)
    <2>1. MayReplace(xact, xid[b], atab[rec[b].a])
      BY <1>7 DEF AppendBitset, BitsetAdmits
    <2>2. rec[b].a \in DOMAIN atab /\ atab[rec[b].a].id = vid[b]
      BY <1>1, <1>7 DEF ApartInv, IInv, SavedTargets, RecordTargets, IsVersionOf
    <2>3. atab[rec[b].a].xmax \in XidsOf(xact)
      BY <2>2, Rows DEF ApartInv, IInv
    <2>4. Unstamped(atab, rec[b].a) /\ Written(b, atab, rec[b].a)
      BY <1>3, <2>1, <2>2, <2>3, ReplaceableIsFree DEF ApartInv, IInv
    <2>5. QED  BY <2>1, <2>2, <2>4 DEF Unstamped, Written, FreeRow
  <1> HIDE DEF row, S
  <1>8. /\ DOMAIN atab' = DOMAIN atab \cup {Len(atab) + 1} /\ atab'[Len(atab) + 1] = row
        /\ \A i \in DOMAIN atab : atab'[i] = atab[i]
        /\ DOMAIN atab = 1 .. Len(atab) /\ Len(atab) \in Nat
    BY <1>6, AppendFacts
  <1>9. Len(atab) + 1 \notin DOMAIN atab /\ Len(atab) + 1 # NoRow
    BY <1>8 DEF NoRow
  <1>10. Extends(vtab', vtab) /\ RowsBy(b, vtab, vtab') /\ RowsBy(b, atab, atab')
    BY <1>1, <1>3, <1>6, OneRowMore, SameTables
  <1>11. StoreInv(xact, atab', BitsetSlots, BitsetWork')
    <2>1. /\ BitsetWork[b].phase = "none" /\ BitsetWork[b].x = xid[b]
          /\ BitsetWork'[b].phase = "flying" /\ BitsetWork'[b].x = xid[b]
          /\ BitsetWork'[b].new = Len(atab) + 1 /\ BitsetWork'[b].v = vid[b]
          /\ BitsetWork'[b].old = rec[b].a
      BY <1>1, <1>2, WorkFacts, WorkNext, PhaseFacts
    <2>2. BitsetSlots[vid[b]] = rec[b].a
      BY <1>3, <1>4, SlotFacts
    <2>3. StoreBase(xact, atab, BitsetWork) /\ StoreInv(xact, atab, BitsetSlots, BitsetWork)
      BY Bases DEF VersionsInv
    <2>4. \A c \in Backend \ {b} : /\ BitsetWork'[c] = BitsetWork[c]
                                   /\ BitsetWork[c].phase # "none" => BitsetWork[c].v # vid[b]
      BY <1>1, <1>3, OthersWork
    <2>5. DOMAIN atab' = DOMAIN atab \cup {Len(atab) + 1} /\ \A i \in DOMAIN atab : atab'[i] = atab[i]
      BY <1>8
    <2>6. /\ atab'[Len(atab) + 1].id = vid[b] /\ atab'[Len(atab) + 1].xmin = BitsetWork[b].x
          /\ atab'[Len(atab) + 1].prev = BitsetSlots[vid[b]] /\ BitsetWork[b].x # NoXid
      BY <1>3, <1>6, <1>8, <2>1, <2>2
    <2>7. BitsetSlots[vid[b]] # NoRow =>
          /\ BitsetSlots[vid[b]] \in DOMAIN atab /\ atab[BitsetSlots[vid[b]]].id = vid[b]
          /\ FreeRow(xact, atab, BitsetSlots[vid[b]])
          /\ \/ atab[BitsetSlots[vid[b]]].xmin = BitsetWork[b].x
             \/ DidCommit(xact, atab[BitsetSlots[vid[b]]].xmin)
          /\ BitsetWork'[b].phase = "flying" /\ BitsetWork'[b].old = BitsetSlots[vid[b]]
      BY <1>7, <2>1, <2>2
    <2>8. QED  BY <1>9, <2>1, <2>3, <2>4, <2>5, <2>6, <2>7, StoreAppend
  <1>12. StoreInv(xact', atab', BitsetSlots', BitsetWork')
    BY <1>1, <1>11
  <1>13. StoreInv(xact', vtab', VertexSlots', VertexWork')
    BY <1>1, PhaseFacts, VertexQuiet
  <1>14. Mirrors(b)'
    <2>1. rec'[b].a # NoRow
      BY <1>2, <1>9
    <2>2. QED  BY <1>1, <1>2, <1>4, <2>1 DEF Mirrors, HasRow
  <1>15. QED  BY <1>1, <1>10, <1>12, <1>13, <1>14, VersionsKept

\* Stamping a row leaves all rows with their vertex, writer and predecessor.
LEMMA RowStamped ==
    ASSUME TypeOK, NEW b, NEW x
    PROVE  /\ \A k \in DOMAIN vtab : vtab' = [vtab EXCEPT ![k].xmax = x] =>
                /\ SameRows(vtab, vtab') /\ Extends(vtab', vtab) /\ RowsBy(b, vtab, vtab')
                /\ vtab'[k].xmax = x
                /\ \A i \in DOMAIN vtab : i # k => vtab'[i].xmax = vtab[i].xmax
           /\ \A k \in DOMAIN atab : atab' = [atab EXCEPT ![k].xmax = x] =>
                /\ SameRows(atab, atab') /\ RowsBy(b, atab, atab')
                /\ atab'[k].xmax = x
                /\ \A i \in DOMAIN atab : i # k => atab'[i].xmax = atab[i].xmax
  <1>1. ASSUME NEW k \in DOMAIN vtab, vtab' = [vtab EXCEPT ![k].xmax = x]
        PROVE  /\ SameRows(vtab, vtab') /\ Extends(vtab', vtab) /\ RowsBy(b, vtab, vtab')
               /\ vtab'[k].xmax = x
               /\ \A i \in DOMAIN vtab : i # k => vtab'[i].xmax = vtab[i].xmax
    <2>1. vtab[k] \in VertexRow /\ vtab'[k] = [vtab[k] EXCEPT !.xmax = x]
          /\ DOMAIN vtab' = DOMAIN vtab /\ \A i \in DOMAIN vtab : i # k => vtab'[i] = vtab[i]
      BY <1>1, Rows
    <2>2. /\ vtab'[k].xmax = x /\ vtab'[k].id = vtab[k].id
          /\ vtab'[k].xmin = vtab[k].xmin /\ vtab'[k].prev = vtab[k].prev
      BY <2>1 DEF VertexRow
    <2>3. QED  BY <2>1, <2>2 DEF SameRows, Extends, RowsBy
  <1>2. ASSUME NEW k \in DOMAIN atab, atab' = [atab EXCEPT ![k].xmax = x]
        PROVE  /\ SameRows(atab, atab') /\ RowsBy(b, atab, atab')
               /\ atab'[k].xmax = x
               /\ \A i \in DOMAIN atab : i # k => atab'[i].xmax = atab[i].xmax
    <2>1. atab[k] \in BitsetRow /\ atab'[k] = [atab[k] EXCEPT !.xmax = x]
          /\ DOMAIN atab' = DOMAIN atab /\ \A i \in DOMAIN atab : i # k => atab'[i] = atab[i]
      BY <1>2, Rows
    <2>2. /\ atab'[k].xmax = x /\ atab'[k].id = atab[k].id
          /\ atab'[k].xmin = atab[k].xmin /\ atab'[k].prev = atab[k].prev
      BY <2>1 DEF BitsetRow
    <2>3. QED  BY <2>1, <2>2 DEF SameRows, RowsBy
  <1>3. QED  BY <1>1, <1>2

\* b ends an operation that has stamped a vertex row, or deletes a vertex.
LEMMA VersionsStampVertex ==
    ASSUME ApartInv, VersionsInv, NEW b \in Backend, NEW k,
           \/ StampVersion(b) /\ k = old[b]
           \/ StampDeleted(b) /\ k = rec[b].v
    PROVE  VersionsInv'
  <1>1. /\ UNCHANGED <<xact, xid, atab, pmap, touched, vid, rec, old>> /\ OnlyBy(b)
        /\ vtab' = [vtab EXCEPT ![k].xmax = xid[b]] /\ pc'[b] = "idle"
        /\ \/ pc[b] = "updateStamp" /\ k = old[b]
           \/ pc[b] = "deleteStamp" /\ k = rec[b].v /\ VertexAdmits(b)
        /\ VertexSlots' = VertexSlots /\ BitsetSlots' = BitsetSlots
    BY DEF StampVersion, StampDeleted, Goto, OnlyBy, ApartInv, IInv, TypeOK, VertexSlots, BitsetSlots
  <1>2. /\ xid[b] # NoXid
        /\ \A c \in Backend \ {b} : VertexWork[c].phase # "none" => VertexWork[c].v # vid[b]
    BY <1>1, InsideFacts
  <1>3. k \in DOMAIN vtab /\ vtab[k].id = vid[b] /\ FreeRow(xact, vtab, k)
    <2>1. CASE pc[b] = "updateStamp"
      BY <1>1, <2>1 DEF ApartInv, OldIsFree, IsVersionOf, Unstamped, FreeRow
    <2>2. CASE pc[b] = "deleteStamp" /\ k = rec[b].v /\ VertexAdmits(b)
      <3>1. rec[b].v # NoRow /\ MayReplace(xact, xid[b], vtab[rec[b].v])
        BY <2>2 DEF VertexAdmits
      <3>2. rec[b].v \in DOMAIN vtab /\ vtab[rec[b].v].id = vid[b]
        BY <2>2, <3>1 DEF ApartInv, IInv, SavedTargets, RecordTargets, IsVersionOf
      <3>3. vtab[rec[b].v].xmax \in XidsOf(xact)
        BY <3>2, Rows DEF ApartInv, IInv
      <3>4. Unstamped(vtab, rec[b].v)
        BY <1>2, <3>1, <3>2, <3>3, ReplaceableIsFree DEF ApartInv, IInv
      <3>5. QED  BY <2>2, <3>2, <3>4 DEF Unstamped, FreeRow
    <2>3. QED  BY <1>1, <2>1, <2>2
  <1>4. /\ SameRows(vtab, vtab') /\ Extends(vtab', vtab) /\ RowsBy(b, vtab, vtab')
        /\ vtab'[k].xmax = xid[b] /\ \A i \in DOMAIN vtab : i # k => vtab'[i].xmax = vtab[i].xmax
    BY <1>1, <1>3, RowStamped DEF ApartInv, IInv
  <1>5. StoreInv(xact, vtab', VertexSlots, VertexWork')
    <2>1. /\ VertexWork[b].x = xid[b] /\ VertexWork'[b].x = xid[b] /\ VertexWork'[b].phase = "none"
          /\ \/ VertexWork[b].phase = "none"
             \/ VertexWork[b].phase = "stamping" /\ VertexWork[b].old = k
      BY <1>1, WorkFacts, WorkNext, PhaseFacts
    <2>2. \A c \in Backend \ {b} : /\ VertexWork'[c] = VertexWork[c]
                                   /\ VertexWork[c].phase # "none" => VertexWork[c].v # vtab[k].id
      BY <1>1, <1>2, <1>3, OthersWork
    <2>3. StoreBase(xact, vtab, VertexWork) /\ StoreInv(xact, vtab, VertexSlots, VertexWork)
      BY Bases DEF VersionsInv
    <2>4. QED  BY <1>2, <1>3, <1>4, <2>1, <2>2, <2>3, StoreStamp
  <1>6. StoreInv(xact', vtab', VertexSlots', VertexWork')
    BY <1>1, <1>5
  <1>7. StoreInv(xact', atab', BitsetSlots', BitsetWork')
    BY <1>1, PhaseFacts, BitsetQuiet
  <1>8. Mirrors(b)'
    BY <1>1 DEF Mirrors
  <1>9. RowsBy(b, atab, atab')
    BY <1>1, SameTables
  <1>10. QED  BY <1>1, <1>4, <1>6, <1>7, <1>8, <1>9, VersionsKept

LEMMA VersionsStampBitset ==
    ASSUME ApartInv, VersionsInv, NEW b \in Backend, StampBitset(b) PROVE VersionsInv'
  <1>1. /\ UNCHANGED <<xact, xid, vtab, pmap, touched, vid, rec, old>> /\ OnlyBy(b)
        /\ pc[b] = "annotateStamp" /\ pc'[b] = "idle"
        /\ old[b] = NoRow => atab' = atab
        /\ old[b] # NoRow => atab' = [atab EXCEPT ![old[b]].xmax = xid[b]]
        /\ VertexSlots' = VertexSlots /\ BitsetSlots' = BitsetSlots
    BY DEF StampBitset, Goto, OnlyBy, ApartInv, IInv, TypeOK, VertexSlots, BitsetSlots
  <1>2. /\ xid[b] # NoXid
        /\ \A c \in Backend \ {b} : BitsetWork[c].phase # "none" => BitsetWork[c].v # vid[b]
    BY <1>1, InsideFacts
  <1>3. Mirrors(b)'
    BY <1>1 DEF Mirrors
  <1>4. StoreInv(xact', vtab', VertexSlots', VertexWork')
    BY <1>1, PhaseFacts, VertexQuiet
  <1>5. Extends(vtab', vtab) /\ RowsBy(b, vtab, vtab')
    BY <1>1, SameTables
  <1>6. CASE old[b] = NoRow
    <2>1. BitsetPhase(pc[b], rec[b].a) = "stamping" /\ BitsetPhase(pc'[b], rec'[b].a) = "none"
      BY <1>1, PhaseFacts
    <2>2. StoreInv(xact', atab', BitsetSlots', BitsetWork') /\ RowsBy(b, atab, atab')
      BY <1>1, <1>6, <2>1, BitsetQuiet, SameTables
    <2>3. QED  BY <1>1, <1>3, <1>4, <1>5, <2>2, VersionsKept
  <1>7. CASE old[b] # NoRow
    <2>1. old[b] \in DOMAIN atab /\ atab[old[b]].id = vid[b] /\ FreeRow(xact, atab, old[b])
      BY <1>1, <1>7 DEF ApartInv, OldIsFree, IsVersionOf, Unstamped, FreeRow
    <2>2. /\ SameRows(atab, atab') /\ RowsBy(b, atab, atab') /\ atab'[old[b]].xmax = xid[b]
          /\ \A i \in DOMAIN atab : i # old[b] => atab'[i].xmax = atab[i].xmax
      BY <1>1, <1>7, <2>1, RowStamped DEF ApartInv, IInv
    <2>3. /\ BitsetWork[b].x = xid[b] /\ BitsetWork'[b].x = xid[b] /\ BitsetWork'[b].phase = "none"
          /\ BitsetWork[b].phase = "stamping" /\ BitsetWork[b].old = old[b]
      BY <1>1, WorkFacts, WorkNext, PhaseFacts
    <2>4. \A c \in Backend \ {b} :
             /\ BitsetWork'[c] = BitsetWork[c]
             /\ BitsetWork[c].phase # "none" => BitsetWork[c].v # atab[old[b]].id
      BY <1>1, <1>2, <2>1, OthersWork
    <2>5. StoreBase(xact, atab, BitsetWork) /\ StoreInv(xact, atab, BitsetSlots, BitsetWork)
      BY Bases DEF VersionsInv
    <2>6. StoreInv(xact, atab', BitsetSlots, BitsetWork')
      BY <1>2, <2>1, <2>2, <2>3, <2>4, <2>5, StoreStamp
    <2>7. StoreInv(xact', atab', BitsetSlots', BitsetWork')
      BY <1>1, <2>6
    <2>8. QED  BY <1>1, <1>3, <1>4, <1>5, <2>2, <2>7, VersionsKept
  <1>8. QED  BY <1>6, <1>7

LEMMA VersionsNext ==
    ASSUME CallsApart, ApartInv, VersionsInv, [Next]_vars PROVE VersionsInv'
  <1>1. CASE UNCHANGED vars
    <2>1. /\ UNCHANGED <<xact, vtab, atab, pmap, xid, touched, pc, vid, rec, old>>
          /\ VertexSlots' = VertexSlots /\ BitsetSlots' = BitsetSlots
          /\ VertexWork' = VertexWork /\ BitsetWork' = BitsetWork
      BY <1>1 DEF vars, VertexSlots, BitsetSlots, VertexWork, BitsetWork
    <2>2. (\A b \in Backend : Mirrors(b)') /\ SlotsOfRows' /\ XactsHeld'
      BY <2>1 DEF VersionsInv, Mirrors, SlotsOfRows, XactsHeld, HasRow
    <2>3. WritesTouched(vtab)' /\ WritesTouched(atab)'
      BY <2>1 DEF VersionsInv, WritesTouched
    <2>4. QED  BY <2>1, <2>2, <2>3 DEF VersionsInv
  <1>2. ASSUME NEW b \in Backend, Step(b) PROVE VersionsInv'
    <2>1. CASE Begin(b)
      BY <2>1, VersionsBegin
    <2>2. CASE Commit(b) \/ Abort(b) \/ Reject(b)
      <3>1. xid[b] # NoXid
        BY <2>2 DEF Commit, Abort, Reject, ApartInv, IInv, SavedTargets
      <3>2. (End(b, "committed") /\ pc[b] = "idle") \/ End(b, "aborted")
        BY <2>2 DEF Commit, Abort, Reject
      <3>3. QED  BY <3>1, <3>2, VersionsEnd
    <2>3. ASSUME NEW v \in Vertex, InsertVertex(b, v) PROVE VersionsInv'
      BY <2>3, VersionsInsert
    <2>4. ASSUME NEW v \in Vertex,
                 \/ UpdateVertex(b, v) \/ AnnotateVertex(b, v) \/ DeleteVertex(b, v)
                 \/ PushEdge(b, v)
          PROVE  VersionsInv'
      BY <2>4, VersionsRead DEF UpdateVertex, AnnotateVertex, DeleteVertex
    <2>5. CASE InsertBits(b) \/ PlaceMap(b)
      BY <2>5, VersionsInsertBits, VersionsPlaceMap
    <2>6. CASE AppendVersion(b) \/ AppendBitset(b) \/ OverwriteMap(b)
      BY <2>6, VersionsAppendVersion, VersionsAppendBitset, VersionsOverwriteMap
    <2>7. CASE StampVersion(b) \/ StampBitset(b) \/ StampDeleted(b)
      BY <2>7, VersionsStampVertex, VersionsStampBitset
    <2>8. QED  BY <1>2, <2>1, <2>2, <2>3, <2>4, <2>5, <2>6, <2>7 DEF Step
  <1>3. QED  BY <1>1, <1>2 DEF Next
-----------------------------------------------------------------------------
(* The theorems.                                                            *)

LEMMA VersionsHold == CallsApart => (Spec => [](ApartInv /\ VersionsInv))
  <1> SUFFICES ASSUME CallsApart PROVE Spec => [](ApartInv /\ VersionsInv)
    OBVIOUS
  <1>1. ASSUME ApartInv, VersionsInv, [Next]_vars PROVE ApartInv' /\ VersionsInv'
    <2>1. IInv'
      BY <1>1, NextStep DEF ApartInv
    <2>2. ApartInv'
      BY <1>1, <2>1, ApartNext
    <2>3. QED  BY <1>1, <2>2, VersionsNext
  <1>2. ApartInv /\ VersionsInv /\ [Next]_vars => (ApartInv /\ VersionsInv)'
    BY <1>1
  <1>3. Init => ApartInv /\ VersionsInv
    BY InitApart, InitVersions
  <1>4. QED  BY <1>2, <1>3, PTL DEF Spec

\* In a store the committed rows form chains.
LEMMA CommittedRowsInStore ==
    ASSUME NEW log, NEW tab, NEW cur, NEW w, StoreBase(log, tab, w), StoreInv(log, tab, cur, w),
           StampsFollow(log, tab),
           NEW j \in DOMAIN tab, NEW p, p = tab[j].prev, p # NoRow, DidCommit(log, tab[j].xmin)
    PROVE  /\ DidCommit(log, tab[p].xmin) /\ tab[p].xmax = tab[j].xmin
           /\ \A i \in DOMAIN tab \ {j} : tab[i].prev = p => ~DidCommit(log, tab[i].xmin)
  <1>1. ~DidAbort(log, tab[j].xmin) /\ tab[j].xmin # NoXid
    BY DEF DidAbort, DidCommit
  <1>2. \A c \in Backend : w[c].x # tab[j].xmin
    BY <1>1 DEF StoreBase, DidCommit
  <1>3. tab[p].xmax = tab[j].xmin
    BY <1>1, <1>2 DEF StoreInv, Replaces
  <1>4. p \in DOMAIN tab
    BY DEF StoreBase
  <1>5. DidCommit(log, tab[p].xmin)
    BY <1>1, <1>3, <1>4 DEF StampsFollow
  <1>6. ASSUME NEW i \in DOMAIN tab \ {j}, tab[i].prev = p PROVE ~DidCommit(log, tab[i].xmin)
    <2>1. DidAbort(log, tab[i].xmin)
      BY <1>1, <1>6 DEF StoreInv, NoForks
    <2>2. QED  BY <2>1 DEF DidAbort, DidCommit
  <1>7. QED  BY <1>3, <1>5, <1>6

\* The committed versions of a vertex and of its bitset form chains, each stamped by
\* the transaction of the next one, although update_vertex and the annotation
\* functions check the version under one lock and stamp it under another: it is
\* enough that calls take turns on a vertex, with transactions open on either side.
THEOREM NoLostUpdateIfCallsApart == CallsApart => (Spec => []NoLostUpdate)
  <1>1. ApartInv /\ VersionsInv => NoLostUpdate
    <2> SUFFICES ASSUME ApartInv, VersionsInv PROVE NoLostUpdate
      OBVIOUS
    <2>1. CommittedRowsChain(vtab)
      BY Bases, CommittedRowsInStore DEF VersionsInv, ApartInv, CommittedRowsChain
    <2>2. CommittedRowsChain(atab)
      BY Bases, CommittedRowsInStore DEF VersionsInv, ApartInv, CommittedRowsChain
    <2>3. QED  BY <2>1, <2>2 DEF NoLostUpdate
  <1>2. QED  BY <1>1, VersionsHold, PTL

\* No row that is live for somebody is dead.
LEMMA LiveIsNotDead ==
    ASSUME NEW log, NEW tab, StampsFollow(log, tab), NEW me, me # NoXid => log[me] = "running",
           NEW i \in DOMAIN tab, TupleIsLive(log, me, tab[i])
    PROVE  ~DeadRow(log, tab, i)
    BY DEF StampsFollow, TupleIsLive, IsOwn, DeadRow, DidAbort, DidCommit

\* A backend that is not at work in a store sees one version.
LEMMA OneLiveRowInStore ==
    ASSUME NEW log, NEW tab, NEW cur, NEW w, StoreBase(log, tab, w), StoreInv(log, tab, cur, w),
           StampsFollow(log, tab), NEW b \in Backend, w[b].phase = "none",
           NEW i \in DOMAIN tab, NEW j \in DOMAIN tab, tab[i].id = tab[j].id,
           TupleIsLive(log, w[b].x, tab[i]), TupleIsLive(log, w[b].x, tab[j])
    PROVE  i = j
  <1>1. w[b].x # NoXid => log[w[b].x] = "running"
    BY DEF StoreBase
  <1>2. ~DeadRow(log, tab, i) /\ ~DeadRow(log, tab, j)
    BY <1>1, LiveIsNotDead
  <1>3. ASSUME NEW c \in Backend, NEW k \in {i, j}, NEW l \in {i, j},
               Takes(tab, w, c, k), tab[l].xmin = w[c].x
        PROVE  FALSE
    <2>1. log[w[c].x] = "running" /\ w[c].x # NoXid
      BY <1>3 DEF Takes, StoreBase
    <2>2. w[c].x = w[b].x
      BY <1>3, <2>1 DEF TupleIsLive, IsOwn, DidCommit
    <2>3. c = b
      BY <2>1, <2>2 DEF StoreBase
    <2>4. tab[k].xmax = w[b].x
      BY <1>3, <2>3 DEF Takes, WillStamp
    <2>5. QED  BY <2>1, <2>2, <2>4 DEF TupleIsLive, IsOwn
  <1>4. QED  BY <1>2, <1>3 DEF StoreInv, RivalsEnd, RowRivals

\* If nobody else is at work on its vertex, the version it sees is in the slot.
LEMMA LiveRowIsInSlot ==
    ASSUME NEW log, NEW tab, NEW cur, NEW w, StoreBase(log, tab, w), StoreInv(log, tab, cur, w),
           StampsFollow(log, tab), \A x \in DOMAIN log : log[x] \in XactStatus,
           \A x \in DOMAIN log : log[x] = "running" => \E c \in Backend : w[c].x = x,
           NEW b \in Backend, w[b].phase = "none",
           NEW i \in DOMAIN tab, TupleIsLive(log, w[b].x, tab[i]),
           ~RolledBackIn(log, tab, tab[i].id),
           \A c \in Backend \ {b} : w[c].phase # "none" => w[c].v # tab[i].id,
           \A c \in Backend \ {b}, j \in DOMAIN tab :
             w[c].x # NoXid /\ tab[j].xmin = w[c].x => tab[j].id # tab[i].id
    PROVE  cur[tab[i].id] = i
  <1>1. \A c \in Backend : ~Carries(w, c, tab[i].id, i)
    BY DEF Carries
  <1>2. \A c \in Backend : ~WillStamp(w, c, i)
    BY DEF WillStamp, StoreBase
  <1>3. w[b].x # NoXid => log[w[b].x] = "running"
    BY DEF StoreBase
  <1>4. ~DeadRow(log, tab, i) /\ (w[b].x # NoXid => tab[i].xmax # w[b].x)
    BY <1>3, LiveIsNotDead DEF TupleIsLive, IsOwn
  <1>5. ASSUME NEW j \in DOMAIN tab, tab[j].prev = i PROVE FALSE
    <2>1. i # NoRow /\ tab[j].id = tab[i].id /\ tab[j].xmin \in XidsOf(log) /\ tab[j].xmin # NoXid
      BY <1>5 DEF StoreBase, StoreInv
    <2>2. ~DidAbort(log, tab[j].xmin)
      BY <2>1 DEF RolledBackIn
    <2>3. tab[i].xmax = tab[j].xmin
      BY <1>2, <1>5, <2>1, <2>2 DEF StoreInv, Replaces
    <2>4. log[tab[j].xmin] = "running" /\ tab[j].xmin \in DOMAIN log
      BY <1>4, <2>1, <2>2, <2>3 DEF DeadRow, DidAbort, DidCommit, XidsOf, XactStatus
    <2>5. PICK c \in Backend : w[c].x = tab[j].xmin
      BY <2>4
    <2>6. c # b
      BY <1>4, <2>1, <2>3, <2>5
    <2>7. QED  BY <2>1, <2>5, <2>6
  <1>6. QED  BY <1>1, <1>5 DEF StoreInv, SlotIsLast

\* The stores in these words.
LEMMA StoresSettled ==
    ASSUME ApartInv, VersionsInv, NEW b \in Backend, NEW v, Settled(b, v)
    PROVE  /\ /\ StoreBase(xact, vtab, VertexWork) /\ StoreInv(xact, vtab, VertexSlots, VertexWork)
              /\ StampsFollow(xact, vtab)
              /\ VertexWork[b].phase = "none" /\ VertexWork[b].x = xid[b]
              /\ \A x \in DOMAIN xact : xact[x] = "running" =>
                   \E c \in Backend : VertexWork[c].x = x
              /\ \A c \in Backend \ {b} : VertexWork[c].phase # "none" => VertexWork[c].v # v
              /\ \A c \in Backend \ {b}, j \in DOMAIN vtab :
                   VertexWork[c].x # NoXid /\ vtab[j].xmin = VertexWork[c].x => vtab[j].id # v
           /\ /\ StoreBase(xact, atab, BitsetWork) /\ StoreInv(xact, atab, BitsetSlots, BitsetWork)
              /\ StampsFollow(xact, atab)
              /\ BitsetWork[b].phase = "none" /\ BitsetWork[b].x = xid[b]
              /\ \A x \in DOMAIN xact : xact[x] = "running" =>
                   \E c \in Backend : BitsetWork[c].x = x
              /\ \A c \in Backend \ {b} : BitsetWork[c].phase # "none" => BitsetWork[c].v # v
              /\ \A c \in Backend \ {b}, j \in DOMAIN atab :
                   BitsetWork[c].x # NoXid /\ atab[j].xmin = BitsetWork[c].x => atab[j].id # v
           /\ \A x \in DOMAIN xact : xact[x] \in XactStatus
  <1>1. pc[b] = "idle" /\ \A c \in Backend \ {b} : v \notin touched[c]
    BY DEF Settled
  <1>2. \A c \in Backend \ {b} : pc[c] # "idle" => vid[c] # v
    BY <1>1 DEF ApartInv, VerticesApart
  <1>3. /\ VertexWork[b].phase = "none" /\ VertexWork[b].x = xid[b]
        /\ BitsetWork[b].phase = "none" /\ BitsetWork[b].x = xid[b]
    BY <1>1, WorkFacts, PhaseFacts
  <1>4. /\ \A c \in Backend \ {b} : VertexWork[c].phase # "none" => VertexWork[c].v # v
        /\ \A c \in Backend \ {b} : BitsetWork[c].phase # "none" => BitsetWork[c].v # v
    BY <1>2, WorkFacts, PhaseFacts
  <1>5. /\ \A c \in Backend \ {b}, j \in DOMAIN vtab :
             VertexWork[c].x # NoXid /\ vtab[j].xmin = VertexWork[c].x => vtab[j].id # v
        /\ \A c \in Backend \ {b}, j \in DOMAIN atab :
             BitsetWork[c].x # NoXid /\ atab[j].xmin = BitsetWork[c].x => atab[j].id # v
    BY <1>1, WorkFacts DEF VersionsInv, WritesTouched
  <1>6. ASSUME NEW x \in DOMAIN xact, xact[x] = "running"
        PROVE  /\ \E c \in Backend : VertexWork[c].x = x
               /\ \E c \in Backend : BitsetWork[c].x = x
    BY <1>6, WorkFacts DEF VersionsInv, XactsHeld
  <1>7. \A x \in DOMAIN xact : xact[x] \in XactStatus
    BY DEF ApartInv, IInv, TypeOK
  <1>8. /\ StoreBase(xact, vtab, VertexWork) /\ StoreInv(xact, vtab, VertexSlots, VertexWork)
        /\ StoreBase(xact, atab, BitsetWork) /\ StoreInv(xact, atab, BitsetSlots, BitsetWork)
        /\ StampsFollow(xact, vtab) /\ StampsFollow(xact, atab)
    BY Bases DEF VersionsInv, ApartInv
  <1>9. QED  BY <1>3, <1>4, <1>5, <1>6, <1>7, <1>8

\* A backend between operations sees at most one version of a vertex and one of
\* its bitset, its own included, whatever was rolled back before and whatever call
\* is under way on the vertex.
THEOREM OneLiveVersionIfCallsApart == CallsApart => (Spec => []OneLiveVersion)
  <1>1. ApartInv /\ VersionsInv => OneLiveVersion
    <2> SUFFICES ASSUME ApartInv, VersionsInv, NEW b \in Backend, NEW v \in Vertex, pc[b] = "idle"
                 PROVE  OneLiveRow(vtab, b, v) /\ OneLiveRow(atab, b, v)
      BY DEF OneLiveVersion
    <2>1. /\ VertexWork[b].phase = "none" /\ VertexWork[b].x = xid[b]
          /\ BitsetWork[b].phase = "none" /\ BitsetWork[b].x = xid[b]
      BY WorkFacts, PhaseFacts
    <2>2. /\ StoreBase(xact, vtab, VertexWork) /\ StoreInv(xact, vtab, VertexSlots, VertexWork)
          /\ StoreBase(xact, atab, BitsetWork) /\ StoreInv(xact, atab, BitsetSlots, BitsetWork)
          /\ StampsFollow(xact, vtab) /\ StampsFollow(xact, atab)
      BY Bases DEF VersionsInv, ApartInv
    <2>3. OneLiveRow(vtab, b, v)
      BY <2>1, <2>2, OneLiveRowInStore DEF OneLiveRow
    <2>4. OneLiveRow(atab, b, v)
      BY <2>1, <2>2, OneLiveRowInStore DEF OneLiveRow
    <2>5. QED  BY <2>3, <2>4
  <1>2. QED  BY <1>1, VersionsHold, PTL

\* The version of a vertex and of its bitset that a backend may see are those
\* the physical map names, unless a version was rolled back: no rollback writes
\* the slot back, but without one the slot keeps up with the versions.
THEOREM MapFindsLiveIfCallsApart == CallsApart => (Spec => []MapFindsLive)
  <1>1. ApartInv /\ VersionsInv => MapFindsLive
    <2> SUFFICES ASSUME ApartInv, VersionsInv, NEW b \in Backend
                 PROVE  /\ \A i \in DOMAIN vtab :
                             (/\ Settled(b, vtab[i].id) /\ TupleIsLive(xact, xid[b], vtab[i])
                              /\ ~RolledBack(vtab, vtab[i].id)) => pmap[vtab[i].id].v = i
                        /\ \A i \in DOMAIN atab :
                             (/\ Settled(b, atab[i].id) /\ TupleIsLive(xact, xid[b], atab[i])
                              /\ ~RolledBack(atab, atab[i].id)) => pmap[atab[i].id].a = i
      BY DEF MapFindsLive
    <2>1. ASSUME NEW i \in DOMAIN vtab, Settled(b, vtab[i].id),
                 TupleIsLive(xact, xid[b], vtab[i]), ~RolledBack(vtab, vtab[i].id)
          PROVE  pmap[vtab[i].id].v = i
      <3>1. ~RolledBackIn(xact, vtab, vtab[i].id) /\ vtab[i].id \in Vertex
        BY <2>1, Rows DEF RolledBack, RolledBackIn, ApartInv, IInv
      <3>2. VertexSlots[vtab[i].id] = i
        BY <2>1, <3>1, StoresSettled, LiveRowIsInSlot
      <3>3. QED  BY <3>1, <3>2, SlotFacts
    <2>2. ASSUME NEW i \in DOMAIN atab, Settled(b, atab[i].id),
                 TupleIsLive(xact, xid[b], atab[i]), ~RolledBack(atab, atab[i].id)
          PROVE  pmap[atab[i].id].a = i
      <3>1. ~RolledBackIn(xact, atab, atab[i].id) /\ atab[i].id \in Vertex
        BY <2>2, Rows DEF RolledBack, RolledBackIn, ApartInv, IInv
      <3>2. BitsetSlots[atab[i].id] = i
        BY <2>2, <3>1, StoresSettled, LiveRowIsInSlot
      <3>3. QED  BY <3>1, <3>2, SlotFacts
    <2>3. QED  BY <2>1, <2>2
  <1>2. QED  BY <1>1, VersionsHold, PTL

=============================================================================
