--------------------------- MODULE PhysMapFileProofs ---------------------------
(***************************************************************************)
(* Theorems about PhysMapAddress and PhysMapFile: when the computed slots  *)
(* lead to the records, and when they do not.                              *)
(***************************************************************************)
EXTENDS PhysMapFile, SequenceTheorems, TLAPS

(* The arithmetic.                                                          *)

LEMMA Division ==
    ASSUME NEW n \in Nat, NEW p \in Nat \ {0}
    PROVE  n \div p \in Nat /\ n % p \in 0 .. (p - 1) /\ n = p * (n \div p) + (n % p)
    OBVIOUS

\* np_tid_to_id, which the label functions use to get from a slot back to the
\* id, inverts np_id_to_tid, and the slot lies on its page.
THEOREM TidRoundTrip ==
    ASSUME NEW id \in Nat \ {0}, NEW p \in Nat \ {0}
    PROVE  /\ IdToTid(id, p).block \in Nat /\ IdToTid(id, p).offset \in 1 .. p
           /\ TidToId(IdToTid(id, p), p) = id
  <1>1. id - 1 \in Nat
    OBVIOUS
  <1>2. /\ (id - 1) \div p \in Nat /\ (id - 1) % p \in 0 .. (p - 1)
        /\ id - 1 = p * ((id - 1) \div p) + ((id - 1) % p)
    BY <1>1, Division
  <1>3. IdToTid(id, p).block = (id - 1) \div p /\ IdToTid(id, p).offset = ((id - 1) % p) + 1
    BY DEF IdToTid
  <1>4. IdToTid(id, p).block \in Nat /\ IdToTid(id, p).offset \in 1 .. p
    BY <1>2, <1>3
  <1>5. TidToId(IdToTid(id, p), p) = ((id - 1) \div p) * p + (((id - 1) % p) + 1 - 1) + 1
    BY <1>3 DEF TidToId
  <1>6. TidToId(IdToTid(id, p), p) = id
    BY <1>2, <1>5
  <1>7. QED  BY <1>4, <1>6

\* Different ids have different slots: no two vertices of a label share one.
LEMMA SlotsDiffer ==
    ASSUME NEW i \in Nat \ {0}, NEW j \in Nat \ {0}, NEW p \in Nat \ {0},
           IdToTid(i, p).block = IdToTid(j, p).block, IdToTid(i, p).offset = IdToTid(j, p).offset
    PROVE  i = j
  <1>1. TidToId(IdToTid(i, p), p) = TidToId(IdToTid(j, p), p)
    BY DEF TidToId
  <1>2. QED  BY <1>1, TidRoundTrip

\* The two ways of counting the records on a page agree on the slots of the
\* first page and on no others.  update_vertex_phys_map, get_current_head_tid
\* and get_phys_map_vpointer count fewer than the insertion does: from the
\* second of their pages on they go to another slot than np_place_physmap_record.
THEOREM CountsAgreeOnFirstPage ==
    ASSUME NEW id \in Nat \ {0}, NEW few \in Nat \ {0}, NEW many \in Nat \ {0}, few < many
    PROVE  IdToTid(id, few) = IdToTid(id, many) <=> id <= few
  <1> DEFINE n == id - 1
  <1>1. /\ n \in Nat
        /\ n \div few \in Nat /\ n % few \in 0 .. (few - 1) /\ n = few * (n \div few) + (n % few)
        /\ n \div many \in Nat /\ n % many \in 0 .. (many - 1) /\ n = many * (n \div many) + (n % many)
    <2>1. n \in Nat
      OBVIOUS
    <2> HIDE DEF n
    <2>2. QED  BY <2>1, Division
  <1> HIDE DEF n
  <1>2. ASSUME n < few PROVE IdToTid(id, few) = IdToTid(id, many)
    <2>1. n \div few = 0 /\ n % few = n /\ n \div many = 0 /\ n % many = n
      BY <1>1, <1>2
    <2>2. QED  BY <2>1 DEF IdToTid, n
  <1>3. ASSUME IdToTid(id, few) = IdToTid(id, many) PROVE n < few
    <2>1. IdToTid(id, few).block = IdToTid(id, many).block /\ IdToTid(id, few).offset = IdToTid(id, many).offset
      BY <1>3
    <2>2. n \div few = n \div many /\ (n % few) + 1 = (n % many) + 1
      BY <2>1 DEF IdToTid, n
    <2>3. few * (n \div few) = many * (n \div few)
      BY <1>1, <2>2
    <2>4. n \div few = 0
      BY <1>1, <2>3
    <2>5. QED  BY <1>1, <2>4
  <1>4. n < few <=> id <= few
    BY DEF n
  <1>5. QED  BY <1>2, <1>3, <1>4

\* What the source computes for vertex records: 314 to a page in the insertion,
\* 157 in the list-head functions, and 291 fit.
THEOREM SourceNumbers ==
    /\ InlineTuplesPerPage(VertexRecordSize) = 314
    /\ CalculateTuplesPerPage(VertexRecordSize) = 157
    /\ PageCapacity(VertexRecordSize) = 291
    BY DEF InlineTuplesPerPage, CalculateTuplesPerPage, PageCapacity, PageSpace, VertexRecordSize,
           LinePointer, MaxAlign, HeapTupleHeader
-----------------------------------------------------------------------------
(* The file.                                                                *)

Entry == [v : Nat, e : Nat]

LEMMA FunctionIsSequence ==
    ASSUME NEW S, NEW n \in Nat, NEW f \in [1 .. n -> S]
    PROVE  f \in Seq(S) /\ Len(f) = n /\ DOMAIN f = 1 .. n
  <1>1. f \in Seq(S)
    BY SeqDef
  <1>2. Len(f) \in Nat /\ DOMAIN f = 1 .. Len(f) /\ DOMAIN f = 1 .. n
    BY <1>1, LenProperties
  <1>3. QED  BY <1>1, <1>2

\* The pages of the file hold records, no more than fit.
FileOK ==
    /\ file \in Seq(Seq(Entry))
    /\ \A p \in 1 .. Len(file) : Len(file[p]) <= Capacity
    /\ placed \subseteq Id /\ hung \subseteq placed

\* The slot at page number p, line o is there and holds r.
Holds(f, p, o, r) == p \in 1 .. Len(f) /\ o \in 1 .. Len(f[p]) /\ f[p][o] = r

LEMMA IdFacts ==
    ASSUME NEW id \in Id
    PROVE  /\ id \in Nat \ {0} /\ PerPage \in Nat \ {0} /\ HeadPerPage \in Nat \ {0}
           /\ Capacity \in Nat \ {0}
           /\ Slot(id).block \in Nat /\ Slot(id).offset \in 1 .. PerPage
           /\ HeadSlot(id).block \in Nat /\ HeadSlot(id).offset \in 1 .. HeadPerPage
           /\ \A j \in Id : Slot(id).block = Slot(j).block /\ Slot(id).offset = Slot(j).offset => id = j
  <1>1. /\ id \in Nat \ {0} /\ PerPage \in Nat \ {0} /\ HeadPerPage \in Nat \ {0}
        /\ Capacity \in Nat \ {0} /\ \A j \in Id : j \in Nat \ {0}
    BY PageAssumption
  <1>2. /\ Slot(id).block \in Nat /\ Slot(id).offset \in 1 .. PerPage
        /\ HeadSlot(id).block \in Nat /\ HeadSlot(id).offset \in 1 .. HeadPerPage
    BY <1>1, TidRoundTrip DEF Slot, HeadSlot
  <1>3. \A j \in Id : Slot(id).block = Slot(j).block /\ Slot(id).offset = Slot(j).offset => id = j
    BY <1>1, SlotsDiffer DEF Slot
  <1>4. QED  BY <1>1, <1>2, <1>3

\* A page with a record added at a line: the lines that were there stay, and
\* the record is on the page if it fits.
LEMMA AddedFacts ==
    ASSUME NEW page \in Seq(Entry), Len(page) <= Capacity, NEW o \in Nat \ {0}, NEW r \in Entry,
           Capacity \in Nat \ {0}
    PROVE  /\ Added(page, o, r) \in Seq(Entry) /\ Len(Added(page, o, r)) <= Capacity
           /\ Len(page) <= Len(Added(page, o, r))
           /\ \A l \in 1 .. Len(page) : l # o => Added(page, o, r)[l] = page[l]
           /\ o <= Capacity => o <= Len(Added(page, o, r)) /\ Added(page, o, r)[o] = r
  <1> DEFINE size == IF o <= Len(page) THEN Len(page)
                     ELSE IF o <= Capacity THEN o
                     ELSE IF Capacity <= Len(page) THEN Len(page) ELSE Capacity
             new == [l \in 1 .. size |->
                       IF l = o THEN r ELSE IF l <= Len(page) THEN page[l] ELSE Blank]
  <1>1. /\ Len(page) \in Nat /\ DOMAIN page = 1 .. Len(page)
        /\ \A l \in 1 .. Len(page) : page[l] \in Entry
    BY LenProperties
  <1>2. size \in Nat /\ size <= Capacity /\ Len(page) <= size /\ (o <= Capacity => o <= size)
    BY <1>1
  <1>3. Blank \in Entry
    BY DEF Blank, Entry, NoId
  <1>4. Added(page, o, r) = new
    BY DEF Added
  <1> HIDE DEF size
  <1>5. new \in [1 .. size -> Entry]
    BY <1>1, <1>2, <1>3
  <1>6. new \in Seq(Entry) /\ Len(new) = size
    BY <1>2, <1>5, FunctionIsSequence
  <1>7. QED  BY <1>1, <1>2, <1>4, <1>6

\* The insertion fills its slot if it is one of a page, and no other.
LEMMA PlaceFacts ==
    ASSUME FileOK, NEW id \in Id, Place(id)
    PROVE  /\ FileOK'
           /\ \A p, o, r : Holds(file, p, o, r) =>
                \/ Holds(file', p, o, r)
                \/ p = Slot(id).block + 1 /\ o = Slot(id).offset
           /\ Slot(id).offset <= Capacity =>
                Holds(file', Slot(id).block + 1, Slot(id).offset, [v |-> id, e |-> NoId])
  <1> DEFINE k == Slot(id).block + 1
             o == Slot(id).offset
             rec == [v |-> id, e |-> NoId]
             n == IF Slot(id).block < Len(file) THEN Len(file) ELSE Slot(id).block + 1
             pages == Extended(Slot(id).block)
  <1>1. /\ Slot(id).block \in Nat /\ o \in Nat \ {0} /\ rec \in Entry /\ Capacity \in Nat \ {0}
    BY IdFacts DEF Entry, NoId
  <1>2. /\ file \in Seq(Seq(Entry)) /\ Len(file) \in Nat /\ DOMAIN file = 1 .. Len(file)
        /\ \A p \in 1 .. Len(file) : file[p] \in Seq(Entry) /\ Len(file[p]) <= Capacity
    <2>1. file \in Seq(Seq(Entry)) /\ \A p \in 1 .. Len(file) : Len(file[p]) <= Capacity
      BY DEF FileOK
    <2>2. QED  BY <2>1, LenProperties
  <1>3. n \in Nat /\ Len(file) <= n /\ k \in 1 .. n
    BY <1>1, <1>2
  <1>4. pages = [p \in 1 .. n |-> IF p <= Len(file) THEN file[p] ELSE <<>>]
    BY DEF Extended
  <1> HIDE DEF n
  <1>5. /\ pages \in [1 .. n -> Seq(Entry)] /\ \A p \in 1 .. n : Len(pages[p]) <= Capacity
        /\ \A p \in 1 .. Len(file) : pages[p] = file[p]
    <2>1. <<>> \in Seq(Entry) /\ Len(<<>>) = 0
      BY EmptySeq
    <2>2. QED  BY <1>1, <1>2, <1>3, <1>4, <2>1
  <1> HIDE DEF pages
  <1> DEFINE page == Added(pages[k], o, rec)
  <1>6. /\ page \in Seq(Entry) /\ Len(page) <= Capacity /\ Len(pages[k]) <= Len(page)
        /\ \A l \in 1 .. Len(pages[k]) : l # o => page[l] = pages[k][l]
        /\ o <= Capacity => o <= Len(page) /\ page[o] = rec
    <2>1. pages[k] \in Seq(Entry) /\ Len(pages[k]) <= Capacity
      BY <1>3, <1>5
    <2> HIDE DEF k, o, rec
    <2>2. QED  BY ZenonT(60), <1>1, <2>1, AddedFacts
  <1>7. file' = [pages EXCEPT ![k] = page]
    BY DEF Place, pages
  <1> HIDE DEF page
  <1>8. /\ file' \in [1 .. n -> Seq(Entry)] /\ file'[k] = page
        /\ \A p \in 1 .. n : p # k => file'[p] = pages[p]
    BY <1>3, <1>5, <1>6, <1>7
  <1>9. file' \in Seq(Seq(Entry)) /\ Len(file') = n
    BY <1>3, <1>8, FunctionIsSequence
  <1>10. FileOK'
    <2>1. \A p \in 1 .. n : Len(file'[p]) <= Capacity
      BY <1>5, <1>6, <1>8
    <2>2. placed' \subseteq Id /\ hung' \subseteq placed'
      BY DEF FileOK, Place
    <2>3. QED  BY <1>9, <2>1, <2>2 DEF FileOK
  <1>11. ASSUME NEW p, NEW l, NEW r, Holds(file, p, l, r), ~(p = k /\ l = o)
         PROVE  Holds(file', p, l, r)
    <2>1. p \in 1 .. Len(file) /\ p \in 1 .. n /\ l \in 1 .. Len(file[p]) /\ file[p][l] = r
      BY <1>2, <1>3, <1>11 DEF Holds
    <2>2. CASE p # k
      BY <1>5, <1>8, <1>9, <2>1, <2>2 DEF Holds
    <2>3. CASE p = k
      <3>1. pages[k] = file[p] /\ l # o
        BY <1>5, <1>11, <2>1, <2>3
      <3>2. l \in 1 .. Len(page) /\ page[l] = r
        <4>1. Len(file[p]) \in Nat /\ Len(page) \in Nat
          BY <1>2, <1>6, <2>1, LenProperties
        <4>2. QED  BY <1>6, <2>1, <3>1, <4>1
      <3>3. QED  BY <1>8, <1>9, <2>1, <2>3, <3>2 DEF Holds
    <2>4. QED  BY <2>2, <2>3
  <1>12. ASSUME o <= Capacity PROVE Holds(file', k, o, rec)
    <2>1. Len(page) \in Nat
      BY <1>6, LenProperties
    <2>2. QED  BY <1>1, <1>3, <1>6, <1>8, <1>9, <1>12, <2>1 DEF Holds
  <1>13. QED  BY <1>10, <1>11, <1>12

\* The list-head write changes the slot it computes, which is there.
LEMMA SetHeadFacts ==
    ASSUME FileOK, NEW id \in Id, SetHead(id)
    PROVE  /\ FileOK'
           /\ \A p, o, r : Holds(file, p, o, r) =>
                \/ Holds(file', p, o, r)
                \/ p = HeadSlot(id).block + 1 /\ o = HeadSlot(id).offset
           /\ \E r \in Entry :
                /\ Holds(file, HeadSlot(id).block + 1, HeadSlot(id).offset, r)
                /\ Holds(file', HeadSlot(id).block + 1, HeadSlot(id).offset, [v |-> r.v, e |-> id])
  <1> DEFINE k == HeadSlot(id).block + 1
             o == HeadSlot(id).offset
             r == file[k][o]
             page == [file[k] EXCEPT ![o] = [v |-> r.v, e |-> id]]
  <1>1. /\ HeadSlot(id).block \in Nat /\ o \in Nat \ {0} /\ id \in Nat
    BY IdFacts
  <1>2. /\ file \in Seq(Seq(Entry)) /\ Len(file) \in Nat /\ DOMAIN file = 1 .. Len(file)
        /\ \A p \in 1 .. Len(file) : file[p] \in Seq(Entry) /\ Len(file[p]) <= Capacity
    <2>1. file \in Seq(Seq(Entry)) /\ \A p \in 1 .. Len(file) : Len(file[p]) <= Capacity
      BY DEF FileOK
    <2>2. QED  BY <2>1, LenProperties
  <1>3. k \in 1 .. Len(file) /\ file[k] \in Seq(Entry) /\ Len(file[k]) \in Nat /\ o \in 1 .. Len(file[k])
    <2>1. IsNormal(HeadSlot(id))
      BY DEF SetHead
    <2>2. k \in 1 .. Len(file) /\ o <= Len(file[k])
      BY <1>1, <1>2, <2>1 DEF IsNormal
    <2>3. file[k] \in Seq(Entry) /\ Len(file[k]) \in Nat
      BY <1>2, <2>2, LenProperties
    <2>4. QED  BY <1>1, <2>2, <2>3
  <1>4. r \in Entry /\ [v |-> r.v, e |-> id] \in Entry
    BY ZenonT(60), <1>1, <1>3, LenProperties DEF Entry
  <1>5. /\ page \in Seq(Entry) /\ Len(page) = Len(file[k])
        /\ page[o] = [v |-> r.v, e |-> id]
        /\ \A l \in 1 .. Len(file[k]) : l # o => page[l] = file[k][l]
    BY <1>3, <1>4, ExceptSeq
  <1>6. file' = [file EXCEPT ![k] = page]
    <2>1. file' = [file EXCEPT ![k] = [@ EXCEPT ![o].e = id]]
      BY DEF SetHead
    <2>2. file' = [file EXCEPT ![k] = [file[k] EXCEPT ![o] = [file[k][o] EXCEPT !.e = id]]]
      BY <2>1
    <2>3. [file[k][o] EXCEPT !.e = id] = [v |-> r.v, e |-> id]
      BY <1>1, <1>4 DEF Entry
    <2>4. QED  BY <2>2, <2>3
  <1> HIDE DEF page, k, o
  <1>7. /\ file' \in Seq(Seq(Entry)) /\ Len(file') = Len(file) /\ file'[k] = page
        /\ \A p \in 1 .. Len(file) : p # k => file'[p] = file[p]
    BY <1>2, <1>3, <1>5, <1>6, ExceptSeq
  <1>8. FileOK'
    <2>1. \A p \in 1 .. Len(file) : Len(file'[p]) <= Capacity
      BY <1>2, <1>3, <1>5, <1>7
    <2>2. placed' \subseteq Id /\ hung' \subseteq placed'
      BY DEF FileOK, SetHead
    <2>3. QED  BY <1>7, <2>1, <2>2 DEF FileOK
  <1>9. Holds(file, k, o, r) /\ Holds(file', k, o, [v |-> r.v, e |-> id])
    BY <1>3, <1>5, <1>7 DEF Holds
  <1>10. ASSUME NEW p, NEW l, NEW q, Holds(file, p, l, q), ~(p = k /\ l = o)
         PROVE  Holds(file', p, l, q)
    BY <1>5, <1>7, <1>10 DEF Holds
  <1>11. QED  BY <1>4, <1>8, <1>9, <1>10 DEF k, o
-----------------------------------------------------------------------------
(***************************************************************************)
(* When the slots lead to the records.  Both counts must give an id the    *)
(* same slot, and the slot must be one that fits on the page.  This is so  *)
(* if there is one count, no larger than the capacity, and with the        *)
(* source's three numbers as long as a label's ids stay on the first page  *)
(* of the smallest one.                                                    *)
(***************************************************************************)

SlotsAgree == \A id \in Id : HeadSlot(id) = Slot(id) /\ Slot(id).offset <= Capacity

\* Two ways to have agreement; the second is the source's.
THEOREM WhenSlotsAgree ==
    /\ PerPage = HeadPerPage /\ PerPage <= Capacity => SlotsAgree
    /\ /\ PerPage = InlineTuplesPerPage(VertexRecordSize)
       /\ HeadPerPage = CalculateTuplesPerPage(VertexRecordSize)
       /\ Capacity = PageCapacity(VertexRecordSize)
       => (SlotsAgree <=> \A id \in Id : id <= HeadPerPage)
  <1>1. ASSUME PerPage = HeadPerPage, PerPage <= Capacity PROVE SlotsAgree
    <2>1. SUFFICES ASSUME NEW id \in Id PROVE HeadSlot(id) = Slot(id) /\ Slot(id).offset <= Capacity
      BY DEF SlotsAgree
    <2>2. HeadSlot(id) = Slot(id)
      BY <1>1 DEF HeadSlot, Slot
    <2>3. QED  BY <1>1, <2>2, IdFacts
  <1>2. ASSUME PerPage = InlineTuplesPerPage(VertexRecordSize),
               HeadPerPage = CalculateTuplesPerPage(VertexRecordSize),
               Capacity = PageCapacity(VertexRecordSize)
        PROVE  SlotsAgree <=> \A id \in Id : id <= HeadPerPage
    <2>1. PerPage = 314 /\ HeadPerPage = 157 /\ Capacity = 291
      BY <1>2, SourceNumbers
    <2>2. ASSUME NEW id \in Id PROVE HeadSlot(id) = Slot(id) <=> id <= HeadPerPage
      BY <2>1, IdFacts, CountsAgreeOnFirstPage DEF HeadSlot, Slot
    <2>3. ASSUME NEW id \in Id, HeadSlot(id) = Slot(id) PROVE Slot(id).offset <= Capacity
      <3>1. HeadSlot(id).offset \in 1 .. HeadPerPage
        BY IdFacts
      <3>2. QED  BY <2>1, <2>3, <3>1
    <2>4. QED  BY <2>2, <2>3 DEF SlotsAgree
  <1>3. QED  BY <1>1, <1>2

\* What the insertion and the list-head write of id leave of the slot of j.
SlotsHold ==
    \A id \in placed : \E e \in Nat :
        /\ Holds(file, Slot(id).block + 1, Slot(id).offset, [v |-> id, e |-> e])
        /\ id \in hung => e = id

FileInv == FileOK /\ SlotsHold

LEMMA InitFile == Init => FileInv
  <1>1. ASSUME Init PROVE FileOK /\ SlotsHold
    <2>1. file \in Seq(Seq(Entry)) /\ Len(file) = 0
      BY <1>1, EmptySeq DEF Init
    <2>2. FileOK
      BY <1>1, <2>1 DEF Init, FileOK
    <2>3. QED  BY <1>1, <2>2 DEF Init, SlotsHold
  <1>2. QED  BY <1>1 DEF FileInv

LEMMA PlaceStep == ASSUME SlotsAgree, FileInv, NEW id \in Id, Place(id) PROVE FileInv'
  <1>1. FileOK' /\ placed' = placed \cup {id} /\ id \notin placed /\ hung' = hung
    BY PlaceFacts DEF FileInv, Place
  <1>2. SUFFICES ASSUME NEW j \in placed'
                 PROVE  \E e \in Nat :
                          /\ Holds(file', Slot(j).block + 1, Slot(j).offset, [v |-> j, e |-> e])
                          /\ j \in hung => e = j
    BY <1>1 DEF FileInv, SlotsHold, Slot
  <1>3. CASE j = id
    <2>1. Holds(file', Slot(id).block + 1, Slot(id).offset, [v |-> id, e |-> NoId])
      BY PlaceFacts DEF FileInv, SlotsAgree
    <2>2. id \notin hung
      BY <1>1 DEF FileInv, FileOK
    <2>3. QED  BY <1>3, <2>1, <2>2 DEF NoId
  <1>4. CASE j # id
    <2>1. j \in placed /\ j \in Id
      BY <1>1, <1>4 DEF FileInv, FileOK
    <2>2. PICK e \in Nat : /\ Holds(file, Slot(j).block + 1, Slot(j).offset, [v |-> j, e |-> e])
                           /\ j \in hung => e = j
      BY <2>1 DEF FileInv, SlotsHold
    <2>3. Slot(j).block \in Nat /\ Slot(id).block \in Nat
          /\ ~(Slot(j).block = Slot(id).block /\ Slot(j).offset = Slot(id).offset)
      BY <1>4, <2>1, IdFacts
    <2>4. ~(Slot(j).block + 1 = Slot(id).block + 1 /\ Slot(j).offset = Slot(id).offset)
      BY <2>3
    <2>5. Holds(file', Slot(j).block + 1, Slot(j).offset, [v |-> j, e |-> e])
      BY <2>2, <2>4, PlaceFacts DEF FileInv
    <2>6. QED  BY <2>2, <2>5
  <1>5. QED  BY <1>3, <1>4

LEMMA SetHeadStep ==
    ASSUME SlotsAgree, FileInv, NEW id \in Id, SetHead(id)
    PROVE  /\ FileInv'
           /\ Holds(file', Slot(id).block + 1, Slot(id).offset, [v |-> id, e |-> id])
  <1>1. FileOK' /\ placed' = placed /\ id \in placed /\ hung' = hung \cup {id}
        /\ HeadSlot(id) = Slot(id)
    BY SetHeadFacts DEF FileInv, SetHead, SlotsAgree
  <1>2. Holds(file', Slot(id).block + 1, Slot(id).offset, [v |-> id, e |-> id])
    <2>1. PICK e \in Nat : Holds(file, Slot(id).block + 1, Slot(id).offset, [v |-> id, e |-> e])
      BY <1>1 DEF FileInv, SlotsHold
    <2>2. PICK r \in Entry :
             /\ Holds(file, Slot(id).block + 1, Slot(id).offset, r)
             /\ Holds(file', Slot(id).block + 1, Slot(id).offset, [v |-> r.v, e |-> id])
      BY <1>1, SetHeadFacts DEF FileInv
    <2>3. r = [v |-> id, e |-> e]
      BY <2>1, <2>2 DEF Holds
    <2>4. r.v = id
      BY <2>3
    <2>5. QED  BY <2>2, <2>4
  <1>3. ASSUME NEW j \in placed
        PROVE  \E e \in Nat :
                 /\ Holds(file', Slot(j).block + 1, Slot(j).offset, [v |-> j, e |-> e])
                 /\ j \in hung \cup {id} => e = j
    <2>1. CASE j = id
      <3>1. id \in Nat
        BY IdFacts
      <3>2. QED  BY <1>2, <2>1, <3>1
    <2>2. CASE j # id
      <3>1. j \in Id
        BY DEF FileInv, FileOK
      <3>2. PICK e \in Nat : /\ Holds(file, Slot(j).block + 1, Slot(j).offset, [v |-> j, e |-> e])
                             /\ j \in hung => e = j
        BY DEF FileInv, SlotsHold
      <3>3. Slot(j).block \in Nat /\ Slot(id).block \in Nat
            /\ ~(Slot(j).block = Slot(id).block /\ Slot(j).offset = Slot(id).offset)
        BY <2>2, <3>1, IdFacts
      <3>4. ~(Slot(j).block + 1 = Slot(id).block + 1 /\ Slot(j).offset = Slot(id).offset)
        BY <3>3
      <3>5. Holds(file', Slot(j).block + 1, Slot(j).offset, [v |-> j, e |-> e])
        BY <1>1, <3>2, <3>4, SetHeadFacts DEF FileInv
      <3>6. QED  BY <2>2, <3>2, <3>5
    <2>3. QED  BY <2>1, <2>2
  <1>4. SlotsHold'
    BY <1>1, <1>3 DEF SlotsHold, Slot
  <1>5. QED  BY <1>1, <1>2, <1>4 DEF FileInv

\* Slots are numbers of the instance, so the readers' view of one is Holds.
LEMMA SlotView ==
    ASSUME FileOK, NEW id \in Id, NEW r
    PROVE  /\ Holds(file, Slot(id).block + 1, Slot(id).offset, r) <=>
                IsNormal(Slot(id)) /\ RecordAt(Slot(id)) = r
  <1>1. Slot(id).block \in Nat /\ Slot(id).offset \in Nat \ {0}
    BY IdFacts
  <1>2. /\ file \in Seq(Seq(Entry)) /\ Len(file) \in Nat /\ DOMAIN file = 1 .. Len(file)
        /\ \A p \in 1 .. Len(file) : file[p] \in Seq(Entry)
    BY LenProperties DEF FileOK
  <1>3. Slot(id).block + 1 \in 1 .. Len(file) <=> Slot(id).block < Len(file)
    BY <1>1, <1>2
  <1>4. ASSUME Slot(id).block + 1 \in 1 .. Len(file)
        PROVE  Slot(id).offset \in 1 .. Len(file[Slot(id).block + 1]) <=>
                 Slot(id).offset <= Len(file[Slot(id).block + 1])
    <2>1. Len(file[Slot(id).block + 1]) \in Nat
      BY <1>2, <1>4, LenProperties
    <2>2. QED  BY <1>1, <2>1
  <1>5. QED  BY <1>3, <1>4 DEF Holds, IsNormal, RecordAt

LEMMA FileNext == ASSUME SlotsAgree, FileInv, [Next]_vars PROVE FileInv'
  <1>1. CASE UNCHANGED vars
    BY <1>1 DEF vars, FileInv, FileOK, SlotsHold, Slot
  <1>2. CASE Next
    BY <1>2, PlaceStep, SetHeadStep DEF Next
  <1>3. QED  BY <1>1, <1>2

LEMMA FileInvHolds == SlotsAgree => (Spec => []FileInv)
  <1> SUFFICES ASSUME SlotsAgree PROVE Spec => []FileInv
    OBVIOUS
  <1>1. FileInv /\ [Next]_vars => FileInv'
    BY FileNext
  <1>2. QED  BY <1>1, InitFile, PTL DEF Spec

\* If the counts agree, an inserted vertex is found in the slot the readers
\* compute, and so is its list head once one was written.
THEOREM SlotIsFoundIfAgree == SlotsAgree => (Spec => []SlotIsFound)
  <1>1. FileInv => SlotIsFound
    <2> SUFFICES ASSUME FileInv, NEW id \in placed
                 PROVE  /\ IsNormal(Slot(id)) /\ RecordAt(Slot(id)).v = id
                        /\ id \in hung => RecordAt(Slot(id)).e = id
      BY DEF SlotIsFound
    <2>1. id \in Id /\ FileOK
      BY DEF FileInv, FileOK
    <2>2. PICK e \in Nat : /\ Holds(file, Slot(id).block + 1, Slot(id).offset, [v |-> id, e |-> e])
                           /\ id \in hung => e = id
      BY DEF FileInv, SlotsHold
    <2>3. IsNormal(Slot(id)) /\ RecordAt(Slot(id)) = [v |-> id, e |-> e]
      BY <2>1, <2>2, SlotView
    <2>4. QED  BY <2>2, <2>3
  <1>2. QED  BY <1>1, FileInvHolds, PTL

\* If the counts agree, neither np_place_physmap_record nor
\* update_vertex_phys_map changes the slot of another vertex; the list head is
\* the only thing that is ever written into a slot in use.
THEOREM OthersUntouchedIfAgree == SlotsAgree => (Spec => OthersUntouched)
  <1> SUFFICES ASSUME SlotsAgree PROVE Spec => OthersUntouched
    OBVIOUS
  <1> DEFINE Apart == \A id \in placed : IsNormal(Slot(id)) =>
                        RecordAt(Slot(id))' = RecordAt(Slot(id)) \/ id \in hung' \ hung
  <1>1. ASSUME FileInv, [Next]_vars PROVE Apart
    <2>1. SUFFICES ASSUME NEW j \in placed
                   PROVE  RecordAt(Slot(j))' = RecordAt(Slot(j)) \/ j \in hung' \ hung
      OBVIOUS
    <2>2. j \in Id /\ FileOK
      BY <1>1 DEF FileInv, FileOK
    <2>3. PICK e \in Nat : /\ Holds(file, Slot(j).block + 1, Slot(j).offset, [v |-> j, e |-> e])
                           /\ j \in hung => e = j
      BY <1>1 DEF FileInv, SlotsHold
    <2>4. ASSUME Holds(file', Slot(j).block + 1, Slot(j).offset, [v |-> j, e |-> e])
          PROVE  RecordAt(Slot(j))' = RecordAt(Slot(j))
      BY <2>3, <2>4 DEF Holds, RecordAt, Slot
    <2>5. CASE UNCHANGED vars
      BY <2>5 DEF vars, RecordAt, Slot
    <2>6. ASSUME NEW id \in Id, id # j,
                 \/ Place(id)
                 \/ SetHead(id)
          PROVE  RecordAt(Slot(j))' = RecordAt(Slot(j))
      <3>1. ~(Slot(j).block + 1 = Slot(id).block + 1 /\ Slot(j).offset = Slot(id).offset)
        <4>1. Slot(j).block \in Nat /\ Slot(id).block \in Nat
              /\ ~(Slot(j).block = Slot(id).block /\ Slot(j).offset = Slot(id).offset)
          BY <2>2, <2>6, IdFacts
        <4>2. QED  BY <4>1
      <3>2. HeadSlot(id) = Slot(id)
        BY DEF SlotsAgree
      <3>3. Holds(file', Slot(j).block + 1, Slot(j).offset, [v |-> j, e |-> e])
        BY ZenonT(60), <2>2, <2>3, <2>6, <3>1, <3>2, PlaceFacts, SetHeadFacts
      <3>4. QED  BY <2>4, <3>3
    <2>7. CASE SetHead(j)
      <3>1. Holds(file', Slot(j).block + 1, Slot(j).offset, [v |-> j, e |-> j])
        BY <1>1, <2>2, <2>7, SetHeadStep
      <3>2. CASE j \in hung
        BY <2>3, <2>4, <3>1, <3>2
      <3>3. CASE j \notin hung
        BY <2>7, <3>3 DEF SetHead
      <3>4. QED  BY <3>2, <3>3
    <2>8. ~Place(j)
      BY DEF Place
    <2>9. QED  BY <1>1, <2>5, <2>6, <2>7, <2>8 DEF Next
  <1>2. FileInv /\ [Next]_vars => [Apart]_vars
    BY <1>1
  <1>3. [][Apart]_vars <=> OthersUntouched
    BY DEF OthersUntouched
  <1>4. QED  BY <1>2, <1>3, FileInvHolds, PTL DEF Spec

\* A slot that does not fit on the page is never there, whatever the counts
\* are: PageAddItemExtended drops the record and np_place_physmap_record does
\* not look.  With the source's numbers these are lines 292 to 314 of a page.
THEOREM SlotsPastThePage ==
    Spec => [](\A id \in Id : Slot(id).offset > Capacity => ~IsNormal(Slot(id)))
  <1>1. ASSUME FileOK, [Next]_vars PROVE FileOK'
    <2>1. CASE UNCHANGED vars
      BY <1>1, <2>1 DEF vars, FileOK
    <2>2. CASE Next
      BY <1>1, <2>2, PlaceFacts, SetHeadFacts DEF Next
    <2>3. QED  BY <1>1, <2>1, <2>2
  <1>2. FileOK /\ [Next]_vars => FileOK'
    BY <1>1
  <1>3. FileOK => \A id \in Id : Slot(id).offset > Capacity => ~IsNormal(Slot(id))
    <2> SUFFICES ASSUME FileOK, NEW id \in Id, Slot(id).offset > Capacity, IsNormal(Slot(id))
                 PROVE  FALSE
      OBVIOUS
    <2>1. Slot(id).block + 1 \in 1 .. Len(file) /\ Slot(id).offset \in Nat /\ Capacity \in Nat
      BY IdFacts, LenProperties DEF IsNormal, FileOK
    <2>2. file[Slot(id).block + 1] \in Seq(Entry) /\ Len(file[Slot(id).block + 1]) <= Capacity
      BY <2>1, LenProperties DEF FileOK
    <2>3. Len(file[Slot(id).block + 1]) \in Nat
      BY <2>2, LenProperties
    <2>4. QED  BY <2>1, <2>2, <2>3 DEF IsNormal
  <1>4. Init => FileOK
    BY InitFile DEF FileInv
  <1>5. QED  BY <1>2, <1>3, <1>4, PTL DEF Spec
=============================================================================
