-------------------------- MODULE AdjacencyListProofs --------------------------
(***************************************************************************)
(* Theorems about AdjacencyList, for every number of backends, vertices,   *)
(* edges and transactions, whoever aborts and whatever ids calls name.     *)
(***************************************************************************)
EXTENDS AdjacencyList, SequenceTheorems, FiniteSetTheorems, WellFoundedInduction, TLAPS

(***************************************************************************)
(* What an operation carries from one lock to the next.  An insertion that *)
(* has read a head still has a record of the right list, however much has  *)
(* been pushed since; the record it has appended points to that one.  This *)
(* is what keeps the pointers it is about to write from joining two lists  *)
(* or closing a circle.                                                    *)
(***************************************************************************)
Held(b) ==
    /\ pc[b] \in {"appendRecord", "fixPrev", "walk"} /\ saved[b] # Nil =>
         HangsOn(saved[b], Owner(b))
    /\ pc[b] = "fixPrev" => saved[b] # Nil /\ list[new[b]].next = saved[b]
    /\ pc[b] \in {"fixPrev", "setHead"} => HangsOn(new[b], Owner(b))
    /\ pc[b] = "collect" /\ saved[b] # Nil => saved[b] \in DOMAIN list

ListInv ==
    /\ TypeOK /\ ListShape /\ PrevInvertsNext
    /\ \A b \in Backend : Held(b)
    /\ \A b \in Backend : pc[b] # "idle" => xid[b] # NoXid

\* A step of b leaves what the other backends hold alone.
OnlyBy(b) ==
    \A c \in Backend \ {b} : /\ pc'[c] = pc[c] /\ edge'[c] = edge[c] /\ dir'[c] = dir[c]
                             /\ saved'[c] = saved[c] /\ new'[c] = new[c] /\ xid'[c] = xid[c]

\* Records are added; the owner and the next of a record are written once.
Growth ==
    \A r \in DOMAIN list : /\ r \in DOMAIN list'
                           /\ list'[r].owner = list[r].owner
                           /\ list'[r].next = list[r].next
-----------------------------------------------------------------------------
LEMMA OwnerIsVertex ==
    ASSUME TypeOK, NEW b \in Backend
    PROVE  Owner(b) \in Vertex
    BY EndpointsAssumption DEF TypeOK, Owner, Endpoint, Directions

LEMMA OtherDirection ==
    ASSUME TypeOK, NEW b \in Backend, dir' = [dir EXCEPT ![b] = 1 - @]
    PROVE  dir' \in [Backend -> Directions]
  <1>1. dir[b] \in {0, 1}
    BY DEF TypeOK, Directions
  <1>2. 1 - dir[b] \in Directions
    BY <1>1 DEF Directions
  <1>3. QED  BY <1>2 DEF TypeOK

\* Appending a record leaves the earlier ones where they are.
LEMMA AppendFacts ==
    ASSUME NEW S, NEW tab \in Seq(S), NEW row \in S
    PROVE  /\ Append(tab, row) \in Seq(S)
           /\ DOMAIN Append(tab, row) = DOMAIN tab \cup {Len(tab) + 1}
           /\ DOMAIN tab = 1 .. Len(tab) /\ Len(tab) \in Nat
           /\ Append(tab, row)[Len(tab) + 1] = row
           /\ \A i \in DOMAIN tab : Append(tab, row)[i] = tab[i]
    OBVIOUS

LEMMA InitListInv == Init => ListInv
  <1> SUFFICES ASSUME Init PROVE ListInv
    OBVIOUS
  <1>1. TypeOK
    <2>1. xact \in Seq(XactStatus) /\ {0, 1} \subseteq XidsOf(xact)
      BY DEF Init, XactStatus, XidsOf, NoXid
    <2>2. vtup \in [Vertex -> Header] /\ etup \in [Edge -> Header] /\ list \in Seq(Record)
      BY <2>1 DEF Init, Header, NoXid
    <2>3. /\ head \in [Vertex -> Nat] /\ xid \in [Backend -> XidsOf(xact)]
          /\ pc \in [Backend -> Steps] /\ edge \in [Backend -> Edge]
          /\ dir \in [Backend -> Directions]
      BY <2>1 DEF Init, Steps, Directions, Nil, NoXid
    <2>4. /\ saved \in [Backend -> Nat] /\ new \in [Backend -> Nat]
          /\ doomed \in [Backend -> Vertex \cup {NoVertex}]
          /\ detach \in [Backend -> BOOLEAN] /\ todo \in [Backend -> Seq(Edge)]
      BY DEF Init, Nil
    <2>5. QED  BY <2>1, <2>2, <2>3, <2>4 DEF TypeOK
  <1>2. ListShape /\ PrevInvertsNext
    BY DEF Init, ListShape, PrevInvertsNext
  <1>3. \A b \in Backend : Held(b) /\ pc[b] = "idle"
    BY DEF Init, Held
  <1>4. QED  BY <1>1, <1>2, <1>3 DEF ListInv
-----------------------------------------------------------------------------
(* Transactions.                                                            *)

LEMMA TablesKept ==
    ASSUME TypeOK, XidsOf(xact) \subseteq XidsOf(xact')
    PROVE  /\ vtup \in [Vertex -> Header'] /\ etup \in [Edge -> Header']
           /\ list \in Seq(Record')
  <1>1. Header \subseteq Header' /\ Record \subseteq Record'
    BY DEF Header, Record
  <1>2. vtup \in [Vertex -> Header] /\ etup \in [Edge -> Header] /\ list \in Seq(Record)
    BY DEF TypeOK
  <1>3. QED  BY <1>1, <1>2, SeqMonotonic

LEMMA BeginStep == ASSUME ListInv, NEW b \in Backend, Begin(b) PROVE ListInv'
  <1>1. /\ xact \in Seq(XactStatus) /\ "running" \in XactStatus
        /\ xact' = Append(xact, "running")
        /\ UNCHANGED <<vtup, etup, list, head, pc, edge, dir, saved, new, doomed, detach, todo>>
        /\ xid' = [xid EXCEPT ![b] = Len(xact) + 1]
    BY DEF ListInv, TypeOK, XactStatus, Begin, tables, frame
  <1>2. /\ xact' \in Seq(XactStatus) /\ Len(xact) + 1 \in XidsOf(xact')
        /\ XidsOf(xact) \subseteq XidsOf(xact') /\ Len(xact) + 1 # NoXid
    BY <1>1, AppendFacts DEF XidsOf, NoXid
  <1>3. TypeOK'
    <2>1. vtup' \in [Vertex -> Header'] /\ etup' \in [Edge -> Header'] /\ list' \in Seq(Record')
      BY <1>1, <1>2, TablesKept DEF ListInv
    <2>2. xid' \in [Backend -> XidsOf(xact')]
      BY <1>1, <1>2 DEF ListInv, TypeOK
    <2>3. QED  BY <1>1, <1>2, <2>1, <2>2 DEF ListInv, TypeOK
  <1>4. ListShape' /\ PrevInvertsNext' /\ \A c \in Backend : Held(c)'
    BY <1>1 DEF ListInv, ListShape, PrevInvertsNext, Held, HangsOn, Owner
  <1>5. \A c \in Backend : pc'[c] # "idle" => xid'[c] # NoXid
    BY <1>1, <1>2 DEF ListInv, TypeOK
  <1>6. QED  BY <1>3, <1>4, <1>5 DEF ListInv

LEMMA EndStep ==
    ASSUME ListInv, NEW b \in Backend, xid[b] # NoXid, NEW status \in XactStatus, End(b, status)
    PROVE  ListInv'
  <1>1. /\ xact \in Seq(XactStatus) /\ xid[b] \in 1 .. Len(xact)
        /\ xact' = [xact EXCEPT ![xid[b]] = status]
        /\ UNCHANGED <<vtup, etup, list, head, edge, dir, detach>>
    BY LenProperties DEF ListInv, TypeOK, End, XidsOf, tables
  <1>2. xact' \in Seq(XactStatus) /\ XidsOf(xact') = XidsOf(xact)
    BY <1>1, ExceptSeq, LenProperties DEF XidsOf
  <1>3. TypeOK'
    <2>1. vtup' \in [Vertex -> Header'] /\ etup' \in [Edge -> Header'] /\ list' \in Seq(Record')
      BY <1>1, <1>2, TablesKept DEF ListInv
    <2>2. xid' \in [Backend -> XidsOf(xact')]
      BY <1>2 DEF ListInv, TypeOK, End, XidsOf
    <2>3. /\ saved' \in [Backend -> Nat] /\ new' \in [Backend -> Nat]
          /\ doomed' \in [Backend -> Vertex \cup {NoVertex}]
          /\ todo' \in [Backend -> Seq(Edge)] /\ pc' \in [Backend -> Steps]
      BY DEF ListInv, TypeOK, End, Goto, Steps, Nil
    <2>4. QED  BY <1>1, <1>2, <2>1, <2>2, <2>3 DEF ListInv, TypeOK
  <1>4. /\ pc'[b] = "idle"
        /\ \A c \in Backend \ {b} : /\ pc'[c] = pc[c] /\ saved'[c] = saved[c]
                                    /\ new'[c] = new[c] /\ xid'[c] = xid[c]
    BY DEF ListInv, TypeOK, End, Goto
  <1>5. ListShape' /\ PrevInvertsNext'
    BY <1>1 DEF ListInv, ListShape, PrevInvertsNext, HangsOn
  <1>6. \A c \in Backend : Held(c)'
    BY <1>1, <1>4 DEF ListInv, Held, HangsOn, Owner
  <1>7. \A c \in Backend : pc'[c] # "idle" => xid'[c] # NoXid
    BY <1>4 DEF ListInv
  <1>8. QED  BY <1>3, <1>5, <1>6, <1>7 DEF ListInv
-----------------------------------------------------------------------------
(* Steps of calls.                                                          *)

\* What the others hold survives when records are only added and relinked.
LEMMA OthersHold ==
    ASSUME ListInv, NEW b \in Backend, Growth, OnlyBy(b), Held(b)', NEW c \in Backend
    PROVE  Held(c)'
  <1>1. CASE c = b
    BY <1>1
  <1>2. CASE c # b
    <2>1. /\ pc'[c] = pc[c] /\ edge'[c] = edge[c] /\ dir'[c] = dir[c]
          /\ saved'[c] = saved[c] /\ new'[c] = new[c]
      BY <1>2 DEF OnlyBy
    <2>2. Owner(c)' = Owner(c)
      BY <2>1 DEF Owner
    <2>3. Held(c)
      BY DEF ListInv
    <2>4. QED  BY <2>1, <2>2, <2>3 DEF Held, HangsOn, Growth
  <1>3. QED  BY <1>1, <1>2

\* What is left to show of a step that leaves the transactions alone.
LEMMA StepKeeps ==
    ASSUME ListInv, NEW b \in Backend, Growth, OnlyBy(b), xid' = xid, xid[b] # NoXid,
           TypeOK', ListShape', PrevInvertsNext', Held(b)'
    PROVE  ListInv'
    BY OthersHold DEF ListInv, OnlyBy

\* The lists keep their shape when neither they nor the heads are written.
LEMMA SameLists ==
    ASSUME ListInv, list' = list, head' = head
    PROVE  Growth /\ ListShape' /\ PrevInvertsNext'
    BY DEF ListInv, Growth, ListShape, PrevInvertsNext, HangsOn

LEMMA SameSets == ASSUME xact' = xact PROVE Header' = Header /\ Record' = Record
    BY DEF Header, Record

\* A call starts, or goes on, without writing a list.
LEMMA QuietSteps ==
    ASSUME ListInv, NEW b \in Backend,
           \/ \E e \in Edge : InsertEdge(b, e) \/ DeleteEdge(b, e)
           \/ \E v \in Vertex, cascade \in BOOLEAN : DeleteVertex(b, v, cascade)
           \/ ReadHead(b) \/ StartWalk(b) \/ WalkOn(b) \/ WalkEnds(b)
           \/ Collect(b) \/ CollectEnds(b) \/ CascadeDelete(b) \/ StampVertex(b)
    PROVE  ListInv'
  <1>1. list' = list /\ head' = head /\ xact' = xact /\ xid' = xid /\ xid[b] # NoXid
    BY DEF InsertEdge, DeleteEdge, DeleteVertex, ReadHead, StartWalk, WalkOn, WalkEnds, Collect,
           CollectEnds, CascadeDelete, StampVertex, CanCall, ListInv, tables, frame
  <1>2. /\ Growth /\ ListShape' /\ PrevInvertsNext' /\ Header' = Header /\ Record' = Record
    BY <1>1, SameLists, SameSets
  <1>3. list[saved[b]].next \in Nat \/ saved[b] \notin DOMAIN list
    <2>1. saved[b] \in DOMAIN list => list[saved[b]] \in Record
      BY DEF ListInv, TypeOK
    <2>2. QED  BY <2>1 DEF Record
  <1>4. ASSUME NEW e \in Edge, InsertEdge(b, e) PROVE ListInv'
    <2>1. TypeOK'
      BY <1>1, <1>2, <1>4 DEF ListInv, TypeOK, InsertEdge, Goto, Header, Steps, Directions
    <2>2. OnlyBy(b) /\ Held(b)'
      BY <1>4 DEF ListInv, TypeOK, InsertEdge, Goto, OnlyBy, Held
    <2>3. QED  BY <1>1, <1>2, <2>1, <2>2, StepKeeps
  <1>5. ASSUME NEW e \in Edge, DeleteEdge(b, e) PROVE ListInv'
    <2>1. TypeOK'
      BY <1>1, <1>2, <1>5 DEF ListInv, TypeOK, DeleteEdge, StampEdge, Goto, Header, Steps,
                              Directions
    <2>2. OnlyBy(b) /\ Held(b)'
      BY <1>5 DEF ListInv, TypeOK, DeleteEdge, StampEdge, Goto, OnlyBy, Held
    <2>3. QED  BY <1>1, <1>2, <2>1, <2>2, StepKeeps
  <1>6. ASSUME NEW v \in Vertex, NEW cascade \in BOOLEAN, DeleteVertex(b, v, cascade)
        PROVE  ListInv'
    <2>1. TypeOK'
      BY <1>1, <1>2, <1>6 DEF ListInv, TypeOK, DeleteVertex, Goto, Steps, tables
    <2>2. OnlyBy(b) /\ Held(b)'
      BY <1>6 DEF ListInv, TypeOK, ListShape, HangsOn, DeleteVertex, Goto, OnlyBy, Held, tables
    <2>3. QED  BY <1>1, <1>2, <2>1, <2>2, StepKeeps
  <1>7. CASE ReadHead(b) \/ StartWalk(b)
    <2>1. Owner(b) \in Vertex
      BY OwnerIsVertex DEF ListInv
    <2>2. TypeOK'
      BY <1>1, <1>2, <1>7, <2>1 DEF ListInv, TypeOK, ReadHead, StartWalk, Goto, Steps, tables
    <2>3. OnlyBy(b)
      BY <1>7 DEF ListInv, TypeOK, ReadHead, StartWalk, Goto, OnlyBy
    <2>4. /\ saved'[b] = head[Owner(b)] /\ pc'[b] \in {"appendRecord", "walk"}
          /\ edge' = edge /\ dir' = dir
      BY <1>7 DEF ListInv, TypeOK, ReadHead, StartWalk, Goto
    <2>5. Owner(b)' = Owner(b)
      BY <2>4 DEF Owner
    <2>6. Held(b)'
      BY <1>1, <2>1, <2>4, <2>5 DEF ListInv, ListShape, HangsOn, Held
    <2>7. QED  BY <1>1, <1>2, <2>2, <2>3, <2>6, StepKeeps
  <1>8. CASE WalkOn(b)
    <2>1. /\ HangsOn(saved[b], Owner(b)) /\ pc'[b] = "walk" /\ edge' = edge /\ dir' = dir
          /\ saved'[b] = list[saved[b]].next
      BY <1>8 DEF ListInv, TypeOK, Held, WalkOn
    <2>2. TypeOK'
      <3>1. saved' \in [Backend -> Nat]
        BY <1>3, <1>8, <2>1 DEF ListInv, TypeOK, WalkOn, HangsOn
      <3>2. UNCHANGED <<xact, vtup, etup, list, head, xid, pc, edge, dir, new, doomed,
                        detach, todo>>
        BY <1>8 DEF WalkOn, tables
      <3>3. QED  BY <3>1, <3>2, SameSets DEF ListInv, TypeOK
    <2>3. OnlyBy(b)
      BY <1>8 DEF ListInv, TypeOK, WalkOn, OnlyBy
    <2>4. Owner(b)' = Owner(b)
      BY <2>1 DEF Owner
    <2>5. Held(b)'
      BY <1>1, <2>1, <2>4 DEF ListInv, ListShape, HangsOn, Held
    <2>6. QED  BY <1>1, <1>2, <2>2, <2>3, <2>5, StepKeeps
  <1>9. CASE WalkEnds(b)
    <2>1. TypeOK'
      <3>1. dir' \in [Backend -> Directions]
        BY <1>9, OtherDirection DEF ListInv, WalkEnds, NextList
      <3>2. pc' \in [Backend -> Steps]
        <4>1. \E step \in Steps : pc' = [pc EXCEPT ![b] = step]
          BY <1>9 DEF WalkEnds, NextList, Return, Goto, Steps
        <4>2. QED  BY <4>1 DEF ListInv, TypeOK
      <3>3. UNCHANGED <<xact, vtup, etup, list, head, xid, edge, saved, new, doomed,
                        detach, todo>>
        BY <1>9 DEF WalkEnds, tables
      <3>4. QED  BY <3>1, <3>2, <3>3, SameSets DEF ListInv, TypeOK
    <2>2. OnlyBy(b) /\ Held(b)'
      BY <1>9 DEF ListInv, TypeOK, WalkEnds, NextList, Return, Goto, OnlyBy, Held
    <2>3. QED  BY <1>1, <1>2, <2>1, <2>2, StepKeeps
  <1>10. CASE Collect(b)
    <2>1. /\ saved[b] \in DOMAIN list /\ pc'[b] = "collect" /\ pc[b] = "collect"
          /\ saved'[b] = list[saved[b]].next
      BY <1>10 DEF ListInv, TypeOK, Held, Collect
    <2>2. list[saved[b]] \in Record
      BY <2>1 DEF ListInv, TypeOK
    <2>3. list[saved[b]].next \in Nat /\ list[saved[b]].edge \in Edge
      BY <2>2 DEF Record
    <2>4. todo[b] \in Seq(Edge)
      BY DEF ListInv, TypeOK
    <2>5. Append(todo[b], list[saved[b]].edge) \in Seq(Edge)
      BY <2>3, <2>4, AppendProperties
    <2>6. todo' \in [Backend -> Seq(Edge)] /\ saved' \in [Backend -> Nat]
      BY <1>10, <2>3, <2>5 DEF ListInv, TypeOK, Collect
    <2>7. TypeOK'
      BY <1>1, <1>2, <1>10, <2>6 DEF ListInv, TypeOK, Collect, tables
    <2>8. OnlyBy(b)
      BY <1>10 DEF ListInv, TypeOK, Collect, OnlyBy
    <2>9. Held(b)'
      BY <1>1, <2>1 DEF ListInv, ListShape, HangsOn, Held
    <2>10. QED  BY <1>1, <1>2, <2>7, <2>8, <2>9, StepKeeps
  <1>11. CASE CollectEnds(b)
    <2>1. TypeOK'
      BY <1>1, <1>2, <1>11 DEF ListInv, TypeOK, CollectEnds, Goto, Steps, tables, frame
    <2>2. OnlyBy(b) /\ Held(b)'
      BY <1>11 DEF ListInv, TypeOK, CollectEnds, Goto, OnlyBy, Held, frame
    <2>3. QED  BY <1>1, <1>2, <2>1, <2>2, StepKeeps
  <1>12. CASE CascadeDelete(b)
    <2>1. todo[b] \in Seq(Edge) /\ todo[b] # <<>>
      BY <1>12 DEF ListInv, TypeOK, CascadeDelete
    <2>2. Head(todo[b]) \in Edge /\ Tail(todo[b]) \in Seq(Edge)
      BY <2>1, HeadTailProperties
    <2>3. todo' \in [Backend -> Seq(Edge)] /\ edge' \in [Backend -> Edge]
      BY <1>12, <2>2 DEF ListInv, TypeOK, CascadeDelete, StampEdge
    <2>4. etup' \in [Edge -> Header]
      BY <1>12, <2>2 DEF ListInv, TypeOK, CascadeDelete, StampEdge, Header
    <2>5. TypeOK'
      BY <1>1, <1>2, <1>12, <2>3, <2>4 DEF ListInv, TypeOK, CascadeDelete, StampEdge, Goto,
                                           Steps, Directions
    <2>6. OnlyBy(b) /\ Held(b)'
      BY <1>12 DEF ListInv, TypeOK, CascadeDelete, StampEdge, Goto, OnlyBy, Held
    <2>7. QED  BY <1>1, <1>2, <2>5, <2>6, StepKeeps
  <1>13. CASE StampVertex(b)
    <2>1. vtup' \in [Vertex -> Header]
      BY ZenonT(60), <1>13 DEF ListInv, TypeOK, StampVertex, Header
    <2>2. TypeOK'
      BY <1>1, <1>2, <1>13, <2>1 DEF ListInv, TypeOK, StampVertex, Return, Goto, Steps
    <2>3. OnlyBy(b) /\ Held(b)'
      BY <1>13 DEF ListInv, TypeOK, StampVertex, Return, Goto, OnlyBy, Held
    <2>4. QED  BY <1>1, <1>2, <2>2, <2>3, StepKeeps
  <1>14. QED
    BY <1>4, <1>5, <1>6, <1>7, <1>8, <1>9, <1>10, <1>11, <1>12, <1>13
-----------------------------------------------------------------------------
(* Steps that write a list.                                                 *)

LEMMA AppendRecordStep == ASSUME ListInv, NEW b \in Backend, AppendRecord(b) PROVE ListInv'
  <1> DEFINE row == [edge |-> edge[b], dir |-> dir[b], owner |-> Owner(b),
                     xmin |-> xid[b], xmax |-> NoXid, next |-> saved[b], prev |-> Nil]
             n == Len(list) + 1
  <1>1. /\ UNCHANGED <<xact, vtup, etup, head, xid, edge, dir, saved, doomed, detach, todo>>
        /\ list' = Append(list, row) /\ pc[b] = "appendRecord" /\ xid[b] # NoXid
        /\ new' = [new EXCEPT ![b] = n]
        /\ pc' = [pc EXCEPT ![b] = IF saved[b] = Nil THEN "setHead" ELSE "fixPrev"]
        /\ list \in Seq(Record)
    BY DEF AppendRecord, Goto, ListInv, TypeOK
  <1>2. row \in Record
    BY OwnerIsVertex DEF ListInv, TypeOK, Record, XidsOf, NoXid, Nil
  <1>3. Header' = Header /\ Record' = Record
    BY <1>1, SameSets
  <1>4. /\ list' \in Seq(Record) /\ DOMAIN list' = DOMAIN list \cup {n} /\ list'[n] = row
        /\ DOMAIN list = 1 .. Len(list) /\ Len(list) \in Nat
        /\ \A r \in DOMAIN list : list'[r] = list[r]
    BY <1>1, <1>2, AppendFacts
  <1>5. /\ row.owner = Owner(b) /\ row.next = saved[b] /\ row.prev = Nil
        /\ saved[b] # Nil => HangsOn(saved[b], Owner(b))
    BY <1>1 DEF ListInv, Held
  <1> HIDE DEF row
  <1>6. TypeOK'
    BY <1>1, <1>3, <1>4 DEF ListInv, TypeOK, Steps
  <1>7. Growth /\ OnlyBy(b)
    BY <1>1, <1>4 DEF ListInv, TypeOK, Growth, OnlyBy
  <1>8. ListShape'
    <2>1. \A v \in Vertex : head'[v] # Nil => HangsOn(head[v], v)'
      BY <1>1, <1>4 DEF ListInv, ListShape, HangsOn
    <2>2. ASSUME NEW r \in DOMAIN list
          PROVE  /\ list'[r].next # Nil =>
                      list'[r].next < r /\ list'[r].next \in DOMAIN list'
                      /\ list'[list'[r].next].owner = list'[r].owner
                 /\ list'[r].prev # Nil =>
                      list'[r].prev > r /\ list'[r].prev \in DOMAIN list'
                      /\ list'[list'[r].prev].owner = list'[r].owner
      BY <1>4 DEF ListInv, ListShape, HangsOn
    <2>3. list'[n].next # Nil =>
            list'[n].next < n /\ list'[n].next \in DOMAIN list'
            /\ list'[list'[n].next].owner = list'[n].owner
      BY <1>4, <1>5 DEF HangsOn
    <2>4. list'[n].prev = Nil
      BY <1>4, <1>5
    <2>5. QED  BY <1>4, <2>1, <2>2, <2>3, <2>4 DEF ListShape, HangsOn
  <1>9. PrevInvertsNext'
    <2>1. \A r \in DOMAIN list : list[r].prev # Nil => list[r].prev \in DOMAIN list
      BY DEF ListInv, ListShape, HangsOn
    <2>2. QED  BY <1>4, <1>5, <2>1 DEF ListInv, PrevInvertsNext
  <1>10. Held(b)'
    <2>1. Owner(b)' = Owner(b) /\ new'[b] = n /\ saved'[b] = saved[b]
      BY <1>1 DEF Owner, ListInv, TypeOK
    <2>2. /\ pc'[b] \in {"setHead", "fixPrev"} /\ pc'[b] = "fixPrev" => saved[b] # Nil
      BY <1>1 DEF ListInv, TypeOK
    <2>3. QED  BY <1>4, <1>5, <2>1, <2>2 DEF Held, HangsOn
  <1>11. QED  BY <1>1, <1>6, <1>7, <1>8, <1>9, <1>10, StepKeeps

\* Overwriting one field of a record.
LEMMA RelinkFacts ==
    ASSUME TypeOK, NEW k \in DOMAIN list, NEW p \in Nat,
           list' = [list EXCEPT ![k].prev = p]
    PROVE  /\ list' \in Seq(Record) /\ DOMAIN list' = DOMAIN list
           /\ \A r \in DOMAIN list : r # k => list'[r] = list[r]
           /\ list'[k].prev = p /\ list'[k].next = list[k].next
           /\ list'[k].owner = list[k].owner
  <1>1. list \in Seq(Record) /\ DOMAIN list = 1 .. Len(list) /\ list[k] \in Record
    BY LenProperties DEF TypeOK
  <1> DEFINE row == [list[k] EXCEPT !.prev = p]
  <1>2. row \in Record /\ row.prev = p /\ row.next = list[k].next /\ row.owner = list[k].owner
    BY <1>1 DEF Record
  <1>3. list' = [list EXCEPT ![k] = row]
    OBVIOUS
  <1> HIDE DEF row
  <1>4. list' \in Seq(Record) /\ Len(list') = Len(list)
    BY <1>1, <1>2, <1>3, ExceptSeq
  <1>5. QED  BY <1>1, <1>2, <1>3, <1>4

LEMMA StampFacts ==
    ASSUME TypeOK, NEW k \in DOMAIN list, NEW x \in XidsOf(xact),
           list' = [list EXCEPT ![k].xmax = x]
    PROVE  /\ list' \in Seq(Record) /\ DOMAIN list' = DOMAIN list
           /\ \A r \in DOMAIN list : r # k => list'[r] = list[r]
           /\ list'[k].prev = list[k].prev /\ list'[k].next = list[k].next
           /\ list'[k].owner = list[k].owner
  <1>1. list \in Seq(Record) /\ DOMAIN list = 1 .. Len(list) /\ list[k] \in Record
    BY LenProperties DEF TypeOK
  <1> DEFINE row == [list[k] EXCEPT !.xmax = x]
  <1>2. /\ row \in Record /\ row.prev = list[k].prev /\ row.next = list[k].next
        /\ row.owner = list[k].owner
    BY <1>1 DEF Record
  <1>3. list' = [list EXCEPT ![k] = row]
    OBVIOUS
  <1> HIDE DEF row
  <1>4. list' \in Seq(Record) /\ Len(list') = Len(list)
    BY <1>1, <1>2, <1>3, ExceptSeq
  <1>5. QED  BY <1>1, <1>2, <1>3, <1>4

LEMMA FixPrevStep == ASSUME ListInv, NEW b \in Backend, FixPrev(b) PROVE ListInv'
  <1>1. /\ UNCHANGED <<xact, vtup, etup, head, xid, edge, dir, saved, new, doomed, detach, todo>>
        /\ list' = [list EXCEPT ![saved[b]].prev = new[b]] /\ pc[b] = "fixPrev"
        /\ pc' = [pc EXCEPT ![b] = "setHead"] /\ xid[b] # NoXid /\ new[b] \in Nat
    BY DEF FixPrev, Goto, frame, ListInv, TypeOK
  <1> DEFINE k == saved[b]
             m == new[b]
  <1>2. /\ k # Nil /\ HangsOn(k, Owner(b)) /\ HangsOn(m, Owner(b)) /\ list[m].next = k
    BY <1>1 DEF ListInv, Held
  <1>3. k \in DOMAIN list /\ m \in DOMAIN list /\ k < m /\ list[m].owner = list[k].owner
    BY <1>2 DEF ListInv, ListShape, HangsOn
  <1>4. /\ list' \in Seq(Record) /\ DOMAIN list' = DOMAIN list
        /\ \A r \in DOMAIN list : r # k => list'[r] = list[r]
        /\ list'[k].prev = m /\ list'[k].next = list[k].next /\ list'[k].owner = list[k].owner
    BY <1>1, <1>3, RelinkFacts DEF ListInv
  <1> HIDE DEF k, m
  <1>5. \A r \in DOMAIN list : list'[r].next = list[r].next /\ list'[r].owner = list[r].owner
    BY <1>4
  <1>6. TypeOK'
    BY <1>1, <1>4, SameSets DEF ListInv, TypeOK, Steps
  <1>7. Growth /\ OnlyBy(b)
    BY <1>1, <1>4, <1>5 DEF ListInv, TypeOK, Growth, OnlyBy
  <1>8. ListShape'
    <2>1. \A v \in Vertex : head'[v] # Nil => HangsOn(head[v], v)'
      BY <1>1, <1>4, <1>5 DEF ListInv, ListShape, HangsOn
    <2>2. ASSUME NEW r \in DOMAIN list
          PROVE  /\ list'[r].next # Nil =>
                      list'[r].next < r /\ list'[r].next \in DOMAIN list
                      /\ list'[list'[r].next].owner = list'[r].owner
                 /\ list'[r].prev # Nil =>
                      list'[r].prev > r /\ list'[r].prev \in DOMAIN list
                      /\ list'[list'[r].prev].owner = list'[r].owner
      <3>1. CASE r = k
        BY <1>3, <1>4, <1>5, <3>1 DEF ListInv, ListShape, HangsOn
      <3>2. CASE r # k
        BY <1>4, <1>5, <3>2 DEF ListInv, ListShape, HangsOn
      <3>3. QED  BY <3>1, <3>2
    <2>3. QED  BY <1>4, <2>1, <2>2 DEF ListShape, HangsOn
  <1>9. PrevInvertsNext'
    <2>1. \A r \in DOMAIN list : list[r].prev # Nil => list[r].prev \in DOMAIN list
      BY DEF ListInv, ListShape, HangsOn
    <2>2. list'[m].next = k
      BY <1>2, <1>3, <1>5 DEF k, m
    <2>3. QED  BY <1>4, <1>5, <2>1, <2>2 DEF ListInv, PrevInvertsNext
  <1>10. Held(b)'
    <2>1. Owner(b)' = Owner(b) /\ new'[b] = m /\ pc'[b] = "setHead"
      BY <1>1 DEF Owner, ListInv, TypeOK, m
    <2>2. QED  BY <1>2, <1>3, <1>4, <1>5, <2>1 DEF Held, HangsOn, m
  <1>11. QED  BY <1>1, <1>6, <1>7, <1>8, <1>9, <1>10, StepKeeps

LEMMA SetHeadStep == ASSUME ListInv, NEW b \in Backend, SetHead(b) PROVE ListInv'
  <1>1. /\ UNCHANGED <<xact, vtup, etup, list, xid, edge, saved, new, doomed, detach, todo>>
        /\ head' = [head EXCEPT ![Owner(b)] = new[b]] /\ pc[b] = "setHead" /\ xid[b] # NoXid
        /\ HangsOn(new[b], Owner(b)) /\ Owner(b) \in Vertex /\ new[b] \in Nat
    BY OwnerIsVertex DEF SetHead, ListInv, TypeOK, Held
  <1>2. TypeOK'
    <2>1. head' \in [Vertex -> Nat] /\ dir' \in [Backend -> Directions]
      BY <1>1, OtherDirection DEF ListInv, TypeOK, SetHead
    <2>2. pc' \in [Backend -> Steps]
      <3>1. \E step \in Steps : pc' = [pc EXCEPT ![b] = step]
        BY DEF SetHead, Return, Goto, Steps
      <3>2. QED  BY <3>1 DEF ListInv, TypeOK
    <2>3. QED  BY <1>1, <2>1, <2>2, SameSets DEF ListInv, TypeOK
  <1>3. Growth /\ PrevInvertsNext'
    BY <1>1 DEF Growth, ListInv, PrevInvertsNext
  <1>4. OnlyBy(b) /\ Held(b)'
    BY <1>1 DEF ListInv, TypeOK, SetHead, Return, Goto, OnlyBy, Held
  <1>5. ListShape'
    BY <1>1 DEF ListInv, TypeOK, ListShape, HangsOn
  <1>6. QED  BY <1>1, <1>2, <1>3, <1>4, <1>5, StepKeeps

LEMMA StampRecordStep == ASSUME ListInv, NEW b \in Backend, StampRecord(b) PROVE ListInv'
  <1>1. /\ UNCHANGED <<xact, vtup, etup, head, xid, edge, saved, new, doomed, detach, todo>>
        /\ list' = [list EXCEPT ![saved[b]].xmax = xid[b]] /\ pc[b] = "walk" /\ xid[b] # NoXid
        /\ saved[b] \in DOMAIN list /\ xid[b] \in XidsOf(xact)
    BY DEF StampRecord, ListInv, TypeOK, Held, HangsOn
  <1>2. /\ list' \in Seq(Record) /\ DOMAIN list' = DOMAIN list
        /\ \A r \in DOMAIN list : /\ list'[r].prev = list[r].prev
                                  /\ list'[r].next = list[r].next
                                  /\ list'[r].owner = list[r].owner
    BY <1>1, StampFacts DEF ListInv
  <1>3. TypeOK'
    <2>1. dir' \in [Backend -> Directions]
      BY OtherDirection DEF ListInv, StampRecord, NextList
    <2>2. pc' \in [Backend -> Steps]
      <3>1. \E step \in Steps : pc' = [pc EXCEPT ![b] = step]
        BY DEF StampRecord, NextList, Return, Goto, Steps
      <3>2. QED  BY <3>1 DEF ListInv, TypeOK
    <2>3. QED  BY <1>1, <1>2, <2>1, <2>2, SameSets DEF ListInv, TypeOK
  <1>4. Growth /\ OnlyBy(b) /\ Held(b)'
    BY <1>1, <1>2 DEF ListInv, TypeOK, StampRecord, NextList, Return, Goto, Growth, OnlyBy, Held
  <1>5. ListShape'
    BY <1>1, <1>2 DEF ListInv, ListShape, HangsOn
  <1>6. PrevInvertsNext'
    <2>1. \A r \in DOMAIN list : list[r].prev # Nil => list[r].prev \in DOMAIN list
      BY DEF ListInv, ListShape, HangsOn
    <2>2. QED  BY <1>2, <2>1 DEF ListInv, PrevInvertsNext
  <1>7. QED  BY <1>1, <1>3, <1>4, <1>5, <1>6, StepKeeps
-----------------------------------------------------------------------------
(* The theorems.                                                            *)

LEMMA NextStep == ListInv /\ [Next]_vars => ListInv'
  <1> SUFFICES ASSUME ListInv, [Next]_vars PROVE ListInv'
    OBVIOUS
  <1>1. CASE UNCHANGED vars
    <2>1. /\ UNCHANGED <<xact, vtup, etup, list, head, xid, pc, edge, dir, saved, new, doomed,
                         detach, todo>>
          /\ Header' = Header /\ Record' = Record
      BY <1>1, SameSets DEF vars, tables, frame
    <2>2. TypeOK'
      BY <2>1 DEF ListInv, TypeOK
    <2>3. ListShape' /\ PrevInvertsNext'
      BY <2>1, SameLists
    <2>4. \A b \in Backend : Held(b)' /\ (pc'[b] # "idle" => xid'[b] # NoXid)
      BY <2>1 DEF ListInv, Held, HangsOn, Owner
    <2>5. QED  BY <2>2, <2>3, <2>4 DEF ListInv
  <1>2. ASSUME NEW b \in Backend, Commit(b) \/ Abort(b) \/ Refuse(b) \/ CascadeFails(b)
                                  \/ \E e \in Edge : DeleteEdgeFails(b, e)
        PROVE  ListInv'
    <2>1. xid[b] # NoXid
      BY <1>2 DEF Commit, Abort, Refuse, AtActiveEdge, CascadeFails, DeleteEdgeFails, CanCall,
                  ListInv
    <2>2. {"committed", "aborted"} \subseteq XactStatus
      BY DEF XactStatus
    <2>3. End(b, "committed") \/ End(b, "aborted")
      BY <1>2 DEF Commit, Abort, Refuse, CascadeFails, DeleteEdgeFails
    <2>4. QED  BY <2>1, <2>2, <2>3, EndStep
  <1>3. ASSUME NEW b \in Backend, Begin(b) \/ Call(b) \/ Continue(b)
        PROVE  ListInv'
    BY <1>2, <1>3, BeginStep, QuietSteps, AppendRecordStep, FixPrevStep, SetHeadStep,
       StampRecordStep
       DEF Call, Continue
  <1>4. QED  BY <1>1, <1>2, <1>3 DEF Next

LEMMA ListInvHolds == Spec => []ListInv
    BY InitListInv, NextStep, PTL DEF Spec

\* Every transaction id a tuple, a record or a session holds was handed out.
THEOREM TypeCorrect == Spec => []TypeOK
    BY ListInvHolds, PTL DEF ListInv

\* No interleaving of insert_edge_one_direction with itself or with deletions,
\* and no rollback between its steps, makes a list circular or joins two lists.
THEOREM ListShapeHolds == Spec => []ListShape
    BY ListInvHolds, PTL DEF ListInv

\* update_edge_prev_pointer never leaves a prev that does not invert a next.
THEOREM PrevInvertsNextHolds == Spec => []PrevInvertsNext
    BY ListInvHolds, PTL DEF ListInv
-----------------------------------------------------------------------------
(***************************************************************************)
(* Unlinking is for deletion only.  np_delete_edge_from_adj_list looks for *)
(* a record by the id of an edge, and ids are unique within a label only.  *)
(* With one label, or ids that are unique across labels, it can unlink no  *)
(* other edge than the one whose tuple the caller has just stamped, and    *)
(* nobody can delete that edge again while the walk goes on.               *)
(***************************************************************************)
UniqueIds == \A e, f \in Edge : IdOf[e] = IdOf[f] => e = f

\* Open transactions are running and are different ones.
OpenXactsRun ==
    \A b \in Backend : xid[b] # NoXid =>
        /\ xact[xid[b]] = "running"
        /\ \A c \in Backend \ {b} : xid[c] # xid[b]

\* The stamp of an edge is by its writer or came after the writer's commit.
StampsFollow ==
    \A e \in Edge : etup[e].xmax # NoXid =>
        etup[e].xmax = etup[e].xmin \/ DidCommit(xact, etup[e].xmin)

\* A backend that walks a list has stamped the tuple of the edge.
WalksForOwnStamp ==
    \A b \in Backend : pc[b] \in {"startWalk", "walk"} => etup[edge[b]].xmax = xid[b]

UnlinkInv ==
    ListInv /\ OpenXactsRun /\ StampsFollow /\ WalksForOwnStamp /\ UnlinkMeansDeleted

LEMMA InitUnlink == Init => UnlinkInv
  <1> SUFFICES ASSUME Init PROVE UnlinkInv
    OBVIOUS
  <1>1. OpenXactsRun /\ StampsFollow /\ WalksForOwnStamp /\ UnlinkMeansDeleted
    BY DEF Init, OpenXactsRun, StampsFollow, WalksForOwnStamp, UnlinkMeansDeleted
  <1>2. QED  BY <1>1, InitListInv DEF UnlinkInv

\* A check that lets b replace an edge finds nobody's stamp on it that counts.
LEMMA ReplaceableIsFree ==
    ASSUME UnlinkInv, NEW b \in Backend, xid[b] # NoXid, NEW e \in Edge, Replaceable(b, etup[e])
    PROVE  /\ etup[e].xmax = NoXid \/ DidAbort(xact, etup[e].xmax)
           /\ etup[e].xmin = xid[b] \/ DidCommit(xact, etup[e].xmin)
  <1> DEFINE t == etup[e]
             x == t.xmax
  <1>1. ~IsOwn(xid[b], x)
    BY DEF Replaceable, MayReplace, TupleIsLive
  <1>2. ~InProgress(xact, x)
    BY <1>1 DEF Replaceable, MayReplace, TupleXmaxOther
  <1>3. ~DidCommit(xact, x)
    <2>1. CASE IsOwn(xid[b], t.xmin)
      <3>1. ~DidCommit(xact, t.xmin)
        BY <2>1 DEF UnlinkInv, OpenXactsRun, IsOwn, DidCommit
      <3>2. x = NoXid \/ x = t.xmin
        BY <3>1 DEF UnlinkInv, StampsFollow
      <3>3. QED  BY <1>1, <2>1, <3>2 DEF IsOwn, DidCommit
    <2>2. QED  BY <2>1 DEF Replaceable, MayReplace, TupleIsLive
  <1>4. x # NoXid => xact[x] \in {"running", "committed", "aborted"}
    <2>1. etup[e] \in Header
      BY DEF UnlinkInv, ListInv, TypeOK
    <2>2. QED  BY <2>1 DEF UnlinkInv, ListInv, TypeOK, Header, XidsOf, XactStatus
  <1>5. t.xmin = xid[b] \/ DidCommit(xact, t.xmin)
    BY DEF Replaceable, MayReplace, TupleIsLive, IsOwn
  <1> HIDE DEF t, x
  <1>6. x = NoXid \/ DidAbort(xact, x)
    BY <1>2, <1>3, <1>4 DEF InProgress, DidCommit, DidAbort
  <1>7. QED  BY <1>5, <1>6 DEF t, x

\* Statuses of ended transactions are for ever, so the other conjuncts survive
\* a step that writes neither edges nor lists.
LEMMA UnlinkXacts ==
    ASSUME UnlinkInv, etup' = etup, list' = list,
           \A x \in DOMAIN xact : x \in DOMAIN xact' /\ (xact'[x] = xact[x] \/ xact[x] = "running")
    PROVE  StampsFollow' /\ UnlinkMeansDeleted'
  <1>1. \A e \in Edge : etup[e].xmin \in XidsOf(xact)
    <2>1. \A e \in Edge : etup[e] \in Header
      BY DEF UnlinkInv, ListInv, TypeOK
    <2>2. QED  BY <2>1 DEF Header
  <1>2. \A r \in DOMAIN list : list[r].xmax \in XidsOf(xact)
    <2>1. \A r \in DOMAIN list : list[r] \in Record
      BY DEF UnlinkInv, ListInv, TypeOK
    <2>2. QED  BY <2>1 DEF Record
  <1>3. \A x \in XidsOf(xact) : /\ DidCommit(xact, x) => DidCommit(xact', x)
                                /\ DidAbort(xact, x) => DidAbort(xact', x)
    BY DEF XidsOf, DidCommit, DidAbort
  <1>4. StampsFollow'
    BY <1>1, <1>3 DEF UnlinkInv, StampsFollow
  <1>5. UnlinkMeansDeleted'
    BY <1>2, <1>3 DEF UnlinkInv, UnlinkMeansDeleted
  <1>6. QED  BY <1>4, <1>5

LEMMA UnlinkBegin ==
    ASSUME UnlinkInv, ListInv', NEW b \in Backend, Begin(b) PROVE UnlinkInv'
  <1>1. /\ xact \in Seq(XactStatus) /\ xact' = Append(xact, "running") /\ "running" \in XactStatus
        /\ UNCHANGED <<etup, list, pc, edge>> /\ pc[b] = "idle"
        /\ xid'[b] = Len(xact) + 1 /\ \A c \in Backend \ {b} : xid'[c] = xid[c]
        /\ \A c \in Backend : xid[c] \in XidsOf(xact)
    BY DEF Begin, UnlinkInv, ListInv, TypeOK, XactStatus, tables, frame
  <1>2. /\ Len(xact) \in Nat /\ xact'[Len(xact) + 1] = "running" /\ DOMAIN xact = 1 .. Len(xact)
        /\ \A x \in DOMAIN xact : x \in DOMAIN xact' /\ xact'[x] = xact[x]
    BY <1>1, AppendFacts
  <1>3. OpenXactsRun'
    <2>1. \A c \in Backend : xid[c] # NoXid => xid[c] \in DOMAIN xact
      BY <1>1 DEF XidsOf
    <2>2. QED  BY <1>1, <1>2, <2>1 DEF UnlinkInv, OpenXactsRun, NoXid
  <1>4. WalksForOwnStamp'
    BY <1>1 DEF UnlinkInv, WalksForOwnStamp
  <1>5. QED  BY <1>1, <1>2, <1>3, <1>4, UnlinkXacts DEF UnlinkInv

LEMMA UnlinkEnd ==
    ASSUME UnlinkInv, ListInv', NEW b \in Backend, xid[b] # NoXid, NEW status, End(b, status)
    PROVE  UnlinkInv'
  <1>1. /\ UNCHANGED <<etup, list, edge>> /\ xact' = [xact EXCEPT ![xid[b]] = status]
        /\ xid'[b] = NoXid /\ pc'[b] = "idle"
        /\ \A c \in Backend \ {b} : xid'[c] = xid[c] /\ pc'[c] = pc[c]
        /\ xact[xid[b]] = "running"
        /\ \A c \in Backend : xid[c] \in XidsOf(xact)
    BY DEF End, Goto, UnlinkInv, ListInv, TypeOK, OpenXactsRun, tables
  <1>2. \A x \in DOMAIN xact : x \in DOMAIN xact' /\ (x # xid[b] => xact'[x] = xact[x])
    BY <1>1
  <1>3. OpenXactsRun'
    <2>1. ASSUME NEW c \in Backend, c # b, xid[c] # NoXid
          PROVE  xact'[xid[c]] = "running" /\ \A d \in Backend \ {c} : xid'[d] # xid[c]
      <3>1. xid[c] \in DOMAIN xact /\ xact[xid[c]] = "running" /\ xid[c] # xid[b]
        BY <1>1, <2>1 DEF XidsOf, UnlinkInv, OpenXactsRun
      <3>2. \A d \in Backend \ {c} : xid'[d] # xid[c]
        BY <1>1, <2>1 DEF UnlinkInv, OpenXactsRun
      <3>3. QED  BY <1>2, <3>1, <3>2
    <2>2. QED  BY <1>1, <2>1 DEF OpenXactsRun
  <1>4. WalksForOwnStamp'
    BY <1>1 DEF UnlinkInv, WalksForOwnStamp
  <1>5. QED  BY <1>1, <1>2, <1>3, <1>4, UnlinkXacts DEF UnlinkInv

\* Stamping an edge that may be replaced: no record of it is unlinked by
\* anybody who counts, and nobody else is walking for it.
LEMMA UnlinkStampEdge ==
    ASSUME UnlinkInv, ListInv', NEW b \in Backend, xid[b] # NoXid, NEW e \in Edge,
           StampEdge(b, e), UNCHANGED <<xact, xid, list>>
    PROVE  UnlinkInv'
  <1>1. /\ etup[e].xmax = NoXid \/ DidAbort(xact, etup[e].xmax)
        /\ etup[e].xmin = xid[b] \/ DidCommit(xact, etup[e].xmin)
    BY ReplaceableIsFree DEF StampEdge
  <1>2. /\ etup'[e].xmax = xid[b] /\ etup'[e].xmin = etup[e].xmin
        /\ \A f \in Edge : f # e => etup'[f] = etup[f]
    <2>1. etup' = [etup EXCEPT ![e].xmax = xid[b]] /\ etup[e] \in Header
      BY DEF StampEdge, UnlinkInv, ListInv, TypeOK
    <2>2. QED  BY <2>1 DEF Header, UnlinkInv, ListInv, TypeOK
  <1>3. /\ edge'[b] = e /\ pc'[b] = "startWalk"
        /\ \A c \in Backend \ {b} : edge'[c] = edge[c] /\ pc'[c] = pc[c]
    BY DEF StampEdge, Goto, UnlinkInv, ListInv, TypeOK
  <1>4. OpenXactsRun'
    BY DEF UnlinkInv, OpenXactsRun
  <1>5. StampsFollow'
    BY <1>1, <1>2 DEF UnlinkInv, StampsFollow
  <1>6. WalksForOwnStamp'
    <2>1. ASSUME NEW c \in Backend, c # b, pc[c] \in {"startWalk", "walk"}
          PROVE  etup'[edge[c]].xmax = xid[c]
      <3>1. /\ etup[edge[c]].xmax = xid[c] /\ xid[c] # NoXid /\ xact[xid[c]] = "running"
            /\ edge[c] \in Edge
        BY <2>1 DEF UnlinkInv, ListInv, TypeOK, WalksForOwnStamp, OpenXactsRun
      <3>2. edge[c] # e
        BY <1>1, <3>1 DEF DidAbort
      <3>3. QED  BY <1>2, <3>1, <3>2
    <2>2. QED  BY <1>2, <1>3, <2>1 DEF WalksForOwnStamp
  <1>7. UnlinkMeansDeleted'
    <2>1. ASSUME NEW r \in DOMAIN list, list[r].xmax # NoXid, ~DidAbort(xact, list[r].xmax)
          PROVE  etup'[list[r].edge].xmax = list[r].xmax
      <3>1. etup[list[r].edge].xmax = list[r].xmax
        BY <2>1 DEF UnlinkInv, UnlinkMeansDeleted
      <3>2. list[r].edge \in Edge
        <4>1. list[r] \in Record
          BY <2>1 DEF UnlinkInv, ListInv, TypeOK
        <4>2. QED  BY <4>1 DEF Record
      <3>3. list[r].edge # e
        BY <1>1, <2>1, <3>1
      <3>4. QED  BY <1>2, <3>1, <3>2, <3>3
    <2>2. QED  BY <2>1 DEF UnlinkMeansDeleted
  <1>8. QED  BY <1>4, <1>5, <1>6, <1>7 DEF UnlinkInv

LEMMA UnlinkInsertEdge ==
    ASSUME UnlinkInv, ListInv', NEW b \in Backend, NEW e \in Edge, InsertEdge(b, e)
    PROVE  UnlinkInv'
  <1>1. /\ UNCHANGED <<xact, xid, list>> /\ etup[e].xmin = NoXid /\ pc'[b] = "readHead"
        /\ \A c \in Backend \ {b} : edge'[c] = edge[c] /\ pc'[c] = pc[c]
    BY DEF InsertEdge, Goto, UnlinkInv, ListInv, TypeOK
  <1>2. etup[e].xmax = NoXid
    BY <1>1 DEF UnlinkInv, StampsFollow, DidCommit
  <1>3. /\ etup'[e].xmax = NoXid /\ \A f \in Edge : f # e => etup'[f] = etup[f]
    <2>1. etup' = [etup EXCEPT ![e].xmin = xid[b]] /\ etup[e] \in Header
      BY DEF InsertEdge, UnlinkInv, ListInv, TypeOK
    <2>2. QED  BY <1>2, <2>1 DEF Header, UnlinkInv, ListInv, TypeOK
  <1>4. \A f \in Edge : etup'[f].xmax = etup[f].xmax
    BY <1>2, <1>3
  <1>5. OpenXactsRun'
    BY <1>1 DEF UnlinkInv, OpenXactsRun
  <1>6. StampsFollow'
    BY <1>1, <1>3 DEF UnlinkInv, StampsFollow
  <1>7. WalksForOwnStamp'
    <2>1. ASSUME NEW c \in Backend, pc'[c] \in {"startWalk", "walk"}
          PROVE  etup'[edge'[c]].xmax = xid'[c]
      <3>1. c # b
        BY <1>1, <2>1
      <3>2. edge'[c] = edge[c] /\ pc'[c] = pc[c] /\ xid'[c] = xid[c]
        BY <1>1, <3>1
      <3>3. edge[c] \in Edge
        BY DEF UnlinkInv, ListInv, TypeOK
      <3>4. etup[edge[c]].xmax = xid[c]
        BY <2>1, <3>2 DEF UnlinkInv, WalksForOwnStamp
      <3>5. QED  BY <1>4, <3>2, <3>3, <3>4
    <2>2. QED  BY <2>1 DEF WalksForOwnStamp
  <1>8. UnlinkMeansDeleted'
    <2>1. \A r \in DOMAIN list : list[r] \in Record
      BY DEF UnlinkInv, ListInv, TypeOK
    <2>2. \A r \in DOMAIN list : list[r].edge \in Edge
      BY <2>1 DEF Record
    <2>3. QED  BY <1>1, <1>4, <2>2 DEF UnlinkInv, UnlinkMeansDeleted
  <1>9. QED  BY <1>5, <1>6, <1>7, <1>8 DEF UnlinkInv

\* Steps that write no edge tuple and stamp no record.
LEMMA UnlinkOthers ==
    ASSUME UnlinkInv, ListInv', NEW b \in Backend, UNCHANGED <<xact, xid, etup>>,
           \A r \in DOMAIN list' :
             \/ list'[r].xmax = NoXid
             \/ r \in DOMAIN list /\ list'[r].xmax = list[r].xmax /\ list'[r].edge = list[r].edge,
           \A c \in Backend \ {b} : pc'[c] = pc[c] /\ edge'[c] = edge[c],
           \/ pc'[b] \notin {"startWalk", "walk"}
           \/ pc[b] \in {"startWalk", "walk"} /\ edge'[b] = edge[b]
    PROVE  UnlinkInv'
  <1>1. OpenXactsRun' /\ StampsFollow' /\ WalksForOwnStamp'
    BY DEF UnlinkInv, OpenXactsRun, StampsFollow, WalksForOwnStamp
  <1>2. UnlinkMeansDeleted'
    BY DEF UnlinkInv, UnlinkMeansDeleted
  <1>3. QED  BY <1>1, <1>2 DEF UnlinkInv

LEMMA UnlinkStampRecord ==
    ASSUME UniqueIds, UnlinkInv, ListInv', NEW b \in Backend, StampRecord(b)
    PROVE  UnlinkInv'
  <1> DEFINE k == saved[b]
  <1>1. /\ UNCHANGED <<xact, xid, etup, edge>> /\ k \in DOMAIN list /\ pc[b] = "walk"
        /\ list' = [list EXCEPT ![k].xmax = xid[b]]
        /\ IdOf[list[k].edge] = IdOf[edge[b]] /\ edge[b] \in Edge
        /\ \A c \in Backend \ {b} : pc'[c] = pc[c]
    BY DEF StampRecord, IsWanted, NextList, Return, Goto, UnlinkInv, ListInv, TypeOK, Held, HangsOn
  <1>2. list[k] \in Record
    BY <1>1 DEF UnlinkInv, ListInv, TypeOK
  <1>3. list[k].edge = edge[b]
    BY <1>1, <1>2 DEF UniqueIds, Record
  <1>4. etup[edge[b]].xmax = xid[b]
    BY <1>1 DEF UnlinkInv, WalksForOwnStamp
  <1>5. /\ DOMAIN list' = DOMAIN list /\ \A r \in DOMAIN list : r # k => list'[r] = list[r]
        /\ list'[k].xmax = xid[b] /\ list'[k].edge = list[k].edge
    BY <1>1, <1>2 DEF Record
  <1>6. UnlinkMeansDeleted'
    BY <1>1, <1>3, <1>4, <1>5 DEF UnlinkInv, UnlinkMeansDeleted
  <1>7. OpenXactsRun' /\ StampsFollow'
    BY <1>1 DEF UnlinkInv, OpenXactsRun, StampsFollow
  <1>8. WalksForOwnStamp'
    BY <1>1, <1>4 DEF UnlinkInv, WalksForOwnStamp
  <1>9. QED  BY <1>6, <1>7, <1>8 DEF UnlinkInv

LEMMA UnlinkLists ==
    ASSUME UnlinkInv, ListInv', NEW b \in Backend, AppendRecord(b) \/ FixPrev(b)
    PROVE  UnlinkInv'
  <1>1. /\ UNCHANGED <<xact, xid, etup, edge>>
        /\ \A c \in Backend \ {b} : pc'[c] = pc[c]
        /\ pc'[b] \in {"setHead", "fixPrev"}
    BY DEF AppendRecord, FixPrev, Goto, UnlinkInv, ListInv, TypeOK, frame
  <1>2. list \in Seq(Record) /\ \A r \in DOMAIN list : list[r] \in Record
    BY DEF UnlinkInv, ListInv, TypeOK
  <1>3. \A r \in DOMAIN list' :
          \/ list'[r].xmax = NoXid
          \/ r \in DOMAIN list /\ list'[r].xmax = list[r].xmax /\ list'[r].edge = list[r].edge
    <2>1. CASE AppendRecord(b)
      <3>1. PICK row : list' = Append(list, row) /\ row.xmax = NoXid
        BY <2>1 DEF AppendRecord
      <3>2. list \in Seq(Record \cup {row})
        BY <1>2, SeqMonotonic
      <3>3. QED  BY <3>1, <3>2, AppendFacts
    <2>2. CASE FixPrev(b)
      <3>1. list' = [list EXCEPT ![saved[b]].prev = new[b]]
        BY <2>2 DEF FixPrev
      <3>2. \A r \in DOMAIN list : /\ [list[r] EXCEPT !.prev = new[b]].xmax = list[r].xmax
                                   /\ [list[r] EXCEPT !.prev = new[b]].edge = list[r].edge
        BY <1>2 DEF Record
      <3>3. QED  BY <3>1, <3>2
    <2>3. QED  BY <2>1, <2>2
  <1>4. QED  BY <1>1, <1>3, UnlinkOthers

\* The steps that write neither edge tuples nor lists.
LEMMA UnlinkQuiet ==
    ASSUME UnlinkInv, ListInv', NEW b \in Backend,
           \/ ReadHead(b) \/ SetHead(b) \/ StartWalk(b) \/ WalkOn(b) \/ WalkEnds(b)
           \/ Collect(b) \/ CollectEnds(b) \/ StampVertex(b)
           \/ \E v \in Vertex, cascade \in BOOLEAN : DeleteVertex(b, v, cascade)
    PROVE  UnlinkInv'
  <1>1. UNCHANGED <<xact, xid, etup, list, edge>>
    BY DEF ReadHead, SetHead, StartWalk, WalkOn, WalkEnds, Collect, CollectEnds, StampVertex,
           DeleteVertex, tables, frame
  <1>2. \A c \in Backend \ {b} : pc'[c] = pc[c]
    BY DEF ReadHead, SetHead, StartWalk, WalkOn, WalkEnds, Collect, CollectEnds, StampVertex,
           DeleteVertex, NextList, Return, Goto, UnlinkInv, ListInv, TypeOK
  <1>3. pc'[b] \in {"startWalk", "walk"} => pc[b] \in {"startWalk", "walk"}
    BY DEF ReadHead, SetHead, StartWalk, WalkOn, WalkEnds, Collect, CollectEnds, StampVertex,
           DeleteVertex, NextList, Return, Goto, UnlinkInv, ListInv, TypeOK
  <1>4. QED  BY <1>1, <1>2, <1>3, UnlinkOthers

LEMMA UnlinkNext == ASSUME UniqueIds, UnlinkInv, [Next]_vars PROVE UnlinkInv'
  <1>1. ListInv'
    BY NextStep DEF UnlinkInv
  <1>2. CASE UNCHANGED vars
    BY <1>1, <1>2 DEF vars, tables, frame, UnlinkInv, OpenXactsRun, StampsFollow,
                      WalksForOwnStamp, UnlinkMeansDeleted
  <1>3. ASSUME NEW b \in Backend, Commit(b) \/ Abort(b) \/ Refuse(b) \/ CascadeFails(b)
                                  \/ \E e \in Edge : DeleteEdgeFails(b, e)
        PROVE  UnlinkInv'
    <2>1. xid[b] # NoXid
      BY <1>3 DEF Commit, Abort, Refuse, AtActiveEdge, CascadeFails, DeleteEdgeFails, CanCall,
                  UnlinkInv, ListInv
    <2>2. End(b, "committed") \/ End(b, "aborted")
      BY <1>3 DEF Commit, Abort, Refuse, CascadeFails, DeleteEdgeFails
    <2>3. QED  BY <1>1, <2>1, <2>2, UnlinkEnd
  <1>4. ASSUME NEW b \in Backend, NEW e \in Edge, DeleteEdge(b, e)
        PROVE  UnlinkInv'
    BY <1>1, <1>4, UnlinkStampEdge DEF DeleteEdge, CanCall
  <1>5. ASSUME NEW b \in Backend, CascadeDelete(b)
        PROVE  UnlinkInv'
    <2>1. todo[b] \in Seq(Edge) /\ todo[b] # <<>> /\ xid[b] # NoXid
      BY <1>5 DEF CascadeDelete, UnlinkInv, ListInv, TypeOK
    <2>2. Head(todo[b]) \in Edge
      BY <2>1, HeadTailProperties
    <2>3. QED  BY <1>1, <1>5, <2>1, <2>2, UnlinkStampEdge DEF CascadeDelete
  <1>6. ASSUME NEW b \in Backend, Begin(b) \/ Call(b) \/ Continue(b)
        PROVE  UnlinkInv'
    BY <1>1, <1>3, <1>4, <1>5, <1>6, UnlinkBegin, UnlinkInsertEdge, UnlinkStampRecord,
       UnlinkLists, UnlinkQuiet
       DEF Call, Continue
  <1>7. QED  BY <1>2, <1>3, <1>6 DEF Next

\* np_delete_edge_from_adj_list unlinks no record of an edge that stands, if
\* ids are unique: a stamp on a record is the stamp of its own edge's tuple.
THEOREM UnlinkMeansDeletedHolds == UniqueIds => (Spec => []UnlinkMeansDeleted)
  <1> SUFFICES ASSUME UniqueIds PROVE Spec => []UnlinkMeansDeleted
    OBVIOUS
  <1>1. UnlinkInv /\ [Next]_vars => UnlinkInv'
    BY UnlinkNext
  <1>2. QED  BY <1>1, InitUnlink, PTL DEF Spec, UnlinkInv

-----------------------------------------------------------------------------
(***************************************************************************)
(* Transactions one after another, whichever backends they are of and      *)
(* however many of them are rolled back in the middle of a call.  A        *)
(* rollback leaves records that no head leads to, heads and pointers on    *)
(* records nobody sees, and stamps that no longer count: what follows says *)
(* how far lists can be relied on.                                         *)
(***************************************************************************)

OneAtATime == \A b, c \in Backend : xid[b] # NoXid /\ xid[c] # NoXid => b = c

\* A stamp that was set and not rolled back.
Counts(x) == x # NoXid /\ ~DidAbort(xact, x)

\* Records are of an edge that was inserted, at the vertex on their side; there
\* is one for each side.
RecordsBelong ==
    \A r \in DOMAIN list : /\ list[r].xmin = etup[list[r].edge].xmin /\ list[r].xmin # NoXid
                           /\ list[r].owner = Endpoint(list[r].edge, list[r].dir)
RecordedOnce ==
    \A r, q \in DOMAIN list : list[r].edge = list[q].edge /\ list[r].dir = list[q].dir => r = q

\* What an insertion has appended is the last record, and the head is as it has
\* read it.
Inserting == {"readHead", "appendRecord", "fixPrev", "setHead"}
Inserts(b) ==
    /\ pc[b] \in Inserting => etup[edge[b]].xmin = xid[b]
    /\ pc[b] = "appendRecord" => saved[b] = head[Owner(b)]
    /\ pc[b] \in {"fixPrev", "setHead"} =>
         /\ new[b] = Len(list) /\ new[b] \in DOMAIN list
         /\ list[new[b]].edge = edge[b] /\ list[new[b]].dir = dir[b]

\* The records an insertion has still to append.
Pending(b, e, d) ==
    /\ edge[b] = e
    /\ \/ pc[b] \in {"readHead", "appendRecord"} /\ dir[b] <= d
       \/ pc[b] \in {"fixPrev", "setHead"} /\ dir[b] < d

IsRecorded(e, d) == \E r \in DOMAIN list : list[r].edge = e /\ list[r].dir = d

Recorded ==
    \A e \in Edge, d \in Directions :
        /\ Counts(etup[e].xmin) => IsRecorded(e, d) \/ \E b \in Backend : Pending(b, e, d)
        /\ \A b \in Backend : Pending(b, e, d) => ~IsRecorded(e, d)

\* Only records of a rolled-back insertion are passed over, by a next pointer or
\* by a head.
Skips ==
    \A r, q \in DOMAIN list :
        list[r].next < q /\ q < r /\ list[r].owner = list[q].owner => DidAbort(xact, list[q].xmin)
IsNew(q) == \E b \in Backend : pc[b] \in {"fixPrev", "setHead"} /\ new[b] = q
Tops ==
    \A q \in DOMAIN list : head[list[q].owner] < q => DidAbort(xact, list[q].xmin) \/ IsNew(q)

SerialInv ==
    /\ ListInv /\ OpenXactsRun
    /\ RecordsBelong /\ RecordedOnce /\ Recorded /\ Skips /\ Tops
    /\ \A b \in Backend : Inserts(b)
-----------------------------------------------------------------------------
(* Every vertex's list has the records of what was inserted at it.          *)

LEMMA RecordFacts ==
    ASSUME TypeOK
    PROVE  /\ Len(list) \in Nat /\ DOMAIN list = 1 .. Len(list)
           /\ \A r \in DOMAIN list :
                /\ r \in Nat /\ r # 0
                /\ list[r] \in Record
                /\ list[r].edge \in Edge /\ list[r].dir \in Directions /\ list[r].owner \in Vertex
                /\ list[r].xmin \in XidsOf(xact) /\ list[r].xmax \in XidsOf(xact)
                /\ list[r].next \in Nat
           /\ \A e \in Edge : etup[e] \in Header /\ etup[e].xmin \in XidsOf(xact)
                                                 /\ etup[e].xmax \in XidsOf(xact)
           /\ \A v \in Vertex : head[v] \in Nat
           /\ \A b \in Backend : /\ edge[b] \in Edge /\ dir[b] \in Directions /\ saved[b] \in Nat
                                 /\ new[b] \in Nat /\ xid[b] \in XidsOf(xact) /\ pc[b] \in Steps
                                 /\ todo[b] \in Seq(Edge)
  <1>1. Len(list) \in Nat /\ DOMAIN list = 1 .. Len(list)
    BY LenProperties DEF TypeOK
  <1>2. \A r \in DOMAIN list : list[r] \in Record
    BY DEF TypeOK
  <1>3. \A r \in DOMAIN list : r \in Nat /\ r # 0
    BY <1>1
  <1>4. \A e \in Edge : etup[e] \in Header
    BY DEF TypeOK
  <1>5. \A e \in Edge : etup[e].xmin \in XidsOf(xact) /\ etup[e].xmax \in XidsOf(xact)
    BY <1>4 DEF Header
  <1>6. \A r \in DOMAIN list :
                /\ list[r].edge \in Edge /\ list[r].dir \in Directions /\ list[r].owner \in Vertex
                /\ list[r].xmin \in XidsOf(xact) /\ list[r].xmax \in XidsOf(xact)
                /\ list[r].next \in Nat
    BY <1>2 DEF Record
  <1>7. QED  BY <1>1, <1>2, <1>3, <1>4, <1>5, <1>6 DEF TypeOK

\* When one transaction is open the other backends are idle.
LEMMA OthersIdle ==
    ASSUME ListInv, OneAtATime, NEW b \in Backend, xid[b] # NoXid
    PROVE  \A c \in Backend : c # b => xid[c] = NoXid /\ pc[c] = "idle"
    BY DEF ListInv, OneAtATime

LEMMA InitSerial == ASSUME Init PROVE SerialInv
  <1>1. ListInv
    BY InitListInv
  <1>2. /\ list = <<>> /\ DOMAIN list = {}
        /\ \A b \in Backend : xid[b] = NoXid /\ pc[b] = "idle"
        /\ \A e \in Edge : etup[e].xmin = NoXid
    BY DEF Init
  <1>3. OpenXactsRun /\ RecordsBelong /\ RecordedOnce /\ Skips /\ Tops
    BY <1>2 DEF OpenXactsRun, RecordsBelong, RecordedOnce, Skips, Tops
  <1>4. Recorded
    BY <1>2 DEF Recorded, Pending, Counts
  <1>5. \A b \in Backend : Inserts(b)
    BY <1>2 DEF Inserts, Inserting
  <1>6. QED  BY <1>1, <1>3, <1>4, <1>5 DEF SerialInv

\* A step that neither begins nor ends a transaction.
LEMMA XactsSame == ASSUME OpenXactsRun, UNCHANGED <<xact, xid>> PROVE OpenXactsRun'
    BY DEF OpenXactsRun

\* Nor is part of an insertion.
SameRecords ==
    /\ DOMAIN list' = DOMAIN list /\ Len(list') = Len(list)
    /\ \A r \in DOMAIN list : /\ list'[r].edge = list[r].edge /\ list'[r].dir = list[r].dir
                              /\ list'[r].owner = list[r].owner /\ list'[r].next = list[r].next
                              /\ list'[r].xmin = list[r].xmin
SameEdges == \A e \in Edge : etup'[e].xmin = etup[e].xmin

LEMMA SerialQuiet ==
    ASSUME SerialInv, ListInv', NEW b \in Backend, OnlyBy(b), UNCHANGED <<xact, xid, head>>,
           pc[b] \notin Inserting, pc'[b] \notin Inserting, SameRecords, SameEdges
    PROVE  SerialInv'
  <1>1. /\ \A r \in DOMAIN list : list[r].edge \in Edge
        /\ \A c \in Backend : edge[c] \in Edge
    BY RecordFacts DEF SerialInv, ListInv
  <1>2. \A c \in Backend : c # b => /\ pc'[c] = pc[c] /\ edge'[c] = edge[c] /\ dir'[c] = dir[c]
                                    /\ saved'[c] = saved[c] /\ new'[c] = new[c]
    BY DEF OnlyBy
  <1>3. OpenXactsRun'
    BY XactsSame DEF SerialInv
  <1>4. RecordsBelong'
    BY <1>1 DEF SerialInv, RecordsBelong, SameRecords, SameEdges
  <1>5. RecordedOnce' /\ Skips'
    BY DEF SerialInv, RecordedOnce, Skips, SameRecords
  <1>6. \A c \in Backend : \A e, d : Pending(c, e, d)' <=> Pending(c, e, d)
    BY <1>2 DEF Pending, Inserting
  <1>7. \A e, d : IsRecorded(e, d)' <=> IsRecorded(e, d)
    BY DEF IsRecorded, SameRecords
  <1>8. Recorded'
    <2>1. \A e \in Edge : Counts(etup[e].xmin)' <=> Counts(etup[e].xmin)
      BY DEF Counts, SameEdges
    <2>2. QED  BY <1>6, <1>7, <2>1 DEF SerialInv, Recorded
  <1>9. \A q : IsNew(q)' <=> IsNew(q)
    BY <1>2 DEF IsNew, Inserting
  <1>10. Tops'
    BY <1>9 DEF SerialInv, Tops, SameRecords
  <1>11. \A c \in Backend : Inserts(c)'
    <2>1. ASSUME NEW c \in Backend, c # b PROVE Inserts(c)'
      <3>1. Owner(c)' = Owner(c) /\ Inserts(c)
        BY <1>2, <2>1 DEF Owner, SerialInv
      <3>2. QED  BY <1>1, <1>2, <2>1, <3>1 DEF Inserts, SameRecords, SameEdges
    <2>2. Inserts(b)'
      BY DEF Inserts, Inserting
    <2>3. QED  BY <2>1, <2>2
  <1>12. QED  BY <1>3, <1>4, <1>5, <1>8, <1>10, <1>11 DEF SerialInv
-----------------------------------------------------------------------------
(* Transactions.                                                            *)

LEMMA SerialBegin ==
    ASSUME SerialInv, ListInv', NEW b \in Backend, Begin(b) PROVE SerialInv'
  <1>1. /\ xact \in Seq(XactStatus) /\ xact' = Append(xact, "running") /\ "running" \in XactStatus
        /\ UNCHANGED <<etup, list, head, pc, edge, dir, saved, new>> /\ pc[b] = "idle"
        /\ xid'[b] = Len(xact) + 1 /\ \A c \in Backend \ {b} : xid'[c] = xid[c]
    BY DEF Begin, SerialInv, ListInv, TypeOK, XactStatus, tables, frame
  <1>2. /\ Len(xact) \in Nat /\ xact'[Len(xact) + 1] = "running" /\ DOMAIN xact = 1 .. Len(xact)
        /\ \A x \in DOMAIN xact : x \in DOMAIN xact' /\ xact'[x] = xact[x]
    BY <1>1, AppendFacts
  <1>3. \A x \in XidsOf(xact) : DidAbort(xact, x)' <=> DidAbort(xact, x)
    <2>1. \A x \in DOMAIN xact : xact'[x] = xact[x]
      BY <1>2
    <2>2. QED  BY <2>1 DEF XidsOf, DidAbort
  <1>4. OpenXactsRun'
    <2>1. \A c \in Backend : xid[c] # NoXid => xid[c] \in DOMAIN xact
      BY RecordFacts DEF XidsOf, SerialInv, ListInv
    <2>2. QED  BY <1>1, <1>2, <2>1 DEF SerialInv, OpenXactsRun, NoXid
  <1>5. RecordsBelong' /\ RecordedOnce'
    BY <1>1 DEF SerialInv, RecordsBelong, RecordedOnce
  <1>6. \A c \in Backend : \A e, d : Pending(c, e, d)' <=> Pending(c, e, d)
    BY <1>1 DEF Pending
  <1>7. Recorded'
    <2>1. \A e, d : IsRecorded(e, d)' <=> IsRecorded(e, d)
      BY <1>1 DEF IsRecorded
    <2>2. \A e \in Edge : Counts(etup[e].xmin)' <=> Counts(etup[e].xmin)
      BY <1>1, <1>3, RecordFacts DEF SerialInv, ListInv, Counts
    <2>3. QED  BY <1>6, <2>1, <2>2 DEF SerialInv, Recorded
  <1>8. \A r \in DOMAIN list : DidAbort(xact, list[r].xmin)' <=> DidAbort(xact, list[r].xmin)
    BY <1>1, <1>3, RecordFacts DEF SerialInv, ListInv
  <1>9. Skips' /\ Tops'
    BY <1>1, <1>8 DEF SerialInv, Skips, Tops, IsNew
  <1>10. \A c \in Backend : Inserts(c)'
    BY <1>1 DEF SerialInv, Inserts, Inserting, Owner
  <1>11. QED  BY <1>4, <1>5, <1>7, <1>9, <1>10 DEF SerialInv

\* A commit finds every record appended and the heads set; an abort may come
\* at any step, and what it leaves half linked was rolled back with it.
LEMMA SerialEnd ==
    ASSUME SerialInv, OneAtATime, ListInv', NEW b \in Backend, xid[b] # NoXid,
           NEW status \in {"committed", "aborted"}, End(b, status),
           status = "committed" => pc[b] \notin Inserting
    PROVE  SerialInv'
  <1>1. /\ UNCHANGED <<etup, list, head, edge, dir>> /\ xact' = [xact EXCEPT ![xid[b]] = status]
        /\ xid'[b] = NoXid /\ pc'[b] = "idle" /\ xact[xid[b]] = "running"
        /\ xid[b] \in DOMAIN xact
        /\ \A c \in Backend \ {b} : xid'[c] = xid[c] /\ pc'[c] = pc[c]
    BY DEF End, Goto, SerialInv, ListInv, TypeOK, OpenXactsRun, tables, XidsOf
  <1>2. \A c \in Backend : c # b => xid[c] = NoXid /\ pc[c] = "idle"
    BY OthersIdle DEF SerialInv
  <1>3. \A c \in Backend : pc'[c] = "idle" /\ xid'[c] = NoXid
    BY <1>1, <1>2
  <1>4. /\ \A x \in XidsOf(xact) : DidAbort(xact, x) => DidAbort(xact', x)
        /\ status = "aborted" => DidAbort(xact', xid[b])
    BY <1>1 DEF XidsOf, DidAbort
  <1>5. OpenXactsRun' /\ \A c \in Backend : Inserts(c)'
    BY <1>3 DEF OpenXactsRun, Inserts, Inserting
  <1>6. RecordsBelong' /\ RecordedOnce'
    BY <1>1 DEF SerialInv, RecordsBelong, RecordedOnce
  <1>7. Recorded'
    <2>1. \A c \in Backend : \A e, d : ~Pending(c, e, d)'
      BY <1>3 DEF Pending
    <2>2. ASSUME NEW e \in Edge, NEW d \in Directions, Counts(etup[e].xmin)' PROVE IsRecorded(e, d)
      <3>1. etup[e].xmin \in XidsOf(xact) /\ etup'[e].xmin = etup[e].xmin
        BY <1>1, RecordFacts DEF SerialInv, ListInv
      <3>2. Counts(etup[e].xmin)
        BY <1>4, <2>2, <3>1 DEF Counts
      <3>3. etup[e].xmin = xid[b] => status = "committed"
        BY <1>4, <2>2, <3>1 DEF Counts
      <3>4. ASSUME NEW c \in Backend, Pending(c, e, d) PROVE FALSE
        <4>1. c = b /\ pc[b] \in Inserting /\ edge[b] = e
          BY <1>2, <3>4 DEF Pending, Inserting
        <4>2. etup[e].xmin = xid[b]
          BY <4>1 DEF SerialInv, Inserts
        <4>3. QED  BY <3>3, <4>1, <4>2
      <3>5. QED  BY <3>2, <3>4 DEF SerialInv, Recorded
    <2>3. \A e, d : IsRecorded(e, d)' <=> IsRecorded(e, d)
      BY <1>1 DEF IsRecorded
    <2>4. QED  BY <2>1, <2>2, <2>3 DEF Recorded
  <1>8. Skips'
    <2>1. \A r \in DOMAIN list : list[r].xmin \in XidsOf(xact)
      BY RecordFacts DEF SerialInv, ListInv
    <2>2. QED  BY <1>1, <1>4, <2>1 DEF SerialInv, Skips
  <1>9. Tops'
    <2>1. ASSUME NEW q \in DOMAIN list, head[list[q].owner] < q PROVE DidAbort(xact, list[q].xmin)'
      <3>1. list[q].xmin \in XidsOf(xact)
        BY RecordFacts DEF SerialInv, ListInv
      <3>2. CASE DidAbort(xact, list[q].xmin)
        BY <1>1, <1>4, <3>1, <3>2
      <3>3. CASE IsNew(q)
        <4>1. pc[b] \in {"fixPrev", "setHead"} /\ new[b] = q
          BY <1>2, <3>3 DEF IsNew
        <4>2. list[q].edge = edge[b] /\ etup[edge[b]].xmin = xid[b]
          BY <4>1 DEF SerialInv, Inserts, Inserting
        <4>3. list[q].xmin = xid[b]
          BY <4>2 DEF SerialInv, RecordsBelong
        <4>4. status = "aborted"
          BY <4>1 DEF Inserting
        <4>5. QED  BY <1>1, <1>4, <3>1, <4>3, <4>4
      <3>4. QED  BY <2>1, <3>2, <3>3 DEF SerialInv, Tops
    <2>2. QED  BY <1>1, <2>1 DEF Tops
  <1>10. QED  BY <1>5, <1>6, <1>7, <1>8, <1>9 DEF SerialInv
-----------------------------------------------------------------------------
(* The steps of an insertion.                                               *)

LEMMA SerialInsertEdge ==
    ASSUME SerialInv, OneAtATime, ListInv', NEW b \in Backend, NEW e \in Edge, InsertEdge(b, e)
    PROVE  SerialInv'
  <1>1. /\ UNCHANGED <<xact, list, head, xid>> /\ etup[e].xmin = NoXid /\ pc'[b] = "readHead"
        /\ edge'[b] = e /\ dir'[b] = 0 /\ xid[b] # NoXid /\ pc[b] = "idle"
        /\ etup' = [etup EXCEPT ![e].xmin = xid[b]]
        /\ \A c \in Backend : c # b => pc'[c] = pc[c] /\ edge'[c] = edge[c] /\ dir'[c] = dir[c]
    BY DEF InsertEdge, CanCall, Goto, SerialInv, ListInv, TypeOK
  <1>2. etup'[e].xmin = xid[b] /\ \A f \in Edge : f # e => etup'[f].xmin = etup[f].xmin
    BY <1>1, RecordFacts DEF SerialInv, ListInv, Header, TypeOK
  <1>3. \A c \in Backend : c # b => pc[c] = "idle"
    BY <1>1, OthersIdle DEF SerialInv
  <1>4. \A r \in DOMAIN list : list[r].edge # e /\ list[r].edge \in Edge
    BY <1>1, RecordFacts DEF SerialInv, ListInv, RecordsBelong
  <1>5. OpenXactsRun'
    BY <1>1, XactsSame DEF SerialInv
  <1>6. RecordsBelong' /\ RecordedOnce'
    BY <1>1, <1>2, <1>4 DEF SerialInv, RecordsBelong, RecordedOnce
  <1>7. /\ \A c \in Backend : \A f, d : ~Pending(c, f, d)
        /\ \A c \in Backend : \A f, d : Pending(c, f, d)' <=> c = b /\ f = e /\ 0 <= d
    BY <1>1, <1>3 DEF Pending
  <1>8. Recorded'
    <2>1. \A f, d : IsRecorded(f, d)' <=> IsRecorded(f, d)
      BY <1>1 DEF IsRecorded
    <2>2. \A f \in Edge : f # e => (Counts(etup[f].xmin)' <=> Counts(etup[f].xmin))
      BY <1>1, <1>2 DEF Counts
    <2>3. \A d \in Directions : ~IsRecorded(e, d) /\ 0 <= d
      BY <1>4 DEF IsRecorded, Directions
    <2>4. QED  BY <1>7, <2>1, <2>2, <2>3 DEF SerialInv, Recorded
  <1>9. Skips' /\ Tops'
    <2>1. \A q : ~IsNew(q)
      BY <1>1, <1>3 DEF IsNew
    <2>2. QED  BY <1>1, <2>1 DEF SerialInv, Skips, Tops
  <1>10. \A c \in Backend : Inserts(c)'
    BY <1>1, <1>2, <1>3 DEF Inserts, Inserting
  <1>11. QED  BY <1>5, <1>6, <1>8, <1>9, <1>10 DEF SerialInv

LEMMA SerialReadHead ==
    ASSUME SerialInv, OneAtATime, ListInv', NEW b \in Backend, ReadHead(b)
    PROVE  SerialInv'
  <1>1. /\ UNCHANGED <<xact, etup, list, head, xid, edge, dir>>
        /\ pc[b] = "readHead" /\ pc'[b] = "appendRecord" /\ xid[b] # NoXid
        /\ saved'[b] = head[Owner(b)]
        /\ \A c \in Backend : c # b => pc'[c] = pc[c]
    BY DEF ReadHead, Goto, tables, SerialInv, ListInv, TypeOK
  <1>2. \A c \in Backend : c # b => pc[c] = "idle"
    BY <1>1, OthersIdle DEF SerialInv
  <1>3. OpenXactsRun' /\ RecordsBelong' /\ RecordedOnce' /\ Skips'
    BY <1>1, XactsSame DEF SerialInv, RecordsBelong, RecordedOnce, Skips
  <1>4. Recorded'
    <2>1. \A c \in Backend : \A e, d : Pending(c, e, d)' <=> Pending(c, e, d)
      BY <1>1 DEF Pending
    <2>2. QED  BY <1>1, <2>1 DEF SerialInv, Recorded, IsRecorded, Counts
  <1>5. Tops'
    BY <1>1, <1>2 DEF SerialInv, Tops, IsNew
  <1>6. \A c \in Backend : Inserts(c)'
    <2>1. Owner(b)' = Owner(b)
      BY <1>1 DEF Owner
    <2>2. Inserts(b)
      BY DEF SerialInv
    <2>3. QED  BY <1>1, <1>2, <2>1, <2>2 DEF Inserts, Inserting
  <1>7. QED  BY <1>3, <1>4, <1>5, <1>6 DEF SerialInv

\* The record goes in front of whatever hangs on the vertex already: a record
\* the head does not lead to is one of a rolled-back insertion.
LEMMA SerialAppendRecord ==
    ASSUME SerialInv, OneAtATime, ListInv', NEW b \in Backend, AppendRecord(b)
    PROVE  SerialInv'
  <1> DEFINE row == [edge |-> edge[b], dir |-> dir[b], owner |-> Owner(b),
                     xmin |-> xid[b], xmax |-> NoXid, next |-> saved[b], prev |-> Nil]
             n == Len(list) + 1
  <1>1. /\ UNCHANGED <<xact, etup, head, xid, edge, dir, saved>>
        /\ pc[b] = "appendRecord" /\ pc'[b] \in {"fixPrev", "setHead"} /\ xid[b] # NoXid
        /\ new'[b] = n /\ list' = Append(list, row)
        /\ \A c \in Backend : c # b => pc'[c] = pc[c]
    BY DEF AppendRecord, Goto, SerialInv, ListInv, TypeOK
  <1>2. \A c \in Backend : c # b => pc[c] = "idle"
    BY <1>1, OthersIdle DEF SerialInv
  <1>3. row \in Record
    BY OwnerIsVertex DEF SerialInv, ListInv, TypeOK, Record, XidsOf, NoXid, Nil
  <1>4. /\ DOMAIN list' = DOMAIN list \cup {n} /\ list'[n] = row
        /\ \A r \in DOMAIN list : list'[r] = list[r] /\ r < n
        /\ Len(list') = n /\ n \notin DOMAIN list /\ n \in Nat
        /\ \A r \in DOMAIN list : r \in Nat
    <2>1. list \in Seq(Record)
      BY DEF SerialInv, ListInv, TypeOK
    <2>2. QED  BY <1>1, <1>3, <2>1, AppendFacts
  <1>5. /\ row.edge = edge[b] /\ row.dir = dir[b] /\ row.owner = Endpoint(edge[b], dir[b])
        /\ row.xmin = xid[b] /\ row.next = head[row.owner]
        /\ etup[edge[b]].xmin = xid[b] /\ edge[b] \in Edge /\ dir[b] \in Directions
        /\ head[row.owner] \in Nat /\ row.owner \in Vertex
    <2>1. row.next = head[Owner(b)] /\ etup[edge[b]].xmin = xid[b]
      BY <1>1 DEF SerialInv, Inserts, Inserting
    <2>2. edge[b] \in Edge /\ dir[b] \in Directions /\ Owner(b) \in Vertex /\ head[Owner(b)] \in Nat
      BY RecordFacts, OwnerIsVertex DEF SerialInv, ListInv
    <2>3. QED  BY <2>1, <2>2 DEF Owner
  <1> HIDE DEF row, n
  <1>6. ~IsRecorded(edge[b], dir[b]) /\ \A d \in Directions : dir[b] <= d => Pending(b, edge[b], d)
    <2>1. dir[b] \in {0, 1}
      BY <1>5 DEF Directions
    <2>2. \A d \in Directions : dir[b] <= d => Pending(b, edge[b], d)
      BY <1>1 DEF Pending
    <2>3. Pending(b, edge[b], dir[b])
      BY <1>5, <2>1, <2>2
    <2>4. QED  BY <1>5, <2>2, <2>3 DEF SerialInv, Recorded
  <1>7. OpenXactsRun'
    BY <1>1, XactsSame DEF SerialInv
  <1>8. RecordsBelong'
    BY <1>1, <1>4, <1>5 DEF SerialInv, RecordsBelong
  <1>9. RecordedOnce'
    BY <1>4, <1>5, <1>6 DEF SerialInv, RecordedOnce, IsRecorded
  <1>10. Recorded'
    <2>1. \A e, d : IsRecorded(e, d)' <=> IsRecorded(e, d) \/ (e = edge[b] /\ d = dir[b])
      BY <1>4, <1>5 DEF IsRecorded
    <2>2. \A c \in Backend : \A e, d : Pending(c, e, d) => c = b /\ e = edge[b] /\ dir[b] <= d
      BY <1>1, <1>2 DEF Pending
    <2>3. \A c \in Backend : \A e, d :
            Pending(c, e, d)' <=> c = b /\ e = edge[b] /\ dir[b] < d
      BY <1>1, <1>2 DEF Pending
    <2>4. \A e \in Edge : Counts(etup[e].xmin)' <=> Counts(etup[e].xmin)
      BY <1>1 DEF Counts
    <2>5. \A d \in Directions : /\ dir[b] <= d <=> dir[b] < d \/ d = dir[b]
                                /\ ~(dir[b] < d /\ d = dir[b])
      BY <1>5 DEF Directions
    <2>6. ASSUME NEW e \in Edge, NEW d \in Directions, Counts(etup[e].xmin)'
          PROVE  IsRecorded(e, d)' \/ \E c \in Backend : Pending(c, e, d)'
      <3>1. IsRecorded(e, d) \/ \E c \in Backend : Pending(c, e, d)
        BY <2>4, <2>6 DEF SerialInv, Recorded
      <3>2. QED  BY <2>1, <2>2, <2>3, <2>5, <3>1
    <2>7. ASSUME NEW e \in Edge, NEW d \in Directions, NEW c \in Backend, Pending(c, e, d)'
          PROVE  ~IsRecorded(e, d)'
      <3>1. c = b /\ e = edge[b] /\ dir[b] < d
        BY <2>3, <2>7
      <3>2. ~IsRecorded(e, d)
        BY <1>6, <2>5, <3>1 DEF SerialInv, Recorded
      <3>3. QED  BY <2>1, <2>5, <3>1, <3>2
    <2>8. QED  BY <2>6, <2>7 DEF Recorded
  <1>11. \A q \in DOMAIN list : head[list[q].owner] < q => DidAbort(xact, list[q].xmin)
    BY <1>1, <1>2 DEF SerialInv, Tops, IsNew
  <1>12. Skips'
    <2>1. ASSUME NEW r \in DOMAIN list', NEW q \in DOMAIN list', list'[r].next < q, q < r,
                 list'[r].owner = list'[q].owner
          PROVE  DidAbort(xact, list'[q].xmin)
      <3>1. q \in DOMAIN list
        BY <1>4, <2>1
      <3>2. CASE r = n
        BY <1>4, <1>5, <1>11, <2>1, <3>1, <3>2
      <3>3. CASE r \in DOMAIN list
        BY <1>4, <2>1, <3>1, <3>3 DEF SerialInv, Skips
      <3>4. QED  BY <1>4, <3>2, <3>3
    <2>2. QED  BY <1>1, <2>1 DEF Skips
  <1>13. Tops'
    <2>1. \A q \in DOMAIN list' : q = n => IsNew(q)'
      BY <1>1 DEF IsNew
    <2>2. QED  BY <1>1, <1>4, <1>11, <2>1 DEF Tops
  <1>14. \A c \in Backend : Inserts(c)'
    <2>1. Inserts(b)'
      BY <1>1, <1>4, <1>5 DEF Inserts, Inserting
    <2>2. QED  BY <1>1, <1>2, <2>1 DEF Inserts, Inserting
  <1>15. QED  BY <1>7, <1>8, <1>9, <1>10, <1>12, <1>13, <1>14 DEF SerialInv

LEMMA SerialFixPrev ==
    ASSUME SerialInv, OneAtATime, ListInv', NEW b \in Backend, FixPrev(b)
    PROVE  SerialInv'
  <1>1. /\ UNCHANGED <<xact, etup, head, xid, edge, dir, new>>
        /\ pc[b] = "fixPrev" /\ pc'[b] = "setHead" /\ xid[b] # NoXid
        /\ list' = [list EXCEPT ![saved[b]].prev = new[b]]
        /\ \A c \in Backend : c # b => pc'[c] = pc[c]
    BY DEF FixPrev, Goto, frame, SerialInv, ListInv, TypeOK
  <1>2. \A c \in Backend : c # b => pc[c] = "idle"
    BY <1>1, OthersIdle DEF SerialInv
  <1>3. SameRecords
    <2>1. \A r \in DOMAIN list : list[r] \in Record
      BY RecordFacts DEF SerialInv, ListInv
    <2>2. DOMAIN list' = DOMAIN list /\ list' \in Seq(Record') /\ list \in Seq(Record)
      BY <1>1 DEF SerialInv, ListInv, TypeOK
    <2>3. \A r \in DOMAIN list : list'[r] = list[r] \/ list'[r] = [list[r] EXCEPT !.prev = new[b]]
      BY <1>1
    <2>4. Len(list') = Len(list)
      BY <2>2, LenProperties
    <2>5. QED  BY <2>1, <2>2, <2>3, <2>4 DEF Record, SameRecords
  <1>4. OpenXactsRun' /\ RecordsBelong' /\ RecordedOnce' /\ Skips'
    <2>1. OpenXactsRun' /\ RecordedOnce' /\ Skips'
      BY <1>1, <1>3, XactsSame DEF SerialInv, RecordedOnce, Skips, SameRecords
    <2>2. RecordsBelong'
      BY <1>1, <1>3 DEF SerialInv, RecordsBelong, SameRecords
    <2>3. QED  BY <2>1, <2>2
  <1>5. Recorded'
    <2>1. \A c \in Backend : \A e, d : Pending(c, e, d)' <=> Pending(c, e, d)
      BY <1>1 DEF Pending
    <2>2. \A e, d : IsRecorded(e, d)' <=> IsRecorded(e, d)
      BY <1>3 DEF IsRecorded, SameRecords
    <2>3. QED  BY <1>1, <2>1, <2>2 DEF SerialInv, Recorded, Counts
  <1>6. Tops'
    <2>1. \A q : IsNew(q)' <=> IsNew(q)
      BY <1>1 DEF IsNew
    <2>2. QED  BY <1>1, <1>3, <2>1 DEF SerialInv, Tops, SameRecords
  <1>7. \A c \in Backend : Inserts(c)'
    <2>1. Inserts(b)
      BY DEF SerialInv
    <2>2. Inserts(b)'
      BY <1>1, <1>3, <2>1 DEF Inserts, Inserting, SameRecords
    <2>3. QED  BY <1>1, <1>2, <2>2 DEF Inserts, Inserting
  <1>8. QED  BY <1>4, <1>5, <1>6, <1>7 DEF SerialInv

LEMMA SerialSetHead ==
    ASSUME SerialInv, OneAtATime, ListInv', NEW b \in Backend, SetHead(b)
    PROVE  SerialInv'
  <1>1. /\ UNCHANGED <<xact, etup, list, xid, edge, new>>
        /\ pc[b] = "setHead" /\ xid[b] # NoXid
        /\ head' = [head EXCEPT ![Owner(b)] = new[b]] /\ dir'[b] = 1 - dir[b]
        /\ dir[b] = 0 => pc'[b] = "readHead"
        /\ dir[b] # 0 => pc'[b] \in {"end", "idle"}
        /\ \A c \in Backend : c # b => pc'[c] = pc[c]
    BY DEF SetHead, Return, Goto, SerialInv, ListInv, TypeOK
  <1>2. \A c \in Backend : c # b => pc[c] = "idle"
    BY <1>1, OthersIdle DEF SerialInv
  <1>3. /\ new[b] = Len(list) /\ new[b] \in DOMAIN list /\ etup[edge[b]].xmin = xid[b]
        /\ list[new[b]].edge = edge[b] /\ list[new[b]].dir = dir[b]
        /\ list[new[b]].owner = Owner(b)
    <2>1. Inserts(b) /\ RecordsBelong
      BY DEF SerialInv
    <2>2. QED  BY <1>1, <2>1 DEF Inserts, Inserting, RecordsBelong, Owner
  <1>4. Owner(b) \in Vertex /\ head \in [Vertex -> Nat] /\ dir[b] \in {0, 1}
    BY OwnerIsVertex DEF SerialInv, ListInv, TypeOK, Directions
  <1>5. OpenXactsRun' /\ RecordsBelong' /\ RecordedOnce' /\ Skips'
    BY <1>1, XactsSame DEF SerialInv, RecordsBelong, RecordedOnce, Skips
  <1>6. Recorded'
    <2>1. \A e, d : IsRecorded(e, d)' <=> IsRecorded(e, d)
      BY <1>1 DEF IsRecorded
    <2>2. \A e \in Edge : Counts(etup[e].xmin)' <=> Counts(etup[e].xmin)
      BY <1>1 DEF Counts
    <2>3. \A c \in Backend : \A e : \A d \in Directions : Pending(c, e, d)' <=> Pending(c, e, d)
      <3>1. ASSUME NEW e, NEW d \in Directions PROVE Pending(b, e, d)' <=> Pending(b, e, d)
        <4>1. CASE dir[b] = 0
          <5>1. (1 <= d <=> 0 < d) /\ dir'[b] = 1
            BY <1>1, <4>1 DEF Directions
          <5>2. QED  BY <1>1, <4>1, <5>1 DEF Pending
        <4>2. CASE dir[b] = 1
          <5>1. ~(1 < d)
            BY DEF Directions
          <5>2. QED  BY <1>1, <4>2, <5>1 DEF Pending
        <4>3. QED  BY <1>4, <4>1, <4>2
      <3>2. QED  BY <1>1, <1>2, <3>1 DEF Pending
    <2>4. QED  BY <2>1, <2>2, <2>3 DEF SerialInv, Recorded
  <1>7. Tops'
    <2>1. ASSUME NEW q \in DOMAIN list, head'[list[q].owner] < q PROVE DidAbort(xact, list[q].xmin)
      <3>1. q \in 1 .. Len(list) /\ list[q].owner \in Vertex /\ Len(list) \in Nat
        BY RecordFacts DEF SerialInv, ListInv
      <3>2. list[q].owner # Owner(b)
        BY <1>1, <1>3, <1>4, <2>1, <3>1
      <3>3. head[list[q].owner] < q
        BY <1>1, <1>4, <2>1, <3>1, <3>2
      <3>4. ~IsNew(q)
        BY <1>1, <1>2, <1>3, <3>2 DEF IsNew
      <3>5. QED  BY <3>3, <3>4 DEF SerialInv, Tops
    <2>2. QED  BY <1>1, <2>1 DEF Tops
  <1>8. \A c \in Backend : Inserts(c)'
    <2>1. pc'[b] \in {"readHead", "end", "idle"}
      BY <1>1
    <2>2. Inserts(b)'
      BY <1>1, <1>3, <2>1 DEF Inserts, Inserting
    <2>3. QED  BY <1>1, <1>2, <2>2 DEF Inserts, Inserting
  <1>9. QED  BY <1>5, <1>6, <1>7, <1>8 DEF SerialInv
-----------------------------------------------------------------------------
(* The steps of deletions.                                                  *)

LEMMA SerialWalks ==
    ASSUME SerialInv, ListInv', NEW b \in Backend,
           \/ \E v \in Vertex, cascade \in BOOLEAN : DeleteVertex(b, v, cascade)
           \/ StartWalk(b) \/ WalkOn(b) \/ WalkEnds(b)
           \/ Collect(b) \/ CollectEnds(b) \/ StampVertex(b)
    PROVE  SerialInv'
  <1>1. /\ UNCHANGED <<xact, etup, list, head, xid>> /\ OnlyBy(b)
    BY DEF DeleteVertex, StartWalk, WalkOn, WalkEnds, Collect, CollectEnds, StampVertex, NextList,
           Return, Goto, tables, frame, OnlyBy, SerialInv, ListInv, TypeOK
  <1>2. pc[b] \notin Inserting /\ pc'[b] \notin Inserting
    BY ZenonT(60) DEF DeleteVertex, StartWalk, WalkOn, WalkEnds, Collect, CollectEnds, StampVertex, NextList,
           Return, Goto, CanCall, Inserting, SerialInv, ListInv, TypeOK
  <1>3. SameRecords /\ SameEdges
    BY <1>1 DEF SameRecords, SameEdges
  <1>4. QED  BY <1>1, <1>2, <1>3, SerialQuiet

LEMMA StampEdgeFacts ==
    ASSUME TypeOK, NEW b \in Backend, NEW e \in Edge, StampEdge(b, e)
    PROVE  /\ SameEdges /\ etup'[e].xmax = xid[b]
           /\ \A f \in Edge : f # e => etup'[f] = etup[f]
  <1>1. etup' = [etup EXCEPT ![e].xmax = xid[b]] /\ etup \in [Edge -> Header]
    BY DEF StampEdge, TypeOK
  <1>2. \A f \in Edge : f # e => etup'[f] = etup[f]
    BY <1>1
  <1>3. etup'[e] = [etup[e] EXCEPT !.xmax = xid[b]] /\ etup[e] \in Header
    BY <1>1
  <1>4. etup'[e].xmax = xid[b] /\ etup'[e].xmin = etup[e].xmin
    BY <1>3 DEF Header
  <1>5. QED  BY <1>2, <1>4 DEF SameEdges

LEMMA SerialStampEdge ==
    ASSUME SerialInv, ListInv', NEW b \in Backend,
           (\E e \in Edge : DeleteEdge(b, e)) \/ CascadeDelete(b)
    PROVE  SerialInv'
  <1>1. PICK e \in Edge : StampEdge(b, e)
    <2>1. CASE CascadeDelete(b)
      <3>1. todo[b] \in Seq(Edge) /\ todo[b] # <<>>
        BY <2>1 DEF CascadeDelete, SerialInv, ListInv, TypeOK
      <3>2. Head(todo[b]) \in Edge
        BY <3>1, HeadTailProperties
      <3>3. QED  BY <2>1, <3>2 DEF CascadeDelete
    <2>2. QED  BY <2>1 DEF DeleteEdge
  <1>2. /\ UNCHANGED <<xact, list, head, xid>> /\ OnlyBy(b)
        /\ pc[b] \notin Inserting /\ pc'[b] \notin Inserting
    BY DEF DeleteEdge, CascadeDelete, StampEdge, CanCall, Goto, Inserting, OnlyBy, SerialInv,
           ListInv, TypeOK
  <1>3. SameEdges
    BY <1>1, StampEdgeFacts DEF SerialInv, ListInv
  <1>4. SameRecords
    BY <1>2 DEF SameRecords
  <1>5. QED  BY <1>2, <1>3, <1>4, SerialQuiet

LEMMA StampRecordFacts ==
    ASSUME ListInv, NEW b \in Backend, StampRecord(b)
    PROVE  /\ SameRecords /\ saved[b] \in DOMAIN list /\ list'[saved[b]].xmax = xid[b]
           /\ \A r \in DOMAIN list : r # saved[b] => list'[r].xmax = list[r].xmax
  <1>1. list' = [list EXCEPT ![saved[b]].xmax = xid[b]] /\ saved[b] \in DOMAIN list
    BY DEF StampRecord, ListInv, Held, HangsOn
  <1>2. /\ list \in Seq(Record) /\ \A r \in DOMAIN list : list[r] \in Record
    BY DEF ListInv, TypeOK
  <1>3. xid[b] \in XidsOf(xact)
    BY DEF ListInv, TypeOK
  <1>4. list' \in Seq(Record) /\ DOMAIN list' = DOMAIN list
    BY <1>1, <1>3, StampFacts DEF ListInv
  <1>5. Len(list') = Len(list)
    BY <1>2, <1>4, LenProperties
  <1>6. \A r \in DOMAIN list : r # saved[b] => list'[r] = list[r]
    BY <1>1
  <1>7. list'[saved[b]] = [list[saved[b]] EXCEPT !.xmax = xid[b]]
    BY <1>1
  <1>8. /\ list'[saved[b]].xmax = xid[b]
        /\ list'[saved[b]].edge = list[saved[b]].edge /\ list'[saved[b]].dir = list[saved[b]].dir
        /\ list'[saved[b]].owner = list[saved[b]].owner
        /\ list'[saved[b]].next = list[saved[b]].next
        /\ list'[saved[b]].xmin = list[saved[b]].xmin
    BY <1>1, <1>2, <1>7 DEF Record
  <1>9. QED  BY <1>1, <1>4, <1>5, <1>6, <1>8 DEF SameRecords

LEMMA SerialStampRecord ==
    ASSUME SerialInv, ListInv', NEW b \in Backend, StampRecord(b)
    PROVE  SerialInv'
  <1>1. /\ UNCHANGED <<xact, etup, head, xid>> /\ OnlyBy(b)
        /\ pc[b] \notin Inserting /\ pc'[b] \notin Inserting
    BY DEF StampRecord, NextList, Return, Goto, Inserting, OnlyBy, SerialInv, ListInv, TypeOK
  <1>2. SameRecords
    BY StampRecordFacts DEF SerialInv
  <1>3. SameEdges
    BY <1>1 DEF SameEdges
  <1>4. QED  BY <1>1, <1>2, <1>3, SerialQuiet

\* The steps that end a transaction.
Ends(b) == \/ Commit(b) \/ Abort(b) \/ Refuse(b) \/ CascadeFails(b)
           \/ \E e \in Edge : DeleteEdgeFails(b, e)

LEMMA EndsFacts ==
    ASSUME ListInv, NEW b \in Backend, Ends(b)
    PROVE  /\ xid[b] # NoXid
           /\ \E status \in {"committed", "aborted"} :
                End(b, status) /\ (status = "committed" => pc[b] \in {"idle", "end"})
  <1>1. xid[b] # NoXid
    BY DEF Ends, Commit, Abort, Refuse, AtActiveEdge, CascadeFails, DeleteEdgeFails, CanCall,
           ListInv
  <1>2. (End(b, "committed") /\ pc[b] \in {"idle", "end"}) \/ End(b, "aborted")
    BY DEF Ends, Commit, Abort, Refuse, CascadeFails, DeleteEdgeFails
  <1>3. QED  BY <1>1, <1>2

LEMMA SerialNext == ASSUME SerialInv, OneAtATime, [Next]_vars PROVE SerialInv'
  <1>1. ListInv'
    BY NextStep DEF SerialInv
  <1>2. CASE UNCHANGED vars
    <2>1. UNCHANGED <<xact, etup, list, head, xid, pc, edge, dir, saved, new>>
      BY <1>2 DEF vars, tables, frame
    <2>2. OpenXactsRun' /\ RecordsBelong' /\ RecordedOnce' /\ Skips'
      BY <2>1, XactsSame DEF SerialInv, RecordsBelong, RecordedOnce, Skips
    <2>3. Recorded' /\ Tops'
      BY <2>1 DEF SerialInv, Recorded, Tops, IsNew, IsRecorded, Pending, Counts
    <2>4. \A b \in Backend : Inserts(b)'
      BY <2>1 DEF SerialInv, Inserts, Owner
    <2>5. QED  BY <1>1, <2>2, <2>3, <2>4 DEF SerialInv
  <1>3. ASSUME NEW b \in Backend, Ends(b) PROVE SerialInv'
    <2>1. \A status \in {"committed", "aborted"} :
            End(b, status) /\ (status = "committed" => pc[b] \notin Inserting) => SerialInv'
      BY <1>1, <1>3, EndsFacts, SerialEnd DEF SerialInv
    <2>2. QED  BY <1>3, <2>1, EndsFacts DEF SerialInv, Inserting
  <1>4. ASSUME NEW b \in Backend, Begin(b) \/ Call(b) \/ Continue(b) PROVE SerialInv'
    <2>1. CASE Begin(b)
      BY <1>1, <2>1, SerialBegin
    <2>2. CASE Call(b)
      <3>1. \/ Ends(b)
            \/ \E e \in Edge : InsertEdge(b, e) \/ DeleteEdge(b, e)
            \/ \E v \in Vertex, cascade \in BOOLEAN : DeleteVertex(b, v, cascade)
        BY <2>2 DEF Call, Ends
      <3>2. QED  BY <1>1, <1>3, <3>1, SerialInsertEdge, SerialStampEdge, SerialWalks
    <2>3. CASE Continue(b)
      <3>1. \/ Ends(b) \/ ReadHead(b) \/ AppendRecord(b) \/ FixPrev(b) \/ SetHead(b)
            \/ CascadeDelete(b) \/ StampRecord(b)
            \/ StartWalk(b) \/ WalkOn(b) \/ WalkEnds(b)
            \/ Collect(b) \/ CollectEnds(b) \/ StampVertex(b)
        BY <2>3 DEF Continue, Ends
      <3>2. QED
        BY <1>1, <1>3, <3>1, SerialReadHead, SerialAppendRecord, SerialFixPrev, SerialSetHead,
           SerialStampEdge, SerialStampRecord, SerialWalks
    <2>4. QED  BY <1>4, <2>1, <2>2, <2>3
  <1>5. QED  BY <1>2, <1>3, <1>4 DEF Next, Ends

LEMMA SerialInvHolds == Spec /\ []OneAtATime => []SerialInv
  <1>1. SerialInv /\ OneAtATime /\ [Next]_vars => SerialInv'
    BY SerialNext
  <1>2. Init => SerialInv
    BY InitSerial
  <1>3. QED  BY <1>1, <1>2, PTL DEF Spec
-----------------------------------------------------------------------------
(***************************************************************************)
(* What a walk meets.  Chain is a recursive function; the sets it is meant *)
(* to return are the least ones that hold a record and the next of each of *)
(* their members, so there is such a function.                             *)
(***************************************************************************)
IsClosed(S) == \A r \in S : list[r].next # Nil => list[r].next \in S
Reach(r) ==
    {q \in DOMAIN list : \A S \in SUBSET DOMAIN list : (r # Nil => r \in S) /\ IsClosed(S) => q \in S}

LEMMA ReachSteps ==
    ASSUME ListInv
    PROVE  /\ Reach(Nil) = {}
           /\ \A r \in DOMAIN list : Reach(r) = {r} \cup Reach(list[r].next)
  <1>1. \A r \in DOMAIN list : r # Nil /\ (list[r].next # Nil => list[r].next \in DOMAIN list)
    BY RecordFacts DEF ListInv, ListShape, HangsOn, Nil
  <1>2. Reach(Nil) = {}
    <2>1. {} \in SUBSET DOMAIN list /\ IsClosed({})
      BY DEF IsClosed
    <2>2. \A q \in Reach(Nil) : q \in {}
      BY <2>1 DEF Reach
    <2>3. QED  BY <2>2
  <1>3. \A r : Reach(r) \in SUBSET DOMAIN list /\ IsClosed(Reach(r))
    <2>1. ASSUME NEW r, NEW q \in Reach(r), list[q].next # Nil PROVE list[q].next \in Reach(r)
      <3>1. q \in DOMAIN list /\ list[q].next \in DOMAIN list
        BY <1>1, <2>1 DEF Reach
      <3>2. ASSUME NEW S \in SUBSET DOMAIN list, r # Nil => r \in S, IsClosed(S)
            PROVE  list[q].next \in S
        <4>1. q \in S
          BY <3>2 DEF Reach
        <4>2. QED  BY <2>1, <3>2, <4>1 DEF IsClosed
      <3>3. QED  BY <3>1, <3>2 DEF Reach
    <2>2. \A r : Reach(r) \in SUBSET DOMAIN list
      BY DEF Reach
    <2>3. QED  BY <2>1, <2>2 DEF IsClosed
  <1>4. \A r \in DOMAIN list : r \in Reach(r)
    BY <1>1 DEF Reach
  <1>5. ASSUME NEW r \in DOMAIN list PROVE Reach(r) = {r} \cup Reach(list[r].next)
    <2> DEFINE n == list[r].next
               T == {r} \cup Reach(n)
    <2>1. T \in SUBSET DOMAIN list
      BY <1>3
    <2>2. n # Nil => n \in T
      BY <1>1, <1>4
    <2>3. IsClosed(T)
      BY <1>3, <2>2 DEF IsClosed
    <2>4. \A q \in Reach(r) : q \in T
      <3>1. r \in T
        OBVIOUS
      <3> HIDE DEF T
      <3>2. QED  BY <2>1, <2>3, <3>1 DEF Reach
    <2>5. \A q \in Reach(n) : q \in Reach(r)
      <3>1. n # Nil => n \in Reach(r)
        BY <1>3, <1>4 DEF IsClosed
      <3>2. QED  BY <1>3, <3>1 DEF Reach
    <2>6. QED  BY <1>4, <2>4, <2>5
  <1>6. QED  BY <1>2, <1>5

LEMMA ChainSteps ==
    ASSUME ListInv, NEW r \in DOMAIN list
    PROVE  Chain[r] = {r} \cup Chain[list[r].next]
  <1> DEFINE IsChain(f) ==
        f = [q \in 0 .. Len(list) |-> IF q = Nil THEN {} ELSE {q} \cup f[list[q].next]]
  <1>1. \A q \in 0 .. Len(list) : q # Nil => q \in DOMAIN list /\ list[q].next \in 0 .. Len(list)
    <2>1. Len(list) \in Nat /\ DOMAIN list = 1 .. Len(list)
      BY RecordFacts DEF ListInv
    <2>2. \A q \in DOMAIN list : list[q].next # Nil => list[q].next \in DOMAIN list
      BY DEF ListInv, ListShape, HangsOn
    <2>3. QED  BY <2>1, <2>2 DEF Nil
  <1>2. \E f : IsChain(f)
    <2> DEFINE g == [q \in 0 .. Len(list) |-> Reach(q)]
    <2>1. \A q \in 0 .. Len(list) : g[q] = IF q = Nil THEN {} ELSE {q} \cup g[list[q].next]
      BY <1>1, ReachSteps
    <2>2. IsChain(g)
      BY <2>1
    <2>3. QED  BY <2>2
  <1>3. IsChain(Chain)
    BY <1>2 DEF Chain
  <1> HIDE DEF IsChain
  <1>4. r \in 0 .. Len(list) /\ r # Nil
    BY RecordFacts DEF ListInv, Nil
  <1>5. QED  BY <1>3, <1>4 DEF IsChain

\* A set of naturals has a first element.
Before == {p \in Nat \X Nat : p[1] < p[2]}
LEMMA LeastNat ==
    ASSUME NEW S \in SUBSET Nat, S # {}
    PROVE  \E n \in S : \A m \in S : n <= m
  <1>1. IsWellFoundedOn(Before, Nat)
    BY NatLessThanWellFounded DEF OpToRel, Before
  <1>2. PICK n \in S : \A m \in S : <<m, n>> \notin Before
    BY <1>1, WFMin
  <1>3. ASSUME NEW m \in S PROVE n <= m
    <2>1. m \in Nat /\ n \in Nat /\ (<<m, n>> \in Before <=> m < n)
      BY DEF Before
    <2>2. QED  BY <1>2, <2>1
  <1>4. QED  BY <1>3

\* A walk from record n meets every record behind it but rolled-back ones.
LEMMA ChainMeets ==
    ASSUME SerialInv, NEW q \in DOMAIN list, ~DidAbort(xact, list[q].xmin),
           NEW n \in DOMAIN list, q <= n, list[n].owner = list[q].owner
    PROVE  q \in Chain[n]
  <1> DEFINE Bad == {m \in DOMAIN list : q <= m /\ list[m].owner = list[q].owner /\ q \notin Chain[m]}
  <1>1. \A m \in DOMAIN list : m \in Nat /\ m # 0 /\ list[m].next \in Nat
    BY RecordFacts DEF SerialInv, ListInv
  <1>2. ASSUME Bad # {} PROVE FALSE
    <2>1. Bad \in SUBSET Nat
      BY <1>1
    <2>2. PICK m \in Bad : \A k \in Bad : m <= k
      BY <1>2, <2>1, LeastNat
    <2>3. m \in DOMAIN list /\ q <= m /\ list[m].owner = list[q].owner /\ q \notin Chain[m]
      OBVIOUS
    <2>4. Chain[m] = {m} \cup Chain[list[m].next]
      BY <2>3, ChainSteps DEF SerialInv
    <2>5. q < m /\ ~(list[m].next < q)
      <3>1. q # m
        BY <2>3, <2>4
      <3>2. q < m
        BY <1>1, <2>3, <3>1
      <3>3. QED  BY <2>3, <3>2 DEF SerialInv, Skips
    <2>6. list[m].next # Nil
      BY <1>1, <2>3, <2>5 DEF Nil
    <2>7. list[m].next < m /\ list[m].next \in DOMAIN list /\ list[list[m].next].owner = list[m].owner
      BY <2>3, <2>6 DEF SerialInv, ListInv, ListShape, HangsOn
    <2>8. q <= list[m].next /\ q \notin Chain[list[m].next]
      BY <1>1, <2>3, <2>4, <2>5
    <2>9. list[m].next \in Bad
      BY <2>3, <2>7, <2>8
    <2>10. m <= list[m].next
      BY <2>2, <2>9
    <2>11. QED  BY <1>1, <2>3, <2>7, <2>10
  <1>3. QED  BY <1>2

\* When transactions come one at a time, an insertion that committed is found
\* from both vertices of its edge, whatever other insertions were rolled back
\* before or after it with their records appended and heads set or not.
THEOREM NothingLostIfOneAtATime == Spec /\ []OneAtATime => []NothingLost
  <1>1. SerialInv => NothingLost
    <2> SUFFICES ASSUME SerialInv, NEW e \in Edge, DidCommit(xact, etup[e].xmin),
                        NEW d \in Directions
                 PROVE  Hangs(e, d)
      BY DEF NothingLost
    <2>1. \A b \in Backend : xid[b] = etup[e].xmin => pc[b] \notin Inserting
      <3>1. ASSUME NEW b \in Backend, xid[b] = etup[e].xmin, pc[b] \in Inserting PROVE FALSE
        <4>1. xid[b] # NoXid
          BY <3>1 DEF DidCommit
        <4>2. xact[xid[b]] = "running"
          BY <4>1 DEF SerialInv, OpenXactsRun
        <4>3. QED  BY <3>1, <4>2 DEF DidCommit
      <3>2. QED  BY <3>1
    <2>2. Counts(etup[e].xmin)
      BY DEF Counts, DidCommit, DidAbort
    <2>3. \A b \in Backend : ~Pending(b, e, d)
      <3>1. \A b \in Backend : Pending(b, e, d) => pc[b] \in Inserting /\ edge[b] = e
        BY DEF Pending, Inserting
      <3>2. QED  BY <2>1, <3>1 DEF SerialInv, Inserts
    <2>4. PICK r \in DOMAIN list : list[r].edge = e /\ list[r].dir = d
      BY <2>2, <2>3 DEF SerialInv, Recorded, IsRecorded
    <2>5. list[r].xmin = etup[e].xmin /\ list[r].owner = Endpoint(e, d)
      BY <2>4 DEF SerialInv, RecordsBelong
    <2>6. ~DidAbort(xact, list[r].xmin)
      BY <2>2, <2>5 DEF Counts
    <2>7. ~IsNew(r)
      <3>1. ASSUME NEW b \in Backend, pc[b] \in {"fixPrev", "setHead"}, new[b] = r PROVE FALSE
        <4>1. pc[b] \in Inserting /\ edge[b] = e /\ etup[edge[b]].xmin = xid[b]
          BY <2>4, <3>1 DEF SerialInv, Inserts, Inserting
        <4>2. QED  BY <2>1, <4>1
      <3>2. QED  BY <3>1 DEF IsNew
    <2>8. ~(head[list[r].owner] < r)
      BY <2>6, <2>7 DEF SerialInv, Tops
    <2> DEFINE h == head[Endpoint(e, d)]
    <2>9. h \in DOMAIN list /\ r <= h /\ list[h].owner = list[r].owner
      <3>1. list[r].owner \in Vertex /\ r \in Nat /\ r # 0 /\ h \in Nat
        BY <2>5, RecordFacts DEF SerialInv, ListInv
      <3>2. r <= h /\ h # Nil
        BY <2>5, <2>8, <3>1 DEF Nil
      <3>3. QED  BY <2>5, <3>1, <3>2 DEF SerialInv, ListInv, ListShape, HangsOn
    <2>10. r \in Chain[h]
      BY <2>6, <2>9, ChainMeets
    <2>11. QED  BY <2>4, <2>10 DEF Hangs
  <1>2. QED  BY <1>1, SerialInvHolds, PTL
-----------------------------------------------------------------------------
(***************************************************************************)
(* What a deletion leaves.  The walk for an edge meets the records of the  *)
(* edge that are not stamped yet; when it is over none is left, unless the *)
(* transaction rolls back and the stamp of the tuple counts no longer.     *)
(***************************************************************************)
Open(e) == {r \in DOMAIN list : list[r].edge = e /\ list[r].xmax = NoXid}
Walking(b) == pc[b] \in {"startWalk", "walk"}

\* The first walk is for one record of the edge, the second for the other one.
Walks(b) ==
    /\ pc[b] = "walk" => \A r \in Open(edge[b]) : list[r].owner = Owner(b) => r <= saved[b]
    /\ Walking(b) /\ dir[b] = 1 =>
         /\ \A r \in Open(edge[b]) : list[r].owner = Target[edge[b]]
         /\ \A r, q \in Open(edge[b]) : r = q

Unlinked ==
    \A r \in DOMAIN list : Counts(etup[list[r].edge].xmax) =>
        \/ list[r].xmax = etup[list[r].edge].xmax
        \/ DidAbort(xact, list[r].xmax)
        \/ \E b \in Backend : Walking(b) /\ r \in Open(edge[b])

\* Nobody stamps an edge that is being inserted.
Fresh == \A b \in Backend : pc[b] \in Inserting => etup[edge[b]].xmax = NoXid

DeleteInv == SerialInv /\ UnlinkInv /\ Fresh /\ Unlinked /\ \A b \in Backend : Walks(b)

LEMMA InitDelete == ASSUME Init PROVE DeleteInv
  <1>1. SerialInv /\ UnlinkInv
    BY InitSerial, InitUnlink
  <1>2. DOMAIN list = {} /\ \A b \in Backend : pc[b] = "idle"
    BY DEF Init
  <1>3. Fresh /\ Unlinked /\ \A b \in Backend : Walks(b)
    BY <1>2 DEF Fresh, Inserting, Unlinked, Walks, Walking
  <1>4. QED  BY <1>1, <1>3 DEF DeleteInv

\* What a walk is for was inserted, and its stamp is the walker's.
LEMMA WalkedEdge ==
    ASSUME DeleteInv, NEW b \in Backend, Walking(b)
    PROVE  /\ edge[b] \in Edge /\ etup[edge[b]].xmax = xid[b] /\ xid[b] # NoXid
           /\ xact[xid[b]] = "running"
           /\ \A r \in DOMAIN list : list[r].edge = edge[b] => ~DidAbort(xact, list[r].xmin)
  <1>1. xid[b] # NoXid /\ edge[b] \in Edge
    BY DEF Walking, DeleteInv, UnlinkInv, ListInv, TypeOK
  <1>2. etup[edge[b]].xmax = xid[b] /\ xact[xid[b]] = "running"
    BY <1>1 DEF Walking, DeleteInv, UnlinkInv, WalksForOwnStamp, OpenXactsRun
  <1>3. etup[edge[b]].xmin = xid[b] \/ DidCommit(xact, etup[edge[b]].xmin)
    BY <1>1, <1>2 DEF DeleteInv, UnlinkInv, StampsFollow
  <1>4. ~DidAbort(xact, etup[edge[b]].xmin)
    BY <1>2, <1>3 DEF DidAbort, DidCommit
  <1>5. QED  BY <1>1, <1>2, <1>4 DEF DeleteInv, SerialInv, RecordsBelong

\* Steps that are not part of a walk.
LEMMA KeepsUnlinked ==
    ASSUME DeleteInv, NEW b \in Backend, OnlyBy(b), ~Walking(b), ~Walking(b)',
           \A e \in Edge : etup'[e].xmax = etup[e].xmax,
           \A x \in XidsOf(xact) : DidAbort(xact', x) <=> DidAbort(xact, x),
           \A r \in DOMAIN list : /\ r \in DOMAIN list' /\ list'[r].edge = list[r].edge
                                  /\ list'[r].owner = list[r].owner /\ list'[r].xmax = list[r].xmax,
           \A r \in DOMAIN list' : r \notin DOMAIN list =>
               list'[r].edge \in Edge /\ etup[list'[r].edge].xmax = NoXid
    PROVE  Unlinked' /\ \A c \in Backend : Walks(c)'
  <1>1. /\ \A r \in DOMAIN list : list[r].edge \in Edge /\ list[r].xmax \in XidsOf(xact)
        /\ \A e \in Edge : etup[e].xmax \in XidsOf(xact)
        /\ \A c \in Backend : edge[c] \in Edge
    BY RecordFacts DEF DeleteInv, SerialInv, ListInv
  <1>2. \A c \in Backend : c # b => /\ pc'[c] = pc[c] /\ edge'[c] = edge[c] /\ dir'[c] = dir[c]
                                    /\ saved'[c] = saved[c]
    BY DEF OnlyBy
  <1>3. \A e : \A r \in DOMAIN list : r \in Open(e)' <=> r \in Open(e)
    BY DEF Open
  <1>4. ASSUME NEW c \in Backend, Walking(c)'
        PROVE  c # b /\ Walking(c) /\ edge'[c] = edge[c] /\ \A r : r \in Open(edge[c])' => r \in Open(edge[c])
    <2>1. c # b
      BY <1>4
    <2>2. Walking(c) /\ edge'[c] = edge[c]
      BY <1>2, <1>4, <2>1 DEF Walking
    <2>3. etup[edge[c]].xmax # NoXid /\ edge[c] \in Edge
      BY <2>2, WalkedEdge
    <2>4. \A r : r \in Open(edge[c])' => r \in Open(edge[c])
      BY <1>3, <2>2, <2>3 DEF Open
    <2>5. QED  BY <2>1, <2>2, <2>4
  <1>5. Unlinked'
    <2>1. ASSUME NEW r \in DOMAIN list', Counts(etup[list[r].edge].xmax)'
          PROVE  \/ list'[r].xmax = etup'[list'[r].edge].xmax
                 \/ DidAbort(xact', list'[r].xmax)
                 \/ \E c \in Backend : Walking(c)' /\ r \in Open(edge[c])'
      <3>1. r \in DOMAIN list /\ list'[r].edge = list[r].edge /\ list[r].edge \in Edge
        BY <1>1, <2>1 DEF Counts
      <3>2. Counts(etup[list[r].edge].xmax)
        BY <1>1, <2>1, <3>1 DEF Counts
      <3>3. ASSUME NEW c \in Backend, Walking(c), r \in Open(edge[c])
            PROVE  Walking(c)' /\ r \in Open(edge[c])'
        <4>1. c # b
          BY <3>3
        <4>2. QED  BY <1>2, <1>3, <3>1, <3>3, <4>1 DEF Walking, Open
      <3>4. \/ list[r].xmax = etup[list[r].edge].xmax
            \/ DidAbort(xact, list[r].xmax)
            \/ \E c \in Backend : Walking(c) /\ r \in Open(edge[c])
        BY <3>1, <3>2 DEF DeleteInv, Unlinked
      <3>5. QED  BY <1>1, <3>1, <3>3, <3>4
    <2>2. QED  BY <2>1 DEF Unlinked
  <1>6. ASSUME NEW c \in Backend PROVE Walks(c)'
    <2>1. CASE ~Walking(c)'
      BY <2>1 DEF Walks, Walking
    <2>2. CASE Walking(c)'
      <3>1. c # b /\ edge'[c] = edge[c] /\ \A r : r \in Open(edge[c])' => r \in Open(edge[c])
        BY <1>4, <2>2
      <3>2. Owner(c)' = Owner(c) /\ Walks(c)
        BY <1>2, <3>1 DEF Owner, DeleteInv
      <3>3. \A r \in Open(edge[c]) : list'[r].owner = list[r].owner
        BY DEF Open
      <3>4. QED  BY <1>2, <2>2, <3>1, <3>2, <3>3 DEF Walks, Walking
    <2>3. QED  BY <2>1, <2>2
  <1>7. QED  BY <1>5, <1>6

\* Transactions begin, edges are inserted, vertices are stamped.
LEMMA DeleteQuiet ==
    ASSUME DeleteInv, OneAtATime, SerialInv', UnlinkInv', NEW b \in Backend,
           \/ Begin(b) \/ \E e \in Edge : InsertEdge(b, e)
           \/ ReadHead(b) \/ AppendRecord(b) \/ FixPrev(b) \/ SetHead(b)
           \/ \E v \in Vertex, cascade \in BOOLEAN : DeleteVertex(b, v, cascade)
           \/ Collect(b) \/ CollectEnds(b) \/ StampVertex(b)
    PROVE  DeleteInv'
  <1>1. TypeOK /\ ListInv /\ SerialInv /\ UnlinkInv /\ Fresh
    BY DEF DeleteInv, SerialInv, ListInv
  <1>2. OnlyBy(b)
    BY <1>1 DEF Begin, InsertEdge, ReadHead, AppendRecord, FixPrev, SetHead, DeleteVertex, Collect,
                CollectEnds, StampVertex, Return, Goto, tables, frame, OnlyBy, TypeOK
  <1>3. ~Walking(b) /\ ~Walking(b)'
    BY <1>1 DEF Begin, InsertEdge, ReadHead, AppendRecord, FixPrev, SetHead, DeleteVertex, Collect,
                CollectEnds, StampVertex, CanCall, Return, Goto, tables, frame, Walking, TypeOK
  <1>4. \/ etup' = etup /\ (pc'[b] \in Inserting => pc[b] \in Inserting /\ edge'[b] = edge[b])
        \/ \E e \in Edge : InsertEdge(b, e)
    BY <1>1 DEF Begin, ReadHead, AppendRecord, FixPrev, SetHead, DeleteVertex, Collect,
                CollectEnds, StampVertex, CanCall, Return, Goto, tables, frame, Inserting, TypeOK
  <1>5. \A e \in Edge : etup'[e].xmax = etup[e].xmax
    <2>1. ASSUME NEW e \in Edge, InsertEdge(b, e) PROVE \A f \in Edge : etup'[f].xmax = etup[f].xmax
      <3>1. etup' = [etup EXCEPT ![e].xmin = xid[b]] /\ \A f \in Edge : etup[f] \in Header
        BY <1>1, <2>1 DEF InsertEdge, TypeOK
      <3>2. QED  BY <1>1, <3>1 DEF Header, TypeOK
    <2>2. QED  BY <1>4, <2>1
  <1>6. \A x \in XidsOf(xact) : DidAbort(xact', x) <=> DidAbort(xact, x)
    <2>1. CASE Begin(b)
      <3>1. /\ xact \in Seq(XactStatus) /\ xact' = Append(xact, "running") /\ "running" \in XactStatus
        BY <1>1, <2>1 DEF Begin, TypeOK, XactStatus
      <3>2. \A x \in DOMAIN xact : xact'[x] = xact[x]
        BY <3>1, AppendFacts
      <3>3. QED  BY <3>2 DEF XidsOf, DidAbort
    <2>2. CASE ~Begin(b)
      <3>1. xact' = xact
        BY <2>2 DEF InsertEdge, ReadHead, AppendRecord, FixPrev, SetHead, DeleteVertex, Collect,
                    CollectEnds, StampVertex
      <3>2. QED  BY <3>1
    <2>3. QED  BY <2>1, <2>2
  <1>7. /\ \A r \in DOMAIN list : /\ r \in DOMAIN list' /\ list'[r].edge = list[r].edge
                                  /\ list'[r].owner = list[r].owner /\ list'[r].xmax = list[r].xmax
        /\ \A r \in DOMAIN list' : r \notin DOMAIN list =>
               list'[r].edge \in Edge /\ etup[list'[r].edge].xmax = NoXid
    <2>1. CASE AppendRecord(b)
      <3>1. PICK row : /\ list' = Append(list, row) /\ row.edge = edge[b]
        BY <2>1 DEF AppendRecord
      <3>2. list \in Seq(Record \cup {row})
        BY <1>1, SeqMonotonic DEF TypeOK
      <3>3. edge[b] \in Edge /\ etup[edge[b]].xmax = NoXid
        BY <1>1, <2>1 DEF AppendRecord, Fresh, Inserting, TypeOK
      <3>4. QED  BY <3>1, <3>2, <3>3, AppendFacts
    <2>2. CASE FixPrev(b)
      <3>1. list' = [list EXCEPT ![saved[b]].prev = new[b]] /\ \A r \in DOMAIN list : list[r] \in Record
        BY <1>1, <2>2 DEF FixPrev, TypeOK
      <3>2. QED  BY <3>1 DEF Record
    <2>3. CASE ~(AppendRecord(b) \/ FixPrev(b))
      <3>1. list' = list
        BY <2>3 DEF Begin, InsertEdge, ReadHead, SetHead, DeleteVertex, Collect, CollectEnds,
                    StampVertex, tables
      <3>2. QED  BY <3>1
    <2>4. QED  BY <2>1, <2>2, <2>3
  <1>8. Unlinked' /\ \A c \in Backend : Walks(c)'
    BY <1>2, <1>3, <1>5, <1>6, <1>7, KeepsUnlinked
  <1>9. Fresh'
    <2>1. ASSUME NEW c \in Backend, pc'[c] \in Inserting PROVE etup'[edge'[c]].xmax = NoXid
      <3>1. CASE c # b
        <4>1. pc[c] \in Inserting /\ edge'[c] = edge[c] /\ edge[c] \in Edge
          BY <1>1, <1>2, <2>1, <3>1 DEF OnlyBy, TypeOK
        <4>2. QED  BY <1>1, <1>5, <4>1 DEF Fresh
      <3>2. CASE c = b /\ \E e \in Edge : InsertEdge(b, e)
        <4>1. PICK e \in Edge : InsertEdge(b, e)
          BY <3>2
        <4>2. edge'[b] = e /\ etup[e].xmin = NoXid
          BY <1>1, <4>1 DEF InsertEdge, TypeOK
        <4>3. etup[e].xmax = NoXid
          BY <1>1, <4>2 DEF UnlinkInv, StampsFollow, DidCommit
        <4>4. QED  BY <1>5, <3>2, <4>2, <4>3
      <3>3. CASE c = b /\ ~\E e \in Edge : InsertEdge(b, e)
        BY <1>1, <1>4, <2>1, <3>3 DEF Fresh
      <3>4. QED  BY <3>1, <3>2, <3>3
    <2>2. QED  BY <2>1 DEF Fresh
  <1>10. QED  BY <1>8, <1>9 DEF DeleteInv

LEMMA DeleteEnd ==
    ASSUME DeleteInv, OneAtATime, SerialInv', UnlinkInv', NEW b \in Backend, Ends(b)
    PROVE  DeleteInv'
  <1>1. TypeOK /\ ListInv /\ SerialInv /\ UnlinkInv /\ xid[b] # NoXid
    BY EndsFacts DEF DeleteInv, SerialInv, ListInv
  <1>2. PICK status \in {"committed", "aborted"} :
          End(b, status) /\ (status = "committed" => pc[b] \in {"idle", "end"})
    BY <1>1, EndsFacts
  <1>3. /\ UNCHANGED <<etup, list, edge>> /\ xact' = [xact EXCEPT ![xid[b]] = status]
        /\ pc'[b] = "idle" /\ xid[b] \in DOMAIN xact /\ xact[xid[b]] = "running"
        /\ \A c \in Backend : c # b => pc'[c] = pc[c]
    BY <1>1, <1>2 DEF End, Goto, TypeOK, tables, XidsOf, UnlinkInv, OpenXactsRun
  <1>4. \A c \in Backend : c # b => xid[c] = NoXid /\ pc[c] = "idle"
    BY <1>1, OthersIdle
  <1>5. \A c \in Backend : pc'[c] = "idle"
    BY <1>3, <1>4
  <1>6. Fresh' /\ \A c \in Backend : Walks(c)'
    BY <1>5 DEF Fresh, Inserting, Walks, Walking
  <1>7. /\ \A x \in XidsOf(xact) : DidAbort(xact, x) => DidAbort(xact', x)
        /\ status = "aborted" => DidAbort(xact', xid[b])
    BY <1>1, <1>3 DEF XidsOf, DidAbort
  <1>8. Unlinked'
    <2>1. ASSUME NEW r \in DOMAIN list, Counts(etup[list[r].edge].xmax)'
          PROVE  list[r].xmax = etup[list[r].edge].xmax \/ DidAbort(xact', list[r].xmax)
      <3>1. /\ list[r].edge \in Edge /\ list[r].xmax \in XidsOf(xact)
            /\ etup[list[r].edge].xmax \in XidsOf(xact)
        BY <1>1, RecordFacts
      <3>2. Counts(etup[list[r].edge].xmax)
        BY <1>3, <1>7, <2>1, <3>1 DEF Counts
      <3>3. ASSUME NEW c \in Backend, Walking(c), r \in Open(edge[c]) PROVE FALSE
        <4>1. c = b /\ status = "aborted" /\ list[r].edge = edge[b]
          BY <1>2, <1>4, <3>3 DEF Walking, Open
        <4>2. etup[edge[b]].xmax = xid[b]
          BY <3>3, <4>1, WalkedEdge
        <4>3. QED  BY <1>3, <1>7, <2>1, <4>1, <4>2 DEF Counts
      <3>4. QED  BY <1>7, <3>1, <3>2, <3>3 DEF DeleteInv, Unlinked
    <2>2. QED  BY <1>3, <2>1 DEF Unlinked
  <1>9. QED  BY <1>6, <1>8 DEF DeleteInv

\* The records that a stamped edge still has open are those its walk is for;
\* the stamps the others carry were rolled back.
LEMMA DeleteStampEdge ==
    ASSUME DeleteInv, OneAtATime, SerialInv', UnlinkInv', NEW b \in Backend, NEW e \in Edge,
           StampEdge(b, e), xid[b] # NoXid, ~Walking(b), UNCHANGED <<xact, xid, list, saved>>
    PROVE  DeleteInv'
  <1>1. TypeOK /\ ListInv /\ SerialInv /\ UnlinkInv
    BY DEF DeleteInv, SerialInv, ListInv
  <1>2. etup[e].xmax = NoXid \/ DidAbort(xact, etup[e].xmax)
    BY <1>1, ReplaceableIsFree DEF StampEdge
  <1>3. etup'[e].xmax = xid[b] /\ \A f \in Edge : f # e => etup'[f] = etup[f]
    BY <1>1, StampEdgeFacts
  <1>4. /\ pc'[b] = "startWalk" /\ edge'[b] = e /\ dir'[b] = 0
        /\ \A c \in Backend : c # b => pc'[c] = pc[c]
    BY <1>1 DEF StampEdge, Goto, TypeOK
  <1>5. \A c \in Backend : c # b => pc[c] = "idle"
    BY <1>1, OthersIdle
  <1>6. Fresh' /\ \A c \in Backend : Walks(c)'
    BY <1>4, <1>5 DEF Fresh, Inserting, Walks, Walking
  <1>7. Unlinked'
    <2>1. ASSUME NEW r \in DOMAIN list, Counts(etup[list[r].edge].xmax)'
          PROVE  \/ list[r].xmax = etup'[list[r].edge].xmax
                 \/ DidAbort(xact, list[r].xmax)
                 \/ Walking(b)' /\ r \in Open(edge[b])'
      <3>1. list[r].edge \in Edge
        BY <1>1, RecordFacts
      <3>2. CASE list[r].edge = e
        <4>1. Walking(b)' /\ (list[r].xmax = NoXid => r \in Open(edge[b])')
          BY <1>4, <3>2 DEF Walking, Open
        <4>2. list[r].xmax # NoXid => DidAbort(xact, list[r].xmax)
          <5>1. list[r].xmax # NoXid /\ ~DidAbort(xact, list[r].xmax) => etup[e].xmax = list[r].xmax
            BY <1>1, <3>2 DEF UnlinkInv, UnlinkMeansDeleted
          <5>2. QED  BY <1>2, <5>1
        <4>3. QED  BY <4>1, <4>2
      <3>3. CASE list[r].edge # e
        <4>1. etup'[list[r].edge] = etup[list[r].edge]
          BY <1>3, <3>1, <3>3
        <4>2. Counts(etup[list[r].edge].xmax)
          BY <2>1, <4>1 DEF Counts
        <4>3. \A c \in Backend : ~Walking(c)
          BY <1>5 DEF Walking
        <4>4. QED  BY <4>1, <4>2, <4>3 DEF DeleteInv, Unlinked
      <3>4. QED  BY <3>2, <3>3
    <2>2. QED  BY <2>1 DEF Unlinked
  <1>8. QED  BY <1>6, <1>7 DEF DeleteInv

\* A head leads to every record the walk may be for, and so does a next pointer.
LEMMA DeleteWalkOn ==
    ASSUME DeleteInv, OneAtATime, SerialInv', UnlinkInv', NEW b \in Backend,
           StartWalk(b) \/ WalkOn(b)
    PROVE  DeleteInv'
  <1>1. TypeOK /\ ListInv /\ SerialInv /\ UnlinkInv /\ Walks(b)
    BY DEF DeleteInv, SerialInv, ListInv
  <1>2. /\ UNCHANGED <<xact, etup, list, xid, edge, dir>>
        /\ Walking(b) /\ pc'[b] = "walk"
        /\ \A c \in Backend : c # b => pc'[c] = pc[c]
        /\ StartWalk(b) => saved'[b] = head[Owner(b)]
        /\ WalkOn(b) => saved'[b] = list[saved[b]].next /\ pc[b] = "walk" /\ saved[b] # Nil
    BY <1>1 DEF StartWalk, WalkOn, Walking, Goto, tables, TypeOK
  <1>3. xid[b] # NoXid
    BY <1>2, WalkedEdge
  <1>4. \A c \in Backend : c # b => pc[c] = "idle"
    BY <1>1, <1>3, OthersIdle
  <1>5. Owner(b)' = Owner(b) /\ \A e : Open(e)' = Open(e)
    BY <1>2 DEF Owner, Open
  <1>6. ASSUME NEW r \in Open(edge[b]), list[r].owner = Owner(b) PROVE r <= saved'[b]
    <2>1. r \in DOMAIN list /\ list[r].edge = edge[b] /\ r \in Nat /\ ~DidAbort(xact, list[r].xmin)
      BY <1>1, <1>2, RecordFacts, WalkedEdge DEF Open
    <2>2. CASE StartWalk(b)
      <3>1. ~IsNew(r)
        BY <1>2, <1>4 DEF IsNew, Walking
      <3>2. ~(head[Owner(b)] < r)
        BY <1>1, <1>6, <2>1, <3>1 DEF SerialInv, Tops
      <3>3. head[Owner(b)] \in Nat
        BY <1>1, OwnerIsVertex, RecordFacts
      <3>4. QED  BY <1>2, <2>1, <2>2, <3>2, <3>3
    <2>3. CASE WalkOn(b)
      <3>1. r <= saved[b] /\ HangsOn(saved[b], Owner(b))
        BY <1>1, <1>2, <1>6, <2>3 DEF Walks, ListInv, Held
      <3>2. r # saved[b]
        BY <2>1, <2>3 DEF WalkOn, IsWanted, Open
      <3>3. saved[b] \in DOMAIN list /\ saved[b] \in Nat /\ list[saved[b]].next \in Nat
            /\ list[saved[b]].owner = Owner(b)
        BY <1>1, <3>1, RecordFacts DEF HangsOn
      <3>4. r < saved[b]
        BY <2>1, <3>1, <3>2, <3>3
      <3>5. ~(list[saved[b]].next < r)
        BY <1>1, <1>6, <2>1, <3>3, <3>4 DEF SerialInv, Skips
      <3>6. QED  BY <1>2, <2>1, <2>3, <3>3, <3>5
    <2>4. QED  BY <2>2, <2>3
  <1>7. \A c \in Backend : Walks(c)'
    <2>1. Walks(b)'
      BY <1>1, <1>2, <1>5, <1>6 DEF Walks, Walking
    <2>2. QED  BY <1>2, <1>4, <2>1 DEF Walks, Walking
  <1>8. Fresh'
    BY <1>2, <1>4 DEF Fresh, Inserting
  <1>9. Unlinked'
    <2>1. \A c \in Backend : Walking(c) => Walking(c)'
      BY <1>2 DEF Walking
    <2>2. QED  BY <1>2, <1>5, <2>1 DEF DeleteInv, Unlinked, Counts
  <1>10. QED  BY <1>7, <1>8, <1>9 DEF DeleteInv

\* A walk that ends with a stamp or at the end of the list leaves the other
\* record of the edge at most, and the second walk leaves none.
LEMMA WalkOver ==
    ASSUME UniqueIds, DeleteInv, NEW b \in Backend, StampRecord(b) \/ WalkEnds(b)
    PROVE  /\ Open(edge[b])' \subseteq Open(edge[b])
           /\ \A r \in Open(edge[b]) : r \notin Open(edge[b])' => list'[r].xmax = xid[b]
           /\ \A r \in Open(edge[b])' : list[r].owner = Target[edge[b]]
           /\ \A r, q \in Open(edge[b])' : r = q
           /\ dir[b] = 1 => Open(edge[b])' = {}
  <1>1. TypeOK /\ ListInv /\ SerialInv /\ UnlinkInv /\ Walks(b)
    BY DEF DeleteInv, SerialInv, ListInv
  <1>2. pc[b] = "walk" /\ edge' = edge /\ edge[b] \in Edge /\ dir[b] \in {0, 1}
    BY <1>1 DEF StampRecord, WalkEnds, TypeOK, Directions
  <1> DEFINE e == edge[b]
  <1>3. \A r \in Open(e) : r \in DOMAIN list /\ list[r].dir \in {0, 1} /\ r \in Nat /\ r # 0
                           /\ list[r].owner = IF list[r].dir = 0 THEN Source[e] ELSE Target[e]
    BY <1>1, RecordFacts DEF Open, SerialInv, RecordsBelong, Endpoint, Directions
  <1>4. \A r, q \in Open(e) : list[r].dir = list[q].dir => r = q
    BY <1>1 DEF Open, SerialInv, RecordedOnce
  <1>5. Owner(b) = IF dir[b] = 0 THEN Source[e] ELSE Target[e]
    BY DEF Owner, Endpoint
  <1>6. CASE StampRecord(b)
    <2> DEFINE k == saved[b]
    <2>1. /\ SameRecords /\ k \in DOMAIN list /\ list'[k].xmax = xid[b]
          /\ \A r \in DOMAIN list : r # k => list'[r].xmax = list[r].xmax
      BY <1>1, <1>6, StampRecordFacts
    <2>2. k \in Open(e) /\ list[k].owner = Owner(b)
      <3>1. list[k].edge \in Edge /\ IdOf[list[k].edge] = IdOf[e] /\ list[k].xmax = NoXid
        BY <1>1, <1>6, <2>1, RecordFacts DEF StampRecord, IsWanted
      <3>2. list[k].edge = e
        BY <1>2, <3>1 DEF UniqueIds
      <3>3. list[k].owner = Owner(b)
        BY <1>1, <1>2, <1>6 DEF StampRecord, ListInv, Held, HangsOn
      <3>4. QED  BY <2>1, <3>1, <3>2, <3>3 DEF Open
    <2>3. xid[b] # NoXid
      BY <1>2, WalkedEdge DEF Walking
    <2>4. \A r : r \in Open(edge[b])' <=> r \in Open(e) /\ r # k
      <3>1. \A r : r \in Open(edge[b])' <=> r \in DOMAIN list /\ list[r].edge = e /\ list'[r].xmax = NoXid
        BY <1>2, <2>1 DEF Open, SameRecords
      <3>2. QED  BY <2>1, <2>2, <2>3, <3>1 DEF Open
    <2> HIDE DEF k, e
    <2>5. \A r \in Open(e) : r # k => list[r].owner = Target[e]
      <3>1. ASSUME NEW r \in Open(e), r # k, list[r].dir = 0 PROVE list[r].owner = Target[e]
        <4>1. list[k].dir = 1 /\ list[k].owner = Target[e] /\ list[r].owner = Source[e]
          BY <1>3, <1>4, <2>2, <3>1
        <4>2. Source[e] = Target[e] \/ dir[b] = 1
          BY <1>2, <1>5, <2>2, <4>1
        <4>3. dir[b] = 1 => r = k
          BY <1>1, <1>2, <2>2 DEF Walks, Walking, e
        <4>4. QED  BY <3>1, <4>1, <4>2, <4>3
      <3>2. QED  BY <1>3, <3>1
    <2>6. \A r, q \in Open(e) : r # k /\ q # k => r = q
      BY <1>3, <1>4, <2>2
    <2>7. dir[b] = 1 => \A r \in Open(e) : r = k
      BY <1>1, <1>2, <2>2 DEF Walks, Walking, e
    <2>8. QED  BY <2>1, <2>4, <2>5, <2>6, <2>7 DEF e, k
  <1>7. CASE WalkEnds(b)
    <2>1. list' = list /\ saved[b] = 0
      BY <1>7 DEF WalkEnds, tables, Nil
    <2>2. Open(edge[b])' = Open(e)
      BY <1>2, <2>1 DEF Open
    <2>3. \A r \in Open(e) : list[r].owner # Owner(b)
      <3>1. \A r \in Open(e) : list[r].owner = Owner(b) => r <= 0
        BY <1>1, <1>2, <2>1 DEF Walks
      <3>2. \A r \in Open(e) : ~(r <= 0)
        BY <1>3
      <3>3. QED  BY <3>1, <3>2
    <2>4. dir[b] = 1 => Open(e) = {}
      BY <1>1, <1>2, <1>5, <2>3 DEF Walks, Walking
    <2>5. dir[b] = 0 => \A r \in Open(e) : list[r].dir = 1
      BY <1>3, <1>5, <2>3
    <2>6. QED  BY <1>2, <1>3, <1>4, <2>2, <2>4, <2>5
  <1>8. QED  BY <1>6, <1>7

LEMMA DeleteWalkOver ==
    ASSUME UniqueIds, DeleteInv, OneAtATime, SerialInv', UnlinkInv', NEW b \in Backend,
           StampRecord(b) \/ WalkEnds(b)
    PROVE  DeleteInv'
  <1>1. TypeOK /\ ListInv /\ SerialInv /\ UnlinkInv /\ Unlinked
    BY DEF DeleteInv, SerialInv, ListInv
  <1>2. /\ UNCHANGED <<xact, etup, xid, edge>> /\ Walking(b) /\ dir[b] \in {0, 1}
        /\ dir'[b] = 1 - dir[b]
        /\ pc'[b] \notin Inserting /\ pc'[b] # "walk"
        /\ dir[b] = 0 => pc'[b] = "startWalk"
        /\ dir[b] # 0 => ~Walking(b)'
        /\ \A c \in Backend : c # b => pc'[c] = pc[c]
    BY <1>1 DEF StampRecord, WalkEnds, NextList, Return, Goto, Walking, Inserting, Directions,
                tables, TypeOK
  <1>3. /\ edge[b] \in Edge /\ etup[edge[b]].xmax = xid[b] /\ xid[b] # NoXid
    BY <1>2, WalkedEdge
  <1>4. \A c \in Backend : c # b => pc[c] = "idle"
    BY <1>1, <1>3, OthersIdle
  <1>5. /\ DOMAIN list' = DOMAIN list
        /\ \A r \in DOMAIN list : /\ list'[r].edge = list[r].edge /\ list'[r].owner = list[r].owner
        /\ \A r \in DOMAIN list : list[r].edge # edge[b] => list'[r].xmax = list[r].xmax
        /\ \A r \in DOMAIN list : list[r].xmax # NoXid => list'[r].xmax = list[r].xmax
    <2>1. CASE WalkEnds(b)
      BY <2>1 DEF WalkEnds, tables
    <2>2. CASE StampRecord(b)
      <3>1. /\ SameRecords /\ saved[b] \in DOMAIN list /\ list'[saved[b]].xmax = xid[b]
            /\ \A r \in DOMAIN list : r # saved[b] => list'[r].xmax = list[r].xmax
        BY <1>1, <2>2, StampRecordFacts
      <3>2. IdOf[list[saved[b]].edge] = IdOf[edge[b]] /\ list[saved[b]].xmax = NoXid
        BY <2>2 DEF StampRecord, IsWanted
      <3>3. list[saved[b]].edge = edge[b]
        BY <1>1, <1>3, <3>1, <3>2, RecordFacts DEF UniqueIds
      <3>4. QED  BY <3>1, <3>2, <3>3 DEF SameRecords
    <2>3. QED  BY <2>1, <2>2
  <1>6. /\ Open(edge[b])' \subseteq Open(edge[b])
        /\ \A r \in Open(edge[b]) : r \notin Open(edge[b])' => list'[r].xmax = xid[b]
        /\ \A r \in Open(edge[b])' : list[r].owner = Target[edge[b]]
        /\ \A r, q \in Open(edge[b])' : r = q
        /\ dir[b] = 1 => Open(edge[b])' = {}
    BY WalkOver
  <1>7. \A r \in Open(edge[b])' : r \in DOMAIN list
    BY <1>5 DEF Open
  <1>8. Fresh'
    BY <1>2, <1>4 DEF Fresh, Inserting
  <1>9. \A c \in Backend : Walks(c)'
    <2>1. \A r \in Open(edge[b])' : list'[r].owner = Target[edge'[b]]
      BY <1>2, <1>5, <1>6, <1>7
    <2>2. Walks(b)'
      BY <1>2, <1>6, <2>1 DEF Walks
    <2>3. QED  BY <1>2, <1>4, <2>2 DEF Walks, Walking
  <1>10. Unlinked'
    <2>1. ASSUME NEW r \in DOMAIN list, Counts(etup[list[r].edge].xmax)
          PROVE  \/ list'[r].xmax = etup[list[r].edge].xmax
                 \/ DidAbort(xact, list'[r].xmax)
                 \/ Walking(b)' /\ r \in Open(edge[b])'
      <3>1. CASE list[r].xmax = etup[list[r].edge].xmax \/ DidAbort(xact, list[r].xmax)
        BY <1>5, <2>1, <3>1 DEF Counts, DidAbort
      <3>2. ASSUME NEW c \in Backend, Walking(c), r \in Open(edge[c])
            PROVE  list'[r].xmax = etup[list[r].edge].xmax \/ (Walking(b)' /\ r \in Open(edge[b])')
        <4>1. c = b /\ list[r].edge = edge[b]
          BY <1>4, <3>2 DEF Walking, Open
        <4>2. CASE r \in Open(edge[b])'
          <5>1. dir[b] = 0
            BY <1>2, <1>6, <4>2
          <5>2. QED  BY <1>2, <4>2, <5>1 DEF Walking
        <4>3. CASE r \notin Open(edge[b])'
          BY <1>3, <1>6, <3>2, <4>1, <4>3
        <4>4. QED  BY <4>2, <4>3
      <3>3. QED  BY <1>1, <2>1, <3>1, <3>2 DEF Unlinked
    <2>2. ASSUME NEW r \in DOMAIN list', Counts(etup[list[r].edge].xmax)'
          PROVE  \/ list'[r].xmax = etup'[list'[r].edge].xmax
                 \/ DidAbort(xact', list'[r].xmax)
                 \/ Walking(b)' /\ r \in Open(edge[b])'
      <3>1. r \in DOMAIN list /\ list'[r].edge = list[r].edge
        BY <1>5
      <3>2. Counts(etup[list[r].edge].xmax)
        BY <1>2, <2>2, <3>1 DEF Counts
      <3>3. QED  BY <1>2, <2>1, <3>1, <3>2
    <2>3. QED  BY <2>2 DEF Unlinked
  <1>11. QED  BY <1>8, <1>9, <1>10 DEF DeleteInv

LEMMA DeleteNext == ASSUME UniqueIds, DeleteInv, OneAtATime, [Next]_vars PROVE DeleteInv'
  <1>1. SerialInv /\ UnlinkInv /\ SerialInv' /\ UnlinkInv'
    BY SerialNext, UnlinkNext DEF DeleteInv
  <1>2. CASE UNCHANGED vars
    <2>1. UNCHANGED <<xact, etup, list, head, xid, pc, edge, dir, saved, new>>
      BY <1>2 DEF vars, tables, frame
    <2>2. \A b \in Backend : Walks(b)' /\ (Walking(b)' <=> Walking(b))
      BY <2>1 DEF DeleteInv, Walks, Walking, Open, Owner
    <2>3. Fresh' /\ Unlinked'
      BY <2>1, <2>2 DEF DeleteInv, Fresh, Unlinked, Open, Counts
    <2>4. QED  BY <1>1, <2>2, <2>3 DEF DeleteInv
  <1>3. ASSUME NEW b \in Backend, Ends(b) PROVE DeleteInv'
    BY <1>1, <1>3, DeleteEnd
  <1>4. ASSUME NEW b \in Backend, CascadeDelete(b) \/ \E e \in Edge : DeleteEdge(b, e)
        PROVE  DeleteInv'
    <2>1. PICK e \in Edge : StampEdge(b, e)
      <3>1. CASE CascadeDelete(b)
        <4>1. todo[b] \in Seq(Edge) /\ todo[b] # <<>>
          BY <3>1 DEF CascadeDelete, DeleteInv, SerialInv, ListInv, TypeOK
        <4>2. Head(todo[b]) \in Edge
          BY <4>1, HeadTailProperties
        <4>3. QED  BY <3>1, <4>2 DEF CascadeDelete
      <3>2. QED  BY <1>4, <3>1 DEF DeleteEdge
    <2>2. UNCHANGED <<xact, xid, list, saved>> /\ ~Walking(b) /\ xid[b] # NoXid
      BY <1>1, <1>4 DEF CascadeDelete, DeleteEdge, CanCall, Walking, SerialInv, ListInv
    <2>3. QED  BY <1>1, <2>1, <2>2, DeleteStampEdge
  <1>5. ASSUME NEW b \in Backend, Begin(b) \/ Call(b) \/ Continue(b) PROVE DeleteInv'
    <2>1. CASE Begin(b)
      BY <1>1, <2>1, DeleteQuiet
    <2>2. CASE Call(b)
      <3>1. \/ Ends(b)
            \/ \E e \in Edge : InsertEdge(b, e)
            \/ \E e \in Edge : DeleteEdge(b, e)
            \/ \E v \in Vertex, cascade \in BOOLEAN : DeleteVertex(b, v, cascade)
        BY <2>2 DEF Call, Ends
      <3>2. QED  BY <1>1, <1>3, <1>4, <3>1, DeleteQuiet
    <2>3. CASE Continue(b)
      <3>1. \/ Ends(b) \/ ReadHead(b) \/ AppendRecord(b) \/ FixPrev(b) \/ SetHead(b)
            \/ CascadeDelete(b) \/ StampRecord(b)
            \/ StartWalk(b) \/ WalkOn(b) \/ WalkEnds(b)
            \/ Collect(b) \/ CollectEnds(b) \/ StampVertex(b)
        BY <2>3 DEF Continue, Ends
      <3>2. QED
        BY <1>1, <1>3, <1>4, <3>1, DeleteQuiet, DeleteWalkOn, DeleteWalkOver
    <2>4. QED  BY <1>5, <2>1, <2>2, <2>3
  <1>6. QED  BY <1>2, <1>3, <1>5 DEF Next, Ends

\* When ids are unique and transactions come one at a time, the walks of a
\* deletion that committed have stamped both records of the edge, save those
\* that an earlier deletion had stamped before it was rolled back.
THEOREM DeletedMeansUnlinkedIfOneAtATime ==
    UniqueIds => (Spec /\ []OneAtATime => []DeletedMeansUnlinked)
  <1> SUFFICES ASSUME UniqueIds PROVE Spec /\ []OneAtATime => []DeletedMeansUnlinked
    OBVIOUS
  <1>1. DeleteInv /\ OneAtATime /\ [Next]_vars => DeleteInv'
    BY DeleteNext
  <1>2. Init => DeleteInv
    BY InitDelete
  <1>3. DeleteInv => DeletedMeansUnlinked
    <2> SUFFICES ASSUME DeleteInv, NEW r \in DOMAIN list,
                        DidCommit(xact, etup[list[r].edge].xmax)
                 PROVE  \/ list[r].xmax = etup[list[r].edge].xmax
                        \/ DidAbort(xact, list[r].xmax)
      BY DEF DeletedMeansUnlinked
    <2>1. Counts(etup[list[r].edge].xmax)
      BY DEF Counts, DidCommit, DidAbort
    <2>2. ASSUME NEW b \in Backend, Walking(b), r \in Open(edge[b]) PROVE FALSE
      <3>1. list[r].edge = edge[b]
        BY <2>2 DEF Open
      <3>2. xact[etup[edge[b]].xmax] = "running"
        BY <2>2, WalkedEdge
      <3>3. QED  BY <3>1, <3>2 DEF DidCommit
    <2>3. QED  BY <2>1, <2>2 DEF DeleteInv, Unlinked
  <1>4. QED  BY <1>1, <1>2, <1>3, PTL DEF Spec
-----------------------------------------------------------------------------
(***************************************************************************)
(* What a vertex deletion concludes from a list.  When its walk is over it *)
(* has collected every edge at the vertex that counts and is not deleted;  *)
(* when the edges are gone, the stamp on the vertex leaves nothing behind  *)
(* but edges that carry the mark of a rolled-back deletion.                *)
(***************************************************************************)
\* What is running has a backend; vertices were there first.
RunningIsOpen == \A x \in DOMAIN xact : xact[x] = "running" => \E b \in Backend : xid[b] = x
VerticesStand == 1 \in DOMAIN xact /\ xact[1] = "committed" /\ \A v \in Vertex : vtup[v].xmin = 1

\* The edges of a vertex whose stamp counts.
Fenced ==
    \A e \in Edge, d \in Directions :
        Counts(vtup[Endpoint(e, d)].xmax) /\ Counts(etup[e].xmin) =>
            \/ DidCommit(xact, etup[e].xmax)
            \/ etup[e].xmax = vtup[Endpoint(e, d)].xmax
            \/ \E r \in DOMAIN list : list[r].edge = e /\ DidAbort(xact, list[r].xmax)

\* A vertex deletion is at its list, or at the edges it has found there.
Deletes(b) ==
    /\ pc[b] \in {"collect", "cascade"} => doomed[b] \in Vertex
    /\ doomed[b] # NoVertex => pc[b] \in {"collect", "cascade", "startWalk", "walk"}
    /\ doomed[b] = NoVertex => todo[b] = <<>>
    /\ pc[b] = "collect" /\ saved[b] # Nil => HangsOn(saved[b], doomed[b])

IsTodo(b, e) == \E i \in DOMAIN todo[b] : todo[b][i] = e

\* The active edges of the vertex: still ahead, collected, or being deleted.
Active(r) == list[r].xmax = NoXid /\ ~DidAbort(xact, list[r].xmin)
Collects(b) ==
    doomed[b] # NoVertex =>
        \A r \in DOMAIN list : list[r].owner = doomed[b] /\ Active(r) =>
            \/ pc[b] = "collect" /\ r <= saved[b]
            \/ IsTodo(b, list[r].edge)
            \/ Walking(b) /\ list[r].edge = edge[b]

IsLoop(e) == Source[e] = Target[e]
CanGo(b, e) == Replaceable(b, etup[e]) \/ DidAbort(xact, etup[e].xmin) \/ IsLoop(e)

\* Only a loop is collected twice, so the cascade does not run into itself.
CanDelete(b) ==
    /\ \A i \in DOMAIN todo[b] : CanGo(b, todo[b][i])
    /\ \A i, j \in DOMAIN todo[b] : i # j /\ todo[b][i] = todo[b][j] => IsLoop(todo[b][i])
    /\ pc[b] = "collect" =>
         \A i \in DOMAIN todo[b] : \E r \in DOMAIN list :
             r > saved[b] /\ list[r].owner = doomed[b] /\ list[r].edge = todo[b][i]

VertexInv ==
    /\ DeleteInv /\ RunningIsOpen /\ VerticesStand /\ Fenced
    /\ \A b \in Backend : Deletes(b) /\ Collects(b) /\ CanDelete(b)

LEMMA InitVertex == ASSUME Init PROVE VertexInv
  <1>1. DeleteInv
    BY InitDelete
  <1>2. /\ xact = <<"committed">> /\ DOMAIN list = {}
        /\ \A v \in Vertex : vtup[v].xmin = 1
        /\ \A e \in Edge : etup[e].xmin = NoXid
        /\ \A b \in Backend : pc[b] = "idle" /\ doomed[b] = NoVertex /\ todo[b] = <<>>
    BY DEF Init
  <1>3. RunningIsOpen /\ VerticesStand
    <2>1. DOMAIN xact = {1} /\ xact[1] = "committed"
      BY <1>2
    <2>2. QED  BY <1>2, <2>1 DEF RunningIsOpen, VerticesStand
  <1>4. Fenced
    BY <1>2 DEF Fenced, Counts
  <1>5. \A b \in Backend : DOMAIN todo[b] = {}
    BY <1>2
  <1>6. \A b \in Backend : Deletes(b) /\ Collects(b) /\ CanDelete(b)
    BY <1>2, <1>5 DEF Deletes, Collects, CanDelete
  <1>7. QED  BY <1>1, <1>3, <1>4, <1>6 DEF VertexInv

\* No step takes a status back, rewrites a record or takes back its stamp.
LEMMA XactKept ==
    ASSUME ListInv, OpenXactsRun, [Next]_vars
    PROVE  \A x \in XidsOf(xact) : /\ DidAbort(xact, x) => DidAbort(xact', x)
                                   /\ DidCommit(xact, x) => DidCommit(xact', x)
  <1>1. ASSUME NEW b \in Backend, Begin(b)
        PROVE  \A x \in DOMAIN xact : xact'[x] = xact[x]
    <2>1. xact \in Seq(XactStatus) /\ xact' = Append(xact, "running") /\ "running" \in XactStatus
      BY <1>1 DEF ListInv, TypeOK, Begin, XactStatus
    <2>2. QED  BY <2>1, AppendFacts
  <1>2. ASSUME NEW b \in Backend, Ends(b)
        PROVE  \A x \in DOMAIN xact : xact[x] # "running" => xact'[x] = xact[x]
    <2>1. xid[b] # NoXid /\ \E status : xact' = [xact EXCEPT ![xid[b]] = status]
      BY <1>2, EndsFacts DEF End
    <2>2. xact[xid[b]] = "running"
      BY <2>1 DEF OpenXactsRun
    <2>3. QED  BY <2>1, <2>2
  <1>3. xact' = xact \/ \E b \in Backend : Begin(b) \/ Ends(b)
    BY DEF Next, Call, Continue, Ends, InsertEdge, DeleteEdge, DeleteVertex, ReadHead, AppendRecord,
           FixPrev, SetHead, StartWalk, StampRecord, WalkOn, WalkEnds, Collect, CollectEnds,
           CascadeDelete, StampVertex, vars
  <1>4. \A x \in DOMAIN xact : xact[x] # "running" => xact'[x] = xact[x]
    BY <1>1, <1>2, <1>3
  <1>5. QED  BY <1>4 DEF XidsOf, DidAbort, DidCommit

LEMMA RecordsKept ==
    ASSUME ListInv, [Next]_vars, NEW r \in DOMAIN list
    PROVE  /\ r \in DOMAIN list' /\ list'[r].edge = list[r].edge
           /\ list[r].xmax # NoXid => list'[r].xmax = list[r].xmax
  <1>1. list \in Seq(Record) /\ list[r] \in Record
    BY DEF ListInv, TypeOK
  <1>2. CASE list' = list
    BY <1>2
  <1>3. ASSUME NEW b \in Backend, AppendRecord(b) PROVE r \in DOMAIN list' /\ list'[r] = list[r]
    <2>1. PICK row : list' = Append(list, row)
      BY <1>3 DEF AppendRecord
    <2>2. list \in Seq(Record \cup {row})
      BY <1>1, SeqMonotonic
    <2>3. QED  BY <2>1, <2>2, AppendFacts
  <1>4. ASSUME NEW b \in Backend, FixPrev(b)
        PROVE  r \in DOMAIN list' /\ list'[r].edge = list[r].edge /\ list'[r].xmax = list[r].xmax
    <2>1. list' = [list EXCEPT ![saved[b]].prev = new[b]]
      BY <1>4 DEF FixPrev
    <2>2. QED  BY <1>1, <2>1 DEF Record
  <1>5. ASSUME NEW b \in Backend, StampRecord(b)
        PROVE  /\ r \in DOMAIN list' /\ list'[r].edge = list[r].edge
               /\ list[r].xmax # NoXid => list'[r].xmax = list[r].xmax
    <2>1. list[saved[b]].xmax = NoXid
      BY <1>5 DEF StampRecord, IsWanted
    <2>2. QED  BY <1>5, <2>1, StampRecordFacts DEF SameRecords
  <1>6. list' = list \/ \E b \in Backend : AppendRecord(b) \/ FixPrev(b) \/ StampRecord(b)
    BY ZenonT(60) DEF Next, Begin, Commit, Abort, Refuse, CascadeFails, DeleteEdgeFails, End, Call,
           Continue, InsertEdge, DeleteEdge, DeleteVertex, ReadHead, SetHead, StartWalk,
           WalkOn, WalkEnds, Collect, CollectEnds, CascadeDelete, StampVertex, tables, vars
  <1>7. QED  BY <1>2, <1>3, <1>4, <1>5, <1>6

LEMMA RunningNext ==
    ASSUME ListInv, OpenXactsRun, RunningIsOpen, VerticesStand, [Next]_vars
    PROVE  RunningIsOpen' /\ VerticesStand'
  <1>1. xact \in Seq(XactStatus) /\ xid \in [Backend -> XidsOf(xact)]
    BY DEF ListInv, TypeOK
  <1>2. \A v \in Vertex : vtup'[v].xmin = vtup[v].xmin
    <2>1. ASSUME NEW b \in Backend, StampVertex(b) PROVE \A v \in Vertex : vtup'[v].xmin = vtup[v].xmin
      <3>1. vtup' = [vtup EXCEPT ![doomed[b]].xmax = xid[b]] /\ vtup \in [Vertex -> Header]
        BY <2>1 DEF StampVertex, ListInv, TypeOK
      <3>2. \A v \in Vertex : vtup'[v] = vtup[v] \/ vtup'[v] = [vtup[v] EXCEPT !.xmax = xid[b]]
        BY <3>1
      <3>3. \A v \in Vertex : vtup[v] \in Header
        BY <3>1
      <3>4. QED  BY <3>2, <3>3 DEF Header
    <2>2. vtup' = vtup \/ \E b \in Backend : StampVertex(b)
      BY ZenonT(60) DEF Next, Begin, Commit, Abort, Refuse, CascadeFails, DeleteEdgeFails, End, Call,
             Continue, InsertEdge, DeleteEdge, DeleteVertex, ReadHead, AppendRecord, FixPrev,
             SetHead, StartWalk, StampRecord, WalkOn, WalkEnds, Collect, CollectEnds,
             CascadeDelete, tables, vars
    <2>3. QED  BY <2>1, <2>2
  <1>3. CASE UNCHANGED <<xact, xid>>
    BY <1>2, <1>3 DEF RunningIsOpen, VerticesStand
  <1>4. ASSUME NEW b \in Backend, Begin(b) PROVE RunningIsOpen' /\ VerticesStand'
    <2> DEFINE n == Len(xact) + 1
    <2>1. /\ xact' = Append(xact, "running") /\ "running" \in XactStatus
          /\ xid'[b] = n /\ xid[b] = NoXid
          /\ \A c \in Backend : c # b => xid'[c] = xid[c]
      BY <1>1, <1>4 DEF Begin, XactStatus
    <2>2. /\ DOMAIN xact' = DOMAIN xact \cup {n} /\ NoXid \notin DOMAIN xact
          /\ \A x \in DOMAIN xact : xact'[x] = xact[x]
      BY <1>1, <2>1, AppendFacts DEF NoXid
    <2> HIDE DEF n
    <2>3. \A x \in DOMAIN xact : xact'[x] = "running" => \E c \in Backend : xid'[c] = x
      BY <2>1, <2>2 DEF RunningIsOpen
    <2>4. RunningIsOpen'
      BY <2>1, <2>2, <2>3 DEF RunningIsOpen
    <2>5. VerticesStand'
      BY <1>2, <2>2 DEF VerticesStand
    <2>6. QED  BY <2>4, <2>5
  <1>5. ASSUME NEW b \in Backend, Ends(b) PROVE RunningIsOpen' /\ VerticesStand'
    <2>1. PICK status \in {"committed", "aborted"} : End(b, status) /\ xid[b] # NoXid
      BY <1>5, EndsFacts
    <2>2. /\ xact' = [xact EXCEPT ![xid[b]] = status] /\ xact[xid[b]] = "running"
          /\ \A c \in Backend : c # b => xid'[c] = xid[c]
      BY <1>1, <2>1 DEF End, OpenXactsRun
    <2>3. /\ DOMAIN xact' = DOMAIN xact /\ \A x \in DOMAIN xact : x # xid[b] => xact'[x] = xact[x]
          /\ xid[b] \in DOMAIN xact => xact'[xid[b]] = status
      BY <2>2
    <2>4. RunningIsOpen'
      <3>1. ASSUME NEW x \in DOMAIN xact, xact'[x] = "running" PROVE \E c \in Backend : xid'[c] = x
        <4>1. x # xid[b]
          BY <2>1, <2>3, <3>1
        <4>2. PICK c \in Backend : xid[c] = x
          BY <2>3, <3>1, <4>1 DEF RunningIsOpen
        <4>3. QED  BY <2>2, <4>1, <4>2
      <3>2. QED  BY <2>3, <3>1 DEF RunningIsOpen
    <2>5. VerticesStand'
      BY <1>2, <2>2, <2>3 DEF VerticesStand
    <2>6. QED  BY <2>4, <2>5
  <1>6. UNCHANGED <<xact, xid>> \/ \E b \in Backend : Begin(b) \/ Ends(b)
    BY ZenonT(60) DEF Next, Call, Continue, Ends, InsertEdge, DeleteEdge, DeleteVertex, ReadHead, AppendRecord,
           FixPrev, SetHead, StartWalk, StampRecord, WalkOn, WalkEnds, Collect, CollectEnds,
           CascadeDelete, StampVertex, vars
  <1>7. QED  BY <1>3, <1>4, <1>5, <1>6

\* Who runs is the one whose transaction is open.
LEMMA OwnOrEnded ==
    ASSUME ListInv, RunningIsOpen, OneAtATime, NEW b \in Backend, xid[b] # NoXid,
           NEW x \in XidsOf(xact), Counts(x)
    PROVE  x = xid[b] \/ DidCommit(xact, x)
  <1>1. x \in DOMAIN xact /\ x # NoXid
    BY DEF Counts, XidsOf
  <1>2. xact[x] \in XactStatus
    BY <1>1 DEF ListInv, TypeOK
  <1>3. CASE xact[x] = "running"
    <2>1. PICK c \in Backend : xid[c] = x
      BY <1>1, <1>3 DEF RunningIsOpen
    <2>2. QED  BY <1>1, <2>1 DEF OneAtATime
  <1>4. QED  BY <1>1, <1>2, <1>3 DEF Counts, DidAbort, DidCommit, XactStatus

\* Everything an edge of the vertex says is in the records its deletion has met.
LEMMA FencedStampVertex ==
    ASSUME VertexInv, OneAtATime, NEW b \in Backend, StampVertex(b)
    PROVE  Fenced'
  <1>1. TypeOK /\ ListInv /\ SerialInv /\ UnlinkInv /\ Deletes(b) /\ Collects(b)
    BY DEF VertexInv, DeleteInv, SerialInv, ListInv
  <1>2. /\ UNCHANGED <<xact, etup, list>> /\ pc[b] = "cascade" /\ todo[b] = <<>>
        /\ vtup' = [vtup EXCEPT ![doomed[b]].xmax = xid[b]]
        /\ xid[b] # NoXid /\ doomed[b] \in Vertex
    BY <1>1 DEF StampVertex, ListInv, Deletes
  <1>3. doomed[b] # NoVertex /\ DOMAIN todo[b] = {}
    BY <1>2, EndpointsAssumption
  <1>4. \A c \in Backend : pc[c] \notin Inserting
    BY <1>1, <1>2, OthersIdle DEF Inserting
  <1>5. ASSUME NEW e \in Edge, NEW d \in Directions, Endpoint(e, d) = doomed[b], Counts(etup[e].xmin)
        PROVE  \/ DidCommit(xact, etup[e].xmax)
               \/ etup[e].xmax = xid[b]
               \/ \E r \in DOMAIN list : list[r].edge = e /\ DidAbort(xact, list[r].xmax)
    <2>1. \A c \in Backend : ~Pending(c, e, d)
      BY <1>4 DEF Pending, Inserting
    <2>2. PICK r \in DOMAIN list : list[r].edge = e /\ list[r].dir = d
      BY <1>1, <1>5, <2>1 DEF SerialInv, Recorded, IsRecorded
    <2>3. list[r].owner = doomed[b] /\ ~DidAbort(xact, list[r].xmin)
      BY <1>1, <1>5, <2>2 DEF SerialInv, RecordsBelong, Counts
    <2>4. list[r].xmax # NoXid
      BY <1>1, <1>2, <1>3, <2>2, <2>3 DEF Collects, Active, IsTodo, Walking
    <2>5. CASE DidAbort(xact, list[r].xmax)
      BY <2>2, <2>5
    <2>6. CASE ~DidAbort(xact, list[r].xmax)
      <3>1. etup[e].xmax = list[r].xmax
        BY <1>1, <2>2, <2>4, <2>6 DEF UnlinkInv, UnlinkMeansDeleted
      <3>2. Counts(list[r].xmax) /\ list[r].xmax \in XidsOf(xact)
        BY <1>1, <2>4, <2>6, RecordFacts DEF Counts
      <3>3. QED  BY <1>1, <1>2, <3>1, <3>2, OwnOrEnded DEF VertexInv
    <2>7. QED  BY <2>5, <2>6
  <1>6. /\ vtup'[doomed[b]].xmax = xid[b]
        /\ \A v \in Vertex : v # doomed[b] => vtup'[v] = vtup[v]
    <2>1. vtup \in [Vertex -> Header] /\ vtup[doomed[b]] \in Header
      BY <1>1, <1>2 DEF TypeOK
    <2>2. QED  BY <1>2, <2>1 DEF Header
  <1>7. \A e \in Edge : \A d \in Directions : Endpoint(e, d) \in Vertex
    BY EndpointsAssumption DEF Endpoint
  <1>8. ASSUME NEW e \in Edge, NEW d \in Directions, Counts(vtup[Endpoint(e, d)].xmax)',
               Counts(etup[e].xmin)'
        PROVE  \/ DidCommit(xact, etup[e].xmax)
               \/ etup[e].xmax = vtup'[Endpoint(e, d)].xmax
               \/ \E r \in DOMAIN list : list[r].edge = e /\ DidAbort(xact, list[r].xmax)
    <2>1. Counts(etup[e].xmin)
      BY <1>2, <1>8 DEF Counts
    <2>2. CASE Endpoint(e, d) = doomed[b]
      BY <1>5, <1>6, <2>1, <2>2
    <2>3. CASE Endpoint(e, d) # doomed[b]
      <3>1. vtup'[Endpoint(e, d)] = vtup[Endpoint(e, d)]
        BY <1>6, <1>7, <2>3
      <3>2. Counts(vtup[Endpoint(e, d)].xmax)
        BY <1>2, <1>8, <3>1 DEF Counts, Endpoint
      <3>3. QED  BY <2>1, <3>1, <3>2 DEF VertexInv, Fenced
    <2>4. QED  BY <2>2, <2>3
  <1>9. QED  BY <1>2, <1>8 DEF Fenced, Endpoint

\* An edge goes between vertices its caller sees.
LEMMA FencedInsertEdge ==
    ASSUME ~AnyId, VertexInv, OneAtATime, NEW b \in Backend, NEW e \in Edge, InsertEdge(b, e)
    PROVE  Fenced'
  <1>1. TypeOK /\ ListInv /\ UnlinkInv
    BY DEF VertexInv, DeleteInv, SerialInv, ListInv
  <1>2. /\ UNCHANGED <<xact, vtup, list>> /\ xid[b] # NoXid
        /\ etup' = [etup EXCEPT ![e].xmin = xid[b]]
        /\ \A d \in Directions : Live(b, vtup[Endpoint(e, d)])
    BY DEF InsertEdge, CanCall
  <1>3. \A f \in Edge : f # e => etup'[f] = etup[f]
    BY <1>1, <1>2 DEF TypeOK
  <1>4. \A f \in Edge : \A d \in Directions : Endpoint(f, d) \in Vertex
    BY EndpointsAssumption DEF Endpoint
  <1>5. \A v \in Vertex : vtup[v].xmax \in XidsOf(xact)
    <2>1. \A v \in Vertex : vtup[v] \in Header
      BY <1>1 DEF TypeOK
    <2>2. QED  BY <2>1 DEF Header
  <1>6. xact[xid[b]] = "running"
    BY <1>1, <1>2 DEF UnlinkInv, OpenXactsRun
  <1>7. ASSUME NEW d \in Directions, Counts(vtup[Endpoint(e, d)].xmax) PROVE FALSE
    <2> DEFINE t == vtup[Endpoint(e, d)]
    <2>1. t.xmin = 1 /\ xact[1] = "committed"
      BY <1>4 DEF VertexInv, VerticesStand
    <2>2. t.xmin # xid[b]
      BY <1>6, <2>1
    <2>3. TupleIsLive(xact, xid[b], t)
      BY <1>2 DEF Live
    <2>4. t.xmax = xid[b] \/ DidCommit(xact, t.xmax)
      BY <1>1, <1>2, <1>4, <1>5, <1>7, OwnOrEnded DEF VertexInv
    <2> HIDE DEF t
    <2>5. ~IsOwn(xid[b], t.xmax) /\ ~DidCommit(xact, t.xmax)
      BY <2>2, <2>3 DEF TupleIsLive, IsOwn
    <2>6. QED  BY <1>2, <2>4, <2>5 DEF IsOwn
  <1>8. ASSUME NEW f \in Edge, NEW d \in Directions, Counts(vtup[Endpoint(f, d)].xmax),
               Counts(etup[f].xmin)'
        PROVE  /\ f # e /\ etup'[f] = etup[f]
               /\ \/ DidCommit(xact, etup[f].xmax)
                  \/ etup[f].xmax = vtup[Endpoint(f, d)].xmax
                  \/ \E r \in DOMAIN list : list[r].edge = f /\ DidAbort(xact, list[r].xmax)
    <2>1. f # e /\ etup'[f] = etup[f]
      BY <1>3, <1>7, <1>8
    <2>2. Counts(etup[f].xmin)
      BY <1>2, <1>8, <2>1 DEF Counts
    <2>3. QED  BY <1>8, <2>1, <2>2 DEF VertexInv, Fenced
  <1>9. QED  BY <1>2, <1>8 DEF Fenced, Endpoint, Counts

\* An edge that may be deleted while its vertex is gone carries the mark.
LEMMA FencedStampEdge ==
    ASSUME VertexInv, NEW b \in Backend, NEW e \in Edge, StampEdge(b, e), xid[b] # NoXid,
           UNCHANGED <<xact, vtup, list>>
    PROVE  Fenced'
  <1>1. TypeOK /\ UnlinkInv
    BY DEF VertexInv, DeleteInv, SerialInv, ListInv
  <1>2. /\ SameEdges /\ \A f \in Edge : f # e => etup'[f] = etup[f]
    BY <1>1, StampEdgeFacts
  <1>3. etup[e].xmax = NoXid \/ DidAbort(xact, etup[e].xmax)
    BY <1>1, ReplaceableIsFree DEF StampEdge
  <1>4. ASSUME NEW f \in Edge, NEW d \in Directions, Counts(vtup[Endpoint(f, d)].xmax),
               Counts(etup[f].xmin)
        PROVE  \/ DidCommit(xact, etup'[f].xmax)
               \/ etup'[f].xmax = vtup[Endpoint(f, d)].xmax
               \/ \E r \in DOMAIN list : list[r].edge = f /\ DidAbort(xact, list[r].xmax)
    <2>1. \/ DidCommit(xact, etup[f].xmax)
          \/ etup[f].xmax = vtup[Endpoint(f, d)].xmax
          \/ \E r \in DOMAIN list : list[r].edge = f /\ DidAbort(xact, list[r].xmax)
      BY <1>4 DEF VertexInv, Fenced
    <2>2. CASE f = e
      BY <1>3, <1>4, <2>1, <2>2 DEF Counts, DidAbort, DidCommit
    <2>3. CASE f # e
      BY <1>2, <2>1, <2>3
    <2>4. QED  BY <2>2, <2>3
  <1>5. QED  BY <1>2, <1>4 DEF Fenced, Endpoint, Counts, SameEdges

LEMMA FencedNext ==
    ASSUME ~AnyId, VertexInv, OneAtATime, [Next]_vars PROVE Fenced'
  <1>1. TypeOK /\ ListInv /\ SerialInv /\ UnlinkInv
    BY DEF VertexInv, DeleteInv, SerialInv, ListInv
  <1>2. CASE UNCHANGED <<etup, vtup>>
    <2>1. \A x \in XidsOf(xact) : /\ DidAbort(xact, x) => DidAbort(xact', x)
                                  /\ DidCommit(xact, x) => DidCommit(xact', x)
      BY <1>1, XactKept DEF UnlinkInv
    <2>2. \A e \in Edge : etup[e].xmin \in XidsOf(xact) /\ etup[e].xmax \in XidsOf(xact)
      BY <1>1, RecordFacts
    <2>3. \A v \in Vertex : vtup[v].xmax \in XidsOf(xact)
      <3>1. \A v \in Vertex : vtup[v] \in Header
        BY <1>1 DEF TypeOK
      <3>2. QED  BY <3>1 DEF Header
    <2>4. \A e \in Edge : \A d \in Directions : Endpoint(e, d) \in Vertex
      BY EndpointsAssumption DEF Endpoint
    <2>5. \A r \in DOMAIN list : DidAbort(xact, list[r].xmax) =>
            r \in DOMAIN list' /\ list'[r].edge = list[r].edge /\ DidAbort(xact', list'[r].xmax)
      <3>1. \A r \in DOMAIN list : list[r].xmax \in XidsOf(xact)
        BY <1>1, RecordFacts
      <3>2. \A r \in DOMAIN list : DidAbort(xact, list[r].xmax) => list[r].xmax # NoXid
        BY DEF DidAbort
      <3>3. QED  BY <1>1, <2>1, <3>1, <3>2, RecordsKept
    <2>6. ASSUME NEW e \in Edge, NEW d \in Directions, Counts(vtup[Endpoint(e, d)].xmax)',
                 Counts(etup[e].xmin)'
          PROVE  \/ DidCommit(xact', etup[e].xmax)
                 \/ etup[e].xmax = vtup[Endpoint(e, d)].xmax
                 \/ \E r \in DOMAIN list' : list'[r].edge = e /\ DidAbort(xact', list'[r].xmax)
      <3>1. Counts(etup[e].xmin)
        BY <1>2, <2>1, <2>2, <2>6 DEF Counts
      <3>2. Counts(vtup[Endpoint(e, d)].xmax)
        BY <1>2, <2>1, <2>3, <2>4, <2>6 DEF Counts, Endpoint
      <3>3. \/ DidCommit(xact, etup[e].xmax)
            \/ etup[e].xmax = vtup[Endpoint(e, d)].xmax
            \/ \E r \in DOMAIN list : list[r].edge = e /\ DidAbort(xact, list[r].xmax)
        BY <3>1, <3>2 DEF VertexInv, Fenced
      <3>4. QED  BY <2>1, <2>2, <2>5, <3>3
    <2>7. QED  BY <1>2, <2>6 DEF Fenced, Endpoint
  <1>3. ASSUME NEW b \in Backend, NEW e \in Edge, DeleteEdge(b, e) PROVE Fenced'
    BY <1>3, FencedStampEdge DEF DeleteEdge, CanCall
  <1>4. ASSUME NEW b \in Backend, CascadeDelete(b) PROVE Fenced'
    <2>1. todo[b] \in Seq(Edge) /\ todo[b] # <<>> /\ xid[b] # NoXid
      BY <1>1, <1>4 DEF CascadeDelete, ListInv, TypeOK
    <2>2. Head(todo[b]) \in Edge
      BY <2>1, HeadTailProperties
    <2>3. QED  BY <1>4, <2>1, <2>2, FencedStampEdge DEF CascadeDelete
  <1>5. \/ UNCHANGED <<etup, vtup>>
        \/ \E b \in Backend : \/ CascadeDelete(b) \/ StampVertex(b)
                              \/ \E e \in Edge : DeleteEdge(b, e) \/ InsertEdge(b, e)
    BY ZenonT(60) DEF Next, Begin, Commit, Abort, Refuse, CascadeFails, DeleteEdgeFails, End, Call,
           Continue, DeleteVertex, ReadHead, AppendRecord, FixPrev, SetHead, StartWalk,
           StampRecord, WalkOn, WalkEnds, Collect, CollectEnds, tables, vars
  <1>6. QED  BY <1>2, <1>3, <1>4, <1>5, FencedStampVertex, FencedInsertEdge
-----------------------------------------------------------------------------
(* The steps of a vertex deletion.                                          *)

LEMMA NotDeleting ==
    ASSUME NEW b \in Backend, pc'[b] \notin {"collect", "cascade"}, doomed'[b] = NoVertex,
           todo'[b] = <<>>
    PROVE  Deletes(b)' /\ Collects(b)' /\ CanDelete(b)'
  <1>1. DOMAIN <<>> = {}
    OBVIOUS
  <1>2. DOMAIN todo'[b] = {}
    BY <1>1
  <1>3. QED  BY <1>2 DEF Deletes, Collects, CanDelete

LEMMA IdleDeletesNothing ==
    ASSUME VertexInv, NEW b \in Backend, pc[b] \in {"idle", "end"} \cup Inserting
    PROVE  doomed[b] = NoVertex /\ todo[b] = <<>>
    BY DEF VertexInv, Deletes, Inserting

\* The head leads to every active edge of the vertex.
LEMMA CollectFromHead ==
    ASSUME VertexInv, OneAtATime, NEW b \in Backend, NEW v \in Vertex, NEW cascade \in BOOLEAN,
           DeleteVertex(b, v, cascade)
    PROVE  Deletes(b)' /\ Collects(b)' /\ CanDelete(b)'
  <1>1. TypeOK /\ ListInv /\ SerialInv /\ xid[b] # NoXid /\ pc[b] = "idle"
    BY DEF VertexInv, DeleteInv, SerialInv, ListInv, DeleteVertex, CanCall
  <1>2. /\ UNCHANGED <<xact, list, todo>>
        /\ pc'[b] = "collect" /\ doomed'[b] = v /\ saved'[b] = head[v]
    BY <1>1 DEF DeleteVertex, Goto, tables, TypeOK
  <1>3. todo[b] = <<>>
    BY <1>1, IdleDeletesNothing
  <1>4. \A c \in Backend : pc[c] = "idle"
    BY <1>1, OthersIdle
  <1>5. Deletes(b)'
    <2>1. head[v] # Nil => head[v] \in DOMAIN list' /\ list'[head[v]].owner = v
      BY <1>1, <1>2 DEF ListInv, ListShape, HangsOn
    <2>2. v # NoVertex
      BY EndpointsAssumption
    <2>3. QED  BY <1>2, <2>1, <2>2 DEF Deletes, HangsOn
  <1>6. Collects(b)'
    <2>1. ASSUME NEW r \in DOMAIN list, list[r].owner = v, Active(r) PROVE r <= head[v]
      <3>1. ~IsNew(r)
        BY <1>4 DEF IsNew
      <3>2. ~(head[v] < r)
        BY <1>1, <2>1, <3>1 DEF SerialInv, Tops, Active
      <3>3. head[v] \in Nat /\ r \in Nat
        BY <1>1, RecordFacts
      <3>4. QED  BY <3>2, <3>3
    <2>2. \A r : Active(r)' <=> Active(r)
      BY <1>2 DEF Active
    <2>3. QED  BY <1>2, <2>1, <2>2 DEF Collects
  <1>7. CanDelete(b)'
    <2>1. DOMAIN <<>> = {}
      OBVIOUS
    <2>2. DOMAIN todo'[b] = {}
      BY <1>2, <1>3, <2>1
    <2>3. QED  BY <2>2 DEF CanDelete
  <1>8. QED  BY <1>5, <1>6, <1>7

\* An edge with a record that is not stamped can be deleted by the one whose
\* transaction is open, if its insertion was not rolled back.
LEMMA UnstampedIsFree ==
    ASSUME VertexInv, OneAtATime, NEW b \in Backend, xid[b] # NoXid, ~Walking(b),
           NEW r \in DOMAIN list, list[r].xmax = NoXid
    PROVE  \/ Replaceable(b, etup[list[r].edge])
           \/ DidAbort(xact, etup[list[r].edge].xmin)
  <1> DEFINE t == etup[list[r].edge]
  <1>1. TypeOK /\ ListInv /\ SerialInv /\ OpenXactsRun /\ RunningIsOpen
    BY DEF VertexInv, DeleteInv, SerialInv, ListInv
  <1>2. /\ list[r].edge \in Edge /\ t.xmin \in XidsOf(xact) /\ t.xmax \in XidsOf(xact)
        /\ t.xmin # NoXid
    BY <1>1, RecordFacts DEF SerialInv, RecordsBelong
  <1>3. ~Counts(t.xmax)
    <2>1. \A c \in Backend : ~Walking(c)
      BY <1>1, OthersIdle DEF Walking
    <2>2. ~DidAbort(xact, list[r].xmax)
      BY DEF DidAbort
    <2>3. QED  BY <2>1, <2>2 DEF VertexInv, DeleteInv, Unlinked, Counts
  <1>4. SUFFICES ASSUME ~DidAbort(xact, t.xmin) PROVE Replaceable(b, t)
    OBVIOUS
  <1>5. t.xmin = xid[b] \/ DidCommit(xact, t.xmin)
    BY <1>1, <1>2, <1>4, OwnOrEnded DEF Counts
  <1>6. xact[xid[b]] = "running"
    BY <1>1 DEF OpenXactsRun
  <1>7. t.xmax = NoXid \/ DidAbort(xact, t.xmax)
    BY <1>3 DEF Counts
  <1> HIDE DEF t
  <1>8. QED
    BY <1>2, <1>5, <1>6, <1>7 DEF Replaceable, MayReplace, TupleIsLive, TupleXmaxOther, IsOwn,
       InProgress, DidCommit, DidAbort

\* An edge with two records at one vertex is a loop.
LEMMA TwoRecordsAreOfALoop ==
    ASSUME SerialInv, NEW r \in DOMAIN list, NEW q \in DOMAIN list, r # q,
           list[r].edge = list[q].edge, list[r].owner = list[q].owner
    PROVE  IsLoop(list[r].edge)
  <1>1. list[r].dir \in {0, 1} /\ list[q].dir \in {0, 1}
    BY RecordFacts DEF SerialInv, ListInv, Directions
  <1>2. list[r].dir # list[q].dir
    BY DEF SerialInv, RecordedOnce
  <1>3. /\ list[r].owner = Endpoint(list[r].edge, list[r].dir)
        /\ list[q].owner = Endpoint(list[q].edge, list[q].dir)
    BY DEF SerialInv, RecordsBelong
  <1>4. QED  BY <1>1, <1>2, <1>3 DEF IsLoop, Endpoint

\* The record the walk is at is collected if it is active; no active record lies
\* between it and the next one.
LEMMA CollectOn ==
    ASSUME VertexInv, OneAtATime, NEW b \in Backend, Collect(b)
    PROVE  Deletes(b)' /\ Collects(b)' /\ CanDelete(b)'
  <1> DEFINE k == saved[b]
             f == list[k].edge
             n == Len(todo[b]) + 1
             v == doomed[b]
  <1>1. TypeOK /\ ListInv /\ SerialInv /\ Deletes(b) /\ Collects(b) /\ CanDelete(b)
    BY DEF VertexInv, DeleteInv, SerialInv, ListInv
  <1>2. /\ UNCHANGED <<xact, etup, list, xid, edge>> /\ doomed'[b] = v
        /\ pc[b] = "collect" /\ pc'[b] = "collect" /\ k # Nil
        /\ saved'[b] = list[k].next
        /\ todo'[b] = IF list[k].xmax = NoXid THEN Append(todo[b], f) ELSE todo[b]
    BY <1>1 DEF Collect, AtActiveEdge, tables, TypeOK
  <1>3. xid[b] # NoXid /\ ~Walking(b)
    BY <1>1, <1>2 DEF ListInv, Walking
  <1>4. /\ k \in DOMAIN list /\ list[k].owner = v /\ v \in Vertex /\ v # NoVertex
        /\ f \in Edge /\ k \in Nat /\ list[k].next \in Nat
    BY <1>1, <1>2, RecordFacts, EndpointsAssumption DEF Deletes, HangsOn
  <1>5. list[k].next < k
    BY <1>1, <1>2, <1>4 DEF ListInv, ListShape, Nil
  <1>6. /\ todo[b] \in Seq(Edge)
        /\ \A i \in DOMAIN todo[b] : i \in DOMAIN todo'[b] /\ todo'[b][i] = todo[b][i]
        /\ \A i \in DOMAIN todo'[b] : \/ i \in DOMAIN todo[b]
                                      \/ i = n /\ todo'[b][i] = f /\ list[k].xmax = NoXid
        /\ list[k].xmax = NoXid => n \in DOMAIN todo'[b] /\ todo'[b][n] = f
    <2>1. todo[b] \in Seq(Edge)
      BY <1>1 DEF TypeOK
    <2>2. /\ DOMAIN Append(todo[b], f) = DOMAIN todo[b] \cup {n}
          /\ Append(todo[b], f)[n] = f
          /\ \A i \in DOMAIN todo[b] : Append(todo[b], f)[i] = todo[b][i]
      BY <1>4, <2>1, AppendFacts
    <2> HIDE DEF n, f
    <2>3. QED  BY <1>2, <2>1, <2>2
  <1> HIDE DEF n, f
  <1>7. Deletes(b)'
    <2>1. list[k].next # Nil => list[k].next \in DOMAIN list /\ list[list[k].next].owner = v
      BY <1>1, <1>4 DEF ListInv, ListShape, HangsOn
    <2>2. QED  BY <1>2, <1>4, <2>1 DEF Deletes, HangsOn
  <1>8. Collects(b)'
    <2>1. ASSUME NEW r \in DOMAIN list, list[r].owner = v, Active(r)
          PROVE  r <= list[k].next \/ \E i \in DOMAIN todo'[b] : todo'[b][i] = list[r].edge
      <3>1. r \in Nat
        BY <1>1, RecordFacts
      <3>2. CASE IsTodo(b, list[r].edge)
        BY <1>6, <3>2 DEF IsTodo
      <3>3. CASE r = k
        BY <1>6, <2>1, <3>3 DEF Active, f
      <3>4. CASE r < k
        <4>1. ~(list[k].next < r)
          BY <1>1, <1>4, <2>1, <3>4 DEF SerialInv, Skips, Active
        <4>2. QED  BY <1>4, <3>1, <4>1
      <3>5. QED  BY <1>1, <1>3, <1>4, <2>1, <3>1, <3>2, <3>3, <3>4 DEF Collects
    <2>2. \A r : Active(r)' <=> Active(r)
      BY <1>2 DEF Active
    <2>3. QED  BY <1>2, <2>1, <2>2 DEF Collects, IsTodo
  <1>9. CanDelete(b)'
    <2>2. list[k].xmax = NoXid => CanGo(b, f)
      BY <1>3, <1>4, UnstampedIsFree DEF CanGo, f
    <2>3. \A i \in DOMAIN todo'[b] : CanGo(b, todo'[b][i])
      BY <1>1, <1>6, <2>2 DEF CanDelete
    <2>4. ASSUME NEW i \in DOMAIN todo[b], todo[b][i] = f PROVE IsLoop(f)
      <3>1. PICK r \in DOMAIN list : r > k /\ list[r].owner = v /\ list[r].edge = f
        BY <1>1, <1>2, <2>4 DEF CanDelete
      <3>2. r # k
        BY <1>4, <3>1
      <3>3. QED  BY <1>1, <1>4, <3>1, <3>2, TwoRecordsAreOfALoop DEF f
    <2>5. ASSUME NEW i \in DOMAIN todo'[b], NEW j \in DOMAIN todo'[b], i # j,
                 todo'[b][i] = todo'[b][j]
          PROVE  IsLoop(todo'[b][i])
      <3>1. CASE i \in DOMAIN todo[b] /\ j \in DOMAIN todo[b]
        BY <1>1, <1>6, <2>5, <3>1 DEF CanDelete
      <3>2. CASE i \notin DOMAIN todo[b]
        BY <1>6, <2>4, <2>5, <3>2
      <3>3. CASE j \notin DOMAIN todo[b]
        BY <1>6, <2>4, <2>5, <3>3
      <3>4. QED  BY <3>1, <3>2, <3>3
    <2>6. ASSUME NEW i \in DOMAIN todo'[b]
          PROVE  \E r \in DOMAIN list : /\ r > list[k].next
                                        /\ list[r].owner = v /\ list[r].edge = todo'[b][i]
      <3>1. CASE i \in DOMAIN todo[b]
        <4>1. PICK r \in DOMAIN list : r > k /\ list[r].owner = v /\ list[r].edge = todo[b][i]
          BY <1>1, <1>2, <3>1 DEF CanDelete
        <4>2. r \in Nat
          BY <1>1, RecordFacts
        <4>3. r > list[k].next
          BY <1>4, <1>5, <4>1, <4>2
        <4>4. QED  BY <1>6, <3>1, <4>1, <4>3
      <3>2. CASE i \notin DOMAIN todo[b]
        <4>1. k > list[k].next /\ todo'[b][i] = f
          BY <1>4, <1>5, <1>6, <3>2
        <4>2. QED  BY <1>4, <4>1 DEF f
      <3>3. QED  BY <3>1, <3>2
    <2>8. QED  BY <1>2, <2>3, <2>5, <2>6 DEF CanDelete, CanGo, Replaceable, IsLoop
  <1>10. QED  BY <1>7, <1>8, <1>9

LEMMA CollectOver ==
    ASSUME VertexInv, NEW b \in Backend, CollectEnds(b)
    PROVE  Deletes(b)' /\ Collects(b)' /\ CanDelete(b)'
  <1>1. TypeOK /\ Deletes(b) /\ Collects(b) /\ CanDelete(b)
    BY DEF VertexInv, DeleteInv, SerialInv, ListInv
  <1>2. /\ UNCHANGED <<xact, etup, list, xid, edge, doomed, todo>>
        /\ pc[b] = "collect" /\ pc'[b] = "cascade" /\ saved[b] = Nil
    BY <1>1 DEF CollectEnds, Goto, tables, frame, TypeOK
  <1>3. Deletes(b)'
    BY <1>1, <1>2 DEF Deletes
  <1>4. Collects(b)'
    <2>1. \A r \in DOMAIN list : ~(r <= saved[b])
      BY <1>1, <1>2, RecordFacts DEF Nil
    <2>2. \A r : Active(r)' <=> Active(r)
      BY <1>2 DEF Active
    <2>3. \A e : IsTodo(b, e)' <=> IsTodo(b, e)
      BY <1>2 DEF IsTodo
    <2>4. QED  BY <1>1, <1>2, <2>1, <2>2, <2>3 DEF Collects, Walking
  <1>5. CanDelete(b)'
    <2>1. \A e : CanGo(b, e)' <=> CanGo(b, e)
      BY <1>2 DEF CanGo, Replaceable
    <2>2. QED  BY <1>1, <1>2, <2>1 DEF CanDelete, IsLoop
  <1>6. QED  BY <1>3, <1>4, <1>5

\* The edge whose walks begin is off the list of what is left to do, unless it
\* is a loop.
LEMMA CascadeGoesOn ==
    ASSUME VertexInv, NEW b \in Backend, CascadeDelete(b)
    PROVE  Deletes(b)' /\ Collects(b)' /\ CanDelete(b)'
  <1> DEFINE e == Head(todo[b])
             rest == Tail(todo[b])
  <1>1. TypeOK /\ Deletes(b) /\ Collects(b) /\ CanDelete(b)
    BY DEF VertexInv, DeleteInv, SerialInv, ListInv
  <1>2. /\ UNCHANGED <<xact, list, xid, doomed>> /\ todo'[b] = rest /\ edge'[b] = e
        /\ pc[b] = "cascade" /\ pc'[b] = "startWalk" /\ StampEdge(b, e)
        /\ todo[b] \in Seq(Edge) /\ todo[b] # <<>>
    BY <1>1 DEF CascadeDelete, StampEdge, Goto, TypeOK
  <1>3. /\ e \in Edge /\ e = todo[b][1] /\ 1 \in DOMAIN todo[b]
        /\ \A i \in DOMAIN rest : i \in Nat /\ i + 1 \in DOMAIN todo[b] /\ rest[i] = todo[b][i + 1]
                                  /\ i + 1 # 1
        /\ \A j \in DOMAIN todo[b] : j # 1 => j - 1 \in DOMAIN rest /\ rest[j - 1] = todo[b][j]
    <2>1. /\ Len(todo[b]) \in Nat /\ Len(todo[b]) > 0 /\ DOMAIN todo[b] = 1 .. Len(todo[b])
          /\ e = todo[b][1] /\ rest \in Seq(Edge) /\ Len(rest) = Len(todo[b]) - 1
          /\ DOMAIN rest = 1 .. Len(rest)
          /\ \A i \in 1 .. Len(rest) : rest[i] = todo[b][i + 1]
      BY <1>2, HeadTailProperties, EmptySeq, LenProperties
    <2>2. e \in Edge
      BY <1>2, HeadTailProperties
    <2> HIDE DEF e, rest
    <2>3. \A i \in DOMAIN rest : i \in Nat /\ i + 1 \in DOMAIN todo[b] /\ i + 1 # 1
      BY <2>1
    <2>4. \A j \in DOMAIN todo[b] : j # 1 => j - 1 \in DOMAIN rest /\ (j - 1) + 1 = j
      BY <2>1
    <2>5. QED  BY <2>1, <2>2, <2>3, <2>4
  <1>4. \A f \in Edge : f # e => etup'[f] = etup[f]
    BY <1>1, <1>2, <1>3, StampEdgeFacts
  <1> HIDE DEF e, rest
  <1>5. Deletes(b)'
    BY <1>1, <1>2 DEF Deletes
  <1>6. Collects(b)'
    <2>1. ASSUME NEW r \in DOMAIN list, doomed[b] # NoVertex, list[r].owner = doomed[b], Active(r)
          PROVE  list[r].edge = e \/ \E i \in DOMAIN rest : rest[i] = list[r].edge
      <3>1. PICK j \in DOMAIN todo[b] : todo[b][j] = list[r].edge
        BY <1>1, <1>2, <2>1 DEF Collects, Walking, IsTodo
      <3>2. QED  BY <1>3, <3>1
    <2>2. \A r : Active(r)' <=> Active(r)
      BY <1>2 DEF Active
    <2>3. QED  BY <1>2, <2>1, <2>2 DEF Collects, IsTodo, Walking
  <1>7. CanDelete(b)'
    <2>1. ASSUME NEW i \in DOMAIN rest
          PROVE  rest[i] \in Edge /\ CanGo(b, rest[i]) /\ (rest[i] = e => IsLoop(e))
      <3>1. rest[i] = todo[b][i + 1] /\ i + 1 \in DOMAIN todo[b] /\ i + 1 # 1
        BY <1>3
      <3>2. todo[b][i + 1] \in Edge
        BY <1>2, <3>1, ElementOfSeq
      <3>3. rest[i] = e => IsLoop(e)
        BY <1>1, <1>3, <3>1 DEF CanDelete
      <3>4. QED  BY <1>1, <3>1, <3>2, <3>3 DEF CanDelete
    <2>2. \A i \in DOMAIN rest : \/ IsLoop(rest[i])
                                 \/ etup'[rest[i]] = etup[rest[i]] /\ CanGo(b, rest[i])
      BY <1>4, <2>1
    <2>3. ASSUME NEW i \in DOMAIN rest, NEW j \in DOMAIN rest, i # j, rest[i] = rest[j]
          PROVE  IsLoop(rest[i])
      <3>1. /\ rest[i] = todo[b][i + 1] /\ i + 1 \in DOMAIN todo[b]
            /\ rest[j] = todo[b][j + 1] /\ j + 1 \in DOMAIN todo[b]
            /\ i + 1 # j + 1
        BY <1>3, <2>3
      <3>2. QED  BY <1>1, <2>3, <3>1 DEF CanDelete
    <2>4. QED  BY <1>2, <2>2, <2>3 DEF CanDelete, CanGo, Replaceable, IsLoop
  <1>8. QED  BY <1>5, <1>6, <1>7

\* When the walks of an edge are over, it has no active record any more.
LEMMA CascadeWalks ==
    ASSUME UniqueIds, VertexInv, NEW b \in Backend,
           StartWalk(b) \/ WalkOn(b) \/ StampRecord(b) \/ WalkEnds(b)
    PROVE  Deletes(b)' /\ Collects(b)' /\ CanDelete(b)'
  <1>1. TypeOK /\ ListInv /\ DeleteInv /\ Deletes(b) /\ Collects(b) /\ CanDelete(b)
    BY DEF VertexInv, DeleteInv, SerialInv, ListInv
  <1>2. /\ UNCHANGED <<xact, etup, xid, edge, doomed, todo>> /\ Walking(b)
        /\ pc'[b] \in {"startWalk", "walk", "idle", "end", "cascade"}
        /\ doomed[b] = NoVertex => pc'[b] # "cascade"
        /\ doomed[b] # NoVertex => pc'[b] \in {"startWalk", "walk", "cascade"}
        /\ pc'[b] = "cascade" => dir[b] # 0 /\ (StampRecord(b) \/ WalkEnds(b))
    BY <1>1 DEF StartWalk, WalkOn, StampRecord, WalkEnds, NextList, Return, Goto, Walking, tables,
                TypeOK
  <1>3. CASE doomed[b] = NoVertex
    <2>1. todo[b] = <<>>
      BY <1>1, <1>3 DEF Deletes
    <2>2. QED  BY <1>2, <1>3, <2>1, NotDeleting
  <1>4. CASE doomed[b] # NoVertex
    <2>1. /\ DOMAIN list' = DOMAIN list
          /\ \A r \in DOMAIN list :
               /\ list'[r].owner = list[r].owner /\ list'[r].edge = list[r].edge
               /\ list'[r].xmin = list[r].xmin
               /\ list'[r].xmax = NoXid => list[r].xmax = NoXid
      <3>1. CASE StampRecord(b)
        <4>1. xid[b] # NoXid
          BY <1>1, <1>2, WalkedEdge
        <4>2. QED  BY <1>1, <3>1, <4>1, StampRecordFacts DEF SameRecords
      <3>2. CASE ~StampRecord(b)
        BY <3>2 DEF StartWalk, WalkOn, WalkEnds, tables
      <3>3. QED  BY <3>1, <3>2
    <2>2. pc'[b] = "cascade" => Open(edge[b])' = {}
      <3>1. pc'[b] = "cascade" => dir[b] = 1
        BY <1>1, <1>2 DEF TypeOK, Directions
      <3>2. QED  BY <1>1, <1>2, <3>1, WalkOver
    <2>3. Deletes(b)'
      BY <1>1, <1>2, <1>4 DEF Deletes, TypeOK
    <2>4. Collects(b)'
      <3>1. ASSUME NEW r \in DOMAIN list, list[r].owner = doomed[b], Active(r)'
            PROVE  IsTodo(b, list[r].edge) \/ (Walking(b)' /\ list[r].edge = edge[b])
        <4>1. Active(r)
          BY <1>2, <2>1, <3>1 DEF Active
        <4>2. IsTodo(b, list[r].edge) \/ list[r].edge = edge[b]
          BY <1>1, <1>2, <1>4, <3>1, <4>1 DEF Collects, Walking
        <4>3. list[r].edge = edge[b] => r \in Open(edge[b])'
          BY <1>2, <2>1, <3>1 DEF Open, Active
        <4>4. QED  BY <1>2, <1>4, <2>2, <4>2, <4>3 DEF Walking
      <3>2. QED  BY <1>2, <2>1, <3>1 DEF Collects, IsTodo
    <2>5. CanDelete(b)'
      BY <1>1, <1>2, <1>4 DEF CanDelete, CanGo, Replaceable, IsLoop
    <2>6. QED  BY <2>3, <2>4, <2>5
  <1>5. QED  BY <1>3, <1>4

\* A backend that is not in a vertex deletion, and does not start one.
LEMMA NoDeletionStep ==
    ASSUME VertexInv, NEW b \in Backend,
           pc[b] \in {"idle", "end"} \cup Inserting, pc'[b] \notin {"collect", "cascade"},
           doomed'[b] = doomed[b], todo'[b] = todo[b]
    PROVE  Deletes(b)' /\ Collects(b)' /\ CanDelete(b)'
    BY IdleDeletesNothing, NotDeleting

LEMMA DeletionStep ==
    ASSUME UniqueIds, VertexInv, OneAtATime, NEW b \in Backend,
           Begin(b) \/ Ends(b) \/ Call(b) \/ Continue(b)
    PROVE  Deletes(b)' /\ Collects(b)' /\ CanDelete(b)'
  <1>1. TypeOK /\ ListInv /\ Deletes(b)
    BY DEF VertexInv, DeleteInv, SerialInv, ListInv
  <1>2. CASE Begin(b)
    <2>1. pc[b] = "idle" /\ UNCHANGED <<pc, doomed, todo>>
      BY <1>2 DEF Begin, frame
    <2>2. QED  BY <2>1, NoDeletionStep
  <1>3. CASE Ends(b)
    <2>1. pc'[b] = "idle" /\ doomed'[b] = NoVertex /\ todo'[b] = <<>>
      BY <1>1, <1>3, EndsFacts DEF End, Goto, TypeOK
    <2>2. QED  BY <2>1, NotDeleting
  <1>4. CASE \E e \in Edge : InsertEdge(b, e) \/ DeleteEdge(b, e)
    <2>1. pc[b] = "idle" /\ pc'[b] \in {"readHead", "startWalk"} /\ UNCHANGED <<doomed, todo>>
      BY <1>1, <1>4 DEF InsertEdge, DeleteEdge, StampEdge, CanCall, Goto, TypeOK
    <2>2. QED  BY <2>1, NoDeletionStep
  <1>5. CASE ReadHead(b) \/ AppendRecord(b) \/ FixPrev(b) \/ SetHead(b)
    <2>1. /\ pc[b] \in Inserting /\ pc'[b] \notin {"collect", "cascade"}
          /\ UNCHANGED <<doomed, todo>>
      BY <1>1, <1>5 DEF ReadHead, AppendRecord, FixPrev, SetHead, Return, Goto, frame, Inserting,
                        TypeOK
    <2>2. QED  BY <2>1, NoDeletionStep
  <1>6. CASE StampVertex(b)
    <2>1. pc'[b] \in {"idle", "end"} /\ doomed'[b] = NoVertex /\ todo'[b] = <<>>
      BY <1>1, <1>6 DEF StampVertex, Return, Goto, TypeOK
    <2>2. QED  BY <2>1, NotDeleting
  <1>7. \/ Begin(b) \/ Ends(b) \/ \E e \in Edge : InsertEdge(b, e) \/ DeleteEdge(b, e)
        \/ \E v \in Vertex, cascade \in BOOLEAN : DeleteVertex(b, v, cascade)
        \/ ReadHead(b) \/ AppendRecord(b) \/ FixPrev(b) \/ SetHead(b)
        \/ StartWalk(b) \/ WalkOn(b) \/ StampRecord(b) \/ WalkEnds(b)
        \/ Collect(b) \/ CollectEnds(b) \/ CascadeDelete(b) \/ StampVertex(b)
    BY DEF Call, Continue, Ends
  <1>8. QED
    BY <1>2, <1>3, <1>4, <1>5, <1>6, <1>7, CollectFromHead, CollectOn, CollectOver, CascadeGoesOn,
       CascadeWalks

LEMMA VertexNext ==
    ASSUME UniqueIds, ~AnyId, VertexInv, OneAtATime, OneAtATime', [Next]_vars
    PROVE  VertexInv'
  <1>1. TypeOK /\ ListInv /\ OpenXactsRun /\ ListInv'
    BY NextStep DEF VertexInv, DeleteInv, SerialInv, ListInv
  <1>2. DeleteInv' /\ RunningIsOpen' /\ VerticesStand' /\ Fenced'
    BY <1>1, DeleteNext, RunningNext, FencedNext DEF VertexInv
  <1>3. CASE UNCHANGED vars
    <2>1. UNCHANGED <<xact, etup, list, xid, pc, edge, saved, doomed, todo>>
      BY <1>3 DEF vars, tables, frame
    <2>2. \A b \in Backend : Deletes(b)' /\ Collects(b)' /\ CanDelete(b)'
      BY <2>1 DEF VertexInv, Deletes, Collects, CanDelete, HangsOn, Active, IsTodo, Walking, CanGo,
                  Replaceable, IsLoop
    <2>3. QED  BY <1>2, <2>2 DEF VertexInv
  <1>4. ASSUME NEW b \in Backend, Begin(b) \/ Ends(b) \/ Call(b) \/ Continue(b) PROVE VertexInv'
    <2>1. \A c \in Backend : c # b => /\ pc'[c] = pc[c] /\ xid'[c] = xid[c]
                                      /\ doomed'[c] = doomed[c] /\ todo'[c] = todo[c]
      <3>1. CASE \E status : End(b, status)
        BY <1>1, <3>1 DEF End, Goto, TypeOK
      <3>2. CASE ~\E status : End(b, status)
        BY <1>1, <1>4, <3>2 DEF Begin, Ends, Call, Continue, Commit, Abort, Refuse, CascadeFails,
           DeleteEdgeFails, InsertEdge, DeleteEdge, StampEdge, DeleteVertex, ReadHead, AppendRecord,
           FixPrev, SetHead, StartWalk, StampRecord, WalkOn, WalkEnds, NextList, Collect,
           CollectEnds, CascadeDelete, StampVertex, Return, Goto, frame, TypeOK
      <3>3. QED  BY <3>1, <3>2
    <2>2. xid[b] # NoXid \/ xid'[b] # NoXid
      <3>1. CASE Begin(b)
        <4>1. xid'[b] = Len(xact) + 1 /\ Len(xact) \in Nat
          BY <1>1, <3>1 DEF Begin, TypeOK
        <4>2. QED  BY <4>1 DEF NoXid
      <3>2. CASE ~Begin(b)
        BY <1>1, <1>4, <3>2, EndsFacts DEF Call, Continue, CanCall, InsertEdge, DeleteEdge, Ends,
           DeleteVertex, ReadHead, AppendRecord, FixPrev, SetHead, StartWalk, StampRecord, WalkOn,
           WalkEnds, Collect, CollectEnds, CascadeDelete, StampVertex, ListInv
      <3>3. QED  BY <3>1, <3>2
    <2>3. \A c \in Backend : c # b => pc[c] = "idle"
      BY <1>1, <2>1, <2>2 DEF OneAtATime, ListInv
    <2>4. \A c \in Backend : c # b => Deletes(c)' /\ Collects(c)' /\ CanDelete(c)'
      BY <2>1, <2>3, NoDeletionStep
    <2>5. QED  BY <1>2, <1>4, <2>4, DeletionStep DEF VertexInv
  <1>5. QED  BY <1>3, <1>4 DEF Next, Ends

\* If ids are unique, calls name what the caller sees and transactions come one
\* at a time, delete_vertex leaves no edge without its vertices behind, refuses
\* only for edges that are there and is not stopped by its own cascade, save for
\* the marks of rolled-back deletions, rolled-back insertions and loops.
THEOREM DeletionAgreesIfOneAtATime ==
    UniqueIds /\ ~AnyId => (Spec /\ []OneAtATime => []DeletionAgrees)
  <1> SUFFICES ASSUME UniqueIds, ~AnyId PROVE Spec /\ []OneAtATime => []DeletionAgrees
    OBVIOUS
  <1>1. ASSUME VertexInv PROVE NoDanglingEdge
    <2> SUFFICES ASSUME NEW e \in Edge, Stands(etup[e]), NEW d \in Directions,
                        ~Stands(vtup[Endpoint(e, d)])
                 PROVE  \E r \in DOMAIN list : list[r].edge = e /\ DidAbort(xact, list[r].xmax)
      BY DEF NoDanglingEdge
    <2> DEFINE x == vtup[Endpoint(e, d)].xmax
    <2>1. Endpoint(e, d) \in Vertex
      BY EndpointsAssumption DEF Endpoint
    <2>2. DidCommit(xact, x)
      BY <1>1, <2>1 DEF VertexInv, VerticesStand, Stands, DidCommit, NoXid
    <2>3. Counts(x) /\ Counts(etup[e].xmin)
      BY <2>2 DEF Counts, Stands, DidCommit, DidAbort
    <2>4. ~DidCommit(xact, etup[e].xmax) /\ etup[e].xmax # x
      BY <2>2 DEF Stands
    <2>5. QED  BY <1>1, <2>3, <2>4 DEF VertexInv, Fenced
  <1>2. ASSUME VertexInv, OneAtATime PROVE RefusalIsJustified
    <2> SUFFICES ASSUME NEW b \in Backend, AtActiveEdge(b)
                 PROVE  \/ Live(b, etup[list[saved[b]].edge])
                        \/ DidAbort(xact, list[saved[b]].xmin)
      BY DEF RefusalIsJustified
    <2>1. ListInv /\ SerialInv /\ Deletes(b)
      BY <1>2 DEF VertexInv, DeleteInv, SerialInv
    <2>2. /\ pc[b] = "collect" /\ saved[b] # Nil /\ list[saved[b]].xmax = NoXid
          /\ saved[b] \in DOMAIN list /\ xid[b] # NoXid /\ ~Walking(b)
      BY <2>1 DEF AtActiveEdge, Deletes, HangsOn, ListInv, Walking
    <2>3. \/ Replaceable(b, etup[list[saved[b]].edge])
          \/ DidAbort(xact, etup[list[saved[b]].edge].xmin)
      BY <1>2, <2>2, UnstampedIsFree
    <2>4. QED  BY <2>1, <2>2, <2>3 DEF SerialInv, RecordsBelong, Replaceable, MayReplace, Live
  <1>3. ASSUME VertexInv PROVE CascadeCanDelete
    <2> SUFFICES ASSUME NEW b \in Backend, todo[b] # <<>>
                 PROVE  CanGo(b, Head(todo[b]))
      BY DEF CascadeCanDelete, CanGo, IsLoop
    <2>1. todo[b] \in Seq(Edge) /\ CanDelete(b)
      BY <1>3 DEF VertexInv, DeleteInv, SerialInv, ListInv, TypeOK
    <2>2. 1 \in DOMAIN todo[b] /\ Head(todo[b]) = todo[b][1]
      BY <2>1, HeadTailProperties, EmptySeq, LenProperties
    <2>3. QED  BY <2>1, <2>2 DEF CanDelete
  <1>4. VertexInv /\ OneAtATime => DeletionAgrees
    BY <1>1, <1>2, <1>3 DEF DeletionAgrees
  <1>5. VertexInv /\ OneAtATime /\ OneAtATime' /\ [Next]_vars => VertexInv'
    BY VertexNext
  <1>6. Init => VertexInv
    BY InitVertex
  <1>7. QED  BY <1>4, <1>5, <1>6, PTL DEF Spec
=============================================================================
