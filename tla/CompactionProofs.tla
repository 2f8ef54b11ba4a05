---------------------------- MODULE CompactionProofs ----------------------------
(***************************************************************************)
(* Types, the order of array blocks and the one active table, proved for   *)
(* every number of backends, vertices, entries, transactions and tables.   *)
(***************************************************************************)
EXTENDS Compaction, FiniteSetTheorems, SequenceTheorems, TLAPS

\* Transactions: one that is open runs and belongs to one backend.
XactsHeld ==
    \A b \in Backend :
        /\ pc[b] # "idle" => xid[b] # NoXid
        /\ xid[b] # NoXid => /\ xact[xid[b]] = "running"
                             /\ \A c \in Backend \ {b} : xid[c] # xid[b]

\* List records and array blocks.
Lists == {n \in DOMAIN node : TableOf(n) # ArrayList}
Arrays == {n \in DOMAIN node : TableOf(n) = ArrayList}

\* A job of a compaction: up is a list record, what is below it in the array list.
Job == [owner : Vertex, members : Seq(Member) \ {<<>>},
        up : {Nil} \cup Lists, down : {Nil} \cup Arrays, rest : {Nil} \cup Arrays]

Locals == [entry : Entry \cup {Nil}, tbl : 0 .. Len(maker), at : 0 .. Len(node),
           new : {Nil} \cup Lists, row : 0 .. Len(meta), batch : SUBSET Job,
           job : Job \cup {Nil}, then : {"", "return", "compact"}, ddl : BOOLEAN]

Inserting == {"readHead", "appendRecord", "fixPrev", "setHead"}
Compacting == {"scan", "merge", "rewrite", "wire", "findRow"}

\* What a step relies on is set when it is reached.
SetAt(b) ==
    LET l == loc[b] IN
        /\ pc[b] \in Inserting \cup {"startWalk", "walk"} => l.entry \in Entry
        /\ pc[b] \in Inserting \cup {"close", "addActive", "scan"} => l.tbl # ArrayList
        /\ pc[b] = "fixPrev" => l.at # Nil
        /\ pc[b] \in {"fixPrev", "setHead"} => l.new # Nil
        /\ pc[b] = "close" => l.row # Nil /\ meta[l.row].active
        /\ pc[b] = "mark" => l.row # Nil
        /\ pc[b] \in {"rewrite", "wire"} => l.job \in Job
        /\ pc[b] = "wire" => l.at \in Arrays
LocalsSet == \A b \in Backend : SetAt(b)

\* A record is preceded by a record.
RecordsFollow == \A n \in Lists : node[n].prev \in {Nil} \cup Lists

\* A metadata row is stamped by its own transaction or after it committed.
StampsFollow ==
    \A i \in DOMAIN meta : meta[i].xmax # NoXid =>
        meta[i].xmax = meta[i].xmin \/ DidCommit(xact, meta[i].xmin)

\* A running transaction that stamped a row has a row of the same table for it.
RowsStay ==
    \A b \in Backend, i \in DOMAIN meta : IsOwn(xid[b], meta[i].xmax) =>
        \E j \in DOMAIN meta : /\ meta[j].tbl = meta[i].tbl
                               /\ meta[j].xmin = xid[b] /\ meta[j].xmax # xid[b]

\* The table that is compacted has a row its backend sees.
RowsHeld == \A b \in Backend : pc[b] \in Compacting => RowsOf(b, loc[b].tbl) # {}

\* The active row everybody has, and those of a backend alone.
Base == {i \in DOMAIN meta : /\ meta[i].active /\ DidCommit(xact, meta[i].xmin)
                             /\ ~DidCommit(xact, meta[i].xmax)}
Own(b) == {i \in DOMAIN meta : /\ meta[i].active /\ IsOwn(xid[b], meta[i].xmin)
                               /\ ~IsOwn(xid[b], meta[i].xmax)}
Rotated(b) == \E i \in Base : IsOwn(xid[b], meta[i].xmax)

OneBase == \E i : Base = {i}
OwnReplaces ==
    \A b \in Backend :
        /\ pc[b] = "addActive" => Rotated(b)
        /\ IF Rotated(b) /\ pc[b] # "addActive" THEN \E i : Own(b) = {i} ELSE Own(b) = {}

LocalsOK == loc \in [Backend -> Locals] /\ LocalsSet
MetaInv == XactsHeld /\ StampsFollow /\ RowsStay /\ RowsHeld /\ OneBase /\ OwnReplaces
ListInv == LocalsOK /\ RecordsFollow /\ BlocksLeadDown
IInv == TypeOK /\ MetaInv /\ ListInv
-----------------------------------------------------------------------------
(* Sets of numbers.                                                         *)

Less == {p \in Nat \X Nat : p[1] < p[2]}

\* A set of naturals has a first element.
LEMMA LeastNat ==
    ASSUME NEW S \in SUBSET Nat, S # {}
    PROVE  FirstOf(S) \in S /\ \A m \in S : FirstOf(S) <= m
  <1>1. IsWellFoundedOn(Less, Nat)
    BY NatLessThanWellFounded DEF OpToRel, Less
  <1>2. PICK n \in S : \A m \in S : <<m, n>> \notin Less
    BY <1>1, WFMin
  <1>3. ASSUME NEW m \in S PROVE n <= m
    <2>1. m \in Nat /\ n \in Nat /\ (<<m, n>> \in Less <=> m < n)
      BY DEF Less
    <2>2. QED  BY <1>2, <2>1
  <1>4. QED  BY <1>3 DEF FirstOf

\* A set of numbers up to a bound has a last one.
LEMMA LastIsIn ==
    ASSUME NEW N \in Nat, NEW S \in SUBSET (1 .. N), S # {}
    PROVE  LastOf(S) \in S /\ \A m \in S : m <= LastOf(S)
  <1> DEFINE T == {N - n : n \in S}
  <1>1. T \in SUBSET Nat
    <2>1. \A n \in S : n \in 1 .. N
      OBVIOUS
    <2>2. \A n \in 1 .. N : N - n \in Nat
      OBVIOUS
    <2>3. QED  BY <2>1, <2>2
  <1>2. PICK n \in S : FirstOf(T) = N - n
    <2>1. T # {}
      OBVIOUS
    <2>2. FirstOf(T) \in T
      BY <1>1, <2>1, LeastNat
    <2>3. QED  BY <2>2
  <1>3. ASSUME NEW m \in S PROVE m <= n
    <2>1. N - m \in T
      OBVIOUS
    <2>2. FirstOf(T) <= N - m
      BY <1>1, <2>1, LeastNat
    <2>3. m \in 1 .. N /\ n \in 1 .. N
      OBVIOUS
    <2>4. QED  BY <1>2, <2>2, <2>3
  <1>4. QED  BY <1>3 DEF LastOf

\* The physical order of a set of nodes lists its members, each once.
LEMMA InOrderLists ==
    ASSUME NEW N \in Nat, NEW S \in SUBSET (1 .. N)
    PROVE  /\ IsFiniteSet(S) /\ Cardinality(S) \in Nat
           /\ InOrder(S) \in [1 .. Cardinality(S) -> S]
           /\ \A n \in S : \E i \in 1 .. Cardinality(S) : InOrder(S)[i] = n
           /\ \A i, k \in 1 .. Cardinality(S) : InOrder(S)[i] = InOrder(S)[k] => i = k
  <1> DEFINE Before(n) == {m \in S : m <= n}
             rank == [n \in S |-> Cardinality(Before(n))]
  <1>1. IsFiniteSet(S) /\ Cardinality(S) \in Nat
    <2>1. IsFiniteSet(1 .. N)
      BY FS_Interval
    <2>2. QED  BY <2>1, FS_Subset, FS_CardinalityType
  <1>2. \A n \in S : /\ Before(n) \in SUBSET S /\ IsFiniteSet(Before(n))
                     /\ Cardinality(Before(n)) \in 0 .. Cardinality(S)
    BY <1>1, FS_Subset, FS_CardinalityType
  <1>3. \A n \in S : Cardinality(Before(n)) # 0
    <2>1. \A n \in S : n \in Before(n)
      OBVIOUS
    <2>2. QED  BY <1>2, <2>1, FS_EmptySet
  <1>4. rank \in [S -> 1 .. Cardinality(S)]
    BY <1>1, <1>2, <1>3
  <1>5. \A m, n \in S : m < n => rank[m] # rank[n]
    <2>1. SUFFICES ASSUME NEW m \in S, NEW n \in S, m < n
                   PROVE  Cardinality(Before(m)) # Cardinality(Before(n))
      OBVIOUS
    <2>2. Before(m) \in SUBSET Before(n) /\ n \in Before(n) /\ n \notin Before(m)
      <3>1. m \in Int /\ n \in Int /\ \A k \in S : k \in Int
        OBVIOUS
      <3>2. \A k \in S : k <= m => k <= n
        BY <2>1, <3>1
      <3>3. n <= n /\ ~(n <= m)
        BY <2>1, <3>1
      <3>4. QED  BY <3>2, <3>3
    <2>3. QED  BY <1>2, <2>2, FS_Subset
  <1>6. rank \in Injection(S, 1 .. Cardinality(S))
    <2>1. \A m, n \in S : rank[m] = rank[n] => m = n
      BY <1>5
    <2>2. QED  BY <1>4, <2>1 DEF Injection, IsInjective
  <1>7. rank \in Surjection(S, 1 .. Cardinality(S))
    <2>1. IsFiniteSet(1 .. Cardinality(S)) /\ Cardinality(1 .. Cardinality(S)) = Cardinality(S)
      BY <1>1, FS_Interval
    <2>2. QED  BY <1>6, <2>1, FS_Injection
  <1>8. \A i \in 1 .. Cardinality(S) : \E n \in S : Cardinality({m \in S : m <= n}) = i
    BY <1>7 DEF Surjection
  <1>9. PICK f : f = InOrder(S)
    OBVIOUS
  <1>10. f = [i \in 1 .. Cardinality(S) |-> CHOOSE n \in S : Cardinality({m \in S : m <= n}) = i]
    BY <1>9 DEF InOrder
  <1>11. ASSUME NEW i \in 1 .. Cardinality(S) PROVE f[i] \in S /\ rank[f[i]] = i
    <2>1. f[i] = CHOOSE n \in S : Cardinality({m \in S : m <= n}) = i
      BY <1>10
    <2>2. f[i] \in S /\ Cardinality({m \in S : m <= f[i]}) = i
      BY <1>8, <2>1
    <2>3. QED  BY <2>2
  <1>12. \A m, n \in S : rank[m] = rank[n] => m = n
    BY <1>5
  <1> HIDE DEF rank
  <1>13. \A n \in S : rank[n] \in 1 .. Cardinality(S) /\ f[rank[n]] = n
    BY <1>4, <1>11, <1>12
  <1>14. f \in [1 .. Cardinality(S) -> S]
    BY <1>10, <1>11
  <1>15. \A i, k \in 1 .. Cardinality(S) : f[i] = f[k] => i = k
    BY <1>11
  <1>16. QED  BY <1>1, <1>9, <1>13, <1>14, <1>15

LEMMA InOrderIsIn ==
    ASSUME NEW N \in Nat, NEW S \in SUBSET (1 .. N)
    PROVE  /\ IsFiniteSet(S) /\ Cardinality(S) \in Nat
           /\ InOrder(S) \in [1 .. Cardinality(S) -> S]
  BY InOrderLists
-----------------------------------------------------------------------------
(* What a step of one backend leaves to the others.                         *)

SeqFacts ==
    /\ Len(xact) \in Nat /\ DOMAIN xact = 1 .. Len(xact)
    /\ Len(maker) \in Nat /\ DOMAIN maker = 1 .. Len(maker)
    /\ Len(meta) \in Nat /\ DOMAIN meta = 1 .. Len(meta)
    /\ Len(node) \in Nat /\ DOMAIN node = 1 .. Len(node)
    /\ \A i \in DOMAIN meta : meta[i] \in MetaRow
    /\ \A n \in DOMAIN node : node[n] \in Node
    /\ \A t \in DOMAIN maker : maker[t] \in DOMAIN xact

LEMMA Facts == TypeOK => SeqFacts
  <1> SUFFICES ASSUME TypeOK PROVE SeqFacts
    OBVIOUS
  <1>1. Len(xact) \in Nat /\ DOMAIN xact = 1 .. Len(xact)
    BY LenProperties DEF TypeOK
  <1>2. Len(maker) \in Nat /\ DOMAIN maker = 1 .. Len(maker)
    BY LenProperties DEF TypeOK
  <1>3. Len(meta) \in Nat /\ DOMAIN meta = 1 .. Len(meta)
    BY LenProperties DEF TypeOK
  <1>4. Len(node) \in Nat /\ DOMAIN node = 1 .. Len(node)
    BY LenProperties DEF TypeOK
  <1>5. \A i \in DOMAIN meta : meta[i] \in MetaRow
    BY <1>3, ElementOfSeq DEF TypeOK
  <1>6. \A n \in DOMAIN node : node[n] \in Node
    BY <1>4, ElementOfSeq DEF TypeOK
  <1>7. \A t \in DOMAIN maker : maker[t] \in DOMAIN xact
    BY <1>2, ElementOfSeq DEF TypeOK
  <1>8. QED  BY <1>1, <1>2, <1>3, <1>4, <1>5, <1>6, <1>7 DEF SeqFacts

LEMMA FactsNext == (TypeOK => SeqFacts)'
  BY Facts, PTL

\* Transactions, tables, rows and nodes are added; rows stay active, nodes stay
\* in their table.
Grows ==
    /\ XidsOf(xact) \subseteq XidsOf(xact')
    /\ Len(maker) <= Len(maker')
    /\ Len(meta) <= Len(meta') /\ \A i \in DOMAIN meta : meta'[i].active = meta[i].active
    /\ Len(node) <= Len(node') /\ \A n \in DOMAIN node : node'[n].tbl = node[n].tbl

Alone(b) ==
    /\ pc' = [pc EXCEPT ![b] = pc'[b]]
    /\ loc' = [loc EXCEPT ![b] = loc'[b]]

LEMMA LocalsGrow ==
    ASSUME TypeOK, TypeOK', Grows
    PROVE  /\ Lists \subseteq Lists' /\ Arrays \subseteq Arrays'
           /\ Job \subseteq Job' /\ Locals \subseteq Locals'
  <1>1. SeqFacts /\ SeqFacts'
    BY Facts, FactsNext
  <1>2. Lists \subseteq Lists' /\ Arrays \subseteq Arrays'
    BY <1>1 DEF Lists, Arrays, TableOf, Grows, SeqFacts
  <1>3. Seq(Member) \subseteq Seq(Member')
    <2>1. Member \subseteq Member'
      BY DEF Member, Grows
    <2>2. QED  BY <2>1, SeqMonotonic
  <1>4. Job \subseteq Job'
    BY <1>2, <1>3 DEF Job
  <1>5. /\ 0 .. Len(maker) \subseteq 0 .. Len(maker') /\ 0 .. Len(meta) \subseteq 0 .. Len(meta')
        /\ 0 .. Len(node) \subseteq 0 .. Len(node')
    BY <1>1 DEF Grows, SeqFacts
  <1>6. Locals \subseteq Locals'
    BY <1>2, <1>4, <1>5 DEF Locals
  <1>7. QED  BY <1>2, <1>4, <1>6

LEMMA LocalsKept ==
    ASSUME TypeOK, TypeOK', LocalsOK, Grows, NEW b \in Backend, Alone(b),
           loc'[b] \in Locals', SetAt(b)'
    PROVE  LocalsOK'
  <1>1. /\ Lists \subseteq Lists' /\ Arrays \subseteq Arrays'
        /\ Job \subseteq Job' /\ Locals \subseteq Locals'
    BY LocalsGrow
  <1>2. SeqFacts
    BY Facts
  <1>3. loc' \in [Backend -> Locals']
    BY <1>1 DEF LocalsOK, Alone
  <1>4. ASSUME NEW c \in Backend PROVE SetAt(c)'
    <2>1. CASE c = b
      BY <2>1
    <2>2. CASE c # b
      <3>1. loc'[c] = loc[c] /\ pc'[c] = pc[c] /\ loc[c] \in Locals
        BY <2>2 DEF Alone, LocalsOK, TypeOK
      <3>2. SetAt(c)
        BY DEF LocalsOK, LocalsSet
      <3>3. loc[c].row # Nil => meta'[loc[c].row].active = meta[loc[c].row].active
        <4>1. loc[c].row \in 0 .. Len(meta)
          BY <3>1 DEF Locals
        <4>2. QED  BY <1>2, <4>1 DEF Grows, SeqFacts, Nil
      <3>4. QED  BY <1>1, <3>1, <3>2, <3>3 DEF SetAt
    <2>3. QED  BY <2>1, <2>2
  <1>5. QED  BY <1>3, <1>4 DEF LocalsOK, LocalsSet

\* A step that neither writes the metadata nor ends a transaction.
LEMMA MetaKept ==
    ASSUME TypeOK, MetaInv, LocalsOK, UNCHANGED <<xact, xid, meta>>,
           NEW b \in Backend, Alone(b), xid[b] # NoXid,
           pc[b] # "addActive", pc'[b] # "addActive",
           pc'[b] \in Compacting => RowsOf(b, loc'[b].tbl) # {}
    PROVE  MetaInv'
  <1>1. \A c \in Backend : c # b => loc'[c] = loc[c] /\ pc'[c] = pc[c]
    BY DEF Alone, LocalsOK, TypeOK
  <1>2. Base' = Base /\ \A c \in Backend : Own(c)' = Own(c) /\ (Rotated(c)' <=> Rotated(c))
    BY DEF Base, Own, Rotated
  <1>3. XactsHeld' /\ StampsFollow' /\ RowsStay'
    BY <1>1 DEF MetaInv, XactsHeld, StampsFollow, RowsStay
  <1>4. RowsHeld'
    BY <1>1 DEF MetaInv, RowsHeld, RowsOf, VisibleRows
  <1>5. OneBase' /\ OwnReplaces'
    BY <1>1, <1>2 DEF MetaInv, OneBase, OwnReplaces
  <1>6. QED  BY <1>3, <1>4, <1>5 DEF MetaInv

\* So of most steps it is enough to show:
LEMMA StepKept ==
    ASSUME IInv, TypeOK', UNCHANGED <<xact, xid, meta>>, NEW b \in Backend, Alone(b),
           Len(maker) <= Len(maker'),
           Len(node) <= Len(node'), \A n \in DOMAIN node : node'[n].tbl = node[n].tbl,
           xid[b] # NoXid, pc[b] # "addActive", pc'[b] # "addActive",
           pc'[b] \in Compacting => RowsOf(b, loc'[b].tbl) # {},
           loc'[b] \in Locals', SetAt(b)', RecordsFollow', BlocksLeadDown'
    PROVE  IInv'
  <1>1. SeqFacts
    BY Facts DEF IInv
  <1>2. Grows
    BY <1>1 DEF Grows, SeqFacts
  <1>3. LocalsOK'
    BY <1>2, LocalsKept DEF IInv, ListInv
  <1>4. MetaInv'
    BY MetaKept DEF IInv, ListInv
  <1>5. QED  BY <1>3, <1>4 DEF IInv, ListInv
-----------------------------------------------------------------------------
(* The rows of the metadata a backend sees.                                 *)

LEMMA ActiveIsOwnOrBase ==
    ASSUME TypeOK, MetaInv, NEW b \in Backend
    PROVE  ActiveRows(b) = Own(b) \cup {i \in Base : ~IsOwn(xid[b], meta[i].xmax)}
    BY DEF ActiveRows, VisibleRows, TupleIsLive, Own, Base, IsOwn, MetaInv, XactsHeld, DidCommit

LEMMA OneActiveRow ==
    ASSUME TypeOK, MetaInv, NEW b \in Backend, pc[b] # "addActive"
    PROVE  \E i \in DOMAIN meta : /\ ActiveRows(b) = {i} /\ FirstOf(ActiveRows(b)) = i
                                  /\ meta[i].active
  <1>1. \E i : ActiveRows(b) = {i}
    <2>1. PICK a : Base = {a}
      BY DEF MetaInv, OneBase
    <2>2. CASE Rotated(b)
      <3>1. {i \in Base : ~IsOwn(xid[b], meta[i].xmax)} = {}
        BY <2>1, <2>2 DEF Rotated
      <3>2. PICK n : Own(b) = {n}
        BY <2>2 DEF MetaInv, OwnReplaces
      <3>3. QED  BY <3>1, <3>2, ActiveIsOwnOrBase
    <2>3. CASE ~Rotated(b)
      <3>1. {i \in Base : ~IsOwn(xid[b], meta[i].xmax)} = {a}
        BY <2>1, <2>3 DEF Rotated
      <3>2. Own(b) = {}
        BY <2>3 DEF MetaInv, OwnReplaces
      <3>3. QED  BY <3>1, <3>2, ActiveIsOwnOrBase
    <2>4. QED  BY <2>2, <2>3
  <1>2. PICK i : ActiveRows(b) = {i}
    BY <1>1
  <1>3. i \in DOMAIN meta /\ meta[i].active
    BY <1>2 DEF ActiveRows, VisibleRows
  <1>4. FirstOf({i}) = i
    <2>1. i \in Nat
      BY <1>3, Facts DEF SeqFacts
    <2>2. QED  BY <2>1 DEF FirstOf
  <1>5. QED  BY <1>2, <1>3, <1>4
-----------------------------------------------------------------------------
(* Steps that write neither lists nor metadata.                             *)

LEMMA QuietStep ==
    ASSUME IInv, UNCHANGED <<xact, xid, maker, meta, node, calm>>, NEW b \in Backend, Alone(b),
           etup' \in [Entry -> [xmin : XidsOf(xact), xmax : XidsOf(xact)]],
           head' \in [Vertex -> 0 .. Len(node)],
           pc'[b] \in Steps, loc'[b] \in Locals,
           xid[b] # NoXid, pc[b] # "addActive", pc'[b] # "addActive",
           pc'[b] \in Compacting => RowsOf(b, loc'[b].tbl) # {},
           SetAt(b)'
    PROVE  IInv'
  <1>1. SeqFacts
    BY Facts DEF IInv
  <1>2. pc' \in [Backend -> Steps]
    BY DEF IInv, TypeOK, Alone
  <1>3. TypeOK'
    <2>1. MetaRow' = MetaRow /\ Node' = Node
      BY DEF MetaRow, Node, Member
    <2>2. QED  BY <1>2, <2>1 DEF IInv, TypeOK
  <1>4. RecordsFollow' /\ BlocksLeadDown'
    BY DEF IInv, ListInv, RecordsFollow, BlocksLeadDown, Lists, TableOf
  <1>5. Locals' = Locals
    <2>1. Job' = Job /\ Lists' = Lists
      BY DEF Job, Member, Lists, Arrays, TableOf
    <2>2. QED  BY <2>1 DEF Locals
  <1>6. /\ Len(maker) <= Len(maker') /\ Len(node) <= Len(node')
        /\ \A n \in DOMAIN node : node'[n].tbl = node[n].tbl
        /\ loc'[b] \in Locals'
    BY <1>1, <1>5 DEF SeqFacts
  <1>7. QED  BY <1>3, <1>4, <1>6, StepKept

\* What is known of a backend in a call.
LEMMA AtStep ==
    ASSUME IInv, NEW b \in Backend
    PROVE  /\ loc \in [Backend -> Locals] /\ loc[b] \in Locals /\ pc \in [Backend -> Steps]
           /\ SetAt(b) /\ (pc[b] # "idle" => xid[b] # NoXid)
           /\ xid[b] \in XidsOf(xact) /\ SeqFacts
           /\ etup \in [Entry -> [xmin : XidsOf(xact), xmax : XidsOf(xact)]]
           /\ head \in [Vertex -> 0 .. Len(node)]
    BY Facts DEF IInv, ListInv, LocalsOK, LocalsSet, MetaInv, XactsHeld, TypeOK

\* A call has returned.
LEMMA Returned ==
    ASSUME IInv, NEW b \in Backend, Return(b)
    PROVE  Alone(b) /\ pc'[b] = "idle" /\ loc'[b] \in Locals /\ SetAt(b)'
  <1>1. /\ loc' = [loc EXCEPT ![b] = [NoLocals EXCEPT !.ddl = loc[b].ddl]]
        /\ pc' = [pc EXCEPT ![b] = "idle"]
    BY DEF Return, Goto
  <1>2. loc \in [Backend -> Locals] /\ pc \in [Backend -> Steps] /\ SeqFacts
    BY AtStep
  <1>3. [NoLocals EXCEPT !.ddl = loc[b].ddl] \in Locals
    <2>1. /\ Nil \in 0 .. Len(maker) /\ Nil \in 0 .. Len(meta) /\ Nil \in 0 .. Len(node)
          /\ {} \in SUBSET Job
      BY <1>2 DEF SeqFacts, Nil
    <2>2. loc[b].ddl \in BOOLEAN
      BY <1>2 DEF Locals
    <2>3. QED  BY <2>1, <2>2 DEF NoLocals, Locals
  <1>4. Alone(b) /\ pc'[b] = "idle" /\ loc'[b] \in Locals
    BY <1>1, <1>2, <1>3 DEF Alone
  <1>5. SetAt(b)'
    BY <1>4 DEF SetAt, Inserting
  <1>6. QED  BY <1>4, <1>5

LEMMA InsertStep ==
    ASSUME IInv, NEW b \in Backend, NEW e \in Entry, Insert(b, e) PROVE IInv'
  <1>1. /\ loc \in [Backend -> Locals] /\ loc[b] \in Locals /\ pc \in [Backend -> Steps]
        /\ xid[b] \in XidsOf(xact) /\ SeqFacts /\ xid[b] # NoXid /\ pc[b] = "idle"
        /\ etup \in [Entry -> [xmin : XidsOf(xact), xmax : XidsOf(xact)]]
        /\ head \in [Vertex -> 0 .. Len(node)]
    BY AtStep DEF Insert, CanCall
  <1> DEFINE t == meta[FirstOf(ActiveRows(b))].tbl
             l == [loc[b] EXCEPT !.entry = e, !.tbl = t]
  <1>2. t \in 0 .. Len(maker) /\ t # ArrayList
    <2>1. PICK i \in DOMAIN meta : FirstOf(ActiveRows(b)) = i
      BY <1>1, OneActiveRow DEF IInv
    <2>2. meta[i] \in MetaRow
      BY <1>1 DEF SeqFacts
    <2>3. QED  BY <1>1, <2>1, <2>2 DEF MetaRow, SeqFacts, ArrayList
  <1>3. /\ loc' = [loc EXCEPT ![b] = l] /\ pc' = [pc EXCEPT ![b] = "readHead"]
        /\ etup' = [etup EXCEPT ![e].xmin = xid[b]]
        /\ UNCHANGED <<xact, xid, maker, meta, node, head, calm>>
    BY <1>1 DEF Insert, Goto
  <1> HIDE DEF t
  <1>4. l \in Locals /\ l.entry = e /\ l.tbl = t
    BY <1>1, <1>2 DEF Locals
  <1>5. Alone(b) /\ loc'[b] = l /\ pc'[b] = "readHead"
    BY <1>1, <1>3 DEF Alone
  <1>6. etup' \in [Entry -> [xmin : XidsOf(xact), xmax : XidsOf(xact)]]
    BY <1>1, <1>3
  <1> HIDE DEF l
  <1>7. SetAt(b)'
    BY <1>2, <1>4, <1>5 DEF SetAt, Inserting
  <1>8. QED  BY <1>1, <1>3, <1>4, <1>5, <1>6, <1>7, QuietStep DEF Steps, Compacting

LEMMA ReadHeadStep ==
    ASSUME IInv, NEW b \in Backend, ReadHead(b) PROVE IInv'
  <1>1. /\ loc \in [Backend -> Locals] /\ loc[b] \in Locals /\ pc \in [Backend -> Steps]
        /\ SetAt(b) /\ xid[b] # NoXid /\ pc[b] = "readHead" /\ SeqFacts
        /\ etup \in [Entry -> [xmin : XidsOf(xact), xmax : XidsOf(xact)]]
        /\ head \in [Vertex -> 0 .. Len(node)]
    BY AtStep DEF ReadHead
  <1> DEFINE h == head[OwnerOf[loc[b].entry]]
             l == [loc[b] EXCEPT !.at = h]
  <1>2. loc[b].entry \in Entry /\ loc[b].tbl # ArrayList
    BY <1>1 DEF SetAt, Inserting
  <1>3. h \in 0 .. Len(node)
    BY <1>1, <1>2, CompactionAssumption
  <1>4. /\ loc' = [loc EXCEPT ![b] = l] /\ pc' = [pc EXCEPT ![b] = "appendRecord"]
        /\ UNCHANGED <<xact, xid, etup, maker, meta, node, head, calm>>
    BY <1>1 DEF ReadHead, Goto, data
  <1> HIDE DEF h
  <1>5. l \in Locals /\ l.entry = loc[b].entry /\ l.tbl = loc[b].tbl
    BY <1>1, <1>3 DEF Locals
  <1>6. Alone(b) /\ loc'[b] = l /\ pc'[b] = "appendRecord"
    BY <1>1, <1>4 DEF Alone
  <1> HIDE DEF l
  <1>7. SetAt(b)'
    BY <1>2, <1>5, <1>6 DEF SetAt, Inserting
  <1>8. QED  BY <1>1, <1>4, <1>5, <1>6, <1>7, QuietStep DEF Steps, Compacting

LEMMA SetHeadStep ==
    ASSUME IInv, NEW b \in Backend, SetHead(b) PROVE IInv'
  <1>1. /\ loc[b] \in Locals /\ SetAt(b) /\ xid[b] # NoXid /\ pc[b] = "setHead" /\ SeqFacts
        /\ etup \in [Entry -> [xmin : XidsOf(xact), xmax : XidsOf(xact)]]
        /\ head \in [Vertex -> 0 .. Len(node)]
    BY AtStep DEF SetHead
  <1>2. /\ Return(b) /\ UNCHANGED <<xact, xid, etup, maker, meta, node, calm>>
        /\ head' = [head EXCEPT ![OwnerOf[loc[b].entry]] = loc[b].new]
    BY DEF SetHead
  <1>3. loc[b].new \in 0 .. Len(node)
    <2>1. loc[b].new \in {Nil} \cup Lists
      BY <1>1 DEF Locals
    <2>2. QED  BY <1>1, <2>1 DEF Lists, SeqFacts, Nil
  <1>4. head' \in [Vertex -> 0 .. Len(node)]
    BY <1>1, <1>2, <1>3
  <1>5. Alone(b) /\ pc'[b] = "idle" /\ loc'[b] \in Locals /\ SetAt(b)'
    BY <1>2, Returned
  <1>6. QED  BY <1>1, <1>2, <1>4, <1>5, QuietStep DEF Steps, Compacting

LEMMA DeleteStep ==
    ASSUME IInv, NEW b \in Backend, NEW e \in Entry, Delete(b, e) PROVE IInv'
  <1>1. /\ loc \in [Backend -> Locals] /\ loc[b] \in Locals /\ pc \in [Backend -> Steps]
        /\ xid[b] \in XidsOf(xact) /\ xid[b] # NoXid /\ pc[b] = "idle"
        /\ etup \in [Entry -> [xmin : XidsOf(xact), xmax : XidsOf(xact)]]
        /\ head \in [Vertex -> 0 .. Len(node)]
    BY AtStep DEF Delete, CanCall
  <1> DEFINE l == [loc[b] EXCEPT !.entry = e]
  <1>2. /\ loc' = [loc EXCEPT ![b] = l] /\ pc' = [pc EXCEPT ![b] = "startWalk"]
        /\ etup' = [etup EXCEPT ![e].xmax = xid[b]]
        /\ UNCHANGED <<xact, xid, maker, meta, node, head, calm>>
    BY <1>1 DEF Delete, Goto
  <1>3. l \in Locals /\ l.entry = e
    BY <1>1 DEF Locals
  <1>4. Alone(b) /\ loc'[b] = l /\ pc'[b] = "startWalk"
    BY <1>1, <1>2 DEF Alone
  <1>5. etup' \in [Entry -> [xmin : XidsOf(xact), xmax : XidsOf(xact)]]
    BY <1>1, <1>2
  <1> HIDE DEF l
  <1>6. SetAt(b)'
    BY <1>3, <1>4 DEF SetAt, Inserting
  <1>7. QED  BY <1>1, <1>2, <1>3, <1>4, <1>5, <1>6, QuietStep DEF Steps, Compacting

LEMMA WalkStep ==
    ASSUME IInv, NEW b \in Backend, StartWalk(b) \/ WalkOn(b) PROVE IInv'
  <1>1. /\ loc \in [Backend -> Locals] /\ loc[b] \in Locals /\ pc \in [Backend -> Steps]
        /\ SetAt(b) /\ xid[b] # NoXid /\ pc[b] \in {"startWalk", "walk"} /\ SeqFacts
        /\ etup \in [Entry -> [xmin : XidsOf(xact), xmax : XidsOf(xact)]]
        /\ head \in [Vertex -> 0 .. Len(node)]
    BY AtStep DEF StartWalk, WalkOn
  <1>2. loc[b].entry \in Entry /\ loc[b].at \in 0 .. Len(node)
    BY <1>1 DEF SetAt, Locals
  <1>3. PICK n \in 0 .. Len(node) : loc' = [loc EXCEPT ![b].at = n]
    <2>1. CASE StartWalk(b)
      BY <1>1, <1>2, <2>1, CompactionAssumption DEF StartWalk
    <2>2. CASE WalkOn(b)
      <3>1. loc[b].at \in DOMAIN node
        BY <1>1, <1>2, <2>2 DEF WalkOn, SeqFacts, Nil
      <3>2. node[loc[b].at].next \in 0 .. Len(node)
        BY <1>1, <3>1 DEF SeqFacts, Node
      <3>3. QED  BY <2>2, <3>2 DEF WalkOn
    <2>3. QED  BY <2>1, <2>2
  <1> DEFINE l == [loc[b] EXCEPT !.at = n]
  <1>4. /\ loc' = [loc EXCEPT ![b] = l] /\ pc' = [pc EXCEPT ![b] = "walk"]
        /\ UNCHANGED <<xact, xid, etup, maker, meta, node, head, calm>>
    BY <1>1, <1>3 DEF StartWalk, WalkOn, Goto, data
  <1>5. l \in Locals /\ l.entry = loc[b].entry
    BY <1>1 DEF Locals
  <1>6. Alone(b) /\ loc'[b] = l /\ pc'[b] = "walk"
    BY <1>1, <1>4 DEF Alone
  <1> HIDE DEF l
  <1>7. SetAt(b)'
    BY <1>2, <1>5, <1>6 DEF SetAt, Inserting
  <1>8. QED  BY <1>1, <1>4, <1>5, <1>6, <1>7, QuietStep DEF Steps, Compacting

LEMMA WalkEndsStep ==
    ASSUME IInv, NEW b \in Backend, WalkEnds(b) PROVE IInv'
  <1>1. /\ xid[b] # NoXid /\ pc[b] = "walk"
        /\ etup \in [Entry -> [xmin : XidsOf(xact), xmax : XidsOf(xact)]]
        /\ head \in [Vertex -> 0 .. Len(node)]
    BY AtStep DEF WalkEnds
  <1>2. Return(b) /\ UNCHANGED <<xact, xid, etup, maker, meta, node, head, calm>>
    BY DEF WalkEnds, data
  <1>3. Alone(b) /\ pc'[b] = "idle" /\ loc'[b] \in Locals /\ SetAt(b)'
    BY <1>2, Returned
  <1>4. QED  BY <1>1, <1>2, <1>3, QuietStep DEF Steps, Compacting

\* The oldest closed table is one the backend sees a row of.
LEMMA PickStep ==
    ASSUME IInv, NEW b \in Backend, PickOldest(b), pc[b] # "addActive", xid[b] # NoXid
    PROVE  IInv'
  <1>1. /\ loc \in [Backend -> Locals] /\ loc[b] \in Locals /\ pc \in [Backend -> Steps] /\ SeqFacts
        /\ etup \in [Entry -> [xmin : XidsOf(xact), xmax : XidsOf(xact)]]
        /\ head \in [Vertex -> 0 .. Len(node)]
    BY AtStep
  <1> DEFINE t == FirstOf(Closed(b))
             l == [loc[b] EXCEPT !.tbl = t, !.ddl = TRUE]
  <1>2. \A i \in DOMAIN meta : meta[i].tbl \in DOMAIN maker
    BY <1>1 DEF SeqFacts, MetaRow
  <1>3. Closed(b) \in SUBSET Nat /\ Closed(b) # {}
    <2>1. \A m \in DOMAIN maker : m \in Nat
      BY <1>1 DEF SeqFacts
    <2>2. QED  BY <1>2, <2>1 DEF Closed, VisibleRows, PickOldest
  <1>4. t \in Closed(b)
    BY <1>3, LeastNat
  <1> HIDE DEF t
  <1>5. t \in 0 .. Len(maker) /\ t # ArrayList /\ RowsOf(b, t) # {}
    BY <1>1, <1>2, <1>4 DEF Closed, RowsOf, VisibleRows, SeqFacts, ArrayList
  <1>6. /\ loc' = [loc EXCEPT ![b] = l] /\ pc' = [pc EXCEPT ![b] = "scan"]
        /\ UNCHANGED <<xact, xid, etup, maker, meta, node, head, calm>>
    BY <1>1 DEF PickOldest, Goto, data, t
  <1>7. l \in Locals /\ l.tbl = t
    BY <1>1, <1>5 DEF Locals
  <1>8. Alone(b) /\ loc'[b] = l /\ pc'[b] = "scan"
    BY <1>1, <1>6 DEF Alone
  <1> HIDE DEF l
  <1>9. SetAt(b)'
    BY <1>5, <1>7, <1>8 DEF SetAt, Inserting
  <1>10. QED  BY <1>1, <1>5, <1>6, <1>7, <1>8, <1>9, QuietStep DEF Steps, Compacting

LEMMA FindRowStep ==
    ASSUME IInv, NEW b \in Backend, FindRow(b) PROVE IInv'
  <1>1. /\ loc \in [Backend -> Locals] /\ loc[b] \in Locals /\ pc \in [Backend -> Steps]
        /\ xid[b] # NoXid /\ pc[b] = "findRow" /\ SeqFacts
        /\ etup \in [Entry -> [xmin : XidsOf(xact), xmax : XidsOf(xact)]]
        /\ head \in [Vertex -> 0 .. Len(node)]
    BY AtStep DEF FindRow
  <1> DEFINE r == FirstOf(RowsOf(b, loc[b].tbl))
             l == [loc[b] EXCEPT !.row = r]
  <1>2. RowsOf(b, loc[b].tbl) \in SUBSET (DOMAIN meta) /\ RowsOf(b, loc[b].tbl) # {}
    BY <1>1 DEF IInv, MetaInv, RowsHeld, Compacting, RowsOf, VisibleRows
  <1>3. r \in DOMAIN meta
    BY <1>1, <1>2, LeastNat DEF SeqFacts
  <1>4. /\ loc' = [loc EXCEPT ![b] = l] /\ pc' = [pc EXCEPT ![b] = "mark"]
        /\ UNCHANGED <<xact, xid, etup, maker, meta, node, head, calm>>
    BY <1>1 DEF FindRow, Goto, data
  <1> HIDE DEF r
  <1>5. r \in 0 .. Len(meta) /\ r # Nil
    BY <1>1, <1>3 DEF SeqFacts, Nil
  <1>6. l \in Locals /\ l.row = r
    BY <1>1, <1>5 DEF Locals
  <1>7. Alone(b) /\ loc'[b] = l /\ pc'[b] = "mark"
    BY <1>1, <1>4 DEF Alone
  <1> HIDE DEF l
  <1>8. SetAt(b)'
    BY <1>5, <1>6, <1>7 DEF SetAt, Inserting
  <1>9. QED  BY <1>1, <1>4, <1>6, <1>7, <1>8, QuietStep DEF Steps, Compacting
-----------------------------------------------------------------------------
(* What a compaction gathers, merges and writes.                            *)

LEMMA SomeMembers ==
    ASSUME NEW k \in Nat, k # 0, NEW T, NEW f \in [1 .. k -> T]
    PROVE  f \in Seq(T) \ {<<>>}
  <1>1. f \in Seq(T) /\ DOMAIN f = 1 .. k /\ 1 \in DOMAIN f
    BY IsASeq
  <1>2. QED  BY <1>1

LEMMA GatheredIsJob ==
    ASSUME TypeOK, RecordsFollow, NEW t, t # ArrayList, LeadsIntoArray(t),
           NEW m \in DOMAIN node, TableOf(m) = t
    PROVE  Gathered(node[m].owner, t) \in Job
  <1> DEFINE v == node[m].owner
             R == RecordsOf(v, t)
  <1>1. SeqFacts
    BY Facts
  <1>2. m \in R /\ R \in SUBSET (1 .. Len(node)) /\ R \subseteq Lists
    BY <1>1 DEF RecordsOf, SeqFacts, Lists, TableOf
  <1>3. \A n \in R : node[n] \in Node
    BY <1>1, <1>2 DEF SeqFacts
  <1> HIDE DEF R
  <1>4. /\ IsFiniteSet(R) /\ Cardinality(R) \in Nat
        /\ InOrder(R) \in [1 .. Cardinality(R) -> R]
    BY <1>1, <1>2, InOrderIsIn DEF SeqFacts
  <1>5. Cardinality(R) # 0
    BY <1>2, <1>4, FS_EmptySet
  <1> DEFINE f == [i \in 1 .. Cardinality(R) |-> node[InOrder(R)[i]].members[1]]
  <1>6. f \in Seq(Member) \ {<<>>}
    <2>1. \A n \in R : node[n].members[1] \in Member
      <3>1. SUFFICES ASSUME NEW n \in R PROVE node[n].members[1] \in Member
        OBVIOUS
      <3>2. node[n].members \in Seq(Member) /\ node[n].members # <<>>
        BY <1>3 DEF Node
      <3>3. QED  BY <3>2
    <2>2. f \in [1 .. Cardinality(R) -> Member]
      BY <1>4, <2>1
    <2>3. QED  BY <1>4, <1>5, <2>2, SomeMembers
  <1>7. Up(R, t) \in {Nil} \cup Lists
    <2> DEFINE out == {n \in R : node[n].prev = Nil \/ Leaves(node[n].prev, t)}
    <2>1. out \in SUBSET (1 .. Len(node)) /\ out \subseteq R
      BY <1>2
    <2>2. CASE out = {}
      BY <2>2 DEF Up
    <2>3. CASE out # {}
      <3>1. LastOf(out) \in R
        BY <1>1, <2>1, <2>3, LastIsIn DEF SeqFacts
      <3>2. node[LastOf(out)].prev \in {Nil} \cup Lists
        BY <1>2, <3>1 DEF RecordsFollow
      <3>3. QED  BY <2>3, <3>2 DEF Up
    <2>4. QED  BY <2>2, <2>3
  <1>8. Down(R, t) \in {Nil} \cup Arrays
    <2> DEFINE out == {n \in R : Leaves(node[n].next, t)}
    <2>1. out \in SUBSET (1 .. Len(node)) /\ out \subseteq R
      BY <1>2
    <2>2. CASE out = {}
      BY <2>2 DEF Down
    <2>3. CASE out # {}
      <3>1. LastOf(out) \in out
        BY <1>1, <2>1, <2>3, LastIsIn DEF SeqFacts
      <3>2. PICK n \in R : n = LastOf(out) /\ Leaves(node[n].next, t)
        BY <3>1
      <3>3. n \in DOMAIN node /\ TableOf(n) = t
        BY <1>2, <3>2, <1>1 DEF R, RecordsOf, TableOf
      <3>4. TableOf(node[n].next) = ArrayList
        BY <3>2, <3>3 DEF LeadsIntoArray
      <3>5. node[n].next \in DOMAIN node
        BY <1>1, <1>3, <3>2 DEF Node, Leaves, SeqFacts, Nil
      <3>6. node[LastOf(out)].next \in Arrays
        BY <3>2, <3>4, <3>5 DEF Arrays
      <3>7. QED  BY <2>3, <3>6 DEF Down
    <2>4. QED  BY <2>2, <2>3
  <1>9. v \in Vertex
    BY <1>1 DEF SeqFacts, Node
  <1>10. Gathered(v, t) = [owner |-> v, members |-> f, up |-> Up(R, t), down |-> Down(R, t),
                           rest |-> Nil]
    BY DEF Gathered, R
  <1> HIDE DEF f, v
  <1>11. Gathered(v, t) \in Job
    BY <1>6, <1>7, <1>8, <1>9, <1>10 DEF Job
  <1>12. QED  BY <1>11 DEF v

LEMMA ScanStep ==
    ASSUME IInv, NEW b \in Backend, Scan(b) PROVE IInv'
  <1>1. /\ loc \in [Backend -> Locals] /\ loc[b] \in Locals /\ pc \in [Backend -> Steps]
        /\ SetAt(b) /\ xid[b] # NoXid /\ pc[b] = "scan" /\ SeqFacts
        /\ etup \in [Entry -> [xmin : XidsOf(xact), xmax : XidsOf(xact)]]
        /\ head \in [Vertex -> 0 .. Len(node)]
    BY AtStep DEF Scan
  <1> DEFINE t == loc[b].tbl
             V == {node[n].owner : n \in {k \in DOMAIN node : TableOf(k) = t}}
             B == {Gathered(v, t) : v \in V}
             l == [loc[b] EXCEPT !.batch = B]
             s == IF V = {} THEN "findRow" ELSE "merge"
  <1>2. t # ArrayList
    BY <1>1 DEF SetAt
  <1>3. B \subseteq Job
    <2>1. LeadsIntoArray(t) /\ TypeOK /\ RecordsFollow
      BY DEF Scan, IInv, ListInv
    <2>2. QED  BY <1>2, <2>1, GatheredIsJob
  <1>4. /\ loc' = [loc EXCEPT ![b] = l] /\ pc' = [pc EXCEPT ![b] = s]
        /\ UNCHANGED <<xact, xid, etup, maker, meta, node, head, calm>>
    BY <1>1 DEF Scan, Goto, data
  <1>5. RowsOf(b, t) # {}
    BY <1>1 DEF IInv, MetaInv, RowsHeld, Compacting
  <1> HIDE DEF B
  <1>6. l \in Locals /\ l.tbl = loc[b].tbl
    BY <1>1, <1>3 DEF Locals
  <1>7. Alone(b) /\ loc'[b] = l /\ pc'[b] = s /\ s \in {"findRow", "merge"}
    BY <1>1, <1>4 DEF Alone
  <1> HIDE DEF l, s
  <1>8. SetAt(b)'
    BY <1>7 DEF SetAt, Inserting
  <1>9. QED  BY <1>1, <1>4, <1>5, <1>6, <1>7, <1>8, QuietStep DEF Steps, Compacting

LEMMA MergeStep ==
    ASSUME IInv, NEW b \in Backend, Merge(b) PROVE IInv'
  <1>1. /\ loc \in [Backend -> Locals] /\ loc[b] \in Locals /\ pc \in [Backend -> Steps]
        /\ xid[b] # NoXid /\ pc[b] = "merge" /\ SeqFacts
        /\ etup \in [Entry -> [xmin : XidsOf(xact), xmax : XidsOf(xact)]]
        /\ head \in [Vertex -> 0 .. Len(node)]
    BY AtStep DEF Merge
  <1>2. PICK j \in loc[b].batch :
           loc' = [loc EXCEPT
              ![b].batch = @ \ {j},
              ![b].job = IF j.down = Nil THEN j
                         ELSE [j EXCEPT !.members = @ \o node[j.down].members,
                                        !.rest = node[j.down].next]]
    BY DEF Merge
  <1> DEFINE B == loc[b].batch \ {j}
             k == IF j.down = Nil THEN j
                  ELSE [j EXCEPT !.members = @ \o node[j.down].members,
                                 !.rest = node[j.down].next]
             l == [loc[b] EXCEPT !.batch = B, !.job = k]
  <1>3. loc[b].batch \subseteq Job /\ j \in Job
    BY <1>1 DEF Locals
  <1>4. k \in Job
    <2>1. CASE j.down = Nil
      BY <1>3, <2>1
    <2>2. CASE j.down # Nil
      <3>1. j.down \in Arrays /\ j.down \in DOMAIN node
        BY <1>3, <2>2 DEF Job, Arrays
      <3>2. node[j.down] \in Node
        BY <1>1, <3>1 DEF SeqFacts
      <3>3. node[j.down].members \in Seq(Member) \ {<<>>} /\ j.members \in Seq(Member) \ {<<>>}
        BY <1>3, <3>2 DEF Node, Job
      <3>4. j.members \o node[j.down].members \in Seq(Member) \ {<<>>}
        BY <3>3
      <3>5. node[j.down].next \in {Nil} \cup Arrays
        <4>1. node[j.down].next \in 0 .. Len(node)
          BY <3>2 DEF Node
        <4>2. node[j.down].next # Nil => TableOf(node[j.down].next) = ArrayList
          BY <3>1 DEF IInv, ListInv, BlocksLeadDown, Arrays
        <4>3. QED  BY <1>1, <4>1, <4>2 DEF SeqFacts, Arrays, Nil
      <3>6. k = [j EXCEPT !.members = j.members \o node[j.down].members,
                          !.rest = node[j.down].next]
        BY <1>3, <2>2 DEF Job
      <3> HIDE DEF k
      <3>7. QED  BY <1>3, <3>4, <3>5, <3>6 DEF Job
    <2>3. QED  BY <2>1, <2>2
  <1>5. /\ loc' = [loc EXCEPT ![b] = l] /\ pc' = [pc EXCEPT ![b] = "rewrite"]
        /\ UNCHANGED <<xact, xid, etup, maker, meta, node, head, calm>>
    BY <1>1, <1>2 DEF Merge, Goto, data
  <1>6. RowsOf(b, loc[b].tbl) # {}
    BY <1>1 DEF IInv, MetaInv, RowsHeld, Compacting
  <1> HIDE DEF k
  <1>7. B \subseteq Job
    BY <1>3
  <1> HIDE DEF B
  <1>8. l \in Locals /\ l.tbl = loc[b].tbl /\ l.job = k
    BY <1>1, <1>4, <1>7 DEF Locals
  <1>9. Alone(b) /\ loc'[b] = l /\ pc'[b] = "rewrite"
    BY <1>1, <1>5 DEF Alone
  <1> HIDE DEF l
  <1>10. SetAt(b)'
    <2>1. Job' = Job
      BY <1>5 DEF Job, Member, Lists, Arrays, TableOf
    <2>2. QED  BY <1>4, <1>8, <1>9, <2>1 DEF SetAt, Inserting
  <1>11. QED  BY <1>1, <1>5, <1>6, <1>8, <1>9, <1>10, QuietStep DEF Steps, Compacting
-----------------------------------------------------------------------------
(* Steps that write lists.                                                  *)

LEMMA ListStep ==
    ASSUME IInv, UNCHANGED <<xact, xid, etup, maker, meta, calm>>, NEW b \in Backend, Alone(b),
           node' \in Seq(Node'), Len(node) <= Len(node'),
           \A n \in DOMAIN node : node'[n].tbl = node[n].tbl,
           head' \in [Vertex -> 0 .. Len(node')],
           xid[b] # NoXid, pc[b] # "addActive", pc'[b] # "addActive", pc'[b] \in Steps,
           pc'[b] \in Compacting => RowsOf(b, loc'[b].tbl) # {},
           loc'[b] \in Locals', SetAt(b)', RecordsFollow', BlocksLeadDown'
    PROVE  IInv'
  <1>1. SeqFacts
    BY Facts DEF IInv
  <1>2. pc' \in [Backend -> Steps]
    BY DEF IInv, TypeOK, Alone
  <1>3. TypeOK'
    <2>1. MetaRow' = MetaRow
      BY DEF MetaRow
    <2>2. QED  BY <1>2, <2>1 DEF IInv, TypeOK
  <1>4. Len(maker) <= Len(maker')
    BY <1>1 DEF SeqFacts
  <1>5. QED  BY <1>3, <1>4, StepKept

LEMMA AppendRecordStep ==
    ASSUME IInv, NEW b \in Backend, AppendRecord(b) PROVE IInv'
  <1>1. /\ loc \in [Backend -> Locals] /\ loc[b] \in Locals /\ pc \in [Backend -> Steps]
        /\ xid[b] \in XidsOf(xact) /\ SetAt(b) /\ xid[b] # NoXid /\ pc[b] = "appendRecord" /\ SeqFacts
        /\ head \in [Vertex -> 0 .. Len(node)]
    BY AtStep DEF AppendRecord
  <1>2. loc[b].entry \in Entry /\ loc[b].tbl # ArrayList /\ loc[b].tbl \in 0 .. Len(maker)
        /\ loc[b].at \in 0 .. Len(node)
    BY <1>1 DEF SetAt, Inserting, Locals
  <1> DEFINE r == Record(b)
             l == [loc[b] EXCEPT !.new = Len(node) + 1]
             s == IF loc[b].at = Nil THEN "setHead" ELSE "fixPrev"
  <1>3. /\ node' = Append(node, r) /\ node \in Seq(Node)
        /\ loc' = [loc EXCEPT ![b] = l] /\ pc' = [pc EXCEPT ![b] = s]
        /\ UNCHANGED <<xact, xid, etup, maker, meta, head, calm>>
    BY <1>1 DEF AppendRecord, Goto, IInv, TypeOK
  <1>4. /\ r.tbl = loc[b].tbl /\ r.prev = Nil
        /\ r \in [tbl : 0 .. Len(maker), owner : Vertex, members : Seq(Member) \ {<<>>},
                  next : 0 .. Len(node), prev : {Nil}, xmax : XidsOf(xact)]
    <2>1. [entry |-> loc[b].entry, xmin |-> xid[b], xmax |-> NoXid] \in Member
      BY <1>1, <1>2 DEF Member, XidsOf
    <2>2. r.members \in Seq(Member) \ {<<>>}
      BY <2>1 DEF Record
    <2>3. OwnerOf[loc[b].entry] \in Vertex /\ NoXid \in XidsOf(xact)
      BY <1>2, CompactionAssumption DEF XidsOf
    <2>4. QED  BY <1>2, <2>2, <2>3 DEF Record
  <1> HIDE DEF r
  <1>5. /\ Len(node') = Len(node) + 1 /\ DOMAIN node' = 1 .. Len(node) + 1
        /\ \A n \in DOMAIN node : node'[n] = node[n]
        /\ node'[Len(node) + 1] = r
    BY <1>1, <1>3 DEF SeqFacts
  <1>6. Node \subseteq Node' /\ r \in Node'
    <2>1. 0 .. Len(node) \subseteq 0 .. Len(node') /\ Nil \in 0 .. Len(node')
      BY <1>1, <1>5 DEF SeqFacts, Nil
    <2>2. Member' = Member
      BY <1>3 DEF Member
    <2>3. QED  BY <1>3, <1>4, <2>1, <2>2 DEF Node
  <1>7. node' \in Seq(Node')
    <2>1. node \in Seq(Node')
      BY <1>3, <1>6, SeqMonotonic
    <2>2. QED  BY <1>3, <1>6, <2>1
  <1>8. /\ \A n \in Lists : n \in Lists' /\ node'[n] = node[n]
        /\ \A n \in Lists' : n \in Lists \/ n = Len(node) + 1
        /\ Len(node) + 1 \in Lists'
    BY <1>1, <1>2, <1>4, <1>5 DEF Lists, TableOf, SeqFacts
  <1>9. RecordsFollow'
    BY <1>1, <1>4, <1>5, <1>8 DEF IInv, ListInv, RecordsFollow
  <1>10. BlocksLeadDown'
    <2>1. SUFFICES ASSUME NEW n \in DOMAIN node', node'[n].tbl = ArrayList, node'[n].next # Nil
                   PROVE  /\ node'[node'[n].next].tbl = ArrayList
                          /\ node'[n].next = n + 1 \/ node'[n].next < n
      BY DEF BlocksLeadDown, TableOf
    <2>2. n \in DOMAIN node /\ node'[n] = node[n]
      BY <1>1, <1>2, <1>4, <1>5, <2>1 DEF SeqFacts
    <2>3. node[n].next \in DOMAIN node
      BY <1>1, <2>1, <2>2 DEF SeqFacts, Node, Nil
    <2>4. QED  BY <1>5, <2>1, <2>2, <2>3 DEF IInv, ListInv, BlocksLeadDown, TableOf
  <1>11. l \in Locals' /\ l.entry = loc[b].entry /\ l.tbl = loc[b].tbl /\ l.at = loc[b].at
         /\ l.new = Len(node) + 1
    <2>1. Locals \subseteq Locals'
      <3>1. Grows
        BY <1>1, <1>3, <1>5 DEF Grows, SeqFacts
      <3>2. TypeOK'
        <4>1. MetaRow' = MetaRow /\ 0 .. Len(node) \subseteq 0 .. Len(node')
          <5>1. MetaRow' = MetaRow
            BY <1>3 DEF MetaRow
          <5>2. Len(node) \in Nat /\ Len(node') = Len(node) + 1
            BY <1>1, <1>5 DEF SeqFacts
          <5>3. QED  BY <5>1, <5>2
        <4>2. pc' \in [Backend -> Steps]
          BY <1>1, <1>3 DEF Steps
        <4>3. head' \in [Vertex -> 0 .. Len(node')]
          BY <1>1, <1>3, <4>1
        <4>4. QED  BY <1>3, <1>7, <4>1, <4>2, <4>3 DEF IInv, TypeOK
      <3>3. QED  BY <3>1, <3>2, LocalsGrow DEF IInv
    <2>2. loc[b] \in Locals' /\ Len(node) + 1 \in {Nil} \cup Lists'
      BY <1>1, <1>8, <2>1
    <2>3. QED  BY <2>2 DEF Locals
  <1>12. Alone(b) /\ loc'[b] = l /\ pc'[b] = s
    BY <1>1, <1>3 DEF Alone
  <1>13. SetAt(b)'
    <2>1. Len(node) + 1 # Nil
      BY <1>1 DEF SeqFacts, Nil
    <2> HIDE DEF l
    <2>2. QED  BY <1>2, <1>11, <1>12, <2>1 DEF SetAt, Inserting
  <1>14. head' \in [Vertex -> 0 .. Len(node')]
    BY <1>1, <1>3, <1>5 DEF SeqFacts
  <1> HIDE DEF l
  <1>15. s \in {"setHead", "fixPrev"}
    OBVIOUS
  <1> HIDE DEF s
  <1>16. Len(node) <= Len(node')
    BY <1>1, <1>5 DEF SeqFacts
  <1>17. QED
    BY <1>1, <1>3, <1>5, <1>7, <1>9, <1>10, <1>11, <1>12, <1>13, <1>14, <1>15, <1>16, ListStep
       DEF Steps, Compacting

\* One node is written to, and its place among the others stays.
LEMMA NodeWritten ==
    ASSUME IInv, UNCHANGED <<xact, xid, etup, maker, meta, calm>>, NEW b \in Backend, Alone(b),
           NEW k \in DOMAIN node, NEW x \in Node, node' = [node EXCEPT ![k] = x],
           x.tbl = node[k].tbl,
           x.prev = node[k].prev \/ x.prev \in Lists,
           x.next = node[k].next \/ k \in Lists,
           head' \in [Vertex -> 0 .. Len(node)],
           xid[b] # NoXid, pc[b] # "addActive", pc'[b] # "addActive", pc'[b] \in Steps,
           pc'[b] \in Compacting => RowsOf(b, loc'[b].tbl) # {},
           loc'[b] \in Locals, SetAt(b)'
    PROVE  IInv'
  <1>1. SeqFacts /\ node \in Seq(Node)
    BY Facts DEF IInv, TypeOK
  <1>2. /\ node' \in Seq(Node) /\ Len(node') = Len(node) /\ DOMAIN node' = DOMAIN node
        /\ node'[k] = x /\ \A n \in DOMAIN node : n # k => node'[n] = node[n]
    BY <1>1, ExceptSeq
  <1>3. Node' = Node
    BY <1>2 DEF Node, Member
  <1>4. \A n \in DOMAIN node : node'[n].tbl = node[n].tbl
    BY <1>2
  <1>5. Lists' = Lists /\ Arrays' = Arrays
    BY <1>2, <1>4 DEF Lists, Arrays, TableOf
  <1>6. RecordsFollow'
    <2>1. SUFFICES ASSUME NEW n \in Lists PROVE node'[n].prev \in {Nil} \cup Lists
      BY <1>5 DEF RecordsFollow
    <2>2. QED  BY <1>2, <2>1 DEF IInv, ListInv, RecordsFollow, Lists
  <1>7. BlocksLeadDown'
    <2>1. SUFFICES ASSUME NEW n \in DOMAIN node, node[n].tbl = ArrayList, node'[n].next # Nil
                   PROVE  /\ node'[node'[n].next].tbl = ArrayList
                          /\ node'[n].next = n + 1 \/ node'[n].next < n
      BY <1>2, <1>4 DEF BlocksLeadDown, TableOf
    <2>2. node'[n].next = node[n].next
      BY <1>2, <2>1 DEF Lists, TableOf
    <2>3. node[n].next \in DOMAIN node
      BY SMTT(20), <1>1, <2>1, <2>2 DEF SeqFacts, Node, Nil
    <2>4. QED  BY <1>4, <2>1, <2>2, <2>3 DEF IInv, ListInv, BlocksLeadDown, TableOf
  <1>8. Locals' = Locals
    <2>1. Job' = Job
      BY <1>5 DEF Job, Member
    <2>2. QED  BY <1>2, <1>5, <2>1 DEF Locals
  <1>9. Len(node) <= Len(node')
    BY <1>1, <1>2 DEF SeqFacts
  <1>10. QED  BY <1>2, <1>3, <1>4, <1>6, <1>7, <1>8, <1>9, ListStep

LEMMA FixPrevStep ==
    ASSUME IInv, NEW b \in Backend, FixPrev(b) PROVE IInv'
  <1>1. /\ loc \in [Backend -> Locals] /\ loc[b] \in Locals /\ pc \in [Backend -> Steps]
        /\ SetAt(b) /\ xid[b] # NoXid /\ pc[b] = "fixPrev" /\ SeqFacts
        /\ head \in [Vertex -> 0 .. Len(node)]
    BY AtStep DEF FixPrev
  <1> DEFINE k == loc[b].at
             x == [node[k] EXCEPT !.prev = loc[b].new]
  <1>2. /\ loc[b].entry \in Entry /\ loc[b].tbl # ArrayList
        /\ k # Nil /\ loc[b].new # Nil /\ k \in 0 .. Len(node) /\ loc[b].new \in {Nil} \cup Lists
    BY <1>1 DEF SetAt, Inserting, Locals
  <1>3. k \in DOMAIN node /\ loc[b].new \in Lists /\ loc[b].new \in 0 .. Len(node)
    BY <1>1, <1>2 DEF SeqFacts, Lists, Nil
  <1>4. node[k] \in Node
    BY <1>1, <1>3 DEF SeqFacts
  <1>5. /\ node' = [node EXCEPT ![k] = x] /\ pc' = [pc EXCEPT ![b] = "setHead"]
        /\ UNCHANGED <<xact, xid, etup, maker, meta, head, loc, calm>>
    BY DEF FixPrev, Goto
  <1>6. x \in Node /\ x.tbl = node[k].tbl /\ x.prev \in Lists /\ x.next = node[k].next
    BY <1>3, <1>4 DEF Node
  <1>7. Alone(b) /\ loc'[b] = loc[b] /\ pc'[b] = "setHead"
    BY <1>1, <1>5 DEF Alone
  <1> HIDE DEF x
  <1>8. SetAt(b)'
    BY <1>2, <1>5, <1>7 DEF SetAt, Inserting
  <1>9. QED  BY <1>1, <1>3, <1>5, <1>6, <1>7, <1>8, NodeWritten DEF Steps, Compacting

LEMMA StampMemberStep ==
    ASSUME IInv, NEW b \in Backend, StampMember(b) PROVE IInv'
  <1>1. /\ loc \in [Backend -> Locals] /\ loc[b] \in Locals /\ pc \in [Backend -> Steps]
        /\ xid[b] \in XidsOf(xact) /\ xid[b] # NoXid /\ pc[b] = "walk" /\ SeqFacts
        /\ head \in [Vertex -> 0 .. Len(node)]
    BY AtStep DEF StampMember
  <1> DEFINE k == loc[b].at
             i == FirstOf(Wanted(b))
             M == [node[k].members EXCEPT ![i].xmax = xid[b]]
             x == [node[k] EXCEPT !.members = M]
  <1>2. k \in DOMAIN node
    <2>1. k # Nil /\ k \in 0 .. Len(node)
      BY <1>1 DEF StampMember, Locals
    <2>2. QED  BY <1>1, <2>1 DEF SeqFacts, Nil
  <1>3. node[k] \in Node /\ node[k].members \in Seq(Member) /\ node[k].members # <<>>
    BY <1>1, <1>2 DEF SeqFacts, Node
  <1>4. M \in Seq(Member) \ {<<>>}
    <2>1. Wanted(b) \in SUBSET Nat /\ Wanted(b) \subseteq DOMAIN node[k].members
      BY <1>3 DEF Wanted
    <2>2. i \in DOMAIN node[k].members
      BY <2>1, LeastNat DEF StampMember
    <2>3. node[k].members[i] \in Member
      BY <1>3, <2>2
    <2>4. [node[k].members[i] EXCEPT !.xmax = xid[b]] \in Member
      BY <1>1, <2>3 DEF Member
    <2>5. M = [node[k].members EXCEPT ![i] = [node[k].members[i] EXCEPT !.xmax = xid[b]]]
      BY <1>3, <2>2
    <2>6. M \in Seq(Member) /\ DOMAIN M = DOMAIN node[k].members
      BY <1>3, <2>2, <2>4, <2>5, ExceptSeq
    <2>7. QED  BY <2>2, <2>6
  <1>5. /\ node' = [node EXCEPT ![k] = x] /\ Return(b)
        /\ UNCHANGED <<xact, xid, etup, maker, meta, head, calm>>
    BY <1>2, <1>3 DEF StampMember
  <1> HIDE DEF M, i
  <1>6. x \in Node /\ x.tbl = node[k].tbl /\ x.prev = node[k].prev /\ x.next = node[k].next
    BY <1>3, <1>4 DEF Node
  <1>7. Alone(b) /\ pc'[b] = "idle" /\ loc'[b] \in Locals /\ SetAt(b)'
    BY <1>5, Returned
  <1> HIDE DEF x
  <1>8. QED  BY <1>1, <1>2, <1>5, <1>6, <1>7, NodeWritten DEF Steps, Compacting

LEMMA WireStep ==
    ASSUME IInv, NEW b \in Backend, Wire(b) PROVE IInv'
  <1>1. /\ loc \in [Backend -> Locals] /\ loc[b] \in Locals /\ pc \in [Backend -> Steps]
        /\ SetAt(b) /\ xid[b] # NoXid /\ pc[b] = "wire" /\ SeqFacts
        /\ etup \in [Entry -> [xmin : XidsOf(xact), xmax : XidsOf(xact)]]
        /\ head \in [Vertex -> 0 .. Len(node)]
    BY AtStep DEF Wire
  <1> DEFINE j == loc[b].job
             l == [loc[b] EXCEPT !.job = Nil]
             s == IF loc[b].batch = {} THEN "findRow" ELSE "merge"
  <1>2. j \in Job /\ loc[b].at \in Arrays
    BY <1>1 DEF SetAt
  <1>3. /\ loc' = [loc EXCEPT ![b] = l] /\ pc' = [pc EXCEPT ![b] = s]
        /\ UNCHANGED <<xact, xid, etup, maker, meta, calm>>
    BY <1>1 DEF Wire, Goto
  <1>4. l \in Locals /\ l.tbl = loc[b].tbl
    BY <1>1 DEF Locals
  <1>5. Alone(b) /\ loc'[b] = l /\ pc'[b] = s /\ s \in {"findRow", "merge"}
    BY <1>1, <1>3 DEF Alone
  <1>6. RowsOf(b, loc[b].tbl) # {}
    BY <1>1 DEF IInv, MetaInv, RowsHeld, Compacting
  <1> HIDE DEF l, s
  <1>7. SetAt(b)'
    BY <1>5 DEF SetAt, Inserting
  <1>8. loc[b].at \in 0 .. Len(node)
    BY <1>1 DEF Locals
  <1>9. CASE j.up # Nil
    <2> DEFINE x == [node[j.up] EXCEPT !.next = loc[b].at]
    <2>1. node' = [node EXCEPT ![j.up].next = loc[b].at] /\ UNCHANGED head
      BY <1>9 DEF Wire
    <2>2. j.up \in Lists /\ j.up \in DOMAIN node
      BY <1>2, <1>9 DEF Job, Lists
    <2>3. node[j.up] \in Node
      BY <1>1, <2>2 DEF SeqFacts
    <2>4. node' = [node EXCEPT ![j.up] = x]
      BY <2>1
    <2>5. x \in Node /\ x.tbl = node[j.up].tbl /\ x.prev = node[j.up].prev
      BY <1>8, <2>3 DEF Node
    <2> HIDE DEF x
    <2>6. QED
      BY <1>1, <1>3, <1>4, <1>5, <1>6, <1>7, <2>1, <2>2, <2>4, <2>5, NodeWritten DEF Steps
  <1>10. CASE j.up = Nil
    <2>1. head' = [head EXCEPT ![j.owner] = loc[b].at] /\ UNCHANGED node
      BY <1>10 DEF Wire
    <2>2. head' \in [Vertex -> 0 .. Len(node)]
      BY <1>1, <1>8, <2>1
    <2>3. QED  BY <1>1, <1>3, <1>4, <1>5, <1>6, <1>7, <2>1, <2>2, QuietStep DEF Steps
  <1>11. QED  BY <1>9, <1>10

\* The members are cut into one or more blocks, none of them empty.
LEMMA Chunks ==
    ASSUME NEW L \in Nat \ {0}, NEW P \in Nat \ {0}, NEW k, k = (L + P - 1) \div P
    PROVE  /\ k \in Nat \ {0}
           /\ \A i \in 1 .. k : (i - 1) * P + 1 \in 1 .. L
           /\ \A i \in 1 .. k : i # k => i * P \in (i - 1) * P + 1 .. L
  <1>1. k \in Nat /\ k * P <= L + P - 1 /\ L + P - 1 < (k + 1) * P
    OBVIOUS
  <1>2. k # 0 /\ (k - 1) * P < L
    BY <1>1
  <1>3. \A i \in 1 .. k : (i - 1) * P >= 0 /\ (i - 1) * P <= (k - 1) * P
    BY <1>1, <1>2
  <1>4. \A i \in 1 .. k : (i - 1) * P \in Nat
    BY <1>3
  <1>5. \A i \in 1 .. k : (i - 1) * P + 1 \in 1 .. L
    BY <1>2, <1>3, <1>4
  <1>6. \A i \in 1 .. k : i # k => i * P <= (k - 1) * P /\ i * P = (i - 1) * P + P
    BY <1>1, <1>2
  <1>7. \A i \in 1 .. k : i # k => i * P \in (i - 1) * P + 1 .. L
    BY <1>2, <1>4, <1>6
  <1>8. QED  BY <1>1, <1>2, <1>5, <1>7

\* The blocks a compaction writes from node n + 1 on.
LEMMA BlocksWritten ==
    ASSUME NEW j \in Job, NEW n \in Nat
    PROVE  \E k \in Nat \ {0} :
             /\ Blocks(j, n) = [i \in 1 .. k |-> Blocks(j, n)[i]]
             /\ \A i \in 1 .. k :
                  Blocks(j, n)[i] \in
                     [tbl : {ArrayList}, owner : Vertex, members : Seq(Member) \ {<<>>},
                      next : {IF i = k THEN j.rest ELSE n + i + 1},
                      prev : {IF i = 1 THEN j.up ELSE n + i - 1}, xmax : {NoXid}]
  <1> DEFINE M == j.members
             k == (Len(M) + PerBlock - 1) \div PerBlock
             hi(i) == IF i = k THEN Len(M) ELSE i * PerBlock
             S(i) == SubSeq(M, (i - 1) * PerBlock + 1, hi(i))
  <1>1. M \in Seq(Member) /\ M # <<>> /\ j.owner \in Vertex
    BY DEF Job
  <1>2. Len(M) \in Nat \ {0} /\ PerBlock \in Nat \ {0}
    BY <1>1, CompactionAssumption
  <1>3. k = (Len(M) + PerBlock - 1) \div PerBlock
    OBVIOUS
  <1> HIDE DEF k, M
  <1>4. /\ k \in Nat \ {0}
        /\ \A i \in 1 .. k : (i - 1) * PerBlock + 1 \in 1 .. Len(M)
        /\ \A i \in 1 .. k : i # k => i * PerBlock \in (i - 1) * PerBlock + 1 .. Len(M)
    BY <1>2, <1>3, Chunks
  <1>5. ASSUME NEW i \in 1 .. k PROVE S(i) \in Seq(Member) \ {<<>>}
    <2>1. (i - 1) * PerBlock + 1 \in 1 .. Len(M)
      BY <1>4
    <2>2. hi(i) \in (i - 1) * PerBlock + 1 .. Len(M)
      <3>1. CASE i = k
        BY <1>2, <2>1, <3>1
      <3>2. CASE i # k
        BY <1>4, <3>2
      <3>3. QED  BY <3>1, <3>2
    <2> HIDE DEF hi
    <2>3. \A p, q \in 1 .. Len(M) : p <= q => SubSeq(M, p, q) \in Seq(Member) /\ Len(SubSeq(M, p, q)) = q - p + 1
      BY <1>1, SubSeqProperties
    <2>4. hi(i) \in 1 .. Len(M) /\ (i - 1) * PerBlock + 1 <= hi(i)
      BY <1>2, <2>1, <2>2
    <2>5. S(i) \in Seq(Member) /\ Len(S(i)) # 0
      BY <2>1, <2>3, <2>4
    <2> HIDE DEF S
    <2>6. QED  BY <2>5
  <1>6. Blocks(j, n) =
          [i \in 1 .. k |-> [tbl |-> ArrayList, owner |-> j.owner, members |-> S(i),
                             next |-> IF i = k THEN j.rest ELSE n + i + 1,
                             prev |-> IF i = 1 THEN j.up ELSE n + i - 1,
                             xmax |-> NoXid]]
    BY DEF Blocks, k, M
  <1> HIDE DEF S
  <1>7. /\ Blocks(j, n) = [i \in 1 .. k |-> Blocks(j, n)[i]]
        /\ \A i \in 1 .. k :
             Blocks(j, n)[i] = [tbl |-> ArrayList, owner |-> j.owner, members |-> S(i),
                                next |-> IF i = k THEN j.rest ELSE n + i + 1,
                                prev |-> IF i = 1 THEN j.up ELSE n + i - 1,
                                xmax |-> NoXid]
    BY <1>6
  <1>8. \A i \in 1 .. k :
          Blocks(j, n)[i] \in
             [tbl : {ArrayList}, owner : Vertex, members : Seq(Member) \ {<<>>},
              next : {IF i = k THEN j.rest ELSE n + i + 1},
              prev : {IF i = 1 THEN j.up ELSE n + i - 1}, xmax : {NoXid}]
    BY <1>1, <1>5, <1>7
  <1>9. QED  BY <1>4, <1>7, <1>8

LEMMA RewriteStep ==
    ASSUME IInv, NEW b \in Backend, Rewrite(b) PROVE IInv'
  <1>1. /\ loc \in [Backend -> Locals] /\ loc[b] \in Locals /\ pc \in [Backend -> Steps]
        /\ xid[b] \in XidsOf(xact) /\ SetAt(b) /\ xid[b] # NoXid /\ pc[b] = "rewrite" /\ SeqFacts
        /\ head \in [Vertex -> 0 .. Len(node)]
    BY AtStep DEF Rewrite
  <1> DEFINE j == loc[b].job
             n == Len(node)
             N == IF j.down = Nil THEN node ELSE [node EXCEPT ![j.down].xmax = xid[b]]
             B == Blocks(j, n)
             l == [loc[b] EXCEPT !.at = Len(node) + 1]
  <1>2. j \in Job /\ n \in Nat
    BY <1>1 DEF SetAt, SeqFacts
  <1>3. /\ node' = N \o B /\ loc' = [loc EXCEPT ![b] = l] /\ pc' = [pc EXCEPT ![b] = "wire"]
        /\ UNCHANGED <<xact, xid, etup, maker, meta, head, calm>>
    BY <1>1 DEF Rewrite, Goto
  <1>4. PICK k \in Nat \ {0} :
          /\ B = [i \in 1 .. k |-> B[i]]
          /\ \A i \in 1 .. k :
               B[i] \in [tbl : {ArrayList}, owner : Vertex, members : Seq(Member) \ {<<>>},
                         next : {IF i = k THEN j.rest ELSE n + i + 1},
                         prev : {IF i = 1 THEN j.up ELSE n + i - 1}, xmax : {NoXid}]
    BY <1>2, BlocksWritten
  <1>5. /\ N \in Seq(Node) /\ Len(N) = n
        /\ \A i \in 1 .. n : N[i].tbl = node[i].tbl /\ N[i].next = node[i].next /\ N[i].prev = node[i].prev
    <2>1. node \in Seq(Node) /\ DOMAIN node = 1 .. n
      BY <1>1 DEF IInv, TypeOK, SeqFacts
    <2>2. CASE j.down = Nil
      BY <2>1, <2>2
    <2>3. CASE j.down # Nil
      <3>1. j.down \in DOMAIN node
        BY <1>2, <2>3 DEF Job, Arrays
      <3>2. node[j.down] \in Node
        BY <1>1, <3>1 DEF SeqFacts
      <3>3. PICK x : x = [node[j.down] EXCEPT !.xmax = xid[b]]
        OBVIOUS
      <3>4. /\ x \in Node /\ x.tbl = node[j.down].tbl /\ x.next = node[j.down].next
            /\ x.prev = node[j.down].prev
        BY <1>1, <3>2, <3>3 DEF Node
      <3>5. N = [node EXCEPT ![j.down] = x]
        BY <2>3, <3>3
      <3>6. N \in Seq(Node) /\ Len(N) = n
        BY <2>1, <3>1, <3>4, <3>5, ExceptSeq
      <3>7. QED  BY <2>1, <3>1, <3>4, <3>5, <3>6
    <2>4. QED  BY <2>2, <2>3
  <1> HIDE DEF N, B
  <1> DEFINE Block == [tbl : {ArrayList}, owner : Vertex, members : Seq(Member) \ {<<>>},
                       next : 0 .. n + k, prev : 0 .. n + k, xmax : XidsOf(xact)]
  <1>6. \A i \in 1 .. k : B[i] \in Block
    <2>1. j.rest \in 0 .. n /\ j.up \in 0 .. n
      BY <1>1, <1>2 DEF Job, Arrays, Lists, SeqFacts, Nil
    <2>2. \A i \in 1 .. k : /\ (IF i = k THEN j.rest ELSE n + i + 1) \in 0 .. n + k
                            /\ (IF i = 1 THEN j.up ELSE n + i - 1) \in 0 .. n + k
      BY SMTT(20), <1>2, <1>4, <2>1
    <2>3. NoXid \in XidsOf(xact)
      BY DEF XidsOf
    <2>4. QED  BY SMTT(20), <1>4, <2>2, <2>3
  <1>7. B \in Seq(Block) /\ Len(B) = k /\ DOMAIN B = 1 .. k
    <2>1. B \in [1 .. k -> Block]
      BY <1>4, <1>6
    <2>2. QED  BY <2>1, <1>4, IsASeq
  <1>8. /\ Len(node') = n + k /\ DOMAIN node' = 1 .. n + k
        /\ \A i \in 1 .. n : node'[i] = N[i]
        /\ \A i \in 1 .. k : node'[n + i] = B[i]
    <2>1. N \in Seq(Node \cup Block) /\ B \in Seq(Node \cup Block)
      BY ZenonT(60), <1>5, <1>7, SeqMonotonic
    <2>2. /\ Len(N \o B) = Len(N) + Len(B) /\ N \o B \in Seq(Node \cup Block)
          /\ \A i \in 1 .. Len(N) + Len(B) :
               (N \o B)[i] = IF i <= Len(N) THEN N[i] ELSE B[i - Len(N)]
      BY <2>1, ConcatProperties
    <2>3. DOMAIN (N \o B) = 1 .. Len(N) + Len(B)
      BY <2>2
    <2> HIDE DEF Block
    <2>4. QED  BY <1>2, <1>3, <1>5, <1>7, <2>2, <2>3
  <1>9. Node \subseteq Node' /\ Block \subseteq Node'
    <2>1. /\ 0 .. n \subseteq 0 .. Len(node') /\ 0 .. n + k = 0 .. Len(node')
          /\ ArrayList \in 0 .. Len(maker)
      BY <1>1, <1>2, <1>8 DEF SeqFacts, ArrayList
    <2>2. Member' = Member
      BY <1>3 DEF Member
    <2>3. QED  BY <1>3, <2>1, <2>2 DEF Node
  <1>10. node' \in Seq(Node')
    <2>1. N \in Seq(Node') /\ B \in Seq(Node')
      BY <1>5, <1>7, <1>9, SeqMonotonic
    <2>2. QED  BY <1>3, <2>1
  <1>11. \A i \in DOMAIN node : i \in 1 .. n /\ node'[i].tbl = node[i].tbl
    BY <1>1, <1>5, <1>8 DEF SeqFacts
  <1>12. \A i \in 1 .. k : node'[n + i].tbl = ArrayList
    BY <1>4, <1>8
  <1>13. \A m \in DOMAIN node' : m \in DOMAIN node \/ \E i \in 1 .. k : m = n + i
    <2>1. ASSUME NEW m \in 1 .. n + k PROVE m \in 1 .. n \/ \E i \in 1 .. k : m = n + i
      <3>1. CASE m <= n
        BY <1>2, <3>1
      <3>2. CASE m > n
        <4>1. m - n \in 1 .. k /\ m = n + (m - n)
          BY <1>2, <3>2
        <4>2. QED  BY <4>1
      <3>3. QED  BY <1>2, <3>1, <3>2
    <2>2. QED  BY <1>1, <1>8, <2>1 DEF SeqFacts
  <1>14. Grows
    BY <1>1, <1>2, <1>3, <1>8, <1>11 DEF Grows, SeqFacts
  <1>15. head' \in [Vertex -> 0 .. Len(node')]
    BY <1>1, <1>2, <1>3, <1>8
  <1>16. TypeOK'
    <2>1. MetaRow' = MetaRow
      BY <1>3 DEF MetaRow
    <2>2. pc' \in [Backend -> Steps]
      BY <1>1, <1>3 DEF Steps
    <2>3. QED  BY <1>3, <1>10, <1>15, <2>1, <2>2 DEF IInv, TypeOK
  <1>17. /\ Lists \subseteq Lists' /\ Arrays \subseteq Arrays'
         /\ Job \subseteq Job' /\ Locals \subseteq Locals'
    BY <1>14, <1>16, LocalsGrow DEF IInv
  <1>18. RecordsFollow'
    <2>1. SUFFICES ASSUME NEW m \in Lists' PROVE node'[m].prev \in {Nil} \cup Lists'
      BY DEF RecordsFollow
    <2>2. m \in DOMAIN node /\ m \in Lists
      BY <1>11, <1>12, <1>13 DEF Lists, TableOf
    <2>3. node'[m].prev = node[m].prev
      BY <1>5, <1>8, <1>11, <2>2
    <2>4. QED  BY <1>17, <2>2, <2>3 DEF IInv, ListInv, RecordsFollow
  <1>19. BlocksLeadDown'
    <2>1. SUFFICES ASSUME NEW m \in DOMAIN node', node'[m].tbl = ArrayList, node'[m].next # Nil
                   PROVE  /\ node'[node'[m].next].tbl = ArrayList
                          /\ node'[m].next = m + 1 \/ node'[m].next < m
      BY DEF BlocksLeadDown, TableOf
    <2>2. CASE m \in DOMAIN node
      <3>1. node'[m].next = node[m].next /\ node[m].tbl = ArrayList
        BY <1>5, <1>8, <1>11, <2>1, <2>2
      <3>2. node[m].next \in DOMAIN node
        BY <1>1, <2>1, <2>2, <3>1 DEF SeqFacts, Node, Nil
      <3>3. QED  BY <1>11, <2>1, <2>2, <3>1, <3>2 DEF IInv, ListInv, BlocksLeadDown, TableOf
    <2>3. ASSUME NEW i \in 1 .. k, m = n + i
          PROVE  /\ node'[node'[m].next].tbl = ArrayList
                 /\ node'[m].next = m + 1 \/ node'[m].next < m
      <3>1. node'[m].next = IF i = k THEN j.rest ELSE n + i + 1
        BY <1>4, <1>8, <2>3
      <3>2. CASE i = k
        <4>1. node'[m].next \in Arrays
          BY <1>2, <2>1, <3>1, <3>2 DEF Job
        <4>2. node'[m].next \in 1 .. n /\ node'[node'[m].next].tbl = ArrayList
          BY <1>11, <4>1 DEF Arrays, TableOf
        <4>3. QED  BY <1>2, <2>3, <4>2
      <3>3. CASE i # k
        <4>1. i + 1 \in 1 .. k /\ node'[m].next = n + (i + 1) /\ n + (i + 1) = m + 1
          BY <1>2, <2>3, <3>1, <3>3
        <4>2. QED  BY <1>12, <4>1
      <3>4. QED  BY <3>2, <3>3
    <2>4. QED  BY <1>13, <2>2, <2>3
  <1>20. n + 1 \in Arrays' /\ n + 1 \in 0 .. Len(node')
    BY <1>2, <1>8, <1>12 DEF Arrays, TableOf
  <1>21. l \in Locals' /\ l.tbl = loc[b].tbl /\ l.job = j /\ l.at = n + 1
    <2>1. loc[b] \in Locals'
      BY <1>1, <1>17
    <2>2. QED  BY <1>20, <2>1 DEF Locals
  <1>22. Alone(b) /\ loc'[b] = l /\ pc'[b] = "wire"
    BY <1>1, <1>3 DEF Alone
  <1>23. RowsOf(b, loc[b].tbl) # {}
    BY <1>1 DEF IInv, MetaInv, RowsHeld, Compacting
  <1> HIDE DEF l, n
  <1>24. SetAt(b)'
    BY <1>2, <1>17, <1>20, <1>21, <1>22 DEF SetAt, Inserting
  <1>25. Len(node) <= Len(node') /\ Len(maker) <= Len(maker')
    BY <1>14 DEF Grows
  <1>26. QED
    BY <1>1, <1>3, <1>11, <1>16, <1>18, <1>19, <1>21, <1>22, <1>23, <1>24, <1>25, StepKept
-----------------------------------------------------------------------------
(* Steps that write the metadata.                                           *)

\* Rows a backend may replace get its stamp, and a new row of their table is added.
Rewrites(b, gone, r) ==
    /\ gone \subseteq DOMAIN meta /\ r \in MetaRow /\ r.xmin = xid[b] /\ r.xmax = NoXid
    /\ \A i \in gone : MayReplace(xact, xid[b], meta[i]) /\ r.tbl = meta[i].tbl
    /\ Len(meta') = Len(meta) + 1 /\ DOMAIN meta' = 1 .. Len(meta) + 1
    /\ meta'[Len(meta) + 1] = r
    /\ \A i \in DOMAIN meta :
         meta'[i] = IF i \in gone THEN [meta[i] EXCEPT !.xmax = xid[b]] ELSE meta[i]

LEMMA RewrittenRows ==
    ASSUME IInv, UNCHANGED <<xact, xid>>, NEW b \in Backend, xid[b] # NoXid,
           NEW gone, NEW r, Rewrites(b, gone, r)
    PROVE  /\ \A i \in DOMAIN meta' : i \in DOMAIN meta \/ i = Len(meta) + 1
           /\ \A i \in DOMAIN meta :
                /\ i \in DOMAIN meta' /\ i # Len(meta) + 1
                /\ meta'[i].tbl = meta[i].tbl /\ meta'[i].active = meta[i].active
                /\ meta'[i].xmin = meta[i].xmin
                /\ meta'[i].xmax = IF i \in gone THEN xid[b] ELSE meta[i].xmax
           /\ \A i \in gone : /\ meta[i].xmin = xid[b] \/ DidCommit(xact, meta[i].xmin)
                              /\ meta[i].xmin # xid[b] => ~DidCommit(xact, meta[i].xmax)
                              /\ meta[i].xmax # xid[b] /\ ~InProgress(xact, meta[i].xmax)
           /\ \A c \in Backend : xid[c] # NoXid =>
                /\ InProgress(xact, xid[c]) /\ ~DidCommit(xact, xid[c])
                /\ c # b => xid[c] # xid[b]
  <1>1. SeqFacts
    BY Facts DEF IInv
  <1>2. \A i \in DOMAIN meta : meta[i] \in MetaRow
    BY <1>1 DEF SeqFacts
  <1>3. \A i \in DOMAIN meta :
          /\ i \in DOMAIN meta' /\ i # Len(meta) + 1
          /\ meta'[i].tbl = meta[i].tbl /\ meta'[i].active = meta[i].active
          /\ meta'[i].xmin = meta[i].xmin
          /\ meta'[i].xmax = IF i \in gone THEN xid[b] ELSE meta[i].xmax
    <2>1. SUFFICES ASSUME NEW i \in DOMAIN meta
                   PROVE  /\ i \in DOMAIN meta' /\ i # Len(meta) + 1
                          /\ meta'[i].tbl = meta[i].tbl /\ meta'[i].active = meta[i].active
                          /\ meta'[i].xmin = meta[i].xmin
                          /\ meta'[i].xmax = IF i \in gone THEN xid[b] ELSE meta[i].xmax
      OBVIOUS
    <2>2. i \in DOMAIN meta' /\ i # Len(meta) + 1
      BY <1>1 DEF Rewrites, SeqFacts
    <2>3. meta'[i] = IF i \in gone THEN [meta[i] EXCEPT !.xmax = xid[b]] ELSE meta[i]
      BY DEF Rewrites
    <2>4. QED  BY <1>2, <2>2, <2>3 DEF MetaRow
  <1>4. \A i \in DOMAIN meta' : i \in DOMAIN meta \/ i = Len(meta) + 1
    BY <1>1 DEF Rewrites, SeqFacts
  <1>5. \A i \in gone : /\ meta[i].xmin = xid[b] \/ DidCommit(xact, meta[i].xmin)
                        /\ meta[i].xmin # xid[b] => ~DidCommit(xact, meta[i].xmax)
                        /\ meta[i].xmax # xid[b] /\ ~InProgress(xact, meta[i].xmax)
    BY DEF Rewrites, MayReplace, TupleIsLive, TupleXmaxOther, IsOwn
  <1>6. \A c \in Backend : xid[c] # NoXid =>
          /\ InProgress(xact, xid[c]) /\ ~DidCommit(xact, xid[c])
          /\ c # b => xid[c] # xid[b]
    BY DEF IInv, MetaInv, XactsHeld, InProgress, DidCommit
  <1>7. QED  BY <1>3, <1>4, <1>5, <1>6

LEMMA MetaWritten ==
    ASSUME IInv, UNCHANGED <<xact, xid>>, NEW b \in Backend, xid[b] # NoXid,
           NEW gone, NEW r, Rewrites(b, gone, r)
    PROVE  /\ StampsFollow' /\ RowsStay' /\ Base' = Base
           /\ \A c \in Backend : c # b => Own(c)' = Own(c) /\ (Rotated(c)' <=> Rotated(c))
           /\ Own(b)' = (Own(b) \ gone) \cup {i \in {Len(meta) + 1} : r.active}
           /\ Rotated(b)' <=> Rotated(b) \/ gone \cap Base # {}
           /\ \A c \in Backend : c # b => \A t : RowsOf(c, t) \subseteq RowsOf(c, t)'
  <1> DEFINE new == Len(meta) + 1
  <1>1. /\ \A i \in DOMAIN meta' : i \in DOMAIN meta \/ i = new
        /\ \A i \in DOMAIN meta :
             /\ i \in DOMAIN meta' /\ i # new
             /\ meta'[i].tbl = meta[i].tbl /\ meta'[i].active = meta[i].active
             /\ meta'[i].xmin = meta[i].xmin
             /\ meta'[i].xmax = IF i \in gone THEN xid[b] ELSE meta[i].xmax
    BY RewrittenRows
  <1>2. \A i \in gone : /\ meta[i].xmin = xid[b] \/ DidCommit(xact, meta[i].xmin)
                        /\ meta[i].xmin # xid[b] => ~DidCommit(xact, meta[i].xmax)
                        /\ meta[i].xmax # xid[b] /\ ~InProgress(xact, meta[i].xmax)
    BY RewrittenRows
  <1>3. \A c \in Backend : xid[c] # NoXid =>
          /\ InProgress(xact, xid[c]) /\ ~DidCommit(xact, xid[c])
          /\ c # b => xid[c] # xid[b]
    BY RewrittenRows
  <1>4. /\ gone \subseteq DOMAIN meta /\ r.xmin = xid[b] /\ r.xmax = NoXid
        /\ \A i \in gone : r.tbl = meta[i].tbl
        /\ new \in DOMAIN meta' /\ meta'[new] = r
        /\ xact' = xact /\ xid' = xid
    <2>1. SeqFacts
      BY Facts DEF IInv
    <2>2. QED  BY <2>1 DEF Rewrites, SeqFacts
  <1> HIDE DEF new
  <1>5. StampsFollow'
    <2>1. SUFFICES ASSUME NEW i \in DOMAIN meta', meta'[i].xmax # NoXid
                   PROVE  meta'[i].xmax = meta'[i].xmin \/ DidCommit(xact, meta'[i].xmin)
      BY <1>4 DEF StampsFollow
    <2>2. i \in DOMAIN meta
      BY <1>1, <1>4, <2>1
    <2>3. CASE i \in gone
      BY <1>1, <1>2, <2>2, <2>3
    <2>4. CASE i \notin gone
      BY <1>1, <2>1, <2>2, <2>4 DEF IInv, MetaInv, StampsFollow
    <2>5. QED  BY <2>3, <2>4
  <1>6. RowsStay'
    <2>1. SUFFICES ASSUME NEW c \in Backend, NEW i \in DOMAIN meta', IsOwn(xid[c], meta'[i].xmax)
                   PROVE  \E j \in DOMAIN meta' :
                            /\ meta'[j].tbl = meta'[i].tbl
                            /\ meta'[j].xmin = xid[c] /\ meta'[j].xmax # xid[c]
      BY <1>4 DEF RowsStay
    <2>2. i \in DOMAIN meta /\ xid[c] # NoXid
      BY <1>1, <1>4, <2>1 DEF IsOwn
    <2>3. CASE i \in gone
      <3>1. c = b
        BY <1>1, <1>3, <2>1, <2>2, <2>3 DEF IsOwn
      <3>2. QED  BY <1>1, <1>4, <2>2, <2>3, <3>1
    <2>4. CASE i \notin gone
      <3>1. PICK j \in DOMAIN meta : /\ meta[j].tbl = meta[i].tbl
                                     /\ meta[j].xmin = xid[c] /\ meta[j].xmax # xid[c]
        BY <1>1, <2>1, <2>2, <2>4 DEF IInv, MetaInv, RowsStay
      <3>2. CASE j \in gone
        <4>1. c = b
          BY <1>2, <1>3, <2>2, <3>1, <3>2
        <4>2. QED  BY <1>1, <1>4, <2>2, <3>1, <3>2, <4>1
      <3>3. CASE j \notin gone
        BY <1>1, <2>2, <3>1, <3>3
      <3>4. QED  BY <3>2, <3>3
    <2>5. QED  BY <2>3, <2>4
  <1>7. Base' = Base
    <2>1. \A i \in DOMAIN meta : i \in Base' <=> i \in Base
      BY <1>1, <1>2, <1>3, <1>4 DEF Base
    <2>2. new \notin Base' /\ Base \subseteq DOMAIN meta /\ Base' \subseteq DOMAIN meta'
      BY <1>3, <1>4 DEF Base
    <2>3. QED  BY <1>1, <2>1, <2>2
  <1>8. ASSUME NEW c \in Backend, c # b PROVE Own(c)' = Own(c) /\ (Rotated(c)' <=> Rotated(c))
    <2>1. \A i \in DOMAIN meta : i \in Own(c)' <=> i \in Own(c)
      BY <1>1, <1>2, <1>3, <1>4, <1>8 DEF Own, IsOwn
    <2>2. new \notin Own(c)' /\ Own(c) \subseteq DOMAIN meta /\ Own(c)' \subseteq DOMAIN meta'
      BY <1>3, <1>4, <1>8 DEF Own, IsOwn
    <2>3. \A i \in Base : IsOwn(xid[c], meta'[i].xmax) <=> IsOwn(xid[c], meta[i].xmax)
      BY <1>1, <1>2, <1>3, <1>8 DEF IsOwn, Base
    <2>4. QED  BY <1>1, <1>4, <1>7, <2>1, <2>2, <2>3 DEF Rotated
  <1>9. Own(b)' = (Own(b) \ gone) \cup {i \in {new} : r.active}
    <2>1. \A i \in DOMAIN meta : i \in Own(b)' <=> i \in Own(b) /\ i \notin gone
      BY <1>1, <1>4 DEF Own, IsOwn
    <2>2. new \in Own(b)' <=> r.active
      BY <1>4 DEF Own, IsOwn, NoXid
    <2>3. Own(b) \subseteq DOMAIN meta /\ Own(b)' \subseteq DOMAIN meta'
      BY DEF Own
    <2>4. QED  BY <1>1, <2>1, <2>2, <2>3
  <1>10. Rotated(b)' <=> Rotated(b) \/ gone \cap Base # {}
    <2>1. \A i \in Base : IsOwn(xid[b], meta'[i].xmax) <=> IsOwn(xid[b], meta[i].xmax) \/ i \in gone
      BY <1>1 DEF IsOwn, Base
    <2>2. QED  BY <1>4, <1>7, <2>1 DEF Rotated
  <1>11. ASSUME NEW c \in Backend, c # b, NEW t PROVE RowsOf(c, t) \subseteq RowsOf(c, t)'
    <2>1. \A i \in RowsOf(c, t) : i \in DOMAIN meta /\ meta[i].tbl = t /\ TupleIsLive(xact, xid[c], meta[i])
      BY DEF RowsOf, VisibleRows
    <2>2. \A i \in RowsOf(c, t) : TupleIsLive(xact, xid[c], meta'[i])
      BY <1>1, <1>3, <1>11, <2>1 DEF TupleIsLive, IsOwn, DidCommit
    <2>3. QED  BY <1>1, <1>4, <2>1, <2>2 DEF RowsOf, VisibleRows
  <1>12. QED  BY <1>5, <1>6, <1>7, <1>8, <1>9, <1>10, <1>11 DEF new

\* So of such a step it is enough to show that there is one active row again.
LEMMA MetaStep ==
    ASSUME IInv, UNCHANGED <<xact, xid, etup, maker, node, head, calm>>,
           NEW b \in Backend, xid[b] # NoXid, Alone(b),
           NEW gone, NEW r, Rewrites(b, gone, r), meta' \in Seq(MetaRow),
           pc'[b] \in Steps \ Compacting, loc'[b] \in Locals', SetAt(b)',
           pc'[b] = "addActive" => Rotated(b) \/ gone \cap Base # {},
           IF (Rotated(b) \/ gone \cap Base # {}) /\ pc'[b] # "addActive"
             THEN \E i : (Own(b) \ gone) \cup {k \in {Len(meta) + 1} : r.active} = {i}
             ELSE (Own(b) \ gone) \cup {k \in {Len(meta) + 1} : r.active} = {}
    PROVE  IInv'
  <1>1. SeqFacts
    BY Facts DEF IInv
  <1>2. /\ StampsFollow' /\ RowsStay' /\ Base' = Base
        /\ \A c \in Backend : c # b => Own(c)' = Own(c) /\ (Rotated(c)' <=> Rotated(c))
        /\ Own(b)' = (Own(b) \ gone) \cup {i \in {Len(meta) + 1} : r.active}
        /\ Rotated(b)' <=> Rotated(b) \/ gone \cap Base # {}
        /\ \A c \in Backend : c # b => \A t : RowsOf(c, t) \subseteq RowsOf(c, t)'
    BY MetaWritten
  <1>3. /\ \A c \in Backend : c # b => loc'[c] = loc[c] /\ pc'[c] = pc[c]
        /\ pc' \in [Backend -> Steps]
    BY DEF Alone, IInv, ListInv, LocalsOK, TypeOK
  <1>4. TypeOK'
    <2>1. MetaRow' = MetaRow /\ Node' = Node
      BY DEF MetaRow, Node, Member
    <2>2. QED  BY <1>3, <2>1 DEF IInv, TypeOK
  <1>5. Grows
    <2>1. \A i \in DOMAIN meta : meta'[i].active = meta[i].active
      BY RewrittenRows
    <2>2. Len(meta) <= Len(meta')
      BY <1>1 DEF Rewrites, SeqFacts
    <2>3. QED  BY <1>1, <2>1, <2>2 DEF Grows, SeqFacts
  <1>6. ListInv'
    <2>1. LocalsOK'
      BY <1>4, <1>5, LocalsKept DEF IInv, ListInv
    <2>2. RecordsFollow' /\ BlocksLeadDown'
      BY DEF IInv, ListInv, RecordsFollow, BlocksLeadDown, Lists, TableOf
    <2>3. QED  BY <2>1, <2>2 DEF ListInv
  <1>7. XactsHeld'
    BY <1>3 DEF IInv, MetaInv, XactsHeld
  <1>8. RowsHeld'
    <2>1. SUFFICES ASSUME NEW c \in Backend, pc'[c] \in Compacting
                   PROVE  RowsOf(c, loc[c].tbl)' # {}
      BY DEF RowsHeld
    <2>2. c # b
      BY <2>1
    <2>3. PICK t : t = loc[c].tbl
      OBVIOUS
    <2>4. RowsOf(c, t) # {}
      BY <1>3, <2>1, <2>2, <2>3 DEF IInv, MetaInv, RowsHeld
    <2>5. RowsOf(c, t)' # {} /\ loc'[c].tbl = t
      BY <1>2, <1>3, <2>2, <2>3, <2>4
    <2>6. QED  BY <2>5 DEF RowsOf, VisibleRows
  <1>9. OneBase'
    BY <1>2 DEF IInv, MetaInv, OneBase
  <1>10. OwnReplaces'
    <2>1. SUFFICES ASSUME NEW c \in Backend
                   PROVE  /\ pc'[c] = "addActive" => Rotated(c)'
                          /\ IF Rotated(c)' /\ pc'[c] # "addActive"
                               THEN \E i : Own(c)' = {i} ELSE Own(c)' = {}
      BY DEF OwnReplaces
    <2>2. CASE c = b
      BY <1>2, <2>2
    <2>3. CASE c # b
      BY <1>2, <1>3, <2>3 DEF IInv, MetaInv, OwnReplaces
    <2>4. QED  BY <2>2, <2>3
  <1>11. QED  BY <1>2, <1>4, <1>6, <1>7, <1>8, <1>9, <1>10 DEF IInv, MetaInv

LEMMA ReplaceRewrites ==
    ASSUME IInv, NEW b \in Backend, xid[b] # NoXid, loc[b].row \in DOMAIN meta,
           NEW row \in MetaRow, row.tbl = meta[loc[b].row].tbl, ReplaceMeta(b, row)
    PROVE  \E gone, r : /\ gone = {loc[b].row} /\ r.active = row.active /\ r.compacted = row.compacted
                        /\ Rewrites(b, gone, r) /\ meta' \in Seq(MetaRow)
  <1> DEFINE i == loc[b].row
             x == [meta[i] EXCEPT !.xmax = xid[b]]
             r == [row EXCEPT !.xmin = xid[b], !.xmax = NoXid]
             M == [meta EXCEPT ![i] = x]
  <1>1. SeqFacts /\ meta \in Seq(MetaRow) /\ xid[b] \in XidsOf(xact) /\ NoXid \in XidsOf(xact)
    BY Facts DEF IInv, TypeOK, XidsOf
  <1>2. meta[i] \in MetaRow
    BY <1>1 DEF SeqFacts
  <1>3. x \in MetaRow
    BY <1>1, <1>2 DEF MetaRow
  <1>4. r \in MetaRow /\ r.xmin = xid[b] /\ r.xmax = NoXid /\ r.tbl = meta[i].tbl
        /\ r.active = row.active /\ r.compacted = row.compacted
    BY <1>1 DEF MetaRow
  <1>5. meta' = Append(M, r) /\ MayReplace(xact, xid[b], meta[i])
    BY <1>2 DEF ReplaceMeta
  <1>6. /\ M \in Seq(MetaRow) /\ Len(M) = Len(meta) /\ M[i] = x
        /\ \A k \in DOMAIN meta : k # i => M[k] = meta[k]
    BY <1>1, <1>3, ExceptSeq
  <1> HIDE DEF x, r, M, i
  <1>7. /\ meta' \in Seq(MetaRow) /\ Len(meta') = Len(meta) + 1 /\ DOMAIN meta' = 1 .. Len(meta) + 1
        /\ meta'[Len(meta) + 1] = r /\ \A k \in DOMAIN meta : meta'[k] = M[k]
    BY <1>1, <1>4, <1>5, <1>6 DEF SeqFacts
  <1>8. \A k \in DOMAIN meta : meta'[k] = IF k \in {i} THEN [meta[k] EXCEPT !.xmax = xid[b]] ELSE meta[k]
    BY <1>6, <1>7 DEF x
  <1>9. i \in DOMAIN meta
    BY DEF i
  <1>10. Rewrites(b, {i}, r)
    BY <1>4, <1>5, <1>7, <1>8, <1>9 DEF Rewrites
  <1>11. QED  BY <1>4, <1>7, <1>10 DEF i

\* A row a backend may replace is one it sees.
LEMMA ReplacedIsSeen ==
    ASSUME IInv, NEW b \in Backend, pc[b] # "addActive", NEW i \in DOMAIN meta,
           MayReplace(xact, xid[b], meta[i])
    PROVE  /\ meta[i].active  => Own(b) \ {i} = {} /\ (Rotated(b) \/ {i} \cap Base # {})
           /\ ~meta[i].active => Own(b) \ {i} = Own(b) /\ {i} \cap Base = {}
  <1>1. CASE meta[i].active
    <2>1. i \in ActiveRows(b)
      BY <1>1 DEF ActiveRows, VisibleRows, MayReplace
    <2>2. ActiveRows(b) = {i}
      BY <2>1, OneActiveRow DEF IInv
    <2>3. Own(b) \ {i} = {}
      BY <2>2, ActiveIsOwnOrBase DEF IInv
    <2>4. Rotated(b) \/ i \in Base
      BY <2>1, ActiveIsOwnOrBase DEF IInv, MetaInv, OwnReplaces
    <2>5. QED  BY <1>1, <2>3, <2>4
  <1>2. CASE ~meta[i].active
    BY <1>2 DEF Own, Base
  <1>3. QED  BY <1>1, <1>2

LEMMA CloseActiveStep ==
    ASSUME IInv, NEW b \in Backend, CloseActive(b) PROVE IInv'
  <1>1. /\ loc \in [Backend -> Locals] /\ loc[b] \in Locals /\ pc \in [Backend -> Steps]
        /\ SetAt(b) /\ xid[b] # NoXid /\ pc[b] = "close" /\ SeqFacts
    BY AtStep DEF CloseActive
  <1> DEFINE i == loc[b].row
             row == [meta[i] EXCEPT !.active = FALSE]
  <1>2. /\ loc[b].tbl # ArrayList /\ i # Nil /\ meta[i].active
        /\ i \in 0 .. Len(meta)
    BY <1>1 DEF SetAt, Locals
  <1>3. i \in DOMAIN meta
    BY <1>1, <1>2 DEF SeqFacts, Nil
  <1>4. meta[i] \in MetaRow
    BY <1>1, <1>3 DEF SeqFacts
  <1>5. row \in MetaRow /\ row.tbl = meta[i].tbl /\ ~row.active
    BY <1>4 DEF MetaRow
  <1>6. /\ ReplaceMeta(b, row) /\ pc' = [pc EXCEPT ![b] = "addActive"]
        /\ UNCHANGED <<xact, xid, etup, maker, node, head, loc, calm>>
    BY DEF CloseActive, Goto
  <1> HIDE DEF row
  <1>7. PICK gone, r : /\ gone = {i} /\ r.active = row.active
                       /\ Rewrites(b, gone, r) /\ meta' \in Seq(MetaRow)
    BY <1>1, <1>3, <1>5, <1>6, ReplaceRewrites
  <1>8. /\ MayReplace(xact, xid[b], meta[i])
        /\ Own(b) \ gone = {} /\ (Rotated(b) \/ gone \cap Base # {})
    <2>1. MayReplace(xact, xid[b], meta[i])
      BY <1>6 DEF ReplaceMeta
    <2>2. QED  BY <1>1, <1>2, <1>3, <1>7, <2>1, ReplacedIsSeen
  <1>9. (Own(b) \ gone) \cup {k \in {Len(meta) + 1} : r.active} = {}
    BY <1>5, <1>7, <1>8
  <1>10. Alone(b) /\ loc'[b] = loc[b] /\ pc'[b] = "addActive"
    BY <1>1, <1>6 DEF Alone
  <1>11. loc'[b] \in Locals'
    <2>1. Job' = Job /\ Lists' = Lists
      BY <1>6 DEF Job, Member, Lists, Arrays, TableOf
    <2>2. 0 .. Len(meta) \subseteq 0 .. Len(meta')
      BY <1>1, <1>7 DEF Rewrites, SeqFacts
    <2>3. QED  BY <1>1, <1>6, <1>10, <2>1, <2>2 DEF Locals
  <1>12. SetAt(b)'
    BY <1>2, <1>10 DEF SetAt, Inserting
  <1>13. "addActive" \in Steps \ Compacting
    BY DEF Steps, Compacting
  <1>14. QED  BY <1>1, <1>6, <1>7, <1>8, <1>9, <1>10, <1>11, <1>12, <1>13, MetaStep

LEMMA MarkStep ==
    ASSUME IInv, NEW b \in Backend, Mark(b) PROVE IInv'
  <1>1. /\ loc \in [Backend -> Locals] /\ loc[b] \in Locals /\ pc \in [Backend -> Steps]
        /\ SetAt(b) /\ xid[b] # NoXid /\ pc[b] = "mark" /\ SeqFacts
    BY AtStep DEF Mark
  <1> DEFINE i == loc[b].row
             row == [meta[i] EXCEPT !.compacted = TRUE]
  <1>2. i # Nil /\ i \in 0 .. Len(meta)
    BY <1>1 DEF SetAt, Locals
  <1>3. i \in DOMAIN meta
    BY <1>1, <1>2 DEF SeqFacts, Nil
  <1>4. meta[i] \in MetaRow
    BY <1>1, <1>3 DEF SeqFacts
  <1>5. row \in MetaRow /\ row.tbl = meta[i].tbl /\ row.active = meta[i].active
    BY <1>4 DEF MetaRow
  <1>6. /\ ReplaceMeta(b, row) /\ Return(b)
        /\ UNCHANGED <<xact, xid, etup, maker, node, head, calm>>
    BY DEF Mark
  <1> HIDE DEF row
  <1>7. PICK gone, r : /\ gone = {i} /\ r.active = row.active
                       /\ Rewrites(b, gone, r) /\ meta' \in Seq(MetaRow)
    BY <1>1, <1>3, <1>5, <1>6, ReplaceRewrites
  <1>8. /\ meta[i].active  => Own(b) \ gone = {} /\ (Rotated(b) \/ gone \cap Base # {})
        /\ ~meta[i].active => Own(b) \ gone = Own(b) /\ gone \cap Base = {}
    <2>1. MayReplace(xact, xid[b], meta[i])
      BY <1>6 DEF ReplaceMeta
    <2>2. QED  BY <1>1, <1>3, <1>7, <2>1, ReplacedIsSeen
  <1>9. Alone(b) /\ pc'[b] = "idle" /\ loc'[b] \in Locals /\ SetAt(b)'
    BY <1>6, Returned
  <1>10. loc'[b] \in Locals'
    <2>1. Job' = Job /\ Lists' = Lists
      BY <1>1, <1>6, <1>7 DEF Job, Member, Lists, Arrays, TableOf
    <2>2. 0 .. Len(meta) \subseteq 0 .. Len(meta')
      BY <1>1, <1>7 DEF Rewrites, SeqFacts
    <2>3. PICK l : l = loc'[b]
      OBVIOUS
    <2>4. l \in Locals'
      BY <1>6, <1>9, <2>1, <2>2, <2>3 DEF Locals
    <2>5. QED  BY <2>3, <2>4
  <1>11. IF Rotated(b) \/ gone \cap Base # {}
           THEN \E k : (Own(b) \ gone) \cup {n \in {Len(meta) + 1} : r.active} = {k}
           ELSE (Own(b) \ gone) \cup {n \in {Len(meta) + 1} : r.active} = {}
    <2>1. CASE meta[i].active
      <3>1. {n \in {Len(meta) + 1} : r.active} = {Len(meta) + 1}
        BY <1>5, <1>7, <2>1
      <3>2. Own(b) \ gone = {} /\ (Rotated(b) \/ gone \cap Base # {})
        BY <1>8, <2>1
      <3>3. (Own(b) \ gone) \cup {n \in {Len(meta) + 1} : r.active} = {Len(meta) + 1}
        BY <3>1, <3>2
      <3>4. QED  BY <3>2, <3>3
    <2>2. CASE ~meta[i].active
      <3>1. {n \in {Len(meta) + 1} : r.active} = {}
        BY <1>5, <1>7, <2>2
      <3>2. IF Rotated(b) THEN \E k : Own(b) = {k} ELSE Own(b) = {}
        BY <1>1 DEF IInv, MetaInv, OwnReplaces
      <3>3. QED  BY <1>8, <2>2, <3>1, <3>2
    <2>3. QED  BY <2>1, <2>2
  <1>12. "idle" \in Steps \ Compacting
    BY DEF Steps, Compacting
  <1>13. QED  BY <1>1, <1>6, <1>7, <1>9, <1>10, <1>11, <1>12, MetaStep

LEMMA AddActiveStep ==
    ASSUME IInv, NEW b \in Backend, AddActive(b) PROVE IInv'
  <1>1. /\ loc \in [Backend -> Locals] /\ loc[b] \in Locals /\ pc \in [Backend -> Steps]
        /\ SetAt(b) /\ xid[b] # NoXid /\ pc[b] = "addActive" /\ SeqFacts
        /\ xid[b] \in XidsOf(xact)
    BY AtStep DEF AddActive
  <1> DEFINE r == [tbl |-> loc[b].tbl, active |-> TRUE, compacted |-> FALSE,
                   xmin |-> xid[b], xmax |-> NoXid]
  <1>2. loc[b].tbl # ArrayList /\ loc[b].tbl \in 0 .. Len(maker)
    BY <1>1 DEF SetAt, Locals
  <1>3. r \in MetaRow /\ r.xmin = xid[b] /\ r.xmax = NoXid /\ r.active
    BY <1>1, <1>2 DEF MetaRow, SeqFacts, XidsOf, ArrayList
  <1>4. /\ meta' = Append(meta, r) /\ meta \in Seq(MetaRow)
        /\ UNCHANGED <<xact, xid, etup, maker, node, head, calm>>
    BY DEF AddActive, IInv, TypeOK
  <1> HIDE DEF r
  <1>5. /\ meta' \in Seq(MetaRow) /\ Len(meta') = Len(meta) + 1 /\ DOMAIN meta' = 1 .. Len(meta) + 1
        /\ meta'[Len(meta) + 1] = r /\ \A k \in DOMAIN meta : meta'[k] = meta[k]
    BY <1>1, <1>3, <1>4 DEF SeqFacts
  <1>6. PICK gone : gone = {}
    OBVIOUS
  <1>7. Rewrites(b, gone, r)
    BY <1>3, <1>5, <1>6 DEF Rewrites
  <1>8. Alone(b) /\ pc'[b] \in {"idle", "pick"} /\ loc'[b] \in Locals /\ SetAt(b)'
    <2>1. CASE loc[b].then = "return"
      BY <2>1, Returned DEF AddActive
    <2>2. CASE loc[b].then # "return"
      <3>1. pc' = [pc EXCEPT ![b] = "pick"] /\ loc' = loc
        BY <2>2 DEF AddActive, Goto
      <3>2. Alone(b) /\ pc'[b] = "pick" /\ loc'[b] \in Locals
        BY <1>1, <3>1 DEF Alone
      <3>3. QED  BY <3>2 DEF SetAt, Inserting
    <2>3. QED  BY <2>1, <2>2
  <1>9. loc'[b] \in Locals'
    <2>1. Job' = Job /\ Lists' = Lists
      BY <1>4 DEF Job, Member, Lists, Arrays, TableOf
    <2>2. 0 .. Len(meta) \subseteq 0 .. Len(meta')
      BY <1>1, <1>5 DEF SeqFacts
    <2>3. PICK l : l = loc'[b]
      OBVIOUS
    <2>4. l \in Locals'
      BY <1>4, <1>8, <2>1, <2>2, <2>3 DEF Locals
    <2>5. QED  BY <2>3, <2>4
  <1>10. Rotated(b) /\ \E k : (Own(b) \ gone) \cup {n \in {Len(meta) + 1} : r.active} = {k}
    <2>1. Rotated(b) /\ Own(b) = {}
      BY <1>1 DEF IInv, MetaInv, OwnReplaces
    <2>2. (Own(b) \ gone) \cup {n \in {Len(meta) + 1} : r.active} = {Len(meta) + 1}
      BY <1>3, <2>1
    <2>3. QED  BY <2>1, <2>2
  <1>11. {"idle", "pick"} \subseteq Steps \ Compacting /\ pc'[b] # "addActive"
    BY <1>8 DEF Steps, Compacting
  <1>12. QED  BY <1>1, <1>4, <1>5, <1>7, <1>8, <1>9, <1>10, <1>11, MetaStep

\* The row that is to be closed is the active one.
LEMMA RotateStep ==
    ASSUME IInv, NEW b \in Backend, NEW then \in {"return", "compact"},
           CanCall(b), Rotate(b, then)
    PROVE  IInv'
  <1>1. /\ loc \in [Backend -> Locals] /\ loc[b] \in Locals /\ pc \in [Backend -> Steps]
        /\ xid[b] # NoXid /\ pc[b] = "idle" /\ SeqFacts /\ xid[b] \in DOMAIN xact
        /\ head \in [Vertex -> 0 .. Len(node)]
    BY AtStep DEF CanCall, XidsOf
  <1> DEFINE t == Len(maker) + 1
             r == FirstOf(ActiveRows(b))
             l == [loc[b] EXCEPT !.tbl = t, !.then = then, !.ddl = TRUE, !.row = r]
  <1>2. r \in DOMAIN meta /\ meta[r].active
    BY <1>1, OneActiveRow DEF IInv
  <1>3. /\ maker' = Append(maker, xid[b]) /\ loc' = [loc EXCEPT ![b] = l]
        /\ pc' = [pc EXCEPT ![b] = "close"]
        /\ UNCHANGED <<xact, xid, etup, meta, node, head, calm>>
    BY <1>1 DEF Rotate, Goto
  <1> HIDE DEF r
  <1>4. /\ maker' \in Seq(DOMAIN xact) /\ Len(maker') = Len(maker) + 1
        /\ DOMAIN maker \subseteq DOMAIN maker' /\ 0 .. Len(maker) \subseteq 0 .. Len(maker')
        /\ t \in 0 .. Len(maker') /\ t # ArrayList
    <2>1. maker \in Seq(DOMAIN xact)
      BY DEF IInv, TypeOK
    <2>2. maker' \in Seq(DOMAIN xact) /\ Len(maker') = Len(maker) + 1
          /\ DOMAIN maker' = 1 .. Len(maker) + 1
      BY <1>1, <1>3, <2>1
    <2>3. QED  BY <1>1, <2>2 DEF SeqFacts, ArrayList
  <1>5. TypeOK'
    <2>1. MetaRow \subseteq MetaRow'
      BY <1>3, <1>4 DEF MetaRow
    <2>2. Node \subseteq Node'
      BY <1>3, <1>4 DEF Node, Member
    <2>3. meta \in Seq(MetaRow') /\ node \in Seq(Node')
      BY <2>1, <2>2, SeqMonotonic DEF IInv, TypeOK
    <2>4. pc' \in [Backend -> Steps]
      BY <1>1, <1>3 DEF Steps
    <2>5. QED  BY <1>3, <1>4, <2>3, <2>4 DEF IInv, TypeOK
  <1>6. RecordsFollow' /\ BlocksLeadDown'
    BY <1>3 DEF IInv, ListInv, RecordsFollow, BlocksLeadDown, Lists, TableOf
  <1>7. l \in Locals' /\ l.tbl = t /\ l.row = r
    <2>1. Job' = Job /\ Lists' = Lists
      BY <1>3 DEF Job, Member, Lists, Arrays, TableOf
    <2>2. r \in 0 .. Len(meta)
      BY <1>1, <1>2 DEF SeqFacts
    <2>3. loc[b] \in Locals'
      BY <1>1, <1>3, <1>4, <2>1 DEF Locals
    <2> HIDE DEF t
    <2>4. l.tbl = t /\ l.row = r
      BY <1>1 DEF Locals
    <2>5. t \in 0 .. Len(maker') /\ r \in 0 .. Len(meta')
      BY <1>3, <1>4, <2>2
    <2>6. QED  BY <2>3, <2>4, <2>5 DEF Locals
  <1>8. Alone(b) /\ loc'[b] = l /\ pc'[b] = "close"
    BY <1>1, <1>3 DEF Alone
  <1> HIDE DEF l, t
  <1>9. SetAt(b)'
    <2>1. r # Nil
      BY <1>1, <1>2 DEF SeqFacts, Nil
    <2>2. QED  BY <1>2, <1>3, <1>4, <1>7, <1>8, <2>1 DEF SetAt, Inserting
  <1>10. Len(maker) <= Len(maker') /\ Len(node) <= Len(node')
    BY <1>1, <1>3, <1>4 DEF SeqFacts
  <1>11. QED
    BY <1>1, <1>3, <1>5, <1>6, <1>7, <1>8, <1>9, <1>10, StepKept DEF Compacting
-----------------------------------------------------------------------------
(* Transactions begin and end.                                              *)

LEMMA BeginStep ==
    ASSUME IInv, NEW b \in Backend, Begin(b) PROVE IInv'
  <1>1. /\ loc \in [Backend -> Locals] /\ loc[b] \in Locals /\ SetAt(b)
        /\ xid[b] = NoXid /\ pc[b] = "idle" /\ SeqFacts
    BY AtStep DEF Begin
  <1>2. /\ xact' = Append(xact, "running") /\ xid' = [xid EXCEPT ![b] = Len(xact) + 1]
        /\ UNCHANGED <<pc, etup, meta, maker, node, head, loc>> /\ calm' \in BOOLEAN
    BY DEF Begin, data, IInv, TypeOK
  <1> DEFINE x == Len(xact) + 1
  <1>3. /\ xact' \in Seq(XactStatus) /\ DOMAIN xact' = 1 .. x
        /\ \A y \in DOMAIN xact : xact'[y] = xact[y]
        /\ xact'[x] = "running" /\ x \notin XidsOf(xact) /\ x # NoXid
    BY <1>1, <1>2 DEF IInv, TypeOK, SeqFacts, XactStatus, XidsOf, NoXid
  <1>4. DOMAIN xact \subseteq DOMAIN xact' /\ XidsOf(xact) \subseteq XidsOf(xact') /\ x \in XidsOf(xact')
    BY <1>1, <1>3 DEF SeqFacts, XidsOf, NoXid
  <1>5. xid' \in [Backend -> XidsOf(xact')] /\ xid'[b] = x
        /\ \A c \in Backend : c # b => xid'[c] = xid[c]
    BY <1>2, <1>4 DEF IInv, TypeOK
  <1> HIDE DEF x
  <1>6. TypeOK'
    <2>1. MetaRow \subseteq MetaRow' /\ Member \subseteq Member'
      BY <1>2, <1>4 DEF MetaRow, Member
    <2>2. Node \subseteq Node'
      <3>1. Seq(Member) \subseteq Seq(Member')
        BY <2>1, SeqMonotonic
      <3>2. QED  BY <1>2, <1>4, <3>1 DEF Node
    <2>3. meta \in Seq(MetaRow') /\ node \in Seq(Node') /\ maker \in Seq(DOMAIN xact')
      BY <1>4, <2>1, <2>2, SeqMonotonic DEF IInv, TypeOK
    <2>4. etup \in [Entry -> [xmin : XidsOf(xact'), xmax : XidsOf(xact')]]
      BY <1>4 DEF IInv, TypeOK
    <2>5. QED  BY <1>2, <1>3, <1>5, <2>3, <2>4 DEF IInv, TypeOK
  <1>7. ListInv'
    <2>1. Grows
      BY <1>1, <1>2, <1>4 DEF Grows, SeqFacts
    <2>2. loc[b] \in Locals'
      BY <1>1, <1>6, <2>1, LocalsGrow DEF IInv
    <2>3. Alone(b) /\ SetAt(b)'
      <3>1. Alone(b)
        BY <1>1, <1>2 DEF Alone, IInv, TypeOK
      <3>2. SetAt(b)'
        BY <1>1, <1>2 DEF SetAt, Inserting
      <3>3. QED  BY <3>1, <3>2
    <2>4. LocalsOK'
      BY <1>2, <1>6, <2>1, <2>2, <2>3, LocalsKept DEF IInv, ListInv
    <2>5. RecordsFollow' /\ BlocksLeadDown'
      BY <1>2 DEF IInv, ListInv, RecordsFollow, BlocksLeadDown, Lists, TableOf
    <2>6. QED  BY <2>4, <2>5 DEF ListInv
  <1>8. \A i \in DOMAIN meta : meta[i].xmin \in XidsOf(xact) /\ meta[i].xmax \in XidsOf(xact)
    BY <1>1 DEF SeqFacts, MetaRow
  <1>9. \A y \in XidsOf(xact) : DidCommit(xact', y) <=> DidCommit(xact, y)
    BY <1>3 DEF DidCommit, XidsOf
  <1>10. XactsHeld'
    <2>1. \A c \in Backend : xid[c] # NoXid => xid[c] \in DOMAIN xact
      BY DEF IInv, TypeOK, XidsOf
    <2>2. \A c \in Backend : c # b => xid[c] # x
      BY <1>3 DEF IInv, TypeOK
    <2>3. QED  BY <1>1, <1>2, <1>3, <1>5, <2>1, <2>2 DEF IInv, MetaInv, XactsHeld
  <1>11. StampsFollow'
    BY <1>2, <1>8, <1>9 DEF IInv, MetaInv, StampsFollow
  <1>12. RowsStay'
    <2>1. SUFFICES ASSUME NEW c \in Backend, NEW i \in DOMAIN meta, IsOwn(xid'[c], meta[i].xmax)
                   PROVE  \E j \in DOMAIN meta : /\ meta[j].tbl = meta[i].tbl
                                                 /\ meta[j].xmin = xid'[c] /\ meta[j].xmax # xid'[c]
      BY <1>2 DEF RowsStay
    <2>2. c # b
      BY <1>3, <1>5, <1>8, <2>1 DEF IsOwn
    <2>3. QED  BY <1>5, <2>1, <2>2 DEF IInv, MetaInv, RowsStay
  <1>13. RowsHeld'
    <2>1. SUFFICES ASSUME NEW c \in Backend, pc[c] \in Compacting
                   PROVE  RowsOf(c, loc[c].tbl)' # {}
      BY <1>2 DEF RowsHeld
    <2>2. c # b
      BY <1>1, <2>1 DEF Compacting
    <2>3. RowsOf(c, loc[c].tbl)' = RowsOf(c, loc[c].tbl)
      BY <1>2, <1>5, <1>8, <1>9, <2>2 DEF RowsOf, VisibleRows, TupleIsLive
    <2>4. QED  BY <2>1, <2>3 DEF IInv, MetaInv, RowsHeld
  <1>14. Base' = Base
    BY <1>2, <1>8, <1>9 DEF Base
  <1>15. /\ ~Rotated(b)' /\ Own(b)' = {}
         /\ \A c \in Backend : c # b => Own(c)' = Own(c) /\ (Rotated(c)' <=> Rotated(c))
    <2>1. \A i \in DOMAIN meta : meta[i].xmin # x /\ meta[i].xmax # x
      BY <1>3, <1>8
    <2>2. ~Rotated(b)' /\ Own(b)' = {}
      BY <1>2, <1>5, <2>1 DEF Rotated, Own, Base, IsOwn
    <2>3. \A c \in Backend : c # b => Own(c)' = Own(c) /\ (Rotated(c)' <=> Rotated(c))
      BY <1>2, <1>5, <1>14 DEF Rotated, Own
    <2>4. QED  BY <2>2, <2>3
  <1>16. OneBase' /\ OwnReplaces'
    BY <1>1, <1>2, <1>14, <1>15 DEF IInv, MetaInv, OneBase, OwnReplaces
  <1>17. QED  BY <1>6, <1>7, <1>10, <1>11, <1>12, <1>13, <1>16 DEF IInv, MetaInv

LEMMA NoLocalsFit == ASSUME SeqFacts PROVE NoLocals \in Locals
  <1>1. /\ Nil \in 0 .. Len(maker) /\ Nil \in 0 .. Len(meta) /\ Nil \in 0 .. Len(node)
        /\ {} \in SUBSET Job
    BY DEF SeqFacts, Nil
  <1>2. QED  BY <1>1 DEF NoLocals, Locals

\* What does not depend on how a transaction ended.
LEMMA Ended ==
    ASSUME IInv, NEW b \in Backend, NEW status \in {"committed", "aborted"},
           xid[b] # NoXid, End(b, status), calm' \in BOOLEAN
    PROVE  /\ TypeOK' /\ ListInv' /\ XactsHeld'
           /\ xid' = [xid EXCEPT ![b] = NoXid] /\ pc' = [pc EXCEPT ![b] = "idle"]
           /\ \A c \in Backend : c # b => loc'[c] = loc[c]
           /\ UNCHANGED meta
           /\ DidCommit(xact', NoXid) = DidCommit(xact, NoXid)
           /\ \A y \in XidsOf(xact) : y # xid[b] => (DidCommit(xact', y) <=> DidCommit(xact, y))
           /\ ~DidCommit(xact, xid[b]) /\ (DidCommit(xact', xid[b]) <=> status = "committed")
  <1>1. /\ loc \in [Backend -> Locals] /\ pc \in [Backend -> Steps] /\ SeqFacts
        /\ xid[b] \in DOMAIN xact /\ xact[xid[b]] = "running"
        /\ xact \in Seq(XactStatus) /\ xid \in [Backend -> XidsOf(xact)]
    BY AtStep DEF XidsOf, IInv, TypeOK, MetaInv, XactsHeld
  <1>2. /\ xact' = [xact EXCEPT ![xid[b]] = status] /\ xid' = [xid EXCEPT ![b] = NoXid]
        /\ pc' = [pc EXCEPT ![b] = "idle"] /\ loc' = [loc EXCEPT ![b] = NoLocals]
        /\ UNCHANGED <<etup, meta, maker, node, head>>
    BY DEF End, Goto, data
  <1>3. /\ xact' \in Seq(XactStatus) /\ DOMAIN xact' = DOMAIN xact /\ XidsOf(xact') = XidsOf(xact)
        /\ xact'[xid[b]] = status /\ \A y \in DOMAIN xact : y # xid[b] => xact'[y] = xact[y]
    <2>1. status \in XactStatus
      BY DEF XactStatus
    <2>2. xact' \in Seq(XactStatus) /\ Len(xact') = Len(xact)
      BY <1>1, <1>2, <2>1
    <2>3. DOMAIN xact' = DOMAIN xact
      BY <1>1, <1>2
    <2>4. QED  BY <1>1, <1>2, <2>2, <2>3 DEF XidsOf
  <1>4. /\ pc' \in [Backend -> Steps] /\ pc'[b] = "idle"
        /\ loc'[b] = NoLocals /\ \A c \in Backend : c # b => loc'[c] = loc[c] /\ pc'[c] = pc[c]
    BY <1>1, <1>2 DEF Steps
  <1>5. xid' \in [Backend -> XidsOf(xact')] /\ xid'[b] = NoXid
        /\ \A c \in Backend : c # b => xid'[c] = xid[c]
    BY <1>1, <1>2, <1>3 DEF XidsOf
  <1>6. TypeOK'
    <2>1. MetaRow' = MetaRow /\ Node' = Node
      BY <1>2, <1>3 DEF MetaRow, Node, Member
    <2>2. QED  BY <1>2, <1>3, <1>4, <1>5, <2>1 DEF IInv, TypeOK
  <1>7. ListInv'
    <2>1. Grows
      BY <1>1, <1>2, <1>3 DEF Grows, SeqFacts
    <2>2. NoLocals \in Locals
      BY <1>1, NoLocalsFit
    <2>3. NoLocals \in Locals'
      BY <1>6, <2>1, <2>2, LocalsGrow DEF IInv
    <2>4. Alone(b) /\ SetAt(b)'
      <3>1. Alone(b)
        BY <1>1, <1>2 DEF Alone
      <3>2. SetAt(b)'
        BY <1>4 DEF SetAt, Inserting
      <3>3. QED  BY <3>1, <3>2
    <2>5. LocalsOK'
      BY <1>4, <1>6, <2>1, <2>3, <2>4, LocalsKept DEF IInv, ListInv
    <2>6. RecordsFollow' /\ BlocksLeadDown'
      BY <1>2 DEF IInv, ListInv, RecordsFollow, BlocksLeadDown, Lists, TableOf
    <2>7. QED  BY <2>5, <2>6 DEF ListInv
  <1>8. XactsHeld'
    <2>1. \A c \in Backend : xid[c] # NoXid => xid[c] \in DOMAIN xact
      BY <1>1 DEF XidsOf
    <2>2. \A c \in Backend : c # b /\ xid[c] # NoXid => xid[c] # xid[b]
      BY DEF IInv, MetaInv, XactsHeld
    <2>3. QED  BY <1>3, <1>4, <1>5, <2>1, <2>2 DEF IInv, MetaInv, XactsHeld
  <1>9. \A y \in XidsOf(xact) : y # xid[b] => (DidCommit(xact', y) <=> DidCommit(xact, y))
    BY <1>3 DEF DidCommit, XidsOf
  <1>10. ~DidCommit(xact, xid[b]) /\ (DidCommit(xact', xid[b]) <=> status = "committed")
    BY <1>1, <1>3 DEF DidCommit, XidsOf, NoXid
  <1>11. DidCommit(xact', NoXid) = DidCommit(xact, NoXid)
    BY DEF DidCommit
  <1>12. QED  BY <1>2, <1>4, <1>6, <1>7, <1>8, <1>9, <1>10, <1>11

\* No row is stamped by a running transaction but those committed before it,
\* and its own.
LEMMA StampedByRunning ==
    ASSUME IInv, NEW b \in Backend, NEW i \in DOMAIN meta, IsOwn(xid[b], meta[i].xmin)
    PROVE  meta[i].xmax = NoXid \/ meta[i].xmax = xid[b]
    BY DEF IInv, MetaInv, XactsHeld, StampsFollow, IsOwn, DidCommit

\* After a transaction the rows of the others are theirs as before.
LEMMA OthersKeep ==
    ASSUME IInv, NEW b \in Backend, xid[b] # NoXid, UNCHANGED meta,
           xid' = [xid EXCEPT ![b] = NoXid],
           \A y \in XidsOf(xact) : y # xid[b] => (DidCommit(xact', y) <=> DidCommit(xact, y)),
           ~DidCommit(xact, xid[b])
    PROVE  /\ \A c \in Backend : c # b => xid'[c] = xid[c] /\ (xid[c] # NoXid => xid[c] # xid[b])
           /\ xid'[b] = NoXid
           /\ \A i \in DOMAIN meta : /\ meta[i].xmin \in XidsOf(xact) /\ meta[i].xmax \in XidsOf(xact)
                                     /\ DidCommit(xact, meta[i].xmin) => DidCommit(xact', meta[i].xmin)
           /\ \A c \in Backend : c # b => Own(c)' = Own(c)
           /\ Own(b)' = {} /\ ~Rotated(b)'
           /\ StampsFollow' /\ RowsStay'
  <1>1. SeqFacts /\ xid \in [Backend -> XidsOf(xact)]
    BY Facts DEF IInv, TypeOK
  <1>2. \A c \in Backend : c # b => xid'[c] = xid[c] /\ (xid[c] # NoXid => xid[c] # xid[b])
    BY <1>1 DEF IInv, MetaInv, XactsHeld
  <1>3. xid'[b] = NoXid
    BY <1>1
  <1>4. \A i \in DOMAIN meta : /\ meta[i].xmin \in XidsOf(xact) /\ meta[i].xmax \in XidsOf(xact)
                               /\ DidCommit(xact, meta[i].xmin) => DidCommit(xact', meta[i].xmin)
    BY <1>1 DEF SeqFacts, MetaRow
  <1>5. \A c \in Backend : c # b => Own(c)' = Own(c)
    BY <1>2 DEF Own
  <1>6. Own(b)' = {} /\ ~Rotated(b)'
    BY <1>3 DEF Own, Rotated, IsOwn
  <1>7. StampsFollow'
    BY <1>4 DEF IInv, MetaInv, StampsFollow
  <1>8. RowsStay'
    <2>1. SUFFICES ASSUME NEW c \in Backend, NEW i \in DOMAIN meta, IsOwn(xid'[c], meta[i].xmax)
                   PROVE  \E j \in DOMAIN meta : /\ meta[j].tbl = meta[i].tbl
                                                 /\ meta[j].xmin = xid'[c] /\ meta[j].xmax # xid'[c]
      BY DEF RowsStay
    <2>2. c # b
      BY <1>3, <2>1 DEF IsOwn
    <2>3. xid'[c] = xid[c]
      BY <1>2, <2>2
    <2>4. QED  BY <2>1, <2>3 DEF IInv, MetaInv, RowsStay
  <1>9. QED  BY <1>2, <1>3, <1>4, <1>5, <1>6, <1>7, <1>8

LEMMA AbortStep ==
    ASSUME IInv, NEW b \in Backend, Abort(b) PROVE IInv'
  <1>1. /\ TypeOK' /\ ListInv' /\ XactsHeld'
        /\ xid' = [xid EXCEPT ![b] = NoXid] /\ pc' = [pc EXCEPT ![b] = "idle"]
        /\ \A c \in Backend : c # b => loc'[c] = loc[c]
        /\ UNCHANGED meta
        /\ \A y \in XidsOf(xact) : y # xid[b] => (DidCommit(xact', y) <=> DidCommit(xact, y))
        /\ ~DidCommit(xact, xid[b]) /\ ~DidCommit(xact', xid[b])
    <2>1. xid[b] # NoXid /\ End(b, "aborted")
      BY DEF Abort
    <2>2. calm' \in BOOLEAN
      BY AtStep DEF Abort, IInv, TypeOK, Locals
    <2>3. QED  BY <2>1, <2>2, Ended
  <1>2. xid[b] # NoXid /\ pc \in [Backend -> Steps]
    BY DEF Abort, IInv, TypeOK
  <1>3. /\ \A c \in Backend : c # b => xid'[c] = xid[c] /\ (xid[c] # NoXid => xid[c] # xid[b])
        /\ xid'[b] = NoXid
        /\ \A i \in DOMAIN meta : /\ meta[i].xmin \in XidsOf(xact) /\ meta[i].xmax \in XidsOf(xact)
                                  /\ DidCommit(xact, meta[i].xmin) => DidCommit(xact', meta[i].xmin)
        /\ \A c \in Backend : c # b => Own(c)' = Own(c)
        /\ Own(b)' = {} /\ ~Rotated(b)'
        /\ StampsFollow' /\ RowsStay'
    BY <1>1, <1>2, OthersKeep
  <1>4. \A i \in DOMAIN meta : /\ DidCommit(xact', meta[i].xmin) <=> DidCommit(xact, meta[i].xmin)
                               /\ DidCommit(xact', meta[i].xmax) <=> DidCommit(xact, meta[i].xmax)
    BY <1>1, <1>3
  <1>5. Base' = Base
    BY <1>1, <1>4 DEF Base
  <1>6. \A c \in Backend : c # b => (Rotated(c)' <=> Rotated(c))
    BY <1>1, <1>3, <1>5 DEF Rotated
  <1>7. RowsHeld'
    <2>1. SUFFICES ASSUME NEW c \in Backend, pc'[c] \in Compacting
                   PROVE  RowsOf(c, loc[c].tbl)' # {}
      BY DEF RowsHeld
    <2>2. c # b
      BY <1>1, <1>2, <2>1 DEF Compacting
    <2>3. RowsOf(c, loc[c].tbl) # {}
      BY <1>1, <1>2, <2>1, <2>2 DEF IInv, MetaInv, RowsHeld
    <2>4. RowsOf(c, loc[c].tbl)' = RowsOf(c, loc[c].tbl)
      BY <1>1, <1>3, <1>4, <2>2 DEF RowsOf, VisibleRows, TupleIsLive
    <2>5. QED  BY <2>3, <2>4
  <1>8. OneBase' /\ OwnReplaces'
    BY <1>1, <1>2, <1>3, <1>5, <1>6 DEF IInv, MetaInv, OneBase, OwnReplaces
  <1>9. QED  BY <1>1, <1>3, <1>7, <1>8 DEF IInv, MetaInv

LEMMA CommitStep ==
    ASSUME IInv, NEW b \in Backend, Commit(b) PROVE IInv'
  <1>1. /\ TypeOK' /\ ListInv' /\ XactsHeld'
        /\ xid' = [xid EXCEPT ![b] = NoXid] /\ pc' = [pc EXCEPT ![b] = "idle"]
        /\ \A c \in Backend : c # b => loc'[c] = loc[c]
        /\ UNCHANGED meta
        /\ \A y \in XidsOf(xact) : y # xid[b] => (DidCommit(xact', y) <=> DidCommit(xact, y))
        /\ ~DidCommit(xact, xid[b]) /\ DidCommit(xact', xid[b])
    <2>1. xid[b] # NoXid /\ End(b, "committed")
      BY DEF Commit, CanCall
    <2>2. calm' \in BOOLEAN
      BY DEF Commit, IInv, TypeOK
    <2>3. QED  BY <2>1, <2>2, Ended
  <1>2. xid[b] # NoXid /\ pc[b] = "idle" /\ pc \in [Backend -> Steps]
    BY DEF Commit, CanCall, IInv, TypeOK
  <1>3. /\ \A c \in Backend : c # b => xid'[c] = xid[c] /\ (xid[c] # NoXid => xid[c] # xid[b])
        /\ xid'[b] = NoXid
        /\ \A i \in DOMAIN meta : /\ meta[i].xmin \in XidsOf(xact) /\ meta[i].xmax \in XidsOf(xact)
                                  /\ DidCommit(xact, meta[i].xmin) => DidCommit(xact', meta[i].xmin)
        /\ \A c \in Backend : c # b => Own(c)' = Own(c)
        /\ Own(b)' = {} /\ ~Rotated(b)'
        /\ StampsFollow' /\ RowsStay'
    BY <1>1, <1>2, OthersKeep
  <1>4. \A i \in DOMAIN meta :
           /\ DidCommit(xact', meta[i].xmin) <=> DidCommit(xact, meta[i].xmin) \/ meta[i].xmin = xid[b]
           /\ DidCommit(xact', meta[i].xmax) <=> DidCommit(xact, meta[i].xmax) \/ meta[i].xmax = xid[b]
    BY <1>1, <1>3
  <1>5. \A i \in DOMAIN meta : meta[i].xmin = xid[b] => meta[i].xmax \in {NoXid, xid[b]}
    BY <1>2, StampedByRunning DEF IsOwn
  <1>6. Base' = {i \in Base : ~IsOwn(xid[b], meta[i].xmax)} \cup Own(b)
    <2>1. ~DidCommit(xact, NoXid) /\ NoXid # xid[b]
      BY <1>2 DEF DidCommit
    <2>2. QED  BY <1>1, <1>2, <1>4, <1>5, <2>1 DEF Base, Own, IsOwn
  <1>7. \A c \in Backend : c # b => (Rotated(c)' <=> Rotated(c))
    <2>1. SUFFICES ASSUME NEW c \in Backend, c # b PROVE Rotated(c)' <=> Rotated(c)
      OBVIOUS
    <2>2. \A i \in Own(b) : ~IsOwn(xid[c], meta[i].xmax)
      BY <1>3, <1>5, <2>1 DEF Own, IsOwn
    <2>3. \A i : IsOwn(xid[c], meta[i].xmax) => ~IsOwn(xid[b], meta[i].xmax)
      BY <1>3, <2>1 DEF IsOwn
    <2>4. QED  BY <1>1, <1>3, <1>6, <2>1, <2>2, <2>3 DEF Rotated
  <1>8. RowsHeld'
    <2>1. SUFFICES ASSUME NEW c \in Backend, pc'[c] \in Compacting
                   PROVE  RowsOf(c, loc[c].tbl)' # {}
      BY DEF RowsHeld
    <2>2. c # b
      BY <1>1, <1>2, <2>1 DEF Compacting
    <2>3. PICK i \in VisibleRows(c) : meta[i].tbl = loc[c].tbl
      BY <1>1, <1>2, <2>1, <2>2 DEF IInv, MetaInv, RowsHeld, RowsOf
    <2>4. i \in DOMAIN meta /\ TupleIsLive(xact, xid[c], meta[i])
      BY DEF VisibleRows
    <2>5. CASE IsOwn(xid[b], meta[i].xmax)
      <3>1. PICK j \in DOMAIN meta : /\ meta[j].tbl = meta[i].tbl
                                     /\ meta[j].xmin = xid[b] /\ meta[j].xmax # xid[b]
        BY <2>4, <2>5 DEF IInv, MetaInv, RowsStay
      <3>2. meta[j].xmax = NoXid
        BY <1>5, <3>1
      <3>3. DidCommit(xact', meta[j].xmin) /\ ~DidCommit(xact', meta[j].xmax)
            /\ ~IsOwn(xid'[c], meta[j].xmin) /\ ~IsOwn(xid'[c], meta[j].xmax)
        BY <1>1, <1>3, <2>2, <3>1, <3>2 DEF IsOwn, DidCommit
      <3>4. TupleIsLive(xact', xid'[c], meta'[j])
        BY <1>1, <3>3 DEF TupleIsLive
      <3>5. j \in RowsOf(c, loc[c].tbl)'
        BY <1>1, <2>2, <2>3, <3>1, <3>4 DEF RowsOf, VisibleRows
      <3>6. QED  BY <3>5
    <2>6. CASE ~IsOwn(xid[b], meta[i].xmax)
      <3>1. DidCommit(xact', meta[i].xmax) <=> DidCommit(xact, meta[i].xmax)
        BY <1>2, <1>4, <2>4, <2>6 DEF IsOwn
      <3>2. TupleIsLive(xact', xid'[c], meta'[i])
        BY <1>1, <1>3, <2>2, <2>4, <3>1 DEF TupleIsLive
      <3>3. i \in RowsOf(c, loc[c].tbl)'
        BY <1>1, <2>2, <2>3, <2>4, <3>2 DEF RowsOf, VisibleRows
      <3>4. QED  BY <3>3
    <2>7. QED  BY <2>5, <2>6
  <1>9. OneBase'
    <2>1. PICK a : Base = {a}
      BY DEF IInv, MetaInv, OneBase
    <2>2. IF Rotated(b) THEN \E i : Own(b) = {i} ELSE Own(b) = {}
      BY <1>2 DEF IInv, MetaInv, OwnReplaces
    <2>3. CASE Rotated(b)
      <3>1. {i \in Base : ~IsOwn(xid[b], meta[i].xmax)} = {}
        BY <2>1, <2>3 DEF Rotated
      <3>2. Base' = Own(b)
        BY <1>6, <3>1
      <3>3. QED  BY <2>2, <2>3, <3>2 DEF OneBase
    <2>4. CASE ~Rotated(b)
      <3>1. {i \in Base : ~IsOwn(xid[b], meta[i].xmax)} = {a}
        BY <2>1, <2>4 DEF Rotated
      <3>2. Base' = {a}
        BY <1>6, <2>2, <2>4, <3>1
      <3>3. QED  BY <3>2 DEF OneBase
    <2>5. QED  BY <2>3, <2>4
  <1>10. OwnReplaces'
    BY <1>1, <1>2, <1>3, <1>7 DEF IInv, MetaInv, OwnReplaces
  <1>11. QED  BY <1>1, <1>3, <1>8, <1>9, <1>10 DEF IInv, MetaInv
-----------------------------------------------------------------------------
(* The invariant holds at the start, and every step keeps it.               *)

LEMMA InitInv == ASSUME Init PROVE IInv
  <1>1. /\ xact = <<"committed">> /\ xid = [b \in Backend |-> NoXid]
        /\ pc = [b \in Backend |-> "idle"]
        /\ etup = [e \in Entry |-> [xmin |-> NoXid, xmax |-> NoXid]]
        /\ maker = <<1>> /\ node = <<>> /\ head = [v \in Vertex |-> Nil]
        /\ loc = [b \in Backend |-> NoLocals] /\ calm = TRUE
    BY DEF Init
  <1> DEFINE r == [tbl |-> 1, active |-> TRUE, compacted |-> FALSE, xmin |-> 1, xmax |-> NoXid]
  <1>2. meta = <<r>>
    BY DEF Init
  <1>3. DOMAIN xact = {1} /\ DOMAIN maker = {1} /\ DOMAIN meta = {1} /\ DOMAIN node = {}
        /\ Len(node) = 0
    BY <1>1, <1>2
  <1>4. r \in MetaRow /\ r.active /\ r.xmin = 1 /\ r.xmax = NoXid
    BY <1>3 DEF MetaRow, XidsOf, NoXid
  <1> HIDE DEF r
  <1>5. xact[1] = "committed" /\ meta[1] = r
    BY <1>1, <1>2
  <1>6. TypeOK
    <2>1. xact \in Seq(XactStatus) /\ maker \in Seq(DOMAIN xact)
      BY <1>1, <1>3 DEF XactStatus
    <2>2. meta \in Seq(MetaRow) /\ node \in Seq(Node)
      BY <1>1, <1>2, <1>4
    <2>3. /\ xid \in [Backend -> XidsOf(xact)] /\ pc \in [Backend -> Steps]
          /\ etup \in [Entry -> [xmin : XidsOf(xact), xmax : XidsOf(xact)]]
      BY <1>1 DEF XidsOf, Steps
    <2>4. head \in [Vertex -> 0 .. Len(node)] /\ calm \in BOOLEAN
      BY <1>1, <1>3 DEF Nil
    <2>5. QED  BY <2>1, <2>2, <2>3, <2>4 DEF TypeOK
  <1>7. \A b \in Backend : xid[b] = NoXid /\ pc[b] = "idle" /\ loc[b] = NoLocals
    BY <1>1
  <1>8. Base = {1} /\ \A b \in Backend : Own(b) = {} /\ ~Rotated(b)
    <2>1. DidCommit(xact, 1) /\ ~DidCommit(xact, NoXid)
      BY <1>5 DEF DidCommit, NoXid
    <2>2. Base = {1}
      BY <1>3, <1>4, <1>5, <2>1 DEF Base
    <2>3. QED  BY <1>7, <2>2 DEF Own, Rotated, IsOwn
  <1>9. XactsHeld /\ RowsStay /\ RowsHeld
    BY <1>7 DEF XactsHeld, RowsStay, RowsHeld, IsOwn, Compacting
  <1>10. StampsFollow
    BY <1>3, <1>4, <1>5 DEF StampsFollow
  <1>11. OneBase /\ OwnReplaces
    BY <1>7, <1>8 DEF OneBase, OwnReplaces
  <1>12. LocalsOK
    <2>1. NoLocals \in Locals
      BY <1>6, Facts, NoLocalsFit
    <2>2. LocalsSet
      BY <1>7 DEF LocalsSet, SetAt, Inserting
    <2>3. QED  BY <1>1, <2>1, <2>2 DEF LocalsOK
  <1>13. RecordsFollow /\ BlocksLeadDown
    BY <1>3 DEF RecordsFollow, BlocksLeadDown, Lists
  <1>14. QED
    BY <1>6, <1>9, <1>10, <1>11, <1>12, <1>13 DEF IInv, MetaInv, ListInv

LEMMA Idles == ASSUME IInv, UNCHANGED vars PROVE IInv'
  <1>1. UNCHANGED <<xact, xid, pc, etup, meta, maker, node, head, loc, calm>>
    BY DEF vars, data
  <1>2. TypeOK'
    BY <1>1 DEF IInv, TypeOK, MetaRow, Node, Member
  <1>3. MetaInv'
    <2>1. XactsHeld' /\ StampsFollow' /\ RowsStay'
      BY <1>1 DEF IInv, MetaInv, XactsHeld, StampsFollow, RowsStay
    <2>2. RowsHeld'
      BY <1>1 DEF IInv, MetaInv, RowsHeld, RowsOf, VisibleRows
    <2>3. Base' = Base /\ \A b \in Backend : Own(b)' = Own(b) /\ (Rotated(b)' <=> Rotated(b))
      BY <1>1 DEF Base, Own, Rotated
    <2>4. OneBase' /\ OwnReplaces'
      BY <1>1, <2>3 DEF IInv, MetaInv, OneBase, OwnReplaces
    <2>5. QED  BY <2>1, <2>2, <2>4 DEF MetaInv
  <1>4. LocalsOK'
    <2>1. Job' = Job /\ Lists' = Lists /\ Arrays' = Arrays
      BY <1>1 DEF Job, Member, Lists, Arrays, TableOf
    <2>2. Locals' = Locals
      BY <1>1, <2>1 DEF Locals
    <2>3. LocalsSet'
      BY <1>1, <2>1 DEF IInv, ListInv, LocalsOK, LocalsSet, SetAt
    <2>4. QED  BY <1>1, <2>2, <2>3 DEF IInv, ListInv, LocalsOK
  <1>5. RecordsFollow' /\ BlocksLeadDown'
    BY <1>1 DEF IInv, ListInv, RecordsFollow, BlocksLeadDown, Lists, TableOf
  <1>6. QED  BY <1>2, <1>3, <1>4, <1>5 DEF IInv, ListInv

LEMMA NextStep == ASSUME IInv, Next PROVE IInv'
  <1>1. PICK b \in Backend :
          \/ Begin(b) \/ Commit(b) \/ Abort(b)
          \/ \E e \in Entry : Insert(b, e) \/ Delete(b, e)
          \/ ReadHead(b) \/ AppendRecord(b) \/ FixPrev(b) \/ SetHead(b)
          \/ StartWalk(b) \/ StampMember(b) \/ WalkOn(b) \/ WalkEnds(b)
          \/ RotateActive(b) \/ CloseActive(b) \/ AddActive(b)
          \/ Compact(b) \/ CompactActive(b) \/ PickClosed(b)
          \/ Scan(b) \/ Merge(b) \/ Rewrite(b) \/ Wire(b)
          \/ FindRow(b) \/ Mark(b)
    BY DEF Next
  <1>2. CASE Begin(b) \/ Commit(b) \/ Abort(b)
    BY <1>2, BeginStep, CommitStep, AbortStep
  <1>3. CASE \E e \in Entry : Insert(b, e) \/ Delete(b, e)
    BY <1>3, InsertStep, DeleteStep
  <1>4. CASE ReadHead(b) \/ AppendRecord(b) \/ FixPrev(b) \/ SetHead(b)
    BY <1>4, ReadHeadStep, AppendRecordStep, FixPrevStep, SetHeadStep
  <1>5. CASE StartWalk(b) \/ StampMember(b) \/ WalkOn(b) \/ WalkEnds(b)
    BY <1>5, WalkStep, StampMemberStep, WalkEndsStep
  <1>6. CASE CloseActive(b) \/ AddActive(b)
    BY <1>6, CloseActiveStep, AddActiveStep
  <1>7. CASE RotateActive(b) \/ CompactActive(b)
    BY <1>7, RotateStep DEF RotateActive, CompactActive
  <1>8. CASE Compact(b) \/ PickClosed(b)
    <2>1. PickOldest(b) /\ pc[b] # "addActive" /\ xid[b] # NoXid
      BY <1>8, AtStep DEF Compact, CanCall, PickClosed
    <2>2. QED  BY <2>1, PickStep
  <1>9. CASE Scan(b) \/ Merge(b) \/ Rewrite(b) \/ Wire(b)
    BY <1>9, ScanStep, MergeStep, RewriteStep, WireStep
  <1>10. CASE FindRow(b) \/ Mark(b)
    BY <1>10, FindRowStep, MarkStep
  <1>11. QED  BY <1>1, <1>2, <1>3, <1>4, <1>5, <1>6, <1>7, <1>8, <1>9, <1>10

LEMMA Invariance == Spec => []IInv
  <1>1. Init => IInv
    BY InitInv
  <1>2. IInv /\ [Next]_vars => IInv'
    BY NextStep, Idles
  <1>3. QED  BY <1>1, <1>2, PTL DEF Spec
-----------------------------------------------------------------------------
(* Theorems.                                                                *)

\* Every table number, node number and stamp a record, a block or a row of
\* linked_list_meta bears names something that exists, and no record or block
\* is empty, whatever insertions, deletions, rotations and compactions race.
THEOREM TypeCorrect == Spec => []TypeOK
  <1>1. IInv => TypeOK
    BY DEF IInv
  <1>2. QED  BY <1>1, Invariance, PTL

\* A block np_insert_chunked_arraylist writes leads to the next block of its run
\* or to a block written earlier: a walk that has reached the array list stays
\* there and comes to an end, even where chains are overwritten by racing
\* insertions and compactions or left behind by a rollback.
THEOREM BlocksLeadDownHolds == Spec => []BlocksLeadDown
  <1>1. IInv => BlocksLeadDown
    BY DEF IInv, ListInv
  <1>2. QED  BY <1>1, Invariance, PTL

\* Between its calls, and inside them but for the moment at which
\* create_new_active_linked_list has closed one table and not yet recorded the
\* next, every backend finds exactly one active row in linked_list_meta.
THEOREM OneActiveHolds == Spec => []OneActive
  <1>1. IInv => OneActive
    <2>1. ASSUME IInv, NEW b \in Backend, pc[b] # "addActive"
          PROVE  Cardinality(ActiveRows(b)) = 1
      <3>1. PICK i : ActiveRows(b) = {i}
        BY <2>1, OneActiveRow DEF IInv
      <3>2. QED  BY <3>1, FS_Singleton
    <2>2. QED  BY <2>1 DEF OneActive
  <1>2. QED  BY <1>1, Invariance, PTL
=============================================================================
