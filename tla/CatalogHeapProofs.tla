--------------------------- MODULE CatalogHeapProofs ---------------------------
(***************************************************************************)
(* Theorems about CatalogHeap, for every number of backends, label names,  *)
(* transactions and commands.                                              *)
(***************************************************************************)
EXTENDS CatalogHeap, SequenceTheorems, WellFoundedInduction, TLAPS

(***************************************************************************)
(* What the visibility of a row rests on.  A snapshot sorts the            *)
(* transactions below its xmax into the caller's, those that ran, those    *)
(* that had committed and those that had aborted; none of the first two is *)
(* below its xmin.  A row is stamped by its own writer or once its writer  *)
(* has committed.                                                          *)
(***************************************************************************)

\* Open transactions are running and are different ones; a backend inside a
\* call has one.
OpenXactsRun ==
    \A b \in Backend :
        /\ xid[b] # NoXid => /\ xact[xid[b]] = "running"
                             /\ \A c \in Backend \ {b} : xid[c] # xid[b]
        /\ pc[b] # "idle" => xid[b] # NoXid

\* Snapshot s of a backend whose transaction is `me`, in command c.
SnapshotSorts(me, c, s) ==
    /\ s.xmin \in Nat /\ s.xmax \in Nat /\ s.curcid \in 0 .. c
    /\ s.xmin <= me /\ me < s.xmax /\ s.xmax <= Len(xact) + 1
    /\ s.running \subseteq s.xmin .. s.xmax - 1
    /\ s.done \subseteq 1 .. s.xmax - 1
    /\ me \notin s.running
    /\ \A x \in s.done : x \notin s.running /\ DidCommit(xact, x)
    /\ \A x \in 1 .. s.xmax - 1 :
         x = me \/ x \in s.running \/ x \in s.done \/ DidAbort(xact, x)

SnapshotsSort ==
    /\ snap = [b \in Backend |-> snap[b]]
    /\ \A b \in Held : xid[b] # NoXid /\ SnapshotSorts(xid[b], cid[b], snap[b])

\* b or a committed transaction wrote row i.
WrittenFor(b, i) == rows[i].xmin = xid[b] \/ DidCommit(xact, rows[i].xmin)

StampsFollow ==
    /\ \A i \in DOMAIN rows :
         /\ rows[i].xmin # NoXid
         /\ \/ rows[i].xmax \in {NoXid, rows[i].xmin}
            \/ DidCommit(xact, rows[i].xmin)
    /\ \A b \in Backend : pc[b] = "stamp" => WrittenFor(b, at[b])

IInv == TypeOK /\ OpenXactsRun /\ SnapshotsSort /\ StampsFollow

(***************************************************************************)
(* What the uniqueness of a name rests on, if nobody writes a row that is  *)
(* being replaced.                                                         *)
(***************************************************************************)

\* Nobody's stamp counts on row i, now or later.
Free(i) == rows[i].xmax = NoXid \/ DidAbort(xact, rows[i].xmax)

\* Row i can never stand any more.
Dead(i) == DidAbort(xact, rows[i].xmin) \/ DidCommit(xact, rows[i].xmax)

\* b has stamped row i or is about to.
TakenBy(b, i) == rows[i].xmax = xid[b] \/ (pc[b] = "stamp" /\ at[b] = i)

\* The row a backend is replacing is as its check found it, and is its own.
ReplacedIsFree ==
    \A b \in Backend : pc[b] = "stamp" =>
        /\ Free(at[b])
        /\ \A c \in Backend \ {b} : pc[c] = "stamp" => at[c] # at[b]

KilledAreDead == \A i \in killed \ hasty : Dead(i)

\* Nobody has judged a row of this name while a transaction on it ran.
Calm(l) == \A k \in hasty : rows[k].key # l

\* Of two rows of a name that may both come to stand, an open transaction
\* takes one and has written the other: at its end one of them is dead.
Rivals(i, j) ==
    /\ i # j /\ rows[i].key = rows[j].key /\ Calm(rows[i].key)
    /\ ~Dead(i) /\ ~Dead(j)

Settles(b, i, j) ==
    /\ xid[b] # NoXid
    /\ \/ TakenBy(b, i) /\ rows[j].xmin = xid[b]
       \/ TakenBy(b, j) /\ rows[i].xmin = xid[b]

RivalsAreSettled ==
    \A i, j \in DOMAIN rows : Rivals(i, j) => \E b \in Backend : Settles(b, i, j)

IsolatedInv == IInv /\ ReplacedIsFree /\ KilledAreDead /\ RivalsAreSettled
-----------------------------------------------------------------------------
(* Sequences and numbers.                                                   *)

\* Appending leaves the earlier members where they are.
LEMMA AppendFacts ==
    ASSUME NEW S, NEW s \in Seq(S), NEW x \in S
    PROVE  /\ Append(s, x) \in Seq(S)
           /\ DOMAIN s = 1 .. Len(s) /\ Len(s) \in Nat
           /\ Len(Append(s, x)) = Len(s) + 1
           /\ DOMAIN Append(s, x) = 1 .. Len(s) + 1
           /\ Append(s, x)[Len(s) + 1] = x
           /\ \A i \in DOMAIN s : Append(s, x)[i] = s[i]
    OBVIOUS

Less == {p \in Nat \X Nat : p[1] < p[2]}

\* A set of numbers has a least one.
LEMMA LeastNat ==
    ASSUME NEW T \in SUBSET Nat, T # {}
    PROVE  \E x \in T : \A y \in T : x <= y
  <1>1. IsWellFoundedOn(Less, Nat)
    BY NatLessThanWellFounded DEF OpToRel, Less
  <1>2. PICK x \in T : \A y \in T : <<y, x>> \notin Less
    BY <1>1, WFMin
  <1>3. ASSUME NEW y \in T PROVE x <= y
    <2>1. x \in Nat /\ y \in Nat /\ (<<y, x>> \in Less <=> y < x)
      BY DEF Less
    <2>2. QED  BY <1>2, <2>1
  <1>4. QED  BY <1>3

RowType == [key : Label, xmin : XidsOf(xact), cmin : 0 .. MaxCid,
            xmax : XidsOf(xact), cmax : 0 .. MaxCid]

\* What TypeOK says of the log, of a backend and of a row.
LEMMA LogFacts ==
    ASSUME TypeOK
    PROVE  /\ xact \in Seq(XactStatus) /\ Len(xact) \in Nat /\ DOMAIN xact = 1 .. Len(xact)
           /\ XidsOf(xact) = 0 .. Len(xact)
           /\ \A b \in Backend : xid[b] \in 0 .. Len(xact) /\ cid[b] \in 0 .. MaxCid
           /\ MaxCid \in Nat
  <1>1. /\ xact \in Seq(XactStatus) /\ xid \in [Backend -> XidsOf(xact)]
        /\ cid \in [Backend -> 0 .. MaxCid]
    BY DEF TypeOK
  <1>2. Len(xact) \in Nat /\ DOMAIN xact = 1 .. Len(xact)
    BY <1>1
  <1>3. XidsOf(xact) = 0 .. Len(xact)
    BY <1>2 DEF XidsOf, NoXid
  <1>4. MaxCid \in Nat
    BY CatalogAssumption
  <1>5. QED  BY <1>1, <1>2, <1>3, <1>4

LEMMA RowFacts ==
    ASSUME TypeOK
    PROVE  /\ rows \in Seq(RowType) /\ Len(rows) \in Nat /\ DOMAIN rows = 1 .. Len(rows)
           /\ \A i \in DOMAIN rows :
                /\ rows[i] \in RowType
                /\ rows[i].key \in Label
                /\ rows[i].xmin \in 0 .. Len(xact) /\ rows[i].xmax \in 0 .. Len(xact)
                /\ rows[i].cmin \in 0 .. MaxCid /\ rows[i].cmax \in 0 .. MaxCid
  <1>1. rows \in Seq(RowType)
    BY DEF TypeOK, RowType
  <1>2. \A i \in DOMAIN rows : rows[i] \in RowType
    BY <1>1
  <1>3. QED  BY <1>1, <1>2, LogFacts DEF RowType
-----------------------------------------------------------------------------
(* The initial states.                                                      *)

LEMMA InitIsolated == Init => IInv /\ IsolatedInv
  <1> SUFFICES ASSUME Init PROVE IInv /\ IsolatedInv
    OBVIOUS
  <1>1. TypeOK
    BY CatalogAssumption DEF Init, TypeOK, Nothing, XidsOf, NoXid, XactStatus
  <1>2. OpenXactsRun /\ SnapshotsSort /\ StampsFollow
    BY DEF Init, OpenXactsRun, SnapshotsSort, Held, StampsFollow
  <1>3. ReplacedIsFree /\ KilledAreDead /\ RivalsAreSettled
    BY DEF Init, ReplacedIsFree, KilledAreDead, RivalsAreSettled
  <1>4. QED  BY <1>1, <1>2, <1>3 DEF IInv, IsolatedInv
-----------------------------------------------------------------------------
(* Snapshots.                                                               *)

\* A transaction that has ended stays as it ended, and the log only grows.
EndedStay ==
    /\ Len(xact') \in Nat /\ Len(xact') >= Len(xact)
    /\ \A x \in DOMAIN xact :
         /\ DidAbort(xact, x) => DidAbort(xact', x)
         /\ DidCommit(xact, x) => DidCommit(xact', x)

\* A snapshot sorts the transactions for as long as its query runs.
LEMMA SnapshotKept ==
    ASSUME TypeOK, EndedStay, NEW me, NEW c \in Nat, NEW d \in Nat, c <= d, NEW s,
           SnapshotSorts(me, c, s)
    PROVE  SnapshotSorts(me, d, s)'
  <1>1. Len(xact) \in Nat /\ DOMAIN xact = 1 .. Len(xact)
    BY LogFacts
  <1>2. /\ s.xmax \in Nat /\ s.xmax <= Len(xact') + 1
        /\ 1 .. s.xmax - 1 \subseteq DOMAIN xact
    BY <1>1 DEF SnapshotSorts, EndedStay
  <1>3. \A x \in s.done : DidCommit(xact', x)
    BY <1>2 DEF SnapshotSorts, EndedStay
  <1>4. \A x \in 1 .. s.xmax - 1 :
          x = me \/ x \in s.running \/ x \in s.done \/ DidAbort(xact', x)
    BY <1>2 DEF SnapshotSorts, EndedStay
  <1>5. s.curcid \in 0 .. d
    BY DEF SnapshotSorts
  <1>6. QED  BY <1>2, <1>3, <1>4, <1>5 DEF SnapshotSorts

\* GetSnapshotData sorts them.
LEMMA SnapshotIsSorted ==
    ASSUME TypeOK, OpenXactsRun, NEW b \in Backend, xid[b] # NoXid
    PROVE  SnapshotSorts(xid[b], cid[b], Snapshot(b))
  <1> DEFINE n == Len(xact)
             T == {x \in 1 .. n + 1 : x = n + 1 \/ Running(x)}
             Bound(x) == /\ x = n + 1 \/ Running(x)
                         /\ \A y \in 1 .. x - 1 : ~Running(y)
             m == CHOOSE x \in 1 .. n + 1 : Bound(x)
             s == Snapshot(b)
  <1>1. /\ n \in Nat /\ DOMAIN xact = 1 .. n /\ xid[b] \in 1 .. n /\ cid[b] \in Nat
        /\ Running(xid[b])
    BY LogFacts DEF OpenXactsRun, NoXid, Running, InProgress
  <1>2. \E x \in 1 .. n + 1 : Bound(x)
    <2>1. T \in SUBSET Nat /\ T # {}
      BY <1>1
    <2>2. PICK x \in T : \A y \in T : x <= y
      BY <2>1, LeastNat
    <2>3. \A y \in 1 .. x - 1 : ~Running(y)
      BY <1>1, <2>2
    <2>4. QED  BY <2>2, <2>3
  <1>3. m \in 1 .. n + 1 /\ Bound(m)
    <2> HIDE DEF Bound
    <2>1. QED  BY <1>2
  <1>4. /\ s.xmin = m /\ s.xmax = n + 1 /\ s.curcid = cid[b]
        /\ s.running = {x \in DOMAIN xact : Running(x)} \ {xid[b]}
        /\ s.done = {x \in DOMAIN xact : DidCommit(xact, x)}
    BY DEF Snapshot
  <1> HIDE DEF m, s
  <1>5. m <= xid[b]
    BY <1>1, <1>3
  <1>6. s.running \subseteq m .. n /\ xid[b] \notin s.running
    BY <1>1, <1>3, <1>4
  <1>7. \A x \in 1 .. n : x = xid[b] \/ x \in s.running \/ x \in s.done \/ DidAbort(xact, x)
    <2>1. \A x \in 1 .. n : x # NoXid /\ xact[x] \in XactStatus
      BY <1>1 DEF TypeOK, NoXid
    <2>2. QED  BY <1>1, <1>4, <2>1 DEF XactStatus, Running, InProgress, DidCommit, DidAbort
  <1>8. \A x \in s.done : x \notin s.running /\ DidCommit(xact, x)
    BY <1>4 DEF Running, InProgress, DidCommit
  <1>9. SnapshotSorts(xid[b], cid[b], s)
    BY <1>1, <1>3, <1>4, <1>5, <1>6, <1>7, <1>8 DEF SnapshotSorts
  <1>10. QED  BY <1>9 DEF s
-----------------------------------------------------------------------------
(* Steps, and what they keep.                                               *)

\* Queries keep sorted snapshots, whatever the other backends do.
LEMMA SnapshotsKept ==
    ASSUME IInv, EndedStay, snap' = [c \in Backend |-> snap'[c]],
           \A c \in Backend :
             \/ snap'[c] = NoSnapshot
             \/ /\ snap'[c] = snap[c] /\ xid'[c] = xid[c]
                /\ cid'[c] \in Nat /\ cid[c] <= cid'[c]
    PROVE  SnapshotsSort'
  <1>1. ASSUME NEW c \in Backend, snap'[c] # NoSnapshot
        PROVE  (xid[c] # NoXid /\ SnapshotSorts(xid[c], cid[c], snap[c]))'
    <2>1. /\ snap'[c] = snap[c] /\ xid'[c] = xid[c] /\ cid'[c] \in Nat
          /\ cid[c] <= cid'[c] /\ cid[c] \in Nat
      BY <1>1, LogFacts DEF IInv
    <2>2. xid[c] # NoXid /\ SnapshotSorts(xid[c], cid[c], snap[c])
      BY <1>1, <2>1 DEF IInv, SnapshotsSort, Held
    <2>3. ASSUME NEW me, NEW d \in Nat, NEW e \in Nat, d <= e, NEW s, SnapshotSorts(me, d, s)
          PROVE  SnapshotSorts(me, e, s)'
      BY <2>3, SnapshotKept DEF IInv
    <2>4. SnapshotSorts(xid[c], cid[c], snap[c])
          => \A me, s, e : me = xid[c] /\ s = snap[c] /\ e = cid'[c] => SnapshotSorts(me, e, s)'
      BY <2>1, <2>3
    <2>5. QED  BY <2>1, <2>2, <2>4
  <1>2. QED  BY <1>1 DEF SnapshotsSort, Held

\* A row keeps its writer; it is stamped by that writer or once it committed.
LEMMA StampsFollowKept ==
    ASSUME IInv, EndedStay,
           \A i \in DOMAIN rows : i \in DOMAIN rows' /\ rows'[i].xmin = rows[i].xmin,
           \A i \in DOMAIN rows' \ DOMAIN rows :
             rows'[i].xmin # NoXid /\ rows'[i].xmax = NoXid,
           \A i \in DOMAIN rows' :
             \/ rows'[i].xmax = NoXid
             \/ /\ i \in DOMAIN rows
                /\ \/ rows'[i].xmax = rows[i].xmax
                   \/ \E b \in Backend : rows'[i].xmax = xid[b] /\ WrittenFor(b, i),
           \A c \in Backend : pc'[c] = "stamp" =>
             at'[c] \in DOMAIN rows /\ xid'[c] = xid[c] /\ WrittenFor(c, at'[c])
    PROVE  StampsFollow'
  <1>1. \A i \in DOMAIN rows : DidCommit(xact, rows[i].xmin) => DidCommit(xact', rows[i].xmin)
    BY RowFacts, LogFacts DEF IInv, EndedStay, DidCommit, NoXid
  <1>2. ASSUME NEW i \in DOMAIN rows'
        PROVE  /\ rows'[i].xmin # NoXid
               /\ \/ rows'[i].xmax \in {NoXid, rows'[i].xmin}
                  \/ DidCommit(xact', rows'[i].xmin)
    BY <1>1, <1>2 DEF IInv, StampsFollow, WrittenFor
  <1>3. ASSUME NEW c \in Backend, pc'[c] = "stamp" PROVE WrittenFor(c, at[c])'
    BY <1>1, <1>3 DEF WrittenFor
  <1>4. QED  BY <1>2, <1>3 DEF StampsFollow

\* Nothing about transactions changes in a step inside one.
LEMMA SameXacts ==
    ASSUME IInv, UNCHANGED <<xact, xid>>, NEW b \in Backend, xid[b] # NoXid,
           \A c \in Backend \ {b} : pc'[c] = pc[c]
    PROVE  EndedStay /\ OpenXactsRun'
    BY LogFacts DEF IInv, EndedStay, OpenXactsRun

\* A backend whose transaction begins has neither a snapshot nor a call.
LEMMA BeginStep ==
    ASSUME IInv, NEW b \in Backend, Begin(b)
    PROVE  IInv' /\ EndedStay /\ snap[b] = NoSnapshot /\ pc[b] = "idle"
  <1>1. /\ xact \in Seq(XactStatus) /\ "running" \in XactStatus /\ xact' = Append(xact, "running")
        /\ UNCHANGED <<cid, snap, rows, killed, hasty, pc, at>>
        /\ xid[b] = NoXid /\ xid' = [xid EXCEPT ![b] = Len(xact) + 1]
    BY LogFacts DEF IInv, XactStatus, Begin
  <1>2. /\ xact' \in Seq(XactStatus) /\ Len(xact) \in Nat /\ Len(xact') = Len(xact) + 1
        /\ xact'[Len(xact) + 1] = "running" /\ DOMAIN xact' = 1 .. Len(xact) + 1
        /\ DOMAIN xact = 1 .. Len(xact) /\ \A x \in DOMAIN xact : xact'[x] = xact[x]
    BY <1>1, AppendFacts
  <1>3. XidsOf(xact) = 0 .. Len(xact) /\ XidsOf(xact)' = 0 .. Len(xact) + 1
    BY <1>2 DEF XidsOf, NoXid
  <1>4. EndedStay
    BY <1>2 DEF EndedStay, DidAbort, DidCommit
  <1>5. /\ xid'[b] = Len(xact) + 1 /\ \A c \in Backend \ {b} : xid'[c] = xid[c]
        /\ \A c \in Backend : xid[c] \in 0 .. Len(xact)
    BY <1>1, LogFacts DEF IInv, TypeOK
  <1>6. snap[b] = NoSnapshot /\ pc[b] = "idle"
    BY <1>1 DEF IInv, SnapshotsSort, OpenXactsRun, Held
  <1>7. TypeOK'
    <2>1. rows \in Seq(RowType) /\ RowType \subseteq RowType'
      BY <1>3, RowFacts, LogFacts DEF IInv, RowType
    <2>2. rows' \in Seq(RowType)'
      BY <1>1, <2>1, SeqMonotonic
    <2>3. xid' \in [Backend -> XidsOf(xact')]
      BY <1>1, <1>2, <1>3 DEF IInv, TypeOK
    <2>4. QED  BY <1>1, <1>2, <2>2, <2>3 DEF IInv, TypeOK, RowType
  <1>8. OpenXactsRun'
    <2>1. ASSUME NEW c \in Backend, xid'[c] # NoXid
          PROVE  xact'[xid'[c]] = "running" /\ \A d \in Backend \ {c} : xid'[d] # xid'[c]
      BY <1>2, <1>5, <2>1 DEF IInv, OpenXactsRun, NoXid
    <2>2. \A c \in Backend : pc'[c] # "idle" => xid'[c] # NoXid
      BY <1>1, <1>2, <1>5 DEF IInv, OpenXactsRun, NoXid
    <2>3. QED  BY <2>1, <2>2 DEF OpenXactsRun
  <1>9. SnapshotsSort'
    <2>1. \A c \in Backend : cid'[c] \in Nat /\ cid[c] <= cid'[c]
      BY <1>1, LogFacts DEF IInv
    <2>2. snap' = [c \in Backend |-> snap'[c]]
      BY <1>1 DEF IInv, SnapshotsSort
    <2>3. QED  BY <1>1, <1>4, <1>5, <1>6, <2>1, <2>2, SnapshotsKept
  <1>10. StampsFollow'
    BY <1>1, <1>4, <1>5, <1>6, StampsFollowKept DEF IInv, StampsFollow, TypeOK
  <1>11. QED  BY <1>4, <1>6, <1>7, <1>8, <1>9, <1>10 DEF IInv

\* When a transaction ends, so do its query and its call.
LEMMA EndStep ==
    ASSUME IInv, NEW b \in Backend, xid[b] # NoXid, NEW status \in XactStatus, End(b, status)
    PROVE  IInv' /\ EndedStay
  <1>1. /\ xact \in Seq(XactStatus) /\ Len(xact) \in Nat /\ DOMAIN xact = 1 .. Len(xact)
        /\ xid[b] \in 1 .. Len(xact) /\ xact[xid[b]] = "running"
        /\ xact' = [xact EXCEPT ![xid[b]] = status]
        /\ xid' = [xid EXCEPT ![b] = NoXid] /\ cid' = [cid EXCEPT ![b] = 0]
        /\ snap' = [snap EXCEPT ![b] = NoSnapshot] /\ pc' = [pc EXCEPT ![b] = "idle"]
        /\ at' = [at EXCEPT ![b] = Nothing] /\ UNCHANGED <<rows, killed, hasty>>
    BY LogFacts DEF IInv, OpenXactsRun, End, Goto, NoXid
  <1>2. /\ xact' \in Seq(XactStatus) /\ Len(xact') = Len(xact) /\ DOMAIN xact' = DOMAIN xact
        /\ \A x \in DOMAIN xact : x # xid[b] => xact'[x] = xact[x]
        /\ XidsOf(xact') = XidsOf(xact)
    BY <1>1, ExceptSeq DEF XidsOf
  <1>3. EndedStay
    BY <1>1, <1>2 DEF EndedStay, DidAbort, DidCommit
  <1>4. /\ xid'[b] = NoXid /\ cid'[b] = 0 /\ snap'[b] = NoSnapshot /\ pc'[b] = "idle"
        /\ snap' = [c \in Backend |-> snap'[c]]
        /\ \A c \in Backend \ {b} : /\ xid'[c] = xid[c] /\ cid'[c] = cid[c] /\ pc'[c] = pc[c]
                                    /\ snap'[c] = snap[c] /\ at'[c] = at[c]
    BY <1>1 DEF IInv, TypeOK, SnapshotsSort
  <1>5. TypeOK'
    <2>1. rows' \in Seq(RowType)'
      BY <1>1, <1>2, RowFacts DEF IInv, RowType
    <2>2. xid' \in [Backend -> XidsOf(xact')] /\ cid' \in [Backend -> 0 .. MaxCid]
      BY <1>1, <1>2, LogFacts DEF IInv, TypeOK, XidsOf
    <2>3. pc' \in [Backend -> {"idle", "insert", "stamp"}] /\ at' \in [Backend -> Label \cup Nat]
      BY <1>1 DEF IInv, TypeOK, Nothing
    <2>4. \A c \in Backend : /\ pc'[c] = "insert" => at'[c] \in Label
                             /\ pc'[c] = "stamp" => at'[c] \in DOMAIN rows'
      BY <1>1, <1>4 DEF IInv, TypeOK
    <2>5. QED  BY <1>1, <1>2, <2>1, <2>2, <2>3, <2>4 DEF IInv, TypeOK, RowType
  <1>6. OpenXactsRun'
    <2>1. ASSUME NEW c \in Backend \ {b}, xid[c] # NoXid
          PROVE  xact'[xid[c]] = "running" /\ \A d \in Backend \ {c} : xid'[d] # xid[c]
      <3>1. xid[c] \in DOMAIN xact /\ xid[c] # xid[b] /\ xact[xid[c]] = "running"
        BY <1>1, <2>1, LogFacts DEF IInv, OpenXactsRun, NoXid
      <3>2. QED  BY <1>2, <1>4, <2>1, <3>1 DEF IInv, OpenXactsRun
    <2>2. QED  BY <1>4, <2>1 DEF IInv, OpenXactsRun
  <1>7. SnapshotsSort'
    <2>1. \A c \in Backend \ {b} : cid'[c] \in Nat /\ cid[c] <= cid'[c]
      BY <1>4, LogFacts DEF IInv
    <2>2. QED  BY <1>3, <1>4, <2>1, SnapshotsKept
  <1>8. StampsFollow'
    BY <1>1, <1>3, <1>4, StampsFollowKept DEF IInv, StampsFollow, TypeOK
  <1>9. QED  BY <1>3, <1>5, <1>6, <1>7, <1>8 DEF IInv
-----------------------------------------------------------------------------
(* Steps inside a transaction.                                              *)

\* What the steps that write no row have in common.
LEMMA QuietStep ==
    ASSUME IInv, NEW b \in Backend,
           TakeSnapshot(b) \/ CommandCounterIncrement(b) \/ \E l \in Label : LookUp(b, l)
    PROVE  IInv'
  <1> DEFINE Alone == \A c \in Backend \ {b} : /\ pc'[c] = pc[c] /\ at'[c] = at[c]
                                              /\ snap'[c] = snap[c] /\ cid'[c] = cid[c]
             Typed == /\ pc' \in [Backend -> {"idle", "insert", "stamp"}]
                      /\ at' \in [Backend -> Label \cup Nat]
                      /\ pc'[b] = "idle" \/ (pc'[b] = "insert" /\ at'[b] \in Label)
                      /\ snap' = [c \in Backend |-> snap'[c]]
  <1>1. UNCHANGED <<xact, xid, rows>> /\ xid[b] # NoXid /\ pc[b] = "idle" /\ Alone /\ Typed
    <2>1. UNCHANGED <<xact, xid, rows>> /\ xid[b] # NoXid /\ pc[b] = "idle"
      BY DEF TakeSnapshot, CommandCounterIncrement, LookUp, Ready
    <2>2. CASE TakeSnapshot(b) \/ CommandCounterIncrement(b)
      <3>1. pc' = pc /\ at' = at
        BY <2>2 DEF TakeSnapshot, CommandCounterIncrement
      <3>2. snap' = snap \/ snap' = [snap EXCEPT ![b] = Snapshot(b)]
        BY <2>2 DEF TakeSnapshot, CommandCounterIncrement
      <3>3. cid' = cid \/ cid' = [cid EXCEPT ![b] = @ + 1]
        BY <2>2 DEF TakeSnapshot, CommandCounterIncrement
      <3>4. Alone
        BY <3>1, <3>2, <3>3 DEF IInv, TypeOK, SnapshotsSort
      <3>5. Typed
        BY <2>1, <3>1, <3>2 DEF IInv, TypeOK, SnapshotsSort
      <3>6. QED  BY <2>1, <3>4, <3>5
    <2>3. ASSUME NEW l \in Label, LookUp(b, l) PROVE Alone /\ Typed
      <3>1. /\ snap' = snap /\ cid' = cid
            /\ \/ pc' = [pc EXCEPT ![b] = "idle"] /\ at' = [at EXCEPT ![b] = 0]
               \/ pc' = [pc EXCEPT ![b] = "insert"] /\ at' = [at EXCEPT ![b] = l]
        BY <2>3 DEF LookUp, Return, Goto, Nothing
      <3>2. /\ pc \in [Backend -> {"idle", "insert", "stamp"}]
            /\ at \in [Backend -> Label \cup Nat] /\ 0 \in Label \cup Nat
            /\ snap = [c \in Backend |-> snap[c]]
        BY DEF IInv, TypeOK, SnapshotsSort
      <3>3. CASE pc' = [pc EXCEPT ![b] = "idle"] /\ at' = [at EXCEPT ![b] = 0]
        BY <3>1, <3>2, <3>3
      <3>4. CASE pc' = [pc EXCEPT ![b] = "insert"] /\ at' = [at EXCEPT ![b] = l]
        BY <3>1, <3>2, <3>4
      <3>5. QED  BY <3>1, <3>3, <3>4
    <2>4. QED  BY <2>1, <2>2, <2>3
  <1>2. killed' \subseteq DOMAIN rows /\ hasty' \subseteq DOMAIN rows
    BY DEF TakeSnapshot, CommandCounterIncrement, LookUp, MayKill, Unsettled, IInv, TypeOK
  <1>3. cid' \in [Backend -> 0 .. MaxCid] /\ cid[b] <= cid'[b]
    <2>1. MaxCid \in Nat /\ cid[b] \in 0 .. MaxCid /\ cid \in [Backend -> 0 .. MaxCid]
      BY LogFacts DEF IInv, TypeOK
    <2>2. cid' = cid \/ (cid[b] < MaxCid /\ cid' = [cid EXCEPT ![b] = @ + 1])
      BY DEF TakeSnapshot, CommandCounterIncrement, LookUp
    <2>3. QED  BY <2>1, <2>2
  <1>4. EndedStay /\ OpenXactsRun'
    BY <1>1, SameXacts
  <1>5. TypeOK'
    BY <1>1, <1>2, <1>3 DEF IInv, TypeOK
  <1>6. snap'[b] = snap[b] \/ (snap'[b] = Snapshot(b) /\ cid' = cid)
    BY DEF TakeSnapshot, CommandCounterIncrement, LookUp, IInv, SnapshotsSort
  <1>7. SnapshotsSort'
    <2>1. \A c \in Backend : cid'[c] \in Nat /\ cid[c] <= cid'[c]
      BY <1>1, <1>3, LogFacts DEF IInv
    <2>2. CASE snap'[b] = snap[b]
      <3>1. \A c \in Backend :
              snap'[c] = snap[c] /\ xid'[c] = xid[c] /\ cid'[c] \in Nat /\ cid[c] <= cid'[c]
        BY <1>1, <2>1, <2>2
      <3>2. QED  BY <1>1, <1>4, <3>1, SnapshotsKept
    <2>3. CASE snap'[b] = Snapshot(b) /\ cid' = cid
      <3>1. SnapshotSorts(xid[b], cid[b], Snapshot(b))
        BY <1>1, SnapshotIsSorted DEF IInv
      <3>2. ASSUME NEW c \in Backend, snap'[c] # NoSnapshot
            PROVE  (xid[c] # NoXid /\ SnapshotSorts(xid[c], cid[c], snap[c]))'
        <4>1. CASE c = b
          BY <1>1, <2>3, <3>1, <4>1 DEF SnapshotSorts
        <4>2. CASE c # b
          BY <1>1, <3>2, <4>2 DEF IInv, SnapshotsSort, Held, SnapshotSorts
        <4>3. QED  BY <4>1, <4>2
      <3>3. QED  BY <1>1, <3>2 DEF SnapshotsSort, Held
    <2>4. QED  BY <1>6, <2>2, <2>3
  <1>8. StampsFollow'
    BY <1>1 DEF IInv, StampsFollow, WrittenFor
  <1>9. QED  BY <1>4, <1>5, <1>7, <1>8 DEF IInv

\* A backend that writes rows: what it leaves alone.
Writes(b) ==
    /\ UNCHANGED <<xact, xid, cid, snap>> /\ xid[b] # NoXid
    /\ \A c \in Backend \ {b} : pc'[c] = pc[c] /\ at'[c] = at[c]
    /\ pc' \in [Backend -> {"idle", "insert", "stamp"}]
    /\ at' \in [Backend -> Label \cup Nat]
    /\ killed' \subseteq DOMAIN rows /\ hasty' \subseteq DOMAIN rows

\* What every writing step does.
Appends(b) ==
    /\ Insert(b) /\ pc'[b] = "idle" /\ rows' = Append(rows, Row(b, at[b])) /\ at[b] \in Label
    /\ hasty' = hasty \cup Unsettled(at[b])

Copies(b, i) ==
    /\ rows' = Append(rows, Row(b, rows[i].key))
    /\ pc[b] = "idle" /\ pc'[b] = "stamp" /\ at'[b] = i
    /\ MayReplace(xact, xid[b], rows[i]) /\ UNCHANGED <<killed, hasty>>
    /\ Isolated => \A c \in Backend : pc[c] = "stamp" => at[c] # i

Stamps(b, i) ==
    /\ rows' = Stamped(b, i) /\ pc'[b] = "idle" /\ UNCHANGED <<killed, hasty>>
    /\ \/ /\ MayReplace(xact, xid[b], rows[i]) /\ pc[b] = "idle"
          /\ Isolated => \A c \in Backend : pc[c] = "stamp" => at[c] # i
       \/ pc[b] = "stamp" /\ at[b] = i

LEMMA WritingSteps ==
    ASSUME IInv, NEW b \in Backend,
           \/ Insert(b) \/ StampReplaced(b)
           \/ \E i \in DOMAIN rows : Delete(b, i) \/ Replace(b, i)
    PROVE  /\ Writes(b)
           /\ \/ Appends(b)
              \/ \E i \in DOMAIN rows : Copies(b, i) \/ Stamps(b, i)
  <1>1. CASE Insert(b)
    <2>1. pc[b] = "insert" /\ at[b] \in Label /\ xid[b] # NoXid
      BY <1>1 DEF Insert, IInv, TypeOK, OpenXactsRun
    <2>2. killed' \subseteq DOMAIN rows /\ hasty' \subseteq DOMAIN rows
      BY <1>1 DEF Insert, MayKill, Unsettled, IInv, TypeOK
    <2>3. QED  BY <1>1, <2>1, <2>2 DEF Insert, Return, Goto, Nothing, IInv, TypeOK, Writes, Appends
  <1>2. CASE StampReplaced(b)
    <2>1. pc[b] = "stamp" /\ at[b] \in DOMAIN rows /\ xid[b] # NoXid
      BY <1>2 DEF StampReplaced, IInv, TypeOK, OpenXactsRun
    <2>2. Writes(b) /\ Stamps(b, at[b])
      BY <1>2, <2>1 DEF StampReplaced, Return, Goto, Nothing, IInv, TypeOK, Writes, Stamps
    <2>3. QED  BY <2>1, <2>2
  <1>3. ASSUME NEW i \in DOMAIN rows, Delete(b, i) PROVE Writes(b) /\ Stamps(b, i)
    BY <1>3 DEF Delete, Ready, Found, Return, Goto, Nothing, IInv, TypeOK, Writes, Stamps
  <1>4. ASSUME NEW i \in DOMAIN rows, Replace(b, i) PROVE Writes(b) /\ Copies(b, i)
    <2>1. i \in Nat
      BY RowFacts DEF IInv
    <2>2. QED
      BY <1>4, <2>1 DEF Replace, Ready, Found, Goto, IInv, TypeOK, Writes, Copies
  <1>5. QED  BY <1>1, <1>2, <1>3, <1>4

\* A row that is added belongs to the writer and nobody has stamped it.
LEMMA AddedRow ==
    ASSUME TypeOK, NEW b \in Backend, NEW l \in Label, rows' = Append(rows, Row(b, l))
    PROVE  /\ Row(b, l) \in RowType /\ rows' \in Seq(RowType)
           /\ Len(rows) \in Nat /\ DOMAIN rows = 1 .. Len(rows)
           /\ DOMAIN rows' = 1 .. Len(rows) + 1
           /\ \A i \in DOMAIN rows : rows'[i] = rows[i]
           /\ LET r == rows'[Len(rows) + 1]
              IN  /\ r.key = l /\ r.xmin = xid[b] /\ r.cmin = cid[b]
                  /\ r.xmax = NoXid
  <1>1. Row(b, l) \in RowType
    BY LogFacts DEF Row, RowType, NoXid
  <1>2. rows \in Seq(RowType)
    BY RowFacts
  <1>3. /\ rows' \in Seq(RowType) /\ DOMAIN rows' = 1 .. Len(rows) + 1 /\ Len(rows) \in Nat
        /\ DOMAIN rows = 1 .. Len(rows) /\ rows'[Len(rows) + 1] = Row(b, l)
        /\ \A i \in DOMAIN rows : rows'[i] = rows[i]
    BY <1>1, <1>2, AppendFacts
  <1>4. QED  BY <1>1, <1>3 DEF Row

\* A stamp changes nothing else.
LEMMA StampedRow ==
    ASSUME TypeOK, NEW b \in Backend, NEW i \in DOMAIN rows, rows' = Stamped(b, i)
    PROVE  /\ rows' \in Seq(RowType) /\ DOMAIN rows' = DOMAIN rows
           /\ \A k \in DOMAIN rows : k # i => rows'[k] = rows[k]
           /\ rows'[i].key = rows[i].key /\ rows'[i].xmin = rows[i].xmin
           /\ rows'[i].cmin = rows[i].cmin
           /\ rows'[i].xmax = xid[b] /\ rows'[i].cmax = cid[b]
  <1> DEFINE r == [rows[i] EXCEPT !.xmax = xid[b], !.cmax = cid[b]]
  <1>1. /\ rows \in Seq(RowType) /\ DOMAIN rows = 1 .. Len(rows) /\ rows[i] \in RowType
        /\ xid[b] \in XidsOf(xact) /\ cid[b] \in 0 .. MaxCid
    BY RowFacts DEF TypeOK
  <1>2. r \in RowType
    BY <1>1 DEF RowType
  <1>3. /\ r.key = rows[i].key /\ r.xmin = rows[i].xmin /\ r.cmin = rows[i].cmin
        /\ r.xmax = xid[b] /\ r.cmax = cid[b]
    BY <1>1 DEF RowType
  <1>4. rows' = [rows EXCEPT ![i] = r]
    BY <1>1, RowFacts DEF Stamped
  <1> HIDE DEF r
  <1>5. /\ rows' \in Seq(RowType) /\ DOMAIN rows' = DOMAIN rows
        /\ \A k \in DOMAIN rows : rows'[k] = IF k = i THEN r ELSE rows[k]
    BY <1>1, <1>2, <1>4, ExceptSeq
  <1>6. QED  BY <1>3, <1>5

LEMMA WritingStep ==
    ASSUME IInv, NEW b \in Backend, Writes(b),
           \/ Appends(b)
           \/ \E i \in DOMAIN rows : Copies(b, i) \/ Stamps(b, i)
    PROVE  IInv'
  <1>1. EndedStay /\ OpenXactsRun' /\ RowType' = RowType
    BY SameXacts DEF Writes, RowType
  <1>2. SnapshotsSort'
    <2>1. \A c \in Backend : cid[c] \in Nat
      BY LogFacts DEF IInv
    <2>2. QED  BY <1>1, <2>1, SnapshotsKept DEF Writes, IInv, SnapshotsSort
  <1>3. ASSUME rows' \in Seq(RowType), DOMAIN rows \subseteq DOMAIN rows',
               pc'[b] # "insert", pc'[b] = "stamp" => at'[b] \in DOMAIN rows'
        PROVE  TypeOK'
    BY <1>1, <1>3 DEF IInv, TypeOK, Writes, RowType
  <1>4. ASSUME NEW l \in Label, rows' = Append(rows, Row(b, l)), pc'[b] # "insert",
               pc'[b] = "stamp" => /\ at'[b] \in DOMAIN rows
                                   /\ MayReplace(xact, xid[b], rows[at'[b]])
        PROVE  IInv'
    <2>1. /\ rows' \in Seq(RowType) /\ DOMAIN rows \subseteq DOMAIN rows'
          /\ \A i \in DOMAIN rows : rows'[i] = rows[i]
          /\ \A i \in DOMAIN rows' \ DOMAIN rows : rows'[i].xmin # NoXid /\ rows'[i].xmax = NoXid
      BY <1>4, AddedRow DEF IInv, Writes
    <2>2. TypeOK'
      BY <1>3, <1>4, <2>1
    <2>3. \A c \in Backend : pc'[c] = "stamp" =>
            at'[c] \in DOMAIN rows /\ xid'[c] = xid[c] /\ WrittenFor(c, at'[c])
      BY <1>4 DEF Writes, IInv, TypeOK, StampsFollow, WrittenFor, MayReplace, TupleIsLive, IsOwn
    <2>4. StampsFollow'
      BY <1>1, <2>1, <2>3, StampsFollowKept
    <2>5. QED  BY <1>1, <1>2, <2>2, <2>4 DEF IInv
  <1>5. CASE Appends(b)
    BY <1>4, <1>5 DEF Appends
  <1>6. ASSUME NEW i \in DOMAIN rows, Copies(b, i) PROVE IInv'
    BY <1>4, <1>6, RowFacts DEF Copies, IInv
  <1>7. ASSUME NEW i \in DOMAIN rows, Stamps(b, i) PROVE IInv'
    <2>1. /\ rows' \in Seq(RowType) /\ DOMAIN rows' = DOMAIN rows
          /\ \A k \in DOMAIN rows : /\ rows'[k].xmin = rows[k].xmin
                                    /\ k # i => rows'[k].xmax = rows[k].xmax
          /\ rows'[i].xmax = xid[b] /\ pc'[b] = "idle"
      BY <1>7, StampedRow DEF IInv, Stamps
    <2>2. TypeOK'
      BY <1>3, <2>1
    <2>3. WrittenFor(b, i)
      BY <1>7 DEF Stamps, IInv, StampsFollow, WrittenFor, MayReplace, TupleIsLive, IsOwn
    <2>4. \A c \in Backend : pc'[c] = "stamp" =>
            at'[c] \in DOMAIN rows /\ xid'[c] = xid[c] /\ WrittenFor(c, at'[c])
      BY <2>1 DEF Writes, IInv, TypeOK, StampsFollow
    <2>5. StampsFollow'
      BY <1>1, <2>1, <2>3, <2>4, StampsFollowKept
    <2>6. QED  BY <1>1, <1>2, <2>2, <2>5 DEF IInv
  <1>8. QED  BY <1>5, <1>6, <1>7

LEMMA EndingSteps ==
    ASSUME IInv, NEW b \in Backend,
           \/ Commit(b) \/ Abort(b) \/ InsertFails(b)
           \/ \E i \in DOMAIN rows : WriteFails(b, i)
    PROVE  /\ xid[b] # NoXid
           /\ \/ End(b, "committed") /\ pc[b] = "idle"
              \/ End(b, "aborted")
    BY DEF Commit, Abort, InsertFails, WriteFails, Ready, IInv, OpenXactsRun

LEMMA NextStep == IInv /\ [Next]_vars => IInv'
  <1> SUFFICES ASSUME IInv, [Next]_vars PROVE IInv'
    OBVIOUS
  <1>1. CASE UNCHANGED vars
    BY <1>1 DEF vars, IInv, TypeOK, OpenXactsRun, SnapshotsSort, SnapshotSorts, Held,
                StampsFollow, WrittenFor
  <1>2. ASSUME NEW b \in Backend, Begin(b) PROVE IInv'
    BY <1>2, BeginStep
  <1>3. ASSUME NEW b \in Backend,
               \/ Commit(b) \/ Abort(b) \/ InsertFails(b)
               \/ \E i \in DOMAIN rows : WriteFails(b, i)
        PROVE  IInv'
    BY <1>3, EndingSteps, EndStep DEF XactStatus
  <1>4. ASSUME NEW b \in Backend,
               \/ TakeSnapshot(b) \/ CommandCounterIncrement(b)
               \/ \E l \in Label : LookUp(b, l)
        PROVE  IInv'
    BY <1>4, QuietStep
  <1>5. ASSUME NEW b \in Backend,
               \/ Insert(b) \/ StampReplaced(b)
               \/ \E i \in DOMAIN rows : Delete(b, i) \/ Replace(b, i)
        PROVE  IInv'
    BY <1>5, WritingSteps, WritingStep
  <1>6. QED  BY <1>1, <1>2, <1>3, <1>4, <1>5 DEF Next

LEMMA IInvHolds == Spec => []IInv
    BY InitIsolated, NextStep, PTL DEF Spec

\* Whatever the backends do, rows and backends name transactions and commands
\* that were handed out, and a replacement in progress names a row.
THEOREM TypeCorrect == Spec => []TypeOK
    BY IInvHolds, PTL DEF IInv
-----------------------------------------------------------------------------
(* Scans.                                                                   *)

\* What the snapshot of a query says of a transaction that is not its own.
LEMMA SnapshotAnswers ==
    ASSUME IInv, NEW b \in Held, NEW x \in 1 .. Len(xact), x # xid[b]
    PROVE  /\ ~XidInMVCCSnapshot(x, snap[b]) /\ DidCommit(xact, x) <=> x \in snap[b].done
           /\ x < snap[b].xmin => x \in snap[b].done \/ DidAbort(xact, x)
  <1> DEFINE s == snap[b]
  <1>1. SnapshotSorts(xid[b], cid[b], s) /\ Len(xact) \in Nat /\ DOMAIN xact = 1 .. Len(xact)
    BY LogFacts DEF IInv, SnapshotsSort, Held
  <1> HIDE DEF s
  <1>2. x \in s.done => /\ x < s.xmax /\ x \notin s.running /\ DidCommit(xact, x)
    BY <1>1 DEF SnapshotSorts
  <1>3. x < s.xmax => x \in s.running \/ x \in s.done \/ DidAbort(xact, x)
    BY <1>1 DEF SnapshotSorts
  <1>4. x < s.xmin => x < s.xmax /\ x \notin s.running
    <2>1. xid[b] \in Nat
      BY LogFacts DEF IInv, Held
    <2>2. QED  BY <1>1, <2>1 DEF SnapshotSorts
  <1>5. ~(DidCommit(xact, x) /\ DidAbort(xact, x))
    BY DEF DidCommit, DidAbort
  <1>6. s.xmax \in Nat
    BY <1>1 DEF SnapshotSorts
  <1>7. QED  BY <1>2, <1>3, <1>4, <1>5, <1>6 DEF XidInMVCCSnapshot, s

\* Its own transaction is not below the snapshot's xmin and has not committed.
LEMMA OwnIsOpen ==
    ASSUME IInv, NEW b \in Held
    PROVE  /\ b \in Backend /\ xid[b] # NoXid /\ xid[b] \in 1 .. Len(xact)
           /\ ~(xid[b] < snap[b].xmin) /\ xid[b] \notin snap[b].done
           /\ ~DidCommit(xact, xid[b]) /\ ~DidAbort(xact, xid[b])
           /\ snap[b].xmin \in Nat /\ snap[b].curcid \in Nat /\ snap[b].curcid <= cid[b]
           /\ cid[b] \in Nat
           /\ \A x \in snap[b].done : DidCommit(xact, x)
  <1>1. /\ b \in Backend /\ xid[b] # NoXid /\ SnapshotSorts(xid[b], cid[b], snap[b])
        /\ xid[b] \in 0 .. Len(xact) /\ Len(xact) \in Nat /\ cid[b] \in Nat
    BY LogFacts DEF IInv, SnapshotsSort, Held
  <1>2. ~DidCommit(xact, xid[b]) /\ ~DidAbort(xact, xid[b])
    BY <1>1 DEF IInv, OpenXactsRun, DidCommit, DidAbort
  <1>3. QED  BY <1>1, <1>2 DEF SnapshotSorts, NoXid

LEMMA ScansMatch == IInv => ScansMatchMVCC
  <1> SUFFICES ASSUME IInv, NEW b \in Held, NEW i \in DOMAIN rows
               PROVE  /\ CatalogVisible(b, snap[b], rows[i])
                         <=> ReferenceVisible(b, snap[b], rows[i])
                      /\ \/ DidAbort(xact, rows[i].xmin) \/ DidAbort(xact, rows[i].xmax)
                         \/ ListVisible(b, snap[b], rows[i])
                            <=> ReferenceVisible(b, snap[b], rows[i])
    BY DEF ScansMatchMVCC
  <1> DEFINE s == snap[b]
             r == rows[i]
             me == xid[b]
  <1>1. /\ r.xmin \in 1 .. Len(xact) /\ r.xmax \in 0 .. Len(xact)
        /\ r.cmin \in Nat /\ r.cmax \in Nat /\ Len(xact) \in Nat
    BY RowFacts, LogFacts DEF IInv, StampsFollow, NoXid
  <1>2. /\ me # NoXid /\ me \in 1 .. Len(xact) /\ ~(me < s.xmin) /\ me \notin s.done
        /\ s.xmin \in Nat /\ s.curcid \in Nat /\ ~DidCommit(xact, me)
        /\ \A x \in s.done : DidCommit(xact, x)
    BY OwnIsOpen
  <1>3. ASSUME NEW x \in 1 .. Len(xact), x # me
        PROVE  /\ ~XidInMVCCSnapshot(x, s) /\ DidCommit(xact, x) <=> x \in s.done
               /\ x < s.xmin => x \in s.done \/ DidAbort(xact, x)
    BY <1>3, SnapshotAnswers
  <1>4. r.xmin = me /\ r.xmax # me => r.xmax = NoXid
    BY <1>2 DEF IInv, StampsFollow
  <1>5. r.xmax # NoXid => r.xmax \in 1 .. Len(xact)
    BY <1>1 DEF NoXid
  <1>6. ASSUME NEW x \in 1 .. Len(xact), NEW c \in Nat
        PROVE  Shows(b, s, x, c) <=> IF x = me THEN c < s.curcid ELSE x \in s.done
    <2>1. x # NoXid
      BY DEF NoXid
    <2>2. QED  BY <1>2, <2>1 DEF Shows, IsOwn
  <1>7. ~Shows(b, s, NoXid, r.cmax)
    BY DEF Shows
  <1> DEFINE Born == IF r.xmin = me THEN r.cmin < s.curcid ELSE r.xmin \in s.done
             Gone == r.xmax # NoXid
                     /\ IF r.xmax = me THEN r.cmax < s.curcid ELSE r.xmax \in s.done
  <1>8. ReferenceVisible(b, s, r) <=> Born /\ ~Gone
    BY <1>1, <1>5, <1>6, <1>7 DEF ReferenceVisible
  <1>9. CatalogVisible(b, s, r) <=> Born /\ ~Gone
    <2>1. r.xmin # NoXid /\ (IsOwn(me, r.xmin) <=> r.xmin = me)
      BY <1>1 DEF IsOwn, NoXid
    <2>2. IsOwn(me, r.xmax) <=> r.xmax # NoXid /\ r.xmax = me
      BY DEF IsOwn
    <2>3. (IF IsOwn(me, r.xmin) THEN r.cmin < s.curcid
           ELSE ~XidInMVCCSnapshot(r.xmin, s) /\ DidCommit(xact, r.xmin)) <=> Born
      BY <1>1, <1>3, <2>1
    <2>4. CASE r.xmax = NoXid
      BY <2>1, <2>3, <2>4 DEF CatalogVisible
    <2>5. CASE r.xmax = me
      BY <1>1, <1>2, <2>1, <2>2, <2>3, <2>5 DEF CatalogVisible
    <2>6. CASE r.xmax # NoXid /\ r.xmax # me
      <3>1. r.xmin # me
        BY <1>4, <2>6
      <3>2. XidInMVCCSnapshot(r.xmax, s) \/ ~DidCommit(xact, r.xmax) <=> r.xmax \notin s.done
        BY <1>3, <1>5, <2>6
      <3>3. QED  BY <2>1, <2>2, <2>3, <2>6, <3>1, <3>2 DEF CatalogVisible
    <2>7. QED  BY <2>4, <2>5, <2>6
  <1>10. ASSUME ~DidAbort(xact, r.xmin), ~DidAbort(xact, r.xmax)
         PROVE  ListVisible(b, s, r) <=> Born /\ ~Gone
    <2>1. /\ r.xmin # NoXid /\ (IsOwn(me, r.xmin) <=> r.xmin = me)
          /\ IsOwn(me, r.xmax) <=> r.xmax # NoXid /\ r.xmax = me
      BY <1>1 DEF IsOwn, NoXid
    <2>2. (\/ r.xmin < s.xmin
           \/ IsOwn(me, r.xmin) /\ r.cmin < s.curcid
           \/ /\ ~IsOwn(me, r.xmin)
              /\ ~XidInMVCCSnapshot(r.xmin, s) /\ DidCommit(xact, r.xmin)) <=> Born
      BY <1>1, <1>2, <1>3, <1>10, <2>1
    <2>3. CASE r.xmax = NoXid
      BY <2>1, <2>2, <2>3 DEF ListVisible
    <2>4. CASE r.xmax = me
      BY <1>1, <1>2, <2>1, <2>2, <2>4 DEF ListVisible
    <2>5. CASE r.xmax # NoXid /\ r.xmax # me
      <3>1. XidInMVCCSnapshot(r.xmax, s) \/ ~DidCommit(xact, r.xmax) <=> r.xmax \notin s.done
        BY <1>3, <1>5, <2>5
      <3>2. r.xmax \notin s.done => r.xmax >= s.xmin
        BY <1>1, <1>2, <1>3, <1>5, <1>10, <2>5
      <3>3. QED  BY <2>1, <2>2, <2>5, <3>1, <3>2 DEF ListVisible
    <2>6. QED  BY <2>3, <2>4, <2>5
  <1> HIDE DEF Born, Gone
  <1>11. QED  BY <1>8, <1>9, <1>10

\* np_catalog_tuple_visible shows what the snapshot contains, for every number
\* of transactions and commands; np_record_satisfies_snapshot does as long as
\* neither transaction on the row was rolled back.
THEOREM ScansMatchHolds == Spec => []ScansMatchMVCC
    BY IInvHolds, ScansMatch, PTL
-----------------------------------------------------------------------------
(* Names.                                                                   *)

\* A row whose replacement the code's check allows carries no stamp that counts.
LEMMA ReplaceableIsFree ==
    ASSUME IInv, NEW b \in Backend, xid[b] # NoXid, NEW i \in DOMAIN rows,
           MayReplace(xact, xid[b], rows[i])
    PROVE  Free(i) /\ ~Dead(i) /\ WrittenFor(b, i)
  <1> DEFINE x == rows[i].xmax
             y == rows[i].xmin
  <1>1. ~IsOwn(xid[b], x) /\ ~InProgress(xact, x)
    BY DEF MayReplace, TupleIsLive, TupleXmaxOther
  <1>2. y = xid[b] \/ DidCommit(xact, y)
    BY DEF MayReplace, TupleIsLive, IsOwn
  <1>3. ~DidAbort(xact, y)
    BY <1>2 DEF IInv, OpenXactsRun, DidAbort, DidCommit
  <1>4. ~DidCommit(xact, x)
    <2>1. CASE IsOwn(xid[b], y)
      <3>1. ~DidCommit(xact, y)
        BY <2>1 DEF IInv, OpenXactsRun, IsOwn, DidCommit
      <3>2. x = NoXid \/ x = y
        BY <3>1 DEF IInv, StampsFollow
      <3>3. QED  BY <1>1, <2>1, <3>2 DEF IsOwn, DidCommit
    <2>2. QED  BY <2>1 DEF MayReplace, TupleIsLive
  <1>5. x # NoXid => xact[x] \in XactStatus
    <2>1. x \in 0 .. Len(xact) /\ xact \in Seq(XactStatus) /\ DOMAIN xact = 1 .. Len(xact)
      BY RowFacts, LogFacts DEF IInv
    <2> HIDE DEF x
    <2>2. QED  BY <2>1 DEF NoXid
  <1> HIDE DEF x, y
  <1>6. x = NoXid \/ DidAbort(xact, x)
    BY <1>1, <1>4, <1>5 DEF InProgress, DidCommit, DidAbort, XactStatus
  <1>7. QED  BY <1>2, <1>3, <1>4, <1>6 DEF Free, Dead, WrittenFor, x, y

\* A row nobody is at work on and that is not live to a backend is dead.
LEMMA NotLiveIsDead ==
    ASSUME IInv, NEW b \in Backend, xid[b] # NoXid, NEW i \in DOMAIN rows,
           i \notin Unsettled(rows[i].key), ~TupleIsLive(xact, xid[b], rows[i])
    PROVE  Dead(i)
  <1>1. ~Running(rows[i].xmin) /\ ~Running(rows[i].xmax) /\ Running(xid[b])
    BY DEF Unsettled, IInv, OpenXactsRun, Running, InProgress
  <1>2. rows[i].xmin # xid[b] /\ rows[i].xmax # xid[b] /\ rows[i].xmin # NoXid
    BY <1>1 DEF IInv, StampsFollow
  <1>3. ~DidCommit(xact, rows[i].xmin) \/ DidCommit(xact, rows[i].xmax)
    BY <1>2 DEF TupleIsLive, IsOwn
  <1>4. xact[rows[i].xmin] \in XactStatus
    BY <1>2, RowFacts, LogFacts DEF IInv, NoXid
  <1>5. QED  BY <1>1, <1>2, <1>3, <1>4 DEF Dead, Running, InProgress, DidCommit, DidAbort, XactStatus

\* Rows stay, with their name and their writer, and only a free one is stamped.
RowsStay ==
    \A i \in DOMAIN rows :
        /\ i \in DOMAIN rows' /\ rows'[i].key = rows[i].key /\ rows'[i].xmin = rows[i].xmin
        /\ rows'[i].xmax = rows[i].xmax \/ Free(i)

LEMMA DeadStay ==
    ASSUME IInv, EndedStay, RowsStay, NEW i \in DOMAIN rows
    PROVE  /\ Dead(i) => Dead(i)'
           /\ Free(i) /\ rows'[i].xmax = rows[i].xmax => Free(i)'
  <1>1. /\ rows[i].xmin \in 0 .. Len(xact) /\ rows[i].xmax \in 0 .. Len(xact)
        /\ DOMAIN xact = 1 .. Len(xact) /\ Len(xact) \in Nat
    BY RowFacts, LogFacts DEF IInv
  <1>2. ASSUME NEW x \in 0 .. Len(xact)
        PROVE  (DidAbort(xact, x) => DidAbort(xact', x)) /\ (DidCommit(xact, x) => DidCommit(xact', x))
    <2>1. CASE x = 0
      BY <2>1 DEF DidAbort, DidCommit, NoXid
    <2>2. CASE x # 0
      BY <1>1, <2>2 DEF EndedStay
    <2>3. QED  BY <2>1, <2>2
  <1>3. Free(i) => ~DidCommit(xact, rows[i].xmax)
    BY DEF Free, DidCommit, DidAbort
  <1>4. QED  BY <1>1, <1>2, <1>3 DEF RowsStay, Dead, Free

\* Rivals were rivals before.
LEMMA RivalsStay ==
    ASSUME IInv, EndedStay, RowsStay, hasty \subseteq hasty',
           NEW i \in DOMAIN rows, NEW j \in DOMAIN rows, Rivals(i, j)'
    PROVE  Rivals(i, j)
  <1>1. ~Dead(i) /\ ~Dead(j)
    BY DeadStay DEF Rivals
  <1>2. rows'[i].key = rows[i].key /\ rows'[j].key = rows[j].key
    BY DEF RowsStay
  <1>3. Calm(rows[i].key)
    BY <1>2 DEF Rivals, Calm, RowsStay, IInv, TypeOK
  <1>4. QED  BY <1>1, <1>2, <1>3 DEF Rivals

\* Marks on dead rows stay right, and a lookup or a check adds right ones.
LEMMA KilledStay ==
    ASSUME IsolatedInv, EndedStay, RowsStay,
           \/ UNCHANGED <<killed, hasty>>
           \/ \E b \in Backend, l \in Label :
                /\ xid[b] # NoXid /\ killed' \subseteq killed \cup MayKill(b, l)
                /\ hasty' = hasty \cup Unsettled(l)
    PROVE  KilledAreDead'
  <1> SUFFICES ASSUME NEW i \in killed', i \notin hasty' PROVE Dead(i)'
    BY DEF KilledAreDead
  <1>1. IInv /\ killed \subseteq DOMAIN rows
    BY DEF IsolatedInv, IInv, TypeOK
  <1>2. i \in DOMAIN rows /\ Dead(i)
    <2>1. CASE i \in killed /\ i \notin hasty
      BY <1>1, <2>1 DEF IsolatedInv, KilledAreDead
    <2>2. ASSUME NEW b \in Backend, NEW l \in Label, xid[b] # NoXid, i \in MayKill(b, l),
                 hasty' = hasty \cup Unsettled(l)
          PROVE  i \in DOMAIN rows /\ Dead(i)
      BY <1>1, <2>2, NotLiveIsDead DEF MayKill
    <2>3. QED  BY <2>1, <2>2
  <1>3. QED  BY <1>1, <1>2, DeadStay

\* The pairs of rows that stay in place are settled as before.
SettledStay ==
    \A c \in Backend, i, j \in DOMAIN rows : Rivals(i, j)' /\ Settles(c, i, j) => Settles(c, i, j)'

LEMMA OldRivals ==
    ASSUME IsolatedInv, EndedStay, RowsStay, hasty \subseteq hasty', SettledStay,
           NEW i \in DOMAIN rows, NEW j \in DOMAIN rows, Rivals(i, j)'
    PROVE  \E c \in Backend : Settles(c, i, j)'
  <1>1. Rivals(i, j)
    BY RivalsStay DEF IsolatedInv
  <1>2. QED  BY <1>1 DEF IsolatedInv, RivalsAreSettled, SettledStay

LEMMA IsolatedBegin ==
    ASSUME IsolatedInv, NEW b \in Backend, Begin(b) PROVE IsolatedInv'
  <1>1. IInv' /\ EndedStay /\ IInv /\ UNCHANGED <<rows, killed, hasty, pc, at>> /\ xid[b] = NoXid
    BY BeginStep DEF IsolatedInv, Begin
  <1>2. RowsStay /\ DOMAIN rows' = DOMAIN rows
    BY <1>1 DEF RowsStay
  <1>3. ReplacedIsFree'
    BY <1>1, <1>2, DeadStay DEF IsolatedInv, ReplacedIsFree, IInv, TypeOK
  <1>4. \A c \in Backend \ {b} : xid'[c] = xid[c]
    BY DEF Begin, IsolatedInv, IInv, TypeOK
  <1>5. SettledStay
    BY <1>1, <1>4 DEF SettledStay, Settles, TakenBy
  <1>6. RivalsAreSettled'
    BY <1>1, <1>2, <1>5, OldRivals DEF RivalsAreSettled
  <1>7. KilledAreDead'
    BY <1>1, <1>2, KilledStay
  <1>8. QED  BY <1>1, <1>3, <1>6, <1>7 DEF IsolatedInv

LEMMA IsolatedEnd ==
    ASSUME IsolatedInv, NEW b \in Backend, xid[b] # NoXid,
           \/ End(b, "committed") /\ pc[b] = "idle"
           \/ End(b, "aborted")
    PROVE  IsolatedInv'
  <1>1. IInv' /\ EndedStay
    BY EndStep DEF IsolatedInv, XactStatus
  <1>2. /\ IInv /\ UNCHANGED <<rows, killed, hasty>> /\ pc'[b] = "idle"
        /\ \A c \in Backend \ {b} : pc'[c] = pc[c] /\ at'[c] = at[c] /\ xid'[c] = xid[c]
    BY DEF End, Goto, IsolatedInv, IInv, TypeOK
  <1>3. RowsStay /\ DOMAIN rows' = DOMAIN rows
    BY <1>2 DEF RowsStay
  <1>4. ReplacedIsFree'
    <2>1. ASSUME NEW c \in Backend, pc'[c] = "stamp"
          PROVE  /\ c # b /\ pc[c] = "stamp" /\ at'[c] = at[c] /\ at[c] \in DOMAIN rows
                 /\ Free(at[c])'
      BY <1>2, <1>3, <2>1, DeadStay, <1>1 DEF IsolatedInv, ReplacedIsFree, IInv, TypeOK
    <2>2. QED  BY <1>2, <2>1 DEF IsolatedInv, ReplacedIsFree, Free
  <1>5. \/ xact' = [xact EXCEPT ![xid[b]] = "committed"] /\ pc[b] = "idle"
        \/ xact' = [xact EXCEPT ![xid[b]] = "aborted"]
    BY DEF End
  <1>6. xid[b] \in DOMAIN xact
    <2>1. xid[b] \in 0 .. Len(xact) /\ DOMAIN xact = 1 .. Len(xact) /\ Len(xact) \in Nat
      BY <1>2, LogFacts DEF IInv
    <2>2. QED  BY <2>1 DEF NoXid
  <1>7. SettledStay
    <2>1. SUFFICES ASSUME NEW c \in Backend, NEW i \in DOMAIN rows, NEW j \in DOMAIN rows,
                          Rivals(i, j)', Settles(c, i, j)
                   PROVE  Settles(c, i, j)'
      BY DEF SettledStay
    <2>2. CASE c # b
      BY <1>2, <2>1, <2>2 DEF Settles, TakenBy
    <2>3. CASE c = b
      <3>1. CASE xact' = [xact EXCEPT ![xid[b]] = "committed"] /\ pc[b] = "idle"
        <4>1. DidCommit(xact', xid[b])
          BY <1>6, <3>1 DEF DidCommit
        <4>2. rows[i].xmax = xid[b] \/ rows[j].xmax = xid[b]
          BY <2>1, <2>3, <3>1 DEF Settles, TakenBy
        <4>3. QED  BY <1>2, <2>1, <4>1, <4>2 DEF Rivals, Dead
      <3>2. CASE xact' = [xact EXCEPT ![xid[b]] = "aborted"]
        <4>1. DidAbort(xact', xid[b])
          BY <1>6, <3>2 DEF DidAbort
        <4>2. rows[i].xmin = xid[b] \/ rows[j].xmin = xid[b]
          BY <2>1, <2>3 DEF Settles
        <4>3. QED  BY <1>2, <2>1, <4>1, <4>2 DEF Rivals, Dead
      <3>3. QED  BY <1>5, <3>1, <3>2
    <2>4. QED  BY <2>2, <2>3
  <1>8. RivalsAreSettled'
    BY <1>1, <1>2, <1>3, <1>7, OldRivals DEF RivalsAreSettled
  <1>9. KilledAreDead'
    BY <1>1, <1>2, <1>3, KilledStay
  <1>10. QED  BY <1>1, <1>4, <1>8, <1>9 DEF IsolatedInv

LEMMA IsolatedQuiet ==
    ASSUME IsolatedInv, NEW b \in Backend,
           TakeSnapshot(b) \/ CommandCounterIncrement(b) \/ \E l \in Label : LookUp(b, l)
    PROVE  IsolatedInv'
  <1>1. IInv' /\ IInv /\ UNCHANGED <<xact, xid, rows>> /\ xid[b] # NoXid /\ pc[b] = "idle"
    BY QuietStep DEF IsolatedInv, TakeSnapshot, CommandCounterIncrement, LookUp, Ready
  <1>2. pc'[b] # "stamp" /\ \A c \in Backend \ {b} : pc'[c] = pc[c] /\ at'[c] = at[c]
    <2>1. CASE TakeSnapshot(b) \/ CommandCounterIncrement(b)
      BY <1>1, <2>1 DEF TakeSnapshot, CommandCounterIncrement
    <2>2. QED  BY <1>1, <2>1 DEF LookUp, Return, Goto, IsolatedInv, IInv, TypeOK
  <1>3. EndedStay /\ RowsStay
    BY <1>1, <1>2, SameXacts DEF RowsStay
  <1>4. ReplacedIsFree'
    BY <1>1, <1>2 DEF IsolatedInv, ReplacedIsFree, Free
  <1>5. SettledStay
    BY <1>1, <1>2 DEF SettledStay, Settles, TakenBy
  <1>6. hasty \subseteq hasty'
    BY DEF TakeSnapshot, CommandCounterIncrement, LookUp
  <1>7. RivalsAreSettled'
    BY <1>1, <1>3, <1>5, <1>6, OldRivals DEF RivalsAreSettled
  <1>8. KilledAreDead'
    <2>1. CASE TakeSnapshot(b) \/ CommandCounterIncrement(b)
      BY <1>3, <2>1, KilledStay DEF TakeSnapshot, CommandCounterIncrement
    <2>2. ASSUME NEW l \in Label, LookUp(b, l) PROVE KilledAreDead'
      <3>1. killed' \subseteq killed \cup MayKill(b, l) /\ hasty' = hasty \cup Unsettled(l)
        BY <2>2 DEF LookUp
      <3>2. QED  BY <1>1, <1>3, <3>1, KilledStay
    <2>3. QED  BY <2>1, <2>2
  <1>9. QED  BY <1>1, <1>4, <1>7, <1>8 DEF IsolatedInv

\* Rows that are being replaced stay free and are different ones.
LEMMA ReplacedStay ==
    ASSUME IInv, EndedStay, RowsStay,
           \A c \in Backend : pc'[c] = "stamp" =>
             \E i \in DOMAIN rows : at'[c] = i /\ Free(i) /\ rows'[i].xmax = rows[i].xmax,
           \A c \in Backend : \A d \in Backend \ {c} :
             pc'[c] = "stamp" /\ pc'[d] = "stamp" => at'[d] # at'[c]
    PROVE  ReplacedIsFree'
  <1>1. \A i \in DOMAIN rows : Free(i) /\ rows'[i].xmax = rows[i].xmax => Free(i)'
    BY DeadStay
  <1>2. ASSUME NEW c \in Backend, pc'[c] = "stamp" PROVE Free(at[c])'
    <2>1. PICK i \in DOMAIN rows : at'[c] = i /\ Free(i) /\ rows'[i].xmax = rows[i].xmax
      BY <1>2
    <2>2. QED  BY <1>1, <2>1 DEF Free
  <1>3. QED  BY <1>2 DEF ReplacedIsFree

LEMMA IsolatedWrite ==
    ASSUME Isolated, IsolatedInv, NEW b \in Backend, Writes(b), IInv',
           \/ Appends(b)
           \/ \E i \in DOMAIN rows : Copies(b, i) \/ Stamps(b, i)
    PROVE  IsolatedInv'
  <1>1. /\ UNCHANGED <<xact, xid>> /\ xid[b] # NoXid /\ IInv /\ EndedStay
        /\ \A c \in Backend \ {b} : pc'[c] = pc[c] /\ at'[c] = at[c]
    BY SameXacts DEF Writes, IsolatedInv
  <1>2. \A c \in Backend \ {b} : xid[c] # xid[b]
    BY <1>1 DEF IInv, OpenXactsRun
  <1>3. ~DidCommit(xact, xid[b]) /\ ~DidAbort(xact, xid[b])
    BY <1>1 DEF IInv, OpenXactsRun, DidCommit, DidAbort
  \* The rows that stay where they are when one is added.
  <1>4. ASSUME NEW l \in Label, rows' = Append(rows, Row(b, l)), pc[b] # "stamp"
        PROVE  /\ RowsStay /\ SettledStay
               /\ DOMAIN rows' = DOMAIN rows \cup {Len(rows) + 1}
               /\ \A i \in DOMAIN rows : rows'[i] = rows[i] /\ i # Len(rows) + 1
               /\ rows'[Len(rows) + 1].key = l /\ rows'[Len(rows) + 1].xmin = xid[b]
    <2>1. /\ DOMAIN rows' = DOMAIN rows \cup {Len(rows) + 1}
          /\ \A i \in DOMAIN rows : rows'[i] = rows[i] /\ i # Len(rows) + 1
          /\ rows'[Len(rows) + 1].key = l /\ rows'[Len(rows) + 1].xmin = xid[b]
      BY <1>1, <1>4, AddedRow DEF IInv
    <2>2. QED  BY <1>1, <1>4, <2>1 DEF RowsStay, SettledStay, Settles, TakenBy
  <1>5. CASE Appends(b)
    <2> PICK l, k : l = at[b] /\ k = Len(rows) + 1
      OBVIOUS
    <2>1. /\ l \in Label /\ rows' = Append(rows, Row(b, l)) /\ pc[b] = "insert" /\ pc'[b] = "idle"
          /\ ~Conflict(b, l) /\ hasty' = hasty \cup Unsettled(l)
          /\ killed' \subseteq killed \cup MayKill(b, l)
      BY <1>5 DEF Appends, Insert
    <2>2. /\ RowsStay /\ SettledStay /\ DOMAIN rows' = DOMAIN rows \cup {k}
          /\ \A i \in DOMAIN rows : rows'[i] = rows[i] /\ i # k
          /\ rows'[k].key = l
      BY <1>4, <2>1
    <2>3. ReplacedIsFree'
      <3>1. \A c \in Backend : pc'[c] = "stamp" => c # b /\ pc[c] = "stamp" /\ at'[c] = at[c]
        BY <1>1, <2>1
      <3>2. \A c \in Backend : pc[c] = "stamp" =>
              /\ at[c] \in DOMAIN rows /\ Free(at[c])
              /\ \A d \in Backend \ {c} : pc[d] = "stamp" => at[d] # at[c]
        BY DEF IsolatedInv, ReplacedIsFree, IInv, TypeOK
      <3>3. \A c \in Backend : pc'[c] = "stamp" =>
              \E i \in DOMAIN rows : at'[c] = i /\ Free(i) /\ rows'[i].xmax = rows[i].xmax
        BY <2>2, <3>1, <3>2
      <3>4. \A c \in Backend : \A d \in Backend \ {c} :
              pc'[c] = "stamp" /\ pc'[d] = "stamp" => at'[d] # at'[c]
        BY <3>1, <3>2
      <3>5. QED  BY <1>1, <2>2, <3>3, <3>4, ReplacedStay
    <2>4. KilledAreDead'
      BY <1>1, <2>1, <2>2, KilledStay
    <2>5. ASSUME NEW i \in DOMAIN rows, rows[i].key = l, Calm(l)' PROVE Dead(i)'
      <3>1. i \notin hasty /\ i \notin Unsettled(l)
        BY <2>1, <2>2, <2>5 DEF Calm
      <3>2. CASE i \in killed
        BY <1>1, <2>2, <3>1, <3>2, DeadStay DEF IsolatedInv, KilledAreDead
      <3>3. CASE i \notin killed
        <4>1. ~TupleIsLive(xact, xid[b], rows[i])
          BY <2>1, <2>5, <3>3 DEF Conflict
        <4>2. Dead(i)
          BY <1>1, <2>5, <3>1, <4>1, NotLiveIsDead
        <4>3. QED  BY <1>1, <2>2, <4>2, DeadStay
      <3>4. QED  BY <3>2, <3>3
    <2>6. \A i \in DOMAIN rows : ~Rivals(i, k)' /\ ~Rivals(k, i)'
      BY <2>2, <2>5 DEF Rivals
    <2>7. RivalsAreSettled'
      <3>1. SUFFICES ASSUME NEW i \in DOMAIN rows', NEW j \in DOMAIN rows', Rivals(i, j)'
                     PROVE  \E c \in Backend : Settles(c, i, j)'
        BY DEF RivalsAreSettled
      <3>2. i # j
        BY <3>1 DEF Rivals
      <3>3. i \in DOMAIN rows /\ j \in DOMAIN rows
        BY <2>2, <2>6, <3>1, <3>2
      <3>4. QED  BY <1>1, <2>1, <2>2, <3>1, <3>3, OldRivals
    <2>8. QED  BY <2>3, <2>4, <2>7 DEF IsolatedInv
  <1>6. ASSUME NEW i \in DOMAIN rows, Copies(b, i) PROVE IsolatedInv'
    <2> PICK l, k : l = rows[i].key /\ k = Len(rows) + 1
      OBVIOUS
    <2>1. /\ l \in Label /\ rows' = Append(rows, Row(b, l)) /\ pc[b] = "idle" /\ at'[b] = i
          /\ pc'[b] = "stamp" /\ UNCHANGED <<killed, hasty>>
          /\ \A c \in Backend : pc[c] = "stamp" => at[c] # i
      BY <1>1, <1>6, RowFacts DEF Copies, IInv
    <2>2. /\ RowsStay /\ SettledStay /\ DOMAIN rows' = DOMAIN rows \cup {k}
          /\ \A j \in DOMAIN rows : rows'[j] = rows[j] /\ j # k
          /\ rows'[k].key = l /\ rows'[k].xmin = xid[b]
      BY <1>4, <2>1
    <2>3. Free(i) /\ ~Dead(i) /\ WrittenFor(b, i)
      BY <1>1, <1>6, ReplaceableIsFree DEF Copies
    <2>4. ReplacedIsFree'
      <3>1. \A c \in Backend : pc'[c] = "stamp" =>
              \/ c = b /\ at'[c] = i
              \/ /\ c # b /\ pc[c] = "stamp" /\ at'[c] = at[c] /\ at[c] # i
                 /\ at[c] \in DOMAIN rows /\ Free(at[c])
        BY <1>1, <2>1 DEF IsolatedInv, ReplacedIsFree, IInv, TypeOK
      <3>2. \A c \in Backend : \A d \in Backend \ {c} :
              pc'[c] = "stamp" /\ pc'[d] = "stamp" => at'[d] # at'[c]
        BY <3>1 DEF IsolatedInv, ReplacedIsFree
      <3>3. QED  BY <1>1, <2>2, <2>3, <3>1, <3>2, ReplacedStay
    <2>5. KilledAreDead'
      BY <1>1, <2>1, <2>2, KilledStay
    <2>6. ASSUME NEW c \in Backend, TakenBy(c, i), xid[c] # NoXid PROVE FALSE
      <3>1. rows[i].xmax = xid[c]
        BY <2>1, <2>6 DEF TakenBy
      <3>2. xact[xid[c]] = "running"
        BY <1>1, <2>6 DEF IInv, OpenXactsRun
      <3>3. QED  BY <2>3, <2>6, <3>1, <3>2 DEF Free, DidAbort
    <2>7. ASSUME NEW j \in DOMAIN rows, Rivals(j, k)' PROVE Settles(b, j, k)'
      <3>1. CASE j = i
        BY <1>1, <2>1, <2>2, <3>1 DEF Settles, TakenBy
      <3>2. CASE j # i
        <4>1. ~Dead(j) /\ rows[j].key = l /\ Calm(l)
          <5>1. ~Dead(j)
            BY <1>1, <2>2, <2>7, DeadStay DEF Rivals
          <5>2. rows[j].key = l
            BY <2>2, <2>7 DEF Rivals
          <5>3. Calm(l)
            BY <1>1, <2>1, <2>2, <2>7 DEF Rivals, Calm, IInv, TypeOK
          <5>4. QED  BY <5>1, <5>2, <5>3
        <4>2. Rivals(i, j)
          BY <2>3, <3>2, <4>1 DEF Rivals
        <4>3. PICK c \in Backend : Settles(c, i, j)
          BY <4>2 DEF IsolatedInv, RivalsAreSettled
        <4>4. xid[c] # NoXid /\ TakenBy(c, j) /\ rows[i].xmin = xid[c]
          BY <2>6, <4>3 DEF Settles
        <4>5. xact[xid[c]] = "running"
          BY <1>1, <4>4 DEF IInv, OpenXactsRun
        <4>6. c = b
          BY <1>2, <2>3, <4>4, <4>5 DEF WrittenFor, DidCommit
        <4>7. rows[j].xmax = xid[b]
          BY <2>1, <4>4, <4>6 DEF TakenBy
        <4>8. QED  BY <1>1, <2>2, <4>7 DEF Settles, TakenBy
      <3>3. QED  BY <3>1, <3>2
    <2>8. RivalsAreSettled'
      <3>1. SUFFICES ASSUME NEW j \in DOMAIN rows', NEW m \in DOMAIN rows', Rivals(j, m)'
                     PROVE  \E c \in Backend : Settles(c, j, m)'
        BY DEF RivalsAreSettled
      <3>2. j # m
        BY <3>1 DEF Rivals
      <3>3. CASE j \in DOMAIN rows /\ m \in DOMAIN rows
        BY <1>1, <2>1, <2>2, <3>1, <3>3, OldRivals
      <3>4. CASE j \in DOMAIN rows /\ m = k
        BY <2>7, <3>1, <3>4
      <3>5. CASE j = k /\ m \in DOMAIN rows
        <4>1. Rivals(m, j)'
          BY <3>1 DEF Rivals
        <4>2. Settles(b, m, j)'
          BY <2>7, <3>5, <4>1
        <4>3. QED  BY <4>2 DEF Settles
      <3>6. QED  BY <2>2, <3>1, <3>2, <3>3, <3>4, <3>5
    <2>9. QED  BY <2>4, <2>5, <2>8 DEF IsolatedInv
  <1>7. ASSUME NEW i \in DOMAIN rows, Stamps(b, i) PROVE IsolatedInv'
    <2>1. /\ DOMAIN rows' = DOMAIN rows /\ pc'[b] = "idle" /\ UNCHANGED <<killed, hasty>>
          /\ \A j \in DOMAIN rows : j # i => rows'[j] = rows[j]
          /\ rows'[i].key = rows[i].key /\ rows'[i].xmin = rows[i].xmin
          /\ rows'[i].xmax = xid[b]
      BY <1>1, <1>7, StampedRow DEF Stamps, IInv
    <2>2. /\ Free(i)
          /\ \A c \in Backend \ {b} : pc[c] = "stamp" => at[c] # i
          /\ pc[b] = "stamp" => at[b] = i
      <3>1. CASE MayReplace(xact, xid[b], rows[i]) /\ pc[b] = "idle"
        BY <1>1, <1>7, <3>1, ReplaceableIsFree DEF Stamps
      <3>2. CASE pc[b] = "stamp" /\ at[b] = i
        BY <3>2 DEF IsolatedInv, ReplacedIsFree
      <3>3. QED  BY <1>7, <3>1, <3>2 DEF Stamps
    <2>3. RowsStay
      BY <2>1, <2>2 DEF RowsStay
    <2>4. ReplacedIsFree'
      <3>1. \A c \in Backend : pc'[c] = "stamp" =>
              /\ c # b /\ pc[c] = "stamp" /\ at'[c] = at[c] /\ at[c] # i
              /\ at[c] \in DOMAIN rows /\ Free(at[c])
        BY <1>1, <2>1, <2>2 DEF IsolatedInv, ReplacedIsFree, IInv, TypeOK
      <3>2. \A c \in Backend : \A d \in Backend \ {c} :
              pc'[c] = "stamp" /\ pc'[d] = "stamp" => at'[d] # at'[c]
        BY <3>1 DEF IsolatedInv, ReplacedIsFree
      <3>3. QED  BY <1>1, <2>1, <2>3, <3>1, <3>2, ReplacedStay
    <2>5. KilledAreDead'
      BY <1>1, <2>1, <2>3, KilledStay
    <2>6. ASSUME NEW c \in Backend, NEW j \in DOMAIN rows, xid[c] # NoXid, TakenBy(c, j)
          PROVE  TakenBy(c, j)'
      <3>1. rows[i].xmax # xid[c]
        BY <1>1, <2>2, <2>6 DEF IInv, OpenXactsRun, Free, DidAbort
      <3>2. CASE j = i
        BY <1>1, <2>1, <2>2, <2>6, <3>1, <3>2 DEF TakenBy
      <3>3. CASE j # i
        BY <1>1, <2>1, <2>2, <2>6, <3>3 DEF TakenBy
      <3>4. QED  BY <3>2, <3>3
    <2>7. SettledStay
      <3>1. \A j \in DOMAIN rows : rows'[j].xmin = rows[j].xmin
        BY <2>1
      <3>2. QED  BY <1>1, <2>6, <3>1 DEF SettledStay, Settles
    <2>8. RivalsAreSettled'
      BY <1>1, <2>1, <2>3, <2>7, OldRivals DEF RivalsAreSettled
    <2>9. QED  BY <2>4, <2>5, <2>8 DEF IsolatedInv
  <1>8. QED  BY <1>5, <1>6, <1>7

LEMMA IsolatedNext == Isolated /\ IsolatedInv /\ [Next]_vars => IsolatedInv'
  <1> SUFFICES ASSUME Isolated, IsolatedInv, [Next]_vars PROVE IsolatedInv'
    OBVIOUS
  <1>1. IInv /\ IInv'
    BY NextStep DEF IsolatedInv
  <1>2. CASE UNCHANGED vars
    BY <1>1, <1>2 DEF vars, IsolatedInv, ReplacedIsFree, KilledAreDead, RivalsAreSettled, Rivals,
                      Settles, TakenBy, Calm, Free, Dead
  <1>3. ASSUME NEW b \in Backend, Begin(b) PROVE IsolatedInv'
    BY <1>3, IsolatedBegin
  <1>4. ASSUME NEW b \in Backend,
               \/ Commit(b) \/ Abort(b) \/ InsertFails(b)
               \/ \E i \in DOMAIN rows : WriteFails(b, i)
        PROVE  IsolatedInv'
    BY <1>1, <1>4, EndingSteps, IsolatedEnd
  <1>5. ASSUME NEW b \in Backend,
               \/ TakeSnapshot(b) \/ CommandCounterIncrement(b)
               \/ \E l \in Label : LookUp(b, l)
        PROVE  IsolatedInv'
    BY <1>5, IsolatedQuiet
  <1>6. ASSUME NEW b \in Backend,
               \/ Insert(b) \/ StampReplaced(b)
               \/ \E i \in DOMAIN rows : Delete(b, i) \/ Replace(b, i)
        PROVE  IsolatedInv'
    BY <1>1, <1>6, WritingSteps, IsolatedWrite
  <1>7. QED  BY <1>2, <1>3, <1>4, <1>5, <1>6 DEF Next

LEMMA IsolatedHolds == Isolated => (Spec => []IsolatedInv)
  <1> SUFFICES ASSUME Isolated PROVE Spec => []IsolatedInv
    OBVIOUS
  <1>1. Init => IsolatedInv
    BY InitIsolated
  <1>2. IsolatedInv /\ [Next]_vars => IsolatedInv'
    BY IsolatedNext
  <1>3. QED  BY <1>1, <1>2, PTL DEF Spec

\* Of two rows of a name one is dead once no transaction is open on them.
LEMMA StandingIsOne == IsolatedInv => NoTwinRows
  <1> SUFFICES ASSUME IsolatedInv, NEW i \in DOMAIN rows, NEW j \in DOMAIN rows,
                      rows[i].key = rows[j].key, Stands(i), Stands(j), Calm(rows[i].key), i # j
               PROVE  FALSE
    BY DEF NoTwinRows, Calm
  <1>1. Rivals(i, j)
    BY DEF Rivals, Stands, Dead, DidCommit, DidAbort
  <1>2. PICK c \in Backend : Settles(c, i, j)
    BY <1>1 DEF IsolatedInv, RivalsAreSettled
  <1>3. xact[xid[c]] = "running"
    BY <1>2 DEF Settles, IsolatedInv, IInv, OpenXactsRun
  <1>4. QED  BY <1>2, <1>3 DEF Settles, Stands, DidCommit

\* Unless somebody writes a row that is being replaced, a label name has one
\* committed row, as long as no look-up and no uniqueness check met a row of
\* that name with a transaction running on it.
THEOREM NoTwinRowsIfIsolated == Isolated => (Spec => []NoTwinRows)
    BY IsolatedHolds, StandingIsOne, PTL

\* Under the same condition no index entry is wrongly marked dead: a row whose
\* deletion was rolled back is found again by np_catalog_index_fetch_tuple.
THEOREM CommittedIsIndexedIfIsolated == Isolated => (Spec => []CommittedIsIndexed)
  <1>1. IsolatedInv => CommittedIsIndexed
    BY DEF IsolatedInv, KilledAreDead, CommittedIsIndexed, Dead, Stands, DidCommit, DidAbort
  <1>2. QED  BY <1>1, IsolatedHolds, PTL
-----------------------------------------------------------------------------
(* What a query sees stays the same.                                        *)

LEMMA ScansMatchNext == (IInv => ScansMatchMVCC)'
    BY ScansMatch, PTL

\* The scan of b's query answers in the next state as it does in this one.
AnswersStay(b) ==
    /\ \A i \in DOMAIN rows :
         CatalogVisible(b, snap[b], rows[i])' <=> CatalogVisible(b, snap[b], rows[i])
    /\ \A i \in DOMAIN rows' \ DOMAIN rows : ~CatalogVisible(b, snap[b], rows[i])'

\* A snapshot shows no work done after it, nor a stamp that does not count.
LEMMA LaterIsNotShown ==
    ASSUME IInv, NEW b \in Held
    PROVE  /\ \A c \in Backend : xid[c] # NoXid => ~Shows(b, snap[b], xid[c], cid[c])
           /\ \A i \in DOMAIN rows : Free(i) => ~Shows(b, snap[b], rows[i].xmax, rows[i].cmax)
  <1>1. /\ b \in Backend /\ ~(cid[b] < snap[b].curcid) /\ ~DidAbort(xact, xid[b])
        /\ \A x \in snap[b].done : DidCommit(xact, x)
    BY OwnIsOpen
  <1>2. ASSUME NEW c \in Backend, xid[c] # NoXid PROVE ~Shows(b, snap[b], xid[c], cid[c])
    <2>1. ~DidCommit(xact, xid[c])
      BY <1>2 DEF IInv, OpenXactsRun, DidCommit
    <2>2. xid[c] = xid[b] => c = b
      BY <1>1, <1>2 DEF IInv, OpenXactsRun
    <2>3. QED  BY <1>1, <2>1, <2>2 DEF Shows, IsOwn
  <1>3. ASSUME NEW i \in DOMAIN rows, Free(i)
        PROVE  ~Shows(b, snap[b], rows[i].xmax, rows[i].cmax)
    BY <1>1, <1>3 DEF Free, Shows, IsOwn, DidAbort, DidCommit
  <1>4. QED  BY <1>2, <1>3

\* Queries whose snapshot and transaction go on see the same if each row is as
\* it was or is stamped while it was free, and if the new ones are the work of
\* open transactions.
LEMMA AnswersStayIf ==
    ASSUME IInv, IInv', NEW b \in Held, snap'[b] = snap[b], xid'[b] = xid[b],
           DOMAIN rows \subseteq DOMAIN rows',
           \A i \in DOMAIN rows :
             /\ rows'[i].xmin = rows[i].xmin /\ rows'[i].cmin = rows[i].cmin
             /\ \/ rows'[i].xmax = rows[i].xmax /\ rows'[i].cmax = rows[i].cmax
                \/ /\ Free(i)
                   /\ \E c \in Backend : /\ xid[c] # NoXid
                                         /\ rows'[i].xmax = xid[c] /\ rows'[i].cmax = cid[c],
           \A i \in DOMAIN rows' \ DOMAIN rows :
             \E c \in Backend : /\ xid[c] # NoXid
                                /\ rows'[i].xmin = xid[c] /\ rows'[i].cmin = cid[c]
    PROVE  AnswersStay(b)
  <1> DEFINE s == snap[b]
  <1>1. ScansMatchMVCC /\ ScansMatchMVCC'
    BY ScansMatch, ScansMatchNext
  <1>2. b \in Held'
    BY DEF Held
  <1>3. \A x, c : Shows(b, snap[b], x, c)' <=> Shows(b, snap[b], x, c)
    BY DEF Shows
  <1>4. ASSUME NEW i \in DOMAIN rows
        PROVE  CatalogVisible(b, snap[b], rows[i])' <=> CatalogVisible(b, snap[b], rows[i])
    <2>1. CatalogVisible(b, s, rows[i]) <=> ReferenceVisible(b, s, rows[i])
      BY <1>1 DEF ScansMatchMVCC
    <2>2. CatalogVisible(b, snap[b], rows[i])' <=> ReferenceVisible(b, snap[b], rows[i])'
      BY <1>1, <1>2 DEF ScansMatchMVCC
    <2>3. Shows(b, s, rows'[i].xmax, rows'[i].cmax) <=> Shows(b, s, rows[i].xmax, rows[i].cmax)
      BY LaterIsNotShown
    <2>4. ReferenceVisible(b, snap[b], rows[i])'
          <=> Shows(b, s, rows'[i].xmin, rows'[i].cmin) /\ ~Shows(b, s, rows'[i].xmax, rows'[i].cmax)
      BY DEF ReferenceVisible, Shows
    <2>5. QED  BY <2>1, <2>2, <2>3, <2>4 DEF ReferenceVisible
  <1>5. ASSUME NEW i \in DOMAIN rows' \ DOMAIN rows PROVE ~CatalogVisible(b, snap[b], rows[i])'
    <2>1. CatalogVisible(b, snap[b], rows[i])' <=> ReferenceVisible(b, snap[b], rows[i])'
      BY <1>1, <1>2 DEF ScansMatchMVCC
    <2>2. ~Shows(b, s, rows'[i].xmin, rows'[i].cmin)
      BY LaterIsNotShown
    <2>3. ReferenceVisible(b, snap[b], rows[i])' => Shows(b, s, rows'[i].xmin, rows'[i].cmin)
      BY DEF ReferenceVisible, Shows
    <2>4. QED  BY <2>1, <2>2, <2>3
  <1>6. QED  BY <1>4, <1>5 DEF AnswersStay

LEMMA StepKeepsAnswers ==
    ASSUME Isolated, IsolatedInv, [Next]_vars, NEW b \in Held, snap'[b] = snap[b]
    PROVE  AnswersStay(b)
  <1>1. IInv /\ IInv' /\ b \in Backend /\ snap[b] # NoSnapshot
    BY NextStep DEF IsolatedInv, Held
  <1>2. ASSUME rows' = rows, xid'[b] = xid[b] PROVE AnswersStay(b)
    BY <1>1, <1>2, AnswersStayIf
  <1>3. CASE UNCHANGED vars
    BY <1>2, <1>3 DEF vars
  <1>4. ASSUME NEW c \in Backend, Begin(c) PROVE AnswersStay(b)
    <2>1. c # b
      BY <1>1, <1>4, BeginStep
    <2>2. rows' = rows /\ xid'[b] = xid[b]
      BY <1>1, <1>4, <2>1 DEF Begin, IInv, TypeOK
    <2>3. QED  BY <1>2, <2>2
  <1>5. ASSUME NEW c \in Backend,
               \/ Commit(c) \/ Abort(c) \/ InsertFails(c)
               \/ \E i \in DOMAIN rows : WriteFails(c, i)
        PROVE  AnswersStay(b)
    <2>1. End(c, "committed") \/ End(c, "aborted")
      BY <1>1, <1>5, EndingSteps
    <2>2. rows' = rows /\ c # b /\ xid'[b] = xid[b]
      BY <1>1, <2>1 DEF End, IInv, TypeOK, SnapshotsSort
    <2>3. QED  BY <1>2, <2>2
  <1>6. ASSUME NEW c \in Backend,
               \/ TakeSnapshot(c) \/ CommandCounterIncrement(c)
               \/ \E l \in Label : LookUp(c, l)
        PROVE  AnswersStay(b)
    BY <1>2, <1>6 DEF TakeSnapshot, CommandCounterIncrement, LookUp
  <1>7. ASSUME NEW c \in Backend,
               \/ Insert(c) \/ StampReplaced(c)
               \/ \E i \in DOMAIN rows : Delete(c, i) \/ Replace(c, i)
        PROVE  AnswersStay(b)
    <2>1. /\ Writes(c) /\ xid' = xid /\ xid[c] # NoXid
          /\ Appends(c) \/ \E i \in DOMAIN rows : Copies(c, i) \/ Stamps(c, i)
      BY <1>1, <1>7, WritingSteps DEF Writes
    <2>2. ASSUME NEW l \in Label, rows' = Append(rows, Row(c, l)) PROVE AnswersStay(b)
      <3>1. /\ DOMAIN rows' = DOMAIN rows \cup {Len(rows) + 1}
            /\ \A i \in DOMAIN rows : rows'[i] = rows[i]
            /\ rows'[Len(rows) + 1].xmin = xid[c] /\ rows'[Len(rows) + 1].cmin = cid[c]
        BY <1>1, <2>2, AddedRow DEF IInv
      <3>2. QED  BY <1>1, <2>1, <3>1, AnswersStayIf
    <2>3. CASE Appends(c)
      BY <2>2, <2>3 DEF Appends
    <2>4. ASSUME NEW i \in DOMAIN rows, Copies(c, i) PROVE AnswersStay(b)
      BY <1>1, <2>2, <2>4, RowFacts DEF Copies, IInv
    <2>5. ASSUME NEW i \in DOMAIN rows, Stamps(c, i) PROVE AnswersStay(b)
      <3>1. /\ DOMAIN rows' = DOMAIN rows /\ \A k \in DOMAIN rows : k # i => rows'[k] = rows[k]
            /\ rows'[i].xmin = rows[i].xmin /\ rows'[i].cmin = rows[i].cmin
            /\ rows'[i].xmax = xid[c] /\ rows'[i].cmax = cid[c]
        BY <1>1, <2>5, StampedRow DEF Stamps, IInv
      <3>2. Free(i)
        BY <1>1, <2>1, <2>5, ReplaceableIsFree DEF Stamps, IsolatedInv, ReplacedIsFree
      <3>3. QED  BY <1>1, <2>1, <3>1, <3>2, AnswersStayIf
    <2>6. QED  BY <2>1, <2>3, <2>4, <2>5
  <1>8. QED  BY <1>3, <1>4, <1>5, <1>6, <1>7 DEF Next

\* Unless somebody writes a row that is being replaced, what a query sees does
\* not change while it keeps its snapshot: no commit, no abort and no write,
\* its own included, adds a row to the scan or takes one away.
THEOREM ScanIsStableIfIsolated == Isolated => (Spec => ScanIsStable)
  <1> SUFFICES ASSUME Isolated PROVE Spec => ScanIsStable
    OBVIOUS
  <1>1. IsolatedInv /\ [Next]_vars =>
          [\A b \in Held : snap'[b] = snap[b] =>
             /\ \A i \in DOMAIN rows :
                  CatalogVisible(b, snap[b], rows[i])' <=> CatalogVisible(b, snap[b], rows[i])
             /\ \A i \in DOMAIN rows' \ DOMAIN rows : ~CatalogVisible(b, snap[b], rows[i])']_vars
    BY StepKeepsAnswers DEF AnswersStay
  <1>2. Spec => []IsolatedInv
    BY IsolatedHolds
  <1>3. QED  BY <1>1, <1>2, PTL DEF Spec, ScanIsStable
=============================================================================
