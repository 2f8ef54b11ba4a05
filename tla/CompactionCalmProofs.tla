------------------------- MODULE CompactionCalmProofs -------------------------
(***************************************************************************)
(* What rotations and compactions keep of the lists when transactions come *)
(* one after another: the chain of every vertex, each entry on it once,    *)
(* its stamp, and the tables compactions have done with.                   *)
(***************************************************************************)
EXTENDS CompactionProofs

(***************************************************************************)
(* Chains in a sequence N of nodes.  R[n] are the nodes a walk from n      *)
(* meets.                                                                  *)
(***************************************************************************)

Links(N) == Nil \notin DOMAIN N /\ \A n \in DOMAIN N : N[n].next \in DOMAIN N \cup {Nil}

\* Every set of nodes has one that leads out of it: no walk goes in a circle.
Founded(N) == \A S \in SUBSET DOMAIN N : S # {} => \E n \in S : N[n].next \notin S

IsReach(N, R) == R[Nil] = {} /\ \A n \in DOMAIN N : R[n] = {n} \cup R[N[n].next]

\* A walk does not leave a set that links do not lead out of.
LEMMA ReachStays ==
    ASSUME NEW N, NEW R, Founded(N), IsReach(N, R), NEW S \in SUBSET DOMAIN N,
           \A m \in S : N[m].next \in S \cup {Nil}, NEW n \in S \cup {Nil}
    PROVE  R[n] \subseteq S
  <1> DEFINE Bad == {m \in S : ~(R[m] \subseteq S)}
  <1>1. ASSUME Bad # {} PROVE FALSE
    <2>1. PICK m \in Bad : N[m].next \notin Bad
      BY <1>1 DEF Founded
    <2>2. R[m] = {m} \cup R[N[m].next] /\ N[m].next \in S \cup {Nil}
      BY DEF IsReach
    <2>3. R[N[m].next] \subseteq S
      BY <2>1, <2>2 DEF IsReach
    <2>4. QED  BY <2>2, <2>3
  <1>2. QED  BY <1>1 DEF IsReach

LEMMA ReachIsIn ==
    ASSUME NEW N, NEW R, Links(N), Founded(N), IsReach(N, R)
    PROVE  /\ R[Nil] = {}
           /\ \A n \in DOMAIN N : R[n] \subseteq DOMAIN N /\ n \in R[n] /\ R[N[n].next] \subseteq R[n]
  <1>1. ASSUME NEW n \in DOMAIN N PROVE R[n] \subseteq DOMAIN N
    BY ReachStays DEF Links
  <1>2. QED  BY <1>1 DEF IsReach

\* What follows a node that is met is met.
LEMMA ReachGoesOn ==
    ASSUME NEW N, NEW R, Links(N), Founded(N), IsReach(N, R),
           NEW n \in DOMAIN N, NEW m \in R[n]
    PROVE  /\ m \in DOMAIN N /\ R[m] \subseteq R[n] /\ N[m].next \in R[n] \cup {Nil}
  <1> DEFINE Bad == {k \in DOMAIN N : \E l \in R[k] : ~(R[l] \subseteq R[k])}
  <1>1. ASSUME Bad # {} PROVE FALSE
    <2>1. PICK k \in Bad : N[k].next \notin Bad
      BY <1>1 DEF Founded
    <2>2. PICK l \in R[k] : ~(R[l] \subseteq R[k])
      OBVIOUS
    <2>3. R[k] = {k} \cup R[N[k].next] /\ (N[k].next \in DOMAIN N \/ N[k].next = Nil)
      BY DEF IsReach, Links
    <2>4. l \in R[N[k].next]
      BY <2>2, <2>3
    <2>5. R[l] \subseteq R[N[k].next]
      BY <2>1, <2>3, <2>4 DEF IsReach
    <2>6. QED  BY <2>2, <2>3, <2>5
  <1>2. m \in DOMAIN N /\ R[m] \subseteq R[n]
    BY <1>1, ReachIsIn
  <1>3. N[m].next \in DOMAIN N => N[m].next \in R[m]
    BY <1>2 DEF IsReach
  <1>4. QED  BY <1>2, <1>3 DEF Links

\* No walk comes back.
LEMMA NoWayBack ==
    ASSUME NEW N, NEW R, Links(N), Founded(N), IsReach(N, R), NEW n \in DOMAIN N
    PROVE  n \notin R[N[n].next]
  <1> SUFFICES ASSUME n \in R[N[n].next] PROVE FALSE
    OBVIOUS
  <1> DEFINE S == {k \in R[n] : n \in R[k]}
  <1>1. n \in S /\ S \in SUBSET DOMAIN N
    BY ReachIsIn
  <1>2. PICK k \in S : N[k].next \notin S
    BY <1>1 DEF Founded
  <1>3. k \in DOMAIN N /\ k \in R[n] /\ N[k].next \in R[n] \cup {Nil}
    BY <1>1, <1>2, ReachGoesOn
  <1>4. n \in R[N[k].next]
    <2>1. n \in R[k] /\ R[k] = {k} \cup R[N[k].next]
      BY <1>3 DEF IsReach
    <2>2. k = n => n \in R[N[k].next]
      OBVIOUS
    <2>3. QED  BY <2>1, <2>2
  <1>5. N[k].next # Nil
    BY <1>4 DEF IsReach
  <1>6. N[k].next \in S
    BY <1>3, <1>4, <1>5
  <1>7. QED  BY <1>2, <1>6

\* A walk whose links are kept meets the same nodes.
LEMMA ReachKept ==
    ASSUME NEW N, NEW R, Links(N), Founded(N), IsReach(N, R),
           NEW M, NEW Q, IsReach(M, Q),
           NEW n \in DOMAIN N \cup {Nil},
           \A m \in R[n] : m \in DOMAIN M /\ M[m].next = N[m].next
    PROVE  Q[n] = R[n]
  <1> DEFINE Bad == {m \in R[n] : Q[m] # R[m]}
  <1>1. CASE n = Nil
    BY <1>1 DEF IsReach
  <1>2. CASE n \in DOMAIN N
    <2>1. ASSUME Bad # {} PROVE FALSE
      <3>1. Bad \in SUBSET DOMAIN N
        BY <1>2, ReachIsIn
      <3>2. PICK m \in Bad : N[m].next \notin Bad
        BY <2>1, <3>1 DEF Founded
      <3>3. m \in DOMAIN N /\ N[m].next \in R[n] \cup {Nil}
        BY <1>2, ReachGoesOn
      <3>4. Q[N[m].next] = R[N[m].next]
        BY <3>2, <3>3 DEF IsReach
      <3>5. m \in DOMAIN M /\ M[m].next = N[m].next /\ Q[m] # R[m]
        BY <3>2
      <3>6. Q[m] = {m} \cup Q[N[m].next] /\ R[m] = {m} \cup R[N[m].next]
        BY <3>3, <3>5 DEF IsReach
      <3>7. QED  BY <3>4, <3>5, <3>6
    <2>2. n \in R[n]
      BY <1>2, ReachIsIn
    <2>3. QED  BY <2>1, <2>2
  <1>3. QED  BY <1>1, <1>2
-----------------------------------------------------------------------------
(* The records of a vertex that stand in its chain: from the head on each    *)
(* leads to the one before it, and the first of them out of the set.         *)

Stands(N, L, h) ==
    /\ L # {} => h \in L
    /\ \A n \in L : /\ n <= h
                    /\ N[n].next \in L => N[n].next < n
                    /\ \A m \in L : m < n => N[n].next \in L /\ m <= N[n].next

Bottom(N, L, h) == IF L = {} THEN h ELSE N[FirstOf(L)].next

LEMMA ReachStands ==
    ASSUME NEW N, NEW R, Links(N), Founded(N), IsReach(N, R), DOMAIN N \subseteq Nat,
           NEW L \in SUBSET DOMAIN N, NEW h \in DOMAIN N \cup {Nil}, Stands(N, L, h),
           Bottom(N, L, h) \notin L
    PROVE  R[h] = L \cup R[Bottom(N, L, h)]
  <1> DEFINE o == Bottom(N, L, h)
  <1>1. CASE L = {}
    BY <1>1 DEF Bottom
  <1>2. CASE L # {}
    <2>1. h \in L /\ h \in DOMAIN N /\ L \in SUBSET Nat
      BY <1>2 DEF Stands
    <2>2. FirstOf(L) \in L /\ \A m \in L : FirstOf(L) <= m
      BY <1>2, <2>1, LeastNat
    <2>3. o = N[FirstOf(L)].next /\ o \in DOMAIN N \cup {Nil}
      BY <1>2, <2>2 DEF Bottom, Links
    <2>4. \A m \in L : N[m].next \in L \/ N[m].next = o
      <3>1. SUFFICES ASSUME NEW m \in L, N[m].next \notin L PROVE m = FirstOf(L)
        BY <2>3
      <3>2. ~(FirstOf(L) < m)
        BY <2>2, <3>1 DEF Stands
      <3>3. QED  BY <2>1, <2>2, <3>2
    <2>5. R[h] \subseteq L \cup R[o]
      <3> DEFINE S == L \cup R[o]
      <3>1. R[o] \subseteq DOMAIN N /\ (o \in DOMAIN N => o \in R[o])
        BY <2>3, ReachIsIn
      <3>2. \A m \in R[o] : N[m].next \in R[o] \cup {Nil}
        BY <2>3, ReachGoesOn DEF IsReach
      <3>3. \A m \in S : N[m].next \in S \cup {Nil}
        BY <2>3, <2>4, <3>1, <3>2
      <3>4. S \in SUBSET DOMAIN N
        BY <3>1
      <3> HIDE DEF S
      <3>5. h \in S
        BY <2>1 DEF S
      <3>6. R[h] \subseteq S
        BY <3>3, <3>4, <3>5, ReachStays
      <3>7. QED  BY <3>6 DEF S
    <2>6. L \subseteq R[h]
      <3> DEFINE U == {m \in L : m \notin R[h]}
                 V == {h - m : m \in U}
      <3>1. ASSUME U # {} PROVE FALSE
        <4>1. V \in SUBSET Nat /\ V # {}
          <5>1. \A m \in U : h - m \in Nat
            BY <2>1 DEF Stands
          <5>2. QED  BY <3>1, <5>1
        <4>2. PICK m \in U : h - m = FirstOf(V)
          BY <4>1, LeastNat
        <4>3. \A k \in U : k <= m
          <5>1. \A k \in U : h - m <= h - k
            BY <4>1, <4>2, LeastNat
          <5>2. m \in Nat /\ h \in Nat /\ \A k \in U : k \in Nat
            BY <2>1
          <5>3. QED  BY <5>1, <5>2
        <4>4. m \in L /\ m \in Nat /\ m <= h /\ m # h
          BY <2>1, ReachIsIn DEF Stands
        <4> DEFINE T == {k \in L : m < k}
        <4>5. h \in T /\ T \in SUBSET Nat
          BY <2>1, <4>4
        <4>6. FirstOf(T) \in T /\ \A k \in T : FirstOf(T) <= k
          BY <4>5, LeastNat
        <4>7. PICK x \in L : x = FirstOf(T) /\ m < x /\ x \in Nat
          BY <4>5, <4>6
        <4>8. N[x].next \in L /\ m <= N[x].next /\ N[x].next < x
          BY <4>4, <4>7 DEF Stands
        <4>9. N[x].next = m
          <5>1. N[x].next \notin T
            BY <2>1, <4>6, <4>7, <4>8
          <5>2. QED  BY <2>1, <4>4, <4>8, <5>1
        <4>10. x \in R[h]
          BY <2>1, <4>3, <4>4, <4>7
        <4>11. m \in R[h]
          <5>1. m \in R[h] \cup {Nil}
            BY <2>1, <4>9, <4>10, ReachGoesOn
          <5>2. QED  BY <4>4, <5>1 DEF Links
        <4>12. QED  BY <4>11
      <3>2. QED  BY <3>1
    <2>7. R[o] \subseteq R[h]
      <3>1. FirstOf(L) \in R[h]
        BY <2>2, <2>6
      <3>2. R[FirstOf(L)] \subseteq R[h]
        BY <2>1, <3>1, ReachGoesOn
      <3>3. R[o] \subseteq R[FirstOf(L)]
        BY <2>2, <2>3 DEF IsReach
      <3>4. QED  BY <3>2, <3>3
    <2>8. QED  BY <2>5, <2>6, <2>7
  <1>3. QED  BY <1>1, <1>2
-----------------------------------------------------------------------------
(* Chain is a recursive function; that there is one, as no walk goes in a    *)
(* circle, is shown by putting partial ones together.                        *)

Partial(N, f) ==
    /\ Nil \in DOMAIN f /\ DOMAIN f \subseteq {Nil} \cup DOMAIN N
    /\ \A n \in DOMAIN f \ {Nil} : N[n].next \in DOMAIN f
    /\ f = [n \in DOMAIN f |-> IF n = Nil THEN <<>> ELSE <<n>> \o f[N[n].next]]

LEMMA PartialAt ==
    ASSUME NEW N, NEW f, Partial(N, f)
    PROVE  /\ f[Nil] = <<>>
           /\ \A n \in DOMAIN f \ {Nil} : /\ n \in DOMAIN N /\ N[n].next \in DOMAIN f
                                          /\ f[n] = <<n>> \o f[N[n].next]
  <1> DEFINE r(n) == IF n = Nil THEN <<>> ELSE <<n>> \o f[N[n].next]
  <1>1. f = [n \in DOMAIN f |-> r(n)]
    BY DEF Partial
  <1> HIDE DEF r
  <1>2. \A n \in DOMAIN f : f[n] = r(n)
    BY <1>1
  <1>3. Nil \in DOMAIN f /\ r(Nil) = <<>>
    BY DEF Partial, r
  <1>4. \A n \in DOMAIN f \ {Nil} : r(n) = <<n>> \o f[N[n].next]
    BY DEF r
  <1>5. QED  BY <1>2, <1>3, <1>4 DEF Partial

LEMMA PartialsAgree ==
    ASSUME NEW N, Founded(N), NEW f, Partial(N, f), NEW g, Partial(N, g),
           NEW n \in DOMAIN f \cap DOMAIN g
    PROVE  f[n] = g[n]
  <1> DEFINE Bad == {m \in DOMAIN f \cap DOMAIN g : f[m] # g[m]}
  <1>1. /\ f[Nil] = <<>>
        /\ \A m \in DOMAIN f \ {Nil} : /\ m \in DOMAIN N /\ N[m].next \in DOMAIN f
                                       /\ f[m] = <<m>> \o f[N[m].next]
    BY PartialAt
  <1>2. /\ g[Nil] = <<>>
        /\ \A m \in DOMAIN g \ {Nil} : /\ m \in DOMAIN N /\ N[m].next \in DOMAIN g
                                       /\ g[m] = <<m>> \o g[N[m].next]
    BY PartialAt
  <1>3. ASSUME Bad # {} PROVE FALSE
    <2>1. Bad \in SUBSET DOMAIN N /\ Nil \notin Bad
      BY <1>1, <1>2
    <2>2. PICK m \in Bad : N[m].next \notin Bad
      BY <1>3, <2>1 DEF Founded
    <2>3. m \in DOMAIN f \ {Nil} /\ m \in DOMAIN g \ {Nil} /\ f[m] # g[m]
      BY <2>1
    <2>4. f[N[m].next] = g[N[m].next]
      BY <1>1, <1>2, <2>2, <2>3
    <2>5. QED  BY <1>1, <1>2, <2>3, <2>4
  <1>4. QED  BY <1>3

LEMMA PartialThere ==
    ASSUME NEW N, Links(N), Founded(N), NEW n \in {Nil} \cup DOMAIN N
    PROVE  \E f : Partial(N, f) /\ n \in DOMAIN f
  <1> DEFINE Bad == {m \in DOMAIN N : ~ \E f : Partial(N, f) /\ m \in DOMAIN f}
  <1>1. \E f : Partial(N, f) /\ Nil \in DOMAIN f
    <2> DEFINE f == [m \in {Nil} |-> <<>>]
    <2>1. DOMAIN f = {Nil}
      OBVIOUS
    <2>2. f = [m \in DOMAIN f |-> IF m = Nil THEN <<>> ELSE <<m>> \o f[N[m].next]]
      OBVIOUS
    <2> HIDE DEF f
    <2>3. Partial(N, f)
      BY <2>1, <2>2 DEF Partial
    <2>4. QED  BY <2>1, <2>3
  <1>2. ASSUME Bad # {} PROVE FALSE
    <2>1. PICK m \in Bad : N[m].next \notin Bad
      BY <1>2 DEF Founded
    <2>2. m \in DOMAIN N /\ m # Nil /\ N[m].next \in DOMAIN N \cup {Nil}
      BY DEF Links
    <2>3. PICK f : Partial(N, f) /\ N[m].next \in DOMAIN f
      BY <1>1, <2>1, <2>2
    <2>4. m \notin DOMAIN f
      BY <2>3
    <2> DEFINE g == [k \in DOMAIN f \cup {m} |-> IF k = m THEN <<m>> \o f[N[m].next] ELSE f[k]]
    <2>5. /\ DOMAIN g = DOMAIN f \cup {m} /\ g[m] = <<m>> \o f[N[m].next]
          /\ \A k \in DOMAIN f : g[k] = f[k]
      BY <2>4
    <2> DEFINE r(k) == IF k = Nil THEN <<>> ELSE <<k>> \o g[N[k].next]
    <2>6. g = [k \in DOMAIN g |-> r(k)]
      <3>1. \A k \in DOMAIN f \ {Nil} : g[k] = r(k)
        BY <2>3, <2>5, PartialAt
      <3>2. g[m] = r(m)
        BY <2>2, <2>3, <2>5
      <3>3. g[Nil] = r(Nil)
        <4>1. Nil \in DOMAIN f /\ f[Nil] = <<>>
          BY <2>3, PartialAt DEF Partial
        <4>2. QED  BY <2>5, <4>1
      <3> HIDE DEF r
      <3>4. \A k \in DOMAIN g : g[k] = r(k)
        BY <2>5, <3>1, <3>2, <3>3
      <3>5. QED  BY <3>4
    <2>7. Nil \in DOMAIN f /\ DOMAIN f \subseteq {Nil} \cup DOMAIN N
          /\ \A k \in DOMAIN f \ {Nil} : N[k].next \in DOMAIN f
      BY <2>3 DEF Partial
    <2> HIDE DEF g
    <2>8. Partial(N, g)
      BY <2>2, <2>3, <2>5, <2>6, <2>7 DEF Partial
    <2>9. QED  BY <2>5, <2>8
  <1>3. QED  BY <1>1, <1>2

LEMMA WholeThere ==
    ASSUME NEW N, Links(N), Founded(N)
    PROVE  \E f : f = [n \in {Nil} \cup DOMAIN N |->
                         IF n = Nil THEN <<>> ELSE <<n>> \o f[N[n].next]]
  <1> DEFINE D == {Nil} \cup DOMAIN N
             some(n) == CHOOSE f : Partial(N, f) /\ n \in DOMAIN f
             g == [n \in D |-> some(n)[n]]
             r(n) == IF n = Nil THEN <<>> ELSE <<n>> \o g[N[n].next]
  <1>1. \A n \in D : Partial(N, some(n)) /\ n \in DOMAIN some(n)
    BY PartialThere
  <1>2. g[Nil] = <<>>
    BY <1>1, PartialAt
  <1> HIDE DEF some
  <1>3. ASSUME NEW n \in DOMAIN N PROVE g[n] = <<n>> \o g[N[n].next]
    <2>1. n \in D /\ n # Nil /\ N[n].next \in D
      BY DEF Links
    <2>2. /\ Partial(N, some(n)) /\ n \in DOMAIN some(n)
          /\ Partial(N, some(N[n].next)) /\ N[n].next \in DOMAIN some(N[n].next)
      BY <1>1, <2>1
    <2>3. PICK f, h : f = some(n) /\ h = some(N[n].next)
      OBVIOUS
    <2>4. N[n].next \in DOMAIN f /\ f[n] = <<n>> \o f[N[n].next]
      BY <2>1, <2>2, <2>3, PartialAt
    <2>5. f[N[n].next] = h[N[n].next]
      <3>1. PICK k : k = N[n].next
        OBVIOUS
      <3>2. k \in DOMAIN f \cap DOMAIN h
        BY <2>2, <2>3, <2>4, <3>1
      <3>3. f[k] = h[k]
        BY <2>2, <2>3, <3>2, PartialsAgree
      <3>4. QED  BY <3>1, <3>3
    <2>6. g[n] = f[n] /\ g[N[n].next] = h[N[n].next]
      BY <2>1, <2>3
    <2>7. QED  BY <2>4, <2>5, <2>6
  <1>4. g = [n \in D |-> r(n)]
    <2>1. \A n \in D : g[n] = r(n)
      BY <1>2, <1>3
    <2> HIDE DEF r
    <2>2. QED  BY <2>1
  <1> HIDE DEF g
  <1>5. QED  BY <1>4

\* What is so obtained is Chain.
LEMMA ChainSteps ==
    ASSUME DOMAIN node = 1 .. Len(node), Len(node) \in Nat, Links(node), Founded(node)
    PROVE  Chain[Nil] = <<>> /\ \A n \in DOMAIN node : Chain[n] = <<n>> \o Chain[node[n].next]
  <1>1. 0 .. Len(node) = {Nil} \cup DOMAIN node
    BY DEF Nil
  <1>2. \E f : f = [n \in 0 .. Len(node) |-> IF n = Nil THEN <<>> ELSE <<n>> \o f[node[n].next]]
    <2>1. PICK f : f = [n \in {Nil} \cup DOMAIN node |->
                          IF n = Nil THEN <<>> ELSE <<n>> \o f[node[n].next]]
      BY WholeThere
    <2> DEFINE r(n) == IF n = Nil THEN <<>> ELSE <<n>> \o f[node[n].next]
    <2>2. f = [n \in {Nil} \cup DOMAIN node |-> r(n)]
      BY <2>1
    <2> HIDE DEF r
    <2>3. f = [n \in 0 .. Len(node) |-> r(n)]
      BY <1>1, <2>2
    <2>4. QED  BY <2>3 DEF r
  <1>3. Chain = [n \in 0 .. Len(node) |-> IF n = Nil THEN <<>> ELSE <<n>> \o Chain[node[n].next]]
    BY <1>2 DEF Chain
  <1>4. DOMAIN Chain = {Nil} \cup DOMAIN node
    BY <1>1, <1>3
  <1>5. Partial(node, Chain)
    BY <1>1, <1>3, <1>4 DEF Partial, Links
  <1>6. QED  BY <1>4, <1>5, PartialAt DEF Links
-----------------------------------------------------------------------------
(* What each step writes, field by field.                                    *)

Others(b) == \A c \in Backend \ {b} : pc'[c] = pc[c] /\ loc'[c] = loc[c]

NowAt(b, step, entry, tbl, at, new, row, batch, job, ddl) ==
    /\ pc'[b] = step
    /\ loc'[b].entry = entry /\ loc'[b].tbl = tbl /\ loc'[b].at = at /\ loc'[b].new = new
    /\ loc'[b].row = row /\ loc'[b].batch = batch /\ loc'[b].job = job /\ loc'[b].ddl = ddl

Stays(b) ==
    /\ loc'[b].tbl = loc[b].tbl /\ loc'[b].row = loc[b].row
    /\ loc'[b].batch = loc[b].batch /\ loc'[b].job = loc[b].job /\ loc'[b].ddl = loc[b].ddl

LEMMA ReturnEffect ==
    ASSUME IInv, NEW b \in Backend, Return(b)
    PROVE  NowAt(b, "idle", Nil, Nil, Nil, Nil, Nil, {}, Nil, loc[b].ddl) /\ Others(b)
  <1>1. loc \in [Backend -> Locals] /\ pc \in [Backend -> Steps]
    BY AtStep
  <1>2. loc'[b] = [NoLocals EXCEPT !.ddl = loc[b].ddl] /\ pc'[b] = "idle" /\ Others(b)
    BY <1>1 DEF Return, Goto, Others
  <1>3. QED  BY <1>2 DEF NowAt, NoLocals

LEMMA EndEffect ==
    ASSUME IInv, NEW b \in Backend, NEW s, End(b, s) PROVE pc'[b] = "idle" /\ Others(b)
  <1>1. loc \in [Backend -> Locals] /\ pc \in [Backend -> Steps]
    BY AtStep
  <1>2. QED  BY <1>1 DEF End, Goto, Others

LEMMA InsertEffect ==
    ASSUME IInv, NEW b \in Backend, NEW e \in Entry, Insert(b, e)
    PROVE  /\ pc[b] = "idle" /\ xid[b] # NoXid /\ etup[e].xmin = NoXid
           /\ etup' = [etup EXCEPT ![e].xmin = xid[b]]
           /\ UNCHANGED <<xact, xid, meta, maker, node, head, calm>>
           /\ NowAt(b, "readHead", e, meta[FirstOf(ActiveRows(b))].tbl, loc[b].at, loc[b].new,
                    loc[b].row, loc[b].batch, loc[b].job, loc[b].ddl)
           /\ Others(b)
  <1>1. loc \in [Backend -> Locals] /\ loc[b] \in Locals /\ pc \in [Backend -> Steps]
    BY AtStep
  <1> DEFINE t == meta[FirstOf(ActiveRows(b))].tbl
  <1>2. loc' = [loc EXCEPT ![b] = [loc[b] EXCEPT !.entry = e, !.tbl = t]]
    BY <1>1 DEF Insert
  <1> HIDE DEF t
  <1>3. loc'[b] = [loc[b] EXCEPT !.entry = e, !.tbl = t] /\ pc'[b] = "readHead" /\ Others(b)
    BY <1>1, <1>2 DEF Insert, Goto, Others
  <1>4. NowAt(b, "readHead", e, t, loc[b].at, loc[b].new,
              loc[b].row, loc[b].batch, loc[b].job, loc[b].ddl)
    BY <1>1, <1>3 DEF NowAt, Locals
  <1>5. QED  BY <1>3, <1>4 DEF Insert, CanCall, t

LEMMA DeleteEffect ==
    ASSUME IInv, NEW b \in Backend, NEW e \in Entry, Delete(b, e)
    PROVE  /\ pc[b] = "idle" /\ xid[b] # NoXid /\ MayReplace(xact, xid[b], etup[e])
           /\ etup' = [etup EXCEPT ![e].xmax = xid[b]]
           /\ UNCHANGED <<xact, xid, meta, maker, node, head, calm>>
           /\ pc'[b] = "startWalk" /\ loc'[b].entry = e /\ loc'[b].at = loc[b].at /\ Stays(b)
           /\ Others(b)
  <1>1. loc \in [Backend -> Locals] /\ loc[b] \in Locals /\ pc \in [Backend -> Steps]
    BY AtStep
  <1>2. loc'[b] = [loc[b] EXCEPT !.entry = e] /\ pc'[b] = "startWalk" /\ Others(b)
    BY <1>1 DEF Delete, Goto, Others
  <1>3. QED  BY <1>1, <1>2 DEF Delete, CanCall, Stays, Locals

LEMMA WalkEffect ==
    ASSUME IInv, NEW b \in Backend, StartWalk(b) \/ WalkOn(b)
    PROVE  /\ pc[b] \in {"startWalk", "walk"}
           /\ UNCHANGED <<xact, xid, etup, meta, maker, node, head, calm>>
           /\ pc'[b] = "walk" /\ loc'[b].entry = loc[b].entry /\ Stays(b)
           /\ loc'[b].at = IF pc[b] = "startWalk" THEN head[OwnerOf[loc[b].entry]]
                                                  ELSE node[loc[b].at].next
           /\ Others(b)
  <1>1. loc \in [Backend -> Locals] /\ loc[b] \in Locals /\ pc \in [Backend -> Steps]
    BY AtStep
  <1>2. PICK n : /\ loc' = [loc EXCEPT ![b].at = n]
                 /\ n = IF pc[b] = "startWalk" THEN head[OwnerOf[loc[b].entry]]
                                               ELSE node[loc[b].at].next
    BY DEF StartWalk, WalkOn
  <1>3. pc' = [pc EXCEPT ![b] = "walk"] /\ pc[b] \in {"startWalk", "walk"}
    BY <1>1 DEF StartWalk, WalkOn, Goto
  <1>4. loc'[b] = [loc[b] EXCEPT !.at = n] /\ pc'[b] = "walk" /\ Others(b)
    BY <1>1, <1>2, <1>3 DEF Others
  <1>5. QED  BY <1>1, <1>2, <1>3, <1>4 DEF StartWalk, WalkOn, data, Stays, Locals

LEMMA ReadHeadEffect ==
    ASSUME IInv, NEW b \in Backend, ReadHead(b)
    PROVE  /\ pc[b] = "readHead"
           /\ UNCHANGED <<xact, xid, etup, meta, maker, node, head, calm>>
           /\ pc'[b] = "appendRecord" /\ loc'[b].entry = loc[b].entry /\ Stays(b)
           /\ loc'[b].at = head[OwnerOf[loc[b].entry]]
           /\ Others(b)
  <1>1. loc \in [Backend -> Locals] /\ loc[b] \in Locals /\ pc \in [Backend -> Steps]
    BY AtStep
  <1>2. PICK n : loc' = [loc EXCEPT ![b].at = n] /\ n = head[OwnerOf[loc[b].entry]]
    BY DEF ReadHead
  <1>3. loc'[b] = [loc[b] EXCEPT !.at = n] /\ pc'[b] = "appendRecord" /\ Others(b)
    BY <1>1, <1>2 DEF ReadHead, Goto, Others
  <1>4. QED  BY <1>1, <1>2, <1>3 DEF ReadHead, data, Stays, Locals

LEMMA AppendRecordEffect ==
    ASSUME IInv, NEW b \in Backend, AppendRecord(b)
    PROVE  /\ pc[b] = "appendRecord" /\ node' = Append(node, Record(b))
           /\ UNCHANGED <<xact, xid, etup, meta, maker, head, calm>>
           /\ pc'[b] = IF loc[b].at = Nil THEN "setHead" ELSE "fixPrev"
           /\ loc'[b].entry = loc[b].entry /\ loc'[b].at = loc[b].at /\ Stays(b)
           /\ loc'[b].new = Len(node) + 1
           /\ Others(b)
  <1>1. loc \in [Backend -> Locals] /\ loc[b] \in Locals /\ pc \in [Backend -> Steps]
    BY AtStep
  <1>2. PICK n : loc' = [loc EXCEPT ![b].new = n] /\ n = Len(node) + 1
    BY DEF AppendRecord
  <1>3. loc'[b] = [loc[b] EXCEPT !.new = n] /\ Others(b)
        /\ pc'[b] = IF loc[b].at = Nil THEN "setHead" ELSE "fixPrev"
    BY <1>1, <1>2 DEF AppendRecord, Goto, Others
  <1>4. QED  BY <1>1, <1>2, <1>3 DEF AppendRecord, Stays, Locals

LEMMA FixPrevEffect ==
    ASSUME IInv, NEW b \in Backend, FixPrev(b)
    PROVE  /\ pc[b] = "fixPrev" /\ node' = [node EXCEPT ![loc[b].at].prev = loc[b].new]
           /\ UNCHANGED <<xact, xid, etup, meta, maker, head, loc, calm>>
           /\ pc'[b] = "setHead" /\ Others(b)
  <1>1. pc \in [Backend -> Steps]
    BY AtStep
  <1>2. QED  BY <1>1 DEF FixPrev, Goto, Others

LEMMA RotateEffect ==
    ASSUME IInv, NEW b \in Backend, RotateActive(b) \/ CompactActive(b)
    PROVE  /\ pc[b] = "idle" /\ xid[b] # NoXid /\ maker' = Append(maker, xid[b])
           /\ UNCHANGED <<xact, xid, etup, meta, node, head, calm>>
           /\ NowAt(b, "close", loc[b].entry, Len(maker) + 1, loc[b].at, loc[b].new,
                    FirstOf(ActiveRows(b)), loc[b].batch, loc[b].job, TRUE)
           /\ Others(b)
  <1>1. loc \in [Backend -> Locals] /\ loc[b] \in Locals /\ pc \in [Backend -> Steps]
    BY AtStep
  <1>2. PICK then : CanCall(b) /\ Rotate(b, then)
    BY DEF RotateActive, CompactActive
  <1>3. PICK t, r : t = Len(maker) + 1 /\ r = FirstOf(ActiveRows(b))
    OBVIOUS
  <1>4. loc' = [loc EXCEPT ![b] = [loc[b] EXCEPT !.tbl = t, !.then = then, !.ddl = TRUE, !.row = r]]
    BY <1>1, <1>2, <1>3 DEF Rotate
  <1>5. loc'[b] = [loc[b] EXCEPT !.tbl = t, !.then = then, !.ddl = TRUE, !.row = r]
        /\ pc'[b] = "close" /\ Others(b)
    BY <1>1, <1>2, <1>4 DEF Rotate, Goto, Others
  <1>6. NowAt(b, "close", loc[b].entry, t, loc[b].at, loc[b].new,
              r, loc[b].batch, loc[b].job, TRUE)
    BY <1>1, <1>5 DEF NowAt, Locals
  <1>7. QED  BY <1>2, <1>3, <1>5, <1>6 DEF Rotate, CanCall

LEMMA AddActiveEffect ==
    ASSUME IInv, NEW b \in Backend, AddActive(b)
    PROVE  /\ pc[b] = "addActive"
           /\ UNCHANGED <<xact, xid, etup, maker, node, head, calm>>
           /\ meta' = Append(meta, [tbl |-> loc[b].tbl, active |-> TRUE, compacted |-> FALSE,
                                    xmin |-> xid[b], xmax |-> NoXid])
           /\ pc'[b] \in {"idle", "pick"} /\ loc'[b].ddl = loc[b].ddl
           /\ Others(b)
  <1>1. loc \in [Backend -> Locals] /\ loc[b] \in Locals /\ pc \in [Backend -> Steps]
    BY AtStep
  <1>2. CASE Return(b)
    BY <1>2, ReturnEffect DEF AddActive, NowAt
  <1>3. CASE Goto(b, "pick") /\ UNCHANGED loc
    BY <1>1, <1>3 DEF AddActive, Goto, Others
  <1>4. QED  BY <1>2, <1>3 DEF AddActive

LEMMA PickOldestEffect ==
    ASSUME IInv, NEW b \in Backend, Compact(b) \/ PickClosed(b)
    PROVE  /\ pc[b] \in {"idle", "pick"} /\ xid[b] # NoXid /\ Closed(b) # {}
           /\ UNCHANGED <<xact, xid, etup, meta, maker, node, head, calm>>
           /\ NowAt(b, "scan", loc[b].entry, FirstOf(Closed(b)), loc[b].at, loc[b].new,
                    loc[b].row, loc[b].batch, loc[b].job, TRUE)
           /\ Others(b)
  <1>1. loc \in [Backend -> Locals] /\ loc[b] \in Locals /\ pc \in [Backend -> Steps]
        /\ (pc[b] # "idle" => xid[b] # NoXid)
    BY AtStep
  <1>2. PICK t : t = FirstOf(Closed(b))
    OBVIOUS
  <1>3. loc' = [loc EXCEPT ![b] = [loc[b] EXCEPT !.tbl = t, !.ddl = TRUE]]
    BY <1>1, <1>2 DEF Compact, PickClosed, PickOldest
  <1>4. loc'[b] = [loc[b] EXCEPT !.tbl = t, !.ddl = TRUE] /\ pc'[b] = "scan" /\ Others(b)
    BY <1>1, <1>3 DEF Compact, PickClosed, PickOldest, Goto, Others
  <1>5. NowAt(b, "scan", loc[b].entry, t, loc[b].at, loc[b].new,
              loc[b].row, loc[b].batch, loc[b].job, TRUE)
    BY <1>1, <1>4 DEF NowAt, Locals
  <1>6. QED  BY <1>1, <1>2, <1>4, <1>5 DEF Compact, PickClosed, PickOldest, CanCall, data

LEMMA ScanEffect ==
    ASSUME IInv, NEW b \in Backend, Scan(b),
           NEW V, V = {node[n].owner : n \in {k \in DOMAIN node : TableOf(k) = loc[b].tbl}}
    PROVE  /\ pc[b] = "scan"
           /\ UNCHANGED <<xact, xid, etup, meta, maker, node, head, calm>>
           /\ NowAt(b, IF V = {} THEN "findRow" ELSE "merge", loc[b].entry, loc[b].tbl, loc[b].at,
                    loc[b].new, loc[b].row, {Gathered(v, loc[b].tbl) : v \in V}, loc[b].job, loc[b].ddl)
           /\ Others(b)
  <1>1. loc \in [Backend -> Locals] /\ loc[b] \in Locals /\ pc \in [Backend -> Steps]
    BY AtStep
  <1>2. PICK B : B = {Gathered(v, loc[b].tbl) : v \in V}
    OBVIOUS
  <1>3. loc' = [loc EXCEPT ![b] = [loc[b] EXCEPT !.batch = B]]
        /\ pc' = [pc EXCEPT ![b] = IF V = {} THEN "findRow" ELSE "merge"]
    BY <1>1, <1>2 DEF Scan, Goto
  <1>4. loc'[b] = [loc[b] EXCEPT !.batch = B] /\ Others(b)
        /\ pc'[b] = IF V = {} THEN "findRow" ELSE "merge"
    BY <1>1, <1>3 DEF Others
  <1>5. NowAt(b, IF V = {} THEN "findRow" ELSE "merge", loc[b].entry, loc[b].tbl, loc[b].at,
              loc[b].new, loc[b].row, B, loc[b].job, loc[b].ddl)
    BY <1>1, <1>4 DEF NowAt, Locals
  <1>6. QED  BY <1>2, <1>4, <1>5 DEF Scan, data

\* A job, with the block below its records merged into it.
Merged(j) ==
    IF j.down = Nil THEN j
    ELSE [j EXCEPT !.members = @ \o node[j.down].members, !.rest = node[j.down].next]

LEMMA MergeEffect ==
    ASSUME IInv, NEW b \in Backend, Merge(b)
    PROVE  /\ pc[b] = "merge"
           /\ UNCHANGED <<xact, xid, etup, meta, maker, node, head, calm>>
           /\ \E j \in loc[b].batch :
                NowAt(b, "rewrite", loc[b].entry, loc[b].tbl, loc[b].at, loc[b].new,
                      loc[b].row, loc[b].batch \ {j}, Merged(j), loc[b].ddl)
           /\ Others(b)
  <1>1. loc \in [Backend -> Locals] /\ loc[b] \in Locals /\ pc \in [Backend -> Steps]
    BY AtStep
  <1>2. PICK j \in loc[b].batch :
           loc' = [loc EXCEPT ![b] = [loc[b] EXCEPT !.batch = @ \ {j}, !.job = Merged(j)]]
    BY <1>1 DEF Merge, Merged
  <1>3. PICK B, J : B = loc[b].batch \ {j} /\ J = Merged(j)
    OBVIOUS
  <1>4. loc'[b] = [loc[b] EXCEPT !.batch = B, !.job = J] /\ pc'[b] = "rewrite" /\ Others(b)
    BY <1>1, <1>2, <1>3 DEF Merge, Goto, Others
  <1>5. NowAt(b, "rewrite", loc[b].entry, loc[b].tbl, loc[b].at, loc[b].new,
              loc[b].row, B, J, loc[b].ddl)
    BY <1>1, <1>4 DEF NowAt, Locals
  <1>6. QED  BY <1>3, <1>4, <1>5 DEF Merge, data

LEMMA RewriteEffect ==
    ASSUME IInv, NEW b \in Backend, Rewrite(b)
    PROVE  /\ pc[b] = "rewrite"
           /\ UNCHANGED <<xact, xid, etup, meta, maker, head, calm>>
           /\ NowAt(b, "wire", loc[b].entry, loc[b].tbl, Len(node) + 1, loc[b].new,
                    loc[b].row, loc[b].batch, loc[b].job, loc[b].ddl)
           /\ Others(b)
  <1>1. loc \in [Backend -> Locals] /\ loc[b] \in Locals /\ pc \in [Backend -> Steps]
    BY AtStep
  <1>2. PICK n : loc' = [loc EXCEPT ![b].at = n] /\ n = Len(node) + 1
    BY DEF Rewrite
  <1>3. loc'[b] = [loc[b] EXCEPT !.at = n] /\ pc'[b] = "wire" /\ Others(b)
    BY <1>1, <1>2 DEF Rewrite, Goto, Others
  <1>4. QED  BY <1>1, <1>2, <1>3 DEF Rewrite, NowAt, Locals

LEMMA WireEffect ==
    ASSUME IInv, NEW b \in Backend, Wire(b)
    PROVE  /\ pc[b] = "wire"
           /\ UNCHANGED <<xact, xid, etup, meta, maker, calm>>
           /\ IF loc[b].job.up # Nil
                THEN node' = [node EXCEPT ![loc[b].job.up].next = loc[b].at] /\ UNCHANGED head
                ELSE head' = [head EXCEPT ![loc[b].job.owner] = loc[b].at] /\ UNCHANGED node
           /\ NowAt(b, IF loc[b].batch = {} THEN "findRow" ELSE "merge", loc[b].entry, loc[b].tbl,
                    loc[b].at, loc[b].new, loc[b].row, loc[b].batch, Nil, loc[b].ddl)
           /\ Others(b)
  <1>1. loc \in [Backend -> Locals] /\ loc[b] \in Locals /\ pc \in [Backend -> Steps]
    BY AtStep
  <1>2. loc' = [loc EXCEPT ![b] = [loc[b] EXCEPT !.job = Nil]]
        /\ pc' = [pc EXCEPT ![b] = IF loc[b].batch = {} THEN "findRow" ELSE "merge"]
    BY <1>1 DEF Wire, Goto
  <1>3. loc'[b] = [loc[b] EXCEPT !.job = Nil] /\ Others(b)
        /\ pc'[b] = IF loc[b].batch = {} THEN "findRow" ELSE "merge"
    BY <1>1, <1>2 DEF Others
  <1>4. NowAt(b, IF loc[b].batch = {} THEN "findRow" ELSE "merge", loc[b].entry, loc[b].tbl,
              loc[b].at, loc[b].new, loc[b].row, loc[b].batch, Nil, loc[b].ddl)
    BY <1>1, <1>3 DEF NowAt, Locals
  <1>5. QED  BY <1>3, <1>4 DEF Wire

LEMMA FindRowEffect ==
    ASSUME IInv, NEW b \in Backend, FindRow(b)
    PROVE  /\ pc[b] = "findRow"
           /\ UNCHANGED <<xact, xid, etup, meta, maker, node, head, calm>>
           /\ NowAt(b, "mark", loc[b].entry, loc[b].tbl, loc[b].at, loc[b].new,
                    FirstOf(RowsOf(b, loc[b].tbl)), loc[b].batch, loc[b].job, loc[b].ddl)
           /\ Others(b)
  <1>1. loc \in [Backend -> Locals] /\ loc[b] \in Locals /\ pc \in [Backend -> Steps]
    BY AtStep
  <1>2. PICK r : loc' = [loc EXCEPT ![b].row = r] /\ r = FirstOf(RowsOf(b, loc[b].tbl))
    BY DEF FindRow
  <1>3. loc'[b] = [loc[b] EXCEPT !.row = r] /\ pc'[b] = "mark" /\ Others(b)
    BY <1>1, <1>2 DEF FindRow, Goto, Others
  <1>4. NowAt(b, "mark", loc[b].entry, loc[b].tbl, loc[b].at, loc[b].new,
              r, loc[b].batch, loc[b].job, loc[b].ddl)
    BY <1>1, <1>3 DEF NowAt, Locals
  <1>5. QED  BY <1>2, <1>3, <1>4 DEF FindRow, data
-----------------------------------------------------------------------------
(* The tables of a label, where transactions come one after another.         *)

OneAtATime == \A b, c \in Backend : xid[b] # NoXid /\ xid[c] # NoXid => b = c

\* A row of the metadata, or its stamp, is committed or the work of the one
\* transaction there is, after it has noted that it changed the metadata.
Settled(x) == DidCommit(xact, x) \/ \E b \in Backend : IsOwn(xid[b], x) /\ loc[b].ddl
Present == {i \in DOMAIN meta : meta[i].xmax = NoXid}
RowsSettled ==
    \A i \in DOMAIN meta : /\ Settled(meta[i].xmin)
                           /\ meta[i].xmax # NoXid => Settled(meta[i].xmax)

\* Tables are compacted in the order in which they were created, the active
\* one is the last.
TablesOrdered ==
    /\ \A i \in DOMAIN meta : meta[i].xmax # NoXid => ~meta[i].compacted
    /\ \A i \in Present : ~(meta[i].active /\ meta[i].compacted)
    /\ \A i, j \in Present : /\ meta[i].tbl = meta[j].tbl => i = j
                             /\ meta[i].active /\ ~meta[j].active => meta[j].tbl < meta[i].tbl
                             /\ meta[i].compacted /\ ~meta[j].compacted => meta[i].tbl < meta[j].tbl

\* The table an operation is at.
IsOldest(t) ==
    /\ \E i \in Present : meta[i].tbl = t /\ ~meta[i].active /\ ~meta[i].compacted
    /\ \A j \in Present : ~meta[j].compacted => t <= meta[j].tbl
TableSet(b) ==
    LET l == loc[b] IN
        /\ pc[b] \in {"close", "addActive", "pick", "mark"} \cup Compacting => l.ddl
        /\ pc[b] \in {"close", "addActive"} => \A i \in DOMAIN meta : meta[i].tbl < l.tbl
        /\ pc[b] = "close" => l.row \in Present /\ meta[l.row].active
        /\ pc[b] = "addActive" => \A i \in Present : ~meta[i].active
        /\ pc[b] \in Compacting \cup {"mark"} => IsOldest(l.tbl)
        /\ pc[b] = "mark" => l.row \in Present /\ meta[l.row].tbl = l.tbl
        /\ pc[b] \in Inserting => \E i \in Present : meta[i].active /\ meta[i].tbl = l.tbl
TablesSet == \A b \in Backend : TableSet(b)

TablesInv == OneAtATime /\ RowsSettled /\ TablesOrdered /\ TablesSet

\* A table is there; a table is compacted.
HasRow(t) == \E i \in Present : meta[i].tbl = t
Done(t) == \E i \in Present : meta[i].tbl = t /\ meta[i].compacted

\* While one backend is in a transaction the others are idle.
LEMMA OthersIdle ==
    ASSUME IInv, OneAtATime, NEW b \in Backend, xid[b] # NoXid, NEW c \in Backend \ {b}
    PROVE  xid[c] = NoXid /\ pc[c] = "idle"
    BY DEF OneAtATime, IInv, MetaInv, XactsHeld

LEMMA VisibleIsPresent ==
    ASSUME IInv, TablesInv, NEW b \in Backend, xid[b] # NoXid
    PROVE  VisibleRows(b) = Present
  <1>1. \A c \in Backend : xid[c] # NoXid => c = b
    BY DEF TablesInv, OneAtATime
  <1>2. \A x : Settled(x) => DidCommit(xact, x) \/ IsOwn(xid[b], x)
    BY <1>1 DEF Settled, IsOwn
  <1>3. ~DidCommit(xact, NoXid) /\ ~IsOwn(xid[b], NoXid) /\ ~DidCommit(xact, xid[b])
    BY DEF DidCommit, IsOwn, IInv, MetaInv, XactsHeld
  <1>4. ASSUME NEW i \in DOMAIN meta PROVE i \in VisibleRows(b) <=> i \in Present
    <2>1. /\ DidCommit(xact, meta[i].xmin) \/ IsOwn(xid[b], meta[i].xmin)
          /\ meta[i].xmax # NoXid => DidCommit(xact, meta[i].xmax) \/ IsOwn(xid[b], meta[i].xmax)
      BY <1>2 DEF TablesInv, RowsSettled
    <2>2. meta[i].xmax # NoXid => meta[i].xmax = meta[i].xmin \/ DidCommit(xact, meta[i].xmin)
      BY DEF IInv, MetaInv, StampsFollow
    <2>3. i \in VisibleRows(b) <=> TupleIsLive(xact, xid[b], meta[i])
      BY DEF VisibleRows
    <2>4. i \in Present <=> meta[i].xmax = NoXid
      BY DEF Present
    <2>5. QED  BY <1>3, <2>1, <2>2, <2>3, <2>4 DEF TupleIsLive, IsOwn
  <1>5. QED  BY <1>4 DEF VisibleRows, Present

\* A step that leaves the metadata as it is.
LEMMA TablesQuiet ==
    ASSUME IInv, TablesInv, UNCHANGED <<xact, xid, meta>>, NEW b \in Backend, Others(b),
           xid[b] # NoXid, loc'[b].ddl = loc[b].ddl \/ loc'[b].ddl, TableSet(b)'
    PROVE  TablesInv'
  <1>1. OneAtATime' /\ TablesOrdered'
    BY DEF TablesInv, OneAtATime, TablesOrdered, Present
  <1>2. \A x : Settled(x) => Settled(x)'
    BY DEF Settled, Others
  <1>3. RowsSettled'
    BY <1>2 DEF TablesInv, RowsSettled
  <1>4. ASSUME NEW c \in Backend, c # b PROVE TableSet(c)'
    <2>1. pc'[c] = "idle"
      BY <1>4, OthersIdle DEF TablesInv, Others
    <2>2. QED  BY <2>1 DEF TableSet, Compacting, Inserting
  <1>5. QED  BY <1>1, <1>3, <1>4 DEF TablesInv, TablesSet

\* A row is stamped and a new one of its table added.
Added(b, gone, row) ==
    /\ OneAtATime' /\ RowsSettled'
    /\ \A k : k \in Present' <=> (k \in Present /\ k \notin gone) \/ k = Len(meta) + 1
    /\ \A k \in DOMAIN meta :
          /\ meta'[k].tbl = meta[k].tbl /\ meta'[k].active = meta[k].active
          /\ meta'[k].compacted = meta[k].compacted
          /\ meta'[k].xmax # NoXid => ~meta[k].compacted
    /\ Len(meta) + 1 \notin DOMAIN meta
    /\ \A k : k \in DOMAIN meta' <=> k \in DOMAIN meta \/ k = Len(meta) + 1
    /\ meta'[Len(meta) + 1].tbl = row.tbl
    /\ meta'[Len(meta) + 1].active = row.active
    /\ meta'[Len(meta) + 1].compacted = row.compacted
    /\ meta'[Len(meta) + 1].xmax = NoXid
    /\ \A c \in Backend \ {b} : TableSet(c)'

LEMMA TablesWritten ==
    ASSUME IInv, TablesInv, UNCHANGED <<xact, xid>>, NEW b \in Backend, Others(b),
           xid[b] # NoXid, loc[b].ddl, loc'[b].ddl, NEW gone, NEW r, Rewrites(b, gone, r),
           gone \subseteq Present, \A i \in gone : ~meta[i].compacted
    PROVE  Added(b, gone, r)
  <1>1. /\ \A i \in DOMAIN meta' : i \in DOMAIN meta \/ i = Len(meta) + 1
        /\ \A i \in DOMAIN meta :
                /\ i \in DOMAIN meta' /\ i # Len(meta) + 1
                /\ meta'[i].tbl = meta[i].tbl /\ meta'[i].active = meta[i].active
                /\ meta'[i].xmin = meta[i].xmin
                /\ meta'[i].xmax = IF i \in gone THEN xid[b] ELSE meta[i].xmax
    BY RewrittenRows
  <1>2. SeqFacts
    BY AtStep
  <1>3. meta'[Len(meta) + 1] = r /\ r.xmin = xid[b] /\ r.xmax = NoXid /\ gone \subseteq DOMAIN meta
        /\ Len(meta) + 1 \in DOMAIN meta'
    BY <1>2 DEF Rewrites, SeqFacts
  <1>4. \A i \in DOMAIN meta : meta'[i].compacted = meta[i].compacted
    <2>1. SUFFICES ASSUME NEW i \in DOMAIN meta PROVE meta'[i].compacted = meta[i].compacted
      OBVIOUS
    <2>2. meta'[i] = IF i \in gone THEN [meta[i] EXCEPT !.xmax = xid[b]] ELSE meta[i]
      BY DEF Rewrites
    <2>3. meta[i] \in MetaRow
      BY <1>2 DEF SeqFacts
    <2>4. QED  BY <2>2, <2>3 DEF MetaRow
  <1>5. OneAtATime'
    BY DEF TablesInv, OneAtATime
  <1>6. RowsSettled'
    <2>1. \A x : Settled(x) => Settled(x)'
      BY DEF Settled, Others
    <2>2. Settled(xid[b])'
      BY DEF Settled, IsOwn
    <2>3. QED  BY <1>1, <1>3, <2>1, <2>2 DEF TablesInv, RowsSettled
  <1>7. \A k : k \in Present' <=> (k \in Present /\ k \notin gone) \/ k = Len(meta) + 1
    BY <1>1, <1>3 DEF Present
  <1>8. \A i \in DOMAIN meta : meta'[i].xmax # NoXid => ~meta[i].compacted
    BY <1>1 DEF TablesInv, TablesOrdered
  <1>9. /\ Len(meta) + 1 \notin DOMAIN meta
        /\ \A k : k \in DOMAIN meta' <=> k \in DOMAIN meta \/ k = Len(meta) + 1
    BY <1>1, <1>3
  <1>10. ASSUME NEW c \in Backend, c # b PROVE TableSet(c)'
    <2>1. pc'[c] = "idle"
      BY <1>10, OthersIdle DEF TablesInv, Others
    <2>2. QED  BY <2>1 DEF TableSet, Compacting, Inserting
  <1>11. QED  BY <1>1, <1>3, <1>4, <1>5, <1>6, <1>7, <1>8, <1>9, <1>10 DEF Added

LEMMA TablesBegin ==
    ASSUME IInv, TablesInv, NEW b \in Backend, Begin(b), calm'
    PROVE  TablesInv'
  <1>1. /\ xact' = Append(xact, "running") /\ xid' = [xid EXCEPT ![b] = Len(xact) + 1]
        /\ UNCHANGED <<pc, meta, loc>> /\ pc[b] = "idle" /\ SeqFacts
        /\ xid \in [Backend -> XidsOf(xact)]
    BY AtStep DEF Begin, data, IInv, TypeOK
  <1>2. \A c \in Backend : xid[c] = NoXid
    <2>1. \A x \in DOMAIN xact : ~InProgress(xact, x)
      BY DEF Begin
    <2>2. ASSUME NEW c \in Backend, xid[c] # NoXid PROVE FALSE
      <3>1. xact[xid[c]] = "running" /\ xid[c] \in DOMAIN xact
        BY <1>1, <2>2 DEF IInv, MetaInv, XactsHeld, XidsOf
      <3>2. QED  BY <2>1, <2>2, <3>1 DEF InProgress
    <2>3. QED  BY <2>2
  <1>3. OneAtATime'
    BY <1>1, <1>2 DEF OneAtATime
  <1>4. RowsSettled'
    <2>1. \A x \in XidsOf(xact) : Settled(x) => Settled(x)'
      <3>1. \A x \in XidsOf(xact) : Settled(x) => DidCommit(xact, x)
        BY <1>2 DEF Settled, IsOwn
      <3>2. xact \in Seq(XactStatus)
        BY DEF IInv, TypeOK
      <3>3. \A x \in DOMAIN xact : xact'[x] = xact[x]
        BY <1>1, <3>2 DEF SeqFacts
      <3>4. \A x \in XidsOf(xact) : DidCommit(xact, x) => DidCommit(xact', x)
        BY <3>3 DEF DidCommit, XidsOf
      <3>5. QED  BY <3>1, <3>4 DEF Settled
    <2>2. \A i \in DOMAIN meta : meta[i].xmin \in XidsOf(xact) /\ meta[i].xmax \in XidsOf(xact)
      BY <1>1 DEF SeqFacts, MetaRow
    <2>3. QED  BY <1>1, <2>1, <2>2 DEF TablesInv, RowsSettled
  <1>5. TablesOrdered'
    BY <1>1 DEF TablesInv, TablesOrdered, Present
  <1>6. ASSUME NEW c \in Backend PROVE TableSet(c)'
    <2>1. pc[c] = "idle"
      BY <1>2 DEF IInv, MetaInv, XactsHeld
    <2>2. QED  BY <1>1, <2>1 DEF TableSet, Compacting, Inserting
  <1>7. QED  BY <1>3, <1>4, <1>5, <1>6 DEF TablesInv, TablesSet

LEMMA TablesEnd ==
    ASSUME IInv, TablesInv, NEW b \in Backend, Commit(b) \/ Abort(b), calm'
    PROVE  TablesInv'
  <1>1. PICK s \in {"committed", "aborted"} :
          End(b, s) /\ xid[b] # NoXid /\ (s = "aborted" => ~loc[b].ddl)
    <2>1. CASE Commit(b)
      BY <2>1 DEF Commit, CanCall
    <2>2. CASE Abort(b)
      BY <2>2 DEF Abort
    <2>3. QED  BY <2>1, <2>2
  <1>2. calm' \in BOOLEAN
    BY AtStep DEF Commit, Abort, IInv, TypeOK, Locals
  <1>3. /\ xid' = [xid EXCEPT ![b] = NoXid] /\ pc' = [pc EXCEPT ![b] = "idle"] /\ UNCHANGED meta
        /\ \A y \in XidsOf(xact) : y # xid[b] => (DidCommit(xact', y) <=> DidCommit(xact, y))
        /\ ~DidCommit(xact, xid[b]) /\ (DidCommit(xact', xid[b]) <=> s = "committed")
    BY <1>1, <1>2, Ended
  <1>4. SeqFacts /\ pc \in [Backend -> Steps] /\ xid \in [Backend -> XidsOf(xact)]
    BY AtStep DEF IInv, TypeOK
  <1>5. OneAtATime'
    BY <1>3, <1>4 DEF TablesInv, OneAtATime
  <1>6. RowsSettled'
    <2>1. ASSUME NEW x \in XidsOf(xact), Settled(x) PROVE Settled(x)'
      <3>1. CASE DidCommit(xact, x)
        BY <1>3, <3>1 DEF Settled
      <3>2. CASE \E c \in Backend : IsOwn(xid[c], x) /\ loc[c].ddl
        <4>1. PICK c \in Backend : IsOwn(xid[c], x) /\ loc[c].ddl
          BY <3>2
        <4>2. c = b
          BY <1>1, <4>1 DEF TablesInv, OneAtATime, IsOwn
        <4>3. DidCommit(xact', x)
          BY <1>1, <1>3, <4>1, <4>2 DEF IsOwn
        <4>4. QED  BY <4>3 DEF Settled
      <3>3. QED  BY <2>1, <3>1, <3>2 DEF Settled
    <2>2. \A i \in DOMAIN meta : meta[i].xmin \in XidsOf(xact) /\ meta[i].xmax \in XidsOf(xact)
      BY <1>4 DEF SeqFacts, MetaRow
    <2>3. QED  BY <1>3, <2>1, <2>2 DEF TablesInv, RowsSettled
  <1>7. TablesOrdered'
    BY <1>3 DEF TablesInv, TablesOrdered, Present
  <1>8. ASSUME NEW c \in Backend PROVE TableSet(c)'
    <2>1. pc'[c] = "idle"
      BY <1>1, <1>3, <1>4, OthersIdle DEF TablesInv
    <2>2. QED  BY <2>1 DEF TableSet, Compacting, Inserting
  <1>9. QED  BY <1>5, <1>6, <1>7, <1>8 DEF TablesInv, TablesSet

LEMMA TablesInsert ==
    ASSUME IInv, TablesInv, NEW b \in Backend, NEW e \in Entry, Insert(b, e)
    PROVE  TablesInv'
  <1>1. /\ pc[b] = "idle" /\ xid[b] # NoXid
        /\ UNCHANGED <<xact, xid, meta, maker, node, head, calm>>
        /\ NowAt(b, "readHead", e, meta[FirstOf(ActiveRows(b))].tbl, loc[b].at, loc[b].new,
                 loc[b].row, loc[b].batch, loc[b].job, loc[b].ddl)
        /\ Others(b)
    BY InsertEffect
  <1>2. PICK i \in DOMAIN meta : FirstOf(ActiveRows(b)) = i /\ ActiveRows(b) = {i} /\ meta[i].active
    BY <1>1, OneActiveRow DEF IInv
  <1>3. i \in Present
    BY <1>1, <1>2, VisibleIsPresent DEF ActiveRows
  <1>4. pc'[b] = "readHead" /\ loc'[b].tbl = meta[i].tbl /\ loc'[b].ddl = loc[b].ddl
    BY <1>1, <1>2 DEF NowAt
  <1>5. Present' = Present
    BY <1>1 DEF Present
  <1>6. TableSet(b)'
    BY <1>1, <1>2, <1>3, <1>4, <1>5 DEF TableSet, Compacting, Inserting
  <1>7. QED  BY <1>1, <1>4, <1>6, TablesQuiet

\* Steps on the records, and those of a compaction after it has picked its table.
LEMMA TablesOn ==
    ASSUME IInv, TablesInv, NEW b \in Backend, xid[b] # NoXid, Others(b),
           UNCHANGED <<xact, xid, meta>>, loc'[b].ddl = loc[b].ddl,
           \/ pc'[b] \in {"idle", "startWalk", "walk"}
           \/ /\ loc'[b].tbl = loc[b].tbl
              /\ \/ pc[b] \in Inserting /\ pc'[b] \in Inserting
                 \/ pc[b] \in Compacting /\ pc'[b] \in Compacting
    PROVE  TablesInv'
  <1>1. Present' = Present /\ \A t : IsOldest(t)' <=> IsOldest(t)
    BY DEF Present, IsOldest
  <1>2. TableSet(b)
    BY DEF TablesInv, TablesSet
  <1>3. TableSet(b)'
    <2>1. CASE pc'[b] \in {"idle", "startWalk", "walk"}
      BY <2>1 DEF TableSet, Compacting, Inserting
    <2>2. CASE loc'[b].tbl = loc[b].tbl /\ pc[b] \in Inserting /\ pc'[b] \in Inserting
      BY <1>1, <1>2, <2>2 DEF TableSet, Compacting, Inserting
    <2>3. CASE loc'[b].tbl = loc[b].tbl /\ pc[b] \in Compacting /\ pc'[b] \in Compacting
      BY <1>1, <1>2, <2>3 DEF TableSet, Compacting, Inserting
    <2>4. QED  BY <2>1, <2>2, <2>3
  <1>4. QED  BY <1>3, TablesQuiet

LEMMA TablesRotate ==
    ASSUME IInv, TablesInv, NEW b \in Backend, RotateActive(b) \/ CompactActive(b)
    PROVE  TablesInv'
  <1>1. /\ pc[b] = "idle" /\ xid[b] # NoXid
        /\ UNCHANGED <<xact, xid, etup, meta, node, head, calm>>
        /\ NowAt(b, "close", loc[b].entry, Len(maker) + 1, loc[b].at, loc[b].new,
                 FirstOf(ActiveRows(b)), loc[b].batch, loc[b].job, TRUE)
        /\ Others(b)
    BY RotateEffect
  <1>2. PICK i \in DOMAIN meta : FirstOf(ActiveRows(b)) = i /\ ActiveRows(b) = {i} /\ meta[i].active
    BY <1>1, OneActiveRow DEF IInv
  <1>3. i \in Present
    BY <1>1, <1>2, VisibleIsPresent DEF ActiveRows
  <1>4. pc'[b] = "close" /\ loc'[b].tbl = Len(maker) + 1 /\ loc'[b].ddl /\ loc'[b].row = i
    BY <1>1, <1>2 DEF NowAt
  <1>5. Present' = Present
    BY <1>1 DEF Present
  <1>6. \A k \in DOMAIN meta : meta[k].tbl < Len(maker) + 1
    <2>1. SeqFacts
      BY AtStep
    <2>2. \A k \in DOMAIN meta : meta[k].tbl \in 1 .. Len(maker)
      BY <2>1 DEF SeqFacts, MetaRow
    <2>3. QED  BY <2>1, <2>2 DEF SeqFacts
  <1>7. TableSet(b)'
    BY <1>1, <1>2, <1>3, <1>4, <1>5, <1>6 DEF TableSet, Compacting, Inserting
  <1>8. QED  BY <1>1, <1>4, <1>7, TablesQuiet

LEMMA TablesPick ==
    ASSUME IInv, TablesInv, NEW b \in Backend, Compact(b) \/ PickClosed(b)
    PROVE  TablesInv'
  <1>1. /\ pc[b] \in {"idle", "pick"} /\ xid[b] # NoXid /\ Closed(b) # {}
        /\ UNCHANGED <<xact, xid, etup, meta, maker, node, head, calm>>
        /\ NowAt(b, "scan", loc[b].entry, FirstOf(Closed(b)), loc[b].at, loc[b].new,
                 loc[b].row, loc[b].batch, loc[b].job, TRUE)
        /\ Others(b)
    BY PickOldestEffect
  <1>2. SeqFacts /\ VisibleRows(b) = Present
    BY <1>1, AtStep, VisibleIsPresent
  <1>3. \A i \in DOMAIN meta : meta[i].tbl \in Nat
    BY <1>2 DEF SeqFacts, MetaRow
  <1>4. Closed(b) \in SUBSET Nat
    BY <1>3 DEF Closed, VisibleRows
  <1>5. PICK t : t = FirstOf(Closed(b)) /\ t \in Closed(b) /\ \A u \in Closed(b) : t <= u
    BY <1>1, <1>4, LeastNat
  <1>6. PICK i \in Present : meta[i].tbl = t /\ ~meta[i].active /\ ~meta[i].compacted
    BY <1>2, <1>5 DEF Closed
  <1>7. ASSUME NEW j \in Present, ~meta[j].compacted PROVE t <= meta[j].tbl
    <2>1. CASE meta[j].active
      <3>1. t < meta[j].tbl
        BY <1>6, <2>1 DEF TablesInv, TablesOrdered
      <3>2. t \in Nat /\ meta[j].tbl \in Nat
        BY <1>3, <1>6 DEF Present
      <3>3. QED  BY <3>1, <3>2
    <2>2. CASE ~meta[j].active
      BY <1>2, <1>5, <1>7, <2>2 DEF Closed
    <2>3. QED  BY <2>1, <2>2
  <1>8. IsOldest(t)
    BY <1>6, <1>7 DEF IsOldest
  <1>9. pc'[b] = "scan" /\ loc'[b].tbl = t /\ loc'[b].ddl
    BY <1>1, <1>5 DEF NowAt
  <1>10. IsOldest(t)'
    BY <1>1, <1>8 DEF IsOldest, Present
  <1>11. TableSet(b)'
    BY <1>9, <1>10 DEF TableSet, Compacting, Inserting
  <1>12. QED  BY <1>1, <1>9, <1>11, TablesQuiet

LEMMA TablesFindRow ==
    ASSUME IInv, TablesInv, NEW b \in Backend, FindRow(b)
    PROVE  TablesInv'
  <1>1. /\ pc[b] = "findRow"
        /\ UNCHANGED <<xact, xid, etup, meta, maker, node, head, calm>>
        /\ NowAt(b, "mark", loc[b].entry, loc[b].tbl, loc[b].at, loc[b].new,
                 FirstOf(RowsOf(b, loc[b].tbl)), loc[b].batch, loc[b].job, loc[b].ddl)
        /\ Others(b)
    BY FindRowEffect
  <1>2. SeqFacts /\ xid[b] # NoXid
    BY <1>1, AtStep
  <1>3. VisibleRows(b) = Present
    BY <1>2, VisibleIsPresent
  <1>4. RowsOf(b, loc[b].tbl) # {} /\ RowsOf(b, loc[b].tbl) \in SUBSET Nat
    <2>1. RowsOf(b, loc[b].tbl) # {}
      BY <1>1 DEF IInv, MetaInv, RowsHeld, Compacting
    <2>2. QED  BY <1>2, <2>1 DEF RowsOf, VisibleRows, SeqFacts
  <1>5. PICK r : r = FirstOf(RowsOf(b, loc[b].tbl)) /\ r \in Present /\ meta[r].tbl = loc[b].tbl
    BY <1>3, <1>4, LeastNat DEF RowsOf
  <1>6. pc'[b] = "mark" /\ loc'[b].tbl = loc[b].tbl /\ loc'[b].row = r /\ loc'[b].ddl = loc[b].ddl
    BY <1>1, <1>5 DEF NowAt
  <1>7. Present' = Present /\ \A t : IsOldest(t)' <=> IsOldest(t)
    BY <1>1 DEF Present, IsOldest
  <1>8. TableSet(b)
    BY DEF TablesInv, TablesSet
  <1>9. TableSet(b)'
    BY <1>1, <1>5, <1>6, <1>7, <1>8 DEF TableSet, Compacting, Inserting
  <1>10. QED  BY <1>1, <1>2, <1>6, <1>9, TablesQuiet

LEMMA TablesReplace ==
    ASSUME IInv, TablesInv, NEW b \in Backend, xid[b] # NoXid, NEW i \in Present, loc[b].row = i,
           ~meta[i].compacted, UNCHANGED <<xact, xid>>, Others(b), loc[b].ddl, loc'[b].ddl,
           NEW row \in MetaRow, row.tbl = meta[i].tbl, ReplaceMeta(b, row)
    PROVE  Added(b, {i}, row)
  <1>1. i \in DOMAIN meta /\ loc[b].row \in DOMAIN meta
    BY DEF Present
  <1>2. PICK gone, r : /\ gone = {i} /\ r.active = row.active /\ r.compacted = row.compacted
                       /\ Rewrites(b, gone, r)
    BY <1>1, ReplaceRewrites
  <1>3. gone \subseteq Present /\ \A k \in gone : ~meta[k].compacted
    BY <1>2
  <1>4. Added(b, gone, r)
    BY <1>2, <1>3, TablesWritten
  <1>5. r.tbl = row.tbl
    BY <1>2 DEF Rewrites
  <1>6. QED  BY <1>2, <1>4, <1>5 DEF Added

LEMMA TablesClose ==
    ASSUME IInv, TablesInv, NEW b \in Backend, CloseActive(b)
    PROVE  TablesInv' /\ \A t : (HasRow(t) => HasRow(t)') /\ (Done(t)' <=> Done(t))
  <1>1. /\ pc[b] = "close" /\ xid[b] # NoXid /\ SeqFacts /\ pc \in [Backend -> Steps]
        /\ loc[b] \in Locals
    BY AtStep DEF CloseActive
  <1>2. /\ UNCHANGED <<xact, xid, loc>> /\ pc'[b] = "addActive" /\ Others(b)
    BY <1>1 DEF CloseActive, Goto, Others
  <1>3. /\ loc[b].ddl /\ loc[b].row \in Present /\ meta[loc[b].row].active
        /\ \A k \in DOMAIN meta : meta[k].tbl < loc[b].tbl
    BY <1>1 DEF TablesInv, TablesSet, TableSet
  <1>4. PICK i \in Present : i = loc[b].row
    BY <1>3
  <1>5. i \in DOMAIN meta /\ meta[i] \in MetaRow /\ ~meta[i].compacted
    BY <1>1, <1>3, <1>4 DEF Present, TablesInv, TablesOrdered, SeqFacts
  <1>6. PICK row \in MetaRow : /\ ReplaceMeta(b, row) /\ row.tbl = meta[i].tbl /\ ~row.active
                               /\ ~row.compacted
    <2>1. ReplaceMeta(b, [meta[i] EXCEPT !.active = FALSE])
      BY <1>4 DEF CloseActive
    <2>2. /\ [meta[i] EXCEPT !.active = FALSE] \in MetaRow
          /\ [meta[i] EXCEPT !.active = FALSE].tbl = meta[i].tbl
          /\ ~[meta[i] EXCEPT !.active = FALSE].active
          /\ ~[meta[i] EXCEPT !.active = FALSE].compacted
      BY <1>5 DEF MetaRow
    <2>3. QED  BY <2>1, <2>2
  <1>7. Added(b, {i}, row)
    <2>1. loc[b].ddl /\ loc'[b].ddl /\ loc[b].row = i
      BY <1>2, <1>3, <1>4
    <2>2. QED  BY <1>1, <1>2, <1>5, <1>6, <2>1, TablesReplace
  <1>8. \A k \in Present : meta[k].active => k = i
    <2>1. PICK a : ActiveRows(b) = {a}
      BY <1>1, OneActiveRow DEF IInv
    <2>2. \A k \in Present : meta[k].active => k \in ActiveRows(b)
      BY <1>1, VisibleIsPresent DEF ActiveRows
    <2>3. QED  BY <1>3, <1>4, <2>1, <2>2
  <1> DEFINE n == Len(meta) + 1
  <1>9. n \in Present' /\ meta'[n].tbl = meta[i].tbl /\ ~meta'[n].active /\ ~meta'[n].compacted
    BY <1>6, <1>7 DEF Added
  <1>10. \A k \in Present' : k = n \/ (k \in Present /\ k # i /\ ~meta'[k].active /\ k \in DOMAIN meta)
    BY <1>7, <1>8 DEF Present, Added
  <1> HIDE DEF n
  <1>11. TablesOrdered'
    <2>1. \A k \in Present' : ~meta'[k].active
      BY <1>9, <1>10
    <2>2. \A k \in Present : /\ meta[k].tbl = meta[i].tbl => k = i
                             /\ meta[k].compacted => meta[k].tbl < meta[i].tbl
                             /\ ~meta[k].active => meta[k].tbl < meta[i].tbl
      BY <1>3, <1>4, <1>5, <1>8 DEF TablesInv, TablesOrdered
    <2>3. \A j, k \in Present' : meta'[j].tbl = meta'[k].tbl => j = k
      BY <1>7, <1>9, <1>10, <2>2 DEF TablesInv, TablesOrdered, Added
    <2>4. \A j, k \in Present' : meta'[j].compacted /\ ~meta'[k].compacted => meta'[j].tbl < meta'[k].tbl
      BY <1>7, <1>9, <1>10, <2>2 DEF TablesInv, TablesOrdered, Added
    <2>5. \A k \in DOMAIN meta' : meta'[k].xmax # NoXid => ~meta'[k].compacted
      BY <1>7 DEF Added
    <2>6. QED  BY <2>1, <2>3, <2>4, <2>5 DEF TablesOrdered
  <1>12. TableSet(b)'
    <2>1. \A k \in Present' : ~meta'[k].active
      BY <1>9, <1>10
    <2>2. \A k \in DOMAIN meta' : meta'[k].tbl < loc[b].tbl
      BY <1>3, <1>5, <1>6, <1>7 DEF Added
    <2>3. QED  BY <1>2, <1>3, <2>1, <2>2 DEF TableSet, Compacting, Inserting
  <1>13. ASSUME NEW t PROVE (HasRow(t) => HasRow(t)') /\ (Done(t)' <=> Done(t))
    <2>1. \A k : k \in Present' <=> (k \in Present /\ k # i) \/ k = n
      BY <1>7 DEF Added, n
    <2>2. \A k \in Present : meta'[k].tbl = meta[k].tbl /\ meta'[k].compacted = meta[k].compacted
      BY <1>7 DEF Added, Present
    <2>3. QED  BY <1>5, <1>9, <2>1, <2>2 DEF HasRow, Done
  <1>14. QED  BY <1>7, <1>11, <1>12, <1>13 DEF TablesInv, TablesSet, Added

LEMMA TablesAdd ==
    ASSUME IInv, TablesInv, NEW b \in Backend, AddActive(b)
    PROVE  TablesInv' /\ \A t : (HasRow(t) => HasRow(t)') /\ (Done(t)' <=> Done(t))
  <1>1. /\ pc[b] = "addActive"
        /\ UNCHANGED <<xact, xid, etup, maker, node, head, calm>>
        /\ meta' = Append(meta, [tbl |-> loc[b].tbl, active |-> TRUE, compacted |-> FALSE,
                                 xmin |-> xid[b], xmax |-> NoXid])
        /\ pc'[b] \in {"idle", "pick"} /\ loc'[b].ddl = loc[b].ddl
        /\ Others(b)
    BY AddActiveEffect
  <1>2. /\ xid[b] # NoXid /\ SeqFacts /\ loc[b].tbl \in 0 .. Len(maker) /\ xid[b] \in XidsOf(xact)
        /\ loc[b].tbl # ArrayList
    BY <1>1, AtStep DEF Locals, SetAt
  <1>3. /\ loc[b].ddl /\ \A k \in DOMAIN meta : meta[k].tbl < loc[b].tbl
        /\ \A k \in Present : ~meta[k].active
    BY <1>1 DEF TablesInv, TablesSet, TableSet, Compacting
  <1> DEFINE r == [tbl |-> loc[b].tbl, active |-> TRUE, compacted |-> FALSE,
                   xmin |-> xid[b], xmax |-> NoXid]
  <1>4. r \in MetaRow /\ r.tbl = loc[b].tbl /\ r.active /\ ~r.compacted
        /\ r.xmin = xid[b] /\ r.xmax = NoXid
    BY <1>2 DEF MetaRow, SeqFacts, XidsOf, ArrayList
  <1> HIDE DEF r
  <1>13. PICK gone : gone = {}
    OBVIOUS
  <1>5. Rewrites(b, gone, r)
    <2>1. meta' = Append(meta, r) /\ meta \in Seq(MetaRow)
      BY <1>1 DEF r, IInv, TypeOK
    <2>2. QED  BY <1>2, <1>4, <1>13, <2>1 DEF Rewrites, SeqFacts
  <1>14. gone \subseteq Present /\ (Present \ gone) = Present /\ \A k \in gone : ~meta[k].compacted
    BY <1>13
  <1> DEFINE n == Len(meta) + 1
  <1>15. Added(b, gone, r)
    <2>1. loc[b].ddl /\ loc'[b].ddl
      BY <1>1, <1>3
    <2>2. QED  BY <1>1, <1>2, <1>5, <1>14, <2>1, TablesWritten
  <1>6. /\ \A k : k \in Present' <=> k \in Present \/ k = n
        /\ \A k \in DOMAIN meta :
             /\ meta'[k].tbl = meta[k].tbl /\ meta'[k].active = meta[k].active
             /\ meta'[k].compacted = meta[k].compacted
             /\ meta'[k].xmax # NoXid => ~meta[k].compacted
        /\ n \notin DOMAIN meta
        /\ \A k : k \in DOMAIN meta' <=> k \in DOMAIN meta \/ k = n
        /\ meta'[n].tbl = loc[b].tbl /\ meta'[n].active /\ ~meta'[n].compacted
    BY <1>4, <1>13, <1>15 DEF Added
  <1>7. \A k \in Present' : k = n \/ (k \in Present /\ k \in DOMAIN meta)
    BY <1>6 DEF Present
  <1> HIDE DEF n
  <1>8. \A k \in Present : ~meta'[k].active /\ meta'[k].tbl < loc[b].tbl
    BY <1>3, <1>6 DEF Present
  <1>9. \A k \in DOMAIN meta : meta[k].tbl \in Int
    BY <1>2 DEF SeqFacts, MetaRow
  <1>10. TablesOrdered'
    <2>1. \A j, k \in Present' : meta'[j].tbl = meta'[k].tbl => j = k
      BY <1>2, <1>4, <1>6, <1>7, <1>8, <1>9 DEF TablesInv, TablesOrdered
    <2>2. \A j, k \in Present' : meta'[j].active /\ ~meta'[k].active => meta'[k].tbl < meta'[j].tbl
      BY <1>4, <1>6, <1>7, <1>8
    <2>3. \A j, k \in Present' : meta'[j].compacted /\ ~meta'[k].compacted => meta'[j].tbl < meta'[k].tbl
      BY <1>4, <1>6, <1>7, <1>8 DEF TablesInv, TablesOrdered
    <2>4. \A k \in Present' : ~(meta'[k].active /\ meta'[k].compacted)
      BY <1>4, <1>6, <1>7, <1>8
    <2>5. \A k \in DOMAIN meta' : meta'[k].xmax # NoXid => ~meta'[k].compacted
      BY <1>4, <1>6
    <2>6. QED  BY <2>1, <2>2, <2>3, <2>4, <2>5 DEF TablesOrdered
  <1>11. TableSet(b)'
    BY <1>1, <1>3 DEF TableSet, Compacting, Inserting
  <1>12. ASSUME NEW t PROVE (HasRow(t) => HasRow(t)') /\ (Done(t)' <=> Done(t))
    BY <1>6, <1>7 DEF HasRow, Done, Present
  <1>16. QED  BY <1>10, <1>11, <1>12, <1>15 DEF TablesInv, TablesSet, Added

LEMMA TablesMark ==
    ASSUME IInv, TablesInv, NEW b \in Backend, Mark(b)
    PROVE  TablesInv' /\ \A t : (HasRow(t) => HasRow(t)') /\ (Done(t)' <=> Done(t) \/ t = loc[b].tbl)
  <1>1. /\ pc[b] = "mark" /\ xid[b] # NoXid /\ SeqFacts /\ pc \in [Backend -> Steps]
        /\ loc[b] \in Locals
    BY AtStep DEF Mark
  <1>2. /\ UNCHANGED <<xact, xid>> /\ pc'[b] = "idle" /\ Others(b) /\ loc'[b].ddl = loc[b].ddl
    BY ReturnEffect DEF Mark, NowAt
  <1>3. /\ loc[b].ddl /\ loc[b].row \in Present /\ meta[loc[b].row].tbl = loc[b].tbl
        /\ IsOldest(loc[b].tbl)
    BY <1>1 DEF TablesInv, TablesSet, TableSet
  <1>4. PICK i \in Present : i = loc[b].row
    BY <1>3
  <1>5. ~meta[i].active /\ ~meta[i].compacted
        /\ \A j \in Present : ~meta[j].compacted => meta[i].tbl <= meta[j].tbl
    <2>1. PICK k \in Present : meta[k].tbl = loc[b].tbl /\ ~meta[k].active /\ ~meta[k].compacted
      BY <1>3 DEF IsOldest
    <2>2. k = i
      BY <1>3, <1>4, <2>1 DEF TablesInv, TablesOrdered
    <2>3. QED  BY <1>3, <1>4, <2>1, <2>2 DEF IsOldest
  <1>6. i \in DOMAIN meta /\ meta[i] \in MetaRow
    BY <1>1, <1>4 DEF Present, SeqFacts
  <1>7. PICK row \in MetaRow : /\ ReplaceMeta(b, row) /\ row.tbl = meta[i].tbl /\ ~row.active
                               /\ row.compacted
    <2>1. ReplaceMeta(b, [meta[i] EXCEPT !.compacted = TRUE])
      BY <1>4 DEF Mark
    <2>2. /\ [meta[i] EXCEPT !.compacted = TRUE] \in MetaRow
          /\ [meta[i] EXCEPT !.compacted = TRUE].tbl = meta[i].tbl
          /\ ~[meta[i] EXCEPT !.compacted = TRUE].active
          /\ [meta[i] EXCEPT !.compacted = TRUE].compacted
      BY <1>5, <1>6 DEF MetaRow
    <2>3. QED  BY <2>1, <2>2
  <1> DEFINE n == Len(meta) + 1
  <1>14. Added(b, {i}, row)
    <2>1. loc[b].ddl /\ loc'[b].ddl /\ loc[b].row = i
      BY <1>2, <1>3, <1>4
    <2>2. QED  BY <1>1, <1>2, <1>5, <1>7, <2>1, TablesReplace
  <1>8. /\ \A k : k \in Present' <=> (k \in Present /\ k # i) \/ k = n
        /\ \A k \in DOMAIN meta :
             /\ meta'[k].tbl = meta[k].tbl /\ meta'[k].active = meta[k].active
             /\ meta'[k].compacted = meta[k].compacted
        /\ n \notin DOMAIN meta
        /\ \A k \in DOMAIN meta' : meta'[k].xmax # NoXid => ~meta'[k].compacted
        /\ meta'[n].tbl = meta[i].tbl /\ ~meta'[n].active /\ meta'[n].compacted
    BY <1>7, <1>14 DEF Added
  <1> HIDE DEF n
  <1>9. \A k \in Present' : k = n \/ (k \in Present /\ k # i /\ k \in DOMAIN meta)
    BY <1>8 DEF Present
  <1>10. \A k \in DOMAIN meta : meta[k].tbl \in Int
    BY <1>1 DEF SeqFacts, MetaRow
  <1>11. TablesOrdered'
    <2>1. \A k \in Present : /\ meta[k].tbl = meta[i].tbl => k = i
                             /\ k # i /\ ~meta[k].compacted => meta[i].tbl < meta[k].tbl
                             /\ meta[k].active => meta[i].tbl < meta[k].tbl
      <3>1. SUFFICES ASSUME NEW k \in Present
                     PROVE  /\ meta[k].tbl = meta[i].tbl => k = i
                            /\ k # i /\ ~meta[k].compacted => meta[i].tbl < meta[k].tbl
                            /\ meta[k].active => meta[i].tbl < meta[k].tbl
        OBVIOUS
      <3>2. meta[k].tbl \in Int /\ meta[i].tbl \in Int
        BY <1>6, <1>10 DEF Present
      <3>3. meta[k].tbl = meta[i].tbl => k = i
        BY DEF TablesInv, TablesOrdered
      <3>4. ~meta[k].compacted => meta[i].tbl <= meta[k].tbl
        BY <1>5
      <3>5. meta[k].active => meta[i].tbl < meta[k].tbl
        BY <1>5 DEF TablesInv, TablesOrdered
      <3>6. QED  BY <3>2, <3>3, <3>4, <3>5
    <2>2. \A j, k \in Present' : meta'[j].tbl = meta'[k].tbl => j = k
      BY <1>8, <1>9, <2>1 DEF TablesInv, TablesOrdered
    <2>3. \A j, k \in Present' : meta'[j].active /\ ~meta'[k].active => meta'[k].tbl < meta'[j].tbl
      BY <1>7, <1>8, <1>9, <2>1 DEF TablesInv, TablesOrdered
    <2>4. \A j, k \in Present' : meta'[j].compacted /\ ~meta'[k].compacted => meta'[j].tbl < meta'[k].tbl
      <3>1. SUFFICES ASSUME NEW j \in Present', NEW k \in Present',
                            meta'[j].compacted, ~meta'[k].compacted
                     PROVE  meta'[j].tbl < meta'[k].tbl
        OBVIOUS
      <3>2. k \in Present /\ k # i /\ ~meta[k].compacted /\ meta'[k].tbl = meta[k].tbl
        BY <1>7, <1>8, <1>9, <3>1
      <3>3. CASE j = n
        BY <1>8, <2>1, <3>2, <3>3
      <3>4. CASE j \in Present /\ j \in DOMAIN meta
        BY <1>8, <3>1, <3>2, <3>4 DEF TablesInv, TablesOrdered
      <3>5. QED  BY <1>9, <3>3, <3>4
    <2>5. \A k \in Present' : ~(meta'[k].active /\ meta'[k].compacted)
      BY <1>7, <1>8, <1>9 DEF TablesInv, TablesOrdered
    <2>6. QED  BY <1>8, <2>2, <2>3, <2>4, <2>5 DEF TablesOrdered
  <1>12. TableSet(b)'
    BY <1>2 DEF TableSet, Compacting, Inserting
  <1>13. ASSUME NEW t PROVE (HasRow(t) => HasRow(t)') /\ (Done(t)' <=> Done(t) \/ t = loc[b].tbl)
    <2>1. \A k \in Present : meta'[k].tbl = meta[k].tbl /\ meta'[k].compacted = meta[k].compacted
      BY <1>8 DEF Present
    <2>2. meta[i].tbl = loc[b].tbl
      BY <1>3, <1>4
    <2>3. QED  BY <1>5, <1>8, <2>1, <2>2 DEF HasRow, Done
  <1>15. QED  BY <1>11, <1>12, <1>13, <1>14 DEF TablesInv, TablesSet, Added

LEMMA TablesIdle ==
    ASSUME IInv, TablesInv, UNCHANGED vars PROVE TablesInv'
  <1>1. UNCHANGED <<xact, xid, pc, meta, loc>>
    BY DEF vars, data
  <1>2. QED
    BY <1>1 DEF TablesInv, OneAtATime, RowsSettled, Settled, TablesOrdered, TablesSet, TableSet,
                Present, IsOldest

LEMMA TablesInit ==
    ASSUME Init PROVE TablesInv
  <1>1. \A b \in Backend : xid[b] = NoXid /\ pc[b] = "idle"
    BY DEF Init
  <1> DEFINE r == [tbl |-> 1, active |-> TRUE, compacted |-> FALSE, xmin |-> 1, xmax |-> NoXid]
  <1>2. meta = <<r>> /\ xact = <<"committed">>
    BY DEF Init
  <1>3. r.active /\ ~r.compacted /\ r.xmin = 1 /\ r.xmax = NoXid
    OBVIOUS
  <1> HIDE DEF r
  <1>4. DOMAIN meta = {1} /\ meta[1] = r
    BY <1>2
  <1>5. Settled(1)
    BY <1>2 DEF Settled, DidCommit, NoXid
  <1>6. OneAtATime /\ RowsSettled
    BY <1>1, <1>3, <1>4, <1>5 DEF OneAtATime, RowsSettled
  <1>7. TablesOrdered
    BY <1>3, <1>4 DEF TablesOrdered, Present
  <1>8. TablesSet
    BY <1>1 DEF TablesSet, TableSet, Compacting, Inserting
  <1>9. QED  BY <1>6, <1>7, <1>8 DEF TablesInv
-----------------------------------------------------------------------------
(* The chains of the vertices, where transactions come one after another.    *)

Moving == {"merge", "rewrite", "wire", "findRow", "mark"}
Linking == {"fixPrev", "setHead"}

\* The record an insertion has appended and the map does not lead to yet.
Pending(n) == \E b \in Backend : pc[b] \in Linking /\ n = loc[b].new

\* The vertices a compaction has still to move; the records of all others are
\* in its table no more.
ToMove(b) ==
    {j.owner : j \in loc[b].batch}
        \cup (IF pc[b] \in {"rewrite", "wire"} THEN {loc[b].job.owner} ELSE {})
Moved(n) ==
    \/ Done(TableOf(n))
    \/ \E b \in Backend : /\ pc[b] \in Moving /\ TableOf(n) = loc[b].tbl
                          /\ node[n].owner \notin ToMove(b)

\* The records that are in the chain of a vertex.
Standing(v) == {n \in Lists : node[n].owner = v /\ ~Moved(n) /\ ~Pending(n)}

RecordsInOrder ==
    /\ \A n \in Lists : HasRow(TableOf(n)) /\ Len(node[n].members) = 1 /\ node[n].xmax = NoXid
    /\ \A m, n \in Lists : m <= n => TableOf(m) <= TableOf(n)

OwnersAgree ==
    /\ \A n \in DOMAIN node : node[n].next # Nil => node[node[n].next].owner = node[n].owner
    /\ \A v \in Vertex : head[v] # Nil => node[head[v]].owner = v

\* The records of a chain come before its blocks, the youngest first, and each
\* is known to the one after it.
ChainStands(v) ==
    LET L == Standing(v) IN
        /\ Stands(node, L, head[v])
        /\ L = {} => head[v] \in {Nil} \cup Arrays
        /\ \A n \in L : /\ node[n].next \in L \cup Arrays \cup {Nil}
                        /\ node[n].next \in L => node[node[n].next].prev = n
        /\ head[v] \in L =>
              \/ node[head[v]].prev = Nil
              \/ \E b \in Backend : pc[b] = "setHead" /\ loc[b].at = head[v]
ChainsStand == \A v \in Vertex : ChainStands(v)

\* What an insertion, and a compaction, has read still holds.
InsertSet(b) ==
    /\ pc[b] \in {"appendRecord", "fixPrev", "setHead"} => loc[b].at = head[OwnerOf[loc[b].entry]]
    /\ pc[b] \in Linking => loc[b].new = Len(node) /\ node[loc[b].new] = Record(b)
    /\ pc[b] = "setHead" /\ loc[b].at # Nil => node[loc[b].at].prev = loc[b].new
InsertsSet == \A b \in Backend : InsertSet(b)

IsGathered(j, t) == j = Gathered(j.owner, t) /\ RecordsOf(j.owner, t) # {}
JobSet(b) ==
    LET l == loc[b] IN
        /\ pc[b] \in Moving => \A j \in l.batch : IsGathered(j, l.tbl)
        /\ pc[b] \in {"rewrite", "wire"} =>
              /\ \E g \in Job : IsGathered(g, l.tbl) /\ l.job = Merged(g) /\ l.job.owner = g.owner
              /\ \A j \in l.batch : j.owner # l.job.owner
        /\ pc[b] \in {"findRow", "mark"} => l.batch = {}
        /\ pc[b] = "wire" =>
              LET B == Blocks(l.job, l.at - 1)
              IN  Len(node) = l.at - 1 + Len(B) /\ \A i \in DOMAIN B : node[l.at - 1 + i] = B[i]
JobsSet == \A b \in Backend : JobSet(b)

ListsInv ==
    Founded(node) /\ RecordsInOrder /\ OwnersAgree /\ ChainsStand /\ InsertsSet /\ JobsSet

Idle(b) == \A c \in Backend \ {b} : pc[c] = "idle"

\* While one backend is in a call, what stands depends on it alone.
LEMMA StandingIs ==
    ASSUME NEW b \in Backend, Idle(b)
    PROVE  \A n : /\ Pending(n) <=> pc[b] \in Linking /\ n = loc[b].new
                  /\ Moved(n) <=> Done(TableOf(n)) \/ (/\ pc[b] \in Moving /\ TableOf(n) = loc[b].tbl
                                                       /\ node[n].owner \notin ToMove(b))
    BY DEF Pending, Moved, Idle, Linking, Moving

LEMMA StandingIsNext ==
    ASSUME NEW b \in Backend, Idle(b)'
    PROVE  \A n : /\ Pending(n)' <=> pc'[b] \in Linking /\ n = loc'[b].new
                  /\ Moved(n)' <=> Done(TableOf(n))' \/ (/\ pc'[b] \in Moving /\ node'[n].tbl = loc'[b].tbl
                                                         /\ node'[n].owner \notin ToMove(b)')
    BY DEF Pending, Moved, Idle, Linking, Moving, TableOf

\* A step of a backend that writes no node and is not at one.
LEMMA ListsAside ==
    ASSUME ListsInv, NEW b \in Backend, Idle(b), Others(b), UNCHANGED <<node, head>>,
           \A t : (HasRow(t) => HasRow(t)') /\ (Done(t)' <=> Done(t)),
           pc[b] \notin Moving \cup Linking, pc'[b] \notin Moving \cup Linking, InsertSet(b)'
    PROVE  ListsInv'
  <1>1. Idle(b)' /\ Lists' = Lists /\ Arrays' = Arrays /\ \A n : TableOf(n)' = TableOf(n)
    BY DEF Idle, Others, Lists, Arrays, TableOf
  <1>2. \A n : ~Pending(n) /\ ~Pending(n)' /\ (Moved(n)' <=> Moved(n))
    BY <1>1, StandingIs, StandingIsNext
  <1>3. \A v : Standing(v)' = Standing(v)
    BY <1>1, <1>2 DEF Standing
  <1>4. Founded(node)' /\ RecordsInOrder' /\ OwnersAgree'
    BY <1>1 DEF ListsInv, RecordsInOrder, OwnersAgree, Founded
  <1>5. ChainsStand'
    <2>1. SUFFICES ASSUME NEW v \in Vertex PROVE ChainStands(v)'
      BY DEF ChainsStand
    <2>2. ChainStands(v) /\ ~\E c \in Backend : pc[c] = "setHead"
      BY DEF ListsInv, ChainsStand, Idle, Linking
    <2>3. PICK L : L = Standing(v) /\ L = Standing(v)'
      BY <1>3
    <2>4. QED  BY <1>1, <2>2, <2>3 DEF ChainStands, Stands
  <1>6. ASSUME NEW c \in Backend PROVE InsertSet(c)' /\ JobSet(c)'
    <2>1. CASE c = b
      BY <2>1 DEF JobSet, Moving, Linking
    <2>2. CASE c # b
      BY <1>1, <2>2 DEF InsertSet, JobSet, Moving, Linking, Idle
    <2>3. QED  BY <2>1, <2>2
  <1>7. QED  BY <1>4, <1>5, <1>6 DEF ListsInv, InsertsSet, JobsSet

\* What is gathered of a vertex depends on its records in the table and on the
\* tables they lead to.
LEMMA GatheredSame ==
    ASSUME SeqFacts, NEW v, NEW t,
           \A n : n \in RecordsOf(v, t)' <=> n \in RecordsOf(v, t),
           \A n \in RecordsOf(v, t) :
              /\ node'[n].members = node[n].members
              /\ node'[n].next = node[n].next /\ node'[n].prev = node[n].prev
              /\ node[n].next # Nil => node'[node[n].next].tbl = node[node[n].next].tbl
              /\ node[n].prev # Nil => node'[node[n].prev].tbl = node[node[n].prev].tbl
    PROVE  Gathered(v, t)' = Gathered(v, t)
  <1>1. PICK R : R = RecordsOf(v, t) /\ R = RecordsOf(v, t)'
    OBVIOUS
  <1>2. R \in SUBSET (1 .. Len(node)) /\ Len(node) \in Nat
    BY <1>1 DEF RecordsOf, SeqFacts
  <1>3. IsFiniteSet(R) /\ Cardinality(R) \in Nat /\ InOrder(R) \in [1 .. Cardinality(R) -> R]
    BY <1>2, InOrderIsIn
  <1>4. \A i \in 1 .. Cardinality(R) : node'[InOrder(R)[i]].members = node[InOrder(R)[i]].members
    BY <1>1, <1>3
  <1> DEFINE r(i) == node[InOrder(R)[i]].members[1]
             p(i) == node'[InOrder(R)[i]].members[1]
  <1>5. [i \in 1 .. Cardinality(R) |-> p(i)] = [i \in 1 .. Cardinality(R) |-> r(i)]
    <2>1. \A i \in 1 .. Cardinality(R) : p(i) = r(i)
      BY <1>4
    <2> HIDE DEF p, r
    <2>2. QED  BY <2>1
  <1>6. Up(R, t)' = Up(R, t)
    <2> DEFINE out == {n \in R : node[n].prev = Nil \/ Leaves(node[n].prev, t)}
               outN == {n \in R : node'[n].prev = Nil \/ (node'[n].prev # Nil /\ node'[node'[n].prev].tbl # t)}
    <2>1. out \in SUBSET R
      OBVIOUS
    <2>2. outN = out
      BY <1>1 DEF Leaves, TableOf
    <2>3. out # {} => node'[LastOf(out)].prev = node[LastOf(out)].prev
      <3>1. out # {} => LastOf(out) \in out
        BY <1>2, <2>1, LastIsIn
      <3>2. QED  BY <1>1, <2>1, <3>1
    <2>4. Up(R, t) = IF out = {} THEN Nil ELSE node[LastOf(out)].prev
      BY DEF Up
    <2>5. Up(R, t)' = IF outN = {} THEN Nil ELSE node'[LastOf(outN)].prev
      BY DEF Up, Leaves, TableOf
    <2> HIDE DEF out, outN
    <2>6. QED  BY <2>2, <2>3, <2>4, <2>5
  <1>7. Down(R, t)' = Down(R, t)
    <2> DEFINE out == {n \in R : Leaves(node[n].next, t)}
               outN == {n \in R : node'[n].next # Nil /\ node'[node'[n].next].tbl # t}
    <2>1. out \in SUBSET R
      OBVIOUS
    <2>2. outN = out
      BY <1>1 DEF Leaves, TableOf
    <2>3. out # {} => node'[LastOf(out)].next = node[LastOf(out)].next
      <3>1. out # {} => LastOf(out) \in out
        BY <1>2, <2>1, LastIsIn
      <3>2. QED  BY <1>1, <2>1, <3>1
    <2>4. Down(R, t) = IF out = {} THEN Nil ELSE node[LastOf(out)].next
      BY DEF Down
    <2>5. Down(R, t)' = IF outN = {} THEN Nil ELSE node'[LastOf(outN)].next
      BY DEF Down, Leaves, TableOf
    <2> HIDE DEF out, outN
    <2>6. QED  BY <2>2, <2>3, <2>4, <2>5
  <1>8. Gathered(v, t) = [owner |-> v, members |-> [i \in 1 .. Cardinality(R) |-> r(i)],
                          up |-> Up(R, t), down |-> Down(R, t), rest |-> Nil]
    BY <1>1 DEF Gathered
  <1>9. Gathered(v, t)' = [owner |-> v, members |-> [i \in 1 .. Cardinality(R) |-> p(i)],
                           up |-> Up(R, t)', down |-> Down(R, t)', rest |-> Nil]
    BY <1>1 DEF Gathered
  <1> HIDE DEF r, p
  <1>10. QED  BY <1>5, <1>6, <1>7, <1>8, <1>9

\* Of the chain of a vertex that has records in the oldest table, these are the
\* last ones: what a compaction gathers leads on to where the chain leaves the
\* list tables, and back to the first record above.
Above(v, t) == {n \in Standing(v) : TableOf(n) # t}

LEMMA StandingAbove ==
    ASSUME IInv, TablesInv, ListsInv, NEW v \in Vertex, NEW t, IsOldest(t), t # ArrayList,
           RecordsOf(v, t) \subseteq Standing(v)
    PROVE  /\ t \in Nat /\ Standing(v) \subseteq Lists /\ Standing(v) \in SUBSET (1 .. Len(node))
           /\ \A n \in Standing(v) : /\ n \in Nat /\ node[n].tbl \in Nat /\ t <= node[n].tbl
                                     /\ n \in RecordsOf(v, t) <=> node[n].tbl = t
           /\ \A m, n \in Standing(v) : m <= n => node[m].tbl <= node[n].tbl
           /\ \A r \in RecordsOf(v, t), u \in Above(v, t) : r < u
  <1>1. SeqFacts
    BY AtStep, Facts DEF IInv
  <1>2. /\ \A n \in Standing(v) : /\ n \in Lists /\ n \in DOMAIN node /\ ~Moved(n)
                                  /\ node[n].owner = v
        /\ \A n \in DOMAIN node : n \in Nat
    BY <1>1 DEF Standing, Lists, SeqFacts
  <1>3. \A i \in DOMAIN meta : meta[i].tbl \in Nat
    BY <1>1 DEF SeqFacts, MetaRow
  <1>4. t \in Nat
    BY <1>3 DEF IsOldest, Present
  <1>5. ASSUME NEW n \in Standing(v) PROVE node[n].tbl \in Nat /\ t <= node[n].tbl
    <2>1. HasRow(node[n].tbl) /\ ~Done(node[n].tbl)
      BY <1>2 DEF ListsInv, RecordsInOrder, Moved, TableOf
    <2>2. PICK i \in Present : meta[i].tbl = node[n].tbl
      BY <2>1 DEF HasRow
    <2>3. ~meta[i].compacted
      BY <2>1, <2>2 DEF Done
    <2>4. QED  BY <1>3, <2>2, <2>3 DEF IsOldest, Present
  <1>6. \A n \in Standing(v) : n \in RecordsOf(v, t) <=> node[n].tbl = t
    BY <1>2 DEF RecordsOf
  <1>7. \A m, n \in Standing(v) : m <= n => node[m].tbl <= node[n].tbl
    BY <1>2 DEF ListsInv, RecordsInOrder, TableOf
  <1>8. ASSUME NEW r \in RecordsOf(v, t), NEW u \in Above(v, t) PROVE r < u
    <2>1. r \in Standing(v) /\ u \in Standing(v) /\ node[r].tbl = t /\ node[u].tbl # t
      BY <1>6 DEF Above, TableOf
    <2>2. r \in Nat /\ u \in Nat /\ t < node[u].tbl /\ node[u].tbl \in Nat
      BY <1>2, <1>4, <1>5, <2>1
    <2>3. ~(u <= r)
      BY <1>4, <1>7, <2>1, <2>2
    <2>4. QED  BY <2>2, <2>3
  <1>9. Standing(v) \subseteq Lists /\ Standing(v) \in SUBSET (1 .. Len(node))
    BY <1>1, <1>2 DEF SeqFacts
  <1>10. QED  BY <1>2, <1>4, <1>5, <1>6, <1>7, <1>8, <1>9

LEMMA GatheredIs ==
    ASSUME IInv, TablesInv, ListsInv, NEW v \in Vertex, NEW t, IsOldest(t), t # ArrayList,
           NEW R, R = RecordsOf(v, t), R # {}, R \subseteq Standing(v),
           \A b \in Backend : pc[b] # "setHead",
           NEW U, U = Above(v, t)
    PROVE  /\ Up(R, t) = IF U = {} THEN Nil ELSE FirstOf(U)
           /\ Down(R, t) = Bottom(node, Standing(v), head[v])
  <1> DEFINE L == Standing(v)
  <1>1. /\ t \in Nat /\ L \subseteq Lists /\ L \in SUBSET (1 .. Len(node)) /\ Len(node) \in Nat
        /\ \A n \in L : /\ n \in Nat /\ node[n].tbl \in Nat /\ t <= node[n].tbl
                        /\ n \in R <=> node[n].tbl = t
        /\ \A m, n \in L : m <= n => node[m].tbl <= node[n].tbl
        /\ \A r \in R, u \in U : r < u
    BY StandingAbove, Facts DEF IInv, SeqFacts
  <1>2. /\ head[v] \in L /\ L # {}
        /\ \A n \in L : /\ n <= head[v]
                        /\ node[n].next \in L => node[n].next < n
                        /\ \A m \in L : m < n => node[n].next \in L /\ m <= node[n].next
        /\ \A n \in L : /\ node[n].next \in L \cup Arrays \cup {Nil}
                        /\ node[n].next \in L => node[node[n].next].prev = n
        /\ node[head[v]].prev = Nil
    BY DEF ListsInv, ChainsStand, ChainStands, Stands
  <1>3. R \subseteq L /\ \A n \in L : n \in U <=> n \notin R
    BY <1>1 DEF Above, TableOf
  <1>4. U \subseteq L /\ R \in SUBSET Nat /\ U \in SUBSET Nat /\ \A n \in Arrays : node[n].tbl = ArrayList
    BY <1>1 DEF Above, Arrays, TableOf
  <1> HIDE DEF L
  \* The record of R that is met first.
  <1>5. PICK x \in R : \A n \in R : n <= x
    <2>1. R \in SUBSET (1 .. Len(node)) /\ Len(node) \in Nat
      BY <1>1 DEF L
    <2> DEFINE T == {Len(node) - n : n \in R}
    <2>2. T \in SUBSET Nat /\ T # {}
      <3>1. \A n \in R : Len(node) - n \in Nat
        BY <2>1
      <3>2. QED  BY <3>1
    <2>3. PICK x \in R : FirstOf(T) = Len(node) - x
      BY <2>2, LeastNat
    <2>4. \A n \in R : Len(node) - x <= Len(node) - n
      <3>1. \A k \in T : FirstOf(T) <= k
        BY <2>2, LeastNat
      <3>2. \A n \in R : Len(node) - n \in T
        OBVIOUS
      <3>3. QED  BY <2>3, <3>1, <3>2
    <2>5. \A n \in R : n \in 1 .. Len(node)
      BY <2>1
    <2>6. \A n \in R : n <= x
      BY <2>1, <2>4, <2>5
    <2>7. QED  BY <2>6
  <1>6. x \in L /\ x \in Nat
    BY <1>1, <1>4 DEF L
  \* Below it, records of R are known to each other.
  <1>7. ASSUME NEW n \in R, n # x PROVE node[n].prev \in R
    <2> DEFINE T == {m \in R : n < m}
    <2>1. n \in L /\ n \in Nat /\ x \in T /\ T \in SUBSET Nat
      <3>1. n \in Nat /\ n <= x
        BY <1>4, <1>5
      <3>2. QED  BY <1>4, <1>6, <1>7, <3>1 DEF L
    <2>2. PICK m \in T : m = FirstOf(T) /\ \A k \in T : m <= k
      BY <2>1, LeastNat
    <2>3. m \in L /\ m \in R /\ n < m /\ m \in Nat
      BY <1>4, <2>2 DEF L
    <2>4. node[m].next \in L /\ n <= node[m].next /\ node[m].next < m
      BY <1>2, <2>1, <2>3
    <2>5. node[m].next \in R
      <3>1. node[node[m].next].tbl <= node[m].tbl /\ node[m].tbl = t
        <4>1. PICK k \in L : k = node[m].next /\ k < m
          BY <2>4
        <4>2. k \in Nat /\ k <= m
          BY <1>1, <2>3, <4>1
        <4>3. QED  BY <1>1, <2>3, <4>1, <4>2
      <3>2. t <= node[node[m].next].tbl /\ node[node[m].next].tbl \in Nat
        BY <1>1, <2>4
      <3>3. node[node[m].next].tbl = t
        BY <1>1, <3>1, <3>2
      <3>4. QED  BY <1>1, <2>4, <3>3
    <2>6. node[m].next = n
      <3>1. node[m].next \in Nat
        BY <1>4, <2>5
      <3>2. node[m].next \notin T
        BY <2>2, <2>3, <2>4, <3>1
      <3>3. QED  BY <2>1, <2>4, <2>5, <3>1, <3>2
    <2>7. QED  BY <1>2, <2>3, <2>4, <2>6
  <1>8. Up(R, t) = node[x].prev
    <2> DEFINE out == {n \in R : node[n].prev = Nil \/ Leaves(node[n].prev, t)}
    <2>1. \A n \in R : n # x => n \notin out
      <3>1. SUFFICES ASSUME NEW n \in R, n # x PROVE n \notin out
        OBVIOUS
      <3>2. node[n].prev \in R
        BY <1>7, <3>1
      <3>3. node[n].prev # Nil /\ node[node[n].prev].tbl = t
        BY <1>1, <3>2 DEF RecordsOf, Nil, L
      <3>4. QED  BY <3>3 DEF Leaves, TableOf
    <2>2. x \in out
      <3>1. CASE U = {}
        <4>1. head[v] \in R
          BY <1>2, <1>3, <3>1 DEF L
        <4>2. head[v] = x
          BY <1>2, <1>4, <1>5, <1>6, <4>1
        <4>3. QED  BY <1>2, <4>2
      <3>2. CASE U # {}
        <4>1. PICK u \in U : u = FirstOf(U) /\ \A k \in U : u <= k
          BY <1>4, <3>2, LeastNat
        <4>2. u \in L /\ u \in Nat /\ x < u
          BY <1>1, <1>4, <4>1
        <4>3. node[u].next \in L /\ x <= node[u].next /\ node[u].next < u
          BY <1>2, <1>6, <4>2
        <4>4. node[u].next \in R
          <5>1. node[u].next \in Nat
            BY <1>1, <4>3
          <5>2. node[u].next \notin U
            BY <4>1, <4>2, <4>3, <5>1
          <5>3. QED  BY <1>3, <4>3, <5>2
        <4>5. node[u].next = x
          BY <1>4, <1>5, <1>6, <4>3, <4>4
        <4>6. node[x].prev = u /\ node[u].tbl # t /\ u # Nil
          BY <1>1, <1>2, <1>3, <4>1, <4>2, <4>3, <4>5 DEF Nil, L
        <4>7. QED  BY <4>6 DEF Leaves, TableOf
      <3>3. QED  BY <3>1, <3>2
    <2>3. out = {x}
      BY <2>1, <2>2
    <2>4. LastOf({x}) = x
      BY <1>6 DEF LastOf
    <2>5. Up(R, t) = IF out = {} THEN Nil ELSE node[LastOf(out)].prev
      BY DEF Up
    <2> HIDE DEF out
    <2>6. QED  BY <2>3, <2>4, <2>5
  <1>9. node[x].prev = IF U = {} THEN Nil ELSE FirstOf(U)
    <2>1. CASE U = {}
      <3>1. head[v] \in R
        BY <1>2, <1>3, <2>1 DEF L
      <3>2. head[v] = x
        BY <1>2, <1>4, <1>5, <1>6, <3>1
      <3>3. QED  BY <1>2, <2>1, <3>2
    <2>2. CASE U # {}
      <3>1. PICK u \in U : u = FirstOf(U) /\ \A k \in U : u <= k
        BY <1>4, <2>2, LeastNat
      <3>2. u \in L /\ u \in Nat /\ x < u
        BY <1>1, <1>4, <3>1
      <3>3. node[u].next \in L /\ x <= node[u].next /\ node[u].next < u
        BY <1>2, <1>6, <3>2
      <3>4. node[u].next \in R
        <4>1. node[u].next \in Nat
          BY <1>1, <3>3
        <4>2. node[u].next \notin U
          BY <3>1, <3>2, <3>3, <4>1
        <4>3. QED  BY <1>3, <3>3, <4>2
      <3>5. node[u].next = x
        BY <1>4, <1>5, <1>6, <3>3, <3>4
      <3>6. QED  BY <1>2, <2>2, <3>1, <3>2, <3>3, <3>5
    <2>3. QED  BY <2>1, <2>2
  \* The record that is met last.
  <1>10. PICK y : y = FirstOf(L) /\ y \in L /\ \A n \in L : y <= n
    <2>1. L \in SUBSET Nat /\ L # {}
      BY <1>1, <1>2
    <2>2. QED  BY <2>1, LeastNat
  <1>11. y \in R /\ node[y].next \in Arrays \cup {Nil}
    <2>1. y <= x /\ y \in Nat
      BY <1>1, <1>6, <1>10
    <2>2. node[y].tbl <= node[x].tbl /\ node[x].tbl = t /\ t <= node[y].tbl /\ node[y].tbl \in Nat
      BY <1>1, <1>6, <1>10, <2>1
    <2>3. y \in R
      BY <1>1, <1>10, <2>2
    <2>4. node[y].next \notin L
      <3>1. SUFFICES ASSUME node[y].next \in L PROVE FALSE
        OBVIOUS
      <3>2. node[y].next < y /\ y <= node[y].next /\ node[y].next \in Nat
        BY <1>1, <1>2, <1>10, <3>1
      <3>3. QED  BY <2>1, <3>2
    <2>5. QED  BY <1>2, <1>10, <2>3, <2>4
  <1>12. \A n \in R : n # y => node[n].next \in R
    <2>1. SUFFICES ASSUME NEW n \in R, n # y PROVE node[n].next \in R
      OBVIOUS
    <2>2. n \in L /\ n \in Nat /\ y <= n /\ y \in Nat
      BY <1>1, <1>4, <1>10 DEF L
    <2>3. node[n].next \in L /\ node[n].next < n
      BY <1>2, <1>10, <2>1, <2>2
    <2>4. node[node[n].next].tbl <= t /\ t <= node[node[n].next].tbl /\ node[node[n].next].tbl \in Nat
      <3>1. node[n].tbl = t /\ node[n].next \in Nat
        BY <1>1, <2>2, <2>3
      <3>2. QED  BY <1>1, <2>2, <2>3, <3>1
    <2>5. QED  BY <1>1, <2>3, <2>4
  <1>13. Down(R, t) = node[y].next
    <2> DEFINE out == {n \in R : Leaves(node[n].next, t)}
    <2>1. Down(R, t) = IF out = {} THEN Nil ELSE node[LastOf(out)].next
      BY DEF Down
    <2>2. \A n \in R : n # y => n \notin out
      <3>1. SUFFICES ASSUME NEW n \in R, n # y PROVE n \notin out
        OBVIOUS
      <3>2. node[node[n].next].tbl = t
        BY <1>12, <3>1 DEF RecordsOf
      <3>3. QED  BY <3>2 DEF Leaves, TableOf
    <2>3. LastOf({y}) = y
      BY <1>1, <1>10 DEF LastOf
    <2>4. CASE node[y].next = Nil
      <3>1. y \notin out
        BY <2>4 DEF Leaves
      <3>2. out = {}
        BY <2>2, <3>1
      <3> HIDE DEF out
      <3>3. QED  BY <2>1, <2>4, <3>2
    <2>5. CASE node[y].next \in Arrays /\ node[y].next # Nil
      <3>1. y \in out
        BY <1>4, <1>11, <2>5 DEF Leaves, TableOf
      <3>2. out = {y}
        BY <2>2, <3>1
      <3> HIDE DEF out
      <3>3. QED  BY <2>1, <2>3, <3>2
    <2>6. QED  BY <1>11, <2>4, <2>5
  <1>14. Bottom(node, L, head[v]) = node[y].next
    BY <1>2, <1>10 DEF Bottom
  <1>15. QED  BY <1>8, <1>9, <1>13, <1>14 DEF L
-----------------------------------------------------------------------------
(* What the steps write into the nodes.                                      *)

LEMMA LenDomain ==
    ASSUME NEW s, NEW n \in Nat, s = [i \in 1 .. n |-> s[i]]
    PROVE  /\ Len(s) = n /\ DOMAIN s = 1 .. n
           /\ \E S : s \in Seq(S)
  <1> DEFINE S == {s[i] : i \in 1 .. n}
  <1>1. s \in [1 .. n -> S]
    OBVIOUS
  <1> HIDE DEF S
  <1>2. s \in Seq(S) /\ Len(s) = n
    BY <1>1, IsASeq
  <1>3. DOMAIN s = 1 .. n
    BY <1>1
  <1>4. QED  BY <1>2, <1>3

LEMMA ConcatAt ==
    ASSUME NEW s, NEW S, s \in Seq(S), NEW t, NEW T, t \in Seq(T)
    PROVE  /\ Len(s \o t) = Len(s) + Len(t) /\ DOMAIN (s \o t) = 1 .. Len(s) + Len(t)
           /\ \A i \in 1 .. Len(s) + Len(t) :
                (s \o t)[i] = IF i <= Len(s) THEN s[i] ELSE t[i - Len(s)]
  <1>1. s \in Seq(S \cup T) /\ t \in Seq(S \cup T)
    BY SeqMonotonic
  <1>2. s \o t \in Seq(S \cup T) /\ Len(s \o t) = Len(s) + Len(t)
    BY <1>1, ConcatProperties
  <1>3. DOMAIN (s \o t) = 1 .. Len(s) + Len(t)
    BY <1>2
  <1>4. QED  BY <1>1, <1>2, <1>3, ConcatProperties

LEMMA LocalsAre ==
    ASSUME NEW l \in Locals
    PROVE  l.tbl \in 0 .. Len(maker) /\ l.at \in 0 .. Len(node) /\ l.batch \in SUBSET Job
    BY DEF Locals

\* Node k is written to in place.
Written(k) ==
    /\ k \in DOMAIN node /\ Len(node') = Len(node) /\ DOMAIN node' = DOMAIN node
    /\ \A n \in DOMAIN node : n # k => node'[n] = node[n]

LEMMA Patched ==
    ASSUME SeqFacts, NEW k \in DOMAIN node, NEW x, node' = [node EXCEPT ![k] = x]
    PROVE  Written(k) /\ node'[k] = x
  <1>1. DOMAIN node = 1 .. Len(node) /\ Len(node) \in Nat /\ DOMAIN node' = DOMAIN node
    BY DEF SeqFacts
  <1>2. Len(node') = Len(node)
    <2>1. node' = [i \in 1 .. Len(node) |-> node'[i]]
      BY <1>1
    <2>2. QED  BY <1>1, <2>1, LenDomain
  <1>3. QED  BY <1>1, <1>2 DEF Written

LEMMA AppendRecordNodes ==
    ASSUME IInv, NEW b \in Backend, AppendRecord(b)
    PROVE  /\ Len(node') = Len(node) + 1 /\ Len(node) + 1 \notin DOMAIN node
           /\ \A n : n \in DOMAIN node' <=> n \in DOMAIN node \/ n = Len(node) + 1
           /\ \A n \in DOMAIN node : node'[n] = node[n]
           /\ node'[Len(node) + 1] = Record(b)
  <1>1. SeqFacts /\ node \in Seq(Node)
    BY AtStep DEF IInv, TypeOK
  <1>2. node' = Append(node, Record(b))
    BY AppendRecordEffect
  <1>3. QED  BY <1>1, <1>2 DEF SeqFacts

LEMMA FixPrevNodes ==
    ASSUME IInv, NEW b \in Backend, FixPrev(b), NEW k, k = loc[b].at
    PROVE  /\ Written(k)
           /\ node'[k].tbl = node[k].tbl /\ node'[k].owner = node[k].owner
           /\ node'[k].members = node[k].members /\ node'[k].next = node[k].next
           /\ node'[k].xmax = node[k].xmax /\ node'[k].prev = loc[b].new
  <1>1. SeqFacts /\ SetAt(b) /\ loc[b] \in Locals /\ pc[b] = "fixPrev"
    BY AtStep DEF FixPrev
  <1>2. k \in DOMAIN node
    <2>1. loc[b].at # Nil
      BY <1>1 DEF SetAt
    <2>2. loc[b].at \in 0 .. Len(node)
      BY <1>1, LocalsAre
    <2>3. QED  BY <1>1, <2>1, <2>2 DEF SeqFacts, Nil
  <1>3. node[k] \in Node
    BY <1>1, <1>2 DEF SeqFacts
  <1>4. PICK x : x = [node[k] EXCEPT !.prev = loc[b].new]
    OBVIOUS
  <1>5. node' = [node EXCEPT ![k] = x]
    BY <1>4 DEF FixPrev
  <1>6. Written(k) /\ node'[k] = x
    BY <1>1, <1>2, <1>5, Patched
  <1>7. QED  BY <1>3, <1>4, <1>6 DEF Node

LEMMA StampMemberNodes ==
    ASSUME IInv, NEW b \in Backend, StampMember(b), NEW k, k = loc[b].at,
           NEW i, i = FirstOf(Wanted(b))
    PROVE  /\ Written(k) /\ i \in Wanted(b)
           /\ node'[k].tbl = node[k].tbl /\ node'[k].owner = node[k].owner
           /\ node'[k].next = node[k].next /\ node'[k].prev = node[k].prev
           /\ node'[k].xmax = node[k].xmax
           /\ Len(node'[k].members) = Len(node[k].members)
           /\ DOMAIN node'[k].members = DOMAIN node[k].members
           /\ \A l \in DOMAIN node[k].members :
                /\ node'[k].members[l].entry = node[k].members[l].entry
                /\ node'[k].members[l].xmax = IF l = i THEN xid[b] ELSE node[k].members[l].xmax
                /\ l # i => node'[k].members[l] = node[k].members[l]
  <1>1. SeqFacts /\ SetAt(b) /\ loc[b] \in Locals /\ pc[b] = "walk" /\ k # Nil
    BY AtStep DEF StampMember
  <1>2. k \in DOMAIN node
    <2>1. loc[b].at # Nil
      BY <1>1 DEF SetAt
    <2>2. loc[b].at \in 0 .. Len(node)
      BY <1>1, LocalsAre
    <2>3. QED  BY <1>1, <2>1, <2>2 DEF SeqFacts, Nil
  <1>3. node[k] \in Node /\ node[k].members \in Seq(Member)
    BY <1>1, <1>2 DEF SeqFacts, Node
  <1>4. i \in Wanted(b) /\ i \in DOMAIN node[k].members
    <2>1. DOMAIN node[k].members \in SUBSET Nat
      BY <1>3
    <2>2. Wanted(b) \subseteq DOMAIN node[k].members /\ Wanted(b) # {}
      BY DEF Wanted, StampMember
    <2>3. FirstOf(Wanted(b)) \in Wanted(b)
      BY <2>1, <2>2, LeastNat
    <2>4. QED  BY <2>2, <2>3
  <1>5. node[k].members[i] \in Member
    BY <1>3, <1>4
  <1>6. PICK y : y = [node[k].members[i] EXCEPT !.xmax = xid[b]]
    OBVIOUS
  <1>7. PICK M : M = [node[k].members EXCEPT ![i] = y]
    OBVIOUS
  <1>8. PICK x : x = [node[k] EXCEPT !.members = M]
    OBVIOUS
  <1>9. node' = [node EXCEPT ![k] = x]
    BY <1>2, <1>3, <1>4, <1>6, <1>7, <1>8 DEF StampMember
  <1>10. Written(k) /\ node'[k] = x
    BY <1>1, <1>2, <1>9, Patched
  <1>11. y.entry = node[k].members[i].entry /\ y.xmax = xid[b]
    BY <1>5, <1>6 DEF Member
  <1>12. /\ DOMAIN M = DOMAIN node[k].members /\ Len(M) = Len(node[k].members)
         /\ M[i] = y /\ \A l \in DOMAIN M : l # i => M[l] = node[k].members[l]
    <2>1. Len(node[k].members) \in Nat /\ DOMAIN node[k].members = 1 .. Len(node[k].members)
      BY <1>3
    <2>2. DOMAIN M = DOMAIN node[k].members
      BY <1>7
    <2>3. Len(M) = Len(node[k].members)
      <3>1. M = [m \in 1 .. Len(node[k].members) |-> M[m]]
        BY <1>7, <2>1
      <3>2. QED  BY <2>1, <3>1, LenDomain
    <2>4. QED  BY <1>4, <1>7, <2>2, <2>3
  <1>13. /\ x.members = M /\ x.tbl = node[k].tbl /\ x.owner = node[k].owner
         /\ x.next = node[k].next /\ x.prev = node[k].prev /\ x.xmax = node[k].xmax
    BY <1>3, <1>8 DEF Node
  <1>14. QED  BY <1>4, <1>10, <1>11, <1>12, <1>13

LEMMA WireNodes ==
    ASSUME IInv, NEW b \in Backend, Wire(b), NEW k, k = loc[b].job.up, k # Nil
    PROVE  /\ Written(k)
           /\ node'[k].tbl = node[k].tbl /\ node'[k].owner = node[k].owner
           /\ node'[k].members = node[k].members /\ node'[k].prev = node[k].prev
           /\ node'[k].xmax = node[k].xmax /\ node'[k].next = loc[b].at
  <1>1. SeqFacts /\ SetAt(b) /\ loc[b] \in Locals /\ pc[b] = "wire"
    BY AtStep DEF Wire
  <1>2. k \in DOMAIN node
    BY <1>1 DEF SetAt, Job, Lists
  <1>3. node[k] \in Node
    BY <1>1, <1>2 DEF SeqFacts
  <1>4. PICK x : x = [node[k] EXCEPT !.next = loc[b].at]
    OBVIOUS
  <1>5. node' = [node EXCEPT ![k] = x]
    BY <1>4 DEF Wire
  <1>6. Written(k) /\ node'[k] = x
    BY <1>1, <1>2, <1>5, Patched
  <1>7. QED  BY <1>3, <1>4, <1>6 DEF Node

\* The blocks of a job, one after another.
LEMMA BlocksAre ==
    ASSUME IInv, NEW j \in Job, NEW n \in Nat, NEW B, B = Blocks(j, n)
    PROVE  /\ Len(B) \in Nat \ {0} /\ DOMAIN B = 1 .. Len(B) /\ \E T : B \in Seq(T)
           /\ \A i \in 1 .. Len(B) :
                /\ B[i].tbl = ArrayList /\ B[i].owner = j.owner /\ B[i].xmax = NoXid
                /\ B[i].next = IF i = Len(B) THEN j.rest ELSE n + i + 1
  <1>4. PICK k \in Nat \ {0} :
          /\ B = [i \in 1 .. k |-> B[i]]
          /\ \A i \in 1 .. k :
               B[i] \in [tbl : {ArrayList}, owner : Vertex, members : Seq(Member) \ {<<>>},
                         next : {IF i = k THEN j.rest ELSE n + i + 1},
                         prev : {IF i = 1 THEN j.up ELSE n + i - 1}, xmax : {NoXid}]
    <2> DEFINE bs == Blocks(j, n)
    <2>1. PICK k \in Nat \ {0} :
            /\ bs = [i \in 1 .. k |-> bs[i]]
            /\ \A i \in 1 .. k :
                 bs[i] \in [tbl : {ArrayList}, owner : Vertex, members : Seq(Member) \ {<<>>},
                           next : {IF i = k THEN j.rest ELSE n + i + 1},
                           prev : {IF i = 1 THEN j.up ELSE n + i - 1}, xmax : {NoXid}]
      BY BlocksWritten
    <2>2. B = bs
      OBVIOUS
    <2> HIDE DEF bs
    <2>3. QED  BY <2>1, <2>2
  <1>5. DOMAIN B = 1 .. k /\ Len(B) = k /\ \E T : B \in Seq(T)
    <2>1. B = [i \in 1 .. k |-> B[i]]
      BY <1>4
    <2>2. QED  BY <2>1, LenDomain
  <1>6. \A i \in 1 .. k : B[i].owner = j.owner
    <2> DEFINE K == (Len(j.members) + PerBlock - 1) \div PerBlock
               r(i) == [tbl |-> ArrayList, owner |-> j.owner,
                        members |-> SubSeq(j.members, (i - 1) * PerBlock + 1,
                                      IF i = K THEN Len(j.members) ELSE i * PerBlock),
                        next |-> IF i = K THEN j.rest ELSE n + i + 1,
                        prev |-> IF i = 1 THEN j.up ELSE n + i - 1,
                        xmax |-> NoXid]
    <2>1. B = [i \in 1 .. K |-> r(i)]
      BY DEF Blocks
    <2>2. \A i : r(i).owner = j.owner
      OBVIOUS
    <2> HIDE DEF r, K
    <2>3. \A i \in DOMAIN B : B[i] = r(i)
      BY <2>1
    <2>4. QED  BY <1>5, <2>2, <2>3
  <1>7. /\ \A i \in 1 .. k : /\ B[i].tbl = ArrayList /\ B[i].xmax = NoXid
                             /\ B[i].next = IF i = k THEN j.rest ELSE n + i + 1
    BY <1>4
  <1>8. QED  BY <1>5, <1>6, <1>7

\* The blocks are there, before them the nodes there were.
LEMMA RewriteNodes ==
    ASSUME IInv, NEW b \in Backend, Rewrite(b), NEW j, j = loc[b].job,
           NEW B, B = Blocks(j, Len(node))
    PROVE  /\ Len(B) \in Nat \ {0} /\ DOMAIN B = 1 .. Len(B)
           /\ Len(node') = Len(node) + Len(B)
           /\ \A n : n \in DOMAIN node' <=>
                       n \in DOMAIN node \/ \E i \in 1 .. Len(B) : n = Len(node) + i
           /\ \A i \in 1 .. Len(B) :
                /\ Len(node) + i \notin DOMAIN node /\ node'[Len(node) + i] = B[i]
                /\ B[i].tbl = ArrayList /\ B[i].owner = j.owner /\ B[i].xmax = NoXid
                /\ B[i].next = IF i = Len(B) THEN j.rest ELSE Len(node) + i + 1
           /\ \A n \in DOMAIN node :
                /\ node'[n].tbl = node[n].tbl /\ node'[n].owner = node[n].owner
                /\ node'[n].members = node[n].members /\ node'[n].next = node[n].next
                /\ node'[n].prev = node[n].prev
                /\ node'[n].xmax = IF n = j.down THEN xid[b] ELSE node[n].xmax
  <1>1. SeqFacts /\ SetAt(b) /\ loc[b] \in Locals /\ pc[b] = "rewrite"
    BY AtStep DEF Rewrite
  <1> DEFINE n == Len(node)
             N == IF j.down = Nil THEN node ELSE [node EXCEPT ![j.down].xmax = xid[b]]
  <1>2. j \in Job /\ n \in Nat
    BY <1>1 DEF SetAt, SeqFacts
  <1>3. node' = N \o B
    BY DEF Rewrite
  <1>4. /\ Len(B) \in Nat \ {0} /\ DOMAIN B = 1 .. Len(B) /\ \E T : B \in Seq(T)
        /\ \A i \in 1 .. Len(B) :
                /\ B[i].tbl = ArrayList /\ B[i].owner = j.owner /\ B[i].xmax = NoXid
                /\ B[i].next = IF i = Len(B) THEN j.rest ELSE n + i + 1
    BY <1>2, BlocksAre
  <1>5. PICK k \in Nat \ {0} : k = Len(B)
    BY <1>4
  <1>7. /\ DOMAIN N = DOMAIN node
        /\ \A i \in DOMAIN node :
                /\ N[i].tbl = node[i].tbl /\ N[i].owner = node[i].owner
                /\ N[i].members = node[i].members /\ N[i].next = node[i].next
                /\ N[i].prev = node[i].prev
                /\ N[i].xmax = IF i = j.down THEN xid[b] ELSE node[i].xmax
    <2>1. DOMAIN node = 1 .. n /\ Nil \notin DOMAIN node
      BY <1>1 DEF SeqFacts, Nil
    <2>2. CASE j.down = Nil
      BY <2>1, <2>2
    <2>3. CASE j.down # Nil
      <3>1. j.down \in DOMAIN node
        BY <1>2, <2>3 DEF Job, Arrays
      <3>2. node[j.down] \in Node
        BY <1>1, <3>1 DEF SeqFacts
      <3>3. PICK x : x = [node[j.down] EXCEPT !.xmax = xid[b]]
        OBVIOUS
      <3>4. /\ x.tbl = node[j.down].tbl /\ x.owner = node[j.down].owner
            /\ x.members = node[j.down].members /\ x.next = node[j.down].next
            /\ x.prev = node[j.down].prev /\ x.xmax = xid[b]
        BY <3>2, <3>3 DEF Node
      <3>5. N = [node EXCEPT ![j.down] = x]
        BY <2>3, <3>3
      <3>6. /\ DOMAIN N = DOMAIN node /\ N[j.down] = x
            /\ \A i \in DOMAIN node : i # j.down => N[i] = node[i]
        BY <3>1, <3>5
      <3> HIDE DEF N
      <3>7. QED  BY <3>4, <3>6
    <2>4. QED  BY <2>2, <2>3
  <1>8. Len(N) = n /\ DOMAIN N = 1 .. n /\ \E S : N \in Seq(S)
    <2>1. N = [i \in 1 .. n |-> N[i]]
      <3>1. DOMAIN node = 1 .. n /\ node = [i \in 1 .. n |-> node[i]]
        BY <1>1 DEF SeqFacts, IInv, TypeOK
      <3>2. CASE j.down = Nil
        BY <3>1, <3>2
      <3>3. CASE j.down # Nil
        <4>1. PICK x : N = [node EXCEPT ![j.down] = x]
          BY <3>3
        <4> HIDE DEF N
        <4>2. QED  BY <3>1, <4>1
      <3>4. QED  BY <3>2, <3>3
    <2> HIDE DEF N
    <2>2. QED  BY <1>2, <2>1, LenDomain
  <1> HIDE DEF N
  <1>9. /\ Len(N \o B) = n + k /\ DOMAIN (N \o B) = 1 .. n + k
        /\ \A i \in 1 .. n + k : (N \o B)[i] = IF i <= n THEN N[i] ELSE B[i - n]
    <2>1. PICK S, T : N \in Seq(S) /\ B \in Seq(T)
      BY <1>4, <1>8
    <2> HIDE DEF n
    <2>2. QED  BY <1>5, <1>8, <2>1, ConcatAt
  <1>10. /\ Len(node') = n + k /\ DOMAIN node' = 1 .. n + k
         /\ \A i \in 1 .. n : node'[i] = N[i]
         /\ \A i \in 1 .. k : node'[n + i] = B[i]
    <2> HIDE DEF n
    <2>1. \A i \in 1 .. n : i \in 1 .. n + k /\ i <= n
      BY <1>2, <1>4
    <2>2. \A i \in 1 .. k : n + i \in 1 .. n + k /\ ~(n + i <= n) /\ (n + i) - n = i
      BY <1>2, <1>4
    <2>3. QED  BY <1>3, <1>9, <2>1, <2>2
  <1>11. DOMAIN node = 1 .. n
    BY <1>1 DEF SeqFacts
  <1>12. \A m : m \in DOMAIN node' <=> m \in DOMAIN node \/ \E i \in 1 .. k : m = n + i
    <2> HIDE DEF n
    <2>1. ASSUME NEW m \in 1 .. n + k PROVE m \in 1 .. n \/ \E i \in 1 .. k : m = n + i
      <3>1. CASE m <= n
        BY <1>2, <3>1
      <3>2. CASE m > n
        <4>1. m - n \in 1 .. k /\ m = n + (m - n)
          BY <1>2, <1>4, <3>2
        <4>2. QED  BY <4>1
      <3>3. QED  BY <1>2, <1>4, <3>1, <3>2
    <2>2. \A m \in 1 .. n : m \in 1 .. n + k
      BY <1>2, <1>4
    <2>3. \A i \in 1 .. k : n + i \in 1 .. n + k
      BY <1>2, <1>4
    <2>4. QED  BY <1>10, <1>11, <2>1, <2>2, <2>3
  <1>13. \A i \in 1 .. k : n + i \notin DOMAIN node
    <2> HIDE DEF n
    <2>1. QED  BY <1>2, <1>4, <1>11
  <1> HIDE DEF n
  <1>14. QED  BY <1>4, <1>5, <1>7, <1>10, <1>11, <1>12, <1>13 DEF n
-----------------------------------------------------------------------------
(* The steps of an insertion.                                                *)

\* Nodes that lead among themselves out of a set keep it so.
LEMMA FoundedOn ==
    ASSUME NEW N, NEW M, Links(N), Founded(N), Nil \notin DOMAIN M,
           \A n \in DOMAIN N : M[n].next = N[n].next,
           \A S \in SUBSET (DOMAIN M \ DOMAIN N) : S # {} => \E n \in S : M[n].next \notin S
    PROVE  Founded(M)
  <1>1. SUFFICES ASSUME NEW S \in SUBSET DOMAIN M, S # {} PROVE \E n \in S : M[n].next \notin S
    BY DEF Founded
  <1> DEFINE O == {n \in S : n \in DOMAIN N}
  <1>2. CASE O # {}
    <2>1. PICK n \in O : N[n].next \notin O
      BY <1>2 DEF Founded
    <2>2. M[n].next \in DOMAIN N \cup {Nil} /\ M[n].next \notin O
      BY <2>1 DEF Links
    <2>3. M[n].next \notin S
      BY <2>2
    <2>4. QED  BY <2>3
  <1>3. CASE O = {}
    <2>1. S \in SUBSET (DOMAIN M \ DOMAIN N)
      BY <1>3
    <2>2. QED  BY <1>1, <2>1
  <1>4. QED  BY <1>2, <1>3

LEMMA LinksThere == ASSUME SeqFacts PROVE Links(node)
  <1>1. Nil \notin DOMAIN node /\ \A n \in DOMAIN node : node[n] \in Node
    BY DEF SeqFacts, Nil
  <1>2. \A n \in DOMAIN node : node[n].next \in 0 .. Len(node)
    BY <1>1 DEF Node
  <1>3. QED  BY <1>1, <1>2 DEF Links, SeqFacts, Nil

LEMMA HeadsThere ==
    ASSUME IInv PROVE \A v \in Vertex : head[v] \in DOMAIN node \cup {Nil}
  <1>1. SeqFacts /\ head \in [Vertex -> 0 .. Len(node)]
    BY Facts DEF IInv, TypeOK
  <1>2. QED  BY <1>1 DEF SeqFacts, Nil

\* The table an insertion writes to is the youngest.
LEMMA ActiveIsLast ==
    ASSUME IInv, TablesInv, NEW b \in Backend, pc[b] \in Inserting
    PROVE  /\ HasRow(loc[b].tbl) /\ ~Done(loc[b].tbl)
           /\ \A t : HasRow(t) => t <= loc[b].tbl
  <1>1. xid[b] # NoXid /\ pc[b] # "addActive" /\ SeqFacts
    BY AtStep DEF Inserting
  <1>2. VisibleRows(b) = Present
    BY <1>1, VisibleIsPresent
  <1>3. PICK a \in DOMAIN meta : ActiveRows(b) = {a}
    BY <1>1, OneActiveRow DEF IInv
  <1>4. \A i \in Present : meta[i].active => i = a
    BY <1>2, <1>3 DEF ActiveRows
  <1>5. PICK i \in Present : meta[i].active /\ meta[i].tbl = loc[b].tbl
    BY DEF TablesInv, TablesSet, TableSet
  <1>6. \A j \in DOMAIN meta : meta[j].tbl \in Nat
    BY <1>1 DEF SeqFacts, MetaRow
  <1>7. \A j \in Present : j \in DOMAIN meta
    BY DEF Present
  <1>8. \A j \in Present : j # i => meta[j].tbl < meta[i].tbl
    BY <1>4, <1>5 DEF TablesInv, TablesOrdered
  <1>9. \A j \in Present : meta[j].tbl <= meta[i].tbl
    BY <1>5, <1>6, <1>7, <1>8
  <1>10. ~Done(loc[b].tbl)
    <2>1. SUFFICES ASSUME NEW j \in Present, meta[j].tbl = loc[b].tbl, meta[j].compacted
                   PROVE  FALSE
      BY DEF Done
    <2>2. j = i
      BY <1>5, <2>1 DEF TablesInv, TablesOrdered
    <2>3. QED  BY <1>5, <2>1, <2>2 DEF TablesInv, TablesOrdered
  <1>11. QED  BY <1>5, <1>9, <1>10 DEF HasRow

LEMMA ListsAppend ==
    ASSUME IInv, IInv', TablesInv, ListsInv, NEW b \in Backend, AppendRecord(b), Idle(b)
    PROVE  ListsInv'
  <1> DEFINE k == Len(node) + 1
             w == OwnerOf[loc[b].entry]
  <1>1. /\ pc[b] = "appendRecord"
        /\ UNCHANGED <<xact, xid, etup, meta, maker, head, calm>>
        /\ pc'[b] = IF loc[b].at = Nil THEN "setHead" ELSE "fixPrev"
        /\ loc'[b].entry = loc[b].entry /\ loc'[b].at = loc[b].at /\ Stays(b)
        /\ loc'[b].new = k /\ Others(b)
    BY AppendRecordEffect
  <1>2. /\ Len(node') = k /\ k \notin DOMAIN node
        /\ \A n : n \in DOMAIN node' <=> n \in DOMAIN node \/ n = k
        /\ \A n \in DOMAIN node : node'[n] = node[n]
        /\ node'[k] = Record(b)
    BY AppendRecordNodes
  <1>3. /\ SeqFacts /\ Links(node) /\ SetAt(b) /\ loc[b].tbl # ArrayList /\ loc[b].entry \in Entry
        /\ \A v \in Vertex : head[v] \in DOMAIN node \cup {Nil}
    BY <1>1, AtStep, LinksThere, HeadsThere DEF SetAt, Inserting
  <1>4. /\ node'[k].tbl = loc[b].tbl /\ node'[k].owner = w /\ Len(node'[k].members) = 1
        /\ node'[k].next = loc[b].at /\ node'[k].prev = Nil /\ node'[k].xmax = NoXid
    BY <1>2 DEF Record
  <1>5. loc[b].at = head[w] /\ w \in Vertex /\ loc[b].at \in DOMAIN node \cup {Nil}
    <2>1. w \in Vertex
      BY <1>3, CompactionAssumption
    <2>2. QED  BY <1>1, <1>3, <2>1 DEF ListsInv, InsertsSet, InsertSet
  <1>6. /\ \A n : n \in Lists' <=> n \in Lists \/ n = k
        /\ \A n : n \in Arrays' <=> n \in Arrays
    BY <1>2, <1>3, <1>4 DEF Lists, Arrays, TableOf
  <1>7. k \in Nat /\ \A n \in DOMAIN node : n \in Nat /\ n < k /\ n # k
    BY <1>2, <1>3 DEF SeqFacts
  <1>8. Idle(b)' /\ pc'[b] \in Linking /\ pc'[b] \notin Moving
    BY <1>1 DEF Idle, Others, Linking, Moving
  <1> HIDE DEF k, w
  <1>9. \A t : (HasRow(t)' <=> HasRow(t)) /\ (Done(t)' <=> Done(t))
    BY <1>1 DEF HasRow, Done, Present
  <1>10. \A v, n : n \in Standing(v)' <=> n \in Standing(v)
    <2>1. \A n : /\ ~Pending(n)
                 /\ Moved(n) <=> Done(TableOf(n))
      BY <1>1, StandingIs DEF Linking, Moving
    <2>2. \A n : /\ Pending(n)' <=> n = k
                 /\ Moved(n)' <=> Done(TableOf(n))'
      BY <1>1, <1>8, StandingIsNext
    <2>3. \A n \in DOMAIN node : Done(TableOf(n))' <=> Done(TableOf(n))
      BY <1>2, <1>9 DEF TableOf
    <2>4. \A n : n \in Lists => n \in DOMAIN node
      BY DEF Lists
    <2>5. QED  BY <1>2, <1>6, <1>7, <2>1, <2>2, <2>3, <2>4 DEF Standing
  <1>11. Founded(node')
    <2>2. Nil \notin DOMAIN node'
      BY <1>2, <1>3, <1>7 DEF Links, k, Nil, SeqFacts
    <2>1. \A S \in SUBSET (DOMAIN node' \ DOMAIN node) : S # {} => \E n \in S : node'[n].next \notin S
      <3>1. SUFFICES ASSUME NEW S \in SUBSET (DOMAIN node' \ DOMAIN node), S # {}
                     PROVE  \E n \in S : node'[n].next \notin S
        OBVIOUS
      <3>2. k \in S /\ \A n \in S : n = k
        BY <1>2, <3>1
      <3>3. node'[k].next \notin S
        BY <1>4, <1>5, <2>2, <3>1
      <3>4. QED  BY <3>2, <3>3
    <2>3. QED  BY <1>2, <1>3, <2>1, <2>2, FoundedOn DEF ListsInv
  <1>12. RecordsInOrder'
    <2>1. \A n \in Lists' : HasRow(TableOf(n))' /\ Len(node'[n].members) = 1 /\ node'[n].xmax = NoXid
      <3>1. SUFFICES ASSUME NEW n \in Lists'
                     PROVE  HasRow(TableOf(n))' /\ Len(node'[n].members) = 1 /\ node'[n].xmax = NoXid
        OBVIOUS
      <3>2. CASE n = k
        <4>1. HasRow(loc[b].tbl)
          BY <1>1, ActiveIsLast DEF Inserting
        <4>2. QED  BY <1>4, <1>9, <3>2, <4>1 DEF TableOf
      <3>3. CASE n \in Lists
        BY <1>2, <1>9, <3>3 DEF ListsInv, RecordsInOrder, Lists, TableOf
      <3>4. QED  BY <1>6, <3>2, <3>3
    <2>2. \A m, n \in Lists' : m <= n => TableOf(m)' <= TableOf(n)'
      <3>1. SUFFICES ASSUME NEW m \in Lists', NEW n \in Lists', m <= n
                     PROVE  node'[m].tbl <= node'[n].tbl
        BY DEF TableOf
      <3>2. CASE n = k /\ m \in Lists
        <4>1. HasRow(TableOf(m)) /\ node'[m] = node[m]
          BY <1>2, <3>2 DEF ListsInv, RecordsInOrder, Lists
        <4>2. \A t : HasRow(t) => t <= loc[b].tbl
          BY <1>1, ActiveIsLast DEF Inserting
        <4>3. QED  BY <1>4, <3>2, <4>1, <4>2 DEF TableOf
      <3>3. CASE n = k /\ m = k
        <4>1. loc[b].tbl \in Nat
          BY <1>1, AtStep, LocalsAre
        <4>2. QED  BY <1>4, <3>3, <4>1
      <3>4. CASE n \in Lists /\ m \in Lists
        BY <1>2, <3>1, <3>4 DEF ListsInv, RecordsInOrder, Lists, TableOf
      <3>5. CASE n \in Lists /\ m = k
        <4>1. n \in Nat /\ n < k /\ k \in Nat
          BY <1>7, <3>5 DEF Lists
        <4>2. QED  BY <3>1, <3>5, <4>1
      <3>6. QED  BY <1>6, <3>2, <3>3, <3>4, <3>5
    <2>3. QED  BY <2>1, <2>2 DEF RecordsInOrder
  <1>13. OwnersAgree'
    <2>1. ASSUME NEW n \in DOMAIN node', node'[n].next # Nil
          PROVE  node'[node'[n].next].owner = node'[n].owner
      <3>1. CASE n = k
        <4>1. node[head[w]].owner = w /\ head[w] \in DOMAIN node
          BY <1>4, <1>5, <2>1, <3>1 DEF ListsInv, OwnersAgree
        <4>2. QED  BY <1>2, <1>4, <1>5, <3>1, <4>1
      <3>2. CASE n \in DOMAIN node
        <4>1. node'[n] = node[n] /\ node[n].next \in DOMAIN node
          BY <1>2, <1>3, <2>1, <3>2 DEF Links
        <4>2. QED  BY <1>2, <2>1, <3>2, <4>1 DEF ListsInv, OwnersAgree
      <3>3. QED  BY <1>2, <3>1, <3>2
    <2>2. \A v \in Vertex : head'[v] # Nil => node'[head'[v]].owner = v
      BY <1>1, <1>2, <1>3 DEF ListsInv, OwnersAgree
    <2>3. QED  BY <2>1, <2>2 DEF OwnersAgree
  <1>14. ChainsStand'
    <2>1. SUFFICES ASSUME NEW v \in Vertex PROVE ChainStands(v)'
      BY DEF ChainsStand
    <2>2. PICK L : L = Standing(v) /\ L = Standing(v)'
      BY <1>10
    <2>3. ChainStands(v) /\ ~\E c \in Backend : pc[c] = "setHead"
      BY <1>1 DEF ListsInv, ChainsStand, Idle
    <2>4. \A n \in L : n \in DOMAIN node /\ node'[n] = node[n]
      BY <1>2, <2>2 DEF Standing, Lists
    <2>5. QED  BY <1>1, <1>6, <2>2, <2>3, <2>4 DEF ChainStands, Stands
  <1>15. ASSUME NEW c \in Backend PROVE InsertSet(c)' /\ JobSet(c)'
    <2>1. CASE c = b
      <3>1. Record(b)' = Record(b)
        BY <1>1 DEF Record, Stays
      <3>2. InsertSet(b)'
        BY <1>1, <1>2, <1>5, <3>1 DEF InsertSet, k, w
      <3>3. JobSet(b)'
        BY <1>1 DEF JobSet, Moving
      <3>4. QED  BY <2>1, <3>2, <3>3
    <2>2. CASE c # b
      BY <1>8, <2>2 DEF InsertSet, JobSet, Moving, Linking, Idle
    <2>3. QED  BY <2>1, <2>2
  <1>16. QED
    BY <1>11, <1>12, <1>13, <1>14, <1>15 DEF ListsInv, InsertsSet, JobsSet, Founded

\* A step that leaves all nodes where they are.
LEMMA InPlace ==
    ASSUME IInv, ListsInv, SeqFacts, UNCHANGED <<meta, head>>, DOMAIN node' = DOMAIN node,
           \A n \in DOMAIN node :
              /\ node'[n].tbl = node[n].tbl /\ node'[n].owner = node[n].owner
              /\ node'[n].next = node[n].next /\ node'[n].xmax = node[n].xmax
              /\ Len(node'[n].members) = Len(node[n].members)
    PROVE  /\ Founded(node') /\ RecordsInOrder' /\ OwnersAgree'
           /\ Lists' = Lists /\ Arrays' = Arrays
           /\ \A t : (HasRow(t)' <=> HasRow(t)) /\ (Done(t)' <=> Done(t))
  <1>1. Lists' = Lists /\ Arrays' = Arrays /\ \A n \in Lists : n \in DOMAIN node
    BY DEF Lists, Arrays, TableOf
  <1>2. Links(node)
    BY LinksThere
  <1>3. \A t : (HasRow(t)' <=> HasRow(t)) /\ (Done(t)' <=> Done(t))
    BY DEF HasRow, Done, Present
  <1>4. Founded(node')
    BY DEF ListsInv, Founded
  <1>5. RecordsInOrder'
    <2>1. ASSUME NEW n \in Lists'
          PROVE  HasRow(TableOf(n))' /\ Len(node'[n].members) = 1 /\ node'[n].xmax = NoXid
      <3>1. n \in Lists /\ node'[n].tbl = node[n].tbl
        BY <1>1
      <3>2. HasRow(TableOf(n))' <=> HasRow(TableOf(n))
        BY <1>3, <3>1 DEF TableOf
      <3>3. QED  BY <1>1, <3>1, <3>2 DEF ListsInv, RecordsInOrder
    <2>2. \A m, n \in Lists' : m <= n => TableOf(m)' <= TableOf(n)'
      BY <1>1 DEF ListsInv, RecordsInOrder, TableOf
    <2>3. QED  BY <2>1, <2>2 DEF RecordsInOrder
  <1>6. OwnersAgree'
    <2>1. ASSUME NEW n \in DOMAIN node, node[n].next # Nil
          PROVE  node'[node[n].next].owner = node'[n].owner
      BY <1>2, <2>1 DEF Links, ListsInv, OwnersAgree
    <2>2. ASSUME NEW v \in Vertex, head[v] # Nil PROVE node'[head[v]].owner = v
      <3>1. node[head[v]].owner = v
        BY <2>2 DEF ListsInv, OwnersAgree
      <3>2. head[v] \in DOMAIN node
        BY <2>2, HeadsThere
      <3>3. QED  BY <3>1, <3>2
    <2>3. QED  BY <2>1, <2>2 DEF OwnersAgree
  <1>7. QED  BY <1>1, <1>3, <1>4, <1>5, <1>6

LEMMA ListsFixPrev ==
    ASSUME IInv, IInv', TablesInv, ListsInv, NEW b \in Backend, FixPrev(b), Idle(b)
    PROVE  ListsInv'
  <1> DEFINE k == loc[b].at
             w == OwnerOf[loc[b].entry]
  <1>1. /\ pc[b] = "fixPrev"
        /\ UNCHANGED <<xact, xid, etup, meta, maker, head, loc, calm>>
        /\ pc'[b] = "setHead" /\ Others(b)
    BY FixPrevEffect
  <1>2. /\ Written(k)
        /\ node'[k].tbl = node[k].tbl /\ node'[k].owner = node[k].owner
        /\ node'[k].members = node[k].members /\ node'[k].next = node[k].next
        /\ node'[k].xmax = node[k].xmax /\ node'[k].prev = loc[b].new
    BY FixPrevNodes
  <1>3. /\ SeqFacts /\ Links(node) /\ loc[b].entry \in Entry /\ w \in Vertex /\ k # Nil
        /\ \A v \in Vertex : head[v] \in DOMAIN node \cup {Nil}
    <2>1. loc[b].entry \in Entry /\ k # Nil /\ SeqFacts
      BY <1>1, AtStep DEF SetAt, Inserting
    <2>2. QED  BY <2>1, LinksThere, HeadsThere, CompactionAssumption
  <1>4. k = head[w] /\ loc[b].new = Len(node) /\ node[loc[b].new] = Record(b)
    BY <1>1 DEF ListsInv, InsertsSet, InsertSet, Linking
  <1> HIDE DEF k, w
  <1>5. k # loc[b].new /\ loc[b].new \in DOMAIN node
    <2>1. node[loc[b].new].next = k
      BY <1>4 DEF Record, k
    <2>2. SUFFICES ASSUME k = loc[b].new PROVE FALSE
      BY <1>2, <1>3, <1>4 DEF SeqFacts, Written
    <2>3. {k} \in SUBSET DOMAIN node /\ {k} # {}
      BY <1>2 DEF Written
    <2>4. \E n \in {k} : node[n].next \notin {k}
      BY <2>3 DEF ListsInv, Founded
    <2>5. QED  BY <2>1, <2>2, <2>4
  <1>6. /\ DOMAIN node' = DOMAIN node
        /\ \A n \in DOMAIN node :
              /\ node'[n].tbl = node[n].tbl /\ node'[n].owner = node[n].owner
              /\ node'[n].next = node[n].next /\ node'[n].xmax = node[n].xmax
              /\ node'[n].members = node[n].members
              /\ n # k => node'[n].prev = node[n].prev
    BY <1>2 DEF Written
  <1>7. /\ Founded(node') /\ RecordsInOrder' /\ OwnersAgree' /\ Lists' = Lists /\ Arrays' = Arrays
        /\ \A t : (HasRow(t)' <=> HasRow(t)) /\ (Done(t)' <=> Done(t))
    BY <1>1, <1>3, <1>6, InPlace
  <1>8. Idle(b)' /\ pc'[b] \in Linking /\ pc'[b] \notin Moving /\ pc[b] \in Linking /\ pc[b] \notin Moving
    BY <1>1 DEF Idle, Others, Linking, Moving
  <1>9. \A v, n : n \in Standing(v)' <=> n \in Standing(v)
    <2>1. \A n : (Pending(n) <=> n = loc[b].new) /\ (Moved(n) <=> Done(TableOf(n)))
      BY <1>8, StandingIs
    <2>2. \A n : (Pending(n)' <=> n = loc[b].new) /\ (Moved(n)' <=> Done(TableOf(n))')
      BY <1>1, <1>8, StandingIsNext
    <2>3. \A n \in DOMAIN node : Done(TableOf(n))' <=> Done(TableOf(n))
      BY <1>6, <1>7 DEF TableOf
    <2>4. \A n : n \in Lists => n \in DOMAIN node
      BY DEF Lists
    <2>5. QED  BY <1>6, <1>7, <2>1, <2>2, <2>3, <2>4 DEF Standing
  <1>10. ChainsStand'
    <2>1. SUFFICES ASSUME NEW v \in Vertex PROVE ChainStands(v)'
      BY DEF ChainsStand
    <2>2. PICK L : L = Standing(v) /\ L = Standing(v)'
      BY <1>9
    <2>3. ChainStands(v) /\ ~\E c \in Backend : pc[c] = "setHead"
      BY <1>1 DEF ListsInv, ChainsStand, Idle
    <2>4. \A n \in L : n \in DOMAIN node /\ n \in Nat /\ node[n].owner = v
      BY <1>3, <2>2 DEF Standing, Lists, SeqFacts
    <2>5. ASSUME NEW n \in L, node[n].next \in L PROVE node[n].next # k
      <3>1. SUFFICES ASSUME node[n].next = k PROVE FALSE
        OBVIOUS
      <3>2. node[k].owner = v /\ node[k].owner = w
        BY <1>3, <1>4, <2>4, <2>5, <3>1 DEF ListsInv, OwnersAgree
      <3>3. k = head[v] /\ n <= head[v] /\ node[n].next < n /\ node[n].next \in Nat
        BY <1>4, <2>2, <2>3, <2>4, <2>5, <3>2 DEF ChainStands, Stands
      <3>4. QED  BY <2>4, <3>1, <3>3
    <2>6. \A n \in L : node[n].next \in L => node'[node[n].next].prev = n
      BY <1>6, <2>2, <2>3, <2>4, <2>5 DEF ChainStands
    <2>7. head[v] \in L => node'[head[v]].prev = Nil \/ head[v] = k
      BY <1>6, <2>2, <2>3, <2>4 DEF ChainStands
    <2>8. \E c \in Backend : pc'[c] = "setHead" /\ loc'[c].at = k
      BY <1>1 DEF k
    <2>9. Stands(node', L, head[v])
      BY <1>6, <2>2, <2>3, <2>4 DEF ChainStands, Stands
    <2>10. /\ L = {} => head[v] \in {Nil} \cup Arrays
           /\ \A n \in L : node'[n].next \in L \cup Arrays \cup {Nil}
      BY <1>6, <2>2, <2>3, <2>4 DEF ChainStands
    <2>11. \A n \in L : node'[n].next \in L => node'[node'[n].next].prev = n
      BY <1>6, <2>4, <2>6
    <2>12. QED  BY <1>1, <1>7, <2>2, <2>7, <2>8, <2>9, <2>10, <2>11 DEF ChainStands
  <1>11. ASSUME NEW c \in Backend PROVE InsertSet(c)' /\ JobSet(c)'
    <2>1. CASE c = b
      <3>1. Record(b)' = Record(b)
        BY <1>1 DEF Record
      <3>2. node'[loc[b].new] = Record(b) /\ Len(node') = Len(node)
        BY <1>2, <1>4, <1>5 DEF Written
      <3>3. InsertSet(b)'
        BY <1>1, <1>2, <1>4, <3>1, <3>2 DEF InsertSet, k, w
      <3>4. JobSet(b)'
        BY <1>1 DEF JobSet, Moving
      <3>5. QED  BY <2>1, <3>3, <3>4
    <2>2. CASE c # b
      BY <1>8, <2>2 DEF InsertSet, JobSet, Moving, Linking, Idle
    <2>3. QED  BY <2>1, <2>2
  <1>12. QED
    BY <1>7, <1>10, <1>11 DEF ListsInv, InsertsSet, JobsSet, Founded

LEMMA ListsStamp ==
    ASSUME IInv, IInv', TablesInv, ListsInv, NEW b \in Backend, StampMember(b), Idle(b)
    PROVE  ListsInv'
  <1> DEFINE k == loc[b].at
  <1>1. /\ pc[b] = "walk" /\ pc'[b] = "idle" /\ Others(b)
        /\ UNCHANGED <<xact, xid, etup, meta, maker, head, calm>>
    BY ReturnEffect DEF StampMember, NowAt
  <1>2. /\ Written(k)
        /\ node'[k].tbl = node[k].tbl /\ node'[k].owner = node[k].owner
        /\ node'[k].next = node[k].next /\ node'[k].prev = node[k].prev
        /\ node'[k].xmax = node[k].xmax
        /\ Len(node'[k].members) = Len(node[k].members)
    BY StampMemberNodes
  <1>3. SeqFacts
    BY AtStep
  <1> HIDE DEF k
  <1>4. /\ DOMAIN node' = DOMAIN node
        /\ \A n \in DOMAIN node :
              /\ node'[n].tbl = node[n].tbl /\ node'[n].owner = node[n].owner
              /\ node'[n].next = node[n].next /\ node'[n].xmax = node[n].xmax
              /\ Len(node'[n].members) = Len(node[n].members)
              /\ node'[n].prev = node[n].prev
    BY <1>2 DEF Written
  <1>5. /\ Founded(node') /\ RecordsInOrder' /\ OwnersAgree' /\ Lists' = Lists /\ Arrays' = Arrays
        /\ \A t : (HasRow(t)' <=> HasRow(t)) /\ (Done(t)' <=> Done(t))
    BY <1>1, <1>3, <1>4, InPlace
  <1>6. /\ Idle(b)' /\ pc'[b] \notin Linking /\ pc'[b] \notin Moving
        /\ pc[b] \notin Linking /\ pc[b] \notin Moving
    BY <1>1 DEF Idle, Others, Linking, Moving
  <1>7. \A v, n : n \in Standing(v)' <=> n \in Standing(v)
    <2>1. \A n : ~Pending(n) /\ (Moved(n) <=> Done(TableOf(n)))
      BY <1>6, StandingIs
    <2>2. \A n : ~Pending(n)' /\ (Moved(n)' <=> Done(TableOf(n))')
      BY <1>6, StandingIsNext
    <2>3. \A n \in DOMAIN node : Done(TableOf(n))' <=> Done(TableOf(n))
      BY <1>4, <1>5 DEF TableOf
    <2>4. \A n : n \in Lists => n \in DOMAIN node
      BY DEF Lists
    <2>5. QED  BY <1>4, <1>5, <2>1, <2>2, <2>3, <2>4 DEF Standing
  <1>8. ChainsStand'
    <2>1. SUFFICES ASSUME NEW v \in Vertex PROVE ChainStands(v)'
      BY DEF ChainsStand
    <2>2. PICK L : L = Standing(v) /\ L = Standing(v)'
      BY <1>7
    <2>3. ChainStands(v) /\ ~\E c \in Backend : pc[c] = "setHead"
      BY <1>1 DEF ListsInv, ChainsStand, Idle
    <2>4. \A n \in L : n \in DOMAIN node
      BY <2>2 DEF Standing, Lists
    <2>5. QED  BY <1>1, <1>4, <1>5, <2>2, <2>3, <2>4 DEF ChainStands, Stands
  <1>9. ASSUME NEW c \in Backend PROVE InsertSet(c)' /\ JobSet(c)'
    BY <1>1, <1>6 DEF InsertSet, JobSet, Moving, Linking, Idle
  <1>10. QED
    BY <1>5, <1>8, <1>9 DEF ListsInv, InsertsSet, JobsSet, Founded

LEMMA ListsSetHead ==
    ASSUME IInv, IInv', TablesInv, ListsInv, NEW b \in Backend, SetHead(b), Idle(b)
    PROVE  ListsInv'
  <1>0. PICK k, w : k = loc[b].new /\ w = OwnerOf[loc[b].entry]
    OBVIOUS
  <1>1. /\ pc[b] = "setHead" /\ pc'[b] = "idle" /\ Others(b)
        /\ UNCHANGED <<xact, xid, etup, meta, maker, node, calm>>
        /\ head' = [head EXCEPT ![w] = k]
    BY <1>0, ReturnEffect DEF SetHead, NowAt
  <1>2. /\ SeqFacts /\ Links(node) /\ loc[b].entry \in Entry /\ w \in Vertex /\ k # Nil
        /\ \A v \in Vertex : head[v] \in DOMAIN node \cup {Nil}
        /\ head \in [Vertex -> 0 .. Len(node)] /\ loc[b].tbl # ArrayList
    <2>1. /\ loc[b].entry \in Entry /\ k # Nil /\ SeqFacts /\ loc[b].tbl # ArrayList
          /\ head \in [Vertex -> 0 .. Len(node)]
      BY <1>0, <1>1, AtStep DEF SetAt, Inserting
    <2>2. QED  BY <1>0, <2>1, LinksThere, HeadsThere, CompactionAssumption
  <1>3. /\ loc[b].at = head[w] /\ k = Len(node) /\ node[k] = Record(b)
        /\ loc[b].at # Nil => node[loc[b].at].prev = k
    BY <1>0, <1>1 DEF ListsInv, InsertsSet, InsertSet, Linking
  <1>4. /\ node[k].tbl = loc[b].tbl /\ node[k].owner = w
        /\ node[k].next = head[w] /\ node[k].prev = Nil
    BY <1>0, <1>3 DEF Record
  <1>5. /\ k \in DOMAIN node /\ k \in Lists /\ k \in Nat
        /\ \A n \in DOMAIN node : n \in Nat /\ n <= k
        /\ head'[w] = k /\ \A v \in Vertex : v # w => head'[v] = head[v]
    BY <1>1, <1>2, <1>3, <1>4 DEF SeqFacts, Nil, Lists, TableOf
  <1>6. Lists' = Lists /\ Arrays' = Arrays /\ \A n : TableOf(n)' = TableOf(n)
    BY <1>1 DEF Lists, Arrays, TableOf
  <1>7. /\ Idle(b)' /\ pc'[b] \notin Linking /\ pc'[b] \notin Moving
        /\ pc[b] \in Linking /\ pc[b] \notin Moving
    BY <1>1 DEF Idle, Others, Linking, Moving
  <1>8. /\ \A v, n : n \in Standing(v)' <=> n \in Standing(v) \/ (v = w /\ n = k)
        /\ \A v : k \notin Standing(v)
    <2>1. \A n : (Pending(n) <=> n = k) /\ (Moved(n) <=> Done(TableOf(n)))
      BY <1>0, <1>7, StandingIs
    <2>2. \A n : ~Pending(n)' /\ (Moved(n)' <=> Done(TableOf(n))')
      BY <1>7, StandingIsNext
    <2>3. \A n : Done(TableOf(n))' <=> Done(TableOf(n))
      BY <1>1 DEF Done, Present, TableOf
    <2>4. ~Done(TableOf(k))
      BY <1>0, <1>1, <1>4, ActiveIsLast DEF Inserting, TableOf
    <2>5. QED  BY <1>1, <1>4, <1>5, <1>6, <2>1, <2>2, <2>3, <2>4 DEF Standing
  <1>9. Founded(node') /\ RecordsInOrder'
    BY <1>1, <1>6 DEF ListsInv, Founded, RecordsInOrder, HasRow, Present, TableOf
  <1>10. OwnersAgree'
    <2>1. \A n \in DOMAIN node' : node'[n].next # Nil => node'[node'[n].next].owner = node'[n].owner
      BY <1>1 DEF ListsInv, OwnersAgree
    <2>2. \A v \in Vertex : head'[v] # Nil => node'[head'[v]].owner = v
      BY <1>1, <1>4, <1>5 DEF ListsInv, OwnersAgree
    <2>3. QED  BY <2>1, <2>2 DEF OwnersAgree
  <1>11. ASSUME NEW v \in Vertex, v # w PROVE ChainStands(v)'
    <2>1. PICK L : L = Standing(v) /\ L = Standing(v)'
      BY <1>8, <1>11
    <2>2. ChainStands(v) /\ head'[v] = head[v]
      BY <1>5, <1>11 DEF ListsInv, ChainsStand
    <2>3. head[v] \in L => node[head[v]].prev = Nil
      <3>1. SUFFICES ASSUME head[v] \in L, NEW c \in Backend, pc[c] = "setHead", loc[c].at = head[v]
                     PROVE  FALSE
        BY <2>1, <2>2 DEF ChainStands
      <3>2. c = b /\ head[v] = head[w] /\ head[v] # Nil
        BY <1>2, <1>3, <2>1, <3>1 DEF Idle, Standing, Lists, Links
      <3>3. node[head[v]].owner = v /\ node[head[w]].owner = w
        BY <1>2, <3>2 DEF ListsInv, OwnersAgree
      <3>4. QED  BY <1>11, <3>2, <3>3
    <2>4. QED  BY <1>1, <1>6, <2>1, <2>2, <2>3 DEF ChainStands, Stands
  <1>12. ChainStands(w)'
    <2>1. PICK L, M : L = Standing(w) /\ M = Standing(w)'
      OBVIOUS
    <2>2. M = L \cup {k} /\ k \notin L
      BY <1>8, <2>1
    <2>3. /\ L # {} => head[w] \in L
          /\ L = {} => head[w] \in {Nil} \cup Arrays
          /\ \A n \in L : /\ n <= head[w]
                          /\ node[n].next \in L => node[n].next < n
                          /\ \A m \in L : m < n => node[n].next \in L /\ m <= node[n].next
                          /\ node[n].next \in L \cup Arrays \cup {Nil}
                          /\ node[n].next \in L => node[node[n].next].prev = n
      BY <1>2, <2>1 DEF ListsInv, ChainsStand, ChainStands, Stands
    <2>4. \A n \in L : n \in DOMAIN node /\ n \in Nat /\ n < k /\ n # Nil
      <3>1. \A n \in L : n \in DOMAIN node
        BY <2>1 DEF Standing, Lists
      <3>2. QED  BY <1>2, <1>5, <2>2, <3>1 DEF Links
    <2>5. \A n \in L : node[n].next # k
      BY <1>2, <1>5, <2>2, <2>3 DEF Arrays, Lists
    <2>6. Stands(node, M, k)
      <3>1. ASSUME NEW n \in M PROVE n <= k
        BY <1>5, <2>2, <2>4
      <3>2. ASSUME NEW n \in M, node[n].next \in M PROVE node[n].next < n
        <4>1. CASE n = k
          <5>1. head[w] \in M /\ head[w] # k
            <6>1. k \notin Arrays /\ k # Nil
              BY <1>2, <1>5 DEF Arrays, Lists
            <6>2. QED  BY <1>4, <2>2, <2>3, <3>2, <4>1, <6>1
          <5>2. QED  BY <1>4, <2>2, <2>4, <4>1, <5>1
        <4>2. CASE n \in L
          BY <2>2, <2>3, <2>5, <3>2, <4>2
        <4>3. QED  BY <2>2, <4>1, <4>2
      <3>3. ASSUME NEW n \in M, NEW m \in M, m < n PROVE node[n].next \in M /\ m <= node[n].next
        <4>1. m \in L
          BY <1>5, <2>2, <2>4, <3>3
        <4>2. CASE n = k
          BY <1>4, <2>2, <2>3, <4>1, <4>2
        <4>3. CASE n \in L
          BY <2>2, <2>3, <3>3, <4>1, <4>3
        <4>4. QED  BY <2>2, <4>2, <4>3
      <3>4. QED  BY <2>2, <3>1, <3>2, <3>3 DEF Stands
    <2>7. ASSUME NEW n \in M
          PROVE  /\ node[n].next \in M \cup Arrays \cup {Nil}
                 /\ node[n].next \in M => node[node[n].next].prev = n
      <3>1. CASE n = k
        <4>1. node[k].next \in L \cup Arrays \cup {Nil}
          BY <1>4, <2>3
        <4>2. node[k].next \in L => node[node[k].next].prev = k
          BY <1>3, <1>4, <2>4
        <4>3. node[k].next # k
          <5>1. k \notin Arrays /\ k # Nil
            BY <1>2, <1>5 DEF Arrays, Lists
          <5>2. QED  BY <2>2, <4>1, <5>1
        <4>4. QED  BY <2>2, <3>1, <4>1, <4>2, <4>3
      <3>2. CASE n \in L
        BY <2>2, <2>3, <2>5, <3>2
      <3>3. QED  BY <2>2, <3>1, <3>2
    <2>8. QED  BY <1>1, <1>4, <1>5, <1>6, <2>1, <2>2, <2>6, <2>7 DEF ChainStands
  <1>13. ASSUME NEW c \in Backend PROVE InsertSet(c)' /\ JobSet(c)'
    BY <1>1, <1>7 DEF InsertSet, JobSet, Moving, Linking, Idle
  <1>14. QED
    BY <1>9, <1>10, <1>11, <1>12, <1>13 DEF ListsInv, InsertsSet, JobsSet, ChainsStand, Founded
-----------------------------------------------------------------------------
(* The steps of a compaction.                                                *)

\* A step that writes no node, and moves none.
LEMMA ListsSame ==
    ASSUME ListsInv, NEW b \in Backend, Idle(b), Others(b), UNCHANGED <<node, head>>,
           \A t : HasRow(t) => HasRow(t)',
           \A v, n : n \in Standing(v)' <=> n \in Standing(v),
           pc[b] # "setHead", InsertSet(b)', JobSet(b)'
    PROVE  ListsInv'
  <1>1. Idle(b)' /\ Lists' = Lists /\ Arrays' = Arrays /\ \A n : TableOf(n)' = TableOf(n)
    BY DEF Idle, Others, Lists, Arrays, TableOf
  <1>2. Founded(node)' /\ RecordsInOrder' /\ OwnersAgree'
    BY <1>1 DEF ListsInv, RecordsInOrder, OwnersAgree, Founded
  <1>3. ChainsStand'
    <2>1. SUFFICES ASSUME NEW v \in Vertex PROVE ChainStands(v)'
      BY DEF ChainsStand
    <2>2. ChainStands(v) /\ ~\E c \in Backend : pc[c] = "setHead"
      BY DEF ListsInv, ChainsStand, Idle
    <2>3. PICK L : L = Standing(v) /\ L = Standing(v)'
      <3>1. PICK L, M : L = Standing(v) /\ M = Standing(v)'
        OBVIOUS
      <3>2. \A n : n \in M <=> n \in L
        BY <3>1
      <3>3. M = L
        BY <3>2
      <3>4. QED  BY <3>1, <3>3
    <2>4. QED  BY <1>1, <2>2, <2>3 DEF ChainStands, Stands
  <1>4. ASSUME NEW c \in Backend PROVE InsertSet(c)' /\ JobSet(c)'
    <2>1. CASE c = b
      BY <2>1
    <2>2. CASE c # b
      BY <1>1, <2>2 DEF InsertSet, JobSet, Moving, Linking, Idle
    <2>3. QED  BY <2>1, <2>2
  <1>5. QED  BY <1>2, <1>3, <1>4 DEF ListsInv, InsertsSet, JobsSet

LEMMA GatheredQuiet ==
    ASSUME IInv, UNCHANGED node, NEW v, NEW t
    PROVE  /\ Gathered(v, t)' = Gathered(v, t)
           /\ \A n : n \in RecordsOf(v, t)' <=> n \in RecordsOf(v, t)
  <1>1. SeqFacts
    BY Facts DEF IInv
  <1>2. \A n : n \in RecordsOf(v, t)' <=> n \in RecordsOf(v, t)
    BY DEF RecordsOf
  <1>3. QED  BY <1>1, <1>2, GatheredSame

LEMMA IsGatheredQuiet ==
    ASSUME IInv, UNCHANGED node, NEW j, NEW t
    PROVE  IsGathered(j, t)' <=> IsGathered(j, t)
  <1>1. PICK v : v = j.owner
    OBVIOUS
  <1>2. Gathered(v, t)' = Gathered(v, t) /\ (RecordsOf(v, t)' = {} <=> RecordsOf(v, t) = {})
    BY GatheredQuiet
  <1>3. QED  BY <1>1, <1>2 DEF IsGathered

LEMMA GatheredOwner == ASSUME NEW v, NEW t PROVE Gathered(v, t).owner = v
  BY DEF Gathered

LEMMA MergedOwner == ASSUME NEW j \in Job PROVE Merged(j).owner = j.owner
  BY DEF Merged, Job

LEMMA ListsScan ==
    ASSUME IInv, IInv', TablesInv, ListsInv, NEW b \in Backend, Scan(b), Idle(b)
    PROVE  ListsInv'
  <1>1. PICK V, t : V = {node[n].owner : n \in {k \in DOMAIN node : TableOf(k) = loc[b].tbl}}
                    /\ t = loc[b].tbl
    OBVIOUS
  <1>2. /\ pc[b] = "scan"
        /\ UNCHANGED <<xact, xid, etup, meta, maker, node, head, calm>>
        /\ NowAt(b, IF V = {} THEN "findRow" ELSE "merge", loc[b].entry, loc[b].tbl, loc[b].at,
                 loc[b].new, loc[b].row, {Gathered(v, loc[b].tbl) : v \in V}, loc[b].job, loc[b].ddl)
        /\ Others(b)
    BY <1>1, ScanEffect
  <1>3. /\ pc'[b] \in {"findRow", "merge"} /\ (pc'[b] = "findRow" => V = {})
        /\ loc'[b].batch = {Gathered(v, t) : v \in V} /\ loc'[b].tbl = t
    BY <1>1, <1>2 DEF NowAt
  <1>4. ToMove(b)' = V
    <2>1. ToMove(b)' = {j.owner : j \in loc'[b].batch}
      BY <1>3 DEF ToMove
    <2>2. \A v \in V : Gathered(v, t).owner = v
      BY GatheredOwner
    <2>3. QED  BY <1>3, <2>1, <2>2
  <1>5. \A v \in V : RecordsOf(v, t) # {}
    BY <1>1 DEF RecordsOf, TableOf
  <1>6. /\ Idle(b)' /\ pc'[b] \notin Linking /\ pc'[b] \in Moving
        /\ pc[b] \notin Linking /\ pc[b] \notin Moving
    BY <1>2, <1>3 DEF Idle, Others, Linking, Moving
  <1>7. \A v, n : n \in Standing(v)' <=> n \in Standing(v)
    <2>1. \A n : ~Pending(n) /\ (Moved(n) <=> Done(TableOf(n)))
      BY <1>6, StandingIs
    <2>2. \A n : ~Pending(n)' /\ (Moved(n)' <=> Done(TableOf(n))' \/ (node[n].tbl = t /\ node[n].owner \notin V))
      BY <1>2, <1>3, <1>4, <1>6, StandingIsNext
    <2>3. \A n : Done(TableOf(n))' <=> Done(TableOf(n))
      BY <1>2 DEF Done, Present, TableOf
    <2>4. \A n \in DOMAIN node : node[n].tbl = t => node[n].owner \in V
      BY <1>1 DEF TableOf
    <2>5. QED  BY <1>2, <2>1, <2>2, <2>3, <2>4 DEF Standing, Lists, TableOf
  <1>8. InsertSet(b)'
    BY <1>3 DEF InsertSet, Linking
  <1>9. JobSet(b)'
    <2>1. ASSUME NEW j \in loc'[b].batch PROVE IsGathered(j, t)'
      <3>1. PICK v \in V : j = Gathered(v, t)
        BY <1>3, <2>1
      <3>2. j.owner = v
        BY <3>1, GatheredOwner
      <3>3. IsGathered(j, t)
        BY <1>5, <3>1, <3>2 DEF IsGathered
      <3>4. QED  BY <1>2, <3>3, IsGatheredQuiet
    <2>2. pc'[b] = "findRow" => loc'[b].batch = {}
      BY <1>3
    <2>3. QED  BY <1>3, <2>1, <2>2 DEF JobSet
  <1>10. \A t2 : HasRow(t2) => HasRow(t2)'
    BY <1>2 DEF HasRow, Present
  <1>11. QED  BY <1>2, <1>7, <1>8, <1>9, <1>10, ListsSame

LEMMA ListsMerge ==
    ASSUME IInv, IInv', TablesInv, ListsInv, NEW b \in Backend, Merge(b), Idle(b)
    PROVE  ListsInv'
  <1>1. /\ pc[b] = "merge"
        /\ UNCHANGED <<xact, xid, etup, meta, maker, node, head, calm>>
        /\ Others(b)
    BY MergeEffect
  <1>2. PICK j \in loc[b].batch :
                NowAt(b, "rewrite", loc[b].entry, loc[b].tbl, loc[b].at, loc[b].new,
                      loc[b].row, loc[b].batch \ {j}, Merged(j), loc[b].ddl)
    BY MergeEffect
  <1>3. PICK t, B : t = loc[b].tbl /\ B = loc[b].batch
    OBVIOUS
  <1>4. /\ pc'[b] = "rewrite" /\ loc'[b].tbl = t /\ loc'[b].batch = B \ {j} /\ loc'[b].job = Merged(j)
    BY <1>2, <1>3 DEF NowAt
  <1>5. j \in B /\ j \in Job /\ \A g \in B : g \in Job
    <2>1. loc[b] \in Locals
      BY AtStep
    <2>2. QED  BY <1>3, <2>1, LocalsAre
  <1>6. /\ \A g \in B : IsGathered(g, t)
        /\ \A g \in B : g.owner = j.owner => g = j
    BY <1>1, <1>3, <1>5 DEF ListsInv, JobsSet, JobSet, Moving, IsGathered
  <1>7. Merged(j).owner = j.owner
    BY <1>5, MergedOwner
  <1>8. \A v : v \in ToMove(b)' <=> v \in ToMove(b)
    <2>1. ToMove(b)' = {g.owner : g \in B \ {j}} \cup {j.owner}
      BY <1>4, <1>7 DEF ToMove
    <2>2. ToMove(b) = {g.owner : g \in B}
      BY <1>1, <1>3 DEF ToMove
    <2>3. QED  BY <1>5, <2>1, <2>2
  <1>9. /\ Idle(b)' /\ pc'[b] \notin Linking /\ pc'[b] \in Moving
        /\ pc[b] \notin Linking /\ pc[b] \in Moving
    BY <1>1, <1>4 DEF Idle, Others, Linking, Moving
  <1>10. \A v, n : n \in Standing(v)' <=> n \in Standing(v)
    <2>1. \A n : ~Pending(n) /\ (Moved(n) <=> Done(TableOf(n)) \/ (TableOf(n) = t /\ node[n].owner \notin ToMove(b)))
      BY <1>3, <1>9, StandingIs
    <2>2. \A n : ~Pending(n)' /\ (Moved(n)' <=> Done(TableOf(n))' \/ (node[n].tbl = t /\ node[n].owner \notin ToMove(b)'))
      BY <1>1, <1>4, <1>9, StandingIsNext
    <2>3. \A n : Done(TableOf(n))' <=> Done(TableOf(n))
      BY <1>1 DEF Done, Present, TableOf
    <2>4. QED  BY <1>1, <1>8, <2>1, <2>2, <2>3 DEF Standing, Lists, TableOf
  <1>11. InsertSet(b)'
    BY <1>4 DEF InsertSet, Linking
  <1>12. JobSet(b)'
    <2>1. \A g \in B : IsGathered(g, t)'
      BY <1>1, <1>6, IsGatheredQuiet
    <2>2. Merged(j)' = Merged(j)
      BY <1>1 DEF Merged
    <2>3. Job' = Job
      BY <1>1 DEF Job, Member, Lists, Arrays, TableOf
    <2>4. \E g \in Job' : IsGathered(g, t)' /\ loc'[b].job = Merged(g)' /\ loc'[b].job.owner = g.owner
      BY <1>4, <1>5, <1>7, <2>1, <2>2, <2>3
    <2>5. \A g \in B \ {j} : g.owner # Merged(j).owner
      BY <1>6, <1>7
    <2>6. QED  BY <1>4, <2>1, <2>4, <2>5 DEF JobSet, Moving
  <1>13. \A t2 : HasRow(t2) => HasRow(t2)'
    BY <1>1 DEF HasRow, Present
  <1>14. QED  BY <1>1, <1>10, <1>11, <1>12, <1>13, ListsSame

LEMMA ListsFindRow ==
    ASSUME IInv, IInv', TablesInv, ListsInv, NEW b \in Backend, FindRow(b), Idle(b)
    PROVE  ListsInv'
  <1>1. /\ pc[b] = "findRow"
        /\ UNCHANGED <<xact, xid, etup, meta, maker, node, head, calm>>
        /\ NowAt(b, "mark", loc[b].entry, loc[b].tbl, loc[b].at, loc[b].new,
                    FirstOf(RowsOf(b, loc[b].tbl)), loc[b].batch, loc[b].job, loc[b].ddl)
        /\ Others(b)
    BY FindRowEffect
  <1>2. PICK t : t = loc[b].tbl
    OBVIOUS
  <1>3. pc'[b] = "mark" /\ loc'[b].tbl = t /\ loc'[b].batch = loc[b].batch
    BY <1>1, <1>2 DEF NowAt
  <1>4. loc[b].batch = {}
    BY <1>1 DEF ListsInv, JobsSet, JobSet
  <1>5. /\ Idle(b)' /\ pc'[b] \notin Linking /\ pc'[b] \in Moving
        /\ pc[b] \notin Linking /\ pc[b] \in Moving
    BY <1>1, <1>3 DEF Idle, Others, Linking, Moving
  <1>6. \A v, n : n \in Standing(v)' <=> n \in Standing(v)
    <2>1. \A n : ~Pending(n) /\ (Moved(n) <=> Done(TableOf(n)) \/ (TableOf(n) = t /\ node[n].owner \notin ToMove(b)))
      BY <1>2, <1>5, StandingIs
    <2>2. \A n : ~Pending(n)' /\ (Moved(n)' <=> Done(TableOf(n))' \/ (node[n].tbl = t /\ node[n].owner \notin ToMove(b)'))
      BY <1>1, <1>3, <1>5, StandingIsNext
    <2>3. \A n : Done(TableOf(n))' <=> Done(TableOf(n))
      BY <1>1 DEF Done, Present, TableOf
    <2>4. ToMove(b) = {} /\ ToMove(b)' = {}
      BY <1>1, <1>3, <1>4 DEF ToMove
    <2>5. QED  BY <1>1, <2>1, <2>2, <2>3, <2>4 DEF Standing, Lists, TableOf
  <1>7. InsertSet(b)' /\ JobSet(b)'
    BY <1>3, <1>4 DEF InsertSet, Linking, JobSet
  <1>8. \A t2 : HasRow(t2) => HasRow(t2)'
    BY <1>1 DEF HasRow, Present
  <1>9. QED  BY <1>1, <1>6, <1>7, <1>8, ListsSame

LEMMA ListsMark ==
    ASSUME IInv, IInv', TablesInv, ListsInv, NEW b \in Backend, Mark(b), Idle(b)
    PROVE  ListsInv'
  <1>1. PICK t : t = loc[b].tbl
    OBVIOUS
  <1>2. /\ pc[b] = "mark" /\ pc'[b] = "idle" /\ Others(b)
        /\ UNCHANGED <<xact, xid, etup, maker, node, head, calm>>
    BY ReturnEffect DEF Mark, NowAt
  <1>3. \A x : (HasRow(x) => HasRow(x)') /\ (Done(x)' <=> Done(x) \/ x = t)
    BY <1>1, TablesMark
  <1>4. ToMove(b) = {}
    BY <1>2 DEF ListsInv, JobsSet, JobSet, ToMove
  <1>5. /\ Idle(b)' /\ pc'[b] \notin Linking /\ pc'[b] \notin Moving
        /\ pc[b] \notin Linking /\ pc[b] \in Moving
    BY <1>2 DEF Idle, Others, Linking, Moving
  <1>6. \A v, n : n \in Standing(v)' <=> n \in Standing(v)
    <2>1. \A n : ~Pending(n) /\ (Moved(n) <=> Done(TableOf(n)) \/ TableOf(n) = t)
      BY <1>1, <1>4, <1>5, StandingIs
    <2>2. \A n : ~Pending(n)' /\ (Moved(n)' <=> Done(TableOf(n))')
      BY <1>5, StandingIsNext
    <2>3. \A n : Done(TableOf(n))' <=> Done(TableOf(n)) \/ TableOf(n) = t
      BY <1>2, <1>3 DEF TableOf
    <2>4. QED  BY <1>2, <2>1, <2>2, <2>3 DEF Standing, Lists, TableOf
  <1>7. InsertSet(b)' /\ JobSet(b)'
    BY <1>2 DEF InsertSet, Linking, JobSet, Moving
  <1>8. QED  BY <1>2, <1>3, <1>6, <1>7, ListsSame

\* The records of a vertex that has still to be moved stand in its chain.
LEMMA ToMoveStands ==
    ASSUME IInv, TablesInv, ListsInv, NEW b \in Backend, Idle(b), pc[b] \in Moving,
           NEW t, t = loc[b].tbl, NEW v \in ToMove(b)
    PROVE  IsOldest(t) /\ t # ArrayList /\ RecordsOf(v, t) \subseteq Standing(v)
  <1>1. IsOldest(t) /\ pc[b] \notin Linking
    BY DEF TablesInv, TablesSet, TableSet, Moving, Linking, Compacting
  <1>2. PICK i \in Present : meta[i].tbl = t /\ ~meta[i].compacted
    BY <1>1 DEF IsOldest
  <1>3. t # ArrayList
    <2>1. SeqFacts /\ i \in DOMAIN meta
      BY AtStep DEF Present
    <2>2. t \in DOMAIN maker
      BY <1>2, <2>1 DEF SeqFacts, MetaRow
    <2>3. QED  BY <2>1, <2>2 DEF SeqFacts, ArrayList
  <1>4. ~Done(t)
    BY <1>2 DEF Done, TablesInv, TablesOrdered
  <1>5. \A n \in RecordsOf(v, t) : ~Pending(n) /\ ~Moved(n)
    BY <1>1, <1>4, StandingIs DEF RecordsOf, TableOf
  <1>6. \A n \in RecordsOf(v, t) : n \in Lists /\ node[n].owner = v
    BY <1>3 DEF RecordsOf, Lists, TableOf
  <1>7. QED  BY <1>1, <1>3, <1>5, <1>6 DEF Standing

\* The job in hand: the last records of a chain, the first array block below
\* them merged in.
JobIs(j, w, L, R, U) ==
    /\ w \in Vertex /\ j \in Job /\ w = j.owner
    /\ L \subseteq Lists /\ R \subseteq L /\ R # {} /\ L \in SUBSET (1 .. Len(node))
    /\ \A n : n \in U <=> n \in L /\ n \notin R
    /\ \A r \in R, u \in U : r < u
    /\ j.up = IF U = {} THEN Nil ELSE FirstOf(U)
    /\ j.down = Bottom(node, L, head[w])
    /\ j.down # Nil => j.down \in Arrays /\ node[j.down].owner = w /\ j.rest = node[j.down].next
    /\ j.down = Nil => j.rest = Nil
    /\ j.rest # Nil => j.rest \in Arrays /\ node[j.rest].owner = w

LEMMA JobInHand ==
    ASSUME IInv, TablesInv, ListsInv, NEW b \in Backend, Idle(b), pc[b] \in {"rewrite", "wire"},
           NEW j, j = loc[b].job, NEW w, w = j.owner, NEW t, t = loc[b].tbl,
           NEW L, L = Standing(w), NEW R, R = RecordsOf(w, t), NEW U, U = Above(w, t)
    PROVE  JobIs(j, w, L, R, U) /\ IsOldest(t) /\ t # ArrayList
  <1>1. j \in Job /\ SeqFacts /\ w \in Vertex
    <2>1. j \in Job /\ SeqFacts
      BY AtStep DEF SetAt
    <2>2. QED  BY <2>1 DEF Job
  <1>2. w \in ToMove(b) /\ pc[b] \in Moving
    BY DEF ToMove, Moving
  <1>3. IsOldest(t) /\ t # ArrayList /\ R \subseteq L
    BY <1>2, ToMoveStands
  <1>4. PICK g \in Job : IsGathered(g, t) /\ j = Merged(g) /\ w = g.owner
    BY DEF ListsInv, JobsSet, JobSet
  <1>5. g = Gathered(w, t) /\ R # {}
    BY <1>4 DEF IsGathered
  <1>6. \A c \in Backend : pc[c] # "setHead"
    BY DEF Idle
  <1>7. /\ Up(R, t) = IF U = {} THEN Nil ELSE FirstOf(U)
        /\ Down(R, t) = Bottom(node, L, head[w])
    BY <1>1, <1>3, <1>5, <1>6, GatheredIs
  <1>8. g.up = Up(R, t) /\ g.down = Down(R, t) /\ g.rest = Nil
    BY <1>5 DEF Gathered
  <1>9. /\ j.up = g.up /\ j.down = g.down
        /\ j.rest = IF g.down = Nil THEN Nil ELSE node[g.down].next
    BY <1>4, <1>8 DEF Merged, Job
  <1>10. /\ L \subseteq Lists /\ L \in SUBSET (1 .. Len(node)) /\ L \in SUBSET Nat
         /\ \A r \in R, u \in U : r < u
         /\ \A n \in L : n \in R <=> node[n].tbl = t
    BY <1>1, <1>3, StandingAbove
  <1>11. \A n : n \in U <=> n \in L /\ n \notin R
    BY <1>10 DEF Above, TableOf
  <1>12. ASSUME j.down # Nil PROVE j.down \in Arrays /\ node[j.down].owner = w
    <2>1. j.down \in Arrays
      BY <1>1, <1>12 DEF Job
    <2>2. L # {} /\ FirstOf(L) \in L
      BY <1>3, <1>5, <1>10, LeastNat
    <2>3. j.down = node[FirstOf(L)].next
      BY <1>7, <1>8, <1>9, <2>2 DEF Bottom
    <2>4. FirstOf(L) \in DOMAIN node /\ node[FirstOf(L)].owner = w
      BY <2>2 DEF Standing, Lists
    <2>5. node[j.down].owner = w
      BY <1>12, <2>3, <2>4 DEF ListsInv, OwnersAgree
    <2>6. QED  BY <2>1, <2>5
  <1>13. ASSUME j.rest # Nil PROVE j.rest \in Arrays /\ node[j.rest].owner = w
    <2>1. j.rest \in Arrays
      BY <1>1, <1>13 DEF Job
    <2>2. j.down # Nil /\ j.rest = node[j.down].next
      BY <1>9, <1>13
    <2>3. j.down \in DOMAIN node /\ node[j.down].owner = w
      BY <1>12, <2>2 DEF Arrays
    <2>4. node[j.rest].owner = w
      BY <1>13, <2>2, <2>3 DEF ListsInv, OwnersAgree
    <2>5. QED  BY <2>1, <2>4
  <1>14. j.down # Nil => j.rest = node[j.down].next
    BY <1>9
  <1>15. j.down = Nil => j.rest = Nil
    BY <1>9
  <1>16. QED
    BY <1>1, <1>3, <1>5, <1>7, <1>8, <1>9, <1>10, <1>11, <1>12, <1>13, <1>14, <1>15 DEF JobIs

\* Nodes of other tables are added.
LEMMA IsGatheredGrows ==
    ASSUME SeqFacts, NEW t,
           \A n \in DOMAIN node :
                /\ n \in DOMAIN node'
                /\ node'[n].tbl = node[n].tbl /\ node'[n].owner = node[n].owner
                /\ node'[n].members = node[n].members /\ node'[n].next = node[n].next
                /\ node'[n].prev = node[n].prev,
           \A n \in DOMAIN node' : n \in DOMAIN node \/ node'[n].tbl # t,
           NEW j, IsGathered(j, t)
    PROVE  IsGathered(j, t)'
  <1>1. PICK v : v = j.owner
    OBVIOUS
  <1>2. \A n : n \in RecordsOf(v, t)' <=> n \in RecordsOf(v, t)
    BY DEF RecordsOf
  <1>3. \A n \in DOMAIN node : /\ node[n].next # Nil => node[n].next \in DOMAIN node
                               /\ node[n].prev # Nil => node[n].prev \in DOMAIN node
    BY DEF SeqFacts, Node, Nil
  <1>4. \A n \in RecordsOf(v, t) : n \in DOMAIN node
    BY DEF RecordsOf
  <1>5. \A n \in RecordsOf(v, t) :
              /\ node'[n].members = node[n].members
              /\ node'[n].next = node[n].next /\ node'[n].prev = node[n].prev
              /\ node[n].next # Nil => node'[node[n].next].tbl = node[node[n].next].tbl
              /\ node[n].prev # Nil => node'[node[n].prev].tbl = node[node[n].prev].tbl
    BY <1>3, <1>4
  <1>6. Gathered(v, t)' = Gathered(v, t)
    BY <1>2, <1>5, GatheredSame
  <1>7. QED  BY <1>1, <1>2, <1>6 DEF IsGathered

LEMMA ListsRewrite ==
    ASSUME IInv, IInv', TablesInv, ListsInv, NEW b \in Backend, Rewrite(b), Idle(b)
    PROVE  ListsInv'
  <1>0. PICK j, w, t, k : j = loc[b].job /\ w = j.owner /\ t = loc[b].tbl /\ k = Len(node)
    OBVIOUS
  <1>1. /\ pc[b] = "rewrite"
        /\ UNCHANGED <<xact, xid, etup, meta, maker, head, calm>>
        /\ pc'[b] = "wire" /\ loc'[b].at = k + 1 /\ loc'[b].batch = loc[b].batch
        /\ loc'[b].job = j /\ loc'[b].tbl = t /\ Others(b)
    BY <1>0, RewriteEffect DEF NowAt
  <1>2. PICK L, R, U : L = Standing(w) /\ R = RecordsOf(w, t) /\ U = Above(w, t)
    OBVIOUS
  <1>3. JobIs(j, w, L, R, U) /\ IsOldest(t) /\ t # ArrayList
    BY <1>0, <1>1, <1>2, JobInHand
  <1>4. PICK B : B = Blocks(j, k)
    OBVIOUS
  <1>50. /\ Len(B) \in Nat \ {0} /\ DOMAIN B = 1 .. Len(B)
         /\ Len(node') = k + Len(B)
         /\ \A n : n \in DOMAIN node' <=>
                     n \in DOMAIN node \/ \E i \in 1 .. Len(B) : n = k + i
         /\ \A i \in 1 .. Len(B) :
              /\ k + i \notin DOMAIN node /\ node'[k + i] = B[i]
              /\ B[i].tbl = ArrayList /\ B[i].owner = j.owner /\ B[i].xmax = NoXid
              /\ B[i].next = IF i = Len(B) THEN j.rest ELSE k + i + 1
         /\ \A n \in DOMAIN node :
              /\ node'[n].tbl = node[n].tbl /\ node'[n].owner = node[n].owner
              /\ node'[n].members = node[n].members /\ node'[n].next = node[n].next
              /\ node'[n].prev = node[n].prev
              /\ node'[n].xmax = IF n = j.down THEN xid[b] ELSE node[n].xmax
    BY <1>0, <1>4, RewriteNodes
  <1>5. \A n \in DOMAIN node :
             /\ n \in DOMAIN node'
             /\ node'[n].tbl = node[n].tbl /\ node'[n].owner = node[n].owner
             /\ node'[n].members = node[n].members /\ node'[n].next = node[n].next
             /\ node'[n].prev = node[n].prev
             /\ n # j.down => node'[n].xmax = node[n].xmax
    BY <1>50
  <1>51. Len(B) \in Nat /\ Len(node') = k + Len(B) /\ DOMAIN B = 1 .. Len(B)
    BY <1>50
  <1>52. \A i \in 1 .. Len(B) :
             /\ i \in Nat /\ i <= Len(B) /\ node'[k + i] = B[i]
             /\ node'[k + i].owner = w
             /\ node'[k + i].next = IF i = Len(B) THEN j.rest ELSE k + i + 1
    <2>1. SUFFICES ASSUME NEW i \in 1 .. Len(B)
                   PROVE  /\ i \in Nat /\ i <= Len(B) /\ node'[k + i] = B[i]
                          /\ node'[k + i].owner = w
                          /\ node'[k + i].next = IF i = Len(B) THEN j.rest ELSE k + i + 1
      OBVIOUS
    <2>2. i \in Nat /\ i <= Len(B)
      BY <1>51
    <2>3. node'[k + i] = B[i] /\ B[i].owner = j.owner
          /\ B[i].next = IF i = Len(B) THEN j.rest ELSE k + i + 1
      BY <1>50
    <2>4. QED  BY <1>0, <2>2, <2>3
  <1>53. \A n \in DOMAIN node' : n \in DOMAIN node \/ \E i \in 1 .. Len(B) : n = k + i
    BY <1>50
  <1>54. \A n \in DOMAIN node' : n \in DOMAIN node \/ node'[n].tbl = ArrayList
    <2>1. SUFFICES ASSUME NEW n \in DOMAIN node', n \notin DOMAIN node PROVE node'[n].tbl = ArrayList
      OBVIOUS
    <2>2. PICK i \in 1 .. Len(B) : n = k + i
      BY <1>53, <2>1
    <2>3. node'[k + i] = B[i] /\ B[i].tbl = ArrayList
      BY <1>50
    <2>4. QED  BY <2>2, <2>3
  <1>6. /\ SeqFacts /\ SeqFacts' /\ Links(node) /\ k \in Nat
        /\ \A v \in Vertex : head[v] \in DOMAIN node \cup {Nil}
    BY <1>0, AtStep, LinksThere, HeadsThere, FactsNext DEF IInv, SeqFacts
  <1>7. /\ \A n : n \in Lists' <=> n \in Lists
        /\ \A n : n \in Arrays => n \in Arrays'
        /\ \A n \in Lists : n \in DOMAIN node
        /\ j.down \notin Lists
    <2>1. j.down = Nil \/ j.down \in Arrays
      BY <1>3 DEF JobIs
    <2>2. j.down \notin Lists
      BY <1>6, <2>1 DEF Lists, Arrays, Links
    <2>3. QED  BY <1>5, <1>54, <2>2 DEF Lists, Arrays, TableOf
  <1>8. \A n \in DOMAIN node : node[n].next # Nil => node[n].next \in DOMAIN node
    BY <1>6 DEF Links
  <1>9. /\ Idle(b)' /\ pc'[b] \notin Linking /\ pc'[b] \in Moving
        /\ pc[b] \notin Linking /\ pc[b] \in Moving
    BY <1>1 DEF Idle, Others, Linking, Moving
  <1>10. \A x : (HasRow(x)' <=> HasRow(x)) /\ (Done(x)' <=> Done(x))
    BY <1>1 DEF HasRow, Done, Present
  <1>11. \A v, n : n \in Standing(v)' <=> n \in Standing(v)
    <2>1. \A n : ~Pending(n) /\ (Moved(n) <=> Done(TableOf(n)) \/ (node[n].tbl = t /\ node[n].owner \notin ToMove(b)))
      BY <1>0, <1>9, StandingIs DEF TableOf
    <2>2. \A n : ~Pending(n)' /\ (Moved(n)' <=> Done(TableOf(n))' \/ (node'[n].tbl = t /\ node'[n].owner \notin ToMove(b)'))
      BY <1>1, <1>9, StandingIsNext
    <2>3. \A n \in DOMAIN node : Done(TableOf(n))' <=> Done(TableOf(n))
      BY <1>5, <1>10 DEF TableOf
    <2>4. ToMove(b)' = ToMove(b)
      BY <1>0, <1>1 DEF ToMove
    <2>5. QED  BY <1>5, <1>7, <2>1, <2>2, <2>3, <2>4 DEF Standing
  <1>12. Founded(node')
    <2>1. Nil \notin DOMAIN node'
      BY <1>6 DEF SeqFacts, Nil
    <2>2. ASSUME NEW S \in SUBSET (DOMAIN node' \ DOMAIN node), S # {}
          PROVE  \E n \in S : node'[n].next \notin S
      <3>1. S \in SUBSET (1 .. k + Len(B)) /\ k + Len(B) \in Nat
        BY <1>51, <1>6, <2>2 DEF SeqFacts
      <3>2. PICK n \in S : \A m \in S : m <= n
        BY <2>2, <3>1, LastIsIn
      <3>3. PICK i \in 1 .. Len(B) : n = k + i
        BY <1>53, <2>2
      <3>4. node'[n].next \notin S
        <4>1. CASE i = Len(B)
          <5>1. node'[n].next = j.rest /\ (j.rest = Nil \/ j.rest \in DOMAIN node)
            BY <1>3, <1>52, <3>3, <4>1 DEF JobIs, Arrays
          <5>2. QED  BY <2>1, <2>2, <5>1
        <4>2. CASE i # Len(B)
          <5>1. node'[n].next = k + i + 1
            BY <1>52, <3>3, <4>2
          <5>2. ~(k + i + 1 <= n)
            <6>1. k \in Nat /\ i \in Nat
              BY <1>6, <1>52
            <6>2. QED  BY <3>3, <6>1
          <5>3. QED  BY <3>2, <5>1, <5>2
        <4>3. QED  BY <4>1, <4>2
      <3>5. QED  BY <3>4
    <2>3. QED  BY <1>5, <1>6, <2>1, <2>2, FoundedOn DEF ListsInv
  <1>13. RecordsInOrder'
    <2>1. ASSUME NEW n \in Lists'
          PROVE  HasRow(TableOf(n))' /\ Len(node'[n].members) = 1 /\ node'[n].xmax = NoXid
      <3>1. n \in Lists /\ n \in DOMAIN node /\ n # j.down
        BY <1>7, <2>1
      <3>2. HasRow(TableOf(n))' <=> HasRow(TableOf(n))
        BY <1>5, <1>10, <3>1 DEF TableOf
      <3>3. QED  BY <1>5, <3>1, <3>2 DEF ListsInv, RecordsInOrder
    <2>2. ASSUME NEW m \in Lists', NEW n \in Lists', m <= n PROVE TableOf(m)' <= TableOf(n)'
      <3>1. m \in Lists /\ n \in Lists
        BY <1>7, <2>2
      <3>2. TableOf(m) <= TableOf(n)
        BY <2>2, <3>1 DEF ListsInv, RecordsInOrder
      <3>3. QED  BY <1>5, <1>7, <3>1, <3>2 DEF TableOf
    <2>3. QED  BY <2>1, <2>2 DEF RecordsInOrder
  <1>14. OwnersAgree'
    <2>1. ASSUME NEW n \in DOMAIN node', node'[n].next # Nil
          PROVE  node'[node'[n].next].owner = node'[n].owner
      <3>1. CASE n \in DOMAIN node
        BY <1>5, <1>8, <2>1, <3>1 DEF ListsInv, OwnersAgree
      <3>2. CASE \E i \in 1 .. Len(B) : n = k + i
        <4>1. PICK i \in 1 .. Len(B) : n = k + i
          BY <3>2
        <4>2. node'[n].owner = w
          BY <1>52, <4>1
        <4>3. CASE i = Len(B)
          <5>1. node'[n].next = j.rest /\ j.rest \in DOMAIN node /\ node[j.rest].owner = w
            BY <1>3, <1>52, <2>1, <4>1, <4>3 DEF JobIs, Arrays
          <5>2. QED  BY <1>5, <4>2, <5>1
        <4>4. CASE i # Len(B)
          <5>1. node'[n].next = k + (i + 1) /\ i + 1 \in 1 .. Len(B)
            <6>1. k \in Nat /\ i \in Nat /\ i <= Len(B) /\ Len(B) \in Nat
              BY <1>6, <1>51, <1>52
            <6>2. node'[n].next = k + i + 1
              BY <1>52, <4>1, <4>4
            <6>3. QED  BY <4>4, <6>1, <6>2
          <5>2. node'[k + (i + 1)].owner = w
            BY <1>52, <5>1
          <5>3. QED  BY <4>2, <5>1, <5>2
        <4>5. QED  BY <4>3, <4>4
      <3>3. QED  BY <1>53, <3>1, <3>2
    <2>2. ASSUME NEW v \in Vertex, head'[v] # Nil PROVE node'[head'[v]].owner = v
      <3>1. head'[v] = head[v] /\ head[v] \in DOMAIN node /\ node[head[v]].owner = v
        BY <1>1, <1>6, <2>2 DEF ListsInv, OwnersAgree
      <3>2. QED  BY <1>5, <3>1
    <2>3. QED  BY <2>1, <2>2 DEF OwnersAgree
  <1>15. ChainsStand'
    <2>1. SUFFICES ASSUME NEW v \in Vertex PROVE ChainStands(v)'
      BY DEF ChainsStand
    <2>2. PICK K : K = Standing(v) /\ K = Standing(v)'
      <3>1. PICK K, M : K = Standing(v) /\ M = Standing(v)'
        OBVIOUS
      <3>2. \A n : n \in M <=> n \in K
        BY <1>11, <3>1
      <3>3. M = K
        BY <3>2
      <3>4. QED  BY <3>1, <3>3
    <2>3. ChainStands(v) /\ ~\E c \in Backend : pc[c] = "setHead"
      BY <1>1 DEF ListsInv, ChainsStand, Idle
    <2>4. \A n \in K : n \in DOMAIN node
      BY <2>2 DEF Standing, Lists
    <2>5. Stands(node', K, head[v])
      BY <1>5, <2>2, <2>3, <2>4 DEF ChainStands, Stands
    <2>6. /\ K = {} => head[v] \in {Nil} \cup Arrays'
          /\ \A n \in K : /\ node'[n].next \in K \cup Arrays' \cup {Nil}
                          /\ node'[n].next \in K => node'[node'[n].next].prev = n
          /\ head[v] \in K => node'[head[v]].prev = Nil
      <3>1. /\ K = {} => head[v] \in {Nil} \cup Arrays
            /\ \A n \in K : /\ node[n].next \in K \cup Arrays \cup {Nil}
                            /\ node[n].next \in K => node[node[n].next].prev = n
            /\ head[v] \in K => node[head[v]].prev = Nil
        BY <2>2, <2>3 DEF ChainStands
      <3>2. QED  BY <1>5, <1>7, <2>4, <3>1
    <2>7. QED  BY <1>1, <2>2, <2>5, <2>6 DEF ChainStands
  <1>16. JobSet(b)'
    <2>1. \A g : IsGathered(g, t) => IsGathered(g, t)'
      <3>1. SUFFICES ASSUME NEW g, IsGathered(g, t) PROVE IsGathered(g, t)'
        OBVIOUS
      <3>2. \A n \in DOMAIN node' : n \in DOMAIN node \/ node'[n].tbl # t
        BY <1>3, <1>54
      <3>3. QED  BY <1>5, <1>6, <3>1, <3>2, IsGatheredGrows
    <2>2. \A g \in loc[b].batch : IsGathered(g, t) /\ g.owner # j.owner
      BY <1>0, <1>1 DEF ListsInv, JobsSet, JobSet, Moving
    <2>3. PICK g \in Job : IsGathered(g, t) /\ j = Merged(g) /\ j.owner = g.owner
      BY <1>0, <1>1 DEF ListsInv, JobsSet, JobSet
    <2>4. Merged(g)' = Merged(g)
      <3>1. g.down = Nil \/ g.down \in DOMAIN node
        BY <2>3 DEF Job, Arrays
      <3>2. g.down # Nil => /\ node'[g.down].members = node[g.down].members
                            /\ node'[g.down].next = node[g.down].next
        BY <1>5, <3>1
      <3>3. QED  BY <3>2 DEF Merged
    <2>5. g \in Job'
      <3>1. Grows
        <4>1. Len(node) <= Len(node')
          BY <1>51, <1>0, <1>6
        <4>2. \A n \in DOMAIN node : node'[n].tbl = node[n].tbl
          BY <1>5
        <4>3. UNCHANGED <<xact, maker, meta>> /\ Len(maker) <= Len(maker) /\ Len(meta) <= Len(meta)
          BY <1>1, <1>6 DEF SeqFacts
        <4>4. QED  BY <4>1, <4>2, <4>3 DEF Grows
      <3>2. Job \subseteq Job'
        BY <3>1, LocalsGrow DEF IInv
      <3>3. QED  BY <3>2
    <2>6. loc'[b].at - 1 = k
      BY <1>1, <1>6
    <2>7. /\ Len(node') = loc'[b].at - 1 + Len(B)
          /\ \A i \in DOMAIN B : node'[loc'[b].at - 1 + i] = B[i]
      BY <1>51, <1>52, <2>6
    <2>8. B = Blocks(loc'[b].job, loc'[b].at - 1)
      BY <1>1, <1>4, <2>6
    <2>9. \E h \in Job' : IsGathered(h, t)' /\ loc'[b].job = Merged(h)' /\ loc'[b].job.owner = h.owner
      BY <1>1, <2>1, <2>3, <2>4, <2>5
    <2>10. QED  BY <1>1, <2>1, <2>2, <2>7, <2>8, <2>9 DEF JobSet
  <1>17. ASSUME NEW c \in Backend PROVE InsertSet(c)' /\ JobSet(c)'
    <2>1. CASE c = b
      BY <1>1, <1>16, <2>1 DEF InsertSet, Linking
    <2>2. CASE c # b
      BY <1>9, <2>2 DEF InsertSet, JobSet, Moving, Linking, Idle
    <2>3. QED  BY <2>1, <2>2
  <1>18. QED
    BY <1>12, <1>13, <1>14, <1>15, <1>17 DEF ListsInv, InsertsSet, JobsSet, Founded

\* What the wiring of a job is about, and what it writes.
WireFacts(b, j, w, t, k, a, L, R, U) ==
    /\ pc[b] = "wire"
    /\ UNCHANGED <<xact, xid, etup, meta, maker, calm>>
    /\ pc'[b] = IF loc[b].batch = {} THEN "findRow" ELSE "merge"
    /\ loc'[b].batch = loc[b].batch /\ loc'[b].tbl = t /\ Others(b)
    /\ IF k # Nil
         THEN node' = [node EXCEPT ![k].next = a] /\ UNCHANGED head
         ELSE head' = [head EXCEPT ![w] = a] /\ UNCHANGED node
    /\ JobIs(j, w, L, R, U) /\ IsOldest(t) /\ t # ArrayList
    /\ SeqFacts /\ Links(node) /\ head \in [Vertex -> 0 .. Len(node)] /\ loc[b] \in Locals
    /\ \A v \in Vertex : head[v] \in DOMAIN node \cup {Nil}
    /\ w \in Vertex /\ j \in Job
    /\ R \subseteq L /\ R # {} /\ L \in SUBSET (1 .. Len(node)) /\ U \in SUBSET Nat
    /\ \A n \in L : n \in Lists /\ n \in DOMAIN node /\ node[n].owner = w /\ n \in Nat
    /\ \A n : n \in U <=> n \in L /\ n \notin R
    /\ \A r \in R, u \in U : r < u
    /\ k = IF U = {} THEN Nil ELSE FirstOf(U)
    /\ a \in Arrays /\ a \in DOMAIN node /\ node[a].owner = w
    /\ k # Nil => k \in U /\ k \in L /\ k \in DOMAIN node /\ \A n \in U : k <= n
    /\ k = Nil <=> U = {}
    /\ DOMAIN node' = DOMAIN node
    /\ \A n \in DOMAIN node :
         /\ node'[n].tbl = node[n].tbl /\ node'[n].owner = node[n].owner
         /\ node'[n].members = node[n].members /\ node'[n].prev = node[n].prev
         /\ node'[n].xmax = node[n].xmax
         /\ n # k => node'[n].next = node[n].next
    /\ k # Nil => node'[k].next = a
    /\ \A v \in Vertex : v # w => head'[v] = head[v]
    /\ head'[w] = IF k = Nil THEN a ELSE head[w]
    /\ Lists' = Lists /\ Arrays' = Arrays /\ \A n \in Lists : n \in DOMAIN node
    /\ Idle(b)' /\ pc'[b] \notin Linking /\ pc'[b] \in Moving
    /\ pc[b] \notin Linking /\ pc[b] \in Moving
    /\ (\A x : (HasRow(x)' <=> HasRow(x)) /\ (Done(x)' <=> Done(x)))
    /\ w \in ToMove(b) /\ \A v : v \in ToMove(b)' <=> v \in ToMove(b) /\ v # w
    /\ (\A v, n : n \in Standing(v)' <=> n \in Standing(v) /\ (v = w => n \in U))

LEMMA WireIs ==
    ASSUME IInv, TablesInv, ListsInv, NEW b \in Backend, Wire(b), Idle(b),
           NEW j, j = loc[b].job, NEW w, w = j.owner, NEW t, t = loc[b].tbl,
           NEW k, k = j.up, NEW a, a = loc[b].at,
           NEW L, L = Standing(w), NEW R, R = RecordsOf(w, t), NEW U, U = Above(w, t)
    PROVE  WireFacts(b, j, w, t, k, a, L, R, U)
  <1>1. /\ pc[b] = "wire"
        /\ UNCHANGED <<xact, xid, etup, meta, maker, calm>>
        /\ pc'[b] = IF loc[b].batch = {} THEN "findRow" ELSE "merge"
        /\ loc'[b].batch = loc[b].batch /\ loc'[b].tbl = t /\ Others(b)
        /\ IF k # Nil
             THEN node' = [node EXCEPT ![k].next = a] /\ UNCHANGED head
             ELSE head' = [head EXCEPT ![w] = a] /\ UNCHANGED node
    BY WireEffect DEF NowAt
  <1>3. JobIs(j, w, L, R, U) /\ IsOldest(t) /\ t # ArrayList
    BY <1>1, JobInHand
  <1>4. /\ SeqFacts /\ Links(node) /\ head \in [Vertex -> 0 .. Len(node)] /\ loc[b] \in Locals
        /\ \A v \in Vertex : head[v] \in DOMAIN node \cup {Nil}
    BY AtStep, LinksThere, HeadsThere
  <1>5. /\ w \in Vertex /\ j \in Job
        /\ R \subseteq L /\ R # {} /\ L \in SUBSET (1 .. Len(node)) /\ U \in SUBSET Nat
        /\ \A n \in L : n \in Lists /\ n \in DOMAIN node /\ node[n].owner = w /\ n \in Nat
        /\ \A n : n \in U <=> n \in L /\ n \notin R
        /\ \A r \in R, u \in U : r < u
        /\ k = IF U = {} THEN Nil ELSE FirstOf(U)
    BY <1>3 DEF JobIs, Standing, Lists
  \* The first of the new blocks.
  <1>6. a \in Arrays /\ a \in DOMAIN node /\ node[a].owner = w
    <2>1. a \in Arrays /\ a \in DOMAIN node
      BY <1>1, AtStep DEF SetAt, Arrays
    <2>2. PICK B : B = Blocks(j, a - 1)
      OBVIOUS
    <2>3. a - 1 \in Nat /\ a \in Nat
      BY <1>4, <2>1 DEF SeqFacts
    <2>4. /\ Len(B) \in Nat \ {0} /\ DOMAIN B = 1 .. Len(B)
          /\ \A i \in 1 .. Len(B) : B[i].owner = j.owner
      BY <1>5, <2>2, <2>3, BlocksAre
    <2>5. 1 \in 1 .. Len(B) /\ a - 1 + 1 = a
      BY <2>3, <2>4
    <2>6. \A i \in DOMAIN B : node[a - 1 + i] = B[i]
      BY <1>1, <2>2 DEF ListsInv, JobsSet, JobSet
    <2>7. node[a - 1 + 1] = B[1]
      BY <2>4, <2>5, <2>6
    <2>8. QED  BY <2>1, <2>4, <2>5, <2>7
  <1>7. /\ k # Nil => k \in U /\ k \in L /\ k \in DOMAIN node /\ \A n \in U : k <= n
        /\ k = Nil <=> U = {}
    <2>1. CASE U # {}
      <3>1. k \in U /\ \A n \in U : k <= n
        BY <1>5, <2>1, LeastNat
      <3>2. k \in DOMAIN node
        BY <1>5, <3>1
      <3>3. QED  BY <1>4, <1>5, <2>1, <3>1, <3>2 DEF Links
    <2>2. CASE U = {}
      BY <1>5, <2>2
    <2>3. QED  BY <2>1, <2>2
  <1>8. /\ DOMAIN node' = DOMAIN node
        /\ \A n \in DOMAIN node :
             /\ node'[n].tbl = node[n].tbl /\ node'[n].owner = node[n].owner
             /\ node'[n].members = node[n].members /\ node'[n].prev = node[n].prev
             /\ node'[n].xmax = node[n].xmax
             /\ n # k => node'[n].next = node[n].next
        /\ k # Nil => node'[k].next = a
    <2>1. CASE k # Nil
      <3>1. /\ Written(k)
            /\ node'[k].tbl = node[k].tbl /\ node'[k].owner = node[k].owner
            /\ node'[k].members = node[k].members /\ node'[k].prev = node[k].prev
            /\ node'[k].xmax = node[k].xmax /\ node'[k].next = a
        BY <2>1, WireNodes
      <3>2. QED  BY <3>1 DEF Written
    <2>2. CASE k = Nil
      BY <1>1, <2>2
    <2>3. QED  BY <2>1, <2>2
  <1>9. /\ \A v \in Vertex : v # w => head'[v] = head[v]
        /\ head'[w] = IF k = Nil THEN a ELSE head[w]
    BY <1>1, <1>4, <1>5
  <1>10. Lists' = Lists /\ Arrays' = Arrays /\ \A n \in Lists : n \in DOMAIN node
    BY <1>8 DEF Lists, Arrays, TableOf
  <1>11. /\ Idle(b)' /\ pc'[b] \notin Linking /\ pc'[b] \in Moving
         /\ pc[b] \notin Linking /\ pc[b] \in Moving
    BY <1>1 DEF Idle, Others, Linking, Moving
  <1>12. \A x : (HasRow(x)' <=> HasRow(x)) /\ (Done(x)' <=> Done(x))
    BY <1>1 DEF HasRow, Done, Present
  <1>13. w \in ToMove(b) /\ \A v : v \in ToMove(b)' <=> v \in ToMove(b) /\ v # w
    <2>1. ToMove(b) = {g.owner : g \in loc[b].batch} \cup {w}
      BY <1>1 DEF ToMove
    <2>2. ToMove(b)' = {g.owner : g \in loc[b].batch}
      BY <1>1 DEF ToMove
    <2>3. \A g \in loc[b].batch : g.owner # w
      BY <1>1 DEF ListsInv, JobsSet, JobSet
    <2>4. QED  BY <2>1, <2>2, <2>3
  <1>14. \A v, n : n \in Standing(v)' <=> n \in Standing(v) /\ (v = w => n \in U)
    <2>1. \A n : ~Pending(n) /\ (Moved(n) <=> Done(TableOf(n)) \/ (node[n].tbl = t /\ node[n].owner \notin ToMove(b)))
      BY <1>11, StandingIs DEF TableOf
    <2>2. \A n : ~Pending(n)' /\ (Moved(n)' <=> Done(TableOf(n))' \/ (node'[n].tbl = t /\ node'[n].owner \notin ToMove(b)'))
      BY <1>1, <1>11, StandingIsNext
    <2>3. \A n \in DOMAIN node : Done(TableOf(n))' <=> Done(TableOf(n))
      BY <1>8, <1>12 DEF TableOf
    <2>4. \A n \in DOMAIN node : (~Moved(n)' /\ ~Pending(n)') <=>
             (~Moved(n) /\ ~Pending(n) /\ (node[n].owner = w => node[n].tbl # t))
      BY <1>8, <1>13, <2>1, <2>2, <2>3
    <2>5. \A n : n \in U <=> n \in L /\ node[n].tbl # t
      BY DEF Above, TableOf
    <2>6. QED  BY <1>8, <1>10, <2>4, <2>5 DEF Standing
  <1>15. QED
    BY <1>1, <1>3, <1>4, <1>5, <1>6, <1>7, <1>8, <1>9, <1>10, <1>11, <1>12, <1>13, <1>14 DEF WireFacts

LEMMA ListsWire ==
    ASSUME IInv, IInv', TablesInv, ListsInv, NEW b \in Backend, Wire(b), Idle(b)
    PROVE  ListsInv'
  <1>0. PICK j, w, t, k, a : j = loc[b].job /\ w = j.owner /\ t = loc[b].tbl /\ k = j.up /\ a = loc[b].at
    OBVIOUS
  <1>2. PICK L, R, U : L = Standing(w) /\ R = RecordsOf(w, t) /\ U = Above(w, t)
    OBVIOUS
  <1>w. WireFacts(b, j, w, t, k, a, L, R, U)
    BY <1>0, <1>2, WireIs
  <1>1. /\ pc[b] = "wire"
        /\ UNCHANGED <<xact, xid, etup, meta, maker, calm>>
        /\ pc'[b] = IF loc[b].batch = {} THEN "findRow" ELSE "merge"
        /\ loc'[b].batch = loc[b].batch /\ loc'[b].tbl = t /\ Others(b)
        /\ IF k # Nil
             THEN node' = [node EXCEPT ![k].next = a] /\ UNCHANGED head
             ELSE head' = [head EXCEPT ![w] = a] /\ UNCHANGED node
    BY <1>w DEF WireFacts
  <1>3. JobIs(j, w, L, R, U) /\ IsOldest(t) /\ t # ArrayList
    BY <1>w DEF WireFacts
  <1>4. /\ SeqFacts /\ Links(node) /\ head \in [Vertex -> 0 .. Len(node)] /\ loc[b] \in Locals
        /\ \A v \in Vertex : head[v] \in DOMAIN node \cup {Nil}
    BY <1>w DEF WireFacts
  <1>5. /\ w \in Vertex /\ j \in Job
        /\ R \subseteq L /\ R # {} /\ L \in SUBSET (1 .. Len(node)) /\ U \in SUBSET Nat
        /\ \A n \in L : n \in Lists /\ n \in DOMAIN node /\ node[n].owner = w /\ n \in Nat
        /\ \A n : n \in U <=> n \in L /\ n \notin R
        /\ \A r \in R, u \in U : r < u
        /\ k = IF U = {} THEN Nil ELSE FirstOf(U)
    BY <1>w DEF WireFacts
  <1>6. a \in Arrays /\ a \in DOMAIN node /\ node[a].owner = w
    BY <1>w DEF WireFacts
  <1>7. /\ k # Nil => k \in U /\ k \in L /\ k \in DOMAIN node /\ \A n \in U : k <= n
        /\ k = Nil <=> U = {}
    BY <1>w DEF WireFacts
  <1>8. /\ DOMAIN node' = DOMAIN node
        /\ \A n \in DOMAIN node :
             /\ node'[n].tbl = node[n].tbl /\ node'[n].owner = node[n].owner
             /\ node'[n].members = node[n].members /\ node'[n].prev = node[n].prev
             /\ node'[n].xmax = node[n].xmax
             /\ n # k => node'[n].next = node[n].next
        /\ k # Nil => node'[k].next = a
    BY <1>w DEF WireFacts
  <1>9. /\ \A v \in Vertex : v # w => head'[v] = head[v]
        /\ head'[w] = IF k = Nil THEN a ELSE head[w]
    BY <1>w DEF WireFacts
  <1>10. Lists' = Lists /\ Arrays' = Arrays /\ \A n \in Lists : n \in DOMAIN node
    BY <1>w DEF WireFacts
  <1>11. /\ Idle(b)' /\ pc'[b] \notin Linking /\ pc'[b] \in Moving
         /\ pc[b] \notin Linking /\ pc[b] \in Moving
    BY <1>w DEF WireFacts
  <1>12. \A x : (HasRow(x)' <=> HasRow(x)) /\ (Done(x)' <=> Done(x))
    BY <1>w DEF WireFacts
  <1>13. w \in ToMove(b) /\ \A v : v \in ToMove(b)' <=> v \in ToMove(b) /\ v # w
    BY <1>w DEF WireFacts
  <1>14. \A v, n : n \in Standing(v)' <=> n \in Standing(v) /\ (v = w => n \in U)
    BY <1>w DEF WireFacts
  <1>15. Founded(node')
    <2>1. SUFFICES ASSUME NEW S \in SUBSET DOMAIN node, S # {} PROVE \E n \in S : node'[n].next \notin S
      BY <1>8 DEF Founded
    <2> DEFINE A == {n \in S : n \in Arrays}
    <2>2. CASE A # {}
      <3>1. PICK n \in A : node[n].next \notin A
        BY <2>2 DEF ListsInv, Founded
      <3>2. n \in DOMAIN node /\ n \in Arrays /\ n # k
        BY <1>5, <1>7, <3>1, <1>4 DEF Arrays, Lists, Links
      <3>3. node[n].next = Nil \/ node[n].next \in Arrays
        <4>1. BlocksLeadDown /\ (node[n].next = Nil \/ node[n].next \in DOMAIN node)
          BY <1>4, <3>2 DEF IInv, ListInv, Links
        <4>2. QED  BY <3>2, <4>1 DEF BlocksLeadDown, Arrays
      <3>4. node'[n].next \notin S
        BY <1>4, <1>8, <3>1, <3>2, <3>3 DEF Links
      <3>5. QED  BY <3>1, <3>4
    <2>3. CASE A = {}
      <3>1. PICK n \in S : node[n].next \notin S
        BY <2>1 DEF ListsInv, Founded
      <3>2. n = k => a \notin S
        BY <1>6, <2>3
      <3>3. n = k => k # Nil
        BY <1>4 DEF Links
      <3>4. QED  BY <1>8, <3>1, <3>2, <3>3
    <2>4. QED  BY <2>2, <2>3
  <1>16. RecordsInOrder'
    <2>1. ASSUME NEW n \in Lists'
          PROVE  HasRow(TableOf(n))' /\ Len(node'[n].members) = 1 /\ node'[n].xmax = NoXid
      <3>1. n \in Lists /\ n \in DOMAIN node
        BY <1>10, <2>1
      <3>2. HasRow(TableOf(n))' <=> HasRow(TableOf(n))
        BY <1>8, <1>12, <3>1 DEF TableOf
      <3>3. QED  BY <1>8, <3>1, <3>2 DEF ListsInv, RecordsInOrder
    <2>2. ASSUME NEW m \in Lists', NEW n \in Lists', m <= n PROVE TableOf(m)' <= TableOf(n)'
      <3>1. m \in Lists /\ n \in Lists
        BY <1>10, <2>2
      <3>2. TableOf(m) <= TableOf(n)
        BY <2>2, <3>1 DEF ListsInv, RecordsInOrder
      <3>3. QED  BY <1>8, <1>10, <3>1, <3>2 DEF TableOf
    <2>3. QED  BY <2>1, <2>2 DEF RecordsInOrder
  <1>17. OwnersAgree'
    <2>1. ASSUME NEW n \in DOMAIN node', node'[n].next # Nil
          PROVE  node'[node'[n].next].owner = node'[n].owner
      <3>1. CASE n = k
        <4>1. k # Nil
          BY <1>4, <1>8, <2>1, <3>1 DEF Links
        <4>2. node'[n].next = a /\ node[n].owner = w
          BY <1>5, <1>7, <1>8, <3>1, <4>1
        <4>3. QED  BY <1>6, <1>8, <2>1, <4>2
      <3>2. CASE n # k
        <4>1. node'[n].next = node[n].next /\ n \in DOMAIN node /\ node[n].next \in DOMAIN node
          BY <1>4, <1>8, <2>1, <3>2 DEF Links
        <4>2. QED  BY <1>8, <2>1, <4>1 DEF ListsInv, OwnersAgree
      <3>3. QED  BY <3>1, <3>2
    <2>2. ASSUME NEW v \in Vertex, head'[v] # Nil PROVE node'[head'[v]].owner = v
      <3>1. CASE v = w /\ k = Nil
        BY <1>6, <1>8, <1>9, <3>1
      <3>2. CASE head'[v] = head[v]
        <4>1. head[v] \in DOMAIN node /\ node[head[v]].owner = v
          BY <1>4, <2>2, <3>2 DEF ListsInv, OwnersAgree
        <4>2. QED  BY <1>8, <3>2, <4>1
      <3>3. QED  BY <1>9, <3>1, <3>2
    <2>3. QED  BY <2>1, <2>2 DEF OwnersAgree
  <1>18. ASSUME NEW v \in Vertex, v # w PROVE ChainStands(v)'
    <2>1. PICK K : K = Standing(v) /\ K = Standing(v)'
      <3>1. PICK K, M : K = Standing(v) /\ M = Standing(v)'
        OBVIOUS
      <3>2. \A n : n \in M <=> n \in K
        BY <1>14, <1>18, <3>1
      <3>3. M = K
        BY <3>2
      <3>4. QED  BY <3>1, <3>3
    <2>2. ChainStands(v) /\ head'[v] = head[v] /\ ~\E c \in Backend : pc[c] = "setHead"
      BY <1>1, <1>9, <1>18 DEF ListsInv, ChainsStand, Idle
    <2>3. \A n \in K : n \in DOMAIN node /\ n # k
      <3>1. \A n \in K : n \in DOMAIN node /\ node[n].owner = v
        BY <2>1 DEF Standing, Lists
      <3>2. \A n \in K : n = k => node[k].owner = w
        BY <1>4, <1>5, <1>7, <3>1 DEF Links
      <3>3. QED  BY <1>18, <3>1, <3>2
    <2>4. Stands(node', K, head[v])
      BY <1>8, <2>1, <2>2, <2>3 DEF ChainStands, Stands
    <2>5. /\ K = {} => head[v] \in {Nil} \cup Arrays
          /\ \A n \in K : /\ node'[n].next \in K \cup Arrays \cup {Nil}
                          /\ node'[n].next \in K => node'[node'[n].next].prev = n
          /\ head[v] \in K => node'[head[v]].prev = Nil
      <3>1. /\ K = {} => head[v] \in {Nil} \cup Arrays
            /\ \A n \in K : /\ node[n].next \in K \cup Arrays \cup {Nil}
                            /\ node[n].next \in K => node[node[n].next].prev = n
            /\ head[v] \in K => node[head[v]].prev = Nil
        BY <2>1, <2>2 DEF ChainStands
      <3>2. QED  BY <1>8, <2>3, <3>1
    <2>6. QED  BY <1>10, <2>1, <2>2, <2>4, <2>5 DEF ChainStands
  \* Below the records above, the new blocks.
  <1>19. ChainStands(w)'
    <2>1. U = Standing(w)'
      <3>1. PICK M : M = Standing(w)'
        OBVIOUS
      <3>2. \A n : n \in M <=> n \in U
        BY <1>2, <1>5, <1>14, <3>1
      <3>3. M = U
        BY <3>2
      <3>4. QED  BY <3>1, <3>3
    <2>2. /\ L # {} => head[w] \in L
          /\ \A n \in L : /\ n <= head[w]
                          /\ node[n].next \in L => node[n].next < n
                          /\ \A m \in L : m < n => node[n].next \in L /\ m <= node[n].next
                          /\ node[n].next \in L => node[node[n].next].prev = n
          /\ head[w] \in L => node[head[w]].prev = Nil
      <3>1. ChainStands(w) /\ ~\E c \in Backend : pc[c] = "setHead"
        BY <1>1, <1>5 DEF ListsInv, ChainsStand, Idle
      <3>2. QED  BY <1>2, <3>1 DEF ChainStands, Stands
    <2>3. CASE U = {}
      <3>1. head'[w] = a
        BY <1>7, <1>9, <2>3
      <3>2. QED  BY <1>6, <1>10, <2>1, <2>3, <3>1 DEF ChainStands, Stands
    <2>4. CASE U # {}
      <3>1. k # Nil /\ k \in U /\ head'[w] = head[w] /\ node'[k].next = a
        BY <1>7, <1>8, <1>9, <2>4
      <3>2. head[w] \in U
        <4>1. head[w] \in L /\ head[w] \in Nat /\ k <= head[w] /\ k \in Nat
          BY <1>5, <2>2, <3>1
        <4>2. head[w] \in R => head[w] < k
          BY <1>5, <3>1
        <4>3. QED  BY <1>5, <4>1, <4>2
      <3>3. a \notin U
        BY <1>5, <1>6 DEF Arrays, Lists
      <3>4. ASSUME NEW n \in U, n # k
            PROVE  node'[n].next = node[n].next /\ node[n].next \in U
        <4>1. n \in Nat /\ k \in Nat /\ k <= n /\ n \in L /\ k \in L
          BY <1>5, <1>7, <3>1
        <4>2. k < n
          BY <3>4, <4>1
        <4>3. node[n].next \in L /\ k <= node[n].next
          BY <2>2, <4>1, <4>2
        <4>4. node[n].next \in Nat /\ (node[n].next \in R => node[n].next < k)
          BY <1>5, <3>1, <4>3
        <4>5. node[n].next \in U
          BY <1>5, <4>1, <4>3, <4>4
        <4>6. QED  BY <1>5, <1>8, <3>4, <4>1, <4>5
      <3>5. Stands(node', U, head[w])
        <4>1. \A n \in U : n <= head[w]
          BY <1>5, <2>2
        <4>2. \A n \in U : node'[n].next \in U => node'[n].next < n
          <5>1. SUFFICES ASSUME NEW n \in U, node'[n].next \in U PROVE node'[n].next < n
            OBVIOUS
          <5>2. n # k
            BY <3>1, <3>3, <5>1
          <5>3. QED  BY <1>5, <2>2, <3>4, <5>1, <5>2
        <4>3. \A n, m \in U : m < n => node'[n].next \in U /\ m <= node'[n].next
          <5>1. SUFFICES ASSUME NEW n \in U, NEW m \in U, m < n
                         PROVE  node'[n].next \in U /\ m <= node'[n].next
            OBVIOUS
          <5>2. n # k
            <6>1. k <= m /\ k \in Nat /\ m \in Nat
              BY <1>5, <1>7, <3>1
            <6>2. QED  BY <5>1, <6>1
          <5>3. m <= node[n].next
            BY <1>5, <2>2, <5>1
          <5>4. QED  BY <3>4, <5>2, <5>3
        <4>4. QED  BY <3>2, <4>1, <4>2, <4>3 DEF Stands
      <3>6. \A n \in U : /\ node'[n].next \in U \cup Arrays \cup {Nil}
                         /\ node'[n].next \in U => node'[node'[n].next].prev = n
        <4>1. SUFFICES ASSUME NEW n \in U
                       PROVE  /\ node'[n].next \in U \cup Arrays \cup {Nil}
                              /\ node'[n].next \in U => node'[node'[n].next].prev = n
          OBVIOUS
        <4>2. CASE n = k
          BY <1>6, <3>1, <3>3, <4>2
        <4>3. CASE n # k
          <5>1. node'[n].next = node[n].next /\ node[n].next \in U /\ node[n].next \in L /\ n \in L
            BY <1>5, <3>4, <4>3
          <5>2. node'[node[n].next].prev = node[node[n].next].prev
            BY <1>5, <1>8, <5>1
          <5>3. QED  BY <2>2, <5>1, <5>2
        <4>4. QED  BY <4>2, <4>3
      <3>7. node'[head[w]].prev = Nil
        <4>1. head[w] \in L /\ head[w] \in DOMAIN node
          BY <1>5, <3>2
        <4>2. QED  BY <1>8, <2>2, <4>1
      <3>8. QED  BY <1>10, <2>1, <2>4, <3>1, <3>2, <3>5, <3>6, <3>7 DEF ChainStands
    <2>5. QED  BY <2>3, <2>4
  <1>20. JobSet(b)'
    <2>1. \A g \in loc[b].batch : IsGathered(g, t) /\ g.owner # w
      BY <1>0, <1>1 DEF ListsInv, JobsSet, JobSet, Moving
    <2>2. ASSUME NEW g \in loc[b].batch PROVE IsGathered(g, t)'
      <3>1. PICK v : v = g.owner /\ v # w
        BY <2>1
      <3>2. \A n : n \in RecordsOf(v, t)' <=> n \in RecordsOf(v, t)
        BY <1>8 DEF RecordsOf
      <3>3. \A n \in RecordsOf(v, t) : n \in DOMAIN node /\ n # k
        <4>1. \A n \in RecordsOf(v, t) : n \in DOMAIN node /\ node[n].owner = v
          BY DEF RecordsOf
        <4>2. \A n \in DOMAIN node : n = k => node[k].owner = w
          BY <1>4, <1>5, <1>7 DEF Links
        <4>3. QED  BY <3>1, <4>1, <4>2
      <3>4. \A n \in DOMAIN node : /\ node[n].next # Nil => node[n].next \in DOMAIN node
                                   /\ node[n].prev # Nil => node[n].prev \in DOMAIN node
        BY <1>4 DEF SeqFacts, Node, Nil
      <3>5. \A n \in RecordsOf(v, t) :
              /\ node'[n].members = node[n].members
              /\ node'[n].next = node[n].next /\ node'[n].prev = node[n].prev
              /\ node[n].next # Nil => node'[node[n].next].tbl = node[node[n].next].tbl
              /\ node[n].prev # Nil => node'[node[n].prev].tbl = node[node[n].prev].tbl
        BY <1>8, <3>3, <3>4
      <3>6. Gathered(v, t)' = Gathered(v, t)
        BY <1>4, <3>2, <3>5, GatheredSame
      <3>7. QED  BY <2>1, <3>1, <3>2, <3>6 DEF IsGathered
    <2>3. QED  BY <1>1, <2>2 DEF JobSet
  <1>21. ASSUME NEW c \in Backend PROVE InsertSet(c)' /\ JobSet(c)'
    <2>1. CASE c = b
      BY <1>1, <1>20, <2>1 DEF InsertSet, Linking
    <2>2. CASE c # b
      BY <1>11, <2>2 DEF InsertSet, JobSet, Moving, Linking, Idle
    <2>3. QED  BY <2>1, <2>2
  <1>22. QED
    BY <1>15, <1>16, <1>17, <1>18, <1>19, <1>21 DEF ListsInv, InsertsSet, JobsSet, ChainsStand, Founded
-----------------------------------------------------------------------------
(* The order of the chains, step by step.                                    *)

LEMMA ListsInit == ASSUME Init PROVE ListsInv
  <1>1. node = <<>> /\ (\A v \in Vertex : head[v] = Nil) /\ \A b \in Backend : pc[b] = "idle"
    BY DEF Init
  <1>2. DOMAIN node = {} /\ Lists = {}
    BY <1>1 DEF Lists
  <1>3. Founded(node) /\ RecordsInOrder /\ OwnersAgree
    BY <1>1, <1>2 DEF Founded, RecordsInOrder, OwnersAgree
  <1>4. \A v : Standing(v) = {}
    BY <1>2 DEF Standing
  <1>5. ChainsStand
    BY <1>1, <1>4 DEF ChainsStand, ChainStands, Stands
  <1>6. InsertsSet /\ JobsSet
    BY <1>1 DEF InsertsSet, InsertSet, JobsSet, JobSet, Moving, Linking
  <1>7. QED  BY <1>3, <1>5, <1>6 DEF ListsInv

LEMMA ListsIdle == ASSUME IInv, ListsInv, UNCHANGED vars PROVE ListsInv'
  <1>1. UNCHANGED <<xid, pc, meta, maker, node, head, loc, xact>>
    BY DEF vars, data
  <1>2. /\ Lists' = Lists /\ Arrays' = Arrays
        /\ \A t : (HasRow(t)' <=> HasRow(t)) /\ (Done(t)' <=> Done(t))
    BY <1>1 DEF Lists, Arrays, TableOf, HasRow, Done, Present
  <1>3. \A n : (Pending(n)' <=> Pending(n)) /\ (Moved(n)' <=> Moved(n))
    <2>1. \A b : ToMove(b)' = ToMove(b)
      BY <1>1 DEF ToMove
    <2>2. \A n : TableOf(n)' = TableOf(n) /\ (Done(TableOf(n))' <=> Done(TableOf(n)))
      BY <1>1 DEF TableOf, Done, Present
    <2>3. QED  BY <1>1, <2>1, <2>2 DEF Pending, Moved
  <1>4. \A v, n : n \in Standing(v)' <=> n \in Standing(v)
    BY <1>1, <1>2, <1>3 DEF Standing
  <1>5. Founded(node)' /\ RecordsInOrder' /\ OwnersAgree'
    BY <1>1, <1>2 DEF ListsInv, RecordsInOrder, OwnersAgree, Founded, TableOf, HasRow, Present
  <1>6. ASSUME NEW v \in Vertex PROVE ChainStands(v)'
    <2>1. PICK L : L = Standing(v) /\ L = Standing(v)'
      <3>1. PICK L, M : L = Standing(v) /\ M = Standing(v)'
        OBVIOUS
      <3>2. \A n : n \in M <=> n \in L
        BY <1>4, <3>1
      <3>3. M = L
        BY <3>2
      <3>4. QED  BY <3>1, <3>3
    <2>2. ChainStands(v)
      BY DEF ListsInv, ChainsStand
    <2>3. QED  BY <1>1, <1>2, <2>1, <2>2 DEF ChainStands, Stands
  <1>7. ASSUME NEW b \in Backend PROVE InsertSet(b)' /\ JobSet(b)'
    <2>1. InsertSet(b) /\ JobSet(b)
      BY DEF ListsInv, InsertsSet, JobsSet
    <2>2. InsertSet(b)'
      BY <1>1, <2>1 DEF InsertSet, Record
    <2>3. \A j, t : IsGathered(j, t)' <=> IsGathered(j, t)
      BY <1>1, IsGatheredQuiet
    <2>4. Job' = Job /\ \A j : Merged(j)' = Merged(j)
      BY <1>1, <1>2 DEF Job, Member, Merged
    <2>5. JobSet(b)'
      BY <1>1, <2>1, <2>3, <2>4 DEF JobSet
    <2>6. QED  BY <2>2, <2>5
  <1>8. QED  BY <1>5, <1>6, <1>7 DEF ListsInv, ChainsStand, InsertsSet, JobsSet

\* The step of a backend.
Acts(b) ==
    \/ Begin(b) \/ Commit(b) \/ Abort(b)
    \/ \E e \in Entry : Insert(b, e) \/ Delete(b, e)
    \/ ReadHead(b) \/ AppendRecord(b) \/ FixPrev(b) \/ SetHead(b)
    \/ StartWalk(b) \/ StampMember(b) \/ WalkOn(b) \/ WalkEnds(b)
    \/ RotateActive(b) \/ CloseActive(b) \/ AddActive(b)
    \/ Compact(b) \/ CompactActive(b) \/ PickClosed(b)
    \/ Scan(b) \/ Merge(b) \/ Rewrite(b) \/ Wire(b)
    \/ FindRow(b) \/ Mark(b)

LEMMA NextActs == ASSUME Next PROVE \E b \in Backend : Acts(b)
  BY DEF Next, Acts

\* In a calm history a step was calm before, and other backends are idle.
LEMMA CalmBefore == ASSUME IInv, NEW b \in Backend, Acts(b), calm' PROVE calm
  <1>1. calm' = calm \/ (calm' = (calm /\ \A x \in DOMAIN xact : ~InProgress(xact, x)))
        \/ (calm' = (calm /\ pc[b] = "idle" /\ ~loc[b].ddl))
    BY DEF Acts, Begin, Commit, Abort, Insert, Delete, ReadHead, AppendRecord, FixPrev, SetHead,
           StartWalk, StampMember, WalkOn, WalkEnds, RotateActive, Rotate, CloseActive, AddActive,
           Compact, PickOldest, CompactActive, PickClosed, Scan, Merge, Rewrite, Wire, FindRow, Mark
  <1>2. calm \in BOOLEAN
    BY DEF IInv, TypeOK
  <1>3. QED  BY <1>1, <1>2, Zenon

LEMMA ActsAlone ==
    ASSUME IInv, TablesInv, NEW b \in Backend, Acts(b), calm'
    PROVE  Idle(b) /\ (Begin(b) \/ xid[b] # NoXid)
  <1>1. pc[b] # "idle" => xid[b] # NoXid
    BY AtStep
  <1>2. CASE Begin(b)
    <2>1. \A x \in DOMAIN xact : ~InProgress(xact, x)
      <3>1. calm' = (calm /\ \A x \in DOMAIN xact : ~InProgress(xact, x)) /\ calm \in BOOLEAN
        BY <1>2 DEF Begin, IInv, TypeOK
      <3>2. QED  BY <3>1, Zenon
    <2>2. \A c \in Backend : xid[c] \in XidsOf(xact) /\ (xid[c] # NoXid => xact[xid[c]] = "running")
      BY AtStep DEF IInv, MetaInv, XactsHeld
    <2>3. \A c \in Backend : xid[c] = NoXid
      BY <2>1, <2>2 DEF InProgress, XidsOf
    <2>4. QED  BY <1>2, <2>3 DEF Idle, IInv, MetaInv, XactsHeld
  <1>3. CASE ~Begin(b)
    <2>1. xid[b] # NoXid
      <3>1. pc[b] # "idle" \/ xid[b] # NoXid
        BY <1>3 DEF Acts, Commit, CanCall, Abort, Insert, Delete, ReadHead, AppendRecord, FixPrev,
             SetHead, StartWalk, StampMember, WalkOn, WalkEnds, RotateActive, CloseActive, AddActive,
             Compact, CompactActive, PickClosed, Scan, Merge, Rewrite, Wire, FindRow, Mark
      <3>2. QED  BY <1>1, <3>1
    <2>2. QED  BY <2>1, OthersIdle DEF TablesInv, Idle
  <1>4. QED  BY <1>2, <1>3

\* A rollback out of a call, or of changes to the metadata, is not calm.
LEMMA EndsIdle ==
    ASSUME IInv, NEW b \in Backend, Commit(b) \/ Abort(b), calm'
    PROVE  pc[b] = "idle"
  <1>1. CASE Abort(b)
    <2>1. calm' = (calm /\ pc[b] = "idle" /\ ~loc[b].ddl) /\ calm \in BOOLEAN
      BY <1>1 DEF Abort, IInv, TypeOK
    <2>2. QED  BY <2>1, Zenon
  <1>2. CASE Commit(b)
    BY <1>2 DEF Commit, CanCall
  <1>3. QED  BY <1>1, <1>2

LEMMA TablesStep ==
    ASSUME IInv, TablesInv, NEW b \in Backend, Acts(b), calm' PROVE TablesInv'
  <1>1. Begin(b) \/ xid[b] # NoXid
    BY ActsAlone
  <1>2. CASE Begin(b) \/ Commit(b) \/ Abort(b)
    BY <1>2, TablesBegin, TablesEnd
  <1>3. CASE \E e \in Entry : Insert(b, e)
    BY <1>3, TablesInsert
  <1>4. CASE \E e \in Entry : Delete(b, e)
    <2>1. /\ UNCHANGED <<xact, xid, meta>> /\ Others(b) /\ loc'[b].ddl = loc[b].ddl
          /\ pc'[b] = "startWalk" /\ xid[b] # NoXid
      BY <1>4, DeleteEffect DEF Stays
    <2>2. QED  BY <2>1, TablesOn
  <1>5. CASE ReadHead(b)
    <2>1. /\ UNCHANGED <<xact, xid, meta>> /\ Others(b) /\ loc'[b].ddl = loc[b].ddl
          /\ loc'[b].tbl = loc[b].tbl /\ pc[b] \in Inserting /\ pc'[b] \in Inserting /\ xid[b] # NoXid
      BY <1>5, ReadHeadEffect, AtStep DEF Stays, Inserting
    <2>2. QED  BY <2>1, TablesOn
  <1>6. CASE AppendRecord(b)
    <2>1. /\ UNCHANGED <<xact, xid, meta>> /\ Others(b) /\ loc'[b].ddl = loc[b].ddl
          /\ loc'[b].tbl = loc[b].tbl /\ pc[b] \in Inserting /\ pc'[b] \in Inserting /\ xid[b] # NoXid
      BY <1>6, AppendRecordEffect, AtStep DEF Stays, Inserting
    <2>2. QED  BY <2>1, TablesOn
  <1>7. CASE FixPrev(b)
    <2>1. /\ UNCHANGED <<xact, xid, meta>> /\ Others(b) /\ loc'[b].ddl = loc[b].ddl
          /\ loc'[b].tbl = loc[b].tbl /\ pc[b] \in Inserting /\ pc'[b] \in Inserting /\ xid[b] # NoXid
      BY <1>7, FixPrevEffect, AtStep DEF Inserting
    <2>2. QED  BY <2>1, TablesOn
  <1>8. CASE SetHead(b) \/ StampMember(b) \/ WalkEnds(b)
    <2>1. pc[b] # "idle" /\ Return(b) /\ UNCHANGED <<xact, xid, meta>>
      BY <1>8 DEF SetHead, StampMember, WalkEnds, data
    <2>2. pc'[b] = "idle" /\ Others(b) /\ loc'[b].ddl = loc[b].ddl /\ xid[b] # NoXid
      BY <2>1, ReturnEffect, AtStep DEF NowAt
    <2>3. QED  BY <2>1, <2>2, TablesOn
  <1>9. CASE StartWalk(b) \/ WalkOn(b)
    <2>1. /\ UNCHANGED <<xact, xid, meta>> /\ Others(b) /\ loc'[b].ddl = loc[b].ddl
          /\ pc'[b] = "walk" /\ pc[b] # "idle"
      BY <1>9, WalkEffect DEF Stays
    <2>2. QED  BY <2>1, TablesOn, AtStep
  <1>10. CASE RotateActive(b) \/ CompactActive(b)
    BY <1>10, TablesRotate
  <1>11. CASE CloseActive(b) \/ AddActive(b) \/ Mark(b)
    BY <1>11, TablesClose, TablesAdd, TablesMark
  <1>12. CASE Compact(b) \/ PickClosed(b)
    BY <1>12, TablesPick
  <1>13. CASE Scan(b)
    <2>1. PICK V : V = {node[n].owner : n \in {k \in DOMAIN node : TableOf(k) = loc[b].tbl}}
      OBVIOUS
    <2>2. /\ UNCHANGED <<xact, xid, meta>> /\ Others(b) /\ loc'[b].ddl = loc[b].ddl
          /\ loc'[b].tbl = loc[b].tbl /\ pc[b] = "scan" /\ pc'[b] \in {"findRow", "merge"}
      BY <1>13, <2>1, ScanEffect DEF NowAt
    <2>3. QED  BY <2>2, TablesOn, AtStep DEF Compacting
  <1>14. CASE Merge(b)
    <2>1. /\ UNCHANGED <<xact, xid, meta>> /\ Others(b) /\ loc'[b].ddl = loc[b].ddl
          /\ loc'[b].tbl = loc[b].tbl /\ pc[b] = "merge" /\ pc'[b] = "rewrite"
      BY <1>14, MergeEffect DEF NowAt
    <2>2. QED  BY <2>1, TablesOn, AtStep DEF Compacting
  <1>15. CASE Rewrite(b)
    <2>1. /\ UNCHANGED <<xact, xid, meta>> /\ Others(b) /\ loc'[b].ddl = loc[b].ddl
          /\ loc'[b].tbl = loc[b].tbl /\ pc[b] = "rewrite" /\ pc'[b] = "wire"
      BY <1>15, RewriteEffect DEF NowAt
    <2>2. QED  BY <2>1, TablesOn, AtStep DEF Compacting
  <1>16. CASE Wire(b)
    <2>1. /\ UNCHANGED <<xact, xid, meta>> /\ Others(b) /\ loc'[b].ddl = loc[b].ddl
          /\ loc'[b].tbl = loc[b].tbl /\ pc[b] = "wire" /\ pc'[b] \in {"findRow", "merge"}
      BY <1>16, WireEffect DEF NowAt
    <2>2. QED  BY <2>1, TablesOn, AtStep DEF Compacting
  <1>17. CASE FindRow(b)
    BY <1>17, TablesFindRow
  <1>18. QED
    BY <1>2, <1>3, <1>4, <1>5, <1>6, <1>7, <1>8, <1>9, <1>10, <1>11, <1>12, <1>13, <1>14, <1>15,
       <1>16, <1>17 DEF Acts

\* Steps that write no list.
LEMMA ListsQuiet ==
    ASSUME IInv, TablesInv, ListsInv, NEW b \in Backend, Idle(b), calm',
           \/ Begin(b) \/ Commit(b) \/ Abort(b)
           \/ \E e \in Entry : Insert(b, e) \/ Delete(b, e)
           \/ ReadHead(b) \/ StartWalk(b) \/ WalkOn(b) \/ WalkEnds(b)
           \/ RotateActive(b) \/ CloseActive(b) \/ AddActive(b)
           \/ Compact(b) \/ CompactActive(b) \/ PickClosed(b)
    PROVE  ListsInv'
  <1> DEFINE Same == \A t : (HasRow(t) => HasRow(t)') /\ (Done(t)' <=> Done(t))
             Goal == /\ Others(b) /\ UNCHANGED <<node, head>> /\ Same
                     /\ pc[b] \notin Moving \cup Linking /\ pc'[b] \notin Moving \cup Linking
                     /\ InsertSet(b)'
  <1>1. UNCHANGED meta => Same
    BY DEF HasRow, Done, Present
  <1>2. pc'[b] \notin {"appendRecord", "fixPrev", "setHead"} => InsertSet(b)'
    BY DEF InsertSet, Linking
  <1>3. loc \in [Backend -> Locals] /\ pc \in [Backend -> Steps]
    BY AtStep
  <1> HIDE DEF Same
  <1>4. CASE Begin(b)
    <2>1. UNCHANGED <<pc, loc, meta, node, head>> /\ pc[b] = "idle"
      BY <1>4 DEF Begin, data
    <2>2. QED  BY <1>1, <1>2, <2>1, ListsAside DEF Others, Moving, Linking, Same
  <1>5. CASE Commit(b) \/ Abort(b)
    <2>1. pc[b] = "idle"
      BY <1>5, EndsIdle
    <2>2. PICK s : End(b, s)
      BY <1>5 DEF Commit, Abort
    <2>3. pc'[b] = "idle" /\ Others(b) /\ UNCHANGED <<meta, node, head>>
      BY <2>2, EndEffect DEF End, data
    <2>4. QED  BY <1>1, <1>2, <2>1, <2>3, ListsAside DEF Moving, Linking, Same
  <1>6. CASE \E e \in Entry : Insert(b, e)
    <2>1. pc[b] = "idle" /\ pc'[b] = "readHead" /\ Others(b) /\ UNCHANGED <<meta, node, head>>
      BY <1>6, InsertEffect DEF NowAt
    <2>2. QED  BY <1>1, <1>2, <2>1, ListsAside DEF Moving, Linking, Same
  <1>7. CASE \E e \in Entry : Delete(b, e)
    <2>1. pc[b] = "idle" /\ pc'[b] = "startWalk" /\ Others(b) /\ UNCHANGED <<meta, node, head>>
      BY <1>7, DeleteEffect
    <2>2. QED  BY <1>1, <1>2, <2>1, ListsAside DEF Moving, Linking, Same
  <1>8. CASE ReadHead(b)
    <2>1. /\ pc[b] = "readHead" /\ pc'[b] = "appendRecord" /\ Others(b) /\ UNCHANGED <<meta, node, head>>
          /\ loc'[b].at = head[OwnerOf[loc[b].entry]] /\ loc'[b].entry = loc[b].entry
      BY <1>8, ReadHeadEffect
    <2>2. InsertSet(b)'
      BY <2>1 DEF InsertSet, Linking
    <2>3. QED  BY <1>1, <2>1, <2>2, ListsAside DEF Moving, Linking, Same
  <1>9. CASE StartWalk(b) \/ WalkOn(b)
    <2>1. /\ pc[b] \in {"startWalk", "walk"} /\ pc'[b] = "walk" /\ Others(b)
          /\ UNCHANGED <<meta, node, head>>
      BY <1>9, WalkEffect
    <2>2. QED  BY <1>1, <1>2, <2>1, ListsAside DEF Moving, Linking, Same
  <1>10. CASE WalkEnds(b)
    <2>1. /\ pc[b] = "walk" /\ pc'[b] = "idle" /\ Others(b) /\ UNCHANGED <<meta, node, head>>
      BY <1>10, ReturnEffect DEF WalkEnds, NowAt, data
    <2>2. QED  BY <1>1, <1>2, <2>1, ListsAside DEF Moving, Linking, Same
  <1>11. CASE RotateActive(b) \/ CompactActive(b)
    <2>1. /\ pc[b] = "idle" /\ pc'[b] = "close" /\ Others(b) /\ UNCHANGED <<meta, node, head>>
      BY <1>11, RotateEffect DEF NowAt
    <2>2. QED  BY <1>1, <1>2, <2>1, ListsAside DEF Moving, Linking, Same
  <1>12. CASE CloseActive(b)
    <2>1. /\ pc[b] = "close" /\ pc'[b] = "addActive" /\ Others(b) /\ UNCHANGED <<node, head>>
      BY <1>3, <1>12 DEF CloseActive, Goto, Others
    <2>2. Same
      BY <1>12, TablesClose DEF Same
    <2>3. QED  BY <1>2, <2>1, <2>2, ListsAside DEF Moving, Linking, Same
  <1>13. CASE AddActive(b)
    <2>1. /\ pc[b] = "addActive" /\ pc'[b] \in {"idle", "pick"} /\ Others(b) /\ UNCHANGED <<node, head>>
      BY <1>13, AddActiveEffect
    <2>2. Same
      BY <1>13, TablesAdd DEF Same
    <2>3. QED  BY <1>2, <2>1, <2>2, ListsAside DEF Moving, Linking, Same
  <1>14. CASE Compact(b) \/ PickClosed(b)
    <2>1. /\ pc[b] \in {"idle", "pick"} /\ pc'[b] = "scan" /\ Others(b) /\ UNCHANGED <<meta, node, head>>
      BY <1>14, PickOldestEffect DEF NowAt
    <2>2. QED  BY <1>1, <1>2, <2>1, ListsAside DEF Moving, Linking, Same
  <1>15. QED
    BY <1>4, <1>5, <1>6, <1>7, <1>8, <1>9, <1>10, <1>11, <1>12, <1>13, <1>14

LEMMA ListsStep ==
    ASSUME IInv, IInv', TablesInv, ListsInv, NEW b \in Backend, Acts(b), calm' PROVE ListsInv'
  <1>1. Idle(b)
    BY ActsAlone
  <1>2. CASE AppendRecord(b) \/ FixPrev(b) \/ SetHead(b) \/ StampMember(b)
    BY <1>1, <1>2, ListsAppend, ListsFixPrev, ListsSetHead, ListsStamp
  <1>3. CASE Scan(b) \/ Merge(b) \/ Rewrite(b) \/ Wire(b) \/ FindRow(b) \/ Mark(b)
    BY <1>1, <1>3, ListsScan, ListsMerge, ListsRewrite, ListsWire, ListsFindRow, ListsMark
  <1>4. CASE /\ ~(AppendRecord(b) \/ FixPrev(b) \/ SetHead(b) \/ StampMember(b))
             /\ ~(Scan(b) \/ Merge(b) \/ Rewrite(b) \/ Wire(b) \/ FindRow(b) \/ Mark(b))
    BY <1>1, <1>4, ListsQuiet DEF Acts
  <1>5. QED  BY <1>2, <1>3, <1>4

\* The table a scan is at is the oldest one: chains lead out of it into the
\* array list only.
LEMMA ScanLeadsDown ==
    ASSUME IInv, TablesInv, ListsInv, NEW b \in Backend, pc[b] = "scan"
    PROVE  LeadsIntoArray(loc[b].tbl)
  <1>1. PICK t : t = loc[b].tbl
    OBVIOUS
  <1>2. IsOldest(t) /\ SeqFacts /\ xid[b] # NoXid
    BY <1>1, AtStep DEF TablesInv, TablesSet, TableSet, Compacting
  <1>3. Idle(b)
    BY <1>2, OthersIdle DEF Idle, TablesInv
  <1>4. PICK i \in Present : meta[i].tbl = t /\ ~meta[i].compacted
    BY <1>2 DEF IsOldest
  <1>5. \A k \in Present : k \in DOMAIN meta /\ meta[k].tbl \in Nat
    BY <1>2 DEF Present, SeqFacts, MetaRow
  <1>6. t # ArrayList /\ t \in Nat /\ ~Done(t)
    <2>1. t \in DOMAIN maker
      BY <1>2, <1>4, <1>5 DEF SeqFacts, MetaRow
    <2>2. QED  BY <1>2, <1>4, <2>1 DEF SeqFacts, ArrayList, Done, TablesInv, TablesOrdered
  <1>7. \A n : ~Pending(n) /\ (Moved(n) <=> Done(TableOf(n)))
    BY <1>3, StandingIs DEF Linking, Moving
  <1>8. SUFFICES ASSUME NEW n \in DOMAIN node, TableOf(n) = t, Leaves(node[n].next, t)
                 PROVE  TableOf(node[n].next) = ArrayList
    BY <1>1 DEF LeadsIntoArray
  <1>9. PICK v : v = node[n].owner
    OBVIOUS
  <1>10. n \in Standing(v) /\ v \in Vertex
    BY <1>2, <1>6, <1>7, <1>8, <1>9 DEF Standing, Lists, SeqFacts, Node
  <1>11. PICK m : m = node[n].next /\ m # Nil /\ TableOf(m) # t
    BY <1>8 DEF Leaves
  <1>12. m \in Standing(v) \cup Arrays
    BY <1>10, <1>11 DEF ListsInv, ChainsStand, ChainStands
  <1>13. ASSUME m \in Standing(v) PROVE FALSE
    <2>1. m \in Lists /\ n \in Lists /\ ~Done(TableOf(m))
      BY <1>7, <1>10, <1>13 DEF Standing
    <2>2. m <= n
      <3>1. m < n
        BY <1>10, <1>11, <1>13 DEF ListsInv, ChainsStand, ChainStands, Stands
      <3>2. m \in Nat /\ n \in Nat
        BY <1>2, <2>1 DEF Lists, SeqFacts
      <3>3. QED  BY <3>1, <3>2
    <2>3. TableOf(m) <= t
      BY <1>8, <2>1, <2>2 DEF ListsInv, RecordsInOrder
    <2>4. PICK k \in Present : meta[k].tbl = TableOf(m)
      BY <2>1 DEF ListsInv, RecordsInOrder, HasRow
    <2>5. t <= TableOf(m) /\ TableOf(m) \in Nat
      BY <1>2, <1>5, <2>1, <2>4 DEF IsOldest, Done
    <2>6. QED  BY <1>6, <1>11, <2>3, <2>5
  <1>14. QED  BY <1>11, <1>12, <1>13 DEF Arrays
-----------------------------------------------------------------------------
(* The nodes a walk meets.                                                   *)

Reaches == [n \in {Nil} \cup DOMAIN node |-> ToSet(Chain[n])]
On(v) == Reaches[head[v]]

LEMMA ChainIsSeq ==
    ASSUME SeqFacts, Founded(node)
    PROVE  \A n \in {Nil} \cup DOMAIN node : Chain[n] \in Seq(DOMAIN node)
  <1>1. Links(node)
    BY LinksThere
  <1>2. Chain[Nil] = <<>> /\ \A n \in DOMAIN node : Chain[n] = <<n>> \o Chain[node[n].next]
    BY <1>1, ChainSteps DEF SeqFacts
  <1> DEFINE Bad == {n \in DOMAIN node : Chain[n] \notin Seq(DOMAIN node)}
  <1>3. ASSUME Bad # {} PROVE FALSE
    <2>1. PICK n \in Bad : node[n].next \notin Bad
      BY <1>3 DEF Founded
    <2>2. n \in DOMAIN node /\ node[n].next \in DOMAIN node \cup {Nil}
      BY <1>1 DEF Links
    <2>3. Chain[node[n].next] \in Seq(DOMAIN node)
      <3>1. PICK m : m = node[n].next
        OBVIOUS
      <3>2. CASE m = Nil
        <4>1. <<>> \in Seq(DOMAIN node)
          OBVIOUS
        <4>2. QED  BY <1>2, <3>1, <3>2, <4>1
      <3>3. CASE m # Nil
        <4>1. m \in DOMAIN node /\ m \notin Bad
          BY <2>1, <2>2, <3>1, <3>3
        <4>2. QED  BY <3>1, <4>1
      <3>4. QED  BY <3>2, <3>3
    <2>4. <<n>> \o Chain[node[n].next] \in Seq(DOMAIN node)
      <3>1. PICK s : s = Chain[node[n].next]
        OBVIOUS
      <3>2. <<n>> \in Seq(DOMAIN node)
        BY <2>2
      <3>3. <<n>> \o s \in Seq(DOMAIN node)
        BY <2>3, <3>1, <3>2, ConcatProperties
      <3>4. QED  BY <3>1, <3>3
    <2>5. QED  BY <1>2, <2>1, <2>2, <2>4
  <1>4. <<>> \in Seq(DOMAIN node)
    OBVIOUS
  <1>5. QED  BY <1>2, <1>3, <1>4

LEMMA ReachesThere == SeqFacts /\ Founded(node) => IsReach(node, Reaches)
  <1> SUFFICES ASSUME SeqFacts, Founded(node) PROVE IsReach(node, Reaches)
    OBVIOUS
  <1>1. Links(node) /\ \A n \in {Nil} \cup DOMAIN node : Chain[n] \in Seq(DOMAIN node)
    BY LinksThere, ChainIsSeq
  <1>2. Chain[Nil] = <<>> /\ \A n \in DOMAIN node : Chain[n] = <<n>> \o Chain[node[n].next]
    BY <1>1, ChainSteps DEF SeqFacts
  <1>3. Reaches[Nil] = {}
    BY <1>2 DEF Reaches, ToSet
  <1>4. ASSUME NEW n \in DOMAIN node PROVE Reaches[n] = {n} \cup Reaches[node[n].next]
    <2>1. PICK m : m = node[n].next /\ m \in {Nil} \cup DOMAIN node
      BY <1>1 DEF Links
    <2>2. PICK s, t : s = Chain[m] /\ t = Chain[n]
      OBVIOUS
    <2>3. s \in Seq(DOMAIN node) /\ <<n>> \in Seq({n}) /\ t = <<n>> \o s
      <3>1. s \in Seq(DOMAIN node)
        BY <1>1, <2>1, <2>2
      <3>2. t = <<n>> \o s
        BY <1>2, <2>1, <2>2
      <3>3. <<n>> \in Seq({n})
        OBVIOUS
      <3>4. QED  BY <3>1, <3>2, <3>3
    <2>4. /\ Len(s) \in Nat /\ DOMAIN s = 1 .. Len(s) /\ Len(<<n>>) = 1 /\ <<n>>[1] = n
          /\ DOMAIN t = 1 .. 1 + Len(s)
          /\ \A i \in 1 .. 1 + Len(s) : t[i] = IF i <= 1 THEN <<n>>[i] ELSE s[i - 1]
      <3>1. Len(s) \in Nat /\ DOMAIN s = 1 .. Len(s) /\ Len(<<n>>) = 1 /\ <<n>>[1] = n
        BY <2>3
      <3>2. /\ DOMAIN t = 1 .. Len(<<n>>) + Len(s)
            /\ \A i \in 1 .. Len(<<n>>) + Len(s) :
                  t[i] = IF i <= Len(<<n>>) THEN <<n>>[i] ELSE s[i - Len(<<n>>)]
        BY <2>3, ConcatAt
      <3>3. QED  BY <3>1, <3>2
    <2>5. 1 \in DOMAIN t /\ t[1] = n
      BY <2>4
    <2>6. \A i \in DOMAIN s : i + 1 \in DOMAIN t /\ t[i + 1] = s[i]
      BY <2>4
    <2>7. \A i \in DOMAIN t : i = 1 \/ (i - 1 \in DOMAIN s /\ t[i] = s[i - 1])
      BY <2>4
    <2>8. ToSet(t) = {n} \cup ToSet(s)
      BY <2>5, <2>6, <2>7 DEF ToSet
    <2>9. QED  BY <2>1, <2>2, <2>8 DEF Reaches
  <1>5. QED  BY <1>3, <1>4 DEF IsReach

LEMMA ReachesNext == (SeqFacts /\ Founded(node) => IsReach(node, Reaches))'
  BY ReachesThere, PTL

\* A chain is its vertex's records and then its blocks.
LEMMA OnIs ==
    ASSUME IInv, TablesInv, ListsInv
    PROVE  /\ SeqFacts /\ Links(node) /\ Founded(node) /\ IsReach(node, Reaches)
           /\ \A v \in Vertex :
                /\ On(v) \subseteq DOMAIN node
                /\ Bottom(node, Standing(v), head[v]) \in Arrays \cup {Nil}
                /\ On(v) = Standing(v) \cup Reaches[Bottom(node, Standing(v), head[v])]
                /\ \A n \in On(v) : node[n].owner = v
           /\ \A n \in Arrays : Reaches[n] \subseteq Arrays
  <1>1. SeqFacts /\ Links(node) /\ Founded(node) /\ IsReach(node, Reaches)
        /\ \A v \in Vertex : head[v] \in DOMAIN node \cup {Nil}
    BY Facts, LinksThere, HeadsThere, ReachesThere DEF IInv, ListsInv
  <1>2. ASSUME NEW n \in Arrays PROVE Reaches[n] \subseteq Arrays
    <2>1. Arrays \in SUBSET DOMAIN node
      BY DEF Arrays
    <2>2. \A m \in Arrays : node[m].next \in Arrays \cup {Nil}
      <3>1. SUFFICES ASSUME NEW m \in Arrays PROVE node[m].next \in Arrays \cup {Nil}
        OBVIOUS
      <3>2. BlocksLeadDown /\ m \in DOMAIN node /\ node[m].next \in DOMAIN node \cup {Nil}
        BY <1>1, <2>1 DEF IInv, ListInv, Links
      <3>3. QED  BY <3>2 DEF BlocksLeadDown, Arrays
    <2>3. QED  BY <1>1, <2>1, <2>2, ReachStays
  <1>3. ASSUME NEW v \in Vertex
        PROVE  /\ On(v) \subseteq DOMAIN node
               /\ Bottom(node, Standing(v), head[v]) \in Arrays \cup {Nil}
               /\ On(v) = Standing(v) \cup Reaches[Bottom(node, Standing(v), head[v])]
               /\ \A n \in On(v) : node[n].owner = v
    <2>1. PICK L, h, o : L = Standing(v) /\ h = head[v] /\ o = Bottom(node, L, h)
      OBVIOUS
    <2>2. /\ Stands(node, L, h) /\ (L = {} => h \in {Nil} \cup Arrays)
          /\ \A n \in L : node[n].next \in L \cup Arrays \cup {Nil}
      BY <2>1 DEF ListsInv, ChainsStand, ChainStands
    <2>3. /\ L \in SUBSET DOMAIN node /\ L \in SUBSET Nat /\ h \in DOMAIN node \cup {Nil}
          /\ DOMAIN node \subseteq Nat
          /\ \A n \in L : n \notin Arrays /\ n # Nil /\ node[n].owner = v
      BY <1>1, <2>1 DEF Standing, Lists, Arrays, SeqFacts, Nil
    <2>4. o \in Arrays \cup {Nil}
      <3>1. CASE L = {}
        BY <2>1, <2>2, <3>1 DEF Bottom
      <3>2. CASE L # {}
        <4>1. FirstOf(L) \in L /\ \A m \in L : FirstOf(L) <= m
          BY <2>3, <3>2, LeastNat
        <4>2. o = node[FirstOf(L)].next
          BY <2>1, <3>2 DEF Bottom
        <4>3. o \notin L
          <5>1. SUFFICES ASSUME o \in L PROVE FALSE
            OBVIOUS
          <5>2. o < FirstOf(L) /\ FirstOf(L) <= o
            BY <2>2, <4>1, <4>2, <5>1 DEF Stands
          <5>3. QED  BY <2>3, <4>1, <5>1, <5>2
        <4>4. QED  BY <2>2, <4>1, <4>2, <4>3
      <3>3. QED  BY <3>1, <3>2
    <2>5. o \notin L
      BY <2>3, <2>4
    <2>6. Reaches[h] = L \cup Reaches[o]
      BY <1>1, <2>1, <2>2, <2>3, <2>5, ReachStands
    <2>7. Reaches[h] \subseteq DOMAIN node
      BY <1>1, <2>3, ReachIsIn
    <2>8. ASSUME NEW n \in Reaches[h] PROVE node[n].owner = v
      <3> DEFINE S == {m \in DOMAIN node : node[m].owner = v}
      <3>1. S \in SUBSET DOMAIN node /\ h \in S \cup {Nil}
        BY <2>1, <2>3 DEF ListsInv, OwnersAgree
      <3>2. \A m \in S : node[m].next \in S \cup {Nil}
        BY <1>1 DEF ListsInv, OwnersAgree, Links
      <3> HIDE DEF S
      <3>3. Reaches[h] \subseteq S
        BY <1>1, <3>1, <3>2, ReachStays
      <3>4. QED  BY <3>3 DEF S
    <2>9. QED  BY <2>1, <2>4, <2>6, <2>7, <2>8 DEF On
  <1>4. QED  BY <1>1, <1>2, <1>3

\* The list records on a chain are those that stand in it.
LEMMA OnLists ==
    ASSUME IInv, TablesInv, ListsInv, NEW v \in Vertex, NEW n \in On(v), n \in Lists
    PROVE  n \in Standing(v)
  <1>1. PICK o : o = Bottom(node, Standing(v), head[v]) /\ o \in Arrays \cup {Nil}
                 /\ On(v) = Standing(v) \cup Reaches[o]
    BY OnIs
  <1>2. Reaches[o] \subseteq Arrays
    BY <1>1, OnIs DEF IsReach
  <1>3. QED  BY <1>1, <1>2 DEF Lists, Arrays
-----------------------------------------------------------------------------
(* Members kept at nodes and members in a sequence.                          *)

Meets(N, S, x) == \E n \in S : \E i \in DOMAIN N[n].members : N[n].members[i] = x
MeetsOnce(N, S, e) ==
    \A m, n \in S : \A i \in DOMAIN N[m].members, k \in DOMAIN N[n].members :
        N[m].members[i].entry = e /\ N[n].members[k].entry = e => m = n /\ i = k
MeetsEntry(N, S, e) == \E x : Meets(N, S, x) /\ x.entry = e

Has(s, x) == \E i \in DOMAIN s : s[i] = x
HasOnce(s, e) == \A i, k \in DOMAIN s : s[i].entry = e /\ s[k].entry = e => i = k
HasEntry(s, e) == \E x : Has(s, x) /\ x.entry = e

\* The nodes of S keep what is in s, as often.
Agrees(N, S, s) ==
    /\ \A x : Meets(N, S, x) <=> Has(s, x)
    /\ \A e : MeetsOnce(N, S, e) <=> HasOnce(s, e)

LEMMA UnionMeets ==
    ASSUME NEW N, NEW S, NEW T, S \cap T = {}
    PROVE  /\ \A x : Meets(N, S \cup T, x) <=> Meets(N, S, x) \/ Meets(N, T, x)
           /\ \A e : MeetsOnce(N, S \cup T, e) <=>
                 /\ MeetsOnce(N, S, e) /\ MeetsOnce(N, T, e)
                 /\ ~(MeetsEntry(N, S, e) /\ MeetsEntry(N, T, e))
  <1>1. \A x : Meets(N, S \cup T, x) <=> Meets(N, S, x) \/ Meets(N, T, x)
    BY DEF Meets
  <1>2. ASSUME NEW e, MeetsOnce(N, S \cup T, e)
        PROVE  /\ MeetsOnce(N, S, e) /\ MeetsOnce(N, T, e)
               /\ ~(MeetsEntry(N, S, e) /\ MeetsEntry(N, T, e))
    <2>1. MeetsOnce(N, S, e) /\ MeetsOnce(N, T, e)
      BY <1>2 DEF MeetsOnce
    <2>2. ASSUME MeetsEntry(N, S, e), MeetsEntry(N, T, e) PROVE FALSE
      <3>1. PICK m \in S : \E i \in DOMAIN N[m].members : N[m].members[i].entry = e
        BY <2>2 DEF MeetsEntry, Meets
      <3>2. PICK n \in T : \E i \in DOMAIN N[n].members : N[n].members[i].entry = e
        BY <2>2 DEF MeetsEntry, Meets
      <3>3. m = n
        BY <1>2, <3>1, <3>2 DEF MeetsOnce
      <3>4. QED  BY <3>1, <3>2, <3>3
    <2>3. QED  BY <2>1, <2>2
  <1>3. ASSUME NEW e, MeetsOnce(N, S, e), MeetsOnce(N, T, e),
               ~(MeetsEntry(N, S, e) /\ MeetsEntry(N, T, e))
        PROVE  MeetsOnce(N, S \cup T, e)
    <2>1. SUFFICES ASSUME NEW m \in S \cup T, NEW n \in S \cup T,
                          NEW i \in DOMAIN N[m].members, NEW k \in DOMAIN N[n].members,
                          N[m].members[i].entry = e, N[n].members[k].entry = e
                   PROVE  m = n /\ i = k
      BY DEF MeetsOnce
    <2>2. \A M : (m \in M => MeetsEntry(N, M, e)) /\ (n \in M => MeetsEntry(N, M, e))
      BY <2>1 DEF MeetsEntry, Meets
    <2>3. (m \in S /\ n \in S) \/ (m \in T /\ n \in T)
      BY <1>3, <2>2
    <2>4. QED  BY <1>3, <2>1, <2>3 DEF MeetsOnce
  <1>4. QED  BY <1>1, <1>2, <1>3

LEMMA ConcatHas ==
    ASSUME NEW s, NEW A, s \in Seq(A), NEW t, NEW B, t \in Seq(B)
    PROVE  /\ \A x : Has(s \o t, x) <=> Has(s, x) \/ Has(t, x)
           /\ \A e : HasOnce(s \o t, e) <=>
                 /\ HasOnce(s, e) /\ HasOnce(t, e)
                 /\ ~(HasEntry(s, e) /\ HasEntry(t, e))
  <1>1. PICK u : u = s \o t
    OBVIOUS
  <1>2. /\ Len(s) \in Nat /\ DOMAIN s = 1 .. Len(s) /\ Len(t) \in Nat /\ DOMAIN t = 1 .. Len(t)
        /\ DOMAIN u = 1 .. Len(s) + Len(t)
        /\ \A i \in 1 .. Len(s) + Len(t) : u[i] = IF i <= Len(s) THEN s[i] ELSE t[i - Len(s)]
    <2>1. Len(s) \in Nat /\ DOMAIN s = 1 .. Len(s) /\ Len(t) \in Nat /\ DOMAIN t = 1 .. Len(t)
      OBVIOUS
    <2>2. QED  BY <1>1, <2>1, ConcatAt
  <1>3. \A i \in DOMAIN s : i \in DOMAIN u /\ u[i] = s[i] /\ i <= Len(s)
    BY <1>2
  <1>4. \A i \in DOMAIN t : Len(s) + i \in DOMAIN u /\ u[Len(s) + i] = t[i] /\ ~(Len(s) + i <= Len(s))
    BY <1>2
  <1>5. \A i \in DOMAIN u : \/ i \in DOMAIN s /\ u[i] = s[i]
                            \/ i - Len(s) \in DOMAIN t /\ u[i] = t[i - Len(s)]
    BY <1>2
  <1>6. ASSUME NEW x PROVE Has(u, x) <=> Has(s, x) \/ Has(t, x)
    BY <1>3, <1>4, <1>5 DEF Has
  <1>7. ASSUME NEW e, HasOnce(u, e)
        PROVE  HasOnce(s, e) /\ HasOnce(t, e) /\ ~(HasEntry(s, e) /\ HasEntry(t, e))
    <2>1. HasOnce(s, e)
      BY <1>3, <1>7 DEF HasOnce
    <2>2. HasOnce(t, e)
      <3>1. SUFFICES ASSUME NEW i \in DOMAIN t, NEW k \in DOMAIN t, t[i].entry = e, t[k].entry = e
                     PROVE  i = k
        BY DEF HasOnce
      <3>2. Len(s) + i = Len(s) + k
        BY <1>4, <1>7, <3>1 DEF HasOnce
      <3>3. QED  BY <1>2, <3>2
    <2>3. ASSUME HasEntry(s, e), HasEntry(t, e) PROVE FALSE
      <3>1. PICK i \in DOMAIN s : s[i].entry = e
        BY <2>3 DEF HasEntry, Has
      <3>2. PICK k \in DOMAIN t : t[k].entry = e
        BY <2>3 DEF HasEntry, Has
      <3>3. i = Len(s) + k
        BY <1>3, <1>4, <1>7, <3>1, <3>2 DEF HasOnce
      <3>4. QED  BY <1>3, <1>4, <3>3
    <2>4. QED  BY <2>1, <2>2, <2>3
  <1>8. ASSUME NEW e, HasOnce(s, e), HasOnce(t, e), ~(HasEntry(s, e) /\ HasEntry(t, e))
        PROVE  HasOnce(u, e)
    <2>1. SUFFICES ASSUME NEW i \in DOMAIN u, NEW k \in DOMAIN u, u[i].entry = e, u[k].entry = e
                   PROVE  i = k
      BY DEF HasOnce
    <2>2. i \in DOMAIN s /\ k \in DOMAIN s => i = k
      BY <1>3, <1>8, <2>1 DEF HasOnce
    <2>3. (i - Len(s) \in DOMAIN t /\ k - Len(s) \in DOMAIN t) /\ i \notin DOMAIN s /\ k \notin DOMAIN s => i = k
      <3>1. SUFFICES ASSUME i - Len(s) \in DOMAIN t, k - Len(s) \in DOMAIN t, i \notin DOMAIN s, k \notin DOMAIN s
                     PROVE  i = k
        OBVIOUS
      <3>2. u[i] = t[i - Len(s)] /\ u[k] = t[k - Len(s)]
        BY <1>5, <3>1
      <3>3. i - Len(s) = k - Len(s)
        BY <1>8, <2>1, <3>1, <3>2 DEF HasOnce
      <3>4. QED  BY <1>2, <3>3
    <2>4. \A l \in DOMAIN u : u[l].entry = e =>
             (l \in DOMAIN s /\ HasEntry(s, e)) \/ (l - Len(s) \in DOMAIN t /\ l \notin DOMAIN s /\ HasEntry(t, e))
      BY <1>3, <1>5 DEF HasEntry, Has
    <2>5. QED  BY <1>8, <2>1, <2>2, <2>3, <2>4
  <1>9. QED  BY <1>1, <1>6, <1>7, <1>8

LEMMA AgreesEntry ==
    ASSUME NEW N, NEW S, NEW s, Agrees(N, S, s)
    PROVE  \A e : MeetsEntry(N, S, e) <=> HasEntry(s, e)
  BY DEF Agrees, MeetsEntry, HasEntry

LEMMA AgreesConcat ==
    ASSUME NEW N, NEW S, NEW T, S \cap T = {},
           NEW s, NEW A, s \in Seq(A), NEW t, NEW B, t \in Seq(B),
           Agrees(N, S, s), Agrees(N, T, t)
    PROVE  Agrees(N, S \cup T, s \o t)
  <1>1. PICK u, V : u = s \o t /\ V = S \cup T
    OBVIOUS
  <1>2. ASSUME NEW x PROVE Meets(N, V, x) <=> Has(u, x)
    <2>1. Meets(N, V, x) <=> Meets(N, S, x) \/ Meets(N, T, x)
      BY <1>1, UnionMeets
    <2>2. Has(u, x) <=> Has(s, x) \/ Has(t, x)
      BY <1>1, ConcatHas
    <2>3. QED  BY <2>1, <2>2 DEF Agrees
  <1>3. ASSUME NEW e PROVE MeetsOnce(N, V, e) <=> HasOnce(u, e)
    <2>1. MeetsOnce(N, V, e) <=> /\ MeetsOnce(N, S, e) /\ MeetsOnce(N, T, e)
                                 /\ ~(MeetsEntry(N, S, e) /\ MeetsEntry(N, T, e))
      BY <1>1, UnionMeets
    <2>2. HasOnce(u, e) <=> /\ HasOnce(s, e) /\ HasOnce(t, e)
                            /\ ~(HasEntry(s, e) /\ HasEntry(t, e))
      BY <1>1, ConcatHas
    <2>3. (MeetsEntry(N, S, e) <=> HasEntry(s, e)) /\ (MeetsEntry(N, T, e) <=> HasEntry(t, e))
      BY AgreesEntry
    <2>4. (MeetsOnce(N, S, e) <=> HasOnce(s, e)) /\ (MeetsOnce(N, T, e) <=> HasOnce(t, e))
      BY DEF Agrees
    <2>5. QED  BY <2>1, <2>2, <2>3, <2>4
  <1>4. QED  BY <1>1, <1>2, <1>3 DEF Agrees

LEMMA AgreesOne == ASSUME NEW N, NEW n PROVE Agrees(N, {n}, N[n].members)
  BY DEF Agrees, Meets, MeetsOnce, Has, HasOnce

LEMMA AgreesNone == ASSUME NEW N PROVE Agrees(N, {}, <<>>)
  BY DEF Agrees, Meets, MeetsOnce, Has, HasOnce

\* The members of the nodes C[1] to C[k], one node after the other.
Carries(N, C, k, G, A) ==
    /\ G[0] \in Seq(A) /\ Agrees(N, {}, G[0])
    /\ \A i \in 1 .. k : N[C[i]].members \in Seq(A) /\ G[i] = G[i - 1] \o N[C[i]].members
    /\ \A i, l \in 1 .. k : C[i] = C[l] => i = l

KeepTogether(N, C, k, s) == \E T : (\A x : x \in T <=> \E i \in 1 .. k : x = C[i]) /\ Agrees(N, T, s)

LEMMA CarryAll ==
    ASSUME NEW N, NEW C, NEW k \in Nat, NEW G, NEW A, Carries(N, C, k, G, A)
    PROVE  G[k] \in Seq(A) /\ KeepTogether(N, C, k, G[k])
  <1>0. /\ G[0] \in Seq(A) /\ Agrees(N, {}, G[0])
        /\ \A i \in 1 .. k : N[C[i]].members \in Seq(A) /\ G[i] = G[i - 1] \o N[C[i]].members
        /\ \A i, l \in 1 .. k : C[i] = C[l] => i = l
    BY DEF Carries
  <1> DEFINE S(n) == {C[i] : i \in 1 .. n}
             Bad == {n \in 0 .. k : ~(G[n] \in Seq(A) /\ Agrees(N, S(n), G[n]))}
  <1>1. ASSUME Bad # {} PROVE FALSE
    <2>1. PICK n \in Bad : \A m \in Bad : n <= m
      <3>1. Bad \in SUBSET Nat
        OBVIOUS
      <3>2. FirstOf(Bad) \in Bad /\ \A m \in Bad : FirstOf(Bad) <= m
        BY <1>1, <3>1, LeastNat
      <3>3. QED  BY <3>2
    <2>2. n \in 0 .. k /\ ~(G[n] \in Seq(A) /\ Agrees(N, S(n), G[n]))
      BY <2>1
    <2>3. n # 0
      <3>1. S(0) = {}
        OBVIOUS
      <3>2. G[0] \in Seq(A) /\ Agrees(N, S(0), G[0])
        BY <1>0, <3>1
      <3>3. QED  BY <2>2, <3>2
    <2>4. n \in 1 .. k /\ n - 1 \in 0 .. k
      BY <2>2, <2>3
    <2>5. G[n - 1] \in Seq(A) /\ Agrees(N, S(n - 1), G[n - 1])
      <3>1. n - 1 \notin Bad
        <4>1. n \in Nat /\ ~(n <= n - 1)
          BY <2>4
        <4>2. QED  BY <2>1, <4>1
      <3>2. QED  BY <2>4, <3>1
    <2>6. \A x : x \in S(n) <=> x \in S(n - 1) \/ x = C[n]
      <3>1. \A i : i \in 1 .. n <=> i \in 1 .. n - 1 \/ i = n
        BY <2>4
      <3>2. QED  BY <3>1
    <2>7. C[n] \notin S(n - 1)
      <3>1. \A i \in 1 .. n - 1 : i \in 1 .. k /\ i # n
        BY <2>4
      <3>2. QED  BY <1>0, <2>4, <3>1
    <2>8. PICK X, Y, c, g, h : X = S(n - 1) /\ Y = S(n) /\ c = C[n] /\ g = G[n - 1] /\ h = N[c].members
      OBVIOUS
    <2>9. Y = X \cup {c} /\ X \cap {c} = {}
      BY <2>6, <2>7, <2>8
    <2>10. g \in Seq(A) /\ h \in Seq(A) /\ G[n] = g \o h /\ Agrees(N, X, g)
      BY <1>0, <2>4, <2>5, <2>8
    <2>11. Agrees(N, {c}, h)
      BY <2>8, AgreesOne
    <2>12. g \o h \in Seq(A) /\ Agrees(N, X \cup {c}, g \o h)
      BY <2>9, <2>10, <2>11, AgreesConcat, ConcatProperties
    <2>13. QED  BY <2>2, <2>8, <2>9, <2>10, <2>12
  <1>2. k \in 0 .. k
    OBVIOUS
  <1>3. G[k] \in Seq(A) /\ Agrees(N, S(k), G[k])
    BY <1>1, <1>2
  <1>4. \A x : x \in S(k) <=> \E i \in 1 .. k : x = C[i]
    OBVIOUS
  <1> HIDE DEF S
  <1>5. QED  BY <1>3, <1>4 DEF KeepTogether

\* FlattenSeq puts sequences together.
LEMMA FlattenThere ==
    ASSUME NEW s, NEW k \in Nat \ {0}
    PROVE  \E f : f = [i \in 1 .. k |-> IF i = 1 THEN s[i] ELSE f[i - 1] \o s[i]]
  <1> DEFINE Is(f, n) == f = [i \in 1 .. n |-> IF i = 1 THEN s[i] ELSE f[i - 1] \o s[i]]
             Bad == {n \in 1 .. k : ~\E f : Is(f, n)}
  <1>1. ASSUME Bad # {} PROVE FALSE
    <2>1. PICK n \in Bad : \A m \in Bad : n <= m
      <3> HIDE DEF Is
      <3>1. Bad \in SUBSET Nat
        OBVIOUS
      <3>2. FirstOf(Bad) \in Bad /\ \A m \in Bad : FirstOf(Bad) <= m
        BY <1>1, <3>1, LeastNat
      <3>3. QED  BY <3>2
    <2>2. n \in 1 .. k /\ ~\E f : Is(f, n)
      BY <2>1
    <2>3. n # 1
      <3> DEFINE f == [i \in 1 .. 1 |-> s[1]]
      <3>1. f = [i \in 1 .. 1 |-> IF i = 1 THEN s[i] ELSE f[i - 1] \o s[i]]
        OBVIOUS
      <3>2. QED  BY <2>2, <3>1
    <2>4. n - 1 \in 1 .. k /\ n \in Nat /\ ~(n <= n - 1)
      BY <2>2, <2>3
    <2>5. PICK f : Is(f, n - 1)
      BY <2>1, <2>4
    <2> DEFINE r(i) == IF i = 1 THEN s[i] ELSE f[i - 1] \o s[i]
               g == [i \in 1 .. n |-> r(i)]
    <2>6. f = [i \in 1 .. n - 1 |-> r(i)]
      BY <2>5
    <2>7. \A i \in 1 .. n - 1 : i \in 1 .. n /\ g[i] = f[i]
      <3> HIDE DEF r
      <3>1. \A i \in 1 .. n - 1 : i \in 1 .. n /\ f[i] = r(i)
        BY <2>4, <2>6
      <3>2. QED  BY <3>1
    <2>8. \A i \in 1 .. n : i = 1 \/ i - 1 \in 1 .. n - 1
      BY <2>4
    <2> DEFINE q(i) == IF i = 1 THEN s[i] ELSE g[i - 1] \o s[i]
    <2>9. \A i \in 1 .. n : r(i) = q(i)
      BY <2>7, <2>8
    <2>10. g = [i \in 1 .. n |-> q(i)]
      <3> HIDE DEF q, r
      <3>1. QED  BY <2>9
    <2>11. Is(g, n)
      BY <2>10
    <2>12. QED  BY <2>2, <2>11
  <1>2. k \in 1 .. k
    OBVIOUS
  <1>3. QED  BY <1>1, <1>2

LEMMA FlattenIs ==
    ASSUME NEW s, NEW k \in Nat \ {0}, Len(s) = k
    PROVE  \E f : /\ f = [i \in 1 .. k |-> IF i = 1 THEN s[i] ELSE f[i - 1] \o s[i]]
                  /\ FlattenSeq(s) = f[k]
  <1>1. PICK f : f = [i \in 1 .. k |-> IF i = 1 THEN s[i] ELSE f[i - 1] \o s[i]]
    BY FlattenThere
  <1>2. QED  BY <1>1 DEF FlattenSeq

\* A walk meets no node twice.
LEMMA ChainOnce ==
    ASSUME SeqFacts, Founded(node)
    PROVE  \A n \in {Nil} \cup DOMAIN node :
              \A i, l \in DOMAIN Chain[n] : Chain[n][i] = Chain[n][l] => i = l
  <1>1. /\ Links(node) /\ IsReach(node, Reaches)
        /\ \A n \in {Nil} \cup DOMAIN node : Chain[n] \in Seq(DOMAIN node)
    BY LinksThere, ChainIsSeq, ReachesThere
  <1>2. Chain[Nil] = <<>> /\ \A n \in DOMAIN node : Chain[n] = <<n>> \o Chain[node[n].next]
    BY <1>1, ChainSteps DEF SeqFacts
  <1> DEFINE Twice(s) == \E i, l \in DOMAIN s : s[i] = s[l] /\ i # l
             Bad == {n \in DOMAIN node : Twice(Chain[n])}
  <1>3. ASSUME Bad # {} PROVE FALSE
    <2>1. PICK n \in Bad : node[n].next \notin Bad
      BY <1>3 DEF Founded
    <2>2. PICK m, s, t : m = node[n].next /\ s = Chain[m] /\ t = Chain[n]
      OBVIOUS
    <2>3. n \in DOMAIN node /\ m \in {Nil} \cup DOMAIN node /\ t = <<n>> \o s /\ s \in Seq(DOMAIN node)
      BY <1>1, <1>2, <2>2 DEF Links
    <2>4. ~Twice(s)
      <3>1. CASE m = Nil
        <4>1. DOMAIN s = {}
          BY <1>2, <2>2, <3>1
        <4>2. QED  BY <4>1
      <3>2. CASE m # Nil
        BY <2>1, <2>2, <2>3, <3>2
      <3>3. QED  BY <3>1, <3>2
    <2>5. n \notin ToSet(s)
      <3>1. n \notin Reaches[node[n].next]
        BY <1>1, <2>3, NoWayBack
      <3>2. QED  BY <2>2, <2>3, <3>1 DEF Reaches
    <2>6. /\ Len(s) \in Nat /\ DOMAIN s = 1 .. Len(s) /\ DOMAIN t = 1 .. 1 + Len(s)
          /\ \A i \in 1 .. 1 + Len(s) : t[i] = IF i = 1 THEN n ELSE s[i - 1]
      <3>1. Len(s) \in Nat /\ DOMAIN s = 1 .. Len(s) /\ Len(<<n>>) = 1 /\ <<n>>[1] = n
            /\ <<n>> \in Seq({n})
        BY <2>3
      <3>2. /\ DOMAIN t = 1 .. Len(<<n>>) + Len(s)
            /\ \A i \in 1 .. Len(<<n>>) + Len(s) :
                  t[i] = IF i <= Len(<<n>>) THEN <<n>>[i] ELSE s[i - Len(<<n>>)]
        BY <2>3, <3>1, ConcatAt
      <3>3. \A i \in 1 .. 1 + Len(s) : i <= 1 <=> i = 1
        BY <3>1
      <3>4. QED  BY <3>1, <3>2, <3>3
    <2>7. PICK i \in DOMAIN t, l \in DOMAIN t : t[i] = t[l] /\ i # l
      BY <2>1, <2>2
    <2>8. \A k \in DOMAIN t : k = 1 \/ (k - 1 \in DOMAIN s /\ t[k] = s[k - 1] /\ t[k] # n /\ k \in Nat)
      <3>1. SUFFICES ASSUME NEW k \in DOMAIN t, k # 1
                     PROVE  k - 1 \in DOMAIN s /\ t[k] = s[k - 1] /\ t[k] # n /\ k \in Nat
        OBVIOUS
      <3>2. k - 1 \in DOMAIN s /\ t[k] = s[k - 1] /\ k \in Nat
        BY <2>6, <3>1
      <3>3. QED  BY <2>5, <3>2 DEF ToSet
    <2>9. 1 \in DOMAIN t /\ t[1] = n
      BY <2>6
    <2>10. i # 1 /\ l # 1
      BY <2>7, <2>8, <2>9
    <2>11. i - 1 = l - 1
      BY <2>4, <2>7, <2>8, <2>10
    <2>12. QED  BY <2>7, <2>8, <2>10, <2>11
  <1>4. DOMAIN Chain[Nil] = {}
    BY <1>2
  <1>5. QED  BY <1>3, <1>4

LEMMA FoundIs ==
    ASSUME IInv, TablesInv, ListsInv, NEW v \in Vertex
    PROVE  Agrees(node, On(v), Found(v)) /\ \E n \in Nat : DOMAIN Found(v) = 1 .. n
  <1>1. SeqFacts /\ Founded(node) /\ head[v] \in {Nil} \cup DOMAIN node
    BY OnIs, HeadsThere
  <1>2. PICK C : C = Chain[head[v]]
    OBVIOUS
  <1>3. /\ C \in Seq(DOMAIN node) /\ On(v) = ToSet(C)
        /\ \A i, l \in DOMAIN C : C[i] = C[l] => i = l
    BY <1>1, <1>2, ChainIsSeq, ChainOnce DEF On, Reaches
  <1>4. PICK k \in Nat : k = Len(C)
    BY <1>3
  <1>5. DOMAIN C = 1 .. k /\ \A i \in 1 .. k : C[i] \in DOMAIN node
    BY <1>3, <1>4
  <1>6. PICK s : s = [i \in 1 .. k |-> node[C[i]].members] /\ Found(v) = FlattenSeq(s)
    BY <1>2, <1>5 DEF Found
  <1>7. \A i \in 1 .. k : s[i] = node[C[i]].members /\ s[i] \in Seq(Member)
    <2>1. \A i \in 1 .. k : node[C[i]] \in Node
      BY <1>1, <1>5 DEF SeqFacts
    <2>2. \A i \in 1 .. k : node[C[i]].members \in Seq(Member)
      BY <2>1 DEF Node
    <2>3. QED  BY <1>6, <2>2
  <1>8. Len(s) = k
    <2>1. s = [i \in 1 .. k |-> s[i]]
      BY <1>6
    <2>2. QED  BY <2>1, LenDomain
  <1>9. \E G : /\ G[0] = <<>> /\ \A i \in 1 .. k : G[i] = G[i - 1] \o node[C[i]].members
               /\ k # 0 => Found(v) = G[k]
    <2>1. CASE k = 0
      <3>1. PICK G : G = [i \in {0} |-> <<>>]
        OBVIOUS
      <3>2. G[0] = <<>> /\ \A i \in 1 .. k : FALSE
        BY <2>1, <3>1
      <3>3. QED  BY <2>1, <3>2
    <2>2. CASE k # 0
      <3>1. PICK f : /\ f = [i \in 1 .. k |-> IF i = 1 THEN s[i] ELSE f[i - 1] \o s[i]]
                     /\ FlattenSeq(s) = f[k]
        BY <1>8, <2>2, FlattenIs
      <3> DEFINE r(i) == IF i = 1 THEN s[i] ELSE f[i - 1] \o s[i]
      <3>2. f = [i \in 1 .. k |-> r(i)]
        BY <3>1
      <3>3. \A i \in 1 .. k : f[i] = r(i)
        <4> HIDE DEF r
        <4>1. QED  BY <3>2
      <3>4. PICK G : G = [i \in 0 .. k |-> IF i = 0 THEN <<>> ELSE f[i]]
        OBVIOUS
      <3>5. G[0] = <<>> /\ \A i \in 1 .. k : G[i] = f[i]
        BY <3>4
      <3>6. ASSUME NEW i \in 1 .. k PROVE G[i] = G[i - 1] \o node[C[i]].members
        <4>1. CASE i = 1
          <5>1. <<>> \o s[i] = s[i]
            BY <1>7, ConcatEmptySeq
          <5>2. f[1] = s[1] /\ 1 \in 1 .. k
            BY <3>3, <4>1
          <5>3. G[1] = s[1] /\ s[1] = node[C[1]].members
            BY <1>7, <3>5, <5>2
          <5>4. G[0] \o s[1] = s[1]
            BY <3>5, <4>1, <5>1
          <5>5. i - 1 = 0
            BY <4>1
          <5>6. QED  BY <4>1, <5>3, <5>4, <5>5
        <4>2. CASE i # 1
          <5>1. i - 1 \in 1 .. k
            BY <4>2
          <5>2. QED  BY <1>7, <3>3, <3>5, <4>2, <5>1
        <4>3. QED  BY <4>1, <4>2
      <3>7. k \in 1 .. k
        BY <2>2
      <3>8. QED  BY <1>6, <3>1, <3>5, <3>6, <3>7
    <2>3. QED  BY <2>1, <2>2
  <1>10. PICK G : /\ G[0] = <<>> /\ \A i \in 1 .. k : G[i] = G[i - 1] \o node[C[i]].members
                  /\ k # 0 => Found(v) = G[k]
    BY <1>9
  <1>11. \A i \in 1 .. k : node[C[i]].members \in Seq(Member)
    BY <1>7
  <1>12. \A i, l \in 1 .. k : C[i] = C[l] => i = l
    BY <1>3, <1>5
  <1>13. G[k] \in Seq(Member) /\ Agrees(node, {C[i] : i \in 1 .. k}, G[k])
    <2>1. <<>> \in Seq(Member) /\ Agrees(node, {}, <<>>)
      BY AgreesNone
    <2>2. Carries(node, C, k, G, Member)
      BY <1>10, <1>11, <1>12, <2>1 DEF Carries
    <2>3. G[k] \in Seq(Member) /\ KeepTogether(node, C, k, G[k])
      BY <2>2, CarryAll
    <2>4. PICK T : (\A x : x \in T <=> \E i \in 1 .. k : x = C[i]) /\ Agrees(node, T, G[k])
      BY <2>3 DEF KeepTogether
    <2>5. T = {C[i] : i \in 1 .. k}
      BY <2>4
    <2>6. QED  BY <2>3, <2>4, <2>5
  <1>14. On(v) = {C[i] : i \in 1 .. k}
    BY <1>3, <1>5 DEF ToSet
  <1>15. CASE k # 0
    <2>1. PICK S : S = {C[i] : i \in 1 .. k}
      OBVIOUS
    <2>2. Agrees(node, S, Found(v)) /\ Found(v) \in Seq(Member)
      BY <1>10, <1>13, <1>15, <2>1
    <2>3. Len(Found(v)) \in Nat /\ DOMAIN Found(v) = 1 .. Len(Found(v))
      BY <2>2
    <2>4. QED  BY <1>14, <2>1, <2>2, <2>3
  <1>16. CASE k = 0
    <2>1. Found(v) = s /\ DOMAIN s = {} /\ On(v) = {}
      <3>1. On(v) = {} /\ DOMAIN s = {}
        BY <1>6, <1>14, <1>16
      <3>2. Found(v) = s
        BY <1>6, <1>8, <1>16 DEF FlattenSeq
      <3>3. QED  BY <3>1, <3>2
    <2>2. DOMAIN Found(v) = 1 .. 0
      BY <2>1
    <2>3. Agrees(node, {}, s)
      BY <2>1 DEF Agrees, Meets, MeetsOnce, Has, HasOnce
    <2>4. QED  BY <2>1, <2>2, <2>3
  <1>17. QED  BY <1>15, <1>16

\* The new blocks keep what the job has gathered.
Holds(N, n, B) == \A i \in 1 .. Len(B) : N[n + i].members = B[i].members

LEMMA BlocksKeep ==
    ASSUME IInv, NEW j \in Job, NEW n \in Nat, NEW B, B = Blocks(j, n),
           NEW N, Holds(N, n, B)
    PROVE  \E T : /\ \A x : x \in T <=> \E i \in 1 .. Len(B) : x = n + i
                  /\ Agrees(N, T, j.members)
  <1>0. \A i \in 1 .. Len(B) : N[n + i].members = B[i].members
    BY DEF Holds
  <1> DEFINE K == (Len(j.members) + PerBlock - 1) \div PerBlock
  <1>1. PICK M, L, k, P : M = j.members /\ L = Len(M) /\ k = K /\ P = PerBlock
    OBVIOUS
  <1>2. M \in Seq(Member) /\ M # <<>>
    BY <1>1 DEF Job
  <1>3. L \in Nat \ {0} /\ P \in Nat \ {0}
    BY <1>1, <1>2, CompactionAssumption
  <1>4. /\ k \in Nat \ {0}
        /\ \A i \in 1 .. k : (i - 1) * P + 1 \in 1 .. L
        /\ \A i \in 1 .. k : i # k => i * P \in (i - 1) * P + 1 .. L
    <2>1. k = (L + P - 1) \div P
      BY <1>1
    <2>2. QED  BY <1>3, <2>1, Chunks
  <1>5. PICK h : h = [i \in 0 .. k |-> IF i = k THEN L ELSE i * P]
    OBVIOUS
  <1>6. /\ h[0] = 0 /\ h[k] = L
        /\ \A i \in 1 .. k : /\ h[i - 1] = (i - 1) * P
                             /\ h[i] = IF i = k THEN L ELSE i * P
                             /\ h[i - 1] \in 0 .. L /\ h[i] \in h[i - 1] .. L
    <2>1. h[0] = 0
      <3>1. 0 * P = 0 /\ 0 \in 0 .. k /\ 0 # k
        BY <1>3, <1>4
      <3>2. QED  BY <1>5, <3>1
    <2>2. h[k] = L
      BY <1>4, <1>5
    <2>3. ASSUME NEW i \in 1 .. k
          PROVE  /\ h[i - 1] = (i - 1) * P /\ h[i] = IF i = k THEN L ELSE i * P
                 /\ h[i - 1] \in 0 .. L /\ h[i] \in h[i - 1] .. L
      <3>1. i - 1 \in 0 .. k /\ i - 1 # k /\ i \in 0 .. k
        BY <1>4
      <3>2. h[i - 1] = (i - 1) * P /\ h[i] = IF i = k THEN L ELSE i * P
        BY <1>5, <3>1
      <3>3. PICK a, c : a = (i - 1) * P /\ c = i * P
        OBVIOUS
      <3>4. a + 1 \in 1 .. L /\ (i # k => c \in a + 1 .. L)
        BY <1>4, <3>3
      <3>5. a \in Int
        BY <1>3, <3>3
      <3>6. a \in 0 .. L /\ L \in a .. L /\ (i # k => c \in a .. L)
        BY <1>3, <3>4, <3>5
      <3>7. QED  BY <3>2, <3>3, <3>6
    <2>4. QED  BY <2>1, <2>2, <2>3
  <1>7. DOMAIN B = 1 .. k /\ \A i \in 1 .. k : B[i].members = SubSeq(M, h[i - 1] + 1, h[i])
    <2> DEFINE S(i) == SubSeq(M, (i - 1) * P + 1, IF i = k THEN L ELSE i * P)
    <2>1. B = [i \in 1 .. k |->
                 [tbl |-> ArrayList, owner |-> j.owner, members |-> S(i),
                  next |-> IF i = k THEN j.rest ELSE n + i + 1,
                  prev |-> IF i = 1 THEN j.up ELSE n + i - 1, xmax |-> NoXid]]
      BY <1>1 DEF Blocks
    <2>2. \A i \in 1 .. k : S(i) = SubSeq(M, h[i - 1] + 1, h[i])
      BY <1>6
    <2> HIDE DEF S
    <2> DEFINE r(i) == [tbl |-> ArrayList, owner |-> j.owner, members |-> S(i),
                        next |-> IF i = k THEN j.rest ELSE n + i + 1,
                        prev |-> IF i = 1 THEN j.up ELSE n + i - 1, xmax |-> NoXid]
    <2>3. DOMAIN B = 1 .. k /\ \A i \in 1 .. k : B[i].members = S(i)
      <3>1. \A i : r(i).members = S(i)
        OBVIOUS
      <3>2. B = [i \in 1 .. k |-> r(i)]
        BY <2>1
      <3> HIDE DEF r
      <3>3. QED  BY <3>1, <3>2
    <2>4. QED  BY <2>2, <2>3
  <1>8. Len(B) = k
    <2>1. Len(B) \in Nat \ {0} /\ DOMAIN B = 1 .. Len(B)
      BY BlocksAre
    <2>2. QED  BY <1>4, <1>7, <2>1
  <1>9. PICK C, G : C = [i \in 1 .. k |-> n + i] /\ G = [i \in 0 .. k |-> SubSeq(M, 1, h[i])]
    OBVIOUS
  <1>10. \A i \in 1 .. k : /\ C[i] = n + i /\ G[i] = SubSeq(M, 1, h[i])
                           /\ G[i - 1] = SubSeq(M, 1, h[i - 1])
    <2>1. \A i \in 1 .. k : i \in 0 .. k /\ i - 1 \in 0 .. k
      BY <1>4
    <2>2. QED  BY <1>9, <2>1
  <1>11. G[0] = <<>>
    <2>1. G[0] = SubSeq(M, 1, 0)
      BY <1>4, <1>6, <1>9
    <2>2. SubSeq(M, 1, 0) = <<>>
      BY SubSeqEmpty
    <2>3. QED  BY <2>1, <2>2
  <1>12. G[k] = M
    <2>1. G[k] = SubSeq(M, 1, Len(M))
      BY <1>1, <1>4, <1>6, <1>9
    <2>2. QED  BY <1>2, <2>1, SubSeqFull
  <1>13. ASSUME NEW i \in 1 .. k
         PROVE  N[C[i]].members \in Seq(Member) /\ G[i] = G[i - 1] \o N[C[i]].members
    <2>1. PICK a, c : a = h[i - 1] /\ c = h[i]
      OBVIOUS
    <2>2. a \in 0 .. L /\ c \in a .. L /\ L = Len(M) /\ a \in Nat /\ c \in Nat
      <3>1. a \in 0 .. L /\ c \in a .. L
        BY <1>6, <2>1
      <3>2. QED  BY <1>1, <1>3, <3>1
    <2>3. N[C[i]].members = SubSeq(M, a + 1, c)
      BY <1>0, <1>7, <1>8, <1>10, <2>1
    <2>4. SubSeq(M, a + 1, c) \in Seq(Member)
      <3>1. \A l \in a + 1 .. c : l \in 1 .. Len(M)
        BY <1>3, <2>2
      <3>2. \A l \in a + 1 .. c : M[l] \in Member
        BY <1>2, <3>1, ElementOfSeq
      <3>3. a + 1 \in Int /\ c \in Int
        BY <2>2
      <3>4. QED  BY <3>2, <3>3, SubSeqProperties
    <2>5. SubSeq(M, 1, a) \o SubSeq(M, a + 1, c) = SubSeq(M, 1, c)
      <3>1. 1 \in 1 .. Len(M) + 1 /\ a \in 1 - 1 .. Len(M) /\ c \in a .. Len(M)
        BY <1>3, <2>2
      <3>2. QED  BY <1>2, <3>1, ConcatAdjacentSubSeq
    <2>6. QED  BY <1>10, <2>1, <2>3, <2>4, <2>5
  <1>14. \A i, l \in 1 .. k : C[i] = C[l] => i = l
    BY <1>4, <1>10
  <1>15. Carries(N, C, k, G, Member)
    <2>1. <<>> \in Seq(Member) /\ Agrees(N, {}, <<>>)
      BY AgreesNone
    <2>2. QED  BY <1>11, <1>13, <1>14, <2>1 DEF Carries
  <1>16. PICK T : (\A x : x \in T <=> \E i \in 1 .. k : x = C[i]) /\ Agrees(N, T, G[k])
    <2>1. k \in Nat
      BY <1>4
    <2>2. KeepTogether(N, C, k, G[k])
      BY <1>15, <2>1, CarryAll
    <2>3. QED  BY <2>2 DEF KeepTogether
  <1>17. \A x : x \in T <=> \E i \in 1 .. Len(B) : x = n + i
    BY <1>8, <1>10, <1>16
  <1>18. QED  BY <1>1, <1>12, <1>16, <1>17

\* What is gathered of a vertex is what its records keep.
LEMMA GatheredKeeps ==
    ASSUME IInv, ListsInv, NEW v, NEW t, t # ArrayList
    PROVE  Agrees(node, RecordsOf(v, t), Gathered(v, t).members)
  <1>1. PICK R, f, k, s : R = RecordsOf(v, t) /\ f = InOrder(R) /\ k = Cardinality(R)
                          /\ s = Gathered(v, t).members
    OBVIOUS
  <1>2. SeqFacts /\ R \in SUBSET (1 .. Len(node)) /\ Len(node) \in Nat
    BY <1>1, Facts DEF IInv, RecordsOf, SeqFacts
  <1>3. /\ k \in Nat /\ f \in [1 .. k -> R]
        /\ \A n \in R : \E i \in 1 .. k : f[i] = n
        /\ \A i, l \in 1 .. k : f[i] = f[l] => i = l
    <2>1. /\ Cardinality(R) \in Nat /\ InOrder(R) \in [1 .. Cardinality(R) -> R]
          /\ \A n \in R : \E i \in 1 .. Cardinality(R) : InOrder(R)[i] = n
          /\ \A i, l \in 1 .. Cardinality(R) : InOrder(R)[i] = InOrder(R)[l] => i = l
      BY ONLY <1>2, InOrderLists
    <2>2. k = Cardinality(R) /\ f = InOrder(R)
      BY <1>1
    <2>3. QED  BY ONLY <2>1, <2>2
  <1>4. \A n \in R : DOMAIN node[n].members = {1}
    <2>1. SUFFICES ASSUME NEW n \in R PROVE DOMAIN node[n].members = {1}
      OBVIOUS
    <2>2. n \in Lists
      BY <1>1 DEF RecordsOf, Lists, TableOf
    <2>3. Len(node[n].members) = 1
      BY <2>2 DEF ListsInv, RecordsInOrder
    <2>4. node[n].members \in Seq(Member)
      BY <1>2, <2>2 DEF SeqFacts, Node, Lists
    <2>5. DOMAIN node[n].members = 1 .. 1
      BY <2>3, <2>4, LenProperties
    <2>6. QED  BY <2>5
  <1> DEFINE r(i) == node[f[i]].members[1]
  <1>5. s = [i \in 1 .. k |-> r(i)]
    BY <1>1 DEF Gathered
  <1>6. DOMAIN s = 1 .. k /\ \A i \in 1 .. k : s[i] = r(i)
    <2> HIDE DEF r
    <2>1. QED  BY <1>5
  <1>7. ASSUME NEW x PROVE Meets(node, R, x) <=> Has(s, x)
    BY <1>3, <1>4, <1>6 DEF Meets, Has
  <1>8. ASSUME NEW e PROVE MeetsOnce(node, R, e) <=> HasOnce(s, e)
    <2>1. ASSUME MeetsOnce(node, R, e) PROVE HasOnce(s, e)
      BY <1>3, <1>4, <1>6, <2>1 DEF MeetsOnce, HasOnce
    <2>2. ASSUME HasOnce(s, e) PROVE MeetsOnce(node, R, e)
      <3>1. SUFFICES ASSUME NEW m \in R, NEW n \in R, node[m].members[1].entry = e,
                            node[n].members[1].entry = e
                     PROVE  m = n
        BY <1>4 DEF MeetsOnce
      <3>2. PICK i \in 1 .. k, l \in 1 .. k : f[i] = m /\ f[l] = n
        BY <1>3
      <3>3. i = l
        BY <1>6, <2>2, <3>1, <3>2 DEF HasOnce
      <3>4. QED  BY <3>2, <3>3
    <2>3. QED  BY <2>1, <2>2
  <1>9. QED  BY <1>1, <1>7, <1>8 DEF Agrees

\* A job is what the records it replaces, and the block below them, keep.
LEMMA JobKeeps ==
    ASSUME IInv, TablesInv, ListsInv, NEW b \in Backend, Idle(b), pc[b] \in {"rewrite", "wire"},
           NEW j, j = loc[b].job, NEW R, R = RecordsOf(j.owner, loc[b].tbl)
    PROVE  IF j.down = Nil THEN Agrees(node, R, j.members)
           ELSE j.down \notin R /\ Agrees(node, R \cup {j.down}, j.members)
  <1>1. PICK t : t = loc[b].tbl
    OBVIOUS
  <1>2. PICK g \in Job : g = Gathered(g.owner, t) /\ j = Merged(g) /\ j.owner = g.owner
    BY <1>1 DEF ListsInv, JobsSet, JobSet, IsGathered
  <1>3. SeqFacts /\ j \in Job
    BY AtStep DEF SetAt
  <1>4. t # ArrayList
    <2>1. PICK w, L, U : w = j.owner /\ L = Standing(w) /\ U = Above(w, t)
      OBVIOUS
    <2>2. QED  BY <1>1, <2>1, JobInHand
  <1>5. Agrees(node, R, g.members)
    <2>1. Agrees(node, RecordsOf(g.owner, t), Gathered(g.owner, t).members)
      BY <1>4, GatheredKeeps
    <2>2. QED  BY <1>1, <1>2, <2>1
  <1>6. CASE g.down = Nil
    <2>1. j = g
      BY <1>2, <1>6 DEF Merged
    <2>2. QED  BY <1>5, <1>6, <2>1
  <1>7. CASE g.down # Nil
    <2>1. PICK d, m, r : d = g.down /\ m = g.members \o node[d].members /\ r = node[d].next
      OBVIOUS
    <2>2. j = [g EXCEPT !.members = m, !.rest = r]
      BY <1>2, <1>7, <2>1 DEF Merged
    <2>3. j.members = m /\ j.down = d
      BY <2>1, <2>2 DEF Job
    <2>4. d \in Arrays /\ d \in DOMAIN node
      BY <1>7, <2>1 DEF Job, Arrays
    <2>5. R \cap {d} = {}
      BY <1>1, <1>4, <2>4 DEF RecordsOf, Arrays, TableOf
    <2>6. g.members \in Seq(Member) /\ node[d].members \in Seq(Member)
      <3>1. node[d] \in Node
        BY <1>3, <2>4 DEF SeqFacts
      <3>2. QED  BY <3>1 DEF Job, Node
    <2>7. Agrees(node, {d}, node[d].members)
      BY AgreesOne
    <2>8. Agrees(node, R \cup {d}, m)
      BY <1>5, <2>1, <2>5, <2>6, <2>7, AgreesConcat
    <2>9. QED  BY <1>7, <2>1, <2>3, <2>5, <2>8
  <1>8. QED  BY <1>6, <1>7
-----------------------------------------------------------------------------
(* The entries, where transactions come one after another.                   *)

Walking == {"startWalk", "walk"}

\* An entry that is not in its list yet; one whose member is being looked for.
Coming(e) ==
    etup[e].xmin = NoXid \/ \E b \in Backend : pc[b] \in Inserting /\ loc[b].entry = e
Going(e) == \E b \in Backend : pc[b] \in Walking /\ loc[b].entry = e

EntriesOnce ==
    \A e \in Entry :
        IF Coming(e)
        THEN etup[e].xmax = NoXid /\ ~MeetsEntry(node, On(OwnerOf[e]), e)
        ELSE MeetsEntry(node, On(OwnerOf[e]), e) /\ MeetsOnce(node, On(OwnerOf[e]), e)

StampsAgree ==
    \A e \in Entry : \A x : Meets(node, On(OwnerOf[e]), x) /\ x.entry = e =>
        \/ x.xmax = etup[e].xmax \/ DidAbort(xact, x.xmax)
        \/ x.xmax = NoXid /\ Going(e)

\* The tuple is written first, and what is looked for is below.
CallSet(b) ==
    LET e == loc[b].entry
        S == On(OwnerOf[e])
    IN  /\ pc[b] \in Inserting => etup[e].xmin = xid[b]
        /\ pc[b] \in Walking => etup[e].xmax = xid[b]
        /\ pc[b] = "walk" =>
              /\ loc[b].at \in S \cup {Nil}
              /\ \A x : Meets(node, S, x) /\ x.entry = e /\ x.xmax = NoXid =>
                    Meets(node, Reaches[loc[b].at], x)
CallsSet == \A b \in Backend : CallSet(b)

\* Only the block that a compaction is replacing is stamped.
Unmerged ==
    \A v \in Vertex : \A n \in On(v) :
        \/ node[n].xmax = NoXid
        \/ \E b \in Backend : pc[b] = "wire" /\ n = loc[b].job.down /\ node[n].xmax = xid[b]

\* A tuple is stamped by its own transaction or after it committed.
TuplesFollow ==
    \A e \in Entry : etup[e].xmax # NoXid =>
        etup[e].xmax = etup[e].xmin \/ DidCommit(xact, etup[e].xmin)

EntriesInv == EntriesOnce /\ StampsAgree /\ TuplesFollow /\ CallsSet /\ Unmerged

LEMMA CallsAre ==
    ASSUME NEW b \in Backend, Idle(b)
    PROVE  \A e : /\ Coming(e) <=> etup[e].xmin = NoXid \/ (pc[b] \in Inserting /\ loc[b].entry = e)
                  /\ Going(e) <=> pc[b] \in Walking /\ loc[b].entry = e
  BY DEF Coming, Going, Idle, Inserting, Walking

LEMMA CallsAreNext ==
    ASSUME NEW b \in Backend, Idle(b)'
    PROVE  \A e : /\ Coming(e)' <=> etup'[e].xmin = NoXid \/ (pc'[b] \in Inserting /\ loc'[b].entry = e)
                  /\ Going(e)' <=> pc'[b] \in Walking /\ loc'[b].entry = e
  BY DEF Coming, Going, Idle, Inserting, Walking

\* What is met of a vertex is what was met.
Kept(v) ==
    /\ \A x : Meets(node', On(v)', x) <=> Meets(node, On(v), x)
    /\ \A e : MeetsOnce(node', On(v)', e) <=> MeetsOnce(node, On(v), e)

LEMMA ReachesKept ==
    ASSUME IInv, IInv', ListsInv, ListsInv',
           \A n \in DOMAIN node : n \in DOMAIN node' /\ node'[n].next = node[n].next
    PROVE  \A n \in DOMAIN node \cup {Nil} : Reaches'[n] = Reaches[n]
  <1>1. SeqFacts /\ SeqFacts'
    BY Facts, FactsNext DEF IInv
  <1>2. Founded(node) /\ Founded(node)'
    BY DEF ListsInv
  <1>3. Links(node) /\ IsReach(node, Reaches) /\ IsReach(node, Reaches)'
    BY <1>1, <1>2, LinksThere, ReachesThere, ReachesNext
  <1>4. PICK M, Q : M = node' /\ Q = Reaches'
    OBVIOUS
  <1>5. IsReach(M, Q)
    BY <1>3, <1>4
  <1>6. \A n \in DOMAIN node \cup {Nil} : Reaches[n] \subseteq DOMAIN node
    BY <1>2, <1>3, ReachIsIn
  <1>7. ASSUME NEW n \in DOMAIN node \cup {Nil} PROVE Q[n] = Reaches[n]
    <2>1. \A m \in Reaches[n] : m \in DOMAIN M /\ M[m].next = node[m].next
      BY <1>4, <1>6
    <2>2. QED  BY <1>2, <1>3, <1>5, <2>1, ReachKept
  <1>8. QED  BY <1>4, <1>7

LEMMA OnKept ==
    ASSUME IInv, IInv', TablesInv, ListsInv, ListsInv', NEW v \in Vertex, head'[v] = head[v],
           \A n \in DOMAIN node : n \in DOMAIN node' /\ node'[n].next = node[n].next,
           \A n \in DOMAIN node : node'[n].members = node[n].members
    PROVE  On(v)' = On(v) /\ Kept(v)
  <1>1. On(v)' = On(v)
    BY ReachesKept, HeadsThere DEF On
  <1>2. PICK S : S = On(v) /\ S = On(v)'
    BY <1>1
  <1>3. \A n \in S : node'[n].members = node[n].members
    BY <1>2, OnIs
  <1>4. \A x : Meets(node', S, x) <=> Meets(node, S, x)
    BY <1>3 DEF Meets
  <1>5. \A e : MeetsOnce(node', S, e) <=> MeetsOnce(node, S, e)
    BY <1>3 DEF MeetsOnce
  <1>6. QED  BY <1>2, <1>4, <1>5 DEF Kept

\* So of a step that neither writes entries nor ends a transaction it is enough to show:
LEMMA EntriesKept ==
    ASSUME EntriesInv, NEW b \in Backend, Idle(b), Others(b), UNCHANGED <<xact, xid, etup>>,
           \A v \in Vertex : Kept(v),
           \A e \in Entry : (Coming(e)' <=> Coming(e)) /\ (Going(e) => Going(e)'),
           CallSet(b)', Unmerged'
    PROVE  EntriesInv'
  <1>1. \A e \in Entry : OwnerOf[e] \in Vertex
    BY CompactionAssumption
  <1>2. ASSUME NEW e \in Entry
        PROVE  /\ \A x : Meets(node', On(OwnerOf[e])', x) <=> Meets(node, On(OwnerOf[e]), x)
               /\ MeetsOnce(node', On(OwnerOf[e])', e) <=> MeetsOnce(node, On(OwnerOf[e]), e)
               /\ MeetsEntry(node', On(OwnerOf[e])', e) <=> MeetsEntry(node, On(OwnerOf[e]), e)
    BY <1>1 DEF Kept, MeetsEntry
  <1>3. EntriesOnce'
    <2>1. SUFFICES ASSUME NEW e \in Entry
                   PROVE  IF Coming(e)'
                          THEN etup[e].xmax = NoXid /\ ~MeetsEntry(node', On(OwnerOf[e])', e)
                          ELSE MeetsEntry(node', On(OwnerOf[e])', e) /\ MeetsOnce(node', On(OwnerOf[e])', e)
      BY DEF EntriesOnce
    <2>2. IF Coming(e)
          THEN etup[e].xmax = NoXid /\ ~MeetsEntry(node, On(OwnerOf[e]), e)
          ELSE MeetsEntry(node, On(OwnerOf[e]), e) /\ MeetsOnce(node, On(OwnerOf[e]), e)
      BY DEF EntriesInv, EntriesOnce
    <2>3. QED  BY <1>2, <2>2
  <1>4. StampsAgree'
    <2>1. SUFFICES ASSUME NEW e \in Entry, NEW x, Meets(node', On(OwnerOf[e])', x), x.entry = e
                   PROVE  \/ x.xmax = etup[e].xmax \/ DidAbort(xact, x.xmax)
                          \/ x.xmax = NoXid /\ Going(e)'
      BY DEF StampsAgree
    <2>2. Meets(node, On(OwnerOf[e]), x)
      BY <1>2, <2>1
    <2>3. QED  BY <2>1, <2>2 DEF EntriesInv, StampsAgree
  <1>5. ASSUME NEW c \in Backend, c # b PROVE CallSet(c)'
    BY <1>5 DEF Idle, Others, CallSet, Inserting, Walking
  <1>6. TuplesFollow'
    BY DEF EntriesInv, TuplesFollow
  <1>7. QED  BY <1>3, <1>4, <1>5, <1>6 DEF EntriesInv, CallsSet
-----------------------------------------------------------------------------
(* The steps that move no member.                                            *)

LEMMA IdleStays == ASSUME NEW b \in Backend, Idle(b), Others(b) PROVE Idle(b)'
  BY DEF Idle, Others

\* No walk meets a merged block, unless a compaction is about to wire.
LEMMA UnmergedStays ==
    ASSUME IInv, TablesInv, ListsInv, EntriesInv, NEW b \in Backend, Idle(b), pc[b] # "wire",
           \A v \in Vertex : On(v)' = On(v),
           \A n \in DOMAIN node : node'[n].xmax = node[n].xmax
    PROVE  Unmerged'
  <1>1. ASSUME NEW v \in Vertex, NEW n \in On(v) PROVE n \in DOMAIN node /\ node[n].xmax = NoXid
    <2>1. n \in DOMAIN node
      BY OnIs
    <2>2. \A c \in Backend : pc[c] # "wire"
      BY DEF Idle
    <2>3. QED  BY <2>1, <2>2 DEF EntriesInv, Unmerged
  <1>2. SUFFICES ASSUME NEW v \in Vertex, NEW n \in On(v)' PROVE node'[n].xmax = NoXid
    BY DEF Unmerged
  <1>3. QED  BY <1>1, <1>2

LEMMA EntriesAside ==
    ASSUME IInv, IInv', TablesInv, ListsInv, ListsInv', EntriesInv,
           NEW b \in Backend, Idle(b), Others(b), UNCHANGED <<xact, xid, etup, head>>,
           \A n \in DOMAIN node :
              /\ n \in DOMAIN node'
              /\ node'[n].next = node[n].next /\ node'[n].members = node[n].members
              /\ node'[n].xmax = node[n].xmax,
           pc[b] \notin Walking, pc'[b] \notin Walking, pc[b] # "wire",
           pc'[b] \in Inserting <=> pc[b] \in Inserting,
           pc[b] \in Inserting => loc'[b].entry = loc[b].entry
    PROVE  EntriesInv'
  <1>1. Idle(b)'
    BY IdleStays
  <1>2. \A v \in Vertex : On(v)' = On(v) /\ Kept(v)
    BY OnKept
  <1>3. \A e \in Entry : (Coming(e)' <=> Coming(e)) /\ (Going(e) => Going(e)')
    BY <1>1, CallsAre, CallsAreNext
  <1>4. CallSet(b)'
    BY DEF CallSet, EntriesInv, CallsSet, Walking
  <1>5. Unmerged'
    BY <1>2, UnmergedStays
  <1>6. QED  BY <1>2, <1>3, <1>4, <1>5, EntriesKept

\* A walk: it starts at the head, goes on where nothing is to be stamped, and
\* ends where nothing is left.
LEMMA EntriesWalk ==
    ASSUME IInv, IInv', TablesInv, ListsInv, ListsInv', EntriesInv,
           NEW b \in Backend, Idle(b), StartWalk(b) \/ WalkOn(b)
    PROVE  EntriesInv'
  <1>1. /\ pc[b] \in {"startWalk", "walk"} /\ pc'[b] = "walk"
        /\ UNCHANGED <<xact, xid, etup, node, head>>
        /\ loc'[b].entry = loc[b].entry /\ Others(b)
        /\ loc'[b].at = IF pc[b] = "startWalk" THEN head[OwnerOf[loc[b].entry]]
                                               ELSE node[loc[b].at].next
    BY WalkEffect
  <1>2. Idle(b)'
    BY <1>1, IdleStays
  <1>3. (\A v \in Vertex : On(v)' = On(v) /\ Kept(v)) /\ \A n \in DOMAIN node \cup {Nil} : Reaches'[n] = Reaches[n]
    BY <1>1, OnKept, ReachesKept
  <1>4. \A e \in Entry : (Coming(e)' <=> Coming(e)) /\ (Going(e) => Going(e)')
    BY <1>1, <1>2, CallsAre, CallsAreNext DEF Inserting, Walking
  <1>5. Unmerged'
    BY <1>1, <1>3, UnmergedStays
  <1>6. PICK e, v, S, h, a, q :
           /\ e = loc[b].entry /\ v = OwnerOf[e] /\ S = On(v) /\ h = head[v]
           /\ a = loc[b].at /\ q = loc'[b].at
    OBVIOUS
  <1>7. e \in Entry /\ v \in Vertex /\ a \in 0 .. Len(node) /\ SeqFacts
    <2>1. e \in Entry /\ SeqFacts /\ loc[b] \in Locals
      BY <1>1, <1>6, AtStep DEF SetAt
    <2>2. QED  BY <1>6, <2>1, LocalsAre, CompactionAssumption
  <1>8. S = Reaches[h] /\ h \in DOMAIN node \cup {Nil} /\ S \subseteq DOMAIN node
        /\ Links(node) /\ Founded(node) /\ IsReach(node, Reaches)
    BY <1>6, <1>7, OnIs, HeadsThere DEF On
  <1>9. CallSet(b)
    BY DEF EntriesInv, CallsSet
  <1>10. /\ q \in S \cup {Nil}
         /\ \A x : Meets(node, S, x) /\ x.entry = e /\ x.xmax = NoXid => Meets(node, Reaches[q], x)
    <2>1. CASE pc[b] = "startWalk"
      <3>1. q = h
        BY <1>1, <1>6, <2>1
      <3>2. h # Nil => h \in Reaches[h]
        BY <1>8, ReachIsIn
      <3>3. QED  BY <1>8, <3>1, <3>2
    <2>2. CASE pc[b] = "walk"
      <3>1. /\ a # Nil /\ Wanted(b) = {} /\ q = node[a].next
        BY <1>1, <1>6, <2>2 DEF StartWalk, WalkOn
      <3>2. /\ a \in S
            /\ \A x : Meets(node, S, x) /\ x.entry = e /\ x.xmax = NoXid => Meets(node, Reaches[a], x)
        BY <1>6, <1>9, <2>2, <3>1 DEF CallSet
      <3>3. q \in S \cup {Nil}
        <4>1. CASE h = Nil
          BY <1>8, <3>2, <4>1 DEF IsReach
        <4>2. CASE h # Nil
          BY <1>8, <3>1, <3>2, <4>2, ReachGoesOn
        <4>3. QED  BY <4>1, <4>2
      <3>4. Reaches[a] = {a} \cup Reaches[q]
        BY <1>8, <3>1, <3>2 DEF IsReach
      <3>5. \A i \in DOMAIN node[a].members :
               ~(node[a].members[i].entry = e /\ node[a].members[i].xmax = NoXid)
        BY <1>6, <3>1 DEF Wanted
      <3>6. QED  BY <3>2, <3>3, <3>4, <3>5 DEF Meets
    <2>3. QED  BY <1>1, <2>1, <2>2
  <1>11. CallSet(b)'
    <2>1. q = Nil \/ q \in DOMAIN node
      BY <1>8, <1>10
    <2>2. On(v)' = S /\ Reaches'[q] = Reaches[q]
      BY <1>3, <1>6, <1>7, <2>1
    <2>3. etup[e].xmax = xid[b]
      BY <1>1, <1>6, <1>9 DEF CallSet, Walking
    <2>4. PICK P, R : P = On(v)' /\ R = Reaches'
      OBVIOUS
    <2>5. /\ etup'[e].xmax = xid'[b] /\ pc'[b] \notin Inserting
          /\ q \in P \cup {Nil}
          /\ \A x : Meets(node', P, x) /\ x.entry = e /\ x.xmax = NoXid => Meets(node', R[q], x)
      BY <1>1, <1>10, <2>2, <2>3, <2>4 DEF Inserting
    <2>6. e = loc'[b].entry /\ v = OwnerOf[loc'[b].entry]
      BY <1>1, <1>6
    <2>7. QED  BY <1>6, <2>4, <2>5, <2>6 DEF CallSet
  <1>12. QED  BY <1>1, <1>3, <1>4, <1>5, <1>11, EntriesKept

LEMMA EntriesWalkEnds ==
    ASSUME IInv, IInv', TablesInv, ListsInv, ListsInv', EntriesInv,
           NEW b \in Backend, Idle(b), WalkEnds(b)
    PROVE  EntriesInv'
  <1>1. /\ pc[b] = "walk" /\ loc[b].at = Nil /\ pc'[b] = "idle"
        /\ UNCHANGED <<xact, xid, etup, node, head>> /\ Others(b)
    BY ReturnEffect DEF WalkEnds, NowAt, data
  <1>2. Idle(b)'
    BY <1>1, IdleStays
  <1>3. \A v \in Vertex : On(v)' = On(v) /\ Kept(v)
    BY <1>1, OnKept
  <1>4. \A e \in Entry : Coming(e)' <=> Coming(e)
    BY <1>1, <1>2, CallsAre, CallsAreNext DEF Inserting
  <1>5. Unmerged' /\ CallSet(b)'
    <2>1. CallSet(b)'
      BY <1>1 DEF CallSet, Inserting, Walking
    <2>2. Unmerged'
      BY <1>1, <1>3, UnmergedStays
    <2>3. QED  BY <2>1, <2>2
  <1>6. PICK d : d = loc[b].entry /\ d \in Entry /\ OwnerOf[d] \in Vertex
    BY <1>1, AtStep, CompactionAssumption DEF SetAt
  \* Nothing unstamped is left of the entry.
  <1>7. \A x : Meets(node, On(OwnerOf[d]), x) /\ x.entry = d => x.xmax # NoXid
    <2>1. SUFFICES ASSUME NEW x, Meets(node, On(OwnerOf[d]), x), x.entry = d, x.xmax = NoXid PROVE FALSE
      OBVIOUS
    <2>2. Meets(node, Reaches[Nil], x)
      BY <1>1, <1>6, <2>1 DEF EntriesInv, CallsSet, CallSet
    <2>3. Reaches[Nil] = {}
      BY OnIs DEF IsReach
    <2>4. QED  BY <2>2, <2>3 DEF Meets
  <1>8. \A e \in Entry : Going(e) => e = d
    BY <1>6, CallsAre
  <1>9. EntriesOnce'
    <2>1. SUFFICES ASSUME NEW e \in Entry
                   PROVE  IF Coming(e)'
                          THEN etup[e].xmax = NoXid /\ ~MeetsEntry(node', On(OwnerOf[e])', e)
                          ELSE MeetsEntry(node', On(OwnerOf[e])', e) /\ MeetsOnce(node', On(OwnerOf[e])', e)
      BY <1>1 DEF EntriesOnce
    <2>2. IF Coming(e)
          THEN etup[e].xmax = NoXid /\ ~MeetsEntry(node, On(OwnerOf[e]), e)
          ELSE MeetsEntry(node, On(OwnerOf[e]), e) /\ MeetsOnce(node, On(OwnerOf[e]), e)
      BY DEF EntriesInv, EntriesOnce
    <2>3. OwnerOf[e] \in Vertex
      BY CompactionAssumption
    <2>4. QED  BY <1>1, <1>3, <1>4, <2>2, <2>3
  <1>10. StampsAgree'
    <2>1. SUFFICES ASSUME NEW e \in Entry, NEW x, Meets(node', On(OwnerOf[e])', x), x.entry = e
                   PROVE  x.xmax = etup[e].xmax \/ DidAbort(xact, x.xmax)
      BY <1>1 DEF StampsAgree
    <2>2. Meets(node, On(OwnerOf[e]), x)
      BY <1>1, <1>3, <2>1, CompactionAssumption
    <2>3. \/ x.xmax = etup[e].xmax \/ DidAbort(xact, x.xmax)
          \/ x.xmax = NoXid /\ Going(e)
      BY <2>1, <2>2 DEF EntriesInv, StampsAgree
    <2>4. QED  BY <1>7, <1>8, <2>1, <2>2, <2>3
  <1>11. ASSUME NEW c \in Backend, c # b PROVE CallSet(c)'
    BY <1>2, <1>11 DEF Idle, CallSet, Inserting, Walking
  <1>12. TuplesFollow'
    BY <1>1 DEF EntriesInv, TuplesFollow
  <1>13. QED  BY <1>5, <1>9, <1>10, <1>11, <1>12 DEF EntriesInv, CallsSet

LEMMA EntriesQuiet ==
    ASSUME IInv, IInv', TablesInv, ListsInv, ListsInv', EntriesInv, NEW b \in Backend, Idle(b),
           \/ ReadHead(b) \/ AppendRecord(b) \/ FixPrev(b)
           \/ RotateActive(b) \/ CloseActive(b) \/ AddActive(b)
           \/ Compact(b) \/ CompactActive(b) \/ PickClosed(b)
           \/ Scan(b) \/ Merge(b) \/ FindRow(b) \/ Mark(b)
    PROVE  EntriesInv'
  <1> DEFINE Same ==
          \A n \in DOMAIN node :
              /\ n \in DOMAIN node'
              /\ node'[n].next = node[n].next /\ node'[n].members = node[n].members
              /\ node'[n].xmax = node[n].xmax
  <1>1. UNCHANGED node => Same
    OBVIOUS
  <1>2. loc \in [Backend -> Locals] /\ pc \in [Backend -> Steps]
    BY AtStep
  <1> HIDE DEF Same
  <1>3. CASE ReadHead(b)
    <2>1. /\ pc[b] = "readHead" /\ pc'[b] = "appendRecord" /\ loc'[b].entry = loc[b].entry
          /\ UNCHANGED <<xact, xid, etup, node, head>> /\ Others(b)
      BY <1>3, ReadHeadEffect
    <2>2. QED  BY <1>1, <2>1, EntriesAside DEF Inserting, Walking, Same
  <1>4. CASE AppendRecord(b)
    <2>1. /\ pc[b] = "appendRecord" /\ pc'[b] \in {"setHead", "fixPrev"} /\ loc'[b].entry = loc[b].entry
          /\ UNCHANGED <<xact, xid, etup, head>> /\ Others(b)
      BY <1>4, AppendRecordEffect
    <2>2. Same
      BY <1>4, AppendRecordNodes DEF Same
    <2>3. QED  BY <2>1, <2>2, EntriesAside DEF Inserting, Walking, Same
  <1>5. CASE FixPrev(b)
    <2>1. /\ pc[b] = "fixPrev" /\ pc'[b] = "setHead"
          /\ UNCHANGED <<xact, xid, etup, head, loc>> /\ Others(b)
      BY <1>5, FixPrevEffect
    <2>2. Same
      <3>1. PICK k : k = loc[b].at
        OBVIOUS
      <3>2. /\ Written(k) /\ node'[k].members = node[k].members
            /\ node'[k].next = node[k].next /\ node'[k].xmax = node[k].xmax
        BY <1>5, <3>1, FixPrevNodes
      <3>3. QED  BY <3>2 DEF Same, Written
    <2>3. QED  BY <2>1, <2>2, EntriesAside DEF Inserting, Walking, Same
  <1>6. CASE RotateActive(b) \/ CompactActive(b)
    <2>1. /\ pc[b] = "idle" /\ pc'[b] = "close"
          /\ UNCHANGED <<xact, xid, etup, node, head>> /\ Others(b)
      BY <1>6, RotateEffect DEF NowAt
    <2>2. QED  BY <1>1, <2>1, EntriesAside DEF Inserting, Walking, Same
  <1>7. CASE CloseActive(b)
    <2>1. /\ pc[b] = "close" /\ pc'[b] = "addActive"
          /\ UNCHANGED <<xact, xid, etup, node, head>> /\ Others(b)
      BY <1>2, <1>7 DEF CloseActive, Goto, Others
    <2>2. QED  BY <1>1, <2>1, EntriesAside DEF Inserting, Walking, Same
  <1>8. CASE AddActive(b)
    <2>1. /\ pc[b] = "addActive" /\ pc'[b] \in {"idle", "pick"}
          /\ UNCHANGED <<xact, xid, etup, node, head>> /\ Others(b)
      BY <1>8, AddActiveEffect
    <2>2. QED  BY <1>1, <2>1, EntriesAside DEF Inserting, Walking, Same
  <1>9. CASE Compact(b) \/ PickClosed(b)
    <2>1. /\ pc[b] \in {"idle", "pick"} /\ pc'[b] = "scan"
          /\ UNCHANGED <<xact, xid, etup, node, head>> /\ Others(b)
      BY <1>9, PickOldestEffect DEF NowAt
    <2>2. QED  BY <1>1, <2>1, EntriesAside DEF Inserting, Walking, Same
  <1>10. CASE Scan(b)
    <2>1. PICK V : V = {node[n].owner : n \in {k \in DOMAIN node : TableOf(k) = loc[b].tbl}}
      OBVIOUS
    <2>2. /\ pc[b] = "scan" /\ pc'[b] \in {"findRow", "merge"}
          /\ UNCHANGED <<xact, xid, etup, node, head>> /\ Others(b)
      BY <1>10, <2>1, ScanEffect DEF NowAt
    <2>3. QED  BY <1>1, <2>2, EntriesAside DEF Inserting, Walking, Same
  <1>11. CASE Merge(b)
    <2>1. /\ pc[b] = "merge" /\ pc'[b] = "rewrite"
          /\ UNCHANGED <<xact, xid, etup, node, head>> /\ Others(b)
      BY <1>11, MergeEffect DEF NowAt
    <2>2. QED  BY <1>1, <2>1, EntriesAside DEF Inserting, Walking, Same
  <1>12. CASE FindRow(b)
    <2>1. /\ pc[b] = "findRow" /\ pc'[b] = "mark"
          /\ UNCHANGED <<xact, xid, etup, node, head>> /\ Others(b)
      BY <1>12, FindRowEffect DEF NowAt
    <2>2. QED  BY <1>1, <2>1, EntriesAside DEF Inserting, Walking, Same
  <1>13. CASE Mark(b)
    <2>1. /\ pc[b] = "mark" /\ pc'[b] = "idle"
          /\ UNCHANGED <<xact, xid, etup, node, head>> /\ Others(b)
      BY <1>13, ReturnEffect DEF Mark, NowAt
    <2>2. QED  BY <1>1, <2>1, EntriesAside DEF Inserting, Walking, Same
  <1>14. QED
    BY <1>3, <1>4, <1>5, <1>6, <1>7, <1>8, <1>9, <1>10, <1>11, <1>12, <1>13

\* The new blocks are out of reach, the block they replace is stamped.
LEMMA EntriesRewrite ==
    ASSUME IInv, IInv', TablesInv, ListsInv, ListsInv', EntriesInv,
           NEW b \in Backend, Idle(b), Rewrite(b)
    PROVE  EntriesInv'
  <1>1. PICK j, B : j = loc[b].job /\ B = Blocks(j, Len(node))
    OBVIOUS
  <1>2. /\ pc[b] = "rewrite" /\ pc'[b] = "wire" /\ loc'[b].job = j
        /\ UNCHANGED <<xact, xid, etup, head>> /\ Others(b)
    BY <1>1, RewriteEffect DEF NowAt
  <1>3. \A n \in DOMAIN node :
           /\ n \in DOMAIN node'
           /\ node'[n].next = node[n].next /\ node'[n].members = node[n].members
           /\ node'[n].xmax = IF n = j.down THEN xid[b] ELSE node[n].xmax
    BY <1>1, RewriteNodes
  <1>4. Idle(b)'
    BY <1>2, IdleStays
  <1>5. \A v \in Vertex : On(v)' = On(v) /\ Kept(v)
    BY <1>2, <1>3, OnKept
  <1>6. \A e \in Entry : (Coming(e)' <=> Coming(e)) /\ (Going(e) => Going(e)')
    BY <1>2, <1>4, CallsAre, CallsAreNext DEF Inserting, Walking
  <1>7. CallSet(b)'
    BY <1>2 DEF CallSet, Inserting, Walking
  <1>8. Unmerged'
    <2>1. SUFFICES ASSUME NEW v \in Vertex, NEW n \in On(v)'
                   PROVE  node'[n].xmax = NoXid \/ (n = j.down /\ node'[n].xmax = xid'[b])
      BY <1>2 DEF Unmerged
    <2>2. n \in On(v) /\ n \in DOMAIN node
      BY <1>5, <2>1, OnIs
    <2>3. node[n].xmax = NoXid
      <3>1. \A c \in Backend : pc[c] # "wire"
        BY <1>2 DEF Idle
      <3>2. QED  BY <2>2, <3>1 DEF EntriesInv, Unmerged
    <2>4. QED  BY <1>2, <1>3, <2>2, <2>3
  <1>9. QED  BY <1>2, <1>5, <1>6, <1>7, <1>8, EntriesKept
-----------------------------------------------------------------------------
(* The steps that move members, write tuples or end transactions.            *)

EntryHolds(e) ==
    /\ IF Coming(e)
       THEN etup[e].xmax = NoXid /\ ~MeetsEntry(node, On(OwnerOf[e]), e)
       ELSE MeetsEntry(node, On(OwnerOf[e]), e) /\ MeetsOnce(node, On(OwnerOf[e]), e)
    /\ \A x : Meets(node, On(OwnerOf[e]), x) /\ x.entry = e =>
          \/ x.xmax = etup[e].xmax \/ DidAbort(xact, x.xmax)
          \/ x.xmax = NoXid /\ Going(e)
    /\ etup[e].xmax # NoXid => etup[e].xmax = etup[e].xmin \/ DidCommit(xact, etup[e].xmin)

LEMMA EntriesAre ==
    EntriesInv <=> (\A e \in Entry : EntryHolds(e)) /\ CallsSet /\ Unmerged
  BY DEF EntriesInv, EntriesOnce, StampsAgree, TuplesFollow, EntryHolds

LEMMA EntriesAreNext ==
    (EntriesInv <=> (\A e \in Entry : EntryHolds(e)) /\ CallsSet /\ Unmerged)'
  BY EntriesAre, PTL

\* Of an entry whose tuple and members are as they were it is enough to show:
LEMMA EntryKept ==
    ASSUME NEW e, EntryHolds(e), etup'[e] = etup[e],
           Coming(e)' <=> Coming(e), Going(e) => Going(e)',
           \A x : x.entry = e => (Meets(node', On(OwnerOf[e])', x) <=> Meets(node, On(OwnerOf[e]), x)),
           MeetsOnce(node', On(OwnerOf[e])', e) <=> MeetsOnce(node, On(OwnerOf[e]), e),
           \A x : Meets(node, On(OwnerOf[e]), x) /\ DidAbort(xact, x.xmax) => DidAbort(xact', x.xmax),
           DidCommit(xact, etup[e].xmin) => DidCommit(xact', etup[e].xmin)
    PROVE  EntryHolds(e)'
  <1>1. MeetsEntry(node', On(OwnerOf[e])', e) <=> MeetsEntry(node, On(OwnerOf[e]), e)
    BY DEF MeetsEntry
  <1>2. IF Coming(e)'
        THEN etup'[e].xmax = NoXid /\ ~MeetsEntry(node', On(OwnerOf[e])', e)
        ELSE MeetsEntry(node', On(OwnerOf[e])', e) /\ MeetsOnce(node', On(OwnerOf[e])', e)
    BY <1>1 DEF EntryHolds
  <1>3. ASSUME NEW x, Meets(node', On(OwnerOf[e])', x), x.entry = e
        PROVE  \/ x.xmax = etup'[e].xmax \/ DidAbort(xact', x.xmax)
               \/ x.xmax = NoXid /\ Going(e)'
    <2>1. Meets(node, On(OwnerOf[e]), x)
      BY <1>3
    <2>2. QED  BY <1>3, <2>1 DEF EntryHolds
  <1>4. etup'[e].xmax # NoXid => etup'[e].xmax = etup'[e].xmin \/ DidCommit(xact', etup'[e].xmin)
    BY DEF EntryHolds
  <1>5. QED  BY <1>2, <1>3, <1>4 DEF EntryHolds

LEMMA MeetsMember ==
    ASSUME IInv, TablesInv, ListsInv, NEW v \in Vertex, NEW x, Meets(node, On(v), x)
    PROVE  x \in Member
  <1>1. PICK n \in On(v) : \E i \in DOMAIN node[n].members : node[n].members[i] = x
    BY DEF Meets
  <1>2. n \in DOMAIN node /\ SeqFacts
    BY <1>1, OnIs
  <1>3. node[n].members \in Seq(Member)
    BY <1>2 DEF SeqFacts, Node
  <1>4. QED  BY <1>1, <1>3

\* A transaction begins or ends, nobody being in a call.
LEMMA EntriesXact ==
    ASSUME IInv, IInv', TablesInv, ListsInv, ListsInv', EntriesInv,
           NEW b \in Backend, Idle(b), Begin(b) \/ Commit(b) \/ Abort(b), calm'
    PROVE  EntriesInv'
  <1>1. /\ pc[b] = "idle" /\ pc'[b] = "idle" /\ Others(b)
        /\ UNCHANGED <<etup, node, head>>
    <2>1. CASE Begin(b)
      BY <2>1 DEF Begin, Others, data
    <2>2. CASE Commit(b) \/ Abort(b)
      <3>1. PICK s : End(b, s)
        BY <2>2 DEF Commit, Abort
      <3>2. QED  BY <2>2, <3>1, EndsIdle, EndEffect DEF End, data
    <2>3. QED  BY <2>1, <2>2
  <1>2. \A x \in XidsOf(xact) : /\ DidAbort(xact, x) => DidAbort(xact', x)
                                /\ DidCommit(xact, x) => DidCommit(xact', x)
    <2>1. xact \in Seq(XactStatus) /\ SeqFacts
      BY AtStep DEF IInv, TypeOK
    <2>2. CASE Begin(b)
      <3>1. xact' = Append(xact, "running")
        BY <2>2 DEF Begin
      <3>2. \A x \in DOMAIN xact : xact'[x] = xact[x]
        BY <2>1, <3>1 DEF SeqFacts
      <3>3. QED  BY <3>2 DEF DidAbort, DidCommit, XidsOf
    <2>3. CASE Commit(b) \/ Abort(b)
      <3>1. PICK s : xact' = [xact EXCEPT ![xid[b]] = s]
        BY <2>3 DEF Commit, Abort, End
      <3>2. xid[b] # NoXid /\ xact[xid[b]] = "running"
        BY <2>3 DEF Commit, CanCall, Abort, IInv, MetaInv, XactsHeld
      <3>3. \A x \in DOMAIN xact : x # xid[b] => xact'[x] = xact[x]
        BY <3>1
      <3>4. QED  BY <3>2, <3>3 DEF DidAbort, DidCommit, XidsOf
    <2>4. QED  BY <2>2, <2>3
  <1>3. Idle(b)'
    BY <1>1, IdleStays
  <1>4. \A v \in Vertex : On(v)' = On(v) /\ Kept(v)
    BY <1>1, OnKept
  <1>5. ASSUME NEW e \in Entry PROVE EntryHolds(e)'
    <2>1. PICK v : v = OwnerOf[e] /\ v \in Vertex
      BY CompactionAssumption
    <2>2. EntryHolds(e)
      BY EntriesAre
    <2>3. (Coming(e)' <=> Coming(e)) /\ (Going(e) => Going(e)')
      BY <1>1, <1>3, CallsAre, CallsAreNext DEF Inserting, Walking
    <2>4. /\ \A x : Meets(node', On(v)', x) <=> Meets(node, On(v), x)
          /\ MeetsOnce(node', On(v)', e) <=> MeetsOnce(node, On(v), e)
      BY <1>4, <2>1 DEF Kept
    <2>5. \A x : Meets(node, On(v), x) /\ DidAbort(xact, x.xmax) => DidAbort(xact', x.xmax)
      <3>1. SUFFICES ASSUME NEW x, Meets(node, On(v), x), DidAbort(xact, x.xmax) PROVE DidAbort(xact', x.xmax)
        OBVIOUS
      <3>2. x \in Member
        BY <2>1, <3>1, MeetsMember
      <3>3. QED  BY <1>2, <3>1, <3>2 DEF Member
    <2>6. DidCommit(xact, etup[e].xmin) => DidCommit(xact', etup[e].xmin)
      <3>1. etup[e].xmin \in XidsOf(xact)
        BY AtStep
      <3>2. QED  BY <1>2, <3>1
    <2>7. etup'[e] = etup[e]
      BY <1>1
    <2>8. QED  BY <2>1, <2>2, <2>3, <2>4, <2>5, <2>6, <2>7, EntryKept
  <1>6. CallsSet'
    <2>1. \A c \in Backend : pc'[c] = "idle"
      BY <1>1, <1>3 DEF Idle
    <2>2. QED  BY <2>1 DEF CallsSet, CallSet, Inserting, Walking
  <1>7. Unmerged'
    BY <1>1, <1>4, UnmergedStays
  <1>8. QED  BY <1>5, <1>6, <1>7, EntriesAreNext

\* An insertion, or a deletion, writes the tuple of its entry.
LEMMA EntriesCall ==
    ASSUME IInv, IInv', TablesInv, ListsInv, ListsInv', EntriesInv,
           NEW b \in Backend, Idle(b), NEW d \in Entry, Insert(b, d) \/ Delete(b, d)
    PROVE  EntriesInv'
  <1>1. /\ pc[b] = "idle" /\ xid[b] # NoXid /\ Others(b) /\ loc'[b].entry = d
        /\ UNCHANGED <<xact, xid, node, head>>
        /\ \/ /\ Insert(b, d) /\ pc'[b] = "readHead" /\ etup[d].xmin = NoXid
              /\ etup' = [etup EXCEPT ![d].xmin = xid[b]]
           \/ /\ Delete(b, d) /\ pc'[b] = "startWalk" /\ MayReplace(xact, xid[b], etup[d])
              /\ etup' = [etup EXCEPT ![d].xmax = xid[b]]
    BY InsertEffect, DeleteEffect DEF NowAt
  <1>2. Idle(b)' /\ \A c \in Backend : pc[c] = "idle"
    BY <1>1, IdleStays DEF Idle
  <1>3. \A v \in Vertex : On(v)' = On(v) /\ Kept(v)
    BY <1>1, OnKept
  <1>4. etup \in [Entry -> [xmin : XidsOf(xact), xmax : XidsOf(xact)]]
        /\ xid[b] \in XidsOf(xact) /\ xact[xid[b]] = "running"
    BY <1>1, AtStep DEF IInv, MetaInv, XactsHeld
  <1>5. \A e \in Entry : e # d => etup'[e] = etup[e]
    <2>1. etup' = [etup EXCEPT ![d].xmin = xid[b]] \/ etup' = [etup EXCEPT ![d].xmax = xid[b]]
      BY <1>1
    <2>2. QED  BY <1>4, <2>1
  <1>6. \A e \in Entry : EntryHolds(e)
    BY EntriesAre
  <1>7. \A e : ~Going(e) /\ (Coming(e) <=> etup[e].xmin = NoXid)
    BY <1>2 DEF Going, Coming, Inserting, Walking
  <1>8. \A e : /\ Coming(e)' <=> etup'[e].xmin = NoXid \/ (pc'[b] = "readHead" /\ d = e)
               /\ Going(e)' <=> pc'[b] = "startWalk" /\ d = e
    BY <1>1, <1>2, CallsAreNext DEF Inserting, Walking
  <1>9. ASSUME NEW e \in Entry PROVE EntryHolds(e)'
    <2>1. PICK v : v = OwnerOf[e] /\ v \in Vertex
      BY CompactionAssumption
    <2>2. /\ \A x : Meets(node', On(v)', x) <=> Meets(node, On(v), x)
          /\ MeetsOnce(node', On(v)', e) <=> MeetsOnce(node, On(v), e)
      BY <1>3, <2>1 DEF Kept
    <2>3. MeetsEntry(node', On(v)', e) <=> MeetsEntry(node, On(v), e)
      BY <2>2 DEF MeetsEntry
    <2>4. CASE e # d
      <3>1. (Coming(e)' <=> Coming(e)) /\ (Going(e) => Going(e)') /\ etup'[e] = etup[e]
        BY <1>5, <1>7, <1>8, <2>4
      <3>2. EntryHolds(e)
        BY <1>6
      <3>3. QED  BY <1>1, <2>1, <2>2, <3>1, <3>2, EntryKept
    <2>5. CASE e = d /\ Insert(b, d) /\ pc'[b] = "readHead" /\ etup[d].xmin = NoXid
                     /\ etup' = [etup EXCEPT ![d].xmin = xid[b]]
      <3>1. Coming(e) /\ Coming(e)'
        BY <1>7, <1>8, <2>5
      <3>2. etup'[e].xmax = etup[e].xmax /\ etup[e].xmax = NoXid /\ ~MeetsEntry(node, On(v), e)
        <4>1. etup'[e].xmax = etup[e].xmax
          BY <1>4, <2>5
        <4>2. QED  BY <1>6, <2>1, <3>1, <4>1 DEF EntryHolds
      <3>3. ~MeetsEntry(node', On(v)', e)
        BY <2>3, <3>2
      <3>4. \A x : Meets(node', On(v)', x) => x.entry # e
        BY <3>3 DEF MeetsEntry
      <3>5. QED  BY <2>1, <3>1, <3>2, <3>3, <3>4 DEF EntryHolds
    <2>6. CASE e = d /\ Delete(b, d) /\ pc'[b] = "startWalk" /\ MayReplace(xact, xid[b], etup[d])
                     /\ etup' = [etup EXCEPT ![d].xmax = xid[b]]
      <3>1. etup'[e].xmax = xid[b] /\ etup'[e].xmin = etup[e].xmin
        BY <1>4, <2>6
      <3>2. PICK p, q, y : p = etup[e].xmin /\ q = etup[e].xmax /\ y = xid[b]
        OBVIOUS
      \* The tuple is there, and who stamped it was rolled back.
      <3>3. /\ p # NoXid /\ (p = y \/ DidCommit(xact, p))
            /\ q = NoXid \/ DidAbort(xact, q)
        <4>1. /\ IsOwn(y, p) \/ DidCommit(xact, p)
              /\ ~IsOwn(y, p) => ~DidCommit(xact, q)
              /\ ~IsOwn(y, q) /\ (~IsOwn(y, q) => ~InProgress(xact, q))
          BY <2>6, <3>2 DEF MayReplace, TupleIsLive, TupleXmaxOther
        <4>2. p # NoXid /\ (p = y \/ DidCommit(xact, p))
          BY <4>1 DEF IsOwn, DidCommit
        <4>3. q # NoXid => q = p \/ DidCommit(xact, p)
          BY <1>6, <3>2 DEF EntryHolds
        <4>4. y # NoXid /\ xact[y] = "running" /\ q \in XidsOf(xact)
          BY <1>1, <1>4, <3>2
        <4>5. q # NoXid => ~DidCommit(xact, q)
          BY <4>1, <4>3, <4>4 DEF IsOwn, DidCommit
        <4>6. \A z \in DOMAIN xact : xact[z] \in XactStatus
          BY DEF IInv, TypeOK
        <4>7. q # NoXid => q \in DOMAIN xact
          BY <4>4 DEF XidsOf
        <4>8. q # NoXid => DidAbort(xact, q)
          BY <4>1, <4>5, <4>6, <4>7 DEF InProgress, DidCommit, DidAbort, XactStatus
        <4>9. QED  BY <4>2, <4>8
      <3>4. ~Coming(e) /\ ~Coming(e)' /\ Going(e)'
        BY <1>7, <1>8, <2>6, <3>1, <3>2, <3>3
      <3>5. MeetsEntry(node', On(v)', e) /\ MeetsOnce(node', On(v)', e)
        BY <1>6, <2>1, <2>2, <2>3, <3>4 DEF EntryHolds
      <3>6. \A x : Meets(node', On(v)', x) /\ x.entry = e => x.xmax = NoXid \/ DidAbort(xact', x.xmax)
        <4>1. SUFFICES ASSUME NEW x, Meets(node', On(v)', x), x.entry = e
                       PROVE  x.xmax = NoXid \/ DidAbort(xact, x.xmax)
          BY <1>1
        <4>2. x.xmax = q \/ DidAbort(xact, x.xmax) \/ x.xmax = NoXid
          BY <1>6, <2>1, <2>2, <3>2, <4>1 DEF EntryHolds
        <4>3. QED  BY <3>3, <4>2
      <3>7. etup'[e].xmax = etup'[e].xmin \/ DidCommit(xact', etup'[e].xmin)
        BY <1>1, <3>1, <3>2, <3>3
      <3>8. QED  BY <2>1, <3>4, <3>5, <3>6, <3>7 DEF EntryHolds
    <2>7. QED  BY <1>1, <2>4, <2>5, <2>6
  <1>10. CallsSet'
    <2>1. SUFFICES ASSUME NEW c \in Backend PROVE CallSet(c)'
      BY DEF CallsSet
    <2>2. CASE c # b
      BY <1>2, <2>2 DEF Idle, CallSet, Inserting, Walking
    <2>3. CASE c = b
      <3>1. /\ pc'[b] = "readHead" => etup'[d].xmin = xid[b]
            /\ pc'[b] = "startWalk" => etup'[d].xmax = xid[b]
        BY <1>1, <1>4
      <3>2. QED  BY <1>1, <2>3, <3>1 DEF CallSet, Inserting, Walking
    <2>4. QED  BY <2>2, <2>3
  <1>11. Unmerged'
    BY <1>1, <1>3, UnmergedStays
  <1>12. QED  BY <1>9, <1>10, <1>11, EntriesAreNext

\* The record of an insertion comes to stand before what was met.
LEMMA EntriesSetHead ==
    ASSUME IInv, IInv', TablesInv, ListsInv, ListsInv', EntriesInv,
           NEW b \in Backend, Idle(b), SetHead(b)
    PROVE  EntriesInv'
  <1>1. PICK d, w, k : d = loc[b].entry /\ w = OwnerOf[d] /\ k = loc[b].new
    OBVIOUS
  <1>2. /\ pc[b] = "setHead" /\ pc'[b] = "idle" /\ Others(b)
        /\ UNCHANGED <<xact, xid, etup, node>>
        /\ head' = [head EXCEPT ![w] = k]
    BY <1>1, ReturnEffect DEF SetHead, NowAt
  <1>3. /\ SeqFacts /\ Links(node) /\ Founded(node) /\ IsReach(node, Reaches)
        /\ d \in Entry /\ w \in Vertex /\ k \in DOMAIN node /\ xid[b] # NoXid
        /\ head \in [Vertex -> 0 .. Len(node)]
    <2>1. /\ d \in Entry /\ k # Nil /\ SeqFacts /\ loc[b] \in Locals /\ xid[b] # NoXid
          /\ head \in [Vertex -> 0 .. Len(node)]
      BY <1>1, <1>2, AtStep DEF SetAt, Inserting
    <2>2. k \in DOMAIN node
      BY <1>1, <2>1 DEF Locals, Lists
    <2>3. QED  BY <1>1, <2>1, <2>2, OnIs, CompactionAssumption
  <1>4. /\ node[k].next = head[w]
        /\ node[k].members = <<[entry |-> d, xmin |-> xid[b], xmax |-> NoXid]>>
        /\ node[k].xmax = NoXid
    <2>1. node[k] = Record(b) /\ loc[b].at = head[w]
      BY <1>1, <1>2 DEF ListsInv, InsertsSet, InsertSet, Linking
    <2>2. QED  BY <1>1, <2>1 DEF Record
  <1>5. \A n \in DOMAIN node \cup {Nil} : Reaches'[n] = Reaches[n]
    BY <1>2, ReachesKept
  <1>6. PICK S : S = On(w) /\ k \notin S
    BY <1>3, <1>4, NoWayBack DEF On
  <1>7. On(w)' = {k} \cup S
    <2>1. head'[w] = k
      BY <1>2, <1>3
    <2>2. Reaches'[k] = Reaches[k]
      BY <1>3, <1>5
    <2>3. Reaches[k] = {k} \cup S
      BY <1>3, <1>4, <1>6 DEF IsReach, On
    <2>4. QED  BY <2>1, <2>2, <2>3 DEF On
  <1>8. \A v \in Vertex : v # w => head'[v] = head[v]
    BY <1>2, <1>3
  <1>9. \A v \in Vertex : v # w => On(v)' = On(v) /\ Kept(v)
    BY <1>2, <1>8, OnKept
  <1>10. PICK m : m = [entry |-> d, xmin |-> xid[b], xmax |-> NoXid]
    OBVIOUS
  <1>11. m.entry = d /\ m.xmax = NoXid /\ node[k].members = <<m>>
    BY <1>4, <1>10
  <1>12. DOMAIN node[k].members = {1} /\ node[k].members[1] = m
    BY <1>11
  <1>13. /\ \A x : Meets(node, {k}, x) <=> x = m
         /\ \A e : MeetsOnce(node, {k}, e)
         /\ \A e : MeetsEntry(node, {k}, e) <=> e = d
    <2>1. \A x : Meets(node, {k}, x) <=> x = m
      BY <1>12 DEF Meets
    <2>2. \A e : MeetsOnce(node, {k}, e)
      BY <1>12 DEF MeetsOnce
    <2>3. QED  BY <1>11, <2>1, <2>2 DEF MeetsEntry
  <1>14. /\ \A x : Meets(node, {k} \cup S, x) <=> x = m \/ Meets(node, S, x)
         /\ \A e : MeetsOnce(node, {k} \cup S, e) <=> MeetsOnce(node, S, e) /\ ~(e = d /\ MeetsEntry(node, S, e))
    <2>1. {k} \cap S = {}
      BY <1>6
    <2>2. /\ \A x : Meets(node, {k} \cup S, x) <=> Meets(node, {k}, x) \/ Meets(node, S, x)
          /\ \A e : MeetsOnce(node, {k} \cup S, e) <=>
                /\ MeetsOnce(node, {k}, e) /\ MeetsOnce(node, S, e)
                /\ ~(MeetsEntry(node, {k}, e) /\ MeetsEntry(node, S, e))
      BY <2>1, UnionMeets
    <2>3. QED  BY <1>13, <2>2
  <1>15. Idle(b)'
    BY <1>2, IdleStays
  <1>16. \A e : /\ Coming(e) <=> etup[e].xmin = NoXid \/ e = d
                /\ Coming(e)' <=> etup[e].xmin = NoXid
                /\ ~Going(e)
    BY <1>1, <1>2, <1>15, CallsAre, CallsAreNext DEF Inserting, Walking
  <1>17. etup[d].xmin = xid[b]
    BY <1>1, <1>2 DEF EntriesInv, CallsSet, CallSet, Inserting
  <1>18. ASSUME NEW e \in Entry, e # d PROVE EntryHolds(e)'
    <2>1. PICK v : v = OwnerOf[e] /\ v \in Vertex
      BY CompactionAssumption
    <2>2. /\ \A x : x.entry = e => (Meets(node', On(v)', x) <=> Meets(node, On(v), x))
          /\ MeetsOnce(node', On(v)', e) <=> MeetsOnce(node, On(v), e)
      <3>1. CASE v # w
        BY <1>9, <2>1, <3>1 DEF Kept
      <3>2. CASE v = w
        <4>1. PICK P : P = On(v)' /\ P = {k} \cup S
          BY <1>7, <3>2
        <4>2. \A x : x.entry = e => x # m
          BY <1>11, <1>18
        <4>3. QED  BY <1>2, <1>6, <1>14, <1>18, <3>2, <4>1, <4>2
      <3>3. QED  BY <3>1, <3>2
    <2>3. EntryHolds(e) /\ etup'[e] = etup[e] /\ (Coming(e)' <=> Coming(e)) /\ (Going(e) => Going(e)')
      BY <1>2, <1>16, <1>18, EntriesAre
    <2>4. QED  BY <1>2, <2>1, <2>2, <2>3, EntryKept
  <1>19. EntryHolds(d)'
    <2>1. EntryHolds(d) /\ Coming(d) /\ ~Coming(d)'
      BY <1>3, <1>16, <1>17, EntriesAre
    <2>2. etup[d].xmax = NoXid /\ ~MeetsEntry(node, S, d)
      BY <1>1, <1>6, <2>1 DEF EntryHolds
    <2>3. MeetsOnce(node, S, d)
      BY <2>2 DEF MeetsOnce, MeetsEntry, Meets
    <2>4. PICK P : P = On(w)' /\ P = {k} \cup S
      BY <1>7
    <2>5. MeetsEntry(node', P, d) /\ MeetsOnce(node', P, d)
      BY <1>2, <1>11, <1>14, <2>2, <2>3, <2>4 DEF MeetsEntry
    <2>6. \A x : Meets(node', P, x) /\ x.entry = d => x.xmax = etup'[d].xmax
      BY <1>2, <1>11, <1>14, <2>2, <2>4 DEF MeetsEntry
    <2>7. QED  BY <1>1, <1>2, <2>1, <2>2, <2>4, <2>5, <2>6 DEF EntryHolds
  <1>20. CallsSet'
    <2>1. \A c \in Backend : pc'[c] = "idle"
      BY <1>2, <1>15 DEF Idle
    <2>2. QED  BY <2>1 DEF CallsSet, CallSet, Inserting, Walking
  <1>21. Unmerged'
    <2>1. SUFFICES ASSUME NEW v \in Vertex, NEW n \in On(v)' PROVE node[n].xmax = NoXid
      BY <1>2 DEF Unmerged
    <2>2. \A c \in Backend : pc[c] # "wire"
      BY <1>2 DEF Idle
    <2>3. n \in On(v) \/ n = k
      <3>1. CASE v = w
        BY <1>6, <1>7, <2>1, <3>1
      <3>2. CASE v # w
        BY <1>9, <2>1, <3>2
      <3>3. QED  BY <3>1, <3>2
    <2>4. QED  BY <1>4, <2>2, <2>3 DEF EntriesInv, Unmerged
  <1>22. QED  BY <1>18, <1>19, <1>20, <1>21, EntriesAreNext

\* The member that a walk has found is stamped.
LEMMA EntriesStamp ==
    ASSUME IInv, IInv', TablesInv, ListsInv, ListsInv', EntriesInv,
           NEW b \in Backend, Idle(b), StampMember(b)
    PROVE  EntriesInv'
  <1>1. PICK d, w, k, i : d = loc[b].entry /\ w = OwnerOf[d] /\ k = loc[b].at /\ i = FirstOf(Wanted(b))
    OBVIOUS
  <1>2. /\ pc[b] = "walk" /\ k # Nil /\ pc'[b] = "idle" /\ Others(b)
        /\ UNCHANGED <<xact, xid, etup, head>>
    BY <1>1, ReturnEffect DEF StampMember, NowAt
  <1>3. /\ Written(k) /\ i \in Wanted(b)
        /\ node'[k].next = node[k].next /\ node'[k].xmax = node[k].xmax
        /\ DOMAIN node'[k].members = DOMAIN node[k].members
        /\ \A l \in DOMAIN node[k].members :
             /\ node'[k].members[l].entry = node[k].members[l].entry
             /\ node'[k].members[l].xmax = IF l = i THEN xid[b] ELSE node[k].members[l].xmax
             /\ l # i => node'[k].members[l] = node[k].members[l]
    BY <1>1, StampMemberNodes
  <1>4. i \in DOMAIN node[k].members /\ node[k].members[i].entry = d
    BY <1>1, <1>3 DEF Wanted
  <1>5. d \in Entry /\ w \in Vertex /\ xid[b] # NoXid
    <2>1. d \in Entry /\ xid[b] # NoXid
      BY <1>1, <1>2, AtStep DEF SetAt
    <2>2. QED  BY <1>1, <2>1, CompactionAssumption
  <1>6. \A n \in DOMAIN node : /\ n \in DOMAIN node' /\ node'[n].next = node[n].next
                               /\ node'[n].xmax = node[n].xmax
                               /\ n # k => node'[n].members = node[n].members
    BY <1>3 DEF Written
  <1>7. \A v \in Vertex : On(v)' = On(v) /\ On(v) \subseteq DOMAIN node
    <2>1. \A n \in DOMAIN node \cup {Nil} : Reaches'[n] = Reaches[n]
      BY <1>6, ReachesKept
    <2>2. QED  BY <1>2, <2>1, HeadsThere, OnIs DEF On
  <1>8. etup[d].xmax = xid[b] /\ k \in On(w)
    <2>1. CallSet(b)
      BY DEF EntriesInv, CallsSet
    <2>2. QED  BY <1>1, <1>2, <2>1 DEF CallSet, Walking
  <1>9. \A n \in DOMAIN node :
           /\ DOMAIN node'[n].members = DOMAIN node[n].members
           /\ \A l \in DOMAIN node[n].members :
                /\ node'[n].members[l].entry = node[n].members[l].entry
                /\ ~(n = k /\ l = i) => node'[n].members[l] = node[n].members[l]
    BY <1>3, <1>6
  <1>10. node'[k].members[i].xmax = xid[b] /\ node'[k].members[i].entry = d
    BY <1>3, <1>4
  <1>11. Idle(b)'
    BY <1>2, IdleStays
  <1>12. \A e : /\ Coming(e) <=> etup[e].xmin = NoXid
                /\ Coming(e)' <=> etup[e].xmin = NoXid
                /\ Going(e) => e = d
                /\ ~Going(e)'
    BY <1>1, <1>2, <1>11, CallsAre, CallsAreNext DEF Inserting, Walking
  <1>13. ASSUME NEW v \in Vertex, NEW e
         PROVE  MeetsOnce(node', On(v)', e) <=> MeetsOnce(node, On(v), e)
    <2>1. PICK S : S = On(v) /\ S = On(v)' /\ S \subseteq DOMAIN node
      BY <1>7
    <2>2. \A n \in S : n \in DOMAIN node
      BY <2>1
    <2>3. MeetsOnce(node', S, e) <=> MeetsOnce(node, S, e)
      BY <1>9, <2>2 DEF MeetsOnce
    <2>4. QED  BY <2>1, <2>3
  <1>14. ASSUME NEW e \in Entry, e # d PROVE EntryHolds(e)'
    <2>1. PICK v : v = OwnerOf[e] /\ v \in Vertex
      BY CompactionAssumption
    <2>2. PICK S : S = On(v) /\ S = On(v)' /\ S \subseteq DOMAIN node
      BY <1>7, <2>1
    <2>3. \A x : x.entry = e => (Meets(node', S, x) <=> Meets(node, S, x))
      <3>1. ASSUME NEW x, x.entry = e PROVE Meets(node', S, x) <=> Meets(node, S, x)
        <4>1. ASSUME NEW n \in S, NEW l \in DOMAIN node[n].members
              PROVE  node'[n].members[l] = x <=> node[n].members[l] = x
          <5>1. CASE n = k /\ l = i
            BY <1>4, <1>10, <1>14, <3>1, <5>1
          <5>2. CASE ~(n = k /\ l = i)
            BY <1>9, <2>2, <5>2
          <5>3. QED  BY <5>1, <5>2
        <4>2. \A n \in S : DOMAIN node'[n].members = DOMAIN node[n].members
          BY <1>9, <2>2
        <4>3. QED  BY <4>1, <4>2 DEF Meets
      <3>2. QED  BY <3>1
    <2>4. /\ EntryHolds(e) /\ etup'[e] = etup[e]
          /\ (Coming(e)' <=> Coming(e)) /\ (Going(e) => Going(e)')
      BY <1>2, <1>12, <1>14, EntriesAre
    <2>5. MeetsOnce(node', On(v)', e) <=> MeetsOnce(node, On(v), e)
      BY <1>13, <2>1
    <2>6. QED  BY <1>2, <2>1, <2>2, <2>3, <2>4, <2>5, EntryKept
  <1>15. EntryHolds(d)'
    <2>1. PICK S : S = On(w) /\ S = On(w)' /\ S \subseteq DOMAIN node
      BY <1>5, <1>7
    <2>2. EntryHolds(d) /\ ~Coming(d) /\ ~Coming(d)'
      <3>1. EntryHolds(d)
        BY <1>5, EntriesAre
      <3>2. ~Coming(d)
        BY <1>5, <1>8, <3>1 DEF EntryHolds
      <3>3. QED  BY <1>12, <3>1, <3>2
    <2>3. MeetsOnce(node, S, d)
      BY <1>1, <2>1, <2>2 DEF EntryHolds
    <2>4. MeetsOnce(node', S, d)
      BY <1>5, <1>13, <2>1, <2>3
    <2>5. MeetsEntry(node', S, d)
      <3>1. k \in S /\ i \in DOMAIN node'[k].members
        BY <1>4, <1>3, <1>8, <2>1
      <3>2. QED  BY <1>10, <3>1 DEF MeetsEntry, Meets
    <2>6. \A x : Meets(node', S, x) /\ x.entry = d => x.xmax = etup'[d].xmax
      <3>1. SUFFICES ASSUME NEW x, Meets(node', S, x), x.entry = d PROVE x.xmax = xid[b]
        BY <1>2, <1>8
      <3>2. PICK n \in S : \E l \in DOMAIN node'[n].members : node'[n].members[l] = x
        BY <3>1 DEF Meets
      <3>3. PICK l \in DOMAIN node'[n].members : node'[n].members[l] = x
        BY <3>2
      <3>4. l \in DOMAIN node[n].members /\ node[n].members[l].entry = d
        BY <1>9, <2>1, <3>1, <3>2, <3>3
      <3>5. n = k /\ l = i
        BY <1>4, <1>8, <2>1, <2>3, <3>2, <3>4 DEF MeetsOnce
      <3>6. QED  BY <1>10, <3>3, <3>5
    <2>7. etup'[d].xmax # NoXid => etup'[d].xmax = etup'[d].xmin \/ DidCommit(xact', etup'[d].xmin)
      BY <1>2, <2>2 DEF EntryHolds
    <2>8. QED  BY <1>1, <2>1, <2>2, <2>4, <2>5, <2>6, <2>7 DEF EntryHolds
  <1>16. CallsSet'
    <2>1. \A c \in Backend : pc'[c] = "idle"
      BY <1>2, <1>11 DEF Idle
    <2>2. QED  BY <2>1 DEF CallsSet, CallSet, Inserting, Walking
  <1>17. Unmerged'
    BY <1>2, <1>6, <1>7, UnmergedStays
  <1>18. QED  BY <1>14, <1>15, <1>16, <1>17, EntriesAreNext
-----------------------------------------------------------------------------
(* The new blocks take the place of what the job has gathered.               *)

\* K nodes after node c, one leading to the next, the last one to node r.
Runs(N, c, K, r) ==
    \A i \in 1 .. K : c + i \in DOMAIN N /\ N[c + i].next = IF i = K THEN r ELSE c + i + 1

LEMMA RunsReach ==
    ASSUME NEW N, NEW R, Links(N), Founded(N), IsReach(N, R),
           NEW c \in Nat, NEW K \in Nat \ {0}, NEW r, Runs(N, c, K, r)
    PROVE  /\ \A x : x \in R[c + 1] <=> (\E i \in 1 .. K : x = c + i) \/ x \in R[r]
           /\ \A i \in 1 .. K : c + i \notin R[r]
  <1> DEFINE Met(n) == \A x : x \in R[c + n] <=> (\E i \in n .. K : x = c + i) \/ x \in R[r]
             Bad == {n \in 1 .. K : ~Met(n)}
             Back == {n \in 1 .. K : c + n \in R[r]}
  <1>1. \A i \in 1 .. K : c + i \in DOMAIN N /\ N[c + i].next = IF i = K THEN r ELSE c + i + 1
    BY DEF Runs
  <1>2. \A S : S # {} /\ S \in SUBSET (1 .. K) => LastOf(S) \in S /\ \A m \in S : m <= LastOf(S)
    BY LastIsIn
  <1>3. ASSUME Bad # {} PROVE FALSE
    <2>1. PICK n \in Bad : \A m \in Bad : m <= n
      <3> HIDE DEF Met
      <3>1. Bad \in SUBSET (1 .. K)
        OBVIOUS
      <3> HIDE DEF Bad
      <3>2. QED  BY <1>2, <1>3, <3>1
    <2>2. n \in 1 .. K /\ ~Met(n)
      BY <2>1
    <2>3. R[c + n] = {c + n} \cup R[N[c + n].next]
      BY <1>1, <2>2 DEF IsReach
    <2>4. CASE n = K
      <3>1. R[c + n] = {c + n} \cup R[r]
        BY <1>1, <2>2, <2>3, <2>4
      <3>2. \A i : i \in n .. K <=> i = n
        BY <2>2, <2>4
      <3>3. QED  BY <2>2, <3>1, <3>2
    <2>5. CASE n # K
      <3>1. n + 1 \in 1 .. K /\ ~(n + 1 <= n) /\ \A i : i \in n .. K <=> i = n \/ i \in n + 1 .. K
        BY <2>2, <2>5
      <3>2. Met(n + 1)
        BY <2>1, <3>1
      <3>3. N[c + n].next = c + (n + 1)
        <4>1. c + n + 1 = c + (n + 1)
          BY <2>2
        <4>2. QED  BY <1>1, <2>2, <2>5, <4>1
      <3>4. R[c + n] = {c + n} \cup R[c + (n + 1)]
        BY <2>3, <3>3
      <3>5. QED  BY <2>2, <3>1, <3>2, <3>4
    <2>6. QED  BY <2>4, <2>5
  <1>4. ASSUME Back # {} PROVE FALSE
    <2>1. PICK n \in Back : \A m \in Back : m <= n
      <3>1. Back \in SUBSET (1 .. K)
        OBVIOUS
      <3> HIDE DEF Back
      <3>2. QED  BY <1>2, <1>4, <3>1
    <2>2. n \in 1 .. K /\ c + n \in R[r] /\ c + n \in DOMAIN N
      BY <1>1, <2>1
    <2>3. r \in DOMAIN N
      <3>1. K \in 1 .. K
        OBVIOUS
      <3>2. N[c + K].next = r /\ c + K \in DOMAIN N
        BY <1>1, <3>1
      <3>3. r \in DOMAIN N \cup {Nil}
        BY <3>2 DEF Links
      <3>4. QED  BY <2>2, <3>3 DEF IsReach
    <2>4. CASE n = K
      <3>1. N[c + n].next = r
        BY <1>1, <2>2, <2>4
      <3>2. c + n \notin R[N[c + n].next]
        BY <2>2, NoWayBack
      <3>3. QED  BY <2>2, <3>1, <3>2
    <2>5. CASE n # K
      <3>1. n + 1 \in 1 .. K /\ ~(n + 1 <= n)
        BY <2>2, <2>5
      <3>2. N[c + n].next = c + (n + 1)
        <4>1. c + n + 1 = c + (n + 1)
          BY <2>2
        <4>2. QED  BY <1>1, <2>2, <2>5, <4>1
      <3>3. c + (n + 1) \in R[r] \cup {Nil}
        BY <2>2, <2>3, <3>2, ReachGoesOn
      <3>4. c + (n + 1) \in DOMAIN N /\ Nil \notin DOMAIN N
        BY <1>1, <3>1 DEF Links
      <3>5. QED  BY <2>1, <3>1, <3>3, <3>4
    <2>6. QED  BY <2>4, <2>5
  <1>5. Met(1)
    <2>1. 1 \in 1 .. K
      OBVIOUS
    <2> HIDE DEF Met
    <2>2. QED  BY <1>3, <2>1
  <1>6. QED  BY <1>4, <1>5

\* Two sets of nodes that keep the same may stand for each other.
LEMMA SwapMeets ==
    ASSUME NEW N, NEW C, NEW X, NEW Y, NEW s, C \cap X = {}, C \cap Y = {},
           Agrees(N, X, s), Agrees(N, Y, s)
    PROVE  /\ \A x : Meets(N, C \cup Y, x) <=> Meets(N, C \cup X, x)
           /\ \A e : MeetsOnce(N, C \cup Y, e) <=> MeetsOnce(N, C \cup X, e)
  <1>1. ASSUME NEW x PROVE Meets(N, C \cup Y, x) <=> Meets(N, C \cup X, x)
    <2>1. Meets(N, X, x) <=> Meets(N, Y, x)
      BY DEF Agrees
    <2>2. QED  BY <2>1, UnionMeets
  <1>2. ASSUME NEW e PROVE MeetsOnce(N, C \cup Y, e) <=> MeetsOnce(N, C \cup X, e)
    <2>1. MeetsOnce(N, X, e) <=> MeetsOnce(N, Y, e)
      BY DEF Agrees
    <2>2. MeetsEntry(N, X, e) <=> MeetsEntry(N, Y, e)
      BY AgreesEntry
    <2>3. MeetsOnce(N, C \cup X, e) <=> /\ MeetsOnce(N, C, e) /\ MeetsOnce(N, X, e)
                                        /\ ~(MeetsEntry(N, C, e) /\ MeetsEntry(N, X, e))
      BY UnionMeets
    <2>4. MeetsOnce(N, C \cup Y, e) <=> /\ MeetsOnce(N, C, e) /\ MeetsOnce(N, Y, e)
                                        /\ ~(MeetsEntry(N, C, e) /\ MeetsEntry(N, Y, e))
      BY UnionMeets
    <2>5. QED  BY <2>1, <2>2, <2>3, <2>4
  <1>3. QED  BY <1>1, <1>2

LEMMA OnStands ==
    IInv /\ TablesInv /\ ListsInv =>
        \A v \in Vertex : On(v) = Standing(v) \cup Reaches[Bottom(node, Standing(v), head[v])]
  BY OnIs

LEMMA OnStandsNext ==
    (IInv /\ TablesInv /\ ListsInv =>
        \A v \in Vertex : On(v) = Standing(v) \cup Reaches[Bottom(node, Standing(v), head[v])])'
  BY OnStands, PTL

\* The blocks a job was written to: what they lead to, and what they keep.
LEMMA BlocksReach ==
    ASSUME IInv, TablesInv, ListsInv, NEW b \in Backend, pc[b] = "wire",
           NEW j, j = loc[b].job, j \in Job, NEW a, a = loc[b].at, a \in Arrays
    PROVE  \E Y : /\ Reaches[a] = Y \cup Reaches[j.rest] /\ Y \cap Reaches[j.rest] = {}
                  /\ Y \subseteq Arrays /\ Agrees(node, Y, j.members)
                  /\ \A n \in Y : node[n].xmax = NoXid
  <1>1. /\ SeqFacts /\ Links(node) /\ Founded(node) /\ IsReach(node, Reaches)
        /\ Reaches[a] \subseteq Arrays
    BY OnIs
  <1>2. PICK c, B : c = a - 1 /\ B = Blocks(j, c)
    OBVIOUS
  <1>3. c \in Nat /\ c + 1 = a
    <2>1. a \in Nat \ {0}
      BY <1>1 DEF Arrays, SeqFacts
    <2>2. QED  BY <1>2, <2>1
  <1>4. /\ Len(B) \in Nat \ {0} /\ DOMAIN B = 1 .. Len(B)
        /\ \A i \in 1 .. Len(B) : /\ B[i].xmax = NoXid
                                  /\ B[i].next = IF i = Len(B) THEN j.rest ELSE c + i + 1
    <2>1. IInv /\ j \in Job
      OBVIOUS
    <2>2. QED  BY ONLY <1>2, <1>3, <2>1, BlocksAre
  <1>5. Len(node) = c + Len(B) /\ \A i \in 1 .. Len(B) : node[c + i] = B[i]
    <2>1. JobSet(b)
      BY DEF ListsInv, JobsSet
    <2>2. QED  BY <1>2, <1>4, <2>1 DEF JobSet
  <1>6. Holds(node, c, B)
    BY <1>5 DEF Holds
  <1>7. \E Y : (\A x : x \in Y <=> \E i \in 1 .. Len(B) : x = c + i) /\ Agrees(node, Y, j.members)
    <2>1. IInv /\ j \in Job
      OBVIOUS
    <2>2. QED  BY ONLY <1>2, <1>3, <1>6, <2>1, BlocksKeep
  <1>8. PICK K, r : K = Len(B) /\ r = j.rest
    OBVIOUS
  <1>9. K \in Nat \ {0} /\ \A i \in 1 .. K : c + i \in DOMAIN node
    <2>1. K \in Nat \ {0} /\ DOMAIN node = 1 .. c + K
      BY <1>1, <1>4, <1>5, <1>8 DEF SeqFacts
    <2>2. QED  BY <1>3, <2>1
  <1>10. \A i \in 1 .. K : /\ node[c + i].xmax = NoXid
                           /\ node[c + i].next = IF i = K THEN r ELSE c + i + 1
    BY <1>4, <1>5, <1>8
  <1>11. Runs(node, c, K, r)
    BY <1>9, <1>10 DEF Runs
  <1>12. /\ \A x : x \in Reaches[c + 1] <=> (\E i \in 1 .. K : x = c + i) \/ x \in Reaches[r]
         /\ \A i \in 1 .. K : c + i \notin Reaches[r]
    BY <1>1, <1>3, <1>9, <1>11, RunsReach
  <1>13. PICK Y : (\A x : x \in Y <=> \E i \in 1 .. K : x = c + i) /\ Agrees(node, Y, j.members)
    BY <1>7, <1>8
  <1>14. Reaches[a] = Y \cup Reaches[r]
    BY <1>3, <1>12, <1>13
  <1>15. Y \cap Reaches[r] = {} /\ \A n \in Y : node[n].xmax = NoXid
    BY <1>10, <1>12, <1>13
  <1>16. QED  BY <1>1, <1>8, <1>13, <1>14, <1>15

LEMMA EntriesWire ==
    ASSUME IInv, IInv', TablesInv, TablesInv', ListsInv, ListsInv', EntriesInv,
           NEW b \in Backend, Idle(b), Wire(b)
    PROVE  EntriesInv'
  <1>0. PICK j, w, t, k, a : j = loc[b].job /\ w = j.owner /\ t = loc[b].tbl /\ k = j.up /\ a = loc[b].at
    OBVIOUS
  <1>1. PICK L, R, U : L = Standing(w) /\ R = RecordsOf(w, t) /\ U = Above(w, t)
    OBVIOUS
  <1>w. WireFacts(b, j, w, t, k, a, L, R, U)
    BY <1>0, <1>1, WireIs
  <1>2. /\ pc[b] = "wire" /\ pc'[b] \in {"findRow", "merge"}
        /\ UNCHANGED <<xact, xid, etup>> /\ Others(b) /\ Idle(b)'
        /\ w \in Vertex /\ j \in Job /\ a \in Arrays /\ a \in DOMAIN node
    BY <1>w DEF WireFacts
  <1>3. /\ R \subseteq L /\ U \in SUBSET Nat /\ \A n : n \in U <=> n \in L /\ n \notin R
        /\ \A n \in L : n \in Lists /\ n \in DOMAIN node /\ node[n].owner = w
        /\ k = IF U = {} THEN Nil ELSE FirstOf(U)
        /\ k # Nil => k \in U /\ k \in Lists /\ node[k].owner = w
        /\ k = Nil <=> U = {}
    BY <1>w DEF WireFacts
  <1>4. /\ DOMAIN node' = DOMAIN node
        /\ \A n \in DOMAIN node : /\ node'[n].members = node[n].members /\ node'[n].xmax = node[n].xmax
                                  /\ n # k => node'[n].next = node[n].next
        /\ k # Nil => node'[k].next = a
        /\ \A v \in Vertex : v # w => head'[v] = head[v]
        /\ head'[w] = IF k = Nil THEN a ELSE head[w]
    BY <1>w DEF WireFacts
  <1>5. Standing(w)' = U
    <2>1. PICK M : M = Standing(w)'
      OBVIOUS
    <2>2. \A n : n \in M <=> n \in U
      BY <1>1, <1>2, <1>3, <1>w, <2>1 DEF WireFacts
    <2>3. M = U
      BY <2>2
    <2>4. QED  BY <2>1, <2>3
  <1>6. /\ SeqFacts /\ Links(node) /\ Founded(node) /\ IsReach(node, Reaches)
        /\ IsReach(node, Reaches)'
        /\ \A n \in Arrays : Reaches[n] \subseteq Arrays
        /\ \A v \in Vertex : On(v) \subseteq DOMAIN node /\ \A n \in On(v) : node[n].owner = v
    <2>1. SeqFacts' /\ Founded(node)'
      BY FactsNext DEF IInv, ListsInv
    <2>2. IsReach(node, Reaches)'
      BY <2>1, ReachesNext
    <2>3. QED  BY <2>2, OnIs
  <1>7. PICK M, Q : M = node' /\ Q = Reaches'
    OBVIOUS
  <1>8. ASSUME NEW n \in DOMAIN node \cup {Nil}, k \notin Reaches[n] PROVE Q[n] = Reaches[n]
    <2>1. Reaches[n] \subseteq DOMAIN node
      BY <1>6, ReachIsIn
    <2>2. \A m \in Reaches[n] : m \in DOMAIN M /\ M[m].next = node[m].next
      BY <1>4, <1>7, <1>8, <2>1
    <2>3. IsReach(M, Q)
      BY <1>6, <1>7
    <2>4. QED  BY <1>6, <2>2, <2>3, ReachKept
  \* Other vertices' chains.
  <1>9. ASSUME NEW v \in Vertex, v # w PROVE On(v)' = On(v)
    <2>1. head'[v] = head[v] /\ head[v] \in DOMAIN node \cup {Nil}
      BY <1>4, <1>9, HeadsThere
    <2>2. k \notin Reaches[head[v]]
      BY <1>3, <1>6, <1>9 DEF On, Links
    <2>3. Q[head[v]] = Reaches[head[v]]
      BY <1>8, <2>1, <2>2
    <2>4. QED  BY <1>7, <2>1, <2>3 DEF On
  \* The chain of the vertex: what stays, what was gathered, what is written.
  <1>10. PICK d, r : d = j.down /\ r = j.rest
    OBVIOUS
  <1>11. /\ d = Bottom(node, L, head[w]) /\ d \in Arrays \cup {Nil} /\ r \in Arrays \cup {Nil}
         /\ d # Nil => r = node[d].next /\ node[d].owner = w
         /\ d = Nil => r = Nil
    BY <1>10, <1>w DEF WireFacts, JobIs
  <1>12. /\ Reaches[r] \subseteq Arrays /\ Reaches[Nil] = {}
         /\ \A n \in Arrays : n \in DOMAIN node /\ n \notin Lists /\ n # Nil
    BY <1>6, <1>11 DEF IsReach, Arrays, Lists, Links
  <1>13. PICK D : D = (IF d = Nil THEN {} ELSE {d})
    OBVIOUS
  <1>14. Reaches[d] = D \cup Reaches[r] /\ D \cap Reaches[r] = {} /\ D \subseteq Arrays
    <2>1. CASE d = Nil
      BY <1>11, <1>12, <1>13, <2>1
    <2>2. CASE d # Nil
      <3>1. d \in DOMAIN node /\ d \in Arrays
        BY <1>11, <1>12, <2>2
      <3>2. d \notin Reaches[node[d].next] /\ Reaches[d] = {d} \cup Reaches[node[d].next]
        BY <1>6, <3>1, NoWayBack DEF IsReach
      <3>3. QED  BY <1>11, <1>13, <2>2, <3>1, <3>2
    <2>3. QED  BY <2>1, <2>2
  <1>15. PICK C, X : C = U \cup Reaches[r] /\ X = R \cup D
    OBVIOUS
  <1>16. On(w) = C \cup X
    <2>1. On(w) = L \cup Reaches[d]
      BY <1>1, <1>2, <1>11, OnIs
    <2>2. L = U \cup R
      BY <1>3
    <2>3. QED  BY <1>14, <1>15, <2>1, <2>2
  <1>17. C \cap X = {}
    BY <1>3, <1>12, <1>14, <1>15
  <1>18. Agrees(node, X, j.members)
    <2>1. IF j.down = Nil THEN Agrees(node, R, j.members)
          ELSE j.down \notin R /\ Agrees(node, R \cup {j.down}, j.members)
      BY <1>0, <1>1, <1>2, JobKeeps
    <2>2. X = IF d = Nil THEN R ELSE R \cup {j.down}
      BY <1>10, <1>13, <1>15
    <2>3. QED  BY <1>10, <2>1, <2>2
  <1>19. PICK Y : /\ Reaches[a] = Y \cup Reaches[r] /\ Y \cap Reaches[r] = {}
                  /\ Y \subseteq Arrays /\ Agrees(node, Y, j.members)
                  /\ \A n \in Y : node[n].xmax = NoXid
    BY <1>0, <1>2, <1>10, BlocksReach
  <1>20. On(w)' = C \cup Y
    <2>1. Bottom(M, U, head'[w]) = a
      BY <1>3, <1>4, <1>7 DEF Bottom
    <2>2. On(w)' = U \cup Q[a]
      <3>1. On(w)' = Standing(w)' \cup Reaches'[Bottom(node', Standing(w)', head'[w])]
        BY <1>2, OnStandsNext
      <3>2. QED  BY <1>5, <1>7, <2>1, <3>1
    <2>3. k \notin Reaches[a]
      BY <1>2, <1>3, <1>6, <1>12
    <2>4. Q[a] = Reaches[a]
      BY <1>2, <1>8, <2>3
    <2>5. QED  BY <1>15, <1>19, <2>2, <2>4
  <1>21. C \cap Y = {}
    BY <1>3, <1>12, <1>15, <1>19
  <1>22. /\ \A x : Meets(node, C \cup Y, x) <=> Meets(node, On(w), x)
         /\ \A e : MeetsOnce(node, C \cup Y, e) <=> MeetsOnce(node, On(w), e)
    <2>1. /\ \A x : Meets(node, C \cup Y, x) <=> Meets(node, C \cup X, x)
          /\ \A e : MeetsOnce(node, C \cup Y, e) <=> MeetsOnce(node, C \cup X, e)
      BY ONLY <1>17, <1>18, <1>19, <1>21, SwapMeets
    <2>2. QED  BY <1>16, <2>1
  <1>23. ASSUME NEW S \in SUBSET DOMAIN node
         PROVE  /\ \A x : Meets(node', S, x) <=> Meets(node, S, x)
                /\ \A e : MeetsOnce(node', S, e) <=> MeetsOnce(node, S, e)
    <2>1. \A n \in S : node'[n].members = node[n].members
      BY <1>4
    <2>2. \A x : Meets(node', S, x) <=> Meets(node, S, x)
      BY <2>1 DEF Meets
    <2>3. \A e : MeetsOnce(node', S, e) <=> MeetsOnce(node, S, e)
      BY <2>1 DEF MeetsOnce
    <2>4. QED  BY <2>2, <2>3
  <1>24. ASSUME NEW v \in Vertex PROVE Kept(v)
    <2>1. CASE v = w
      <3>1. PICK S : S = On(v)' /\ S = C \cup Y
        BY <1>20, <2>1
      <3>2. S \in SUBSET DOMAIN node
        BY <1>3, <1>12, <1>15, <1>19, <3>1
      <3>3. QED  BY <1>22, <1>23, <2>1, <3>1, <3>2 DEF Kept
    <2>2. CASE v # w
      <3>1. PICK S : S = On(v)' /\ S = On(v)
        BY <1>9, <2>2
      <3>2. S \in SUBSET DOMAIN node
        BY <1>6, <3>1
      <3>3. QED  BY <1>23, <3>1, <3>2 DEF Kept
    <2>3. QED  BY <2>1, <2>2
  <1>25. \A e \in Entry : (Coming(e)' <=> Coming(e)) /\ (Going(e) => Going(e)')
    BY <1>2, CallsAre, CallsAreNext DEF Inserting, Walking
  <1>26. CallSet(b)'
    BY <1>2 DEF CallSet, Inserting, Walking
  \* The block that was replaced is met no more.
  <1>27. Unmerged'
    <2>1. SUFFICES ASSUME NEW v \in Vertex, NEW n \in On(v)' PROVE node'[n].xmax = NoXid
      BY DEF Unmerged
    <2>2. \A u \in Vertex : \A m \in On(u) : m \in DOMAIN node /\ (node[m].xmax = NoXid \/ (m = d /\ d # Nil))
      <3>1. \A c \in Backend : pc[c] = "wire" => c = b
        BY DEF Idle
      <3>2. Nil \notin DOMAIN node
        BY <1>6 DEF Links
      <3>3. QED  BY <1>0, <1>6, <1>10, <3>1, <3>2 DEF EntriesInv, Unmerged
    <2>3. CASE v # w
      <3>1. n \in On(v) /\ n \in DOMAIN node /\ node[n].owner = v
        BY <1>6, <1>9, <2>1, <2>3
      <3>2. ~(n = d /\ d # Nil)
        BY <1>11, <2>3, <3>1
      <3>3. QED  BY <1>4, <2>2, <3>1, <3>2
    <2>4. CASE v = w
      <3>1. n \in C \cup Y
        BY <1>20, <2>1, <2>4
      <3>2. CASE n \in Y
        BY <1>4, <1>12, <1>19, <3>2
      <3>3. CASE n \in C
        <4>1. n \in On(w) /\ n \notin X
          BY <1>16, <1>17, <3>3
        <4>2. ~(n = d /\ d # Nil)
          BY <1>13, <1>15, <4>1
        <4>3. QED  BY <1>2, <1>4, <2>2, <4>1, <4>2
      <3>4. QED  BY <3>1, <3>2, <3>3
    <2>5. QED  BY <2>3, <2>4
  <1>28. QED  BY <1>2, <1>24, <1>25, <1>26, <1>27, EntriesKept
-----------------------------------------------------------------------------
(* Every step.                                                               *)

LEMMA EntriesInit == ASSUME Init PROVE EntriesInv
  <1>1. IInv /\ TablesInv /\ ListsInv
    BY InitInv, TablesInit, ListsInit
  <1>2. /\ \A b \in Backend : pc[b] = "idle"
        /\ \A e \in Entry : etup[e].xmin = NoXid /\ etup[e].xmax = NoXid
        /\ DOMAIN node = {}
    BY DEF Init
  <1>3. \A v \in Vertex : On(v) = {}
    BY <1>1, <1>2, OnIs
  <1>4. \A e \in Entry : On(OwnerOf[e]) = {}
    BY <1>3, CompactionAssumption
  <1>5. \A e \in Entry : ~MeetsEntry(node, On(OwnerOf[e]), e) /\ \A x : ~Meets(node, On(OwnerOf[e]), x)
    BY <1>4 DEF MeetsEntry, Meets
  <1>6. EntriesOnce /\ StampsAgree /\ TuplesFollow
    BY <1>2, <1>5 DEF EntriesOnce, StampsAgree, TuplesFollow, Coming
  <1>7. CallsSet
    BY <1>2 DEF CallsSet, CallSet, Inserting, Walking
  <1>8. Unmerged
    BY <1>3 DEF Unmerged
  <1>9. QED  BY <1>6, <1>7, <1>8 DEF EntriesInv

LEMMA EntriesIdle ==
    ASSUME IInv, IInv', TablesInv, ListsInv, ListsInv', EntriesInv, UNCHANGED vars
    PROVE  EntriesInv'
  <1>1. UNCHANGED <<xact, xid, pc, etup, node, head, loc>>
    BY DEF vars, data
  <1>2. \A n \in DOMAIN node \cup {Nil} : Reaches'[n] = Reaches[n]
    BY <1>1, ReachesKept
  <1>3. \A v \in Vertex : On(v)' = On(v)
    BY <1>1, <1>2, HeadsThere DEF On
  <1>4. \A e \in Entry : On(OwnerOf[e])' = On(OwnerOf[e])
    BY <1>3, CompactionAssumption
  <1>5. \A e : (Coming(e)' <=> Coming(e)) /\ (Going(e)' <=> Going(e))
    BY <1>1 DEF Coming, Going
  <1>6. ASSUME NEW e \in Entry PROVE EntryHolds(e)'
    <2>1. EntryHolds(e)
      BY EntriesAre
    <2>2. QED  BY <1>1, <1>4, <1>5, <2>1, EntryKept
  <1>7. ASSUME NEW b \in Backend PROVE CallSet(b)'
    <2>1. CallSet(b)
      BY DEF EntriesInv, CallsSet
    <2>2. CASE pc[b] \notin Inserting \cup Walking
      BY <1>1, <2>2 DEF CallSet, Walking
    <2>3. CASE pc[b] \in Inserting \cup Walking
      <3>1. PICK e, S, a : e = loc[b].entry /\ S = On(OwnerOf[e]) /\ a = loc[b].at
        OBVIOUS
      <3>2. e \in Entry /\ OwnerOf[e] \in Vertex
        <4>1. e \in Entry
          BY <2>3, <3>1, AtStep DEF SetAt, Walking
        <4>2. QED  BY <4>1, CompactionAssumption
      <3>3. S \subseteq DOMAIN node
        BY <3>1, <3>2, OnIs
      <3>4. PICK P, Q : P = On(OwnerOf[e])' /\ Q = Reaches'
        OBVIOUS
      <3>5. P = S /\ (a \in S \cup {Nil} => Q[a] = Reaches[a])
        BY <1>2, <1>4, <3>1, <3>2, <3>3, <3>4
      <3>6. /\ pc[b] \in Inserting => etup[e].xmin = xid[b]
            /\ pc[b] \in Walking => etup[e].xmax = xid[b]
            /\ pc[b] = "walk" =>
                  /\ a \in P \cup {Nil}
                  /\ \A x : Meets(node, P, x) /\ x.entry = e /\ x.xmax = NoXid => Meets(node, Q[a], x)
        BY <2>1, <3>1, <3>5 DEF CallSet
      <3>7. QED  BY <1>1, <3>1, <3>4, <3>6 DEF CallSet
    <2>4. QED  BY <2>2, <2>3
  <1>8. Unmerged'
    <2>1. \A v \in Vertex : \A n \in On(v)' : n \in On(v)
      BY <1>3
    <2>2. QED  BY <1>1, <2>1 DEF EntriesInv, Unmerged
  <1>9. QED  BY <1>6, <1>7, <1>8, EntriesAreNext DEF CallsSet

LEMMA EntriesStep ==
    ASSUME IInv, IInv', TablesInv, ListsInv, EntriesInv, NEW b \in Backend, Acts(b), calm'
    PROVE  EntriesInv'
  <1>1. Idle(b) /\ TablesInv' /\ ListsInv'
    BY ActsAlone, TablesStep, ListsStep
  <1>2. CASE Begin(b) \/ Commit(b) \/ Abort(b)
    BY <1>1, <1>2, EntriesXact
  <1>3. CASE \E e \in Entry : Insert(b, e) \/ Delete(b, e)
    BY <1>1, <1>3, EntriesCall
  <1>4. CASE SetHead(b) \/ StampMember(b)
    BY <1>1, <1>4, EntriesSetHead, EntriesStamp
  <1>5. CASE StartWalk(b) \/ WalkOn(b) \/ WalkEnds(b)
    BY <1>1, <1>5, EntriesWalk, EntriesWalkEnds
  <1>6. CASE Rewrite(b) \/ Wire(b)
    BY <1>1, <1>6, EntriesRewrite, EntriesWire
  <1>7. CASE \/ ReadHead(b) \/ AppendRecord(b) \/ FixPrev(b)
             \/ RotateActive(b) \/ CloseActive(b) \/ AddActive(b)
             \/ Compact(b) \/ CompactActive(b) \/ PickClosed(b)
             \/ Scan(b) \/ Merge(b) \/ FindRow(b) \/ Mark(b)
    BY <1>1, <1>7, EntriesQuiet
  <1>8. QED  BY <1>2, <1>3, <1>4, <1>5, <1>6, <1>7 DEF Acts

\* What holds as long as the history is calm.
CalmInv == calm => TablesInv /\ ListsInv /\ EntriesInv

LEMMA CalmStep ==
    ASSUME IInv, IInv', CalmInv, [Next]_vars, calm'
    PROVE  TablesInv' /\ ListsInv' /\ EntriesInv'
  <1>1. CASE Next
    <2>1. PICK b \in Backend : Acts(b)
      BY <1>1, NextActs
    <2>2. calm
      BY <2>1, CalmBefore
    <2>3. TablesInv /\ ListsInv /\ EntriesInv
      BY <2>2 DEF CalmInv
    <2>4. QED  BY <2>1, <2>3, TablesStep, ListsStep, EntriesStep
  <1>2. CASE UNCHANGED vars
    <2>1. calm
      <3>1. calm' = calm
        BY <1>2 DEF vars
      <3>2. QED  BY <3>1, Zenon
    <2>2. TablesInv /\ ListsInv /\ EntriesInv
      BY <2>1 DEF CalmInv
    <2>3. TablesInv' /\ ListsInv'
      BY <1>2, <2>2, TablesIdle, ListsIdle
    <2>4. QED  BY <1>2, <2>2, <2>3, EntriesIdle
  <1>3. QED  BY <1>1, <1>2

LEMMA CalmInvariance == Spec => []CalmInv
  <1>1. Init => CalmInv
    BY TablesInit, ListsInit, EntriesInit DEF CalmInv
  <1>2. IInv /\ IInv' /\ CalmInv /\ [Next]_vars => CalmInv'
    BY CalmStep DEF CalmInv
  <1>3. QED  BY <1>1, <1>2, Invariance, PTL DEF Spec
-----------------------------------------------------------------------------
(* Theorems.                                                                 *)

\* A transaction that is in a call has not committed.
LEMMA CallerRuns ==
    ASSUME IInv, NEW b \in Backend, pc[b] # "idle"
    PROVE  ~DidCommit(xact, xid[b])
  BY DEF IInv, MetaInv, XactsHeld, DidCommit

LEMMA OnceNow ==
    ASSUME IInv, TablesInv, ListsInv, EntriesInv, NEW e \in Entry, DidCommit(xact, etup[e].xmin)
    PROVE  Cardinality({i \in DOMAIN Found(OwnerOf[e]) : Found(OwnerOf[e])[i].entry = e}) = 1
  <1>1. PICK v, s : v = OwnerOf[e] /\ s = Found(v)
    OBVIOUS
  <1>2. v \in Vertex
    BY <1>1, CompactionAssumption
  <1>3. ~Coming(e)
    <2>1. ASSUME NEW b \in Backend, pc[b] \in Inserting, loc[b].entry = e PROVE FALSE
      <3>1. etup[e].xmin = xid[b]
        BY <2>1 DEF EntriesInv, CallsSet, CallSet
      <3>2. ~DidCommit(xact, xid[b])
        BY <2>1, CallerRuns DEF Inserting
      <3>3. QED  BY <3>1, <3>2
    <2>2. QED  BY <2>1 DEF Coming, DidCommit
  <1>4. MeetsEntry(node, On(v), e) /\ MeetsOnce(node, On(v), e)
    BY <1>1, <1>3 DEF EntriesInv, EntriesOnce
  <1>5. Agrees(node, On(v), s)
    BY <1>1, <1>2, FoundIs
  <1>6. HasEntry(s, e) /\ HasOnce(s, e)
    BY <1>4, <1>5, AgreesEntry DEF Agrees
  <1>7. PICK i \in DOMAIN s : s[i].entry = e
    BY <1>6 DEF HasEntry, Has
  <1>8. {k \in DOMAIN s : s[k].entry = e} = {i}
    BY <1>6, <1>7 DEF HasOnce
  <1>9. Cardinality({i}) = 1
    BY FS_Singleton
  <1>10. QED  BY <1>1, <1>8, <1>9

\* Compaction moves entries, it neither loses nor doubles them: where
\* transactions come one after another, a committed edge entry is found exactly
\* once on the walk from its vertex, whatever insertions, rotations and
\* compactions have run, and also while compact_oldest_linked_list_table is
\* between two of its writes.
THEOREM EachOnceHolds == Spec => []EachOnce
  <1>1. IInv /\ CalmInv => EachOnce
    BY OnceNow DEF CalmInv, EachOnce
  <1>2. QED  BY <1>1, Invariance, CalmInvariance, PTL

LEMMA DeletedNow ==
    ASSUME IInv, TablesInv, ListsInv, EntriesInv, NEW e \in Entry, DidCommit(xact, etup[e].xmax),
           NEW i \in DOMAIN Found(OwnerOf[e]), Found(OwnerOf[e])[i].entry = e
    PROVE  \/ Found(OwnerOf[e])[i].xmax = etup[e].xmax
           \/ DidAbort(xact, Found(OwnerOf[e])[i].xmax)
  <1>1. PICK v, s, x : v = OwnerOf[e] /\ s = Found(v) /\ x = s[i]
    OBVIOUS
  <1>2. v \in Vertex
    BY <1>1, CompactionAssumption
  <1>3. Agrees(node, On(v), s) /\ Has(s, x)
    BY <1>1, <1>2, FoundIs DEF Has
  <1>4. Meets(node, On(v), x)
    BY <1>3 DEF Agrees
  <1>5. ~Going(e)
    <2>1. ASSUME NEW b \in Backend, pc[b] \in Walking, loc[b].entry = e PROVE FALSE
      <3>1. etup[e].xmax = xid[b]
        BY <2>1 DEF EntriesInv, CallsSet, CallSet
      <3>2. ~DidCommit(xact, xid[b])
        BY <2>1, CallerRuns DEF Walking
      <3>3. QED  BY <3>1, <3>2
    <2>2. QED  BY <2>1 DEF Going
  <1>6. x.entry = e
    BY <1>1
  <1>7. x.xmax = etup[e].xmax \/ DidAbort(xact, x.xmax)
    BY <1>1, <1>4, <1>5, <1>6 DEF EntriesInv, StampsAgree
  <1>8. QED  BY <1>1, <1>7

LEMMA UnusedNow ==
    ASSUME IInv, TablesInv, ListsInv, EntriesInv, NEW v \in Vertex, NEW n \in ToSet(Chain[head[v]])
    PROVE  /\ ~DidCommit(xact, node[n].xmax)
           /\ \A i \in DOMAIN meta : ~(/\ meta[i].tbl = TableOf(n) /\ meta[i].compacted
                                       /\ DidCommit(xact, meta[i].xmin))
  <1>1. head[v] \in {Nil} \cup DOMAIN node /\ SeqFacts
    BY HeadsThere, OnIs
  <1>2. n \in On(v) /\ n \in DOMAIN node
    <2>1. n \in On(v)
      BY <1>1 DEF On, Reaches
    <2>2. QED  BY <2>1, OnIs
  <1>3. ~DidCommit(xact, node[n].xmax)
    <2>1. CASE node[n].xmax = NoXid
      BY <2>1 DEF DidCommit
    <2>2. CASE node[n].xmax # NoXid
      <3>1. PICK b \in Backend : pc[b] = "wire" /\ node[n].xmax = xid[b]
        BY <1>2, <2>2 DEF EntriesInv, Unmerged
      <3>2. QED  BY <3>1, CallerRuns
    <2>3. QED  BY <2>1, <2>2
  <1>4. ASSUME NEW i \in DOMAIN meta, meta[i].tbl = TableOf(n), meta[i].compacted PROVE FALSE
    <2>1. i \in Present
      BY <1>4 DEF Present, TablesInv, TablesOrdered
    <2>2. Done(TableOf(n))
      BY <1>4, <2>1 DEF Done
    <2>3. TableOf(n) # ArrayList
      BY <1>1, <1>4 DEF SeqFacts, MetaRow, ArrayList
    <2>4. n \in Standing(v)
      BY <1>2, <2>3, OnLists DEF Lists
    <2>5. QED  BY <2>2, <2>4 DEF Standing, Moved
  <1>5. QED  BY <1>3, <1>4

\* What compaction must keep, where transactions come one after another: what a
\* walk meets of an entry whose deletion has committed bears that deletion's
\* stamp or a rolled back one; no walk comes into a table marked compacted or
\* to a block that was merged into others; and the table a scan is at leads
\* into the array list only, as its assertion says.
THEOREM CompactionIsSafeHolds == Spec => []CompactionIsSafe
  <1>1. IInv /\ CalmInv => DeletedStaysDeleted
    BY DeletedNow DEF CalmInv, DeletedStaysDeleted
  <1>2. IInv /\ CalmInv => CompactedIsUnused
    BY UnusedNow DEF CalmInv, CompactedIsUnused
  <1>3. IInv /\ CalmInv => AssertionHolds
    BY ScanLeadsDown DEF CalmInv, AssertionHolds
  <1>4. IInv /\ CalmInv => CompactionIsSafe
    BY <1>1, <1>2, <1>3 DEF CompactionIsSafe
  <1>5. QED  BY <1>4, Invariance, CalmInvariance, PTL
=============================================================================
