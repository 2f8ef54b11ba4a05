-------------------------- MODULE LabelCatalogProofs --------------------------
(***************************************************************************)
(* Theorems about LabelCatalog, for any names, annotations and number of   *)
(* labels and calls, whichever calls a rollback takes back.                *)
(***************************************************************************)
EXTENDS LabelCatalog, FiniteSetTheorems, SequenceTheorems, WellFoundedInduction, TLAPS

(***************************************************************************)
(* Sets of numbers.                                                        *)
(***************************************************************************)
Less == {p \in Nat \X Nat : p[1] < p[2]}

LEMMA MinIsIn ==
    ASSUME NEW S \in SUBSET Nat, S # {}
    PROVE  Min(S) \in S /\ \A m \in S : Min(S) <= m
  <1>1. IsWellFoundedOn(Less, Nat)
    BY NatLessThanWellFounded DEF OpToRel, Less
  <1>2. PICK n \in S : \A m \in S : <<m, n>> \notin Less
    BY <1>1, WFMin
  <1>3. ASSUME NEW m \in S PROVE n <= m
    <2>1. m \in Nat /\ n \in Nat /\ (<<m, n>> \in Less <=> m < n)
      BY DEF Less
    <2>2. QED  BY <1>2, <2>1
  <1>4. QED  BY <1>3 DEF Min

LEMMA MaxIsIn ==
    ASSUME NEW N \in Nat, NEW S \in SUBSET (1 .. N), S # {}
    PROVE  Max(S) \in S /\ \A m \in S : m <= Max(S)
  <1> DEFINE T == {N - n : n \in S}
  <1>1. T \in SUBSET Nat
    <2>1. \A n \in S : n \in 1 .. N
      OBVIOUS
    <2>2. \A n \in 1 .. N : N - n \in Nat
      OBVIOUS
    <2>3. QED  BY <2>1, <2>2
  <1>2. PICK n \in S : Min(T) = N - n
    <2>1. T # {}
      OBVIOUS
    <2>2. Min(T) \in T
      BY <1>1, <2>1, MinIsIn
    <2>3. QED  BY <2>2
  <1>3. ASSUME NEW m \in S PROVE n >= m
    <2>1. N - m \in T
      OBVIOUS
    <2>2. Min(T) <= N - m
      BY <1>1, <2>1, MinIsIn
    <2>3. m \in 1 .. N /\ n \in 1 .. N
      OBVIOUS
    <2>4. QED  BY <1>2, <2>2, <2>3
  <1>4. Max(S) \in S /\ \A m \in S : Max(S) >= m
    BY <1>3 DEF Max
  <1>5. \A m \in S : m \in Int
    OBVIOUS
  <1>6. QED  BY <1>4, <1>5
-----------------------------------------------------------------------------
(* Sequences without an element.                                            *)

\* t are the first n elements of s but those equal to x, in their order.
Thins(s, x, n, t) ==
    \E m \in [1 .. Len(t) -> 1 .. n] :
        /\ \A i \in 1 .. Len(t) : t[i] = s[m[i]] /\ s[m[i]] # x
        /\ \A i, j \in 1 .. Len(t) : i < j => m[i] < m[j]
        /\ \A j \in 1 .. n : s[j] # x => \E i \in 1 .. Len(t) : m[i] = j

Keeping(s, x, f, i) ==
    IF i = 0 THEN <<>> ELSE IF s[i] = x THEN f[i - 1] ELSE Append(f[i - 1], s[i])

LEMMA KeepingThere ==
    ASSUME NEW s, NEW x, NEW k \in Nat
    PROVE  \E f : f = [i \in 0 .. k |-> Keeping(s, x, f, i)]
  <1> DEFINE Is(f, n) == f = [i \in 0 .. n |-> Keeping(s, x, f, i)]
             Bad == {n \in 0 .. k : ~\E f : Is(f, n)}
  <1>1. ASSUME Bad # {} PROVE FALSE
    <2>1. PICK n \in Bad : \A m \in Bad : n <= m
      <3> HIDE DEF Is
      <3>1. Bad \in SUBSET Nat
        OBVIOUS
      <3>2. Min(Bad) \in Bad /\ \A m \in Bad : Min(Bad) <= m
        BY <1>1, <3>1, MinIsIn
      <3>3. QED  BY <3>2
    <2>2. n \in 0 .. k /\ ~\E f : Is(f, n)
      BY <2>1
    <2>3. n # 0
      <3> DEFINE f == [i \in 0 .. 0 |-> <<>>]
      <3>1. f = [i \in 0 .. 0 |-> Keeping(s, x, f, i)]
        BY DEF Keeping
      <3>2. QED  BY <2>2, <3>1
    <2>4. n - 1 \in 0 .. k /\ n \in Nat /\ ~(n <= n - 1)
      BY <2>2, <2>3
    <2>5. PICK f : Is(f, n - 1)
      BY <2>1, <2>4
    <2> DEFINE r(i) == Keeping(s, x, f, i)
               g == [i \in 0 .. n |-> r(i)]
               q(i) == Keeping(s, x, g, i)
    <2>6. f = [i \in 0 .. n - 1 |-> r(i)]
      BY <2>5
    <2>7. \A i \in 0 .. n - 1 : i \in 0 .. n /\ g[i] = f[i]
      <3> HIDE DEF r
      <3>1. \A i \in 0 .. n - 1 : i \in 0 .. n /\ f[i] = r(i)
        BY <2>4, <2>6
      <3>2. QED  BY <3>1
    <2>8. \A i \in 0 .. n : i = 0 \/ i - 1 \in 0 .. n - 1
      BY <2>4
    <2>9. \A i \in 0 .. n : r(i) = q(i)
      <3> HIDE DEF g
      <3>1. QED  BY <2>7, <2>8 DEF Keeping
    <2>10. g = [i \in 0 .. n |-> q(i)]
      <3> HIDE DEF q, r
      <3>1. QED  BY <2>9
    <2>11. Is(g, n)
      BY <2>10
    <2>12. QED  BY <2>2, <2>11
  <1>2. k \in 0 .. k
    OBVIOUS
  <1>3. QED  BY <1>1, <1>2

LEMMA WithoutIs ==
    ASSUME NEW s, NEW x, Len(s) \in Nat
    PROVE  \E f : f = [i \in 0 .. Len(s) |-> Keeping(s, x, f, i)] /\ Without(s, x) = f[Len(s)]
  <1>1. PICK f : f = [i \in 0 .. Len(s) |-> Keeping(s, x, f, i)]
    BY KeepingThere
  <1>2. QED  BY <1>1 DEF Without, Keeping

LEMMA ThinsNext ==
    ASSUME NEW S, NEW s \in Seq(S), NEW x, NEW n \in 1 .. Len(s), NEW t \in Seq(S), Thins(s, x, n - 1, t)
    PROVE  /\ s[n] = x => Thins(s, x, n, t)
           /\ s[n] # x => Append(t, s[n]) \in Seq(S) /\ Thins(s, x, n, Append(t, s[n]))
  <1>1. PICK m \in [1 .. Len(t) -> 1 .. n - 1] :
          /\ \A i \in 1 .. Len(t) : t[i] = s[m[i]] /\ s[m[i]] # x
          /\ \A i, j \in 1 .. Len(t) : i < j => m[i] < m[j]
          /\ \A j \in 1 .. n - 1 : s[j] # x => \E i \in 1 .. Len(t) : m[i] = j
    BY DEF Thins
  <1>2. n \in Nat /\ \A j \in 1 .. n : j = n \/ j \in 1 .. n - 1
    OBVIOUS
  <1>3. ASSUME s[n] = x PROVE Thins(s, x, n, t)
    <2>1. m \in [1 .. Len(t) -> 1 .. n]
      OBVIOUS
    <2>2. \A j \in 1 .. n : s[j] # x => \E i \in 1 .. Len(t) : m[i] = j
      BY <1>1, <1>2, <1>3
    <2>3. QED  BY <1>1, <2>1, <2>2 DEF Thins
  <1>4. ASSUME s[n] # x PROVE Append(t, s[n]) \in Seq(S) /\ Thins(s, x, n, Append(t, s[n]))
    <2>1. PICK u, k : u = Append(t, s[n]) /\ k = Len(t)
      OBVIOUS
    <2>2. /\ u \in Seq(S) /\ Len(u) = k + 1 /\ k \in Nat
          /\ u[k + 1] = s[n] /\ \A i \in 1 .. k : u[i] = t[i]
      BY <2>1, AppendProperties
    <2> DEFINE w == [i \in 1 .. k + 1 |-> IF i = k + 1 THEN n ELSE m[i]]
    <2>3. /\ w \in [1 .. k + 1 -> 1 .. n] /\ w[k + 1] = n
          /\ \A i \in 1 .. k : w[i] = m[i] /\ w[i] \in 1 .. n - 1
      <3>1. m \in [1 .. k -> 1 .. n - 1] /\ k \in Nat /\ n \in Nat
        BY <1>1, <1>2, <2>1, <2>2
      <3>2. \A i \in 1 .. k : i \in 1 .. k + 1 /\ i # k + 1 /\ m[i] \in 1 .. n - 1
        BY <3>1
      <3>3. \A i \in 1 .. k + 1 : i = k + 1 \/ i \in 1 .. k
        BY <3>1
      <3>4. \A j \in 1 .. n - 1 : j \in 1 .. n
        BY <3>1
      <3>5. n \in 1 .. n /\ k + 1 \in 1 .. k + 1
        BY <1>2, <2>2
      <3>6. QED  BY <3>2, <3>3, <3>4, <3>5
    <2> HIDE DEF w
    <2>4. \A i \in 1 .. k + 1 : i = k + 1 \/ i \in 1 .. k
      BY <2>2
    <2>5. \A i \in 1 .. k + 1 : u[i] = s[w[i]] /\ s[w[i]] # x
      BY <1>1, <1>4, <2>1, <2>2, <2>3, <2>4
    <2>6. ASSUME NEW i \in 1 .. k + 1, NEW j \in 1 .. k + 1, i < j PROVE w[i] < w[j]
      <3>1. i \in 1 .. k
        BY <2>2, <2>6
      <3>2. CASE j = k + 1
        BY <2>3, <3>1, <3>2
      <3>3. CASE j \in 1 .. k
        BY <1>1, <2>1, <2>3, <2>6, <3>1, <3>3
      <3>4. QED  BY <2>4, <3>2, <3>3
    <2>7. ASSUME NEW j \in 1 .. n, s[j] # x PROVE \E i \in 1 .. k + 1 : w[i] = j
      <3>1. CASE j = n
        <4>1. k + 1 \in 1 .. k + 1
          BY <2>2
        <4>2. QED  BY <2>3, <3>1, <4>1
      <3>2. CASE j \in 1 .. n - 1
        <4>1. PICK i \in 1 .. Len(t) : m[i] = j
          BY <1>1, <2>7, <3>2
        <4>2. i \in 1 .. k + 1 /\ w[i] = j
          BY <2>1, <2>2, <2>3, <4>1
        <4>3. QED  BY <4>2
      <3>3. QED  BY <1>2, <3>1, <3>2
    <2>8. Thins(s, x, n, u)
      <3>1. Len(u) = k + 1
        BY <2>2
      <3>2. w \in [1 .. Len(u) -> 1 .. n]
        BY <2>3, <3>1
      <3>3. /\ \A i \in 1 .. Len(u) : u[i] = s[w[i]] /\ s[w[i]] # x
            /\ \A i, j \in 1 .. Len(u) : i < j => w[i] < w[j]
            /\ \A j \in 1 .. n : s[j] # x => \E i \in 1 .. Len(u) : w[i] = j
        BY <2>5, <2>6, <2>7, <3>1
      <3>4. QED  BY <3>2, <3>3 DEF Thins
    <2>9. QED  BY <2>1, <2>2, <2>8
  <1>5. QED  BY <1>3, <1>4

LEMMA WithoutThins ==
    ASSUME NEW S, NEW s \in Seq(S), NEW x
    PROVE  Without(s, x) \in Seq(S) /\ Thins(s, x, Len(s), Without(s, x))
  <1>1. Len(s) \in Nat
    OBVIOUS
  <1>2. PICK f : f = [i \in 0 .. Len(s) |-> Keeping(s, x, f, i)] /\ Without(s, x) = f[Len(s)]
    BY <1>1, WithoutIs
  <1>3. f[0] = <<>> /\ \A i \in 1 .. Len(s) : f[i] = IF s[i] = x THEN f[i - 1] ELSE Append(f[i - 1], s[i])
    <2>1. \A i \in 0 .. Len(s) : f[i] = Keeping(s, x, f, i)
      BY <1>2
    <2>2. 0 \in 0 .. Len(s) /\ \A i \in 1 .. Len(s) : i \in 0 .. Len(s) /\ i # 0
      BY <1>1
    <2>3. QED  BY <2>1, <2>2 DEF Keeping
  <1> DEFINE Good(n) == f[n] \in Seq(S) /\ Thins(s, x, n, f[n])
             Bad == {n \in 0 .. Len(s) : ~Good(n)}
  <1>4. Good(0)
    <2>1. f[0] \in Seq(S) /\ Len(f[0]) = 0 /\ 1 .. 0 = {}
      BY <1>3
    <2>2. [i \in 1 .. Len(f[0]) |-> 0] \in [1 .. Len(f[0]) -> 1 .. 0]
      BY <2>1
    <2>3. QED  BY <2>1, <2>2 DEF Thins
  <1>5. ASSUME Bad # {} PROVE FALSE
    <2>1. PICK n \in Bad : \A m \in Bad : n <= m
      <3> HIDE DEF Good
      <3>1. Bad \in SUBSET Nat
        BY <1>1
      <3>2. Min(Bad) \in Bad /\ \A m \in Bad : Min(Bad) <= m
        BY <1>5, <3>1, MinIsIn
      <3>3. QED  BY <3>2
    <2> HIDE DEF Good
    <2>2. n \in 1 .. Len(s) /\ n - 1 \in 0 .. Len(s) /\ ~(n <= n - 1)
      BY <1>1, <1>4
    <2>3. Good(n - 1)
      BY <2>1, <2>2
    <2>4. Good(n)
      <3>1. PICK t : t = f[n - 1]
        OBVIOUS
      <3>2. t \in Seq(S) /\ Thins(s, x, n - 1, t)
        BY <2>3, <3>1 DEF Good
      <3>3. f[n] = IF s[n] = x THEN t ELSE Append(t, s[n])
        BY <1>3, <2>2, <3>1
      <3>4. /\ s[n] = x => Thins(s, x, n, t)
            /\ s[n] # x => Append(t, s[n]) \in Seq(S) /\ Thins(s, x, n, Append(t, s[n]))
        BY <2>2, <3>2, ThinsNext
      <3>5. QED  BY <3>2, <3>3, <3>4 DEF Good
    <2>5. QED  BY <2>1, <2>4
  <1>6. Good(Len(s))
    BY <1>1, <1>5
  <1>7. QED  BY <1>2, <1>6

\* What is left of a sequence are its other elements, each as often as before,
\* the first of them first.
LEMMA WithoutKeeps ==
    ASSUME NEW S, NEW s \in Seq(S), NEW x
    PROVE  /\ Without(s, x) \in Seq(S)
           /\ ToSet(Without(s, x)) = ToSet(s) \ {x}
           /\ s # <<>> /\ s[1] # x => Without(s, x) # <<>> /\ Without(s, x)[1] = s[1]
           /\ IsInjective(s) => IsInjective(Without(s, x))
  <1>1. PICK t : t = Without(s, x)
    OBVIOUS
  <1>2. t \in Seq(S) /\ Thins(s, x, Len(s), t)
    BY <1>1, WithoutThins
  <1>3. PICK m \in [1 .. Len(t) -> 1 .. Len(s)] :
          /\ \A i \in 1 .. Len(t) : t[i] = s[m[i]] /\ s[m[i]] # x
          /\ \A i, j \in 1 .. Len(t) : i < j => m[i] < m[j]
          /\ \A j \in 1 .. Len(s) : s[j] # x => \E i \in 1 .. Len(t) : m[i] = j
    BY <1>2 DEF Thins
  <1>4. DOMAIN s = 1 .. Len(s) /\ DOMAIN t = 1 .. Len(t) /\ Len(s) \in Nat /\ Len(t) \in Nat
    BY <1>2
  <1>5. ToSet(t) = ToSet(s) \ {x}
    BY <1>3, <1>4 DEF ToSet
  <1>6. ASSUME s # <<>>, s[1] # x PROVE t # <<>> /\ t[1] = s[1]
    <2>1. 1 \in 1 .. Len(s)
      BY <1>6, EmptySeq
    <2>2. PICK i \in 1 .. Len(t) : m[i] = 1
      BY <1>3, <1>6, <2>1
    <2>3. 1 \in 1 .. Len(t) /\ m[1] \in 1 .. Len(s)
      BY <1>4, <2>2
    <2>4. i = 1
      <3>1. i > 1 => m[1] < 1
        BY <1>3, <2>2, <2>3
      <3>2. QED  BY <1>4, <2>2, <2>3, <3>1
    <2>5. QED  BY <1>3, <1>4, <2>2, <2>3, <2>4
  <1>7. ASSUME IsInjective(s) PROVE IsInjective(t)
    <2>1. SUFFICES ASSUME NEW i \in 1 .. Len(t), NEW j \in 1 .. Len(t), t[i] = t[j] PROVE i = j
      BY <1>4 DEF IsInjective
    <2>2. m[i] = m[j] /\ m[i] \in Int /\ m[j] \in Int
      <3>1. s[m[i]] = s[m[j]] /\ m[i] \in DOMAIN s /\ m[j] \in DOMAIN s
        BY <1>3, <1>4, <2>1
      <3>2. QED  BY <1>7, <3>1, <1>4 DEF IsInjective
    <2>3. ~(i < j) /\ ~(j < i)
      BY <1>3, <2>2
    <2>4. QED  BY <1>4, <2>3
  <1>8. QED  BY <1>1, <1>2, <1>5, <1>6, <1>7
-----------------------------------------------------------------------------
(* Folds over a sequence of n elements.  The library's fold is a recursive   *)
(* function of sets of positions; G[<<v, i>>] is the step at position i.     *)

Folding(G, base, f, s) == IF s = {} THEN base ELSE G[<<f[s \ {Max(s)}], Max(s)>>]

IsFold(G, base, n, f) == f = [s \in SUBSET (1 .. n) |-> Folding(G, base, f, s)]

LEMMA FoldThere ==
    ASSUME NEW V, NEW n \in Nat, NEW G \in [V \X (1 .. n) -> V], NEW base \in V
    PROVE  \E f \in [SUBSET (1 .. n) -> V] : IsFold(G, base, n, f)
  <1> DEFINE Is(f, k) == /\ f \in [SUBSET (1 .. k) -> V]
                         /\ f = [s \in SUBSET (1 .. k) |-> Folding(G, base, f, s)]
             Bad == {k \in 0 .. n : ~\E f : Is(f, k)}
  <1>1. ASSUME Bad # {} PROVE FALSE
    <2>1. PICK k \in Bad : \A m \in Bad : k <= m
      <3> HIDE DEF Is
      <3>1. Bad \in SUBSET Nat
        OBVIOUS
      <3>2. Min(Bad) \in Bad /\ \A m \in Bad : Min(Bad) <= m
        BY <1>1, <3>1, MinIsIn
      <3>3. QED  BY <3>2
    <2>2. k \in 0 .. n /\ ~\E f : Is(f, k)
      BY <2>1
    <2>3. k # 0
      <3>1. SUFFICES ASSUME k = 0 PROVE FALSE
        OBVIOUS
      <3> DEFINE f == [s \in SUBSET (1 .. k) |-> base]
      <3>2. \A s \in SUBSET (1 .. k) : s = {}
        BY <3>1
      <3>3. \A s \in SUBSET (1 .. k) : Folding(G, base, f, s) = base
        BY <3>2 DEF Folding
      <3>4. Is(f, k)
        BY <3>3
      <3>5. QED  BY <2>2, <3>4
    <2>4. k - 1 \in 0 .. n /\ k \in Nat /\ ~(k <= k - 1)
      BY <2>2, <2>3
    <2>5. PICK f : Is(f, k - 1)
      BY <2>1, <2>4
    <2> DEFINE r(s) == Folding(G, base, f, s)
               g == [s \in SUBSET (1 .. k) |-> r(s)]
               q(s) == Folding(G, base, g, s)
    <2>6. f = [s \in SUBSET (1 .. k - 1) |-> r(s)] /\ f \in [SUBSET (1 .. k - 1) -> V]
      BY <2>5
    <2>7. \A s \in SUBSET (1 .. k - 1) : s \in SUBSET (1 .. k) /\ g[s] = f[s]
      <3> HIDE DEF r
      <3>1. \A i \in 1 .. k - 1 : i \in 1 .. k
        BY <2>4
      <3>2. \A s \in SUBSET (1 .. k - 1) : s \in SUBSET (1 .. k) /\ f[s] = r(s)
        BY <2>6, <3>1
      <3>3. QED  BY <3>2
    <2>8. ASSUME NEW s \in SUBSET (1 .. k), s # {}
          PROVE  s \ {Max(s)} \in SUBSET (1 .. k - 1) /\ Max(s) \in 1 .. n
      <3>1. PICK x : x = Max(s)
        OBVIOUS
      <3>2. x \in s /\ \A m \in s : m <= x
        BY <2>4, <2>8, <3>1, MaxIsIn
      <3>3. x \in 1 .. k /\ \A m \in s : m \in 1 .. k
        BY <3>2
      <3>4. \A i \in 1 .. k : i \in 1 .. n /\ (i <= x /\ i # x => i \in 1 .. k - 1)
        BY <2>2, <2>4, <3>3
      <3>5. x \in 1 .. n
        BY <3>3, <3>4
      <3>6. \A m \in s : m # x => m \in 1 .. k - 1
        BY <3>2, <3>3, <3>4
      <3>7. QED  BY <3>1, <3>5, <3>6
    <2>9. \A s \in SUBSET (1 .. k) : r(s) = q(s) /\ r(s) \in V
      <3> HIDE DEF g
      <3>1. SUFFICES ASSUME NEW s \in SUBSET (1 .. k) PROVE r(s) = q(s) /\ r(s) \in V
        OBVIOUS
      <3>2. CASE s = {}
        BY <3>2 DEF Folding
      <3>3. CASE s # {}
        <4>1. PICK t, m : t = s \ {Max(s)} /\ m = Max(s)
          OBVIOUS
        <4>2. t \in SUBSET (1 .. k - 1) /\ m \in 1 .. n
          BY <2>8, <3>3, <4>1
        <4>3. g[t] = f[t] /\ f[t] \in V
          BY <2>6, <2>7, <4>2
        <4>4. r(s) = G[<<f[t], m>>] /\ q(s) = G[<<g[t], m>>]
          BY <3>3, <4>1 DEF Folding
        <4>5. QED  BY <4>2, <4>3, <4>4
      <3>4. QED  BY <3>2, <3>3
    <2>10. g = [s \in SUBSET (1 .. k) |-> q(s)] /\ g \in [SUBSET (1 .. k) -> V]
      <3> HIDE DEF q, r
      <3>1. QED  BY <2>9
    <2>11. Is(g, k)
      BY <2>10
    <2>12. QED  BY <2>2, <2>11
  <1>2. n \in 0 .. n
    OBVIOUS
  <1>3. \E f : Is(f, n)
    <2> HIDE DEF Is
    <2>1. QED  BY <1>1, <1>2
  <1>4. QED  BY <1>3 DEF IsFold

\* The values a fold runs through, h[i] after position i.
Runs(V, G, base, n, h) ==
    /\ h \in [0 .. n -> V] /\ h[0] = base
    /\ \A i \in 1 .. n : h[i] = G[<<h[i - 1], i>>]

LEMMA FoldRuns ==
    ASSUME NEW V, NEW n \in Nat, NEW G, \A v \in V : \A i \in 1 .. n : G[<<v, i>>] \in V, NEW base \in V,
           NEW f, IsFold(G, base, n, f)
    PROVE  \E h : Runs(V, G, base, n, h) /\ f[1 .. n] = h[n]
  <1> DEFINE h == [i \in 0 .. n |-> f[1 .. i]]
  <1>0. \A s \in SUBSET (1 .. n) : f[s] = Folding(G, base, f, s)
    BY DEF IsFold
  <1>1. ASSUME NEW i \in 0 .. n PROVE f[1 .. i] = IF i = 0 THEN base ELSE G[<<f[1 .. i - 1], i>>]
    <2>1. 1 .. i \in SUBSET (1 .. n) /\ i \in Nat
      OBVIOUS
    <2>2. f[1 .. i] = Folding(G, base, f, 1 .. i)
      BY <1>0, <2>1
    <2>3. CASE i = 0
      BY <2>2, <2>3 DEF Folding
    <2>4. CASE i # 0
      <3>1. i \in 1 .. i /\ \A m \in 1 .. i : m <= i
        BY <2>1, <2>4
      <3>2. Max(1 .. i) \in 1 .. i /\ \A m \in 1 .. i : m <= Max(1 .. i)
        BY <2>1, <3>1, MaxIsIn
      <3>3. Max(1 .. i) = i
        BY <2>1, <3>1, <3>2
      <3>4. (1 .. i) \ {i} = 1 .. i - 1
        BY <2>1, <2>4
      <3>5. QED  BY <2>2, <2>4, <3>1, <3>3, <3>4 DEF Folding
    <2>5. QED  BY <2>3, <2>4
  <1>2. \A i \in 0 .. n : h[i] = IF i = 0 THEN base ELSE G[<<h[i - 1], i>>]
    <2>1. \A i \in 0 .. n : i = 0 \/ i - 1 \in 0 .. n
      OBVIOUS
    <2>2. QED  BY <1>1, <2>1
  <1>3. f[1 .. n] = h[n]
    OBVIOUS
  <1> HIDE DEF h
  <1> DEFINE Bad == {i \in 0 .. n : h[i] \notin V}
  <1>4. ASSUME Bad # {} PROVE FALSE
    <2>1. Bad \in SUBSET Nat
      OBVIOUS
    <2>2. PICK i \in Bad : \A m \in Bad : i <= m
      <3>1. Min(Bad) \in Bad /\ \A m \in Bad : Min(Bad) <= m
        BY <1>4, <2>1, MinIsIn
      <3>2. QED  BY <3>1
    <2>3. i # 0
      BY <1>2
    <2>4. i \in 1 .. n /\ i - 1 \in 0 .. n /\ ~(i <= i - 1)
      BY <2>3
    <2>5. h[i - 1] \in V
      BY <2>2, <2>4
    <2>6. h[i] = G[<<h[i - 1], i>>]
      BY <1>2, <2>3
    <2>7. QED  BY <2>2, <2>4, <2>5, <2>6
  <1>5. h \in [0 .. n -> V]
    BY <1>4 DEF h
  <1>6. h[0] = base /\ \A i \in 1 .. n : h[i] = G[<<h[i - 1], i>>]
    <2>1. 0 \in 0 .. n /\ \A i \in 1 .. n : i \in 0 .. n /\ i # 0
      OBVIOUS
    <2>2. QED  BY <1>2, <2>1
  <1>7. QED  BY <1>3, <1>5, <1>6 DEF Runs
-----------------------------------------------------------------------------
(* The catalogs' types.  A path begins with the root, a map names an         *)
(* annotation once.                                                          *)

Token == Name \cup {Root}
Path == {p \in Seq(Token) : p # <<>> /\ p[1] = Root}
Map == {NoMap} \cup {m \in Seq(Annotation) : IsInjective(m)}
RowType == [id : LabelId, path : Path, map : Map, bits : BOOLEAN, primary : BOOLEAN]
NameType == [name : Name \cup Annotation, type : {"s", "a"}]
Cat == [rows : [Kind -> Seq(RowType)], names : Seq(NameType), last : [Kind -> LabelId],
        schema : [LabelId -> Map]]

\* A row for each of some ids up to n.
Listing(s, n) ==
    /\ IsInjective(s)
    /\ \A r \in ToSet(s) : r.id \in 1 .. n
    /\ \A r, q \in ToSet(s) : r.id = q.id => r = q

\* No label of the other kind has the id.
IsAlone(c, k, id) == \A j \in Kind \ {k} : \A q \in ToSet(c.rows[j]) : q.id # id

AgreesAt(c, r) ==
    /\ IF c.schema[r.id] = NoMap THEN NamesOf(r.map) = {} ELSE c.schema[r.id] = r.map
    /\ NamesOf(r.map) # {} => r.bits

\* Rows and schema slots agree where no label of the other kind and no rollback
\* has interfered; gone are the ids whose slots a rollback has left.
Agree(c, gone) ==
    \A k \in Kind : \A r \in ToSet(c.rows[k]) :
        IsAlone(c, k, r.id) /\ r.id \notin gone => AgreesAt(c, r)

\* A slot that is filled belongs to some label, so that a new label finds its
\* slot empty.
Filled(c, gone) ==
    \A i \in LabelId : c.schema[i] # NoMap =>
        i \in gone \/ \E k \in Kind : \E r \in ToSet(c.rows[k]) : r.id = i

CatOK(c, gone) ==
    /\ c \in Cat
    /\ \A k \in Kind : Listing(c.rows[k], c.last[k])
    /\ Agree(c, gone) /\ Filled(c, gone)

\* What a rollback makes of the catalogs.
Restored == [cat EXCEPT !.rows = saved.rows, !.names = saved.names]

\* The catalogs fit together, and would after a rollback.
CatalogInv == CatOK(cat, leaked) /\ CatOK(Restored, leaked \cup put)
-----------------------------------------------------------------------------
LEMMA CatParts ==
    ASSUME NEW c \in Cat
    PROVE  /\ c.rows \in [Kind -> Seq(RowType)] /\ c.names \in Seq(NameType)
           /\ c.last \in [Kind -> LabelId] /\ c.schema \in [LabelId -> Map]
           /\ \A k \in Kind : /\ c.rows[k] \in Seq(RowType) /\ c.last[k] \in LabelId
                              /\ \A r \in ToSet(c.rows[k]) : r \in RowType
  <1>1. /\ c.rows \in [Kind -> Seq(RowType)] /\ c.names \in Seq(NameType)
        /\ c.last \in [Kind -> LabelId] /\ c.schema \in [LabelId -> Map]
    BY DEF Cat
  <1>2. ASSUME NEW k \in Kind, NEW r \in ToSet(c.rows[k]) PROVE r \in RowType
    <2>1. PICK s : s = c.rows[k]
      OBVIOUS
    <2>2. s \in Seq(RowType) /\ r \in ToSet(s)
      BY <1>1, <2>1
    <2>3. QED  BY <2>2, ElementOfSeq, LenProperties DEF ToSet
  <1>3. QED  BY <1>1, <1>2

\* Replacing a catalog's rows of a kind, its names, a slot.
LEMMA CatWith ==
    ASSUME NEW c \in Cat
    PROVE  /\ \A k \in Kind : \A s \in Seq(RowType) :
                 LET d == [c EXCEPT !.rows[k] = s]
                 IN  /\ d \in Cat /\ d.rows[k] = s /\ \A j \in Kind \ {k} : d.rows[j] = c.rows[j]
                     /\ d.names = c.names /\ d.last = c.last /\ d.schema = c.schema
           /\ \A s \in Seq(NameType) :
                 LET d == [c EXCEPT !.names = s]
                 IN  /\ d \in Cat /\ d.names = s
                     /\ d.rows = c.rows /\ d.last = c.last /\ d.schema = c.schema
           /\ \A i \in LabelId : \A m \in Map :
                 LET d == [c EXCEPT !.schema[i] = m]
                 IN  /\ d \in Cat /\ d.schema = [c.schema EXCEPT ![i] = m]
                     /\ d.rows = c.rows /\ d.last = c.last /\ d.names = c.names
  BY DEF Cat

\* A row in another one's place.
Replaced(s, u, r, q) == ToSet(u) = (ToSet(s) \ {r}) \cup {q} /\ q.id = r.id

LEMMA RowReplaced ==
    ASSUME NEW s \in Seq(RowType), NEW n, Listing(s, n), NEW r \in ToSet(s), NEW q \in RowType, q.id = r.id
    PROVE  LET u == Append(Without(s, r), q)
           IN  u \in Seq(RowType) /\ Replaced(s, u, r, q) /\ Listing(u, n)
  <1>1. PICK t, u : t = Without(s, r) /\ u = Append(t, q)
    OBVIOUS
  <1>2. t \in Seq(RowType) /\ ToSet(t) = ToSet(s) \ {r} /\ IsInjective(t)
    BY <1>1, WithoutKeeps DEF Listing
  <1>3. /\ u \in Seq(RowType) /\ Len(u) = Len(t) + 1 /\ Len(t) \in Nat
        /\ u[Len(t) + 1] = q /\ \A i \in 1 .. Len(t) : u[i] = t[i]
    BY <1>1, <1>2, AppendProperties
  <1>4. DOMAIN t = 1 .. Len(t) /\ DOMAIN u = 1 .. Len(t) + 1
    BY <1>2, <1>3, LenProperties
  <1>5. \A i : i \in 1 .. Len(t) + 1 <=> i \in 1 .. Len(t) \/ i = Len(t) + 1
    BY <1>3
  <1>6. ToSet(u) = ToSet(t) \cup {q}
    BY <1>3, <1>4, <1>5 DEF ToSet
  <1>7. \A p \in ToSet(t) : p \in ToSet(s) /\ p.id # q.id
    BY <1>2 DEF Listing
  <1>8. IsInjective(u)
    <2>1. \A i \in 1 .. Len(t) : t[i] \in ToSet(t)
      BY <1>4 DEF ToSet
    <2>2. \A i \in 1 .. Len(t) : u[i] # q
      BY <1>3, <1>7, <2>1
    <2>3. \A i, j \in 1 .. Len(t) : u[i] = u[j] => i = j
      BY <1>2, <1>3, <1>4 DEF IsInjective
    <2>4. QED  BY <1>3, <1>4, <1>5, <2>2, <2>3 DEF IsInjective
  <1>9. Replaced(s, u, r, q)
    BY <1>2, <1>6 DEF Replaced
  <1>10. Listing(u, n)
    BY <1>6, <1>7, <1>8 DEF Listing
  <1>11. QED  BY <1>1, <1>3, <1>9, <1>10

\* A new row at the end.
LEMMA RowAdded ==
    ASSUME NEW s \in Seq(RowType), NEW n \in Nat, Listing(s, n), NEW q \in RowType, q.id = n + 1
    PROVE  LET u == Append(s, q)
           IN  u \in Seq(RowType) /\ ToSet(u) = ToSet(s) \cup {q} /\ Listing(u, n + 1)
  <1>1. PICK u : u = Append(s, q)
    OBVIOUS
  <1>3. /\ u \in Seq(RowType) /\ Len(u) = Len(s) + 1 /\ Len(s) \in Nat
        /\ u[Len(s) + 1] = q /\ \A i \in 1 .. Len(s) : u[i] = s[i]
    BY <1>1, AppendProperties
  <1>4. DOMAIN s = 1 .. Len(s) /\ DOMAIN u = 1 .. Len(s) + 1
    BY <1>3, LenProperties
  <1>5. \A i : i \in 1 .. Len(s) + 1 <=> i \in 1 .. Len(s) \/ i = Len(s) + 1
    BY <1>3
  <1>6. ToSet(u) = ToSet(s) \cup {q}
    BY <1>3, <1>4, <1>5 DEF ToSet
  <1>7. \A p \in ToSet(s) : p.id # q.id /\ p.id \in 1 .. n + 1
    <2>1. \A i \in 1 .. n : i # n + 1 /\ i \in 1 .. n + 1
      OBVIOUS
    <2>2. QED  BY <2>1 DEF Listing
  <1>8. IsInjective(u)
    <2>1. \A i \in 1 .. Len(s) : s[i] \in ToSet(s)
      BY <1>4 DEF ToSet
    <2>2. \A i \in 1 .. Len(s) : u[i] # q
      BY <1>3, <1>7, <2>1
    <2>3. \A i, j \in 1 .. Len(s) : u[i] = u[j] => i = j
      BY <1>3, <1>4 DEF IsInjective, Listing
    <2>4. QED  BY <1>3, <1>4, <1>5, <2>2, <2>3 DEF IsInjective
  <1>9. q.id \in 1 .. n + 1
    OBVIOUS
  <1>10. Listing(u, n + 1)
    BY <1>6, <1>7, <1>8, <1>9 DEF Listing
  <1>11. QED  BY <1>1, <1>3, <1>6, <1>10

\* The ids of the labels stay.
SameIds(c, d) ==
    \A k \in Kind : /\ \A r \in ToSet(c.rows[k]) : \E q \in ToSet(d.rows[k]) : q.id = r.id
                    /\ \A q \in ToSet(d.rows[k]) : \E r \in ToSet(c.rows[k]) : q.id = r.id

LEMMA SameIdsAlone ==
    ASSUME NEW c, NEW d, SameIds(c, d), NEW k \in Kind, NEW id
    PROVE  IsAlone(c, k, id) <=> IsAlone(d, k, id)
  BY DEF SameIds, IsAlone

LEMMA SameIdsTwice ==
    ASSUME NEW c, NEW d, NEW e, SameIds(c, d), SameIds(d, e)
    PROVE  SameIds(c, e)
  <1>1. ASSUME NEW k \in Kind, NEW r \in ToSet(c.rows[k])
        PROVE  \E q \in ToSet(e.rows[k]) : q.id = r.id
    <2>1. PICK p \in ToSet(d.rows[k]) : p.id = r.id
      BY <1>1 DEF SameIds
    <2>2. PICK q \in ToSet(e.rows[k]) : q.id = p.id
      BY DEF SameIds
    <2>3. QED  BY <2>1, <2>2
  <1>2. ASSUME NEW k \in Kind, NEW r \in ToSet(e.rows[k])
        PROVE  \E q \in ToSet(c.rows[k]) : r.id = q.id
    <2>1. PICK p \in ToSet(d.rows[k]) : p.id = r.id
      BY <1>2 DEF SameIds
    <2>2. PICK q \in ToSet(c.rows[k]) : q.id = p.id
      BY DEF SameIds
    <2>3. QED  BY <2>1, <2>2
  <1>3. QED  BY <1>1, <1>2 DEF SameIds

\* One row of c is replaced, and nothing else of the rows.
Replaces(c, d, k, r, q) ==
    /\ Replaced(c.rows[k], d.rows[k], r, q)
    /\ \A j \in Kind \ {k} : d.rows[j] = c.rows[j]
    /\ d.last = c.last

\* The row's slot is left with its map, or gets the new one.
SlotFits(c, d, k, r, q, gone) ==
    \/ d.schema = c.schema /\ q.map = r.map /\ q.bits = r.bits
    \/ /\ d.schema = [c.schema EXCEPT ![r.id] = q.map]
       /\ IsAlone(c, k, r.id) /\ r.id \notin gone /\ NamesOf(q.map) # {} => q.bits

LEMMA ReplacesIds ==
    ASSUME NEW c, NEW d, NEW k \in Kind, NEW r \in ToSet(c.rows[k]), NEW q, Replaces(c, d, k, r, q)
    PROVE  SameIds(c, d)
  BY DEF Replaces, Replaced, SameIds

LEMMA PutRow ==
    ASSUME NEW c, NEW gone, CatOK(c, gone), NEW k \in Kind, NEW r \in ToSet(c.rows[k]), NEW q \in RowType,
           NEW d \in Cat, Replaces(c, d, k, r, q), Listing(d.rows[k], c.last[k]), SlotFits(c, d, k, r, q, gone)
    PROVE  CatOK(d, gone)
  <1>1. SameIds(c, d)
    BY ReplacesIds
  <1>2. /\ ToSet(d.rows[k]) = (ToSet(c.rows[k]) \ {r}) \cup {q} /\ q.id = r.id
        /\ \A j \in Kind \ {k} : d.rows[j] = c.rows[j]
        /\ d.last = c.last
    BY DEF Replaces, Replaced
  <1>3. \A j \in Kind : Listing(d.rows[j], d.last[j])
    BY <1>2 DEF CatOK
  <1>4. c.schema \in [LabelId -> Map] /\ r.id \in LabelId
    <2>1. c \in Cat
      BY DEF CatOK
    <2>2. r \in RowType
      BY <2>1, CatParts
    <2>3. QED  BY <2>1, <2>2 DEF Cat, RowType
  <1>5. \A i \in LabelId : i # r.id => d.schema[i] = c.schema[i]
    BY <1>4 DEF SlotFits
  <1>6. Agree(d, gone)
    <2>1. SUFFICES ASSUME NEW j \in Kind, NEW p \in ToSet(d.rows[j]), IsAlone(d, j, p.id), p.id \notin gone
                   PROVE  AgreesAt(d, p)
      BY DEF Agree
    <2>2. IsAlone(c, j, p.id)
      BY <1>1, <2>1, SameIdsAlone
    <2>3. CASE j = k /\ p = q
      <3>1. CASE d.schema = c.schema /\ q.map = r.map /\ q.bits = r.bits
        <4>1. AgreesAt(c, r)
          BY <1>2, <2>1, <2>2, <2>3 DEF CatOK, Agree
        <4>2. QED  BY <1>2, <2>3, <3>1, <4>1 DEF AgreesAt
      <3>2. CASE /\ d.schema = [c.schema EXCEPT ![r.id] = q.map]
                 /\ IsAlone(c, k, r.id) /\ r.id \notin gone /\ NamesOf(q.map) # {} => q.bits
        <4>1. d.schema[p.id] = q.map
          BY <1>2, <1>4, <2>3, <3>2
        <4>2. NamesOf(q.map) # {} => q.bits
          BY <1>2, <2>1, <2>2, <2>3, <3>2
        <4>3. NamesOf(NoMap) = {}
          BY DEF NamesOf
        <4>4. QED  BY <2>3, <4>1, <4>2, <4>3 DEF AgreesAt
      <3>3. QED  BY <3>1, <3>2 DEF SlotFits
    <2>4. CASE ~(j = k /\ p = q)
      <3>1. p \in ToSet(c.rows[j])
        BY <1>2, <2>4
      <3>2. AgreesAt(c, p)
        BY <2>1, <2>2, <3>1 DEF CatOK, Agree
      <3>3. p.id # r.id
        <4>1. CASE j = k
          <5>1. p # r
            BY <1>2, <2>4, <4>1
          <5>2. QED  BY <3>1, <4>1, <5>1 DEF CatOK, Listing
        <4>2. CASE j # k
          BY <2>2, <4>2 DEF IsAlone
        <4>3. QED  BY <4>1, <4>2
      <3>4. p.id \in LabelId
        BY CatParts DEF RowType
      <3>5. QED  BY <1>5, <3>2, <3>3, <3>4 DEF AgreesAt
    <2>5. QED  BY <2>3, <2>4
  <1>7. Filled(d, gone)
    <2>1. SUFFICES ASSUME NEW i \in LabelId, d.schema[i] # NoMap, i \notin gone
                   PROVE  \E j \in Kind : \E p \in ToSet(d.rows[j]) : p.id = i
      BY DEF Filled
    <2>2. CASE i = r.id
      BY <1>2, <2>2
    <2>3. CASE i # r.id
      <3>1. PICK j \in Kind : \E p \in ToSet(c.rows[j]) : p.id = i
        BY <1>5, <2>1, <2>3 DEF CatOK, Filled
      <3>2. QED  BY <1>1, <3>1 DEF SameIds
    <2>4. QED  BY <2>2, <2>3
  <1>8. QED  BY <1>3, <1>6, <1>7 DEF CatOK

\* A new label, and its slot: nothing else changes.
Adds(c, d, k, q) ==
    /\ ToSet(d.rows[k]) = ToSet(c.rows[k]) \cup {q}
    /\ \A j \in Kind \ {k} : d.rows[j] = c.rows[j]
    /\ q.id = c.last[k] + 1
    /\ d.last = [c.last EXCEPT ![k] = @ + 1]

LEMMA PutNewRow ==
    ASSUME NEW c, NEW gone, CatOK(c, gone), NEW k \in Kind, NEW q \in RowType,
           NEW d \in Cat, Adds(c, d, k, q), Listing(d.rows[k], c.last[k] + 1),
           \/ d.schema = c.schema /\ NamesOf(q.map) = {}
           \/ d.schema = [c.schema EXCEPT ![q.id] = q.map] /\ q.bits
    PROVE  CatOK(d, gone)
  <1>1. c \in Cat
    BY DEF CatOK
  <1>2. /\ ToSet(d.rows[k]) = ToSet(c.rows[k]) \cup {q}
        /\ \A j \in Kind \ {k} : d.rows[j] = c.rows[j]
        /\ q.id = c.last[k] + 1
        /\ d.last = [c.last EXCEPT ![k] = @ + 1]
    BY DEF Adds
  <1>3. c.schema \in [LabelId -> Map] /\ q.id \in LabelId /\ c.last \in [Kind -> LabelId]
    BY <1>1 DEF Cat, RowType
  <1>4. \A j \in Kind : Listing(d.rows[j], d.last[j])
    <2>1. d.last[k] = c.last[k] + 1 /\ \A j \in Kind \ {k} : d.last[j] = c.last[j]
      BY <1>2, <1>3
    <2>2. QED  BY <1>2, <2>1 DEF CatOK
  <1>5. \A i \in LabelId : i # q.id => d.schema[i] = c.schema[i]
    BY <1>3
  <1>6. \A p \in ToSet(c.rows[k]) : p.id # q.id
    <2>1. c.last[k] \in Nat /\ \A p \in ToSet(c.rows[k]) : p.id \in 1 .. c.last[k]
      BY <1>3 DEF CatOK, Listing, LabelId
    <2>2. QED  BY <1>2, <2>1
  <1>7. ASSUME NEW j \in Kind, NEW id, IsAlone(d, j, id) PROVE IsAlone(c, j, id)
    BY <1>2, <1>7 DEF IsAlone
  <1>8. Agree(d, gone)
    <2>1. SUFFICES ASSUME NEW j \in Kind, NEW p \in ToSet(d.rows[j]), IsAlone(d, j, p.id), p.id \notin gone
                   PROVE  AgreesAt(d, p)
      BY DEF Agree
    <2>2. IsAlone(c, j, p.id)
      BY <1>7, <2>1
    <2>3. CASE j = k /\ p = q
      <3>1. CASE d.schema = c.schema /\ NamesOf(q.map) = {}
        <4>1. c.schema[q.id] = NoMap
          <5>1. ASSUME c.schema[q.id] # NoMap PROVE FALSE
            <6>1. PICK l \in Kind : \E o \in ToSet(c.rows[l]) : o.id = q.id
              BY <1>3, <2>1, <2>3, <5>1 DEF CatOK, Filled
            <6>2. l # k
              BY <1>6, <6>1
            <6>3. QED  BY <2>2, <2>3, <6>1, <6>2 DEF IsAlone
          <5>2. QED  BY <5>1
        <4>2. QED  BY <2>3, <3>1, <4>1 DEF AgreesAt
      <3>2. CASE d.schema = [c.schema EXCEPT ![q.id] = q.map] /\ q.bits
        <4>1. d.schema[p.id] = q.map
          BY <1>3, <2>3, <3>2
        <4>2. NamesOf(NoMap) = {}
          BY DEF NamesOf
        <4>3. QED  BY <2>3, <3>2, <4>1, <4>2 DEF AgreesAt
      <3>3. QED  BY <3>1, <3>2
    <2>4. CASE ~(j = k /\ p = q)
      <3>1. p \in ToSet(c.rows[j])
        BY <1>2, <2>4
      <3>2. AgreesAt(c, p)
        BY <2>1, <2>2, <3>1 DEF CatOK, Agree
      <3>3. p.id # q.id
        <4>1. CASE j = k
          BY <1>6, <3>1, <4>1
        <4>2. CASE j # k
          BY <1>2, <2>1, <4>2 DEF IsAlone
        <4>3. QED  BY <4>1, <4>2
      <3>4. p.id \in LabelId
        BY CatParts DEF RowType
      <3>5. QED  BY <1>5, <3>2, <3>3, <3>4 DEF AgreesAt
    <2>5. QED  BY <2>3, <2>4
  <1>9. Filled(d, gone)
    <2>1. SUFFICES ASSUME NEW i \in LabelId, d.schema[i] # NoMap, i \notin gone
                   PROVE  \E j \in Kind : \E p \in ToSet(d.rows[j]) : p.id = i
      BY DEF Filled
    <2>2. CASE i = q.id
      BY <1>2, <2>2
    <2>3. CASE i # q.id
      <3>1. PICK j \in Kind : \E p \in ToSet(c.rows[j]) : p.id = i
        BY <1>5, <2>1, <2>3 DEF CatOK, Filled
      <3>2. ToSet(c.rows[j]) \subseteq ToSet(d.rows[j])
        BY <1>2
      <3>3. QED  BY <3>1, <3>2
    <2>4. QED  BY <2>2, <2>3
  <1>10. QED  BY <1>4, <1>8, <1>9 DEF CatOK
-----------------------------------------------------------------------------
(* New labels.                                                               *)

LEMMA KindsAre == "vertex" \in Kind /\ "edge" \in Kind
  BY DEF Kind

LEMMA AddRowOK ==
    ASSUME NEW c, NEW gone, CatOK(c, gone), NEW k \in Kind, c.last[k] + 1 \in LabelId,
           NEW path \in Path, NEW map \in Map, NEW bits \in BOOLEAN
    PROVE  LET d == AddRow(c, k, path, map, bits)
               q == Row(c.last[k] + 1, path, map, bits)
           IN  /\ d \in Cat /\ q \in RowType /\ Adds(c, d, k, q) /\ Listing(d.rows[k], c.last[k] + 1)
               /\ d.rows[k] = Append(c.rows[k], q) /\ d.names = c.names /\ d.schema = c.schema
               /\ d.last[k] = q.id
  <1>1. PICK q, s, n, d : /\ q = Row(c.last[k] + 1, path, map, bits) /\ s = Append(c.rows[k], q)
                          /\ n = c.last[k] /\ d = AddRow(c, k, path, map, bits)
    OBVIOUS
  <1>2. /\ c \in Cat /\ c.rows[k] \in Seq(RowType) /\ Listing(c.rows[k], n)
        /\ c.last \in [Kind -> LabelId] /\ c.rows \in [Kind -> Seq(RowType)]
    BY <1>1, CatParts DEF CatOK
  <1>3. q \in RowType /\ q.id = n + 1 /\ n \in Nat
    BY <1>1, <1>2 DEF Row, RowType, LabelId
  <1>4. s \in Seq(RowType) /\ ToSet(s) = ToSet(c.rows[k]) \cup {q} /\ Listing(s, n + 1)
    BY <1>1, <1>2, <1>3, RowAdded
  <1>5. d = [c EXCEPT !.last[k] = @ + 1, !.rows[k] = s]
    BY <1>1 DEF AddRow
  <1>6. /\ d \in Cat /\ d.rows[k] = s /\ \A j \in Kind \ {k} : d.rows[j] = c.rows[j]
        /\ d.last = [c.last EXCEPT ![k] = @ + 1] /\ d.names = c.names /\ d.schema = c.schema
    <2>1. PICK m, t : m = [c.last EXCEPT ![k] = @ + 1] /\ t = [c.rows EXCEPT ![k] = s]
      OBVIOUS
    <2>2. /\ m \in [Kind -> LabelId] /\ t \in [Kind -> Seq(RowType)]
          /\ t[k] = s /\ \A j \in Kind \ {k} : t[j] = c.rows[j]
      BY <1>1, <1>2, <1>4, <2>1
    <2>3. d.last = m /\ d.rows = t /\ d.names = c.names /\ d.schema = c.schema
      BY <1>2, <1>5, <2>1 DEF Cat
    <2>4. d = [rows |-> t, names |-> c.names, last |-> m, schema |-> c.schema]
      BY <1>2, <1>5, <2>1 DEF Cat
    <2>5. d \in Cat
      BY <1>2, <2>2, <2>4, CatParts DEF Cat
    <2>6. QED  BY <2>1, <2>2, <2>3, <2>5
  <1>7. Adds(c, d, k, q)
    BY <1>1, <1>3, <1>4, <1>6 DEF Adds
  <1>8. QED  BY <1>1, <1>2, <1>3, <1>4, <1>6, <1>7

\* A label is there with its row at the end, and all others are as before.
Made(c, d, k, path, map) ==
    \E q \in RowType : /\ Adds(c, d, k, q) /\ d.rows[k] = Append(c.rows[k], q) /\ d.last[k] = q.id
                       /\ q.path = path /\ q.map = map /\ q.primary
                       /\ d.names = c.names

LEMMA VertexLabelOK ==
    ASSUME NEW c, NEW gone, CatOK(c, gone), c.last["vertex"] + 1 \in LabelId,
           NEW path \in Path, NEW map \in Map
    PROVE  CatOK(VertexLabel(c, path, map), gone) /\ Made(c, VertexLabel(c, path, map), "vertex", path, map)
  <1>1. PICK q, d, e : /\ q = Row(c.last["vertex"] + 1, path, map, TRUE) /\ d = AddRow(c, "vertex", path, map, TRUE)
                       /\ e = VertexLabel(c, path, map)
    OBVIOUS
  <1>2. /\ d \in Cat /\ q \in RowType /\ Adds(c, d, "vertex", q) /\ Listing(d.rows["vertex"], c.last["vertex"] + 1)
        /\ d.rows["vertex"] = Append(c.rows["vertex"], q) /\ d.names = c.names /\ d.schema = c.schema
        /\ d.last["vertex"] = q.id
    BY <1>1, AddRowOK, KindsAre
  <1>3. q.path = path /\ q.map = map /\ q.bits /\ q.primary /\ q.id \in LabelId
    BY <1>1, <1>2 DEF Row, RowType
  <1>4. e = IF map = NoMap THEN d ELSE [d EXCEPT !.schema[q.id] = map]
    BY <1>1, <1>2 DEF VertexLabel, InsertSchema
  <1>5. CASE map = NoMap
    <2>1. NamesOf(q.map) = {}
      BY <1>3, <1>5 DEF NamesOf
    <2>2. CatOK(d, gone)
      BY <1>2, <2>1, KindsAre, PutNewRow
    <2>3. QED  BY <1>1, <1>2, <1>3, <1>4, <1>5, <2>2 DEF Made
  <1>6. CASE map # NoMap
    <2>1. /\ e \in Cat /\ e.schema = [c.schema EXCEPT ![q.id] = q.map]
          /\ e.rows = d.rows /\ e.last = d.last /\ e.names = d.names
      BY <1>2, <1>3, <1>4, <1>6, CatWith
    <2>2. Adds(c, e, "vertex", q) /\ Listing(e.rows["vertex"], c.last["vertex"] + 1)
      BY <1>2, <2>1 DEF Adds
    <2>3. CatOK(e, gone)
      BY <1>2, <1>3, <2>1, <2>2, KindsAre, PutNewRow
    <2>4. QED  BY <1>1, <1>2, <1>3, <2>1, <2>2, <2>3 DEF Made
  <1>7. QED  BY <1>5, <1>6

LEMMA EdgeLabelOK ==
    ASSUME NEW c, NEW gone, CatOK(c, gone), c.last["edge"] + 1 \in LabelId,
           NEW path \in Path, NEW map \in Map, NEW hasBits \in BOOLEAN, NamesOf(map) # {} => hasBits
    PROVE  /\ CatOK(EdgeLabel(c, path, map, hasBits), gone)
           /\ Made(c, EdgeLabel(c, path, map, hasBits), "edge", path, map)
  <1>1. PICK q, d, e : /\ q = Row(c.last["edge"] + 1, path, map, hasBits)
                       /\ d = AddRow(c, "edge", path, map, hasBits)
                       /\ e = EdgeLabel(c, path, map, hasBits)
    OBVIOUS
  <1>2. /\ d \in Cat /\ q \in RowType /\ Adds(c, d, "edge", q) /\ Listing(d.rows["edge"], c.last["edge"] + 1)
        /\ d.rows["edge"] = Append(c.rows["edge"], q) /\ d.names = c.names /\ d.schema = c.schema
        /\ d.last["edge"] = q.id
    BY <1>1, AddRowOK, KindsAre
  <1>3. q.path = path /\ q.map = map /\ q.bits = hasBits /\ q.primary /\ q.id \in LabelId
    BY <1>1, <1>2 DEF Row, RowType
  <1>4. e = IF hasBits THEN [d EXCEPT !.schema[q.id] = map] ELSE d
    BY <1>1, <1>2 DEF EdgeLabel, InsertSchema
  <1>5. CASE ~hasBits
    <2>1. NamesOf(q.map) = {}
      BY <1>3, <1>5
    <2>2. CatOK(d, gone)
      BY <1>2, <2>1, KindsAre, PutNewRow
    <2>3. QED  BY <1>1, <1>2, <1>3, <1>4, <1>5, <2>2 DEF Made
  <1>6. CASE hasBits
    <2>1. /\ e \in Cat /\ e.schema = [c.schema EXCEPT ![q.id] = q.map]
          /\ e.rows = d.rows /\ e.last = d.last /\ e.names = d.names
      BY <1>2, <1>3, <1>4, <1>6, CatWith
    <2>2. Adds(c, e, "edge", q) /\ Listing(e.rows["edge"], c.last["edge"] + 1)
      BY <1>2, <2>1 DEF Adds
    <2>3. CatOK(e, gone)
      BY <1>2, <1>3, <1>6, <2>1, <2>2, KindsAre, PutNewRow
    <2>4. QED  BY <1>1, <1>2, <1>3, <2>1, <2>2, <2>3 DEF Made
  <1>7. QED  BY <1>5, <1>6
-----------------------------------------------------------------------------
(* New maps for a label.                                                     *)

LEMMA UpdateRowOK ==
    ASSUME NEW c \in Cat, NEW k \in Kind, NEW n, Listing(c.rows[k], n), NEW r \in ToSet(c.rows[k]),
           NEW q \in RowType, q.id = r.id
    PROVE  LET d == UpdateRow(c, k, r, q)
           IN  /\ d \in Cat /\ Replaces(c, d, k, r, q) /\ Listing(d.rows[k], n)
               /\ d.names = c.names /\ d.schema = c.schema
  <1>1. PICK s, d : s = Append(Without(c.rows[k], r), q) /\ d = UpdateRow(c, k, r, q)
    OBVIOUS
  <1>2. c.rows[k] \in Seq(RowType)
    BY CatParts
  <1>3. s \in Seq(RowType) /\ Replaced(c.rows[k], s, r, q) /\ Listing(s, n)
    BY <1>1, <1>2, RowReplaced
  <1>4. c.rows \in [Kind -> Seq(RowType)]
    BY CatParts
  <1>5. d = [c EXCEPT !.rows[k] = s]
    BY <1>1, <1>4 DEF UpdateRow
  <1>6. /\ d \in Cat /\ d.rows[k] = s /\ \A j \in Kind \ {k} : d.rows[j] = c.rows[j]
        /\ d.names = c.names /\ d.last = c.last /\ d.schema = c.schema
    BY <1>3, <1>5, CatWith
  <1>7. Replaces(c, d, k, r, q)
    BY <1>3, <1>6 DEF Replaces
  <1>8. QED  BY <1>1, <1>3, <1>6, <1>7

\* There is a table for the bits of a label whose slot is its own.
Tabled(c, k, r, map, bits, gone) ==
    IsAlone(c, k, r.id) /\ r.id \notin gone /\ NamesOf(map) # {} => bits

LEMMA PutMapOK ==
    ASSUME NEW c, NEW gone, CatOK(c, gone), NEW k \in Kind, NEW r \in ToSet(c.rows[k]),
           NEW map \in Map, NEW bits \in BOOLEAN,
           Tabled(c, k, r, map, bits, gone)
    PROVE  LET d == PutMap(c, k, r, map, bits)
           IN  /\ CatOK(d, gone) /\ d.names = c.names
               /\ \E q \in RowType : q.map = map /\ Replaces(c, d, k, r, q)
  <1>1. PICK d, e, q : /\ e = [c EXCEPT !.schema[r.id] = map] /\ q = [r EXCEPT !.map = map, !.bits = bits]
                       /\ d = PutMap(c, k, r, map, bits)
    OBVIOUS
  <1>2. c \in Cat /\ Listing(c.rows[k], c.last[k])
    BY DEF CatOK
  <1>3. r \in RowType /\ r.id \in LabelId
    BY <1>2, CatParts DEF RowType
  <1>4. q \in RowType /\ q.id = r.id /\ q.map = map /\ q.bits = bits
    BY <1>1, <1>3 DEF RowType
  <1>5. /\ e \in Cat /\ e.schema = [c.schema EXCEPT ![r.id] = map]
        /\ e.rows = c.rows /\ e.last = c.last /\ e.names = c.names
    BY <1>1, <1>2, <1>3, CatWith
  <1>6. d = UpdateRow(e, k, r, q)
    BY <1>1 DEF PutMap, InsertSchema
  <1>7. /\ d \in Cat /\ Replaces(e, d, k, r, q) /\ Listing(d.rows[k], c.last[k])
        /\ d.names = c.names /\ d.schema = e.schema
    BY <1>2, <1>4, <1>5, <1>6, UpdateRowOK
  <1>8. Replaces(c, d, k, r, q)
    BY <1>5, <1>7 DEF Replaces
  <1>9. SlotFits(c, d, k, r, q, gone)
    BY <1>4, <1>5, <1>7 DEF SlotFits, Tabled
  <1>10. CatOK(d, gone)
    BY <1>4, <1>7, <1>8, <1>9, PutRow
  <1>11. QED  BY <1>1, <1>4, <1>7, <1>8, <1>10

LEMMA PrefixSelf ==
    ASSUME NEW S, NEW s \in Seq(S)
    PROVE  IsPrefix(s, s) /\ IsPrefix(<<>>, s)
  <1>1. Len(<<>>) = 0 /\ SubSeq(<<>>, 1, 0) = <<>> /\ SubSeq(s, 1, 0) = <<>> /\ Len(s) \in Nat
    OBVIOUS
  <1>2. QED  BY <1>1 DEF IsPrefix

LEMMA PrefixAppended ==
    ASSUME NEW S, NEW s \in Seq(S), NEW x \in S
    PROVE  IsPrefix(s, Append(s, x))
  <1>1. PICK u : u = Append(s, x)
    OBVIOUS
  <1>2. u \in Seq(S) /\ Len(u) = Len(s) + 1 /\ Len(s) \in Nat /\ \A i \in 1 .. Len(s) : u[i] = s[i]
    BY <1>1, AppendProperties
  <1>3. SubSeq(s, 1, Len(s)) = [i \in 1 .. Len(s) |-> s[i]] /\ SubSeq(u, 1, Len(s)) = [i \in 1 .. Len(s) |-> u[i]]
    <2>1. /\ \A i \in 1 .. Len(s) : i + 1 - 1 = i
          /\ Len(s) - 1 + 1 = Len(s)
      BY <1>2
    <2>2. QED  BY <1>2, <2>1
  <1>4. QED  BY <1>1, <1>2, <1>3 DEF IsPrefix

LEMMA LatestIs ==
    ASSUME NEW c, NEW gone, CatOK(c, gone), NEW k \in Kind, NEW r \in ToSet(c.rows[k])
    PROVE  /\ LatestMap(c, r) \in Seq(Annotation) /\ IsInjective(LatestMap(c, r))
           /\ IsAlone(c, k, r.id) /\ r.id \notin gone /\ r.map # NoMap => LatestMap(c, r) = r.map
  <1>1. c \in Cat /\ r \in RowType /\ r.id \in LabelId /\ c.schema[r.id] \in Map /\ r.map \in Map
    <2>1. c \in Cat /\ r \in RowType
      BY CatParts DEF CatOK
    <2>2. QED  BY <2>1 DEF Cat, RowType
  <1>2. <<>> \in Seq(Annotation) /\ IsInjective(<<>>)
    BY DEF IsInjective
  <1>3. LatestMap(c, r) \in Seq(Annotation) /\ IsInjective(LatestMap(c, r))
    BY <1>1, <1>2 DEF LatestMap, Map
  <1>4. ASSUME IsAlone(c, k, r.id), r.id \notin gone, r.map # NoMap PROVE LatestMap(c, r) = r.map
    <2>1. AgreesAt(c, r)
      BY <1>4 DEF CatOK, Agree
    <2>2. CASE c.schema[r.id] = NoMap
      BY <1>4, <2>2 DEF LatestMap
    <2>3. CASE c.schema[r.id] # NoMap
      BY <1>4, <2>1, <2>3 DEF LatestMap, AgreesAt
    <2>4. QED  BY <2>2, <2>3
  <1>5. QED  BY <1>3, <1>4

\* The map of a label whose slot is its own goes on as it began.
Longer(c, k, r, q, gone) ==
    IsAlone(c, k, r.id) /\ r.id \notin gone /\ r.map # NoMap => IsPrefix(r.map, q.map)

\* A step that works on one label; grows tells whether it may take nothing away.
Goes(c, d, k, r, gone, grows) ==
    /\ CatOK(d, gone) /\ d.names = c.names
    /\ \E q \in RowType : Replaces(c, d, k, r, q) /\ (grows => Longer(c, k, r, q, gone))

LEMMA StaysGoes ==
    ASSUME NEW c, NEW gone, CatOK(c, gone), NEW k \in Kind, NEW r \in ToSet(c.rows[k]), NEW grows
    PROVE  Goes(c, c, k, r, gone, grows)
  <1>1. r \in RowType /\ r.map \in Map
    BY CatParts DEF CatOK, RowType
  <1>2. Replaces(c, c, k, r, r)
    BY DEF Replaces, Replaced
  <1>3. Longer(c, k, r, r, gone)
    BY <1>1, PrefixSelf DEF Longer, Map
  <1>4. QED  BY <1>1, <1>2, <1>3 DEF Goes

LEMMA AddToRowOK ==
    ASSUME NEW c, NEW gone, CatOK(c, gone), NEW k \in Kind, NEW r \in ToSet(c.rows[k]), NEW x \in Annotation
    PROVE  Goes(c, AddToRow(c, k, r, x), k, r, gone, TRUE)
  <1>1. PICK old, map, d : old = LatestMap(c, r) /\ map = Append(old, x) /\ d = PutMap(c, k, r, map, TRUE)
    OBVIOUS
  <1>2. /\ old \in Seq(Annotation) /\ IsInjective(old)
        /\ IsAlone(c, k, r.id) /\ r.id \notin gone /\ r.map # NoMap => old = r.map
    BY <1>1, LatestIs
  <1>3. CASE Contains(old, x)
    BY <1>1, <1>3, StaysGoes DEF AddToRow
  <1>4. CASE ~Contains(old, x)
    <2>1. map \in Map
      <3>1. /\ map \in Seq(Annotation) /\ Len(map) = Len(old) + 1 /\ Len(old) \in Nat
            /\ map[Len(old) + 1] = x /\ \A i \in 1 .. Len(old) : map[i] = old[i]
        BY <1>1, <1>2, AppendProperties
      <3>2. \A i : i \in 1 .. Len(old) + 1 <=> i \in 1 .. Len(old) \/ i = Len(old) + 1
        BY <3>1
      <3>3. DOMAIN old = 1 .. Len(old) /\ DOMAIN map = 1 .. Len(old) + 1
        BY <1>2, <3>1, LenProperties
      <3>4. IsInjective(map)
        BY <1>2, <1>4, <3>1, <3>2, <3>3 DEF IsInjective, Contains
      <3>5. QED  BY <3>1, <3>4 DEF Map
    <2>2. CatOK(d, gone) /\ d.names = c.names /\ \E q \in RowType : q.map = map /\ Replaces(c, d, k, r, q)
      <3>0. r \in RowType
        BY CatParts DEF CatOK
      <3>1. PICK t \in RowType : t.bits = TRUE
        <4>1. [r EXCEPT !.bits = TRUE] \in RowType /\ [r EXCEPT !.bits = TRUE].bits = TRUE
          BY <3>0 DEF RowType
        <4>2. QED  BY <4>1
      <3>2. /\ CatOK(PutMap(c, k, r, map, t.bits), gone) /\ PutMap(c, k, r, map, t.bits).names = c.names
            /\ \E q \in RowType : q.map = map /\ Replaces(c, PutMap(c, k, r, map, t.bits), k, r, q)
        <4>1. Tabled(c, k, r, map, t.bits, gone) /\ t.bits \in BOOLEAN
          BY <3>1 DEF Tabled, RowType
        <4>2. QED  BY <2>1, <4>1, PutMapOK
      <3>3. PutMap(c, k, r, map, t.bits) = d
        BY <1>1, <3>1
      <3>4. QED  BY <3>2, <3>3
    <2>6. PICK q \in RowType : q.map = map /\ Replaces(c, d, k, r, q)
      BY <2>2
    <2>3. Longer(c, k, r, q, gone)
      BY <1>1, <1>2, <2>6, PrefixAppended DEF Longer
    <2>4. AddToRow(c, k, r, x) = d
      BY <1>1, <1>4 DEF AddToRow
    <2>5. QED  BY <2>2, <2>6, <2>3, <2>4 DEF Goes
  <1>5. QED  BY <1>3, <1>4

LEMMA DropFromRowOK ==
    ASSUME NEW c, NEW gone, CatOK(c, gone), NEW k \in Kind, NEW r \in ToSet(c.rows[k]),
           NEW began, NEW target, NEW p, NEW x
    PROVE  Goes(c, DropFromRow(began, c, k, r, target, p, x), k, r, gone, FALSE)
  <1>1. PICK old, map, d : old = LatestMap(c, r) /\ map = Without(old, x) /\ d = PutMap(c, k, r, map, r.bits)
    OBVIOUS
  <1>2. /\ old \in Seq(Annotation) /\ IsInjective(old)
    BY <1>1, LatestIs
  <1>3. r \in RowType /\ r.bits \in BOOLEAN
    BY CatParts DEF CatOK, RowType
  <1>4. CASE DropFromRow(began, c, k, r, target, p, x) = c
    BY <1>4, StaysGoes
  <1>5. CASE /\ DropFromRow(began, c, k, r, target, p, x) = d /\ Contains(old, x)
    <2>1. map \in Map
      BY <1>1, <1>2, WithoutKeeps DEF Map
    <2>2. ASSUME IsAlone(c, k, r.id), r.id \notin gone, NamesOf(map) # {} PROVE r.bits
      <3>1. AgreesAt(c, r)
        BY <2>2 DEF CatOK, Agree
      <3>2. NamesOf(r.map) # {}
        <4>1. SUFFICES ASSUME NamesOf(r.map) = {} PROVE FALSE
          OBVIOUS
        <4>2. c.schema[r.id] # NoMap => c.schema[r.id] = r.map
          BY <3>1 DEF AgreesAt
        <4>3. old = <<>> \/ (old = r.map /\ r.map # NoMap)
          BY <1>1, <4>2 DEF LatestMap
        <4>4. CASE old = <<>>
          BY <1>5, <4>4 DEF Contains
        <4>5. CASE old = r.map /\ r.map # NoMap
          <5>1. PICK i \in 1 .. Len(old) : old[i] = x
            BY <1>5 DEF Contains
          <5>2. DOMAIN old = 1 .. Len(old)
            BY <1>2, LenProperties
          <5>3. x \in ToSet(old)
            BY <5>1, <5>2 DEF ToSet
          <5>4. QED  BY <4>1, <4>5, <5>3 DEF NamesOf
        <4>6. QED  BY <4>3, <4>4, <4>5
      <3>3. QED  BY <3>1, <3>2 DEF AgreesAt
    <2>3. CatOK(d, gone) /\ d.names = c.names /\ \E q \in RowType : q.map = map /\ Replaces(c, d, k, r, q)
      BY <1>1, <1>3, <2>1, <2>2, PutMapOK DEF Tabled
    <2>4. QED  BY <1>5, <2>3 DEF Goes
  <1>6. DropFromRow(began, c, k, r, target, p, x) = c
          \/ (DropFromRow(began, c, k, r, target, p, x) = d /\ Contains(old, x))
    BY <1>1 DEF DropFromRow
  <1>7. QED  BY <1>4, <1>5, <1>6
-----------------------------------------------------------------------------
(* One label after the other.                                                *)

\* What has become of a label, and whether it is still to come.
Follows(c, k, r, q, toCome, gone, grows) ==
    q.id = r.id /\ (toCome => q = r) /\ (grows => Longer(c, k, r, q, gone))

\* The first i of the labels have been worked on.
Under(c, d, k, i, gone, grows) ==
    /\ CatOK(d, gone) /\ d.names = c.names /\ d.last = c.last /\ SameIds(c, d)
    /\ \A j \in Kind \ {k} : d.rows[j] = c.rows[j]
    /\ \A m \in 1 .. Len(c.rows[k]) :
          \E q \in ToSet(d.rows[k]) : Follows(c, k, c.rows[k][m], q, m > i, gone, grows)

LEMMA RowsAre ==
    ASSUME NEW c, NEW gone, CatOK(c, gone), NEW k \in Kind
    PROVE  /\ Len(c.rows[k]) \in Nat /\ DOMAIN c.rows[k] = 1 .. Len(c.rows[k])
           /\ \A i \in 1 .. Len(c.rows[k]) : c.rows[k][i] \in ToSet(c.rows[k])
           /\ \A i, j \in 1 .. Len(c.rows[k]) :
                 i # j => c.rows[k][i].id # c.rows[k][j].id /\ c.rows[k][i] # c.rows[k][j]
           /\ \A r \in ToSet(c.rows[k]) : \E i \in 1 .. Len(c.rows[k]) : c.rows[k][i] = r
  <1>1. PICK s : s = c.rows[k]
    OBVIOUS
  <1>2. s \in Seq(RowType) /\ Listing(s, c.last[k])
    BY <1>1, CatParts DEF CatOK
  <1>3. Len(s) \in Nat /\ DOMAIN s = 1 .. Len(s)
    BY <1>2, LenProperties
  <1>4. \A i \in 1 .. Len(s) : s[i] \in ToSet(s)
    BY <1>3 DEF ToSet
  <1>5. \A i, j \in 1 .. Len(s) : s[i] = s[j] => i = j
    BY <1>2, <1>3 DEF Listing, IsInjective
  <1>6. \A i, j \in 1 .. Len(s) : s[i].id = s[j].id => s[i] = s[j]
    BY <1>2, <1>4 DEF Listing
  <1>7. \A r \in ToSet(s) : \E i \in 1 .. Len(s) : s[i] = r
    BY <1>3 DEF ToSet
  <1>8. QED  BY <1>1, <1>3, <1>4, <1>5, <1>6, <1>7

LEMMA UnderNext ==
    ASSUME NEW c, NEW gone, CatOK(c, gone), NEW k \in Kind, NEW i \in 1 .. Len(c.rows[k]), NEW grows,
           NEW d, Under(c, d, k, i - 1, gone, grows), NEW e, Goes(d, e, k, c.rows[k][i], gone, grows)
    PROVE  Under(c, e, k, i, gone, grows)
  <1>1. PICK s, n : s = c.rows[k] /\ n = Len(c.rows[k])
    OBVIOUS
  <1>2. /\ n \in Nat
        /\ \A m \in 1 .. n : s[m] \in ToSet(s)
        /\ \A m, l \in 1 .. n : m # l => s[m].id # s[l].id /\ s[m] # s[l]
    BY <1>1, RowsAre
  <1>3. /\ CatOK(d, gone) /\ d.names = c.names /\ d.last = c.last /\ SameIds(c, d)
        /\ \A j \in Kind \ {k} : d.rows[j] = c.rows[j]
        /\ \A m \in 1 .. n : \E q \in ToSet(d.rows[k]) : Follows(c, k, s[m], q, m > i - 1, gone, grows)
    BY <1>1 DEF Under
  <1>4. i \in 1 .. n /\ i > i - 1 /\ \A m \in 1 .. n : m > i => m > i - 1
    BY <1>1, <1>2
  <1>5. s[i] \in ToSet(d.rows[k])
    BY <1>3, <1>4 DEF Follows
  <1>6. CatOK(e, gone) /\ e.names = d.names
    BY DEF Goes
  <1>7. PICK q \in RowType : Replaces(d, e, k, s[i], q) /\ (grows => Longer(d, k, s[i], q, gone))
    BY <1>1 DEF Goes
  <1>8. /\ ToSet(e.rows[k]) = (ToSet(d.rows[k]) \ {s[i]}) \cup {q} /\ q.id = s[i].id
        /\ \A j \in Kind \ {k} : e.rows[j] = d.rows[j]
        /\ e.last = d.last
    BY <1>7 DEF Replaces, Replaced
  <1>9. SameIds(c, e)
    BY <1>3, <1>5, <1>7, ReplacesIds, SameIdsTwice
  <1>10. ASSUME NEW m \in 1 .. n
         PROVE  \E p \in ToSet(e.rows[k]) : Follows(c, k, s[m], p, m > i, gone, grows)
    <2>1. CASE m = i
      <3>1. ~(m > i)
        BY <1>4, <2>1
      <3>2. grows => Longer(c, k, s[m], q, gone)
        <4>1. IsAlone(c, k, s[i].id) <=> IsAlone(d, k, s[i].id)
          BY <1>3, SameIdsAlone
        <4>2. QED  BY <1>7, <2>1, <4>1 DEF Longer
      <3>3. q \in ToSet(e.rows[k]) /\ q.id = s[m].id
        BY <1>8, <2>1
      <3>4. QED  BY <3>1, <3>2, <3>3 DEF Follows
    <2>2. CASE m # i
      <3>1. PICK p \in ToSet(d.rows[k]) : Follows(c, k, s[m], p, m > i - 1, gone, grows)
        BY <1>3, <1>10
      <3>2. p.id = s[m].id /\ (m > i - 1 => p = s[m]) /\ (grows => Longer(c, k, s[m], p, gone))
        BY <3>1 DEF Follows
      <3>3. p # s[i]
        BY <1>2, <1>4, <2>2, <3>2
      <3>4. p \in ToSet(e.rows[k])
        BY <1>8, <3>1, <3>3
      <3>5. m > i => p = s[m]
        BY <1>4, <3>2
      <3>6. QED  BY <3>2, <3>4, <3>5 DEF Follows
    <2>3. QED  BY <2>1, <2>2
  <1>11. QED  BY <1>1, <1>3, <1>6, <1>8, <1>9, <1>10 DEF Under

StepsGo(c, k, G, gone, grows) ==
    \A d \in Cat : \A i \in 1 .. Len(c.rows[k]) :
        CatOK(d, gone) /\ c.rows[k][i] \in ToSet(d.rows[k]) => Goes(d, G[<<d, i>>], k, c.rows[k][i], gone, grows)

LEMMA FoldGoes ==
    ASSUME NEW c, NEW gone, CatOK(c, gone), NEW k \in Kind, NEW G, NEW h, NEW grows,
           Runs(Cat, G, c, Len(c.rows[k]), h), StepsGo(c, k, G, gone, grows)
    PROVE  Under(c, h[Len(c.rows[k])], k, Len(c.rows[k]), gone, grows)
  <1>1. PICK s, n : s = c.rows[k] /\ n = Len(c.rows[k])
    OBVIOUS
  <1>2. n \in Nat /\ \A m \in 1 .. n : s[m] \in ToSet(s)
    BY <1>1, RowsAre
  <1>3. h \in [0 .. n -> Cat] /\ h[0] = c /\ \A i \in 1 .. n : h[i] = G[<<h[i - 1], i>>]
    BY <1>1 DEF Runs
  <1> DEFINE Good(i) == Under(c, h[i], k, i, gone, grows)
             Bad == {i \in 0 .. n : ~Good(i)}
  <1>4. Good(0)
    <2>1. SameIds(c, c)
      BY DEF SameIds
    <2>2. ASSUME NEW m \in 1 .. n PROVE Follows(c, k, s[m], s[m], m > 0, gone, grows)
      <3>1. Goes(c, c, k, s[m], gone, TRUE)
        BY <1>1, <1>2, StaysGoes
      <3>2. s[m] \in RowType /\ s[m].map \in Map
        BY <1>1, <1>2, CatParts DEF CatOK, RowType
      <3>3. Longer(c, k, s[m], s[m], gone)
        BY <3>2, PrefixSelf DEF Longer, Map
      <3>4. QED  BY <3>3 DEF Follows
    <2>3. QED  BY <1>1, <1>2, <1>3, <2>1, <2>2 DEF Under
  <1>5. ASSUME Bad # {} PROVE FALSE
    <2> HIDE DEF Good
    <2>1. PICK i \in Bad : \A m \in Bad : i <= m
      <3>1. Bad \in SUBSET Nat
        BY <1>2
      <3>2. Min(Bad) \in Bad /\ \A m \in Bad : Min(Bad) <= m
        BY <1>5, <3>1, MinIsIn
      <3>3. QED  BY <3>2
    <2>2. i \in 1 .. n /\ i - 1 \in 0 .. n /\ ~(i <= i - 1)
      BY <1>2, <1>4
    <2>3. Good(i - 1)
      BY <2>1, <2>2
    <2>4. Good(i)
      <3>1. PICK d, e : d = h[i - 1] /\ e = h[i]
        OBVIOUS
      <3>2. d \in Cat /\ e = G[<<d, i>>]
        BY <1>3, <2>2, <3>1
      <3>3. Under(c, d, k, i - 1, gone, grows)
        BY <2>3, <3>1 DEF Good
      <3>4. CatOK(d, gone) /\ s[i] \in ToSet(d.rows[k])
        <4>1. i > i - 1
          BY <1>2, <2>2
        <4>2. QED  BY <1>1, <2>2, <3>3, <4>1 DEF Under, Follows
      <3>5. Goes(d, e, k, s[i], gone, grows)
        BY <1>1, <2>2, <3>2, <3>4 DEF StepsGo
      <3>6. Under(c, e, k, i, gone, grows)
        BY <1>1, <2>2, <3>3, <3>5, UnderNext
      <3>7. QED  BY <3>1, <3>6 DEF Good
    <2>5. QED  BY <2>1, <2>4
  <1>6. Good(n)
    BY <1>2, <1>5
  <1>7. QED  BY <1>1, <1>6
-----------------------------------------------------------------------------
(* Adding and dropping an annotation below a label.                          *)

LEMMA PutMapTyped ==
    ASSUME NEW c \in Cat, NEW k \in Kind, NEW r \in RowType, NEW map \in Map, NEW bits, bits \in BOOLEAN
    PROVE  PutMap(c, k, r, map, bits) \in Cat
  <1>1. PICK e, q, s : /\ e = [c EXCEPT !.schema[r.id] = map] /\ q = [r EXCEPT !.map = map, !.bits = bits]
                       /\ s = Append(Without(c.rows[k], r), q)
    OBVIOUS
  <1>2. q \in RowType /\ r.id \in LabelId
    BY <1>1 DEF RowType
  <1>3. c.rows[k] \in Seq(RowType)
    BY CatParts
  <1>4. s \in Seq(RowType)
    <2>1. Without(c.rows[k], r) \in Seq(RowType)
      BY <1>3, WithoutKeeps
    <2>2. QED  BY <1>1, <1>2, <2>1
  <1>5. e \in Cat /\ e.rows = c.rows
    BY <1>1, <1>2, CatWith
  <1>6. [e EXCEPT !.rows[k] = s] \in Cat
    BY <1>4, <1>5, CatWith
  <1>7. PutMap(c, k, r, map, bits) = [e EXCEPT !.rows[k] = s]
    <2>1. PutMap(c, k, r, map, bits) = UpdateRow(e, k, r, q)
      BY <1>1 DEF PutMap, InsertSchema
    <2>2. e.rows \in [Kind -> Seq(RowType)]
      BY <1>5, CatParts
    <2>3. UpdateRow(e, k, r, q) = [e EXCEPT !.rows[k] = s]
      BY <1>1, <1>5, <2>2 DEF UpdateRow
    <2>4. QED  BY <2>1, <2>3
  <1>8. QED  BY <1>6, <1>7

LEMMA LatestTyped ==
    ASSUME NEW c \in Cat, NEW r \in RowType
    PROVE  LatestMap(c, r) \in Seq(Annotation) /\ IsInjective(LatestMap(c, r))
  <1>1. r.id \in LabelId /\ c.schema[r.id] \in Map /\ r.map \in Map
    BY DEF Cat, RowType
  <1>2. <<>> \in Seq(Annotation) /\ IsInjective(<<>>)
    BY DEF IsInjective
  <1>3. QED  BY <1>1, <1>2 DEF LatestMap, Map

LEMMA AppendedMap ==
    ASSUME NEW m \in Seq(Annotation), IsInjective(m), NEW x \in Annotation, ~Contains(m, x)
    PROVE  Append(m, x) \in Seq(Annotation) /\ IsInjective(Append(m, x))
  <1>1. PICK u : u = Append(m, x)
    OBVIOUS
  <1>2. /\ u \in Seq(Annotation) /\ Len(u) = Len(m) + 1 /\ Len(m) \in Nat
        /\ u[Len(m) + 1] = x /\ \A i \in 1 .. Len(m) : u[i] = m[i]
    BY <1>1, AppendProperties
  <1>3. \A i : i \in 1 .. Len(m) + 1 <=> i \in 1 .. Len(m) \/ i = Len(m) + 1
    BY <1>2
  <1>4. DOMAIN m = 1 .. Len(m) /\ DOMAIN u = 1 .. Len(m) + 1
    BY <1>2, LenProperties
  <1>5. IsInjective(u)
    BY <1>2, <1>3, <1>4 DEF IsInjective, Contains
  <1>6. QED  BY <1>1, <1>2, <1>5

AddStep(k, target, x, v, r) == IF IsUnder(target, r.path) THEN AddToRow(v, k, r, x) ELSE v
DropStep(c, k, target, p, x, v, r) ==
    IF IsUnder(target, r.path) THEN DropFromRow(c, v, k, r, target, p, x) ELSE v

LEMMA StepsTyped ==
    ASSUME NEW v \in Cat, NEW k \in Kind, NEW r \in RowType
    PROVE  /\ \A x \in Annotation : \A target : AddStep(k, target, x, v, r) \in Cat
           /\ \A c, target, p, x : DropStep(c, k, target, p, x, v, r) \in Cat
  <1>1. PICK old : old = LatestMap(v, r)
    OBVIOUS
  <1>2. old \in Seq(Annotation) /\ IsInjective(old)
    BY <1>1, LatestTyped
  <1>3. ASSUME NEW x \in Annotation PROVE AddToRow(v, k, r, x) \in Cat
    <2>1. ASSUME ~Contains(old, x) PROVE PutMap(v, k, r, Append(old, x), TRUE) \in Cat
      <3>1. Append(old, x) \in Map
        BY <1>2, <2>1, AppendedMap DEF Map
      <3>2. QED  BY <3>1, PutMapTyped
    <2>2. QED  BY <1>1, <2>1 DEF AddToRow
  <1>4. ASSUME NEW c, NEW target, NEW p, NEW x PROVE DropFromRow(c, v, k, r, target, p, x) \in Cat
    <2>1. PutMap(v, k, r, Without(old, x), r.bits) \in Cat
      <3>1. Without(old, x) \in Map
        BY <1>2, WithoutKeeps DEF Map
      <3>2. r.bits \in BOOLEAN
        BY DEF RowType
      <3>3. QED  BY <3>1, <3>2, PutMapTyped
    <2>2. QED  BY <1>1, <2>1 DEF DropFromRow
  <1>5. QED  BY <1>3, <1>4 DEF AddStep, DropStep

\* A fold over a sequence is the last of the values it runs through.
Ran(V, base, seq, G, h, end) == Runs(V, G, base, Len(seq), h) /\ end = h[Len(seq)]

AddFold(c, k, target, x, rows) ==
    FoldLeft(LAMBDA acc, r : IF IsUnder(target, r.path) THEN AddToRow(acc, k, r, x) ELSE acc, c, rows)

LEMMA AddRuns ==
    ASSUME NEW c \in Cat, NEW k \in Kind, NEW target, NEW x \in Annotation, NEW rows \in Seq(RowType)
    PROVE  \E G, h :
             /\ Ran(Cat, c, rows, G, h, AddFold(c, k, target, x, rows))
             /\ \A v \in Cat : \A i \in 1 .. Len(rows) : G[<<v, i>>] = AddStep(k, target, x, v, rows[i])
  <1> DEFINE n == Len(rows)
             op(v, i) == AddStep(k, target, x, v, rows[i])
             Is(f) == f = [s \in SUBSET (1 .. n) |-> IF s = {} THEN c ELSE op(f[s \ {Max(s)}], Max(s))]
             it == CHOOSE f : Is(f)
             end == AddFold(c, k, target, x, rows)
  <1>1. n \in Nat /\ DOMAIN rows = 1 .. n /\ \A i \in 1 .. n : rows[i] \in RowType
    BY LenProperties, ElementOfSeq
  <1>2. end = it[1 .. n]
    BY <1>1 DEF AddFold, FoldLeft, MapThenFoldSet, AddStep
  <1>3. \A v \in Cat : \A i \in 1 .. n : op(v, i) \in Cat
    BY <1>1, StepsTyped
  <1> HIDE DEF n, op, end
  <1>4. \E f : Is(f)
    <2> DEFINE G == [p \in Cat \X (1 .. n) |-> op(p[1], p[2])]
    <2>1. G \in [Cat \X (1 .. n) -> Cat] /\ \A v \in Cat : \A i \in 1 .. n : G[<<v, i>>] = op(v, i)
      BY <1>3
    <2> HIDE DEF G
    <2>2. PICK f \in [SUBSET (1 .. n) -> Cat] : IsFold(G, c, n, f)
      BY <1>1, <2>1, FoldThere
    <2>3. ASSUME NEW s \in SUBSET (1 .. n)
          PROVE  Folding(G, c, f, s) = IF s = {} THEN c ELSE op(f[s \ {Max(s)}], Max(s))
      <3>1. ASSUME s # {} PROVE G[<<f[s \ {Max(s)}], Max(s)>>] = op(f[s \ {Max(s)}], Max(s))
        <4>1. Max(s) \in s
          BY <1>1, <3>1, MaxIsIn
        <4>2. Max(s) \in 1 .. n /\ s \ {Max(s)} \in SUBSET (1 .. n)
          BY <4>1
        <4>3. f[s \ {Max(s)}] \in Cat
          BY <4>2
        <4>4. QED  BY <2>1, <4>2, <4>3
      <3>2. QED  BY <3>1 DEF Folding
    <2>4. QED  BY <2>2, <2>3 DEF IsFold
  <1>5. Is(it)
    BY <1>4
  <1> DEFINE W == Cat \cup {it[s] : s \in SUBSET (1 .. n)}
             G == [p \in W \X (1 .. n) |-> op(p[1], p[2])]
  <1>6. \A v \in W : \A i \in 1 .. n : G[<<v, i>>] = op(v, i)
    OBVIOUS
  <1>7. IsFold(G, c, n, it)
    <2> HIDE DEF G, it
    <2>1. ASSUME NEW s \in SUBSET (1 .. n)
          PROVE  Folding(G, c, it, s) = IF s = {} THEN c ELSE op(it[s \ {Max(s)}], Max(s))
      <3>1. ASSUME s # {} PROVE G[<<it[s \ {Max(s)}], Max(s)>>] = op(it[s \ {Max(s)}], Max(s))
        <4>1. Max(s) \in s
          BY <1>1, <3>1, MaxIsIn
        <4>2. Max(s) \in 1 .. n /\ s \ {Max(s)} \in SUBSET (1 .. n)
          BY <4>1
        <4>3. it[s \ {Max(s)}] \in W
          BY <4>2
        <4>4. QED  BY <1>6, <4>2, <4>3
      <3>2. QED  BY <3>1 DEF Folding
    <2>2. QED  BY <1>5, <2>1 DEF IsFold
  <1>8. \A v \in Cat : \A i \in 1 .. n : G[<<v, i>>] = op(v, i) /\ G[<<v, i>>] \in Cat
    BY <1>3, <1>6
  <1> HIDE DEF G, it
  <1>9. \E h : Runs(Cat, G, c, n, h) /\ it[1 .. n] = h[n]
    BY <1>1, <1>7, <1>8, FoldRuns
  <1>10. QED  BY <1>2, <1>8, <1>9 DEF Ran, n, op, end

DropFold(c, k, target, p, x, rows) ==
    FoldLeft(LAMBDA acc, r : IF IsUnder(target, r.path)
                             THEN DropFromRow(c, acc, k, r, target, p, x) ELSE acc,
             c, rows)

LEMMA DropRuns ==
    ASSUME NEW c \in Cat, NEW k \in Kind, NEW target, NEW p, NEW x, NEW rows \in Seq(RowType)
    PROVE  \E G, h :
             /\ Ran(Cat, c, rows, G, h, DropFold(c, k, target, p, x, rows))
             /\ \A v \in Cat : \A i \in 1 .. Len(rows) : G[<<v, i>>] = DropStep(c, k, target, p, x, v, rows[i])
  <1> DEFINE n == Len(rows)
             op(v, i) == DropStep(c, k, target, p, x, v, rows[i])
             Is(f) == f = [s \in SUBSET (1 .. n) |-> IF s = {} THEN c ELSE op(f[s \ {Max(s)}], Max(s))]
             it == CHOOSE f : Is(f)
             end == DropFold(c, k, target, p, x, rows)
  <1>1. n \in Nat /\ DOMAIN rows = 1 .. n /\ \A i \in 1 .. n : rows[i] \in RowType
    BY LenProperties, ElementOfSeq
  <1>2. end = it[1 .. n]
    BY <1>1 DEF DropFold, FoldLeft, MapThenFoldSet, DropStep
  <1>3. \A v \in Cat : \A i \in 1 .. n : op(v, i) \in Cat
    BY <1>1, StepsTyped
  <1> HIDE DEF n, op, end
  <1>4. \E f : Is(f)
    <2> DEFINE G == [z \in Cat \X (1 .. n) |-> op(z[1], z[2])]
    <2>1. G \in [Cat \X (1 .. n) -> Cat] /\ \A v \in Cat : \A i \in 1 .. n : G[<<v, i>>] = op(v, i)
      BY <1>3
    <2> HIDE DEF G
    <2>2. PICK f \in [SUBSET (1 .. n) -> Cat] : IsFold(G, c, n, f)
      BY <1>1, <2>1, FoldThere
    <2>3. ASSUME NEW s \in SUBSET (1 .. n)
          PROVE  Folding(G, c, f, s) = IF s = {} THEN c ELSE op(f[s \ {Max(s)}], Max(s))
      <3>1. ASSUME s # {} PROVE G[<<f[s \ {Max(s)}], Max(s)>>] = op(f[s \ {Max(s)}], Max(s))
        <4>1. Max(s) \in s
          BY <1>1, <3>1, MaxIsIn
        <4>2. Max(s) \in 1 .. n /\ s \ {Max(s)} \in SUBSET (1 .. n)
          BY <4>1
        <4>3. f[s \ {Max(s)}] \in Cat
          BY <4>2
        <4>4. QED  BY <2>1, <4>2, <4>3
      <3>2. QED  BY <3>1 DEF Folding
    <2>4. QED  BY <2>2, <2>3 DEF IsFold
  <1>5. Is(it)
    BY <1>4
  <1> DEFINE W == Cat \cup {it[s] : s \in SUBSET (1 .. n)}
             G == [z \in W \X (1 .. n) |-> op(z[1], z[2])]
  <1>6. \A v \in W : \A i \in 1 .. n : G[<<v, i>>] = op(v, i)
    OBVIOUS
  <1>7. IsFold(G, c, n, it)
    <2> HIDE DEF G, it
    <2>1. ASSUME NEW s \in SUBSET (1 .. n)
          PROVE  Folding(G, c, it, s) = IF s = {} THEN c ELSE op(it[s \ {Max(s)}], Max(s))
      <3>1. ASSUME s # {} PROVE G[<<it[s \ {Max(s)}], Max(s)>>] = op(it[s \ {Max(s)}], Max(s))
        <4>1. Max(s) \in s
          BY <1>1, <3>1, MaxIsIn
        <4>2. Max(s) \in 1 .. n /\ s \ {Max(s)} \in SUBSET (1 .. n)
          BY <4>1
        <4>3. it[s \ {Max(s)}] \in W
          BY <4>2
        <4>4. QED  BY <1>6, <4>2, <4>3
      <3>2. QED  BY <3>1 DEF Folding
    <2>2. QED  BY <1>5, <2>1 DEF IsFold
  <1>8. \A v \in Cat : \A i \in 1 .. n : G[<<v, i>>] = op(v, i) /\ G[<<v, i>>] \in Cat
    BY <1>3, <1>6
  <1> HIDE DEF G, it
  <1>9. \E h : Runs(Cat, G, c, n, h) /\ it[1 .. n] = h[n]
    BY <1>1, <1>7, <1>8, FoldRuns
  <1>10. QED  BY <1>2, <1>8, <1>9 DEF Ran, n, op, end

LEMMA UnderStays ==
    ASSUME NEW c, NEW gone, CatOK(c, gone), NEW k \in Kind, NEW i, NEW grows
    PROVE  Under(c, c, k, i, gone, grows)
  <1>1. PICK s, n : s = c.rows[k] /\ n = Len(c.rows[k])
    OBVIOUS
  <1>2. n \in Nat /\ \A m \in 1 .. n : s[m] \in ToSet(s)
    BY <1>1, RowsAre
  <1>3. SameIds(c, c)
    BY DEF SameIds
  <1>4. ASSUME NEW m \in 1 .. n PROVE Follows(c, k, s[m], s[m], m > i, gone, grows)
    <2>1. s[m] \in RowType /\ s[m].map \in Map
      BY <1>1, <1>2, CatParts DEF CatOK, RowType
    <2>2. Longer(c, k, s[m], s[m], gone)
      BY <2>1, PrefixSelf DEF Longer, Map
    <2>3. QED  BY <2>2 DEF Follows
  <1>5. QED  BY <1>1, <1>2, <1>3, <1>4 DEF Under

LEMMA AddUnderOK ==
    ASSUME NEW c, NEW gone, CatOK(c, gone), NEW k \in Kind, NEW p, NEW x \in Annotation
    PROVE  Under(c, AddUnder(c, k, p, x), k, Len(c.rows[k]), gone, TRUE)
  <1>1. CASE ~HasStruct(c, k, p)
    BY <1>1, UnderStays DEF AddUnder
  <1>2. CASE HasStruct(c, k, p)
    <2>1. PICK rows, target : rows = c.rows[k] /\ target = StructRow(c, k, p).path
      OBVIOUS
    <2>2. c \in Cat /\ rows \in Seq(RowType)
      BY <2>1, CatParts DEF CatOK
    <2>7. x \in Annotation /\ k \in Kind
      OBVIOUS
    <2>3. PICK G, h :
            /\ Ran(Cat, c, rows, G, h, AddFold(c, k, target, x, rows))
            /\ \A v \in Cat : \A i \in 1 .. Len(rows) : G[<<v, i>>] = AddStep(k, target, x, v, rows[i])
      BY <2>2, <2>7, AddRuns, SMTT(60)
    <2>4. StepsGo(c, k, G, gone, TRUE)
      <3>1. SUFFICES ASSUME NEW d \in Cat, NEW i \in 1 .. Len(rows), CatOK(d, gone), rows[i] \in ToSet(d.rows[k])
                     PROVE  Goes(d, G[<<d, i>>], k, rows[i], gone, TRUE)
        BY <2>1 DEF StepsGo
      <3>2. Goes(d, d, k, rows[i], gone, TRUE) /\ Goes(d, AddToRow(d, k, rows[i], x), k, rows[i], gone, TRUE)
        BY <3>1, StaysGoes, AddToRowOK
      <3>3. QED  BY <2>3, <3>2 DEF AddStep
    <2>5. AddUnder(c, k, p, x) = h[Len(rows)] /\ Runs(Cat, G, c, Len(rows), h)
      <3>1. AddUnder(c, k, p, x) = AddFold(c, k, StructRow(c, k, p).path, x, c.rows[k])
        BY <1>2 DEF AddUnder, AddFold, FoldLeft, MapThenFoldSet
      <3>2. QED  BY <2>1, <2>3, <3>1 DEF Ran
    <2>6. QED  BY <2>1, <2>4, <2>5, FoldGoes
  <1>3. QED  BY <1>1, <1>2

LEMMA DropUnderOK ==
    ASSUME NEW c, NEW gone, CatOK(c, gone), NEW k \in Kind, NEW p, NEW x
    PROVE  Under(c, DropUnder(c, k, p, x), k, Len(c.rows[k]), gone, FALSE)
  <1>1. CASE ~HasStruct(c, k, p)
    BY <1>1, UnderStays DEF DropUnder
  <1>2. CASE HasStruct(c, k, p)
    <2>1. PICK rows, target : rows = c.rows[k] /\ target = StructRow(c, k, p).path
      OBVIOUS
    <2>2. c \in Cat /\ rows \in Seq(RowType)
      BY <2>1, CatParts DEF CatOK
    <2>3. PICK G, h :
            /\ Ran(Cat, c, rows, G, h, DropFold(c, k, target, p, x, rows))
            /\ \A v \in Cat : \A i \in 1 .. Len(rows) : G[<<v, i>>] = DropStep(c, k, target, p, x, v, rows[i])
      BY <2>2, DropRuns
    <2>4. StepsGo(c, k, G, gone, FALSE)
      <3>1. SUFFICES ASSUME NEW d \in Cat, NEW i \in 1 .. Len(rows), CatOK(d, gone), rows[i] \in ToSet(d.rows[k])
                     PROVE  Goes(d, G[<<d, i>>], k, rows[i], gone, FALSE)
        BY <2>1 DEF StepsGo
      <3>2. /\ Goes(d, d, k, rows[i], gone, FALSE)
            /\ Goes(d, DropFromRow(c, d, k, rows[i], target, p, x), k, rows[i], gone, FALSE)
        BY <3>1, StaysGoes, DropFromRowOK
      <3>3. QED  BY <2>3, <3>2 DEF DropStep
    <2>5. DropUnder(c, k, p, x) = h[Len(rows)] /\ Runs(Cat, G, c, Len(rows), h)
      <3>1. DropUnder(c, k, p, x) = DropFold(c, k, StructRow(c, k, p).path, p, x, c.rows[k])
        BY <1>2 DEF DropUnder, DropFold, FoldLeft, MapThenFoldSet
      <3>2. QED  BY <2>1, <2>3, <3>1 DEF Ran
    <2>6. QED  BY <2>1, <2>4, <2>5, FoldGoes
  <1>3. QED  BY <1>1, <1>2
-----------------------------------------------------------------------------
(* New versions of the rows with a token.                                   *)

\* New versions of rows, of the same labels with the same maps.
Versions(rows, new) ==
    \A r \in ToSet(rows) :
        new[r] \in RowType /\ new[r].id = r.id /\ new[r].map = r.map /\ new[r].bits = r.bits

RewriteStep(t, new, v, r) == IF Contains(r.path, t) THEN Append(Without(v, r), new[r]) ELSE v

LEMMA RewriteTyped ==
    ASSUME NEW rows \in Seq(RowType), NEW t, NEW new, Versions(rows, new),
           NEW v \in Seq(RowType), NEW i \in 1 .. Len(rows)
    PROVE  RewriteStep(t, new, v, rows[i]) \in Seq(RowType)
  <1>1. rows[i] \in ToSet(rows)
    BY LenProperties DEF ToSet
  <1>2. Without(v, rows[i]) \in Seq(RowType)
    BY WithoutKeeps
  <1>3. QED  BY <1>1, <1>2 DEF RewriteStep, Versions

LEMMA RewrittenRuns ==
    ASSUME NEW rows \in Seq(RowType), NEW t, NEW new, Versions(rows, new)
    PROVE  \E G, h :
             /\ Ran(Seq(RowType), rows, rows, G, h,
                    Rewritten(rows, t, new))
             /\ \A v \in Seq(RowType) : \A i \in 1 .. Len(rows) : G[<<v, i>>] = RewriteStep(t, new, v, rows[i])
  <1> DEFINE n == Len(rows)
             op(v, i) == RewriteStep(t, new, v, rows[i])
             Is(f) == f = [s \in SUBSET (1 .. n) |-> IF s = {} THEN rows ELSE op(f[s \ {Max(s)}], Max(s))]
             it == CHOOSE f : Is(f)
             end == Rewritten(rows, t, new)
  <1>1. n \in Nat /\ DOMAIN rows = 1 .. n /\ \A i \in 1 .. n : rows[i] \in RowType
    BY LenProperties, ElementOfSeq
  <1>2. end = it[1 .. n]
    BY <1>1 DEF FoldLeft, MapThenFoldSet, Rewritten, RewriteStep
  <1>3. \A v \in Seq(RowType) : \A i \in 1 .. n : op(v, i) \in Seq(RowType)
    BY <1>1, RewriteTyped
  <1> HIDE DEF n, op, end
  <1>4. \E f : Is(f)
    <2> DEFINE G == [z \in Seq(RowType) \X (1 .. n) |-> op(z[1], z[2])]
    <2>1. G \in [Seq(RowType) \X (1 .. n) -> Seq(RowType)] /\ \A v \in Seq(RowType) : \A i \in 1 .. n : G[<<v, i>>] = op(v, i)
      BY <1>3
    <2> HIDE DEF G
    <2>2. PICK f \in [SUBSET (1 .. n) -> Seq(RowType)] : IsFold(G, rows, n, f)
      BY <1>1, <2>1, FoldThere
    <2>3. ASSUME NEW s \in SUBSET (1 .. n)
          PROVE  Folding(G, rows, f, s) = IF s = {} THEN rows ELSE op(f[s \ {Max(s)}], Max(s))
      <3>1. ASSUME s # {} PROVE G[<<f[s \ {Max(s)}], Max(s)>>] = op(f[s \ {Max(s)}], Max(s))
        <4>1. Max(s) \in s
          BY <1>1, <3>1, MaxIsIn
        <4>2. Max(s) \in 1 .. n /\ s \ {Max(s)} \in SUBSET (1 .. n)
          BY <4>1
        <4>3. f[s \ {Max(s)}] \in Seq(RowType)
          BY <4>2
        <4>4. QED  BY <2>1, <4>2, <4>3
      <3>2. QED  BY <3>1 DEF Folding
    <2>4. QED  BY <2>2, <2>3 DEF IsFold
  <1>5. Is(it)
    BY <1>4
  <1> DEFINE W == Seq(RowType) \cup {it[s] : s \in SUBSET (1 .. n)}
             G == [z \in W \X (1 .. n) |-> op(z[1], z[2])]
  <1>6. \A v \in W : \A i \in 1 .. n : G[<<v, i>>] = op(v, i)
    OBVIOUS
  <1>7. IsFold(G, rows, n, it)
    <2> HIDE DEF G, it
    <2>1. ASSUME NEW s \in SUBSET (1 .. n)
          PROVE  Folding(G, rows, it, s) = IF s = {} THEN rows ELSE op(it[s \ {Max(s)}], Max(s))
      <3>1. ASSUME s # {} PROVE G[<<it[s \ {Max(s)}], Max(s)>>] = op(it[s \ {Max(s)}], Max(s))
        <4>1. Max(s) \in s
          BY <1>1, <3>1, MaxIsIn
        <4>2. Max(s) \in 1 .. n /\ s \ {Max(s)} \in SUBSET (1 .. n)
          BY <4>1
        <4>3. it[s \ {Max(s)}] \in W
          BY <4>2
        <4>4. QED  BY <1>6, <4>2, <4>3
      <3>2. QED  BY <3>1 DEF Folding
    <2>2. QED  BY <1>5, <2>1 DEF IsFold
  <1>8. \A v \in Seq(RowType) : \A i \in 1 .. n : G[<<v, i>>] = op(v, i) /\ G[<<v, i>>] \in Seq(RowType)
    BY <1>3, <1>6
  <1> HIDE DEF G, it
  <1>9. \E h : Runs(Seq(RowType), G, rows, n, h) /\ it[1 .. n] = h[n]
    BY <1>1, <1>7, <1>8, FoldRuns
  <1>10. QED  BY <1>2, <1>8, <1>9 DEF Ran, n, op, end

LEMMA RewrittenOK ==
    ASSUME NEW c, NEW gone, CatOK(c, gone), NEW k \in Kind, NEW t, NEW new, Versions(c.rows[k], new)
    PROVE  Under(c, [c EXCEPT !.rows[k] = Rewritten(@, t, new)], k, Len(c.rows[k]), gone, TRUE)
  <1>1. PICK rows, n : rows = c.rows[k] /\ n = Len(c.rows[k])
    OBVIOUS
  <1>2. c \in Cat /\ rows \in Seq(RowType) /\ n \in Nat /\ c.rows \in [Kind -> Seq(RowType)]
    BY <1>1, CatParts, RowsAre DEF CatOK
  <1>3. PICK F, h : /\ Ran(Seq(RowType), rows, rows, F, h, Rewritten(rows, t, new))
                    /\ \A v \in Seq(RowType) : \A i \in 1 .. Len(rows) : F[<<v, i>>] = RewriteStep(t, new, v, rows[i])
    <2>1. Versions(rows, new)
      BY <1>1
    <2>2. QED  BY <1>2, <2>1, RewrittenRuns
  <1>4. /\ Rewritten(rows, t, new) = h[n] /\ h \in [0 .. n -> Seq(RowType)] /\ h[0] = rows
        /\ \A i \in 1 .. n : h[i] = RewriteStep(t, new, h[i - 1], rows[i])
    <2>1. /\ Rewritten(rows, t, new) = h[n] /\ h \in [0 .. n -> Seq(RowType)] /\ h[0] = rows
          /\ \A i \in 1 .. n : h[i] = F[<<h[i - 1], i>>]
      BY <1>1, <1>3 DEF Ran, Runs
    <2>2. \A i \in 1 .. n : h[i - 1] \in Seq(RowType)
      <3>1. \A i \in 1 .. n : i - 1 \in 0 .. n
        BY <1>2
      <3>2. QED  BY <2>1, <3>1
    <2>3. QED  BY <1>1, <1>3, <2>1, <2>2
  <1> DEFINE With(d, s) == [d EXCEPT !.rows[k] = s]
             H == [i \in 0 .. n |-> With(c, h[i])]
             G == [z \in Cat \X (1 .. n) |-> With(z[1], RewriteStep(t, new, z[1].rows[k], rows[z[2]]))]
  <1>5. \A d \in Cat : \A s, u \in Seq(RowType) :
          /\ With(d, s) \in Cat /\ With(d, s).rows[k] = s
          /\ \A j \in Kind \ {k} : With(d, s).rows[j] = d.rows[j]
          /\ With(d, s).names = d.names /\ With(d, s).last = d.last /\ With(d, s).schema = d.schema
    BY CatWith
  <1>6. \A d \in Cat : \A s, u \in Seq(RowType) : With(With(d, s), u) = With(d, u) /\ With(d, d.rows[k]) = d
    BY DEF Cat
  <1>7. \A d \in Cat : \A i \in 1 .. n : G[<<d, i>>] = With(d, RewriteStep(t, new, d.rows[k], rows[i]))
    OBVIOUS
  <1>8. \A i \in 0 .. n : H[i] = With(c, h[i])
    OBVIOUS
  <1> HIDE DEF With, H, G
  <1>9. Runs(Cat, G, c, n, H)
    <2>1. \A i \in 0 .. n : H[i] \in Cat /\ H[i].rows[k] = h[i]
      BY <1>2, <1>4, <1>5, <1>8
    <2>2. H \in [0 .. n -> Cat]
      BY <2>1 DEF H
    <2>3. H[0] = c
      <3>1. 0 \in 0 .. n
        BY <1>2
      <3>2. With(c, c.rows[k]) = c
        BY <1>1, <1>2, <1>6
      <3>3. QED  BY <1>1, <1>4, <1>8, <3>1, <3>2
    <2>4. ASSUME NEW i \in 1 .. n PROVE H[i] = G[<<H[i - 1], i>>]
      <3>1. i - 1 \in 0 .. n /\ i \in 0 .. n
        BY <1>2
      <3>2. PICK e, s, u : e = H[i - 1] /\ s = h[i - 1] /\ u = h[i]
        OBVIOUS
      <3>3. e \in Cat /\ e.rows[k] = s /\ e = With(c, s) /\ s \in Seq(RowType) /\ u \in Seq(RowType)
        BY <1>4, <1>8, <2>1, <3>1, <3>2
      <3>4. G[<<e, i>>] = With(e, RewriteStep(t, new, s, rows[i]))
        BY <1>7, <3>3
      <3>5. u = RewriteStep(t, new, s, rows[i])
        BY <1>4, <3>2
      <3>6. With(e, u) = With(c, u)
        BY <1>2, <1>6, <3>3
      <3>7. H[i] = With(c, u)
        BY <1>8, <3>1, <3>2
      <3>8. QED  BY <3>2, <3>4, <3>5, <3>6, <3>7
    <2>5. QED  BY <2>2, <2>3, <2>4 DEF Runs
  <1>10. StepsGo(c, k, G, gone, TRUE)
    <2>1. SUFFICES ASSUME NEW d \in Cat, NEW i \in 1 .. n, CatOK(d, gone), rows[i] \in ToSet(d.rows[k])
                   PROVE  Goes(d, G[<<d, i>>], k, rows[i], gone, TRUE)
      BY <1>1 DEF StepsGo
    <2>2. PICK r, q, e : r = rows[i] /\ q = new[r] /\ e = UpdateRow(d, k, r, q)
      OBVIOUS
    <2>3. d.rows[k] \in Seq(RowType) /\ d.rows \in [Kind -> Seq(RowType)]
      BY CatParts
    <2>4. CASE ~Contains(r.path, t)
      <3>1. G[<<d, i>>] = d
        BY <1>6, <1>7, <2>2, <2>3, <2>4 DEF RewriteStep
      <3>2. QED  BY <2>1, <3>1, StaysGoes
    <2>5. CASE Contains(r.path, t)
      <3>1. q \in RowType /\ q.id = r.id /\ q.map = r.map /\ q.bits = r.bits
        BY <1>1, <1>2, <2>2, RowsAre DEF Versions
      <3>2. Listing(d.rows[k], d.last[k]) /\ r \in ToSet(d.rows[k])
        BY <2>1, <2>2 DEF CatOK
      <3>3. /\ e \in Cat /\ Replaces(d, e, k, r, q) /\ Listing(e.rows[k], d.last[k])
            /\ e.names = d.names /\ e.schema = d.schema
        BY <2>2, <3>1, <3>2, UpdateRowOK
      <3>4. SlotFits(d, e, k, r, q, gone)
        BY <3>1, <3>3 DEF SlotFits
      <3>5. CatOK(e, gone)
        BY <2>1, <3>1, <3>2, <3>3, <3>4, PutRow
      <3>6. Longer(d, k, r, q, gone)
        <4>1. r \in RowType
          BY <2>1, <3>2, CatParts
        <4>2. QED  BY <3>1, <4>1, PrefixSelf DEF Longer, Map, RowType
      <3>7. G[<<d, i>>] = e
        BY <1>7, <2>2, <2>3, <2>5 DEF RewriteStep, UpdateRow, With
      <3>8. QED  BY <2>2, <3>1, <3>3, <3>5, <3>6, <3>7 DEF Goes
    <2>6. QED  BY <2>4, <2>5
  <1>11. Under(c, H[n], k, n, gone, TRUE)
    BY <1>1, <1>9, <1>10, FoldGoes
  <1>12. H[n] = [c EXCEPT !.rows[k] = Rewritten(@, t, new)]
    <2>1. n \in 0 .. n
      BY <1>2
    <2>2. H[n] = [c EXCEPT !.rows[k] = h[n]]
      BY <1>8, <2>1 DEF With
    <2>3. Rewritten(c.rows[k], t, new) = h[n]
      BY <1>1, <1>4
    <2>4. QED  BY <1>2, <2>2, <2>3
  <1>13. QED  BY <1>1, <1>11, <1>12
-----------------------------------------------------------------------------
(* Names.                                                                    *)

\* The catalogs that differ in their names only.
Naming(c) == {d \in Cat : d.rows = c.rows /\ d.last = c.last /\ d.schema = c.schema}

LEMMA NamingKeeps ==
    ASSUME NEW c, NEW gone, CatOK(c, gone), NEW d \in Naming(c)
    PROVE  CatOK(d, gone)
  <1>1. d \in Cat /\ d.rows = c.rows /\ d.last = c.last /\ d.schema = c.schema
    BY DEF Naming
  <1>2. \A k \in Kind : Listing(d.rows[k], d.last[k])
    BY <1>1 DEF CatOK
  <1>3. Agree(d, gone)
    BY <1>1 DEF CatOK, Agree, IsAlone, AgreesAt
  <1>4. Filled(d, gone)
    BY <1>1 DEF CatOK, Filled
  <1>5. QED  BY <1>1, <1>2, <1>3, <1>4 DEF CatOK

LEMMA Renaming ==
    ASSUME NEW c \in Cat, NEW d \in Naming(c), NEW s \in Seq(NameType)
    PROVE  [d EXCEPT !.names = s] \in Naming(c)
  BY CatWith DEF Naming

LEMMA NamingSelf ==
    ASSUME NEW c \in Cat
    PROVE  c \in Naming(c)
  BY DEF Naming

LEMMA RegisterOK ==
    ASSUME NEW c \in Cat, NEW d \in Naming(c), NEW n \in Name \cup Annotation, NEW type \in {"s", "a"}
    PROVE  Register(d, n, type) \in Naming(c)
  <1>1. PICK e : e = [name |-> n, type |-> type]
    OBVIOUS
  <1>2. e \in NameType /\ d.names \in Seq(NameType)
    BY <1>1, CatParts DEF NameType, Naming
  <1>3. PICK s : s = Append(d.names, e)
    OBVIOUS
  <1>4. s \in Seq(NameType)
    BY <1>2, <1>3
  <1>5. [d EXCEPT !.names = s] \in Naming(c)
    BY <1>4, Renaming
  <1>6. Register(d, n, type) = d \/ Register(d, n, type) = [d EXCEPT !.names = s]
    BY <1>1, <1>3 DEF Register
  <1>7. QED  BY <1>5, <1>6

LEMMA RegisterTyped ==
    ASSUME NEW c \in Cat, NEW d \in Naming(c), NEW n \in Annotation
    PROVE  Register(d, n, "a") \in Naming(c)
  BY RegisterOK

LEMMA UnregisterOK ==
    ASSUME NEW c \in Cat, NEW d \in Naming(c), NEW n, NEW type
    PROVE  Unregister(d, n, type) \in Naming(c)
  <1>1. d.names \in Seq(NameType)
    BY CatParts DEF Naming
  <1>2. Without(d.names, [name |-> n, type |-> type]) \in Seq(NameType)
    BY <1>1, WithoutKeeps
  <1>3. PICK s : s = Without(d.names, [name |-> n, type |-> type])
    OBVIOUS
  <1>4. [d EXCEPT !.names = s] \in Naming(c)
    BY <1>2, <1>3, Renaming
  <1>5. Unregister(d, n, type) = [d EXCEPT !.names = s]
    BY <1>3 DEF Unregister
  <1>6. QED  BY <1>4, <1>5

\* The first row of a kind is one of that kind.
LEMMA FirstIs ==
    ASSUME NEW I \in SUBSET Nat
    PROVE  I # {} => Min(I) \in I
  BY MinIsIn

LEMMA RemovedAt ==
    ASSUME NEW S, NEW s \in Seq(S), NEW i \in 1 .. Len(s)
    PROVE  /\ RemoveAt(s, i) \in Seq(S) /\ Len(RemoveAt(s, i)) = Len(s) - 1
           /\ \A j \in 1 .. i - 1 : RemoveAt(s, i)[j] = s[j]
           /\ \A j \in i .. Len(s) - 1 : RemoveAt(s, i)[j] = s[j + 1]
  <1>1. PICK a, b : a = SubSeq(s, 1, i - 1) /\ b = SubSeq(s, i + 1, Len(s))
    OBVIOUS
  <1>2. Len(s) \in Nat /\ i \in Nat /\ i >= 1 /\ i <= Len(s)
    OBVIOUS
  <1>3. a \in Seq(S) /\ Len(a) = i - 1 /\ \A j \in 1 .. i - 1 : a[j] = s[j]
    BY <1>1, <1>2
  <1>4. b \in Seq(S) /\ Len(b) = Len(s) - i /\ \A j \in 1 .. Len(s) - i : b[j] = s[i + j]
    BY <1>1, <1>2
  <1>5. PICK u : u = a \o b
    OBVIOUS
  <1>6. /\ u \in Seq(S) /\ Len(u) = Len(a) + Len(b)
        /\ \A j \in 1 .. Len(a) : u[j] = a[j]
        /\ \A j \in Len(a) + 1 .. Len(a) + Len(b) : u[j] = b[j - Len(a)]
    <2>1. /\ u \in Seq(S) /\ Len(u) = Len(a) + Len(b)
          /\ \A j \in 1 .. Len(a) + Len(b) : u[j] = IF j <= Len(a) THEN a[j] ELSE b[j - Len(a)]
      BY <1>3, <1>4, <1>5, ConcatProperties
    <2>2. /\ \A j \in 1 .. Len(a) : j \in 1 .. Len(a) + Len(b) /\ j <= Len(a)
          /\ \A j \in Len(a) + 1 .. Len(a) + Len(b) : j \in 1 .. Len(a) + Len(b) /\ ~(j <= Len(a))
      BY <1>2, <1>3, <1>4
    <2>3. QED  BY <2>1, <2>2
  <1>7. Len(u) = Len(s) - 1 /\ \A j \in 1 .. i - 1 : u[j] = s[j]
    BY <1>2, <1>3, <1>4, <1>6
  <1>8. ASSUME NEW j \in i .. Len(s) - 1 PROVE u[j] = s[j + 1]
    <2>1. j \in Len(a) + 1 .. Len(a) + Len(b) /\ j - Len(a) \in 1 .. Len(s) - i /\ i + (j - Len(a)) = j + 1
      BY <1>2, <1>3, <1>4
    <2>2. QED  BY <1>4, <1>6, <2>1
  <1>9. RemoveAt(s, i) = u
    BY <1>1, <1>5 DEF RemoveAt
  <1>10. QED  BY <1>6, <1>7, <1>8, <1>9

LEMMA RenameNameOK ==
    ASSUME NEW c \in Cat, NEW d \in Naming(c), NEW n, NEW m \in Name
    PROVE  RenameName(d, n, m) \in Naming(c)
  <1>1. d.names \in Seq(NameType)
    BY CatParts DEF Naming
  <1>2. CASE ~IsNamed(d, n)
    BY <1>2 DEF RenameName
  <1>3. CASE IsNamed(d, n)
    <2>1. PICK s : s = d.names
      OBVIOUS
    <2> DEFINE I == {j \in 1 .. Len(s) : s[j].name = n}
    <2>2. I # {}
      <3>1. DOMAIN s = 1 .. Len(s)
        BY <1>1, <2>1, LenProperties
      <3>2. QED  BY <1>3, <2>1, <3>1 DEF IsNamed, ToSet
    <2>3. PICK i : i = Min(I)
      OBVIOUS
    <2>4. i \in 1 .. Len(s)
      <3>1. I \in SUBSET Nat
        BY <1>1, <2>1
      <3>2. QED  BY <2>2, <2>3, <3>1, MinIsIn
    <2>5. SelectInSeq(d.names, LAMBDA e : e.name = n) = i
      BY <2>1, <2>2, <2>3 DEF SelectInSeq
    <2>6. PICK q : q = [s[i] EXCEPT !.name = m]
      OBVIOUS
    <2>7. q \in NameType
      <3>1. s[i] \in NameType
        BY <1>1, <2>1, <2>4, ElementOfSeq
      <3>2. QED  BY <2>6, <3>1 DEF NameType
    <2>8. PICK u : u = Append(RemoveAt(s, i), q)
      OBVIOUS
    <2>9. u \in Seq(NameType)
      <3>1. RemoveAt(s, i) \in Seq(NameType)
        BY <1>1, <2>1, <2>4, RemovedAt
      <3>2. QED  BY <2>7, <2>8, <3>1
    <2>10. [d EXCEPT !.names = u] \in Naming(c)
      BY <2>9, Renaming
    <2>11. RenameName(d, n, m) = [d EXCEPT !.names = u]
      BY <1>3, <2>1, <2>5, <2>6, <2>8 DEF RenameName
    <2>12. QED  BY <2>10, <2>11
  <1>4. QED  BY <1>2, <1>3

RegisterFold(base, map) == FoldLeft(LAMBDA acc, x : Register(acc, x, "a"), base, map)

LEMMA RegisterRuns ==
    ASSUME NEW c \in Cat, NEW base \in Naming(c), NEW map \in Seq(Annotation)
    PROVE  \E G, h :
             /\ Ran(Naming(c), base, map, G, h,
                    RegisterFold(base, map))
             /\ \A v \in Naming(c) : \A i \in 1 .. Len(map) : G[<<v, i>>] = Register(v, map[i], "a")
  <1> DEFINE n == Len(map)
             op(v, i) == Register(v, map[i], "a")
             Is(f) == f = [s \in SUBSET (1 .. n) |-> IF s = {} THEN base ELSE op(f[s \ {Max(s)}], Max(s))]
             it == CHOOSE f : Is(f)
             end == RegisterFold(base, map)
  <1>1. n \in Nat /\ DOMAIN map = 1 .. n /\ \A i \in 1 .. n : map[i] \in Annotation
    BY LenProperties, ElementOfSeq
  <1>2. end = it[1 .. n]
    BY <1>1 DEF FoldLeft, MapThenFoldSet, RegisterFold
  <1>3. \A v \in Naming(c) : \A i \in 1 .. n : op(v, i) \in Naming(c)
    BY <1>1, RegisterTyped
  <1> HIDE DEF n, op, end
  <1>4. \E f : Is(f)
    <2> DEFINE G == [z \in Naming(c) \X (1 .. n) |-> op(z[1], z[2])]
    <2>1. G \in [Naming(c) \X (1 .. n) -> Naming(c)] /\ \A v \in Naming(c) : \A i \in 1 .. n : G[<<v, i>>] = op(v, i)
      BY <1>3
    <2> HIDE DEF G
    <2>2. PICK f \in [SUBSET (1 .. n) -> Naming(c)] : IsFold(G, base, n, f)
      BY <1>1, <2>1, FoldThere
    <2>3. ASSUME NEW s \in SUBSET (1 .. n)
          PROVE  Folding(G, base, f, s) = IF s = {} THEN base ELSE op(f[s \ {Max(s)}], Max(s))
      <3>1. ASSUME s # {} PROVE G[<<f[s \ {Max(s)}], Max(s)>>] = op(f[s \ {Max(s)}], Max(s))
        <4>1. Max(s) \in s
          BY <1>1, <3>1, MaxIsIn
        <4>2. Max(s) \in 1 .. n /\ s \ {Max(s)} \in SUBSET (1 .. n)
          BY <4>1
        <4>3. f[s \ {Max(s)}] \in Naming(c)
          BY <4>2
        <4>4. QED  BY <2>1, <4>2, <4>3
      <3>2. QED  BY <3>1 DEF Folding
    <2>4. QED  BY <2>2, <2>3 DEF IsFold
  <1>5. Is(it)
    BY <1>4
  <1> DEFINE W == Naming(c) \cup {it[s] : s \in SUBSET (1 .. n)}
             G == [z \in W \X (1 .. n) |-> op(z[1], z[2])]
  <1>6. \A v \in W : \A i \in 1 .. n : G[<<v, i>>] = op(v, i)
    OBVIOUS
  <1>7. IsFold(G, base, n, it)
    <2> HIDE DEF G, it
    <2>1. ASSUME NEW s \in SUBSET (1 .. n)
          PROVE  Folding(G, base, it, s) = IF s = {} THEN base ELSE op(it[s \ {Max(s)}], Max(s))
      <3>1. ASSUME s # {} PROVE G[<<it[s \ {Max(s)}], Max(s)>>] = op(it[s \ {Max(s)}], Max(s))
        <4>1. Max(s) \in s
          BY <1>1, <3>1, MaxIsIn
        <4>2. Max(s) \in 1 .. n /\ s \ {Max(s)} \in SUBSET (1 .. n)
          BY <4>1
        <4>3. it[s \ {Max(s)}] \in W
          BY <4>2
        <4>4. QED  BY <1>6, <4>2, <4>3
      <3>2. QED  BY <3>1 DEF Folding
    <2>2. QED  BY <1>5, <2>1 DEF IsFold
  <1>8. \A v \in Naming(c) : \A i \in 1 .. n : G[<<v, i>>] = op(v, i) /\ G[<<v, i>>] \in Naming(c)
    BY <1>3, <1>6
  <1> HIDE DEF G, it
  <1>9. \E h : Runs(Naming(c), G, base, n, h) /\ it[1 .. n] = h[n]
    BY <1>1, <1>7, <1>8, FoldRuns
  <1>10. QED  BY <1>2, <1>8, <1>9 DEF Ran, n, op, end

-----------------------------------------------------------------------------
(* Maps of two labels together.                                              *)

UnionOf(a, b) == {m \in Seq(Annotation) : IsInjective(m) /\ ToSet(m) \subseteq ToSet(a) \cup ToSet(b)}
UnionFold(a, b) == FoldLeft(LAMBDA m, x : IF Contains(m, x) THEN m ELSE Append(m, x), a, b)

LEMMA UnionTyped ==
    ASSUME NEW a, NEW b \in Seq(Annotation), NEW v \in UnionOf(a, b), NEW i \in 1 .. Len(b)
    PROVE  (IF Contains(v, b[i]) THEN v ELSE Append(v, b[i])) \in UnionOf(a, b)
  <1>1. PICK x : x = b[i]
    OBVIOUS
  <1>2. x \in Annotation /\ x \in ToSet(b)
    BY <1>1, LenProperties, ElementOfSeq DEF ToSet
  <1>3. ASSUME ~Contains(v, x) PROVE Append(v, x) \in UnionOf(a, b)
    <2>1. v \in Seq(Annotation) /\ IsInjective(v) /\ ToSet(v) \subseteq ToSet(a) \cup ToSet(b)
      BY DEF UnionOf
    <2>2. PICK u : u = Append(v, x)
      OBVIOUS
    <2>3. u \in Seq(Annotation) /\ IsInjective(u)
      BY <1>2, <1>3, <2>1, <2>2, AppendedMap
    <2>4. /\ Len(u) = Len(v) + 1 /\ Len(v) \in Nat
          /\ u[Len(v) + 1] = x /\ \A j \in 1 .. Len(v) : u[j] = v[j]
      BY <1>2, <2>1, <2>2, AppendProperties
    <2>5. \A j : j \in 1 .. Len(v) + 1 <=> j \in 1 .. Len(v) \/ j = Len(v) + 1
      BY <2>4
    <2>6. DOMAIN v = 1 .. Len(v) /\ DOMAIN u = 1 .. Len(v) + 1
      BY <2>1, <2>3, <2>4, LenProperties
    <2>7. ToSet(u) = ToSet(v) \cup {x}
      BY <2>4, <2>5, <2>6 DEF ToSet
    <2>8. QED  BY <1>2, <2>1, <2>2, <2>3, <2>7 DEF UnionOf
  <1>4. QED  BY <1>1, <1>3

LEMMA UnionRuns ==
    ASSUME NEW a, NEW b \in Seq(Annotation), a \in UnionOf(a, b)
    PROVE  \E G, h :
             /\ Ran(UnionOf(a, b), a, b, G, h,
                    UnionFold(a, b))
             /\ \A v \in UnionOf(a, b) : \A i \in 1 .. Len(b) : G[<<v, i>>] = (IF Contains(v, b[i]) THEN v ELSE Append(v, b[i]))
  <1> DEFINE n == Len(b)
             op(v, i) == (IF Contains(v, b[i]) THEN v ELSE Append(v, b[i]))
             Is(f) == f = [s \in SUBSET (1 .. n) |-> IF s = {} THEN a ELSE op(f[s \ {Max(s)}], Max(s))]
             it == CHOOSE f : Is(f)
             end == UnionFold(a, b)
  <1>1. n \in Nat /\ DOMAIN b = 1 .. n /\ \A i \in 1 .. n : b[i] \in Annotation
    BY LenProperties, ElementOfSeq
  <1>2. end = it[1 .. n]
    BY <1>1 DEF FoldLeft, MapThenFoldSet, UnionFold
  <1>3. \A v \in UnionOf(a, b) : \A i \in 1 .. n : op(v, i) \in UnionOf(a, b)
    BY <1>1, UnionTyped
  <1> HIDE DEF n, op, end
  <1>4. \E f : Is(f)
    <2> DEFINE G == [z \in UnionOf(a, b) \X (1 .. n) |-> op(z[1], z[2])]
    <2>1. G \in [UnionOf(a, b) \X (1 .. n) -> UnionOf(a, b)] /\ \A v \in UnionOf(a, b) : \A i \in 1 .. n : G[<<v, i>>] = op(v, i)
      BY <1>3
    <2> HIDE DEF G
    <2>2. PICK f \in [SUBSET (1 .. n) -> UnionOf(a, b)] : IsFold(G, a, n, f)
      BY <1>1, <2>1, FoldThere
    <2>3. ASSUME NEW s \in SUBSET (1 .. n)
          PROVE  Folding(G, a, f, s) = IF s = {} THEN a ELSE op(f[s \ {Max(s)}], Max(s))
      <3>1. ASSUME s # {} PROVE G[<<f[s \ {Max(s)}], Max(s)>>] = op(f[s \ {Max(s)}], Max(s))
        <4>1. Max(s) \in s
          BY <1>1, <3>1, MaxIsIn
        <4>2. Max(s) \in 1 .. n /\ s \ {Max(s)} \in SUBSET (1 .. n)
          BY <4>1
        <4>3. f[s \ {Max(s)}] \in UnionOf(a, b)
          BY <4>2
        <4>4. QED  BY <2>1, <4>2, <4>3
      <3>2. QED  BY <3>1 DEF Folding
    <2>4. QED  BY <2>2, <2>3 DEF IsFold
  <1>5. Is(it)
    BY <1>4
  <1> DEFINE W == UnionOf(a, b) \cup {it[s] : s \in SUBSET (1 .. n)}
             G == [z \in W \X (1 .. n) |-> op(z[1], z[2])]
  <1>6. \A v \in W : \A i \in 1 .. n : G[<<v, i>>] = op(v, i)
    OBVIOUS
  <1>7. IsFold(G, a, n, it)
    <2> HIDE DEF G, it
    <2>1. ASSUME NEW s \in SUBSET (1 .. n)
          PROVE  Folding(G, a, it, s) = IF s = {} THEN a ELSE op(it[s \ {Max(s)}], Max(s))
      <3>1. ASSUME s # {} PROVE G[<<it[s \ {Max(s)}], Max(s)>>] = op(it[s \ {Max(s)}], Max(s))
        <4>1. Max(s) \in s
          BY <1>1, <3>1, MaxIsIn
        <4>2. Max(s) \in 1 .. n /\ s \ {Max(s)} \in SUBSET (1 .. n)
          BY <4>1
        <4>3. it[s \ {Max(s)}] \in W
          BY <4>2
        <4>4. QED  BY <1>6, <4>2, <4>3
      <3>2. QED  BY <3>1 DEF Folding
    <2>2. QED  BY <1>5, <2>1 DEF IsFold
  <1>8. \A v \in UnionOf(a, b) : \A i \in 1 .. n : G[<<v, i>>] = op(v, i) /\ G[<<v, i>>] \in UnionOf(a, b)
    BY <1>3, <1>6
  <1> HIDE DEF G, it
  <1>9. \E h : Runs(UnionOf(a, b), G, a, n, h) /\ it[1 .. n] = h[n]
    BY <1>1, <1>7, <1>8, FoldRuns
  <1>10. QED  BY <1>2, <1>8, <1>9 DEF Ran, n, op, end

LEMMA MapUnionOK ==
    ASSUME NEW a \in Map, NEW b \in Map
    PROVE  MapUnion(a, b) \in Map /\ NamesOf(MapUnion(a, b)) \subseteq NamesOf(a) \cup NamesOf(b)
  <1>1. CASE a = NoMap \/ b = NoMap
    BY <1>1 DEF MapUnion
  <1>2. CASE a # NoMap /\ b # NoMap
    <2>1. a \in UnionOf(a, b) /\ b \in Seq(Annotation)
      BY <1>2 DEF Map, UnionOf
    <2>2. PICK G, h : Ran(UnionOf(a, b), a, b, G, h, UnionFold(a, b))
      BY <2>1, UnionRuns
    <2>3. UnionFold(a, b) \in UnionOf(a, b)
      <3>1. Len(b) \in 0 .. Len(b)
        BY <2>1
      <3>2. QED  BY <2>2, <3>1 DEF Ran, Runs
    <2>4. MapUnion(a, b) = IF UnionFold(a, b) = <<>> THEN NoMap ELSE UnionFold(a, b)
      BY <1>2 DEF MapUnion, UnionFold
    <2>5. QED  BY <1>2, <2>3, <2>4 DEF UnionOf, Map, NamesOf
  <1>3. QED  BY <1>1, <1>2
-----------------------------------------------------------------------------
(* Paths.                                                                    *)

LEMMA PathParts ==
    ASSUME NEW p \in Path
    PROVE  /\ p \in Seq(Token) /\ p # <<>> /\ p[1] = Root /\ Len(p) \in Nat /\ Len(p) >= 1
           /\ Stripped(p) = Tail(p) /\ Tail(p) \in Seq(Token) /\ Len(Tail(p)) = Len(p) - 1
           /\ \A i \in 1 .. Len(p) - 1 : Tail(p)[i] = p[i + 1]
  <1>1. p \in Seq(Token) /\ p # <<>> /\ p[1] = Root
    BY DEF Path
  <1>2. Len(p) \in Nat /\ Len(p) >= 1
    BY <1>1, EmptySeq
  <1>3. Head(p) = Root
    BY <1>1, <1>2
  <1>4. Tail(p) \in Seq(Token) /\ Len(Tail(p)) = Len(p) - 1 /\ \A i \in 1 .. Len(p) - 1 : Tail(p)[i] = p[i + 1]
    BY <1>1, <1>2
  <1>5. QED  BY <1>1, <1>2, <1>3, <1>4 DEF Stripped

LEMMA BasePath ==
    ASSUME NEW n \in Name
    PROVE  <<Root, n>> \in Path
  <1>1. Root \in Token /\ n \in Token
    BY DEF Token
  <1>2. QED  BY <1>1 DEF Path

LEMMA NameNotRoot ==
    ASSUME NEW n \in Name
    PROVE  n # Root /\ n \in Token
  BY LabelCatalogAssumption DEF Token

LEMMA JoinedPath ==
    ASSUME NEW p \in Path, NEW s \in Seq(Token)
    PROVE  p \o s \in Path
  <1>1. PICK u : u = p \o s
    OBVIOUS
  <1>2. p \in Seq(Token) /\ p[1] = Root /\ Len(p) \in Nat /\ Len(p) >= 1 /\ Len(s) \in Nat
    BY PathParts
  <1>3. /\ u \in Seq(Token) /\ Len(u) = Len(p) + Len(s)
        /\ \A i \in 1 .. Len(p) + Len(s) : u[i] = IF i <= Len(p) THEN p[i] ELSE s[i - Len(p)]
    BY <1>1, <1>2, ConcatProperties
  <1>4. u[1] = Root /\ u # <<>>
    <2>1. 1 \in 1 .. Len(p) + Len(s)
      BY <1>2
    <2>2. Len(u) # 0
      BY <1>2, <1>3
    <2>3. QED  BY <1>2, <1>3, <2>1, <2>2
  <1>5. QED  BY <1>1, <1>3, <1>4 DEF Path

LEMMA MergedPathOK ==
    ASSUME NEW p \in Path, NEW q \in Path
    PROVE  /\ MergedPath(p, q) \in Path
           /\ MergedPath(p, q) = p \o Tail(q)
  <1>1. /\ p \in Seq(Token) /\ p # <<>> /\ p[1] = Root
        /\ Stripped(p) = Tail(p) /\ Tail(p) \in Seq(Token)
        /\ Stripped(q) = Tail(q) /\ Tail(q) \in Seq(Token)
    BY PathParts
  <1>2. PICK u : u = <<Root>> \o Tail(p)
    OBVIOUS
  <1>3. u = p
    <2>1. <<Root>> \in Seq(Token) /\ Len(<<Root>>) = 1 /\ <<Root>>[1] = Root
      BY DEF Token
    <2>2. /\ u \in Seq(Token) /\ Len(u) = 1 + Len(Tail(p))
          /\ \A i \in 1 .. 1 + Len(Tail(p)) : u[i] = IF i <= 1 THEN <<Root>>[i] ELSE Tail(p)[i - 1]
      BY <1>1, <1>2, <2>1, ConcatProperties
    <2>3. /\ Len(p) \in Nat /\ Len(p) >= 1 /\ Len(Tail(p)) = Len(p) - 1
          /\ \A i \in 1 .. Len(p) - 1 : Tail(p)[i] = p[i + 1]
      BY PathParts
    <2>4. Len(u) = Len(p)
      BY <2>2, <2>3
    <2>5. ASSUME NEW i \in 1 .. Len(p) PROVE u[i] = p[i]
      <3>1. CASE i = 1
        BY <1>1, <2>1, <2>2, <2>3, <3>1
      <3>2. CASE i # 1
        <4>1. i - 1 \in 1 .. Len(p) - 1 /\ (i - 1) + 1 = i /\ ~(i <= 1) /\ i \in 1 .. 1 + Len(Tail(p))
          BY <2>3, <3>2
        <4>2. u[i] = Tail(p)[i - 1]
          BY <2>2, <4>1
        <4>3. Tail(p)[i - 1] = p[(i - 1) + 1]
          BY <2>3, <4>1
        <4>4. QED  BY <4>1, <4>2, <4>3
      <3>3. QED  BY <3>1, <3>2
    <2>6. QED  BY <1>1, <2>2, <2>4, <2>5, SeqEqual
  <1>4. MergedPath(p, q) = p \o Tail(q)
    BY <1>1, <1>2, <1>3 DEF MergedPath
  <1>5. QED  BY <1>1, <1>4, JoinedPath

LEMMA BelowRootOK ==
    ASSUME NEW p \in Path
    PROVE  BelowRoot(p) \in Seq(Token)
  BY PathParts DEF BelowRoot

LEMMA AppendedPath ==
    ASSUME NEW p \in Path, NEW n \in Name
    PROVE  Append(p, n) \in Path /\ MergedPath(p, <<Root, n>>) = Append(p, n)
  <1>1. p \in Seq(Token) /\ Len(p) \in Nat /\ n \in Token
    BY PathParts, NameNotRoot
  <1>2. <<Root, n>> \in Path
    BY BasePath
  <1>3. Tail(<<Root, n>>) = <<n>>
    OBVIOUS
  <1>4. MergedPath(p, <<Root, n>>) = p \o <<n>>
    BY <1>2, <1>3, MergedPathOK
  <1>5. p \o <<n>> = Append(p, n)
    BY <1>1
  <1>6. <<n>> \in Seq(Token)
    BY <1>1
  <1>7. QED  BY <1>4, <1>5, <1>6, JoinedPath

LEMMA WithoutFirstOK ==
    ASSUME NEW p \in Path, NEW n \in Name
    PROVE  WithoutFirst(p, n) \in Path
  <1>1. p \in Seq(Token) /\ p # <<>> /\ p[1] = Root /\ Len(p) \in Nat /\ Len(p) >= 1 /\ n # Root
    BY PathParts, NameNotRoot
  <1>2. CASE ~\E i \in 1 .. Len(p) : p[i] = n
    BY <1>1, <1>2 DEF WithoutFirst, RemoveFirst, OrRoot
  <1>3. CASE \E i \in 1 .. Len(p) : p[i] = n
    <2> DEFINE I == {i \in 1 .. Len(p) : p[i] = n}
    <2>1. I # {} /\ I \in SUBSET Nat
      BY <1>3
    <2>2. PICK i : i = Min(I)
      OBVIOUS
    <2>3. i \in 1 .. Len(p) /\ p[i] = n
      BY <2>1, <2>2, MinIsIn
    <2>4. i \in 1 .. Len(p) /\ i > 1 /\ 1 \in 1 .. i - 1 /\ Len(p) - 1 > 0
      BY <1>1, <2>3
    <2>5. SelectInSeq(p, LAMBDA v : v = n) = i
      BY <2>1, <2>2 DEF SelectInSeq
    <2>6. RemoveFirst(p, n) = RemoveAt(p, i)
      BY <1>3, <2>5 DEF RemoveFirst
    <2>7. PICK u : u = RemoveAt(p, i)
      OBVIOUS
    <2>8. u \in Seq(Token) /\ Len(u) = Len(p) - 1 /\ u[1] = p[1]
      BY <1>1, <2>4, <2>7, RemovedAt
    <2>9. u # <<>>
      BY <2>4, <2>8
    <2>10. QED  BY <1>1, <2>6, <2>7, <2>8, <2>9 DEF WithoutFirst, OrRoot, Path
  <1>4. QED  BY <1>2, <1>3

LEMMA WithoutAnyOK ==
    ASSUME NEW p \in Path, NEW n \in Name
    PROVE  WithoutAny(p, n) \in Path
  <1>1. p \in Seq(Token) /\ p # <<>> /\ p[1] = Root /\ n # Root
    BY PathParts, NameNotRoot
  <1>2. QED  BY <1>1, WithoutKeeps DEF WithoutAny, Path

LEMMA RenamedOK ==
    ASSUME NEW p \in Path, NEW old \in Name, NEW new \in Name
    PROVE  Renamed(p, old, new) \in Path
  <1>1. p \in Seq(Token) /\ p # <<>> /\ p[1] = Root /\ Len(p) \in Nat /\ Len(p) >= 1 /\ old # Root /\ new \in Token
    BY PathParts, NameNotRoot
  <1>2. PICK u : u = [i \in 1 .. Len(p) |-> IF p[i] = old THEN new ELSE p[i]]
    OBVIOUS
  <1>3. \A i \in 1 .. Len(p) : p[i] \in Token
    BY <1>1, ElementOfSeq
  <1>4. u \in [1 .. Len(p) -> Token]
    BY <1>1, <1>2, <1>3
  <1>5. u \in Seq(Token) /\ Len(u) = Len(p)
    BY <1>1, <1>4, IsASeq
  <1>6. u[1] = Root /\ u # <<>>
    <2>1. 1 \in 1 .. Len(p) /\ Len(u) # 0
      BY <1>1, <1>5
    <2>2. QED  BY <1>1, <1>2, <1>5, <2>1
  <1>7. Renamed(p, old, new) = u
    BY <1>2 DEF Renamed, ReplaceAll
  <1>8. QED  BY <1>5, <1>6, <1>7 DEF Path
-----------------------------------------------------------------------------
(* The calls that make labels.                                               *)

LEMMA RowOfIs ==
    ASSUME NEW c, NEW gone, CatOK(c, gone), NEW k \in Kind, NEW id \in Ids(c, k)
    PROVE  /\ RowOf(c, k, id) \in ToSet(c.rows[k]) /\ RowOf(c, k, id).id = id
           /\ RowOf(c, k, id) \in RowType /\ RowOf(c, k, id).path \in Path /\ RowOf(c, k, id).map \in Map
           /\ \A r \in ToSet(c.rows[k]) : r.id = id => RowOf(c, k, id) = r
  <1>1. \E r \in ToSet(c.rows[k]) : r.id = id
    BY DEF Ids
  <1>2. RowOf(c, k, id) \in ToSet(c.rows[k]) /\ RowOf(c, k, id).id = id
    BY <1>1 DEF RowOf
  <1>3. Listing(c.rows[k], c.last[k])
    BY DEF CatOK
  <1>4. RowOf(c, k, id) \in RowType
    BY <1>2, CatParts DEF CatOK
  <1>5. QED  BY <1>2, <1>3, <1>4 DEF Listing, RowType

LEMMA FirstWithIs ==
    ASSUME NEW c \in Cat, NEW k \in Kind, NEW path, HasPath(c, k, path)
    PROVE  FirstWith(c, k, path) \in ToSet(c.rows[k]) /\ FirstWith(c, k, path).path = path
  <1>1. PICK s : s = c.rows[k]
    OBVIOUS
  <1>2. s \in Seq(RowType) /\ DOMAIN s = 1 .. Len(s)
    BY <1>1, CatParts, LenProperties
  <1> DEFINE I == {i \in 1 .. Len(s) : s[i].path = path}
  <1>3. I # {} /\ I \in SUBSET Nat
    BY <1>1, <1>2 DEF HasPath, ToSet
  <1>4. Min(I) \in I
    BY <1>3, MinIsIn
  <1>5. SelectInSeq(s, LAMBDA r : r.path = path) = Min(I)
    BY <1>3 DEF SelectInSeq
  <1>6. FirstWith(c, k, path) = s[Min(I)]
    BY <1>1, <1>5 DEF FirstWith
  <1>7. QED  BY <1>1, <1>2, <1>4, <1>6 DEF ToSet

\* All labels are still as they were, and there are at most m new ones.
Grew(c, d, gone, m) ==
    /\ CatOK(d, gone)
    /\ \A k \in Kind : d.last[k] \in c.last[k] .. c.last[k] + m /\ ToSet(c.rows[k]) \subseteq ToSet(d.rows[k])

LEMMA LastIs ==
    ASSUME NEW c \in Cat, NEW k \in Kind
    PROVE  c.last[k] \in LabelId /\ c.last[k] \in Nat /\ c.last[k] >= 1 /\ MaxLabel \in Nat
  BY LabelCatalogAssumption, CatParts DEF LabelId

LEMMA GrewSelf ==
    ASSUME NEW c, NEW gone, CatOK(c, gone), NEW m \in Nat
    PROVE  Grew(c, c, gone, m)
  <1>1. ASSUME NEW k \in Kind PROVE c.last[k] \in c.last[k] .. c.last[k] + m
    BY LastIs DEF CatOK
  <1>2. QED  BY <1>1 DEF Grew

LEMMA NamingGrew ==
    ASSUME NEW c, NEW gone, CatOK(c, gone), NEW d \in Naming(c)
    PROVE  Grew(c, d, gone, 0)
  <1>1. CatOK(d, gone) /\ d.rows = c.rows /\ d.last = c.last
    BY NamingKeeps DEF Naming
  <1>2. Grew(c, c, gone, 0)
    BY GrewSelf
  <1>3. QED  BY <1>1, <1>2 DEF Grew

LEMMA MadeGrew ==
    ASSUME NEW c, NEW gone, CatOK(c, gone), NEW k \in Kind, NEW d, CatOK(d, gone),
           NEW path, NEW map, Made(c, d, k, path, map)
    PROVE  /\ Grew(c, d, gone, 1) /\ HasPath(d, k, path) /\ d.last[k] \in Ids(d, k)
           /\ \E q \in ToSet(d.rows[k]) :
                /\ q.id = d.last[k] /\ q.path = path /\ q.map = map /\ q.primary
                /\ ToSet(d.rows[k]) = ToSet(c.rows[k]) \cup {q}
  <1>1. PICK q \in RowType : /\ Adds(c, d, k, q) /\ d.last[k] = q.id
                             /\ q.path = path /\ q.map = map /\ q.primary
    BY DEF Made
  <1>2. /\ ToSet(d.rows[k]) = ToSet(c.rows[k]) \cup {q}
        /\ \A j \in Kind \ {k} : d.rows[j] = c.rows[j]
        /\ d.last = [c.last EXCEPT ![k] = @ + 1]
    BY <1>1 DEF Adds
  <1>3. ASSUME NEW j \in Kind
        PROVE  d.last[j] \in c.last[j] .. c.last[j] + 1 /\ ToSet(c.rows[j]) \subseteq ToSet(d.rows[j])
    <2>1. c.last \in [Kind -> LabelId] /\ c.last[j] \in Nat
      BY CatParts, LastIs DEF CatOK
    <2>2. d.last[j] = c.last[j] \/ d.last[j] = c.last[j] + 1
      BY <1>2, <2>1
    <2>3. QED  BY <1>2, <2>1, <2>2
  <1>4. QED  BY <1>1, <1>2, <1>3 DEF Grew, HasPath, Ids

LEMMA GrewTwice ==
    ASSUME NEW c, NEW gone, CatOK(c, gone), NEW l \in Nat, NEW m \in Nat, NEW d, NEW e,
           Grew(c, d, gone, l), Grew(d, e, gone, m)
    PROVE  Grew(c, e, gone, l + m)
  <1>1. CatOK(e, gone) /\ CatOK(d, gone)
    BY DEF Grew
  <1>2. ASSUME NEW k \in Kind
        PROVE  e.last[k] \in c.last[k] .. c.last[k] + (l + m) /\ ToSet(c.rows[k]) \subseteq ToSet(e.rows[k])
    <2>1. c.last[k] \in Nat /\ d.last[k] \in Nat /\ e.last[k] \in Nat
      BY <1>1, LastIs DEF CatOK
    <2>2. d.last[k] \in c.last[k] .. c.last[k] + l /\ e.last[k] \in d.last[k] .. d.last[k] + m
      BY DEF Grew
    <2>3. e.last[k] \in c.last[k] .. c.last[k] + (l + m)
      BY <2>1, <2>2
    <2>4. QED  BY <2>3 DEF Grew
  <1>3. QED  BY <1>1, <1>2 DEF Grew

\* There are ids for m more labels.
Room(c, m) == \A k \in Kind : c.last[k] + m <= MaxLabel + 2

LEMMA RoomFor ==
    ASSUME NEW c \in Cat, NEW m \in Nat, m >= 1, Room(c, m), NEW k \in Kind
    PROVE  c.last[k] + 1 \in LabelId
  BY LastIs DEF Room, LabelId

LEMMA RoomAfter ==
    ASSUME NEW c \in Cat, NEW gone, Room(c, 2), NEW d, Grew(c, d, gone, 1)
    PROVE  Room(d, 1)
  <1>1. SUFFICES ASSUME NEW k \in Kind PROVE d.last[k] + 1 <= MaxLabel + 2
    BY DEF Room
  <1>2. d.last[k] \in c.last[k] .. c.last[k] + 1 /\ c.last[k] + 2 <= MaxLabel + 2
    BY DEF Grew, Room
  <1>3. c.last[k] \in Nat /\ MaxLabel \in Nat
    BY LastIs
  <1>4. QED  BY <1>2, <1>3

LEMMA GivenIs ==
    ASSUME NEW map \in GivenMap
    PROVE  map \in Map
  BY LabelCatalogAssumption DEF Map

LEMMA CreateVertexOK ==
    ASSUME NEW c, NEW gone, CatOK(c, gone), Room(c, 1), NEW n \in Name, NEW map \in Map
    PROVE  LET d == CreateVertex(c, n, map)
           IN  /\ CatOK(d, gone)
               /\ \E e \in Naming(c) : Made(e, d, "vertex", <<Root, n>>, map)
  <1>0. n \in Name /\ map \in Map /\ c \in Cat /\ "vertex" \in Kind
    BY KindsAre DEF CatOK
  <1>1. PICK b, m, e, d : /\ b = Register(c, n, "s") /\ m = (IF map = NoMap THEN <<>> ELSE map)
                          /\ e = RegisterFold(b, m) /\ d = CreateVertex(c, n, map)
    OBVIOUS
  <1>2. m \in Seq(Annotation)
    BY <1>0, <1>1 DEF Map
  <1>3. b \in Naming(c)
    BY <1>0, <1>1, NamingSelf, RegisterOK
  <1>4. e \in Naming(c)
    <2>1. PICK G, h : Ran(Naming(c), b, m, G, h, RegisterFold(b, m))
      BY <1>0, <1>2, <1>3, RegisterRuns
    <2>2. Len(m) \in 0 .. Len(m)
      BY <1>2
    <2>3. QED  BY <1>1, <2>1, <2>2 DEF Ran, Runs
  <1>5. d = VertexLabel(e, <<Root, n>>, map)
    BY <1>1 DEF CreateVertex, RegisterFold
  <1>6. CatOK(e, gone) /\ e.last = c.last
    BY <1>4, NamingKeeps DEF Naming
  <1>7. e.last["vertex"] + 1 \in LabelId
    BY <1>0, <1>6, RoomFor
  <1>8. <<Root, n>> \in Path
    BY <1>0, BasePath
  <1>9. CatOK(d, gone) /\ Made(e, d, "vertex", <<Root, n>>, map)
    BY <1>0, <1>5, <1>6, <1>7, <1>8, VertexLabelOK
  <1>10. QED  BY <1>1, <1>4, <1>9

LEMMA CreateEdgeOK ==
    ASSUME NEW c, NEW gone, CatOK(c, gone), Room(c, 1), NEW n \in Name, NEW map \in Map
    PROVE  CatOK(CreateEdge(c, n, map), gone) /\ Made(c, CreateEdge(c, n, map), "edge", <<Root, n>>, map)
  <1>1. n \in Name /\ map \in Map /\ c \in Cat /\ "edge" \in Kind /\ <<Root, n>> \in Path
    BY KindsAre, BasePath DEF CatOK
  <1>2. c.last["edge"] + 1 \in LabelId
    BY <1>1, RoomFor
  <1>3. (NamesOf(map) # {}) \in BOOLEAN /\ (NamesOf(map) # {} => NamesOf(map) # {})
    OBVIOUS
  <1>4. QED  BY <1>1, <1>2, <1>3, EdgeLabelOK DEF CreateEdge

LEMMA MergeVertexOK ==
    ASSUME NEW c, NEW gone, CatOK(c, gone), Room(c, 1), NEW i \in Ids(c, "vertex"), NEW j \in Ids(c, "vertex")
    PROVE  LET d == MergeVertex(c, i, j)
               p == RowOf(c, "vertex", i)
               q == RowOf(c, "vertex", j)
           IN  CatOK(d, gone) /\ Made(c, d, "vertex", MergedPath(p.path, q.path), MapUnion(p.map, q.map))
  <1>1. PICK p, q : p = RowOf(c, "vertex", i) /\ q = RowOf(c, "vertex", j)
    OBVIOUS
  <1>2. i \in Ids(c, "vertex") /\ j \in Ids(c, "vertex") /\ "vertex" \in Kind /\ c \in Cat
    BY KindsAre DEF CatOK
  <1>3. p.path \in Path /\ p.map \in Map /\ q.path \in Path /\ q.map \in Map
    BY <1>1, <1>2, RowOfIs
  <1>4. PICK path, map : path = MergedPath(p.path, q.path) /\ map = MapUnion(p.map, q.map)
    OBVIOUS
  <1>5. path \in Path /\ map \in Map
    BY <1>3, <1>4, MergedPathOK, MapUnionOK
  <1>6. c.last["vertex"] + 1 \in LabelId
    BY <1>2, RoomFor
  <1>7. CatOK(VertexLabel(c, path, map), gone) /\ Made(c, VertexLabel(c, path, map), "vertex", path, map)
    BY <1>5, <1>6, VertexLabelOK
  <1>8. MergeVertex(c, i, j) = VertexLabel(c, path, map)
    BY <1>1, <1>4 DEF MergeVertex
  <1>9. QED  BY <1>1, <1>4, <1>7, <1>8

LEMMA EdgeWithMap ==
    ASSUME NEW c, NEW gone, CatOK(c, gone), Room(c, 1), NEW path \in Path, NEW map \in Map
    PROVE  LET d == EdgeLabel(c, path, map, map # NoMap)
           IN  CatOK(d, gone) /\ Made(c, d, "edge", path, map)
  <1>1. path \in Path /\ map \in Map /\ c \in Cat /\ "edge" \in Kind
    BY KindsAre DEF CatOK
  <1>2. c.last["edge"] + 1 \in LabelId
    BY <1>1, RoomFor
  <1>3. (map # NoMap) \in BOOLEAN /\ (NamesOf(map) # {} => map # NoMap)
    BY DEF NamesOf
  <1>4. QED  BY <1>1, <1>2, <1>3, EdgeLabelOK

LEMMA MergeEdgeOK ==
    ASSUME NEW c, NEW gone, CatOK(c, gone), Room(c, 1), NEW i, NEW j \in Ids(c, "edge")
    PROVE  Grew(c, MergeEdge(c, i, j), gone, 1)
  <1>1. PICK b : b = RowOf(c, "edge", j)
    OBVIOUS
  <1>2. j \in Ids(c, "edge") /\ "edge" \in Kind
    BY KindsAre
  <1>3. b.path \in Path /\ b.map \in Map
    BY <1>1, <1>2, RowOfIs
  <1>4. PICK path, map : path = b.path \o BelowRoot(b.path) /\ map = MapUnion(b.map, b.map)
    OBVIOUS
  <1>5. path \in Path /\ map \in Map
    BY <1>3, <1>4, JoinedPath, BelowRootOK, MapUnionOK
  <1>6. PICK d : d = EdgeLabel(c, path, map, map # NoMap)
    OBVIOUS
  <1>7. CatOK(d, gone) /\ Made(c, d, "edge", path, map)
    BY <1>5, <1>6, EdgeWithMap
  <1>8. MergeEdge(c, i, j) = d
    BY <1>1, <1>4, <1>6 DEF MergeEdge
  <1>9. QED  BY <1>2, <1>7, <1>8, MadeGrew
-----------------------------------------------------------------------------
(* The calls that work on labels.                                            *)

\* All labels are still there, with maps that have at most grown if grows.
Kept(c, d, gone, grows) ==
    /\ CatOK(d, gone)
    /\ \A k \in Kind : c.last[k] <= d.last[k]
    /\ \A k \in Kind : \A r \in ToSet(c.rows[k]) :
          \E q \in ToSet(d.rows[k]) : q.id = r.id /\ (grows => Longer(c, k, r, q, gone))

LEMMA LongerSelf ==
    ASSUME NEW c, NEW gone, CatOK(c, gone), NEW k \in Kind, NEW r \in ToSet(c.rows[k])
    PROVE  Longer(c, k, r, r, gone)
  <1>1. r \in RowType /\ r.map \in Map
    BY CatParts DEF CatOK, RowType
  <1>2. QED  BY <1>1, PrefixSelf DEF Longer, Map

LEMMA GrewKept ==
    ASSUME NEW c, NEW gone, CatOK(c, gone), NEW m \in Nat, NEW d, Grew(c, d, gone, m), NEW grows
    PROVE  Kept(c, d, gone, grows)
  <1>1. CatOK(d, gone)
    BY DEF Grew
  <1>2. ASSUME NEW k \in Kind PROVE c.last[k] <= d.last[k]
    BY LastIs DEF Grew, CatOK
  <1>3. ASSUME NEW k \in Kind, NEW r \in ToSet(c.rows[k])
        PROVE  \E q \in ToSet(d.rows[k]) : q.id = r.id /\ (grows => Longer(c, k, r, q, gone))
    <2>1. r \in ToSet(d.rows[k])
      BY DEF Grew
    <2>2. Longer(c, k, r, r, gone)
      BY LongerSelf
    <2>3. QED  BY <2>1, <2>2
  <1>4. QED  BY <1>1, <1>2, <1>3 DEF Kept

LEMMA UnderKept ==
    ASSUME NEW c, NEW gone, CatOK(c, gone), NEW k \in Kind, NEW i, NEW d, NEW grows,
           Under(c, d, k, i, gone, grows)
    PROVE  Kept(c, d, gone, grows)
  <1>1. /\ CatOK(d, gone) /\ d.last = c.last
        /\ \A j \in Kind \ {k} : d.rows[j] = c.rows[j]
        /\ \A m \in 1 .. Len(c.rows[k]) :
              \E q \in ToSet(d.rows[k]) : Follows(c, k, c.rows[k][m], q, m > i, gone, grows)
    BY DEF Under
  <1>2. ASSUME NEW j \in Kind PROVE c.last[j] <= d.last[j]
    BY <1>1, LastIs DEF CatOK
  <1>3. ASSUME NEW j \in Kind, NEW r \in ToSet(c.rows[j])
        PROVE  \E q \in ToSet(d.rows[j]) : q.id = r.id /\ (grows => Longer(c, j, r, q, gone))
    <2>1. CASE j = k
      <3>1. PICK m \in 1 .. Len(c.rows[k]) : c.rows[k][m] = r
        BY <2>1, RowsAre
      <3>2. PICK q \in ToSet(d.rows[k]) : Follows(c, k, r, q, m > i, gone, grows)
        BY <1>1, <3>1
      <3>3. QED  BY <2>1, <3>2 DEF Follows
    <2>2. CASE j # k
      <3>1. r \in ToSet(d.rows[j]) /\ Longer(c, j, r, r, gone)
        BY <1>1, <2>2, LongerSelf
      <3>2. QED  BY <3>1
    <2>3. QED  BY <2>1, <2>2
  <1>4. QED  BY <1>1, <1>2, <1>3 DEF Kept

LEMMA KeptNaming ==
    ASSUME NEW c, NEW gone, CatOK(c, gone), NEW d, NEW grows, Kept(c, d, gone, grows), NEW e \in Naming(d)
    PROVE  Kept(c, e, gone, grows)
  <1>1. CatOK(e, gone) /\ e.rows = d.rows /\ e.last = d.last
    BY NamingKeeps DEF Kept, Naming
  <1>2. QED  BY <1>1 DEF Kept

\* First below a vertex label, then below an edge label.
LEMMA UnderBoth ==
    ASSUME NEW c, NEW gone, CatOK(c, gone), NEW grows, NEW i, NEW j, NEW d, NEW e,
           Under(c, d, "vertex", i, gone, grows), Under(d, e, "edge", j, gone, grows)
    PROVE  Kept(c, e, gone, grows)
  <1>1. CatOK(d, gone) /\ SameIds(c, d) /\ d.rows["edge"] = c.rows["edge"] /\ d.last = c.last
    BY KindsAre DEF Under, Kind
  <1>2. e.rows["vertex"] = d.rows["vertex"] /\ e.last = d.last /\ CatOK(e, gone)
    BY KindsAre DEF Under, Kind
  <1>3. Kept(c, d, gone, grows) /\ Kept(d, e, gone, grows)
    BY <1>1, KindsAre, UnderKept
  <1>4. ASSUME NEW k \in Kind, NEW r \in ToSet(c.rows[k])
        PROVE  \E q \in ToSet(e.rows[k]) : q.id = r.id /\ (grows => Longer(c, k, r, q, gone))
    <2>1. CASE k = "vertex"
      BY <1>2, <1>3, <2>1 DEF Kept
    <2>2. CASE k = "edge"
      <3>1. PICK q \in ToSet(e.rows[k]) : q.id = r.id /\ (grows => Longer(d, k, r, q, gone))
        BY <1>1, <1>3, <2>2 DEF Kept
      <3>2. IsAlone(c, k, r.id) <=> IsAlone(d, k, r.id)
        BY <1>1, SameIdsAlone
      <3>3. grows => Longer(c, k, r, q, gone)
        BY <3>1, <3>2 DEF Longer
      <3>4. QED  BY <3>1, <3>3
    <2>3. QED  BY <2>1, <2>2 DEF Kind
  <1>5. \A k \in Kind : c.last[k] <= e.last[k]
    BY <1>1, <1>2, LastIs DEF CatOK
  <1>6. QED  BY <1>2, <1>4, <1>5 DEF Kept

LEMMA AddEverywhereOK ==
    ASSUME NEW c, NEW gone, CatOK(c, gone), NEW p, NEW x \in Annotation
    PROVE  Kept(c, AddEverywhere(c, p, x), gone, TRUE) /\ AddEverywhere(c, p, x).last = c.last
  <1>1. x \in Annotation /\ "vertex" \in Kind /\ "edge" \in Kind
    BY KindsAre
  <1>2. PICK d, e : d = AddUnder(c, "vertex", p, x) /\ e = AddUnder(d, "edge", p, x)
    OBVIOUS
  <1>3. Under(c, d, "vertex", Len(c.rows["vertex"]), gone, TRUE)
    BY <1>1, <1>2, AddUnderOK
  <1>4. CatOK(d, gone)
    BY <1>3 DEF Under
  <1>5. Under(d, e, "edge", Len(d.rows["edge"]), gone, TRUE)
    BY <1>1, <1>2, <1>4, AddUnderOK
  <1>6. Kept(c, e, gone, TRUE)
    BY <1>3, <1>5, UnderBoth
  <1>7. e.last = d.last /\ d.last = c.last
    BY <1>3, <1>5, KindsAre DEF Under
  <1>8. QED  BY <1>2, <1>6, <1>7 DEF AddEverywhere

LEMMA AddAnnotationOK ==
    ASSUME NEW c, NEW gone, CatOK(c, gone), NEW p, NEW x \in Annotation
    PROVE  Kept(c, AddAnnotationTo(c, p, x), gone, TRUE)
  <1>1. x \in Annotation
    OBVIOUS
  <1>2. PICK e, f : e = AddEverywhere(c, p, x) /\ f = Register(e, x, "a")
    OBVIOUS
  <1>3. Kept(c, e, gone, TRUE) /\ e \in Cat
    BY <1>1, <1>2, AddEverywhereOK DEF Kept, CatOK
  <1>4. f \in Naming(e)
    BY <1>1, <1>2, <1>3, NamingSelf, RegisterOK
  <1>5. QED  BY <1>2, <1>3, <1>4, KeptNaming DEF AddAnnotationTo

LEMMA DropAnnotationOK ==
    ASSUME NEW c, NEW gone, CatOK(c, gone), NEW p, NEW x
    PROVE  Kept(c, DropAnnotationFrom(c, p, x), gone, FALSE)
  <1>1. "vertex" \in Kind /\ "edge" \in Kind
    BY KindsAre
  <1>2. PICK d, e, f : /\ d = DropUnder(c, "vertex", p, x) /\ e = DropUnder(d, "edge", p, x)
                       /\ f = Unregister(e, x, "a")
    OBVIOUS
  <1>3. Under(c, d, "vertex", Len(c.rows["vertex"]), gone, FALSE)
    BY <1>1, <1>2, DropUnderOK
  <1>4. CatOK(d, gone)
    BY <1>3 DEF Under
  <1>5. Under(d, e, "edge", Len(d.rows["edge"]), gone, FALSE)
    BY <1>1, <1>2, <1>4, DropUnderOK
  <1>6. Kept(c, e, gone, FALSE) /\ e \in Cat
    BY <1>3, <1>5, UnderBoth DEF Under, CatOK
  <1>7. f \in Naming(e)
    BY <1>2, <1>6, NamingSelf, UnregisterOK
  <1>8. QED  BY <1>2, <1>6, <1>7, KeptNaming DEF DropAnnotationFrom

LEMMA DropTokenOK ==
    ASSUME NEW c, NEW gone, CatOK(c, gone), NEW k \in Kind, NEW t \in Name
    PROVE  Kept(c, DropToken(c, k, t), gone, TRUE)
  <1>1. t \in Name /\ k \in Kind /\ c \in Cat
    BY DEF CatOK
  <1>2. PICK new : new = [r \in ToSet(c.rows[k]) |->
                            [r EXCEPT !.path = WithoutFirst(@, t),
                                      !.primary = @ /\ ~DropsLast(r.path, t)]]
    OBVIOUS
  <1>3. Versions(c.rows[k], new)
    <2>1. SUFFICES ASSUME NEW r \in ToSet(c.rows[k])
                   PROVE  /\ new[r] \in RowType /\ new[r].id = r.id
                          /\ new[r].map = r.map /\ new[r].bits = r.bits
      BY DEF Versions
    <2>2. r \in RowType /\ WithoutFirst(r.path, t) \in Path
      BY <1>1, CatParts, WithoutFirstOK DEF RowType
    <2>3. (r.primary /\ ~DropsLast(r.path, t)) \in BOOLEAN
      OBVIOUS
    <2>4. new[r] = [r EXCEPT !.path = WithoutFirst(@, t), !.primary = @ /\ ~DropsLast(r.path, t)]
      BY <1>2
    <2>5. QED  BY <2>2, <2>3, <2>4 DEF RowType
  <1>4. PICK d : d = [c EXCEPT !.rows[k] = Rewritten(@, t, new)]
    OBVIOUS
  <1>5. Under(c, d, k, Len(c.rows[k]), gone, TRUE)
    BY <1>1, <1>3, <1>4, RewrittenOK
  <1>6. Kept(c, d, gone, TRUE) /\ d \in Cat
    BY <1>1, <1>5, UnderKept DEF Under, CatOK
  <1>7. Unregister(d, t, "s") \in Naming(d)
    BY <1>6, NamingSelf, UnregisterOK
  <1>8. DropToken(c, k, t) = Unregister(d, t, "s")
    BY <1>2, <1>4 DEF DropToken
  <1>9. QED  BY <1>6, <1>7, <1>8, KeptNaming

LEMMA RenameTokenOK ==
    ASSUME NEW c, NEW gone, CatOK(c, gone), NEW k \in Kind, NEW old \in Name, NEW n \in Name
    PROVE  Kept(c, RenameToken(c, k, old, n), gone, TRUE)
  <1>1. old \in Name /\ n \in Name /\ k \in Kind /\ c \in Cat
    BY DEF CatOK
  <1>2. PICK new : new = [r \in ToSet(c.rows[k]) |-> [r EXCEPT !.path = Renamed(@, old, n)]]
    OBVIOUS
  <1>3. Versions(c.rows[k], new)
    <2>1. SUFFICES ASSUME NEW r \in ToSet(c.rows[k])
                   PROVE  /\ new[r] \in RowType /\ new[r].id = r.id
                          /\ new[r].map = r.map /\ new[r].bits = r.bits
      BY DEF Versions
    <2>2. r \in RowType /\ Renamed(r.path, old, n) \in Path
      BY <1>1, CatParts, RenamedOK DEF RowType
    <2>3. new[r] = [r EXCEPT !.path = Renamed(@, old, n)]
      BY <1>2
    <2>4. QED  BY <2>2, <2>3 DEF RowType
  <1>4. PICK d : d = [c EXCEPT !.rows[k] = Rewritten(@, old, new)]
    OBVIOUS
  <1>5. Under(c, d, k, Len(c.rows[k]), gone, TRUE)
    BY <1>1, <1>3, <1>4, RewrittenOK
  <1>6. Kept(c, d, gone, TRUE) /\ d \in Cat
    BY <1>1, <1>5, UnderKept DEF Under, CatOK
  <1>7. RenameName(d, old, n) \in Naming(d)
    BY <1>1, <1>6, NamingSelf, RenameNameOK
  <1>8. RenameToken(c, k, old, n) = RenameName(d, old, n)
    BY <1>2, <1>4 DEF RenameToken
  <1>9. QED  BY <1>6, <1>7, <1>8, KeptNaming
-----------------------------------------------------------------------------
(* The labels a migration moves to.                                          *)

\* Every label is one that was there, or primary.
NewPrimary(c, d, k) == \A r \in ToSet(d.rows[k]) : r \in ToSet(c.rows[k]) \/ r.primary

LEMMA WithBaseOK ==
    ASSUME NEW c, NEW gone, CatOK(c, gone), Room(c, 1), NEW k \in Kind, NEW n \in Name
    PROVE  LET d == WithBase(c, k, n)
           IN  Grew(c, d, gone, 1) /\ HasPath(d, k, <<Root, n>>) /\ NewPrimary(c, d, k)
  <1>1. k \in Kind /\ n \in Name /\ c \in Cat /\ 1 \in Nat /\ NoMap \in Map
    BY DEF CatOK, Map
  <1>2. PICK d : d = WithBase(c, k, n)
    OBVIOUS
  <1>3. CASE HasPath(c, k, <<Root, n>>)
    <2>1. d = c
      BY <1>2, <1>3 DEF WithBase
    <2>2. Grew(c, c, gone, 1)
      BY <1>1, GrewSelf
    <2>3. NewPrimary(c, c, k)
      BY DEF NewPrimary
    <2>4. QED  BY <1>2, <1>3, <2>1, <2>2, <2>3
  <1>4. CASE ~HasPath(c, k, <<Root, n>>) /\ k = "vertex"
    <2>1. d = CreateVertex(c, n, NoMap)
      BY <1>2, <1>4 DEF WithBase
    <2>2. CatOK(d, gone)
      BY <1>1, <2>1, CreateVertexOK
    <2>3. PICK e \in Naming(c) : Made(e, d, k, <<Root, n>>, NoMap)
      BY <1>1, <1>4, <2>1, CreateVertexOK
    <2>4. Grew(c, e, gone, 0) /\ CatOK(e, gone) /\ e.rows = c.rows
      BY <2>3, NamingGrew DEF Grew, Naming
    <2>5. /\ Grew(e, d, gone, 1) /\ HasPath(d, k, <<Root, n>>)
          /\ \E q \in ToSet(d.rows[k]) : q.primary /\ ToSet(d.rows[k]) = ToSet(e.rows[k]) \cup {q}
      BY <1>1, <2>2, <2>3, <2>4, MadeGrew
    <2>6. Grew(c, d, gone, 0 + 1)
      BY <2>4, <2>5, GrewTwice
    <2>7. NewPrimary(c, d, k)
      BY <2>4, <2>5 DEF NewPrimary
    <2>8. QED  BY <1>2, <2>5, <2>6, <2>7
  <1>5. CASE ~HasPath(c, k, <<Root, n>>) /\ k = "edge"
    <2>1. d = CreateEdge(c, n, NoMap)
      BY <1>2, <1>5 DEF WithBase
    <2>2. CatOK(d, gone) /\ Made(c, d, k, <<Root, n>>, NoMap)
      BY <1>1, <1>5, <2>1, CreateEdgeOK
    <2>3. /\ Grew(c, d, gone, 1) /\ HasPath(d, k, <<Root, n>>)
          /\ \E q \in ToSet(d.rows[k]) : q.primary /\ ToSet(d.rows[k]) = ToSet(c.rows[k]) \cup {q}
      BY <1>1, <2>2, MadeGrew
    <2>4. NewPrimary(c, d, k)
      BY <2>3 DEF NewPrimary
    <2>5. QED  BY <1>2, <2>3, <2>4
  <1>6. QED  BY <1>3, <1>4, <1>5 DEF Kind

\* What is asked of the answer: the label is there under the path.
Answers(c, d, k, id, path) ==
    /\ id \in Ids(d, k) /\ RowOf(d, k, id).path = path
    /\ RowOf(d, k, id) \in ToSet(c.rows[k]) \/ RowOf(d, k, id).primary

LEMMA FoundOK ==
    ASSUME NEW c, NEW d, NEW gone, CatOK(d, gone), NEW k \in Kind, NEW path, HasPath(d, k, path), NewPrimary(c, d, k)
    PROVE  Found(d, k, path).cat = d /\ Answers(c, d, k, Found(d, k, path).id, path)
  <1>1. PICK f : f = FirstWith(d, k, path)
    OBVIOUS
  <1>2. f \in ToSet(d.rows[k]) /\ f.path = path
    BY <1>1, FirstWithIs DEF CatOK
  <1>3. f.id \in Ids(d, k)
    BY <1>2 DEF Ids
  <1>4. RowOf(d, k, f.id) = f
    BY <1>2, <1>3, RowOfIs
  <1>5. Found(d, k, path).cat = d /\ Found(d, k, path).id = f.id
    BY <1>1 DEF Found, Answer
  <1>6. QED  BY <1>2, <1>3, <1>4, <1>5 DEF Answers, NewPrimary

LEMMA MergedForOK ==
    ASSUME NEW c, NEW gone, CatOK(c, gone), Room(c, 1), NEW k \in Kind, NEW current \in Ids(c, k), NEW n \in Name,
           HasPath(c, k, <<Root, n>>)
    PROVE  LET path == Append(RowOf(c, k, current).path, n)
               d == MergedFor(c, k, current, FirstWith(c, k, <<Root, n>>).id, path)
           IN  Grew(c, d, gone, 1) /\ HasPath(d, k, path) /\ NewPrimary(c, d, k)
  <1>1. k \in Kind /\ current \in Ids(c, k) /\ n \in Name /\ c \in Cat
    BY DEF CatOK
  <1>2. PICK p, base, path, d : /\ p = RowOf(c, k, current) /\ base = FirstWith(c, k, <<Root, n>>)
                                /\ path = Append(p.path, n) /\ d = MergedFor(c, k, current, base.id, path)
    OBVIOUS
  <1>3. p.path \in Path /\ p.map \in Map
    BY <1>1, <1>2, RowOfIs
  <1>4. base \in ToSet(c.rows[k]) /\ base.path = <<Root, n>>
    BY <1>1, <1>2, FirstWithIs
  <1>5. base.id \in Ids(c, k)
    BY <1>4 DEF Ids
  <1>6. RowOf(c, k, base.id) = base /\ base.map \in Map
    BY <1>4, <1>5, RowOfIs
  <1>7. path \in Path /\ MergedPath(p.path, <<Root, n>>) = path
    BY <1>1, <1>2, <1>3, AppendedPath
  <1>8. CatOK(d, gone) /\ \E map : Made(c, d, k, path, map)
    <2>1. CASE k = "vertex"
      <3>1. d = MergeVertex(c, current, base.id)
        BY <1>2, <2>1 DEF MergedFor
      <3>2. /\ CatOK(d, gone)
            /\ Made(c, d, k, MergedPath(p.path, base.path), MapUnion(p.map, base.map))
        BY <1>1, <1>2, <1>5, <1>6, <2>1, <3>1, MergeVertexOK
      <3>3. QED  BY <1>4, <1>7, <3>2
    <2>2. CASE k = "edge"
      <3>1. PICK map : map = MapUnion(base.map, base.map)
        OBVIOUS
      <3>2. map \in Map
        BY <1>6, <3>1, MapUnionOK
      <3>3. d = EdgeLabel(c, path, map, map # NoMap)
        BY <1>2, <1>6, <2>2, <3>1 DEF MergedFor
      <3>4. CatOK(d, gone) /\ Made(c, d, k, path, map)
        BY <1>7, <2>2, <3>2, <3>3, EdgeWithMap
      <3>5. QED  BY <3>4
    <2>3. QED  BY <2>1, <2>2 DEF Kind
  <1>9. /\ Grew(c, d, gone, 1) /\ HasPath(d, k, path)
        /\ \E q \in ToSet(d.rows[k]) : q.primary /\ ToSet(d.rows[k]) = ToSet(c.rows[k]) \cup {q}
    <2>1. PICK map : Made(c, d, k, path, map)
      BY <1>8
    <2>2. QED  BY <1>1, <1>8, <2>1, MadeGrew
  <1>10. NewPrimary(c, d, k)
    BY <1>9 DEF NewPrimary
  <1>11. QED  BY <1>2, <1>9, <1>10

Target(path, n) == IF Contains(path, n) THEN path ELSE Append(path, n)

LEMMA AppendedOne ==
    ASSUME NEW a, NEW b
    PROVE  Append(<<a>>, b) = <<a, b>>
  <1>1. PICK s, u, v : s = <<a>> /\ u = Append(s, b) /\ v = <<a, b>>
    OBVIOUS
  <1>2. s \in Seq({a, b}) /\ Len(s) = 1 /\ s[1] = a
    BY <1>1
  <1>3. u \in Seq({a, b}) /\ Len(u) = 2 /\ u[1] = a /\ u[2] = b
    <2>1. /\ u \in Seq({a, b}) /\ Len(u) = Len(s) + 1 /\ u[Len(s) + 1] = b
          /\ \A i \in 1 .. Len(s) : u[i] = s[i]
      BY <1>1, <1>2, AppendProperties
    <2>2. Len(s) + 1 = 2 /\ 1 \in 1 .. Len(s)
      BY <1>2
    <2>3. QED  BY <1>2, <2>1, <2>2
  <1>4. v \in Seq({a, b}) /\ Len(v) = 2 /\ v[1] = a /\ v[2] = b
    BY <1>1
  <1>5. \A i \in 1 .. 2 : i = 1 \/ i = 2
    OBVIOUS
  <1>6. \A i \in 1 .. Len(u) : u[i] = v[i]
    BY <1>3, <1>4, <1>5
  <1>7. u = v
    BY <1>3, <1>4, <1>6, SeqEqual
  <1>8. QED  BY <1>1, <1>7

LEMMA ResolveOK ==
    ASSUME NEW c, NEW gone, CatOK(c, gone), Room(c, 2), NEW k \in Kind, NEW current \in Ids(c, k), NEW n \in Name
    PROVE  LET a == Resolve(c, k, current, n)
           IN  /\ Grew(c, a.cat, gone, 2)
               /\ Answers(c, a.cat, k, a.id, Target(RowOf(c, k, current).path, n))
  <1>1. k \in Kind /\ current \in Ids(c, k) /\ n \in Name /\ c \in Cat /\ n # Root
    BY NameNotRoot DEF CatOK
  <1>2. PICK row, path, based, target, a :
          /\ row = RowOf(c, k, current) /\ path = row.path /\ based = WithBase(c, k, n)
          /\ target = (IF path = <<Root>> THEN <<Root, n>> ELSE Append(path, n))
          /\ a = Resolve(c, k, current, n)
    OBVIOUS
  <1>3. row \in ToSet(c.rows[k]) /\ row.id = current /\ path \in Path
    BY <1>1, <1>2, RowOfIs
  <1>4. Room(c, 1)
    <2>1. \A j \in Kind : c.last[j] \in Nat /\ MaxLabel \in Nat
      BY <1>1, LastIs
    <2>2. QED  BY <2>1 DEF Room
  <1>5. Grew(c, based, gone, 1) /\ HasPath(based, k, <<Root, n>>) /\ NewPrimary(c, based, k)
    BY <1>1, <1>2, <1>4, WithBaseOK
  <1>6. CatOK(based, gone) /\ Room(based, 1) /\ row \in ToSet(based.rows[k])
    BY <1>1, <1>3, <1>5, RoomAfter DEF Grew
  <1>7. current \in Ids(based, k)
    BY <1>3, <1>6 DEF Ids
  <1>8. RowOf(based, k, current) = row
    BY <1>3, <1>6, <1>7, RowOfIs
  <1>9. Grew(based, based, gone, 1)
    BY <1>6, GrewSelf
  <1>10. Append(path, n) = target
    <2>1. path = <<Root>> => Append(path, n) = <<Root, n>>
      BY <1>1, AppendedOne
    <2>2. QED  BY <1>2, <2>1
  <1>11. path = <<Root>> => ~Contains(path, n)
    BY <1>1 DEF Contains
  <1>12. CASE Contains(path, n)
    <2>1. a.cat = based /\ a.id = current
      BY <1>2, <1>11, <1>12 DEF Resolve, Answer
    <2>2. Answers(c, based, k, current, path)
      BY <1>2, <1>3, <1>7, <1>8 DEF Answers
    <2>3. Grew(c, based, gone, 1 + 1)
      BY <1>5, <1>9, GrewTwice
    <2>4. QED  BY <1>2, <1>12, <2>1, <2>2, <2>3 DEF Target
  <1>13. CASE ~Contains(path, n) /\ HasPath(based, k, target)
    <2>1. a = Found(based, k, target)
      BY <1>2, <1>13 DEF Resolve
    <2>2. a.cat = based /\ Answers(c, based, k, a.id, target)
      BY <1>5, <1>6, <1>13, <2>1, FoundOK
    <2>3. Grew(c, based, gone, 1 + 1)
      BY <1>5, <1>9, GrewTwice
    <2>4. QED  BY <1>2, <1>10, <1>13, <2>2, <2>3 DEF Target
  <1>14. CASE ~Contains(path, n) /\ ~HasPath(based, k, target)
    <2>1. PICK d : d = MergedFor(based, k, current, FirstWith(based, k, <<Root, n>>).id, target)
      OBVIOUS
    <2>2. a = Found(d, k, target)
      BY <1>2, <1>14, <2>1 DEF Resolve
    <2>3. Grew(based, d, gone, 1) /\ HasPath(d, k, target) /\ NewPrimary(based, d, k)
      BY <1>1, <1>2, <1>5, <1>6, <1>7, <1>8, <1>10, <2>1, MergedForOK
    <2>4. NewPrimary(c, d, k)
      BY <1>5, <2>3 DEF NewPrimary
    <2>5. CatOK(d, gone)
      BY <2>3 DEF Grew
    <2>6. a.cat = d /\ Answers(c, d, k, a.id, target)
      BY <1>1, <2>2, <2>3, <2>4, <2>5, FoundOK
    <2>7. Grew(c, d, gone, 1 + 1)
      BY <1>5, <2>3, GrewTwice
    <2>8. QED  BY <1>2, <1>10, <1>14, <2>6, <2>7 DEF Target
  <1>15. QED  BY <1>12, <1>13, <1>14

LEMMA ResolveReducedOK ==
    ASSUME NEW c, NEW gone, CatOK(c, gone), Room(c, 1), NEW current \in Ids(c, "vertex"), NEW n \in Name
    PROVE  Grew(c, ResolveReduced(c, current, n).cat, gone, 1)
  <1>1. "vertex" \in Kind /\ current \in Ids(c, "vertex") /\ n \in Name /\ c \in Cat /\ NoMap \in Map
    BY KindsAre DEF CatOK, Map
  <1>2. PICK path, target, made : /\ path = RowOf(c, "vertex", current).path /\ target = WithoutFirst(path, n)
                                  /\ made = VertexLabel(c, target, NoMap)
    OBVIOUS
  <1>3. target \in Path
    BY <1>1, <1>2, RowOfIs, WithoutFirstOK
  <1>4. c.last["vertex"] + 1 \in LabelId
    BY <1>1, RoomFor
  <1>5. CatOK(made, gone) /\ Made(c, made, "vertex", target, NoMap)
    BY <1>1, <1>2, <1>3, <1>4, VertexLabelOK
  <1>6. Grew(c, made, gone, 1)
    BY <1>1, <1>5, MadeGrew
  <1>7. Grew(c, c, gone, 1)
    BY GrewSelf
  <1>8. ResolveReduced(c, current, n).cat = c \/ ResolveReduced(c, current, n).cat = made
    BY <1>2 DEF ResolveReduced, Answer, Found
  <1>9. QED  BY <1>6, <1>7, <1>8

LEMMA ResolveRemovalOK ==
    ASSUME NEW c, NEW gone, CatOK(c, gone), Room(c, 1), NEW current \in Ids(c, "edge"), NEW n \in Name
    PROVE  Grew(c, ResolveRemoval(c, current, n).cat, gone, 1)
  <1>1. "edge" \in Kind /\ current \in Ids(c, "edge") /\ n \in Name /\ c \in Cat
    BY KindsAre DEF CatOK
  <1>2. PICK r, target, map, made : /\ r = RowOf(c, "edge", current) /\ target = WithoutAny(r.path, n)
                                    /\ map = MapUnion(r.map, NoMap)
                                    /\ made = EdgeLabel(c, target, map, r.map # NoMap)
    OBVIOUS
  <1>3. target \in Path /\ r.map \in Map
    BY <1>1, <1>2, RowOfIs, WithoutAnyOK
  <1>4. map = r.map
    BY <1>2 DEF MapUnion
  <1>5. CatOK(made, gone) /\ Made(c, made, "edge", target, map)
    BY <1>1, <1>2, <1>3, <1>4, EdgeWithMap
  <1>6. Grew(c, made, gone, 1)
    BY <1>1, <1>5, MadeGrew
  <1>7. Grew(c, c, gone, 1)
    BY GrewSelf
  <1>8. ResolveRemoval(c, current, n).cat = c \/ ResolveRemoval(c, current, n).cat = made
    BY <1>2 DEF ResolveRemoval, Answer, Found
  <1>9. QED  BY <1>6, <1>7, <1>8
-----------------------------------------------------------------------------
(* The invariant.                                                            *)

Inv == CatalogInv /\ \A k \in Kind : cat.last[k] <= MaxLabel

LEMMA InvRoom ==
    ASSUME Inv
    PROVE  CatOK(cat, leaked) /\ Room(cat, 1) /\ Room(cat, 2)
  <1>1. CatOK(cat, leaked) /\ cat \in Cat /\ \A k \in Kind : cat.last[k] <= MaxLabel
    BY DEF Inv, CatalogInv, CatOK
  <1>2. \A k \in Kind : cat.last[k] \in Nat /\ MaxLabel \in Nat
    BY <1>1, LastIs
  <1>3. QED  BY <1>1, <1>2 DEF Room

\* A rollback after the call: every slot the call changed is one that is left.
LEMMA RestoredStep ==
    ASSUME NEW c \in Cat, NEW d \in Cat, NEW rows, NEW names, NEW gone,
           CatOK([c EXCEPT !.rows = rows, !.names = names], gone),
           \A k \in Kind : c.last[k] <= d.last[k]
    PROVE  CatOK([d EXCEPT !.rows = rows, !.names = names],
                 gone \cup {i \in LabelId : d.schema[i] # c.schema[i]})
  <1>1. PICK o, n, g : /\ o = [c EXCEPT !.rows = rows, !.names = names]
                       /\ n = [d EXCEPT !.rows = rows, !.names = names]
                       /\ g = gone \cup {i \in LabelId : d.schema[i] # c.schema[i]}
    OBVIOUS
  <1>2. /\ o.rows = rows /\ o.names = names /\ o.last = c.last /\ o.schema = c.schema
        /\ n.rows = rows /\ n.names = names /\ n.last = d.last /\ n.schema = d.schema
        /\ n = [rows |-> rows, names |-> names, last |-> d.last, schema |-> d.schema]
    BY <1>1 DEF Cat
  <1>3. CatOK(o, gone)
    BY <1>1
  <1>4. n \in Cat
    <2>1. rows \in [Kind -> Seq(RowType)] /\ names \in Seq(NameType)
      BY <1>2, <1>3, CatParts DEF CatOK
    <2>2. d.last \in [Kind -> LabelId] /\ d.schema \in [LabelId -> Map]
      BY CatParts
    <2>3. QED  BY <1>2, <2>1, <2>2 DEF Cat
  <1>5. ASSUME NEW k \in Kind PROVE Listing(n.rows[k], n.last[k])
    <2>1. Listing(rows[k], c.last[k])
      BY <1>2, <1>3 DEF CatOK
    <2>2. c.last[k] \in Nat /\ d.last[k] \in Nat /\ c.last[k] <= d.last[k]
      BY LastIs
    <2>3. \A i \in 1 .. c.last[k] : i \in 1 .. d.last[k]
      BY <2>2
    <2>4. QED  BY <1>2, <2>1, <2>3 DEF Listing
  <1>6. Agree(n, g)
    <2>1. SUFFICES ASSUME NEW k \in Kind, NEW r \in ToSet(n.rows[k]), IsAlone(n, k, r.id), r.id \notin g
                   PROVE  AgreesAt(n, r)
      BY DEF Agree
    <2>2. r.id \in LabelId
      BY <1>4, CatParts DEF RowType
    <2>3. r.id \notin gone /\ d.schema[r.id] = c.schema[r.id]
      BY <1>1, <2>1, <2>2
    <2>4. IsAlone(o, k, r.id)
      BY <1>2, <2>1 DEF IsAlone
    <2>5. AgreesAt(o, r)
      BY <1>2, <1>3, <2>3, <2>4 DEF CatOK, Agree
    <2>6. QED  BY <1>2, <2>3, <2>5 DEF AgreesAt
  <1>7. Filled(n, g)
    <2>1. SUFFICES ASSUME NEW i \in LabelId, n.schema[i] # NoMap, i \notin g
                   PROVE  \E k \in Kind : \E r \in ToSet(n.rows[k]) : r.id = i
      BY DEF Filled
    <2>2. i \notin gone /\ o.schema[i] # NoMap
      BY <1>1, <1>2, <2>1
    <2>3. QED  BY <1>2, <1>3, <2>2 DEF CatOK, Filled
  <1>8. QED  BY <1>1, <1>4, <1>5, <1>6, <1>7 DEF CatOK

LEMMA StepKeeps ==
    ASSUME Inv, NEW c, Step(c), NEW grows, Kept(cat, c, leaked, grows)
    PROVE  Inv'
  <1>1. /\ \A k \in Kind : c.last[k] <= MaxLabel
        /\ cat' = c /\ saved' = saved /\ leaked' = leaked
        /\ put' = put \cup {i \in LabelId : c.schema[i] # cat.schema[i]}
    BY DEF Step
  <1>2. CatOK(c, leaked) /\ \A k \in Kind : cat.last[k] <= c.last[k]
    BY DEF Kept
  <1>3. cat \in Cat /\ c \in Cat /\ CatOK(Restored, leaked \cup put)
    BY <1>2 DEF Inv, CatalogInv, CatOK
  <1>4. CatOK([c EXCEPT !.rows = saved.rows, !.names = saved.names],
              (leaked \cup put) \cup {i \in LabelId : c.schema[i] # cat.schema[i]})
    <2>1. CatOK([cat EXCEPT !.rows = saved.rows, !.names = saved.names], leaked \cup put)
      BY <1>3 DEF Restored
    <2>2. QED  BY <1>2, <1>3, <2>1, RestoredStep
  <1>5. (leaked \cup put) \cup {i \in LabelId : c.schema[i] # cat.schema[i]} = leaked' \cup put'
    BY <1>1
  <1>6. CatOK([cat' EXCEPT !.rows = saved'.rows, !.names = saved'.names], leaked' \cup put')
    BY <1>1, <1>4, <1>5
  <1>7. CatOK(cat', leaked') /\ \A k \in Kind : cat'.last[k] <= MaxLabel
    BY <1>1, <1>2
  <1>8. QED  BY <1>6, <1>7 DEF Inv, CatalogInv, Restored

LEMMA CommitKeeps ==
    ASSUME Inv, Commit
    PROVE  Inv'
  <1>1. /\ saved' = [rows |-> cat.rows, names |-> cat.names]
        /\ put' = {} /\ cat' = cat /\ leaked' = leaked
    BY DEF Commit
  <1>2. CatOK(cat, leaked) /\ cat \in Cat /\ \A k \in Kind : cat.last[k] <= MaxLabel
    BY DEF Inv, CatalogInv, CatOK
  <1>3. [cat' EXCEPT !.rows = saved'.rows, !.names = saved'.names] = cat
    BY <1>1, <1>2 DEF Cat
  <1>4. leaked' \cup put' = leaked
    BY <1>1
  <1>5. CatOK([cat' EXCEPT !.rows = saved'.rows, !.names = saved'.names], leaked' \cup put')
    BY <1>2, <1>3, <1>4
  <1>6. CatOK(cat', leaked') /\ \A k \in Kind : cat'.last[k] <= MaxLabel
    BY <1>1, <1>2
  <1>7. QED  BY <1>5, <1>6 DEF Inv, CatalogInv, Restored

LEMMA AbortKeeps ==
    ASSUME Inv, Abort
    PROVE  Inv'
  <1>1. /\ cat' = Restored /\ leaked' = leaked \cup put
        /\ put' = {} /\ saved' = saved
    BY DEF Abort, Restored
  <1>2. /\ cat \in Cat /\ \A k \in Kind : cat.last[k] <= MaxLabel
        /\ CatOK(Restored, leaked \cup put)
    BY DEF Inv, CatalogInv, CatOK
  <1>3. Restored.last = cat.last /\ [Restored EXCEPT !.rows = saved.rows, !.names = saved.names] = Restored
    BY <1>2 DEF Cat, Restored
  <1>4. [cat' EXCEPT !.rows = saved'.rows, !.names = saved'.names] = Restored
    BY <1>1, <1>3
  <1>5. leaked' \cup put' = leaked \cup put
    BY <1>1
  <1>6. CatOK([cat' EXCEPT !.rows = saved'.rows, !.names = saved'.names], leaked' \cup put')
    BY <1>2, <1>4, <1>5
  <1>7. CatOK(cat', leaked') /\ \A k \in Kind : cat'.last[k] <= MaxLabel
    BY <1>1, <1>2, <1>3
  <1>8. QED  BY <1>6, <1>7 DEF Inv, CatalogInv, Restored

\* A refused call and the abort that follows it.
LEMMA RefusalKeeps ==
    ASSUME Inv, NEW p, NEW x \in Annotation, RefuseAnnotation(p, x)
    PROVE  Inv'
  <1>1. x \in Annotation
    OBVIOUS
  <1>2. PICK c, gone : /\ c = AddEverywhere(cat, p, x)
                       /\ gone = (leaked \cup put) \cup {i \in LabelId : c.schema[i] # cat.schema[i]}
    OBVIOUS
  <1>3. /\ cat' = [c EXCEPT !.rows = saved.rows, !.names = saved.names]
        /\ leaked' = gone /\ put' = {} /\ saved' = saved
    BY <1>2 DEF RefuseAnnotation
  <1>4. CatOK(cat, leaked) /\ CatOK(Restored, leaked \cup put)
        /\ \A k \in Kind : cat.last[k] <= MaxLabel
    BY DEF Inv, CatalogInv
  <1>5. Kept(cat, c, leaked, TRUE) /\ c.last = cat.last
    BY <1>1, <1>2, <1>4, AddEverywhereOK
  <1>6. CatOK(c, leaked) /\ \A k \in Kind : cat.last[k] <= c.last[k]
    BY <1>5 DEF Kept
  <1>7. cat \in Cat /\ c \in Cat
    BY <1>4, <1>6 DEF CatOK
  <1>8. CatOK(cat', gone)
    <2>1. CatOK([cat EXCEPT !.rows = saved.rows, !.names = saved.names], leaked \cup put)
      BY <1>4 DEF Restored
    <2>2. CatOK([c EXCEPT !.rows = saved.rows, !.names = saved.names], gone)
      BY <1>2, <1>6, <1>7, <2>1, RestoredStep
    <2>3. QED  BY <1>3, <2>2
  <1>9. /\ [cat' EXCEPT !.rows = saved'.rows, !.names = saved'.names] = cat'
        /\ cat'.last = c.last /\ leaked' \cup put' = gone
    BY <1>3, <1>7 DEF Cat
  <1>10. CatOK([cat' EXCEPT !.rows = saved'.rows, !.names = saved'.names], leaked' \cup put')
    BY <1>8, <1>9
  <1>11. CatOK(cat', leaked') /\ \A k \in Kind : cat'.last[k] <= MaxLabel
    BY <1>3, <1>4, <1>5, <1>8, <1>9
  <1>12. QED  BY <1>10, <1>11 DEF Inv, CatalogInv, Restored

LEMMA RollsBackKeeps ==
    ASSUME Inv, RollsBack
    PROVE  Inv'
  BY AbortKeeps, RefusalKeeps DEF RollsBack

LEMMA OneElement ==
    ASSUME NEW S, NEW v \in S
    PROVE  <<v>> \in Seq(S) /\ ToSet(<<v>>) = {v}
  <1>1. PICK s : s = <<v>>
    OBVIOUS
  <1>2. s \in Seq(S) /\ Len(s) = 1 /\ s[1] = v
    BY <1>1
  <1>3. DOMAIN s = 1 .. 1 /\ \A i \in 1 .. 1 : i = 1
    BY <1>2, LenProperties
  <1>4. 1 \in 1 .. 1
    OBVIOUS
  <1>5. ToSet(s) = {v}
    BY <1>2, <1>3, <1>4 DEF ToSet
  <1>6. QED  BY <1>1, <1>2, <1>5

LEMMA InitInv ==
    ASSUME Init
    PROVE  Inv
  <1>1. PICK v, e : v = Row(1, <<Root>>, NoMap, TRUE) /\ e = Row(1, <<Root>>, NoMap, FALSE)
    OBVIOUS
  <1>2. /\ cat = [rows   |-> [vertex |-> <<v>>, edge |-> <<e>>],
                  names  |-> <<>>,
                  last   |-> [k \in Kind |-> 1],
                  schema |-> [i \in LabelId |-> NoMap]]
        /\ saved = [rows |-> cat.rows, names |-> cat.names]
        /\ put = {} /\ leaked = {}
    BY <1>1 DEF Init
  <1>3. 1 \in LabelId /\ 1 <= MaxLabel
    BY LabelCatalogAssumption DEF LabelId
  <1>4. v \in RowType /\ e \in RowType /\ v.id = 1 /\ e.id = 1 /\ v.map = NoMap /\ e.map = NoMap
    <2>1. <<Root>> \in Path
      <3>1. Root \in Token
        BY DEF Token
      <3>2. QED  BY <3>1 DEF Path
    <2>2. NoMap \in Map
      BY DEF Map
    <2>3. QED  BY <1>1, <1>3, <2>1, <2>2 DEF Row, RowType
  <1>5. <<v>> \in Seq(RowType) /\ <<e>> \in Seq(RowType) /\ ToSet(<<v>>) = {v} /\ ToSet(<<e>>) = {e}
    BY <1>4, OneElement
  <1>6. /\ cat.rows["vertex"] = <<v>> /\ cat.rows["edge"] = <<e>>
        /\ cat.rows \in [Kind -> Seq(RowType)]
    <2>1. PICK a, b : a = <<v>> /\ b = <<e>>
      OBVIOUS
    <2>2. cat.rows = [vertex |-> a, edge |-> b] /\ a \in Seq(RowType) /\ b \in Seq(RowType)
      BY <1>2, <1>5, <2>1
    <2>3. [vertex |-> a, edge |-> b] \in [{"vertex", "edge"} -> Seq(RowType)]
      BY <2>2
    <2>4. QED  BY <2>1, <2>2, <2>3 DEF Kind
  <1>7. /\ cat.names \in Seq(NameType)
        /\ cat.last \in [Kind -> LabelId] /\ \A k \in Kind : cat.last[k] = 1
        /\ cat.schema \in [LabelId -> Map] /\ \A i \in LabelId : cat.schema[i] = NoMap
    BY <1>2, <1>3 DEF Map
  <1>8. cat \in Cat
    BY <1>2, <1>6, <1>7 DEF Cat
  <1>9. ASSUME NEW k \in Kind PROVE Listing(cat.rows[k], cat.last[k])
    <2>1. PICK r : cat.rows[k] = <<r>> /\ ToSet(<<r>>) = {r} /\ r.id = 1
      BY <1>4, <1>5, <1>6 DEF Kind
    <2>2. IsInjective(<<r>>)
      BY DEF IsInjective
    <2>3. QED  BY <1>7, <2>1, <2>2 DEF Listing
  <1>10. Agree(cat, leaked) /\ Filled(cat, leaked)
    <2>1. ASSUME NEW k \in Kind, NEW r \in ToSet(cat.rows[k]) PROVE AgreesAt(cat, r)
      <3>1. r.id = 1 /\ r.map = NoMap
        BY <1>4, <1>5, <1>6 DEF Kind
      <3>2. QED  BY <1>3, <1>7, <3>1 DEF AgreesAt, NamesOf
    <2>2. QED  BY <1>7, <2>1 DEF Agree, Filled
  <1>11. CatOK(cat, leaked)
    BY <1>8, <1>9, <1>10 DEF CatOK
  <1>12. Restored = cat /\ leaked \cup put = leaked
    BY <1>2, <1>8 DEF Restored, Cat
  <1>13. QED  BY <1>3, <1>7, <1>11, <1>12 DEF Inv, CatalogInv

\* A call that has gone through.
Moves(grows) == \E c : Step(c) /\ Kept(cat, c, leaked, grows)

LEMMA MovesKeep ==
    ASSUME Inv, NEW grows, Moves(grows)
    PROVE  Inv'
  <1>1. PICK c : Step(c) /\ Kept(cat, c, leaked, grows)
    BY DEF Moves
  <1>2. QED  BY <1>1, StepKeeps

LEMMA GrowthMoves ==
    ASSUME Inv, NEW c, NEW m \in Nat, Step(c), Grew(cat, c, leaked, m)
    PROVE  Moves(TRUE)
  <1>1. Kept(cat, c, leaked, TRUE)
    BY InvRoom, GrewKept
  <1>2. QED  BY <1>1 DEF Moves

LEMMA CreateVLabelMoves ==
    ASSUME Inv, NEW n \in Name, NEW map \in GivenMap, CreateVLabel(n, map)
    PROVE  Moves(TRUE)
  <1>1. n \in Name /\ map \in Map /\ "vertex" \in Kind
    BY GivenIs, KindsAre
  <1>2. PICK d : d = CreateVertex(cat, n, map)
    OBVIOUS
  <1>3. CatOK(d, leaked) /\ \E e \in Naming(cat) : Made(e, d, "vertex", <<Root, n>>, map)
    BY <1>1, <1>2, InvRoom, CreateVertexOK
  <1>4. PICK e \in Naming(cat) : Made(e, d, "vertex", <<Root, n>>, map)
    BY <1>3
  <1>5. Grew(cat, e, leaked, 0)
    BY <1>4, InvRoom, NamingGrew
  <1>6. CatOK(e, leaked)
    BY <1>5 DEF Grew
  <1>7. Grew(e, d, leaked, 1)
    BY <1>1, <1>3, <1>4, <1>6, MadeGrew
  <1>8. Grew(cat, d, leaked, 1)
    <2>1. 0 \in Nat /\ 1 \in Nat /\ 0 + 1 = 1
      OBVIOUS
    <2>2. Grew(cat, d, leaked, 0 + 1)
      BY <1>5, <1>7, <2>1, InvRoom, GrewTwice
    <2>3. QED  BY <2>1, <2>2
  <1>9. Step(d)
    BY <1>2 DEF CreateVLabel
  <1>10. QED  BY <1>8, <1>9, GrowthMoves

LEMMA CreateELabelMoves ==
    ASSUME Inv, NEW n \in Name, NEW map \in GivenMap, CreateELabel(n, map)
    PROVE  Moves(TRUE)
  <1>1. n \in Name /\ map \in Map /\ "edge" \in Kind
    BY GivenIs, KindsAre
  <1>2. PICK d : d = CreateEdge(cat, n, map)
    OBVIOUS
  <1>3. CatOK(d, leaked) /\ Made(cat, d, "edge", <<Root, n>>, map)
    BY <1>1, <1>2, InvRoom, CreateEdgeOK
  <1>4. Grew(cat, d, leaked, 1)
    BY <1>1, <1>3, InvRoom, MadeGrew
  <1>5. Step(d)
    BY <1>2 DEF CreateELabel
  <1>6. QED  BY <1>4, <1>5, GrowthMoves

LEMMA MergeVLabelsMoves ==
    ASSUME Inv, NEW p \in Ids(cat, "vertex"), NEW q \in Ids(cat, "vertex"), MergeVLabels(p, q)
    PROVE  Moves(TRUE)
  <1>1. p \in Ids(cat, "vertex") /\ q \in Ids(cat, "vertex") /\ "vertex" \in Kind
    BY KindsAre
  <1>2. PICK d : d = MergeVertex(cat, p, q)
    OBVIOUS
  <1>3. PICK path, map : CatOK(d, leaked) /\ Made(cat, d, "vertex", path, map)
    <2>1. \E path, map : CatOK(d, leaked) /\ Made(cat, d, "vertex", path, map)
      BY <1>1, <1>2, InvRoom, MergeVertexOK
    <2>2. QED  BY <2>1
  <1>4. Grew(cat, d, leaked, 1)
    BY <1>1, <1>3, InvRoom, MadeGrew
  <1>5. Step(d)
    BY <1>2 DEF MergeVLabels
  <1>6. QED  BY <1>4, <1>5, GrowthMoves

LEMMA MergeELabelsMoves ==
    ASSUME Inv, NEW p, NEW q \in Ids(cat, "edge"), MergeELabels(p, q)
    PROVE  Moves(TRUE)
  <1>1. PICK d : d = MergeEdge(cat, p, q)
    OBVIOUS
  <1>2. q \in Ids(cat, "edge")
    OBVIOUS
  <1>3. Grew(cat, d, leaked, 1)
    BY <1>1, <1>2, InvRoom, MergeEdgeOK
  <1>4. Step(d)
    BY <1>1 DEF MergeELabels
  <1>5. QED  BY <1>3, <1>4, GrowthMoves

LEMMA ResolveTargetMoves ==
    ASSUME Inv, NEW k \in Kind, NEW id \in Ids(cat, k), NEW n \in Name, ResolveTarget(k, id, n)
    PROVE  Moves(TRUE)
  <1>1. PICK d : d = Resolve(cat, k, id, n).cat
    OBVIOUS
  <1>2. k \in Kind /\ id \in Ids(cat, k) /\ n \in Name
    OBVIOUS
  <1>3. Grew(cat, d, leaked, 2)
    BY <1>1, <1>2, InvRoom, ResolveOK
  <1>4. Step(d)
    BY <1>1 DEF ResolveTarget
  <1>5. QED  BY <1>3, <1>4, GrowthMoves

LEMMA ResolveWithoutMoves ==
    ASSUME Inv, NEW k \in Kind, NEW id \in Ids(cat, k), NEW n \in Name, ResolveWithout(k, id, n)
    PROVE  Moves(TRUE)
  <1>1. k \in Kind /\ id \in Ids(cat, k) /\ n \in Name
    OBVIOUS
  <1>2. CASE k = "vertex"
    <2>1. PICK d : d = ResolveReduced(cat, id, n).cat
      OBVIOUS
    <2>2. Grew(cat, d, leaked, 1)
      BY <1>1, <1>2, <2>1, InvRoom, ResolveReducedOK
    <2>3. Step(d)
      BY <1>2, <2>1 DEF ResolveWithout
    <2>4. QED  BY <2>2, <2>3, GrowthMoves
  <1>3. CASE k = "edge"
    <2>1. PICK d : d = ResolveRemoval(cat, id, n).cat
      OBVIOUS
    <2>2. Grew(cat, d, leaked, 1)
      BY <1>1, <1>3, <2>1, InvRoom, ResolveRemovalOK
    <2>3. Step(d)
      BY <1>3, <2>1 DEF ResolveWithout
    <2>4. QED  BY <2>2, <2>3, GrowthMoves
  <1>4. QED  BY <1>2, <1>3 DEF Kind

LEMMA AnnotationMoves ==
    ASSUME Inv, NEW p, NEW x \in Annotation
    PROVE  /\ AddAnnotation(p, x) => Moves(TRUE)
           /\ DropAnnotation(p, x) => Moves(FALSE)
  <1>1. x \in Annotation
    OBVIOUS
  <1>2. PICK d, e : d = AddAnnotationTo(cat, p, x) /\ e = DropAnnotationFrom(cat, p, x)
    OBVIOUS
  <1>3. Kept(cat, d, leaked, TRUE) /\ Kept(cat, e, leaked, FALSE)
    BY <1>1, <1>2, InvRoom, AddAnnotationOK, DropAnnotationOK
  <1>4. (AddAnnotation(p, x) => Step(d)) /\ (DropAnnotation(p, x) => Step(e))
    BY <1>2 DEF AddAnnotation, DropAnnotation
  <1>5. QED  BY <1>3, <1>4 DEF Moves

LEMMA DropLabelMoves ==
    ASSUME Inv, NEW k \in Kind, NEW n \in Name, DropLabel(k, n)
    PROVE  Moves(TRUE)
  <1>1. k \in Kind /\ n \in Name
    OBVIOUS
  <1>2. PICK d : d = DropToken(cat, k, n)
    OBVIOUS
  <1>3. Kept(cat, d, leaked, TRUE)
    BY <1>1, <1>2, InvRoom, DropTokenOK
  <1>4. Step(d)
    BY <1>2 DEF DropLabel
  <1>5. QED  BY <1>3, <1>4 DEF Moves

LEMMA RenameMoves ==
    ASSUME Inv, NEW old \in Name, NEW new \in Name, RenameVLabel(old, new) \/ RenameELabel(old, new)
    PROVE  Moves(TRUE)
  <1>1. old \in Name /\ new \in Name /\ "vertex" \in Kind /\ "edge" \in Kind
    BY KindsAre
  <1>2. PICK d, e : d = RenameToken(cat, "vertex", old, new) /\ e = RenameToken(cat, "edge", old, new)
    OBVIOUS
  <1>3. Kept(cat, d, leaked, TRUE) /\ Kept(cat, e, leaked, TRUE)
    BY <1>1, <1>2, InvRoom, RenameTokenOK
  <1>4. Step(d) \/ Step(e)
    BY <1>2 DEF RenameVLabel, RenameELabel
  <1>5. QED  BY <1>3, <1>4 DEF Moves

LEMMA NextIs ==
    ASSUME Inv, Next
    PROVE  \/ Commit \/ RollsBack \/ Moves(TRUE)
           \/ Moves(FALSE) /\ \E p \in Structs, x \in Annotation : DropAnnotation(p, x)
  <1>1. ASSUME NEW n \in Name, NEW map \in GivenMap, CreateVLabel(n, map) \/ CreateELabel(n, map)
        PROVE  Moves(TRUE)
    BY <1>1, CreateVLabelMoves, CreateELabelMoves
  <1>2. ASSUME NEW p \in Ids(cat, "vertex"), NEW q \in Ids(cat, "vertex"), MergeVLabels(p, q)
        PROVE  Moves(TRUE)
    BY <1>2, MergeVLabelsMoves
  <1>3. ASSUME NEW p \in Ids(cat, "edge"), NEW q \in Ids(cat, "edge"), MergeELabels(p, q)
        PROVE  Moves(TRUE)
    BY <1>3, MergeELabelsMoves
  <1>4. ASSUME NEW p \in Structs, NEW x \in Annotation, AddAnnotation(p, x)
        PROVE  Moves(TRUE)
    BY <1>4, AnnotationMoves
  <1>5. ASSUME NEW p \in Structs, NEW x \in Annotation, DropAnnotation(p, x)
        PROVE  Moves(FALSE)
    BY <1>5, AnnotationMoves
  <1>6. ASSUME NEW k \in Kind, NEW n \in Name, DropLabel(k, n)
        PROVE  Moves(TRUE)
    BY <1>6, DropLabelMoves
  <1>7. ASSUME NEW old \in Name, NEW new \in Name, RenameVLabel(old, new) \/ RenameELabel(old, new)
        PROVE  Moves(TRUE)
    BY <1>7, RenameMoves
  <1>8. ASSUME NEW k \in Kind, NEW id \in Ids(cat, k), NEW n \in Name,
               ResolveTarget(k, id, n) \/ ResolveWithout(k, id, n)
        PROVE  Moves(TRUE)
    BY <1>8, ResolveTargetMoves, ResolveWithoutMoves
  <1>9. QED  BY <1>1, <1>2, <1>3, <1>4, <1>5, <1>6, <1>7, <1>8 DEF Next

LEMMA NextInv ==
    ASSUME Inv, [Next]_vars
    PROVE  Inv'
  <1>1. CASE Next
    BY <1>1, NextIs, CommitKeeps, RollsBackKeeps, MovesKeep
  <1>2. CASE UNCHANGED vars
    BY <1>2 DEF vars, Inv, CatalogInv, Restored
  <1>3. QED  BY <1>1, <1>2

\* Rows and slots agree, in the present catalogs and in those a rollback would
\* leave; the slot of an id that is still to be given out is empty or known to
\* be left by a rollback.
THEOREM CatalogInvHolds == Spec => []Inv
  <1>1. Init => Inv
    BY InitInv
  <1>2. Inv /\ [Next]_vars => Inv'
    BY NextInv
  <1>3. QED  BY <1>1, <1>2, PTL DEF Spec
-----------------------------------------------------------------------------
(* What follows from the invariant.                                          *)

LEMMA MapIsBit == Map \subseteq Bit
  <1>1. SUFFICES ASSUME NEW m \in Seq(Annotation), IsInjective(m)
                 PROVE  m \in BoundedSeq(Annotation, Cardinality(Annotation))
    BY DEF Map, Bit
  <1>2. PICK n, N : n = Len(m) /\ N = Cardinality(Annotation)
    OBVIOUS
  <1>3. n \in Nat /\ m \in [1 .. n -> Annotation]
    BY <1>2
  <1>4. N \in Nat /\ IsFiniteSet(Annotation)
    BY <1>2, LabelCatalogAssumption, FS_CardinalityType
  <1>5. m \in Injection(1 .. n, Annotation)
    BY <1>1, <1>3 DEF Injection
  <1>6. Cardinality(1 .. n) <= N
    BY <1>2, <1>4, <1>5, FS_Injection
  <1>7. Cardinality(1 .. n) = n
    <2>1. 1 \in Int /\ n \in Int /\ (1 > n => n = 0) /\ n - 1 + 1 = n
      BY <1>3
    <2>2. Cardinality(1 .. n) = IF 1 > n THEN 0 ELSE n - 1 + 1
      BY <2>1, FS_Interval
    <2>3. QED  BY <2>1, <2>2
  <1>8. n \in 0 .. N
    BY <1>3, <1>4, <1>6, <1>7
  <1>9. m \in SeqOf(Annotation, N)
    BY <1>3, <1>8 DEF SeqOf
  <1>10. QED  BY <1>2, <1>9 DEF BoundedSeq

LEMMA SoundIs ==
    ASSUME CatOK(cat, leaked), NEW k \in Kind, NEW r \in ToSet(cat.rows[k]), Sound(k, r.id)
    PROVE  IsAlone(cat, k, r.id) /\ r.id \notin leaked /\ AgreesAt(cat, r)
  <1>1. IsAlone(cat, k, r.id) /\ r.id \notin leaked
    BY DEF Sound, Alone, Ids, IsAlone
  <1>2. QED  BY <1>1 DEF CatOK, Agree

LEMMA InvTypeOK ==
    ASSUME Inv
    PROVE  TypeOK
  <1>1. CatOK(cat, leaked) /\ cat \in Cat
    BY InvRoom DEF CatOK
  <1>2. cat.last \in [Kind -> 1 .. MaxLabel]
    <2>1. \A k \in Kind : cat.last[k] \in 1 .. MaxLabel
      BY <1>1, LastIs DEF Inv
    <2>2. cat.last \in [Kind -> LabelId]
      BY <1>1, CatParts
    <2>3. QED  BY <2>1, <2>2
  <1>3. cat.schema \in [LabelId -> Bit]
    BY <1>1, CatParts, MapIsBit
  <1>4. ASSUME NEW k \in Kind, NEW i \in DOMAIN cat.rows[k], NEW j \in DOMAIN cat.rows[k]
        PROVE  LET r == cat.rows[k][i]
               IN  /\ r.id \in 1 .. cat.last[k]
                   /\ ToSet(r.path) \subseteq Name \cup {Root} /\ r.path # <<>>
                   /\ r.map \in Bit
                   /\ Sound(k, r.id) /\ NamesOf(r.map) # {} => r.bits
                   /\ r.id = cat.rows[k][j].id => i = j
    <2>1. PICK r, q : r = cat.rows[k][i] /\ q = cat.rows[k][j]
      OBVIOUS
    <2>2. i \in DOMAIN cat.rows[k] /\ j \in DOMAIN cat.rows[k]
      OBVIOUS
    <2>3. /\ r \in ToSet(cat.rows[k]) /\ q \in ToSet(cat.rows[k]) /\ (r.id = q.id => i = j)
      BY <1>1, <2>1, <2>2, RowsAre
    <2>4. r \in RowType /\ r.path \in Path /\ r.map \in Map
      BY <1>1, <2>3, CatParts DEF RowType
    <2>5. r.id \in 1 .. cat.last[k]
      BY <1>1, <2>3 DEF CatOK, Listing
    <2>6. r.path # <<>> /\ ToSet(r.path) \subseteq Name \cup {Root}
      <3>1. PICK p : p = r.path
        OBVIOUS
      <3>2. p \in Seq(Token) /\ p # <<>>
        BY <2>4, <3>1, PathParts
      <3>3. ToSet(p) \subseteq Token
        BY <3>2, ElementOfSeq, LenProperties DEF ToSet
      <3>4. QED  BY <3>1, <3>2, <3>3 DEF Token
    <2>7. r.map \in Bit
      BY <2>4, MapIsBit
    <2>8. Sound(k, r.id) /\ NamesOf(r.map) # {} => r.bits
      <3>1. Sound(k, r.id) => AgreesAt(cat, r)
        BY <1>1, <2>3, SoundIs
      <3>2. QED  BY <3>1 DEF AgreesAt
    <2>9. QED  BY <2>1, <2>3, <2>5, <2>6, <2>7, <2>8
  <1>5. ToSet(cat.names) \subseteq NameType
    <2>1. cat.names \in Seq(NameType)
      BY <1>1, CatParts
    <2>2. QED  BY <2>1, ElementOfSeq, LenProperties DEF ToSet
  <1>6. QED  BY <1>2, <1>3, <1>4, <1>5 DEF TypeOK, NameType

LEMMA InvSchemaAgrees ==
    ASSUME Inv
    PROVE  SchemaAgrees
  <1>1. CatOK(cat, leaked)
    BY InvRoom
  <1>2. ASSUME NEW k \in Kind, NEW r \in ToSet(cat.rows[k]), Sound(k, r.id)
        PROVE  IF cat.schema[r.id] = NoMap THEN NamesOf(r.map) = {} ELSE cat.schema[r.id] = r.map
    BY <1>1, <1>2, SoundIs DEF AgreesAt
  <1>3. QED  BY <1>2 DEF SchemaAgrees

\* Label ids are handed out once per kind, a path has tokens, a map names an
\* annotation once and fits the bits that stand for it, and a label with
\* annotations has a table for them, whatever calls and rollbacks came before.
THEOREM TypeOKHolds == Spec => []TypeOK
  <1>1. Inv => TypeOK
    BY InvTypeOK
  <1>2. QED  BY <1>1, CatalogInvHolds, PTL

\* For every label that shares its id with none of the other kind and whose slot
\* no rollback has left behind, the row's map and the slot's schema are the same:
\* bitsets are written by one and read by the other.
THEOREM SchemaAgreesHolds == Spec => []SchemaAgrees
  <1>1. Inv => SchemaAgrees
    BY InvSchemaAgrees
  <1>2. QED  BY <1>1, CatalogInvHolds, PTL

\* What a step keeps of a label's map.
KeepsMaps(d) ==
    \A k \in Kind : \A r \in ToSet(cat.rows[k]) :
        Sound(k, r.id) /\ r.map # NoMap => IsPrefix(r.map, RowOf(d, k, r.id).map)

LEMMA KeptMaps ==
    ASSUME CatOK(cat, leaked), NEW d, Kept(cat, d, leaked, TRUE)
    PROVE  KeepsMaps(d)
  <1>1. SUFFICES ASSUME NEW k \in Kind, NEW r \in ToSet(cat.rows[k]), Sound(k, r.id), r.map # NoMap
                 PROVE  IsPrefix(r.map, RowOf(d, k, r.id).map)
    BY DEF KeepsMaps
  <1>2. PICK q \in ToSet(d.rows[k]) : q.id = r.id /\ Longer(cat, k, r, q, leaked)
    BY DEF Kept
  <1>3. IsPrefix(r.map, q.map)
    BY <1>1, <1>2, SoundIs DEF Longer
  <1>4. CatOK(d, leaked) /\ r.id \in Ids(d, k) /\ q \in ToSet(d.rows[k])
    BY <1>2 DEF Kept, Ids
  <1>5. RowOf(d, k, r.id) = q
    BY <1>2, <1>4, RowOfIs
  <1>6. QED  BY <1>3, <1>5

LEMMA SelfKept ==
    ASSUME CatOK(cat, leaked)
    PROVE  Kept(cat, cat, leaked, TRUE)
  <1>1. Grew(cat, cat, leaked, 0)
    BY GrewSelf
  <1>2. QED  BY <1>1, GrewKept

\* Only dropping an annotation, or a rollback, moves or removes a position in the
\* map of a label whose slot is its own: every other call leaves each bit that is
\* stored the meaning it has.
THEOREM BitsKeepMeaningHolds == Spec => BitsKeepMeaning
  <1>1. ASSUME Inv, [Next]_vars
        PROVE  \/ RollsBack
               \/ \E p \in Structs, x \in Annotation : DropAnnotation(p, x)
               \/ KeepsMaps(cat')
    <2>1. CatOK(cat, leaked) /\ Kept(cat, cat, leaked, TRUE)
      BY <1>1, InvRoom, SelfKept
    <2>2. CASE cat' = cat
      BY <2>1, <2>2, KeptMaps
    <2>3. CASE Moves(TRUE)
      <3>1. PICK c : Step(c) /\ Kept(cat, c, leaked, TRUE)
        BY <2>3 DEF Moves
      <3>2. cat' = c
        BY <3>1 DEF Step
      <3>3. KeepsMaps(c)
        BY <2>1, <3>1, KeptMaps
      <3>4. QED  BY <3>2, <3>3
    <2>4. Commit \/ UNCHANGED vars => cat' = cat
      BY DEF Commit, vars
    <2>5. QED  BY <1>1, <2>2, <2>3, <2>4, NextIs
  <1>2. ASSUME Inv, [Next]_vars
        PROVE  [\/ RollsBack
                \/ \E p \in Structs, x \in Annotation : DropAnnotation(p, x)
                \/ \A k \in Kind : \A r \in ToSet(cat.rows[k]) :
                      Sound(k, r.id) /\ r.map # NoMap =>
                          IsPrefix(r.map, RowOf(cat', k, r.id).map)]_vars
    BY <1>1, <1>2 DEF KeepsMaps
  <1>3. QED  BY <1>2, CatalogInvHolds, PTL DEF Spec, BitsKeepMeaning

LEMMA FoundByTokens ==
    ASSUME CatOK(cat, leaked), NEW d, CatOK(d, leaked), NEW k \in Kind, NEW to, NEW path,
           Answers(cat, d, k, to, path)
    PROVE  /\ to \in Ids(d, k)
           /\ RowOf(d, k, to).path = path
           /\ (\A r \in ToSet(cat.rows[k]) : r.path = path => r.primary) =>
                 /\ to \in IdsByPath(d, k, ToSet(path))
                 /\ \A t \in ToSet(path) : to \in IdsByAnyOf(d, k, {t})
  <1>1. to \in Ids(d, k) /\ RowOf(d, k, to).path = path
    BY DEF Answers
  <1>2. PICK q : q = RowOf(d, k, to)
    OBVIOUS
  <1>3. q \in ToSet(d.rows[k]) /\ q.id = to /\ q.path = path
    BY <1>1, <1>2, RowOfIs
  <1>4. ASSUME \A r \in ToSet(cat.rows[k]) : r.path = path => r.primary
        PROVE  /\ to \in IdsByPath(d, k, ToSet(path))
               /\ \A t \in ToSet(path) : to \in IdsByAnyOf(d, k, {t})
    <2>1. q.primary
      BY <1>2, <1>3, <1>4 DEF Answers
    <2>2. to \in IdsByPath(d, k, ToSet(path))
      BY <1>3, <2>1 DEF IdsByPath
    <2>3. ASSUME NEW t \in ToSet(path) PROVE to \in IdsByAnyOf(d, k, {t})
      <3>1. {t} \cap ToSet(q.path) # {}
        BY <1>3, <2>3
      <3>2. QED  BY <1>3, <2>1, <3>1 DEF IdsByAnyOf
    <2>4. QED  BY <2>2, <2>3
  <1>5. QED  BY <1>1, <1>4

\* set_vertex_label and set_edge_label move an entity to a label with exactly the
\* path asked for, found or made on the way, and a search by any of its tokens
\* finds that label, unless a drop has archived one of that path before.
THEOREM TargetIsExactHolds == Spec => TargetIsExact
  <1> DEFINE Exact(d, k, id, n) ==
                LET path   == RowOf(cat, k, id).path
                    target == IF Contains(path, n) THEN path ELSE Append(path, n)
                    to     == Resolve(cat, k, id, n).id
                IN  /\ to \in Ids(d, k)
                    /\ RowOf(d, k, to).path = target
                    /\ (\A r \in ToSet(cat.rows[k]) : r.path = target => r.primary) =>
                          /\ to \in IdsByPath(d, k, ToSet(target))
                          /\ \A t \in ToSet(target) : to \in IdsByAnyOf(d, k, {t})
  <1>1. ASSUME Inv, NEW k \in Kind, NEW id \in Ids(cat, k), NEW n \in Name
        PROVE  Exact(Resolve(cat, k, id, n).cat, k, id, n)
    <2>1. CatOK(cat, leaked) /\ Room(cat, 2)
      BY <1>1, InvRoom
    <2>2. k \in Kind /\ id \in Ids(cat, k) /\ n \in Name
      OBVIOUS
    <2>3. PICK a, target : a = Resolve(cat, k, id, n) /\ target = Target(RowOf(cat, k, id).path, n)
      OBVIOUS
    <2>4. Grew(cat, a.cat, leaked, 2) /\ Answers(cat, a.cat, k, a.id, target)
      BY <2>1, <2>2, <2>3, ResolveOK
    <2>5. PICK d, to : d = a.cat /\ to = a.id
      OBVIOUS
    <2>6. CatOK(d, leaked) /\ Answers(cat, d, k, to, target)
      BY <2>4, <2>5 DEF Grew
    <2>7. /\ to \in Ids(d, k)
          /\ RowOf(d, k, to).path = target
          /\ (\A r \in ToSet(cat.rows[k]) : r.path = target => r.primary) =>
                /\ to \in IdsByPath(d, k, ToSet(target))
                /\ \A t \in ToSet(target) : to \in IdsByAnyOf(d, k, {t})
      BY <2>1, <2>2, <2>6, FoundByTokens
    <2>8. QED  BY <2>3, <2>5, <2>7 DEF Target
  <1>2. ASSUME Inv, [Next]_vars, NEW k \in Kind, NEW id \in Ids(cat, k), NEW n \in Name,
               ResolveTarget(k, id, n)
        PROVE  Exact(cat', k, id, n)
    <2>1. cat' = Resolve(cat, k, id, n).cat
      BY <1>2 DEF ResolveTarget, Step
    <2>2. Exact(Resolve(cat, k, id, n).cat, k, id, n)
      BY <1>1, <1>2
    <2> HIDE DEF Exact
    <2>3. QED  BY <2>1, <2>2
  <1>3. ASSUME Inv, [Next]_vars
        PROVE  [\A k \in Kind : \A id \in Ids(cat, k), n \in Name :
                   ResolveTarget(k, id, n) => Exact(cat', k, id, n)]_vars
    <2> HIDE DEF Exact
    <2>1. QED  BY <1>2, <1>3
  <1>4. QED  BY <1>3, CatalogInvHolds, PTL DEF Spec, TargetIsExact
=============================================================================
