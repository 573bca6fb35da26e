--------------------------- MODULE LruCacheProofs ---------------------------
(* LruCache: the list, the maps and the byte count stay in step, nothing expired
   is served and each value is reported once, for every number of goroutines,
   keys, sizes, limits and Sets.                                              *)
EXTENDS LruCache, FiniteSetTheorems, TLAPS

\* No key is twice in the list.
Distinct(l) == \A i, j \in DOMAIN l : l[i] = l[j] => i = j

Item == [v : 0 .. MaxVersion, elem : 0 .. MaxVersion, size : Sizes \cup {0}]
CacheType == [list : Seq(Keys), items : [Keys -> Item],
              expires : [Keys -> 1 .. Never], usedBytes : Nat]

\* The cache d is in order after Sets with the expiries e.
Tidy(d, e) ==
    /\ d \in CacheType
    /\ Distinct(d.list) /\ ToSet(d.list) = Held(d)
    /\ \A k \in Keys : d.expires[k] # Never => Has(d, k)
    /\ d.usedBytes = Bytes(d, Held(d))
    /\ \A k \in Held(d) : /\ d.items[k].size \in Sizes /\ d.items[k].v \in 1 .. Len(e)
                          /\ d.expires[k] = e[d.items[k].v]
    /\ \A j, k \in Held(d) : d.items[j].v = d.items[k].v => j = k

RestOK ==
    /\ maxBytes \in Limits /\ closed \in BOOLEAN
    /\ now \in 1 .. MaxTime
    /\ pc \in [Procs -> {"idle", "expired", "touch"}]
    /\ seen \in [Procs -> [k : Keys, elem : 0 .. MaxVersion]]
    /\ expiry \in Seq(1 .. Never) /\ Len(expiry) <= MaxVersion
    /\ reported \in [Versions -> Nat]

GotInv == got # 0 => got \in 1 .. Len(expiry) /\ now <= expiry[got]

\* Of n Sets, r counts the reports: none of what d still holds or of Sets to come.
Told(d, r, n) ==
    \A v \in Versions : /\ r[v] <= 1 /\ (v > n => r[v] = 0)
                        /\ r[v] = 1 => \A k \in Keys : d.items[k].v # v

IInv == RestOK /\ Tidy(c, expiry) /\ GotInv /\ Told(c, reported, Len(expiry))

-----------------------------------------------------------------------------
(* The list.                                                                  *)

LEMMA LeastOf ==
    ASSUME NEW S, S \subseteq Nat, S # {}
    PROVE  \E n \in S : \A j \in S : n <= j
<1>1. PICK n \in S : \A j \in S : ~ (<<j, n>> \in OpToRel(<, Nat))
  BY WFMin, NatLessThanWellFounded
<1>2. ASSUME NEW j \in S PROVE n <= j
  <2>1. j \in Nat /\ n \in Nat /\ <<j, n>> \in Nat \X Nat
    OBVIOUS
  <2>2. ~ (j < n)
    BY <1>1, <2>1 DEF OpToRel
  <2> QED
    BY <2>1, <2>2
<1> QED
  BY <1>2

LEMMA MemberIs ==
    ASSUME NEW S, NEW s \in Seq(S)
    PROVE  /\ Len(s) \in Nat /\ DOMAIN s = 1 .. Len(s)
           /\ \A e : e \in ToSet(s) <=> \E j \in 1 .. Len(s) : e = s[j]
           /\ ToSet(s) \subseteq S
  BY DEF ToSet

LEMMA AppendIs ==
    ASSUME NEW S, NEW s \in Seq(S), NEW e \in S
    PROVE  /\ Append(s, e) \in Seq(S) /\ Len(Append(s, e)) = Len(s) + 1
           /\ ToSet(Append(s, e)) = ToSet(s) \cup {e}
           /\ Distinct(s) /\ e \notin ToSet(s) => Distinct(Append(s, e))
<1> DEFINE t == Append(s, e)
<1>1. /\ t \in Seq(S) /\ Len(t) = Len(s) + 1 /\ t[Len(s) + 1] = e /\ Len(s) \in Nat
      /\ \A j \in 1 .. Len(s) : t[j] = s[j]
  OBVIOUS
<1> HIDE DEF t
<1>2. /\ \A j \in 1 .. Len(t) : j \in 1 .. Len(s) \/ j = Len(s) + 1
      /\ \A j \in 1 .. Len(s) : j \in 1 .. Len(t)
      /\ Len(s) + 1 \in 1 .. Len(t)
  BY <1>1
<1>3. ASSUME NEW x PROVE x \in ToSet(t) <=> x \in ToSet(s) \cup {e}
  BY <1>1, <1>2, MemberIs
<1>4. ASSUME Distinct(s), e \notin ToSet(s) PROVE Distinct(t)
  <2>1. DOMAIN t = 1 .. Len(t) /\ \A j \in 1 .. Len(s) : s[j] # e
    BY <1>1, <1>4, MemberIs
  <2>2. ASSUME NEW i \in 1 .. Len(t), NEW j \in 1 .. Len(t), t[i] = t[j] PROVE i = j
    BY <1>1, <1>2, <1>4, <2>1, <2>2 DEF Distinct
  <2> QED
    BY <2>1, <2>2 DEF Distinct
<1> QED
  BY <1>1, <1>3, <1>4 DEF t

\* f is the list that is kept after each element of l ...
PathOf(f, l, S) ==
    /\ \A i \in 0 .. Len(l) :
          f[i] = IF i = 0 THEN <<>>
                 ELSE IF l[i] \in S THEN f[i - 1] ELSE Append(f[i - 1], l[i])
    /\ Without(l, S) = f[Len(l)]

\* ... and it exists: the function of Without is well defined.
LEMMA WithoutPath ==
    ASSUME NEW T, NEW l \in Seq(T), NEW S
    PROVE  \E f : PathOf(f, l, S)
<1> DEFINE L == Len(l)
           next(f, i) == IF i = 0 THEN <<>>
                         ELSE IF l[i] \in S THEN f[i - 1] ELSE Append(f[i - 1], l[i])
           body(f) == [i \in 0 .. L |->
                         IF i = 0 THEN <<>>
                         ELSE IF l[i] \in S THEN f[i - 1] ELSE Append(f[i - 1], l[i])]
           path(n) == \E f : DOMAIN f = 0 .. n /\ \A i \in 0 .. n : f[i] = next(f, i)
           kept == CHOOSE f : f = body(f)
<1>1. L \in Nat
  OBVIOUS
<1>2. Without(l, S) = kept[L]
  BY DEF Without
<1>3. path(L)
  <2> DEFINE bad == {n \in 0 .. L : ~path(n)}
  <2> SUFFICES ASSUME bad # {} PROVE FALSE
    BY <1>1
  <2>1. PICK n \in bad : \A j \in bad : n <= j
    <3>1. bad \subseteq Nat
      BY <1>1
    <3> HIDE DEF bad
    <3> QED
      BY <3>1, LeastOf
  <2>2. n # 0
    <3>1. path(0)
      <4> DEFINE g == [i \in 0 .. 0 |-> <<>>]
      <4>1. DOMAIN g = 0 .. 0 /\ \A i \in 0 .. 0 : g[i] = next(g, i)
        OBVIOUS
      <4> QED
        BY <4>1
    <3> HIDE DEF path
    <3> QED
      BY <2>1, <3>1
  <2>3. path(n - 1)
    <3>1. n - 1 \in 0 .. L /\ ~(n <= n - 1)
      BY <1>1, <2>1, <2>2
    <3> HIDE DEF path
    <3> QED
      BY <2>1, <3>1
  <2>4. PICK f : DOMAIN f = 0 .. n - 1 /\ \A i \in 0 .. n - 1 : f[i] = next(f, i)
    BY <2>3
  <2> DEFINE g == [i \in 0 .. n |-> IF i = n THEN next(f, n) ELSE f[i]]
  <2>5. ASSUME NEW i \in 0 .. n PROVE g[i] = next(g, i)
    <3>1. CASE i = 0
      BY <1>1, <2>1, <2>2, <2>4, <3>1
    <3>2. CASE i # 0
      <4>1. i - 1 \in 0 .. n - 1 /\ i - 1 \in 0 .. n /\ i - 1 # n
        BY <1>1, <2>1, <3>2
      <4>2. g[i - 1] = f[i - 1]
        BY <4>1
      <4>3. next(g, i) = next(f, i)
        BY <3>2, <4>2
      <4>4. g[i] = next(f, i)
        <5>1. CASE i = n
          BY <5>1
        <5>2. CASE i # n
          <6>1. i \in 0 .. n - 1
            BY <1>1, <2>1, <5>2
          <6>2. g[i] = f[i]
            BY <5>2
          <6> HIDE DEF next, g
          <6> QED
            BY <2>4, <6>1, <6>2
        <5> QED
          BY <5>1, <5>2
      <4> QED
        BY <4>3, <4>4
    <3> QED
      BY <3>1, <3>2
  <2>6. path(n)
    <3>1. DOMAIN g = 0 .. n
      OBVIOUS
    <3> HIDE DEF g, next
    <3> QED
      BY <2>5, <3>1
  <2> QED
    BY <2>1, <2>6
<1>4. PICK f : DOMAIN f = 0 .. L /\ \A i \in 0 .. L : f[i] = next(f, i)
  BY <1>3
<1>5. \E h : h = body(h)
  <2> DEFINE h == [i \in 0 .. L |-> f[i]]
  <2>1. ASSUME NEW i \in 0 .. L PROVE body(h)[i] = f[i]
    <3>1. i # 0 => i - 1 \in 0 .. L
      BY <1>1
    <3> QED
      BY <1>4, <3>1
  <2>2. body(h) = h
    <3>1. \A i \in 0 .. L : body(h)[i] = h[i]
      BY <2>1
    <3>2. DOMAIN body(h) = 0 .. L /\ body(h) = [i \in 0 .. L |-> body(h)[i]]
      OBVIOUS
    <3> QED
      BY <3>1, <3>2
  <2> QED
    BY <2>2
<1>6. kept = body(kept)
  BY <1>5
<1> HIDE DEF kept
<1>7. \A i \in 0 .. L : kept[i] = next(kept, i)
  BY <1>6
<1> QED
  BY <1>2, <1>7 DEF PathOf

LEMMA WithoutIs ==
    ASSUME NEW T, NEW l \in Seq(T), NEW S
    PROVE  /\ Without(l, S) \in Seq(T)
           /\ ToSet(Without(l, S)) = ToSet(l) \ S
           /\ Distinct(l) => Distinct(Without(l, S))
<1> DEFINE L == Len(l)
<1>1. L \in Nat
  OBVIOUS
<1>2. PICK f : PathOf(f, l, S)
  <2>1. l \in Seq(T)
    OBVIOUS
  <2> QED
    BY ONLY <2>1, WithoutPath
<1> DEFINE met(i) == {x \in T : x \notin S /\ \E j \in 1 .. i : x = l[j]}
           good(i) == /\ f[i] \in Seq(T) /\ ToSet(f[i]) = met(i)
                      /\ Distinct(l) => Distinct(f[i])
<1>3. good(0)
  <2>1. f[0] = <<>>
    BY <1>1, <1>2 DEF PathOf
  <2>2. met(0) = {} /\ ToSet(<<>>) = {} /\ Distinct(<<>>) /\ <<>> \in Seq(T)
    BY DEF ToSet, Distinct
  <2> QED
    BY <2>1, <2>2
<1>4. ASSUME NEW i \in 1 .. L, good(i - 1) PROVE good(i)
  <2>1. i \in 0 .. L /\ i # 0 /\ i - 1 \in 0 .. L /\ l[i] \in T
    BY <1>1
  <2>2. /\ \A j \in 1 .. i : j = i \/ j \in 1 .. i - 1
        /\ \A j \in 1 .. i - 1 : j \in 1 .. i /\ j # i /\ j \in 1 .. L
        /\ i \in 1 .. i
    BY <1>1
  <2>3. CASE l[i] \in S
    <3>1. f[i] = f[i - 1]
      BY <1>2, <2>1, <2>3 DEF PathOf
    <3>2. met(i) = met(i - 1)
      BY <2>2, <2>3
    <3> QED
      BY <1>4, <3>1, <3>2
  <2>4. CASE l[i] \notin S
    <3> DEFINE g == f[i - 1]
               e == l[i]
    <3>1. f[i] = Append(g, e)
      BY <1>2, <2>1, <2>4 DEF PathOf
    <3>2. met(i) = met(i - 1) \cup {e}
      BY <2>1, <2>2, <2>4
    <3>3. Distinct(l) => e \notin met(i - 1)
      BY <1>1, <2>2 DEF Distinct
    <3>4. g \in Seq(T) /\ e \in T /\ ToSet(g) = met(i - 1) /\ (Distinct(l) => Distinct(g))
      BY <1>4, <2>1
    <3> HIDE DEF g, e, met
    <3>5. /\ Append(g, e) \in Seq(T) /\ ToSet(Append(g, e)) = ToSet(g) \cup {e}
          /\ Distinct(g) /\ e \notin ToSet(g) => Distinct(Append(g, e))
      BY <3>4, AppendIs
    <3> QED
      BY <3>1, <3>2, <3>3, <3>4, <3>5
  <2> QED
    BY <2>3, <2>4
<1> HIDE DEF good
<1>5. good(L)
  <2> DEFINE bad == {i \in 0 .. L : ~good(i)}
  <2> SUFFICES ASSUME bad # {} PROVE FALSE
    BY <1>1
  <2>1. PICK i \in bad : \A j \in bad : i <= j
    <3>1. bad \subseteq Nat
      BY <1>1
    <3> HIDE DEF bad
    <3> QED
      BY <3>1, LeastOf
  <2>2. i \in 1 .. L /\ i - 1 \in 0 .. L /\ ~(i <= i - 1)
    BY <1>1, <1>3, <2>1
  <2>3. good(i - 1)
    BY <2>1, <2>2
  <2> QED
    BY <1>4, <2>1, <2>2, <2>3
<1>6. met(L) = ToSet(l) \ S
  <2>1. /\ \A e : e \in ToSet(l) <=> \E j \in 1 .. Len(l) : e = l[j]
        /\ ToSet(l) \subseteq T
    BY MemberIs
  <2> QED
    BY <2>1
<1> QED
  BY <1>2, <1>5, <1>6 DEF good, PathOf

\* The keys at the front of the list.
LEMMA FrontIs ==
    ASSUME NEW T, NEW l \in Seq(T), NEW i \in 0 .. Len(l)
    PROVE  /\ ToSet(SubSeq(l, 1, i)) \subseteq ToSet(l)
           /\ i = Len(l) => ToSet(SubSeq(l, 1, i)) = ToSet(l)
<1>1. /\ SubSeq(l, 1, i) \in Seq(T) /\ Len(SubSeq(l, 1, i)) = i
      /\ \A j \in 1 .. i : SubSeq(l, 1, i)[j] = l[j]
  OBVIOUS
<1>2. \A j \in 1 .. i : j \in 1 .. Len(l)
  OBVIOUS
<1> DEFINE s == SubSeq(l, 1, i)
<1> HIDE DEF s
<1>3. /\ \A e : e \in ToSet(l) <=> \E j \in 1 .. Len(l) : e = l[j]
      /\ \A e : e \in ToSet(s) <=> \E j \in 1 .. i : e = l[j]
  <2>1. s \in Seq(T) /\ Len(s) = i /\ \A j \in 1 .. i : s[j] = l[j]
    BY <1>1 DEF s
  <2>2. \A e : e \in ToSet(s) <=> \E j \in 1 .. Len(s) : e = s[j]
    BY <2>1, MemberIs
  <2>3. \A e : e \in ToSet(l) <=> \E j \in 1 .. Len(l) : e = l[j]
    BY MemberIs
  <2> QED
    BY <2>1, <2>2, <2>3
<1> QED
  BY <1>2, <1>3 DEF s

LEMMA ListFinite ==
    ASSUME NEW T, NEW l \in Seq(T)
    PROVE  /\ IsFiniteSet(ToSet(l))
           /\ Distinct(l) => Cardinality(ToSet(l)) = Len(l)
<1> DEFINE f == [i \in 1 .. Len(l) |-> l[i]]
<1>1. Len(l) \in Nat /\ DOMAIN l = 1 .. Len(l)
  OBVIOUS
<1>2. /\ f \in [1 .. Len(l) -> ToSet(l)]
      /\ \A k \in ToSet(l) : \E i \in 1 .. Len(l) : f[i] = k
      /\ Distinct(l) => \A i, j \in 1 .. Len(l) : f[i] = f[j] => i = j
  BY <1>1, MemberIs DEF Distinct
<1> HIDE DEF f
<1>3. f \in Surjection(1 .. Len(l), ToSet(l))
  BY <1>2 DEF Surjection
<1>4. IsFiniteSet(1 .. Len(l)) /\ Cardinality(1 .. Len(l)) = Len(l)
  BY <1>1, FS_Interval
<1>5. IsFiniteSet(ToSet(l))
  BY <1>3, <1>4, FS_Surjection
<1>6. ASSUME Distinct(l) PROVE Cardinality(ToSet(l)) = Len(l)
  <2>1. f \in Injection(1 .. Len(l), ToSet(l))
    BY <1>2, <1>6 DEF Injection, IsInjective
  <2>2. ExistsBijection(1 .. Len(l), ToSet(l))
    BY <1>3, <2>1 DEF ExistsBijection, Bijection
  <2> QED
    BY <1>4, <2>2, FS_Bijection
<1> QED
  BY <1>5, <1>6

-----------------------------------------------------------------------------
(* The byte count: the sum of the sizes is a number of units.                 *)

SizeOf(d, S) == [k \in S |-> d.items[k].size]
Units(f, S) == {u \in S \X Nat : u[2] < f[u[1]]}

LEMMA OneKeysUnits ==
    ASSUME NEW S, NEW f \in [S -> Nat], NEW n \in S
    PROVE  IsFiniteSet(Units(f, {n})) /\ Cardinality(Units(f, {n})) = f[n]
<1> DEFINE I == 0 .. f[n] - 1
           count == [i \in I |-> <<n, i>>]
<1>1. IsFiniteSet(I) /\ Cardinality(I) = f[n]
  BY FS_Interval
<1>2. Units(f, {n}) = {<<n, i>> : i \in I}
  <2>1. \A i \in Nat : i < f[n] <=> i \in I
    OBVIOUS
  <2> QED
    BY <2>1 DEF Units
<1>3. count \in Injection(I, Units(f, {n}))
  BY <1>2 DEF Injection, IsInjective
<1>4. count \in Surjection(I, Units(f, {n}))
  BY <1>2 DEF Surjection
<1>5. ExistsBijection(I, Units(f, {n}))
  BY <1>3, <1>4 DEF ExistsBijection, Bijection
<1> QED
  BY <1>1, <1>5, FS_Bijection

LEMMA UnitsFinite ==
    ASSUME NEW S, IsFiniteSet(S), NEW f \in [S -> Nat], NEW A, A \subseteq S
    PROVE  IsFiniteSet(Units(f, A)) /\ Cardinality(Units(f, A)) \in Nat
<1> DEFINE parts == {Units(f, {n}) : n \in A}
           part == [n \in A |-> Units(f, {n})]
<1>1. part \in Surjection(A, parts)
  BY DEF Surjection
<1>2. IsFiniteSet(parts)
  BY <1>1, FS_Subset, FS_Surjection
<1>3. IsFiniteSet(UNION parts)
  <2>1. \A n \in S : IsFiniteSet(Units(f, {n}))
    BY OneKeysUnits
  <2> QED
    BY <1>2, <2>1, FS_UNION
<1>4. Units(f, A) = UNION parts
  BY DEF Units
<1> QED
  BY <1>3, <1>4, FS_CardinalityType

LEMMA UnitsUnion ==
    ASSUME NEW S, IsFiniteSet(S), NEW f \in [S -> Nat],
           NEW A, A \subseteq S, NEW B, B \subseteq S, A \cap B = {}
    PROVE  Cardinality(Units(f, A \cup B)) = Cardinality(Units(f, A)) + Cardinality(Units(f, B))
<1> DEFINE P == Units(f, A)
           Q == Units(f, B)
<1>1. Units(f, A \cup B) = P \cup Q /\ P \cap Q = {}
  BY DEF Units
<1>2. IsFiniteSet(P) /\ Cardinality(P) \in Nat
  BY UnitsFinite
<1>3. IsFiniteSet(Q) /\ Cardinality(Q) \in Nat
  BY UnitsFinite
<1> HIDE DEF P, Q
<1>4. Cardinality(P \cup Q) = Cardinality(P) + Cardinality(Q) - Cardinality(P \cap Q)
  BY <1>2, <1>3, FS_Union
<1>5. Cardinality(P \cap Q) = 0
  BY <1>1, FS_EmptySet
<1>6. Cardinality(P \cup Q) = Cardinality(P) + Cardinality(Q)
  BY <1>2, <1>3, <1>4, <1>5
<1> QED
  BY <1>1, <1>6 DEF P, Q

LEMMA UnitsSplit ==
    ASSUME NEW S, IsFiniteSet(S), NEW f \in [S -> Nat], NEW A, A \subseteq S, NEW n \in A
    PROVE  Cardinality(Units(f, A)) = f[n] + Cardinality(Units(f, A \ {n}))
<1>1. {n} \subseteq S /\ A \ {n} \subseteq S /\ {n} \cap (A \ {n}) = {} /\ {n} \cup (A \ {n}) = A
  OBVIOUS
<1>2. Cardinality(Units(f, {n} \cup (A \ {n})))
        = Cardinality(Units(f, {n})) + Cardinality(Units(f, A \ {n}))
  BY <1>1, UnitsUnion
<1>3. Cardinality(Units(f, {n})) = f[n]
  BY OneKeysUnits
<1> QED
  BY <1>1, <1>2, <1>3

LEMMA BytesIsUnits ==
    ASSUME NEW S, IsFiniteSet(S), NEW d, SizeOf(d, S) \in [S -> Nat]
    PROVE  Bytes(d, S) = Cardinality(Units(SizeOf(d, S), S))
<1> DEFINE f == SizeOf(d, S)
           pick(T) == CHOOSE x \in T : TRUE
           step(h) == [T \in SUBSET S |-> IF T = {} THEN 0
                                           ELSE d.items[pick(T)].size + h[T \ {pick(T)}]]
           iter == CHOOSE h : h = step(h)
           size == [T \in SUBSET S |-> Cardinality(Units(f, T))]
<1>1. Bytes(d, S) = iter[S]
  BY DEF Bytes, MapThenSumSet, MapThenFoldSet
<1>2. size = step(size)
  <2> SUFFICES ASSUME NEW T \in SUBSET S PROVE size[T] = step(size)[T]
    OBVIOUS
  <2>1. CASE T = {}
    <3>1. Units(f, T) = {}
      BY <2>1 DEF Units
    <3> QED
      BY <2>1, <3>1, FS_EmptySet
  <2>2. CASE T # {}
    <3>1. pick(T) \in T
      BY <2>2
    <3>2. T \ {pick(T)} \in SUBSET S
      OBVIOUS
    <3> HIDE DEF pick
    <3>3. d.items[pick(T)].size = f[pick(T)]
      BY <3>1 DEF SizeOf
    <3> HIDE DEF f
    <3>4. Cardinality(Units(f, T)) = f[pick(T)] + Cardinality(Units(f, T \ {pick(T)}))
      <4>1. f \in [S -> Nat] /\ T \subseteq S
        BY DEF f
      <4> QED
        BY <3>1, <4>1, UnitsSplit
    <3> QED
      BY <2>2, <3>2, <3>3, <3>4
  <2> QED
    BY <2>1, <2>2
<1> HIDE DEF step
<1>3. iter = step(iter)
  BY <1>2
<1> HIDE DEF iter
<1>4. \A T \in SUBSET S : iter[T] = size[T]
  <2> DEFINE bad == {T \in SUBSET S : iter[T] # size[T]}
  <2> SUFFICES ASSUME bad # {} PROVE FALSE
    OBVIOUS
  <2>1. IsWellFoundedOn(StrictSubsetOrdering(S), SUBSET S)
    BY FS_StrictSubsetOrderingWellFounded, FS_FiniteSubsetsOfFinite
  <2>2. PICK T \in bad : \A U \in bad : ~ (<<U, T>> \in StrictSubsetOrdering(S))
    BY <2>1, WFMin
  <2>3. \A U \in SUBSET T : U # T => iter[U] = size[U]
    BY <2>2 DEF StrictSubsetOrdering
  <2>4. step(iter)[T] = step(size)[T]
    <3>1. T # {} => T \ {pick(T)} \in SUBSET T /\ T \ {pick(T)} # T
      OBVIOUS
    <3> QED
      BY <2>3, <3>1 DEF step
  <2> QED
    BY <2>4, <1>2, <1>3
<1> QED
  BY <1>1, <1>4

\* The keys in S have sizes.
Sized(d, S) == IsFiniteSet(S) /\ \A k \in S : d.items[k].size \in Nat

LEMMA PartIs ==
    ASSUME NEW d, NEW S, Sized(d, S), NEW A, A \subseteq S
    PROVE  /\ SizeOf(d, S) \in [S -> Nat] /\ Sized(d, A)
           /\ Bytes(d, A) = Cardinality(Units(SizeOf(d, S), A)) /\ Bytes(d, A) \in Nat
<1>1. SizeOf(d, S) \in [S -> Nat] /\ SizeOf(d, A) \in [A -> Nat]
  BY DEF Sized, SizeOf
<1>2. IsFiniteSet(S) /\ IsFiniteSet(A) /\ Sized(d, A)
  BY FS_Subset DEF Sized
<1>3. Units(SizeOf(d, A), A) = Units(SizeOf(d, S), A)
  <2>1. \A u \in A \X Nat : SizeOf(d, A)[u[1]] = SizeOf(d, S)[u[1]]
    BY DEF SizeOf
  <2> QED
    BY <2>1 DEF Units
<1>4. Bytes(d, A) = Cardinality(Units(SizeOf(d, A), A))
  BY <1>1, <1>2, BytesIsUnits
<1>5. Cardinality(Units(SizeOf(d, S), A)) \in Nat
  <2> DEFINE f == SizeOf(d, S)
  <2>1. f \in [S -> Nat]
    BY <1>1
  <2> HIDE DEF f
  <2>2. Cardinality(Units(f, A)) \in Nat
    BY <1>2, <2>1, UnitsFinite
  <2> QED
    BY <2>2 DEF f
<1> QED
  BY <1>1, <1>2, <1>3, <1>4, <1>5

\* The bytes of a set are those of its parts.
LEMMA BytesSplit ==
    ASSUME NEW d, NEW S, Sized(d, S), NEW A, A \subseteq S
    PROVE  /\ Bytes(d, S) \in Nat /\ Bytes(d, A) \in Nat /\ Bytes(d, S \ A) \in Nat
           /\ Bytes(d, S) = Bytes(d, A) + Bytes(d, S \ A)
<1> DEFINE f == SizeOf(d, S)
           B == S \ A
<1>1. B \subseteq S /\ S \subseteq S /\ A \cap B = {} /\ A \cup B = S
  OBVIOUS
<1>2. f \in [S -> Nat] /\ IsFiniteSet(S)
  BY PartIs DEF Sized
<1>3. /\ Bytes(d, S) = Cardinality(Units(f, S)) /\ Bytes(d, S) \in Nat
      /\ Bytes(d, A) = Cardinality(Units(f, A)) /\ Bytes(d, A) \in Nat
      /\ Bytes(d, B) = Cardinality(Units(f, B)) /\ Bytes(d, B) \in Nat
  <2> HIDE DEF B
  <2> QED
    BY <1>1, PartIs
<1> HIDE DEF f, B
<1>4. Cardinality(Units(f, A \cup B)) = Cardinality(Units(f, A)) + Cardinality(Units(f, B))
  BY <1>1, <1>2, UnitsUnion
<1> QED
  BY <1>1, <1>3, <1>4 DEF B

LEMMA BytesOfOne ==
    ASSUME NEW d, NEW k, d.items[k].size \in Nat
    PROVE  Bytes(d, {k}) = d.items[k].size /\ Bytes(d, {}) = 0
<1> DEFINE S == {k}
           f == SizeOf(d, S)
           none == {}
<1>1. IsFiniteSet(S) /\ Sized(d, S) /\ S \subseteq S /\ none \subseteq S /\ k \in S
  BY FS_Singleton DEF Sized
<1>2. f[k] = d.items[k].size
  BY DEF SizeOf
<1> HIDE DEF S, none
<1>3. /\ f \in [S -> Nat] /\ Bytes(d, S) = Cardinality(Units(f, S))
      /\ Bytes(d, none) = Cardinality(Units(f, none))
  BY <1>1, PartIs
<1> HIDE DEF f
<1>4. Cardinality(Units(f, {k})) = f[k]
  BY <1>1, <1>3, OneKeysUnits
<1>5. Units(f, none) = {} /\ Cardinality({}) = 0
  BY FS_EmptySet DEF Units, none
<1> QED
  BY <1>2, <1>3, <1>4, <1>5 DEF S, none

\* They depend on nothing but the sizes.
LEMMA BytesSame ==
    ASSUME NEW d, NEW e, NEW S, Sized(d, S), \A k \in S : e.items[k].size = d.items[k].size
    PROVE  Sized(e, S) /\ Bytes(e, S) = Bytes(d, S)
<1>1. Sized(e, S) /\ SizeOf(e, S) = SizeOf(d, S) /\ S \subseteq S
  BY DEF Sized, SizeOf
<1> QED
  BY <1>1, PartIs

-----------------------------------------------------------------------------
(* What the critical sections do to the cache.                                *)

LEMMA TidyHas ==
    ASSUME NEW d, NEW e, Tidy(d, e)
    PROVE  /\ d.list \in Seq(Keys) /\ d.items \in [Keys -> Item]
           /\ d.expires \in [Keys -> 1 .. Never] /\ d.usedBytes \in Nat
           /\ Held(d) \subseteq Keys /\ Sized(d, Held(d))
           /\ d.usedBytes = Bytes(d, Held(d))
<1>1. d.list \in Seq(Keys)
  BY DEF Tidy, CacheType
<1>2. IsFiniteSet(Held(d))
  BY <1>1, ListFinite DEF Tidy
<1>3. \A k \in Held(d) : d.items[k].size \in Nat
  BY LruAssumption DEF Tidy
<1> QED
  BY <1>1, <1>2, <1>3 DEF Tidy, CacheType, Held, Sized

LEMMA FieldsAre ==
    ASSUME NEW d \in CacheType, NEW l, NEW i, NEW x, NEW u
    PROVE  [d EXCEPT !.list = l, !.items = i, !.expires = x, !.usedBytes = u]
             = [list |-> l, items |-> i, expires |-> x, usedBytes |-> u]
<1> DEFINE a == [d EXCEPT !.list = l]
           b == [a EXCEPT !.items = i]
           e == [b EXCEPT !.expires = x]
           f == [e EXCEPT !.usedBytes = u]
<1>1. a = [list |-> l, items |-> d.items, expires |-> d.expires, usedBytes |-> d.usedBytes]
  BY DEF CacheType
<1> HIDE DEF a
<1>2. b = [list |-> l, items |-> i, expires |-> d.expires, usedBytes |-> d.usedBytes]
  BY <1>1
<1> HIDE DEF b
<1>3. e = [list |-> l, items |-> i, expires |-> x, usedBytes |-> d.usedBytes]
  BY <1>2
<1> HIDE DEF e
<1>4. f = [list |-> l, items |-> i, expires |-> x, usedBytes |-> u]
  BY <1>3
<1> QED
  BY <1>4, Zenon DEF a, b, e, f

\* removeElement for keys that are there.
LEMMA RemovedIs ==
    ASSUME NEW d, NEW e, Tidy(d, e), NEW S, S \subseteq Held(d)
    PROVE  /\ Tidy(Removed(d, S), e)
           /\ Held(Removed(d, S)) = Held(d) \ S
           /\ \A k \in Keys : Removed(d, S).items[k] = IF k \in S THEN NoItem ELSE d.items[k]
<1> DEFINE r == Removed(d, S)
<1>1. /\ d.list \in Seq(Keys) /\ d.items \in [Keys -> Item]
      /\ d.expires \in [Keys -> 1 .. Never] /\ d.usedBytes \in Nat
      /\ Held(d) \subseteq Keys /\ Sized(d, Held(d)) /\ d.usedBytes = Bytes(d, Held(d))
  BY TidyHas
<1>2. /\ r = [list |-> Without(d.list, S),
               items |-> [k \in Keys |-> IF k \in S THEN NoItem ELSE d.items[k]],
               expires |-> [k \in Keys |-> IF k \in S THEN Never ELSE d.expires[k]],
               usedBytes |-> d.usedBytes - Bytes(d, S)]
  <2> DEFINE l == Without(d.list, S)
             i == [k \in Keys |-> IF k \in S THEN NoItem ELSE d.items[k]]
             x == [k \in Keys |-> IF k \in S THEN Never ELSE d.expires[k]]
             u == d.usedBytes - Bytes(d, S)
  <2>1. r = [d EXCEPT !.list = l, !.items = i, !.expires = x, !.usedBytes = u]
    BY DEF Removed
  <2>2. d \in CacheType
    BY DEF Tidy
  <2> HIDE DEF l, i, x, u, r
  <2>3. r = [list |-> l, items |-> i, expires |-> x, usedBytes |-> u]
    BY <2>1, <2>2, FieldsAre
  <2> QED
    BY <2>3 DEF l, i, x, u
<1>3. /\ r.list = Without(d.list, S) /\ r.usedBytes = d.usedBytes - Bytes(d, S)
      /\ r.items = [k \in Keys |-> IF k \in S THEN NoItem ELSE d.items[k]]
      /\ r.expires = [k \in Keys |-> IF k \in S THEN Never ELSE d.expires[k]]
  BY <1>2
<1>4. NoItem \in Item /\ Never \in 1 .. Never
  BY LruAssumption DEF NoItem, Item, Never
<1>5. /\ Without(d.list, S) \in Seq(Keys) /\ Distinct(Without(d.list, S))
      /\ ToSet(Without(d.list, S)) = ToSet(d.list) \ S
  BY <1>1, WithoutIs DEF Tidy
<1>6. /\ d.usedBytes - Bytes(d, S) \in Nat
      /\ d.usedBytes - Bytes(d, S) = Bytes(d, Held(d) \ S)
  <2> DEFINE all == Held(d)
  <2>1. Sized(d, all) /\ S \subseteq all
    BY <1>1
  <2> HIDE DEF all
  <2>2. /\ Bytes(d, all) \in Nat /\ Bytes(d, S) \in Nat /\ Bytes(d, all \ S) \in Nat
        /\ Bytes(d, all) = Bytes(d, S) + Bytes(d, all \ S)
    BY <2>1, BytesSplit
  <2>3. d.usedBytes = Bytes(d, all)
    BY <1>1 DEF all
  <2> QED
    BY <2>2, <2>3 DEF all
<1>7. \A k \in Keys : r.items[k] = IF k \in S THEN NoItem ELSE d.items[k]
  BY <1>3
<1>8. Held(r) = Held(d) \ S
  BY <1>1, <1>7 DEF Held, Has
<1>9. r \in CacheType
  <2>1. [k \in Keys |-> IF k \in S THEN NoItem ELSE d.items[k]] \in [Keys -> Item]
    BY <1>1, <1>4
  <2>2. [k \in Keys |-> IF k \in S THEN Never ELSE d.expires[k]] \in [Keys -> 1 .. Never]
    BY <1>1, <1>4
  <2> QED
    BY <1>2, <1>5, <1>6, <2>1, <2>2 DEF CacheType
<1> HIDE DEF r
<1>10. Bytes(r, Held(r)) = Bytes(d, Held(d) \ S)
  <2> DEFINE left == Held(d) \ S
  <2>1. Sized(d, left)
    BY <1>1, FS_Subset DEF Sized
  <2>2. \A k \in left : r.items[k].size = d.items[k].size
    BY <1>1, <1>7
  <2> HIDE DEF left
  <2>3. Bytes(r, left) = Bytes(d, left)
    BY <2>1, <2>2, BytesSame
  <2> QED
    BY <1>8, <2>3 DEF left
<1>11. Tidy(r, e)
  <2>1. Distinct(r.list) /\ ToSet(r.list) = Held(r)
    BY <1>3, <1>5, <1>8 DEF Tidy
  <2>2. \A k \in Keys : r.expires[k] # Never => Has(r, k)
    BY <1>3, <1>7 DEF Tidy, Has
  <2>3. r.usedBytes = Bytes(r, Held(r))
    BY <1>3, <1>6, <1>10
  <2>4. \A k \in Held(r) : /\ r.items[k].size \in Sizes /\ r.items[k].v \in 1 .. Len(e)
                           /\ r.expires[k] = e[r.items[k].v]
    BY <1>1, <1>3, <1>7, <1>8 DEF Tidy
  <2>5. \A j, k \in Held(r) : r.items[j].v = r.items[k].v => j = k
    BY <1>1, <1>7, <1>8 DEF Tidy
  <2> QED
    BY <1>9, <2>1, <2>2, <2>3, <2>4, <2>5 DEF Tidy
<1> QED
  BY <1>7, <1>8, <1>11 DEF r

\* evict takes what is there, and as much as it takes.
LEMMA ExcessIs ==
    ASSUME NEW d, NEW l \in Seq(Keys), Sized(d, ToSet(l)), NEW limit \in Nat
    PROVE  Excess(d, l, Bytes(d, ToSet(l)), limit) \in 0 .. Len(l)
<1> DEFINE used == Bytes(d, ToSet(l))
           fits(i) == limit = 0 \/ used - Bytes(d, ToSet(SubSeq(l, 1, i))) <= limit
           good == {i \in 0 .. Len(l) : fits(i)}
<1>1. Len(l) \in Nat /\ Len(l) \in 0 .. Len(l)
  OBVIOUS
<1>2. fits(Len(l))
  <2>1. ToSet(SubSeq(l, 1, Len(l))) = ToSet(l)
    BY <1>1, FrontIs
  <2>2. used \in Nat
    BY PartIs
  <2> HIDE DEF used
  <2>3. Bytes(d, ToSet(SubSeq(l, 1, Len(l)))) = used
    BY <2>1 DEF used
  <2> QED
    BY <2>2, <2>3
<1>3. PICK n \in good : \A j \in good : n <= j
  <2>1. good \subseteq Nat /\ good # {}
    BY <1>1, <1>2
  <2> HIDE DEF good
  <2> QED
    BY <2>1, LeastOf
<1>4. n \in 0 .. Len(l) /\ fits(n) /\ \A j \in 0 .. n - 1 : ~fits(j)
  <2>1. n \in 0 .. Len(l) /\ fits(n)
    BY <1>3
  <2>2. \A j \in 0 .. n - 1 : j \in 0 .. Len(l) /\ ~(n <= j)
    BY <1>1, <2>1
  <2> HIDE DEF fits
  <2> QED
    BY <1>3, <2>1, <2>2
<1>5. Excess(d, l, used, limit)
        = CHOOSE i \in 0 .. Len(l) : fits(i) /\ \A j \in 0 .. i - 1 : ~fits(j)
  BY DEF Excess
<1> HIDE DEF fits
<1> QED
  BY <1>4, <1>5

LEMMA VictimsAre ==
    ASSUME NEW d, NEW e, Tidy(d, e), NEW limit \in Nat
    PROVE  Victims(d, limit) \subseteq Held(d)
<1> DEFINE old == {k \in Held(d) : now > d.expires[k]}
           rest == Without(d.list, old)
           used == d.usedBytes - Bytes(d, old)
           n == Excess(d, rest, used, limit)
<1>1. d.list \in Seq(Keys) /\ Sized(d, Held(d)) /\ d.usedBytes = Bytes(d, Held(d))
  BY TidyHas
<1>2. rest \in Seq(Keys) /\ ToSet(rest) = Held(d) \ old /\ old \subseteq Held(d)
  BY <1>1, WithoutIs DEF Tidy
<1>3. Victims(d, limit) = old \cup ToSet(SubSeq(rest, 1, n))
  BY DEF Victims
<1> HIDE DEF old, rest
<1>4. Sized(d, ToSet(rest)) /\ used = Bytes(d, ToSet(rest))
  <2> DEFINE all == Held(d)
  <2>1. Sized(d, all) /\ old \subseteq all /\ ToSet(rest) = all \ old /\ d.usedBytes = Bytes(d, all)
    BY <1>1, <1>2
  <2> HIDE DEF all
  <2>2. /\ Bytes(d, all) \in Nat /\ Bytes(d, old) \in Nat /\ Bytes(d, all \ old) \in Nat
        /\ Bytes(d, all) = Bytes(d, old) + Bytes(d, all \ old)
    BY <2>1, BytesSplit
  <2>3. Sized(d, all \ old)
    BY <2>1, FS_Subset DEF Sized
  <2> QED
    BY <2>1, <2>2, <2>3
<1>5. n \in 0 .. Len(rest)
  BY <1>2, <1>4, ExcessIs
<1> HIDE DEF n
<1>6. ToSet(SubSeq(rest, 1, n)) \subseteq ToSet(rest)
  BY <1>2, <1>5, FrontIs
<1> QED
  BY <1>2, <1>3, <1>6

\* An element moves to the back.
LEMMA MovedIs ==
    ASSUME NEW l \in Seq(Keys), Distinct(l), NEW k \in ToSet(l)
    PROVE  /\ MoveToBack(l, k) \in Seq(Keys) /\ Distinct(MoveToBack(l, k))
           /\ ToSet(MoveToBack(l, k)) = ToSet(l)
<1> DEFINE w == Without(l, {k})
<1>1. w \in Seq(Keys) /\ Distinct(w) /\ ToSet(w) = ToSet(l) \ {k} /\ k \in Keys
  BY WithoutIs, MemberIs
<1> HIDE DEF w
<1>2. /\ Append(w, k) \in Seq(Keys) /\ ToSet(Append(w, k)) = ToSet(w) \cup {k}
      /\ Distinct(w) /\ k \notin ToSet(w) => Distinct(Append(w, k))
  BY <1>1, AppendIs
<1>3. MoveToBack(l, k) = Append(w, k)
  BY DEF MoveToBack, w
<1> QED
  BY <1>1, <1>2, <1>3

\* The cache d with the element of k at the end of list l, holding it.
Stored(d, l, k, it, exp, used) ==
    [list |-> l, items |-> [d.items EXCEPT ![k] = it],
     expires |-> [d.expires EXCEPT ![k] = exp], usedBytes |-> used]

\* A Set of k, whether k was there or not, with the bytes counted by difference.
LEMMA StoredIs ==
    ASSUME NEW d, NEW e \in Seq(1 .. Never), Tidy(d, e), NEW k \in Keys,
           NEW l \in Seq(Keys), Distinct(l), ToSet(l) = Held(d) \cup {k},
           NEW it \in Item, it.v = Len(e) + 1, it.size \in Sizes, NEW exp \in 1 .. Never,
           NEW used \in Int,
           used = (IF Has(d, k) THEN d.usedBytes - d.items[k].size ELSE d.usedBytes) + it.size
    PROVE  /\ Tidy(Stored(d, l, k, it, exp, used), Append(e, exp))
           /\ Held(Stored(d, l, k, it, exp, used)) = Held(d) \cup {k}
<1> DEFINE r == Stored(d, l, k, it, exp, used)
           x == Append(e, exp)
<1>1. /\ d.items \in [Keys -> Item] /\ d.expires \in [Keys -> 1 .. Never] /\ d.usedBytes \in Nat
      /\ Held(d) \subseteq Keys /\ Sized(d, Held(d)) /\ d.usedBytes = Bytes(d, Held(d))
  BY TidyHas
<1>2. /\ r.list = l /\ r.usedBytes = used
      /\ \A j \in Keys : r.items[j] = IF j = k THEN it ELSE d.items[j]
      /\ \A j \in Keys : r.expires[j] = IF j = k THEN exp ELSE d.expires[j]
  BY <1>1 DEF Stored
<1>3. /\ Len(e) \in Nat /\ Len(x) = Len(e) + 1 /\ x[Len(e) + 1] = exp
      /\ \A i \in 1 .. Len(e) : x[i] = e[i]
  OBVIOUS
<1> HIDE DEF x
<1>4. it # NoItem
  BY <1>3 DEF NoItem
<1>5. Held(r) = Held(d) \cup {k}
  BY <1>1, <1>2, <1>4 DEF Held, Has
<1>6. it.size \in Nat /\ \A j \in Held(d) : d.items[j].size \in Nat
  BY <1>1, LruAssumption DEF Sized
<1>7. Bytes(r, Held(r)) = used /\ used \in Nat
  <2> DEFINE others == Held(d) \ {k}
             all == Held(d)
             after == all \cup {k}
  <2>1. IsFiniteSet(all) /\ IsFiniteSet(after) /\ Sized(d, others)
    BY <1>1, FS_AddElement, FS_Subset DEF Sized
  <2>2. Sized(r, after)
    BY <1>1, <1>2, <1>6, <2>1 DEF Sized
  <2>3. Bytes(r, others) = Bytes(d, others)
    <3>1. \A j \in others : r.items[j].size = d.items[j].size
      BY <1>1, <1>2
    <3> HIDE DEF others, r
    <3> QED
      BY <2>1, <3>1, BytesSame
  <2>4. r.items[k].size = it.size
    BY <1>2
  <2> HIDE DEF r
  <2>5. /\ Bytes(r, after) = it.size + Bytes(r, others) /\ Bytes(r, others) \in Nat
    <3>1. {k} \subseteq after /\ after \ {k} = others
      OBVIOUS
    <3> DEFINE one == {k}
    <3>2. one \subseteq after /\ after \ one = others
      BY <3>1
    <3>3. Bytes(r, one) = it.size
      BY <1>6, <2>4, BytesOfOne
    <3> HIDE DEF after, others, one
    <3>4. Bytes(r, after) = Bytes(r, one) + Bytes(r, after \ one) /\ Bytes(r, after \ one) \in Nat
      BY <2>2, <3>2, BytesSplit
    <3> QED
      BY <3>2, <3>3, <3>4
  <2>6. d.usedBytes = (IF Has(d, k) THEN d.items[k].size ELSE 0) + Bytes(d, others)
    <3>1. CASE Has(d, k)
      <4>1. {k} \subseteq all /\ Sized(d, all) /\ d.usedBytes = Bytes(d, all) /\ k \in all
        BY <1>1, <3>1 DEF Held
      <4> DEFINE one == {k}
      <4>2. one \subseteq all /\ all \ one = others
        BY <4>1
      <4>3. Bytes(d, one) = d.items[k].size
        BY <4>1, BytesOfOne DEF Sized
      <4> HIDE DEF all, one, others
      <4>4. Bytes(d, all) = Bytes(d, one) + Bytes(d, all \ one)
        BY <4>1, <4>2, BytesSplit
      <4>5. d.usedBytes = d.items[k].size + Bytes(d, others)
        BY <4>1, <4>2, <4>3, <4>4
      <4> QED
        BY <3>1, <4>5
    <3>2. CASE ~Has(d, k)
      <4>1. others = all
        BY <3>2 DEF Held
      <4>2. d.usedBytes = Bytes(d, all) /\ Bytes(d, others) \in Nat
        BY <1>1, <2>3, <2>5
      <4> HIDE DEF others, all
      <4>3. d.usedBytes = 0 + Bytes(d, others)
        BY <4>1, <4>2
      <4> QED
        BY <3>2, <4>3
    <3> QED
      BY <3>1, <3>2
  <2>7. used = it.size + Bytes(d, others)
    <3>1. Bytes(d, others) \in Nat
      BY <2>3, <2>5
    <3> HIDE DEF others
    <3>2. CASE Has(d, k)
      <4>1. d.items[k].size \in Nat
        BY <1>6, <3>2 DEF Held
      <4> QED
        BY <1>6, <2>6, <3>1, <3>2, <4>1
    <3>3. CASE ~Has(d, k)
      BY <1>6, <2>6, <3>1, <3>3
    <3> QED
      BY <3>2, <3>3
  <2> QED
    BY <1>5, <1>6, <2>3, <2>5, <2>7
<1>8. r \in CacheType
  <2>1. [d.items EXCEPT ![k] = it] \in [Keys -> Item]
    BY <1>1
  <2>2. [d.expires EXCEPT ![k] = exp] \in [Keys -> 1 .. Never]
    BY <1>1
  <2> QED
    BY <1>7, <2>1, <2>2 DEF CacheType, Stored
<1> HIDE DEF r
<1>9. \A j \in Held(r) : j \in Keys /\ (j = k \/ (j # k /\ j \in Held(d)))
  BY <1>1, <1>5
<1>10. Tidy(r, x)
  <2>1. Distinct(r.list) /\ ToSet(r.list) = Held(r)
    BY <1>2, <1>5
  <2>2. \A j \in Keys : r.expires[j] # Never => Has(r, j)
    BY <1>2, <1>4 DEF Tidy, Has
  <2>3. r.usedBytes = Bytes(r, Held(r))
    BY <1>2, <1>7
  <2>4. ASSUME NEW j \in Held(r)
        PROVE  /\ r.items[j].size \in Sizes /\ r.items[j].v \in 1 .. Len(x)
               /\ r.expires[j] = x[r.items[j].v]
    <3>1. CASE j = k
      BY <1>2, <1>3, <3>1
    <3>2. CASE j # k
      <4>1. /\ j \in Held(d) /\ j \in Keys
            /\ d.items[j].size \in Sizes /\ d.items[j].v \in 1 .. Len(e)
            /\ d.expires[j] = e[d.items[j].v]
        BY <1>9, <3>2 DEF Tidy
      <4>2. r.items[j] = d.items[j] /\ r.expires[j] = d.expires[j]
        BY <1>2, <3>2, <4>1
      <4> QED
        BY <1>3, <4>1, <4>2
    <3> QED
      BY <3>1, <3>2
  <2>5. ASSUME NEW i \in Held(r), NEW j \in Held(r), r.items[i].v = r.items[j].v PROVE i = j
    <3>1. \A m \in Held(d) : d.items[m].v # Len(e) + 1
      BY <1>3 DEF Tidy
    <3>2. \A m, n \in Held(d) : d.items[m].v = d.items[n].v => m = n
      BY DEF Tidy
    <3>3. i \in Keys /\ j \in Keys /\ (i = k \/ i \in Held(d)) /\ (j = k \/ j \in Held(d))
      BY <1>9
    <3> QED
      BY <1>2, <2>5, <3>1, <3>2, <3>3
  <2> QED
    BY <1>8, <2>1, <2>2, <2>3, <2>4, <2>5 DEF Tidy
<1> QED
  BY <1>5, <1>10 DEF r, x

\* The Set of a key that is there ...
LEMMA OverwrittenIs ==
    ASSUME Tidy(c, expiry), NEW k \in Held(c), NEW exp, NEW size, NEW growth
    PROVE  Overwritten(k, exp, size, growth)
             = Stored(c, MoveToBack(c.list, k), k,
                      [v |-> Len(expiry) + 1, elem |-> c.items[k].elem, size |-> size],
                      exp, c.usedBytes + growth)
<1> DEFINE v == Len(expiry) + 1
           l == MoveToBack(c.list, k)
           u == c.usedBytes + growth
           i1 == [c.items EXCEPT ![k].v = v]
           i2 == [i1 EXCEPT ![k].size = size]
           x == [c.expires EXCEPT ![k] = exp]
           a == [c EXCEPT !.list = l]
           b == [a EXCEPT !.expires[k] = exp]
           f == [b EXCEPT !.items[k].v = v]
           g == [f EXCEPT !.items[k].size = size]
           h == [g EXCEPT !.usedBytes = u]
<1>1. /\ c = [list |-> c.list, items |-> c.items, expires |-> c.expires, usedBytes |-> c.usedBytes]
      /\ c.items \in [Keys -> Item] /\ k \in Keys
  BY DEF Tidy, CacheType, Held
<1>2. i2 = [c.items EXCEPT ![k] = [v |-> v, elem |-> c.items[k].elem, size |-> size]]
  <2> HIDE DEF v
  <2>1. c.items[k] \in Item
    BY <1>1
  <2>2. [c.items[k] EXCEPT !.v = v] = [v |-> v, elem |-> c.items[k].elem, size |-> c.items[k].size]
    BY <2>1 DEF Item
  <2>3. i1 = [c.items EXCEPT ![k] = [v |-> v, elem |-> c.items[k].elem, size |-> c.items[k].size]]
    BY <1>1, <2>2
  <2> HIDE DEF i1
  <2>4. i1[k] = [v |-> v, elem |-> c.items[k].elem, size |-> c.items[k].size]
    BY <1>1, <2>3
  <2>5. [i1[k] EXCEPT !.size = size] = [v |-> v, elem |-> c.items[k].elem, size |-> size]
    BY <2>4
  <2>6. i2 = [i1 EXCEPT ![k] = [v |-> v, elem |-> c.items[k].elem, size |-> size]]
    BY <2>5
  <2> QED
    BY <1>1, <2>3, <2>6
<1>3. a = [list |-> l, items |-> c.items, expires |-> c.expires, usedBytes |-> c.usedBytes]
  <2> HIDE DEF l
  <2> QED
    BY <1>1
<1> HIDE DEF a, l, u
<1>4. b = [list |-> l, items |-> c.items, expires |-> x, usedBytes |-> c.usedBytes]
  BY <1>3
<1> HIDE DEF b, x
<1>5. f = [list |-> l, items |-> i1, expires |-> x, usedBytes |-> c.usedBytes]
  BY <1>4
<1> HIDE DEF f, i1
<1>6. g = [list |-> l, items |-> i2, expires |-> x, usedBytes |-> c.usedBytes]
  BY <1>5
<1> HIDE DEF g, i2
<1>7. h = [list |-> l, items |-> i2, expires |-> x, usedBytes |-> u]
  BY <1>6
<1>8. Overwritten(k, exp, size, growth) = h
  BY Zenon DEF Overwritten, a, b, f, g, l, u, v
<1> HIDE DEF h
<1> QED
  BY <1>2, <1>7, <1>8 DEF Stored, l, u, x

\* ... and of a new one, before evict.
Pushed(k, exp, size) ==
    [c EXCEPT !.list = Append(@, k), !.expires[k] = exp,
              !.items[k] = [v |-> Len(expiry) + 1, elem |-> Len(expiry) + 1, size |-> size],
              !.usedBytes = @ + size]

LEMMA PushedIs ==
    ASSUME Tidy(c, expiry), NEW k \in Keys, NEW exp, NEW size
    PROVE  Pushed(k, exp, size)
             = Stored(c, Append(c.list, k), k,
                      [v |-> Len(expiry) + 1, elem |-> Len(expiry) + 1, size |-> size],
                      exp, c.usedBytes + size)
<1> DEFINE it == [v |-> Len(expiry) + 1, elem |-> Len(expiry) + 1, size |-> size]
           l == Append(c.list, k)
           u == c.usedBytes + size
           i == [c.items EXCEPT ![k] = it]
           x == [c.expires EXCEPT ![k] = exp]
           a == [c EXCEPT !.list = l]
           b == [a EXCEPT !.expires[k] = exp]
           f == [b EXCEPT !.items[k] = it]
           h == [f EXCEPT !.usedBytes = u]
<1>1. c = [list |-> c.list, items |-> c.items, expires |-> c.expires, usedBytes |-> c.usedBytes]
  BY DEF Tidy, CacheType
<1>2. Pushed(k, exp, size) = h
  BY Zenon DEF Pushed, a, b, f, it, l, u
<1> HIDE DEF it, l, u
<1>3. a = [list |-> l, items |-> c.items, expires |-> c.expires, usedBytes |-> c.usedBytes]
  BY <1>1
<1> HIDE DEF a
<1>4. b = [list |-> l, items |-> c.items, expires |-> x, usedBytes |-> c.usedBytes]
  BY <1>3
<1> HIDE DEF b, x
<1>5. f = [list |-> l, items |-> i, expires |-> x, usedBytes |-> c.usedBytes]
  BY <1>4
<1> HIDE DEF f, i
<1>6. h = [list |-> l, items |-> i, expires |-> x, usedBytes |-> u]
  BY <1>5
<1> QED
  BY <1>2, <1>6 DEF Stored, i, x, it, l, u

\* Another expiry for a key that is there: the one its value is now Set with.
LEMMA ExpiryIs ==
    ASSUME NEW d, NEW e \in Seq(1 .. Never), Tidy(d, e), NEW k \in Held(d), NEW exp \in 1 .. Never
    PROVE  Tidy([d EXCEPT !.expires[k] = exp], [e EXCEPT ![d.items[k].v] = exp])
<1> DEFINE r == [d EXCEPT !.expires[k] = exp]
           v == d.items[k].v
           x == [e EXCEPT ![v] = exp]
<1>1. /\ d.list \in Seq(Keys) /\ d.items \in [Keys -> Item]
      /\ d.expires \in [Keys -> 1 .. Never] /\ d.usedBytes \in Nat
      /\ k \in Keys /\ Held(d) \subseteq Keys /\ Sized(d, Held(d)) /\ d.usedBytes = Bytes(d, Held(d))
  BY TidyHas DEF Tidy, CacheType
<1>2. r = [list |-> d.list, items |-> d.items, expires |-> [d.expires EXCEPT ![k] = exp],
           usedBytes |-> d.usedBytes]
  <2> DEFINE z == [d.expires EXCEPT ![k] = exp]
  <2>1. r = [d EXCEPT !.expires = z]
    OBVIOUS
  <2> HIDE DEF z, r
  <2>2. r = [list |-> d.list, items |-> d.items, expires |-> z, usedBytes |-> d.usedBytes]
    BY <2>1 DEF Tidy, CacheType
  <2> QED
    BY <2>2 DEF z
<1>3. /\ r.list = d.list /\ r.items = d.items /\ r.usedBytes = d.usedBytes
      /\ r.expires \in [Keys -> 1 .. Never]
      /\ \A j \in Keys : r.expires[j] = IF j = k THEN exp ELSE d.expires[j]
  BY <1>1, <1>2
<1>4. r \in CacheType
  BY <1>1, <1>2, <1>3 DEF CacheType
<1>5. /\ v \in 1 .. Len(e) /\ Len(x) = Len(e) /\ Len(e) \in Nat
      /\ \A i \in 1 .. Len(e) : x[i] = IF i = v THEN exp ELSE e[i]
  <2>1. v \in 1 .. Len(e)
    BY DEF Tidy
  <2> HIDE DEF v
  <2> QED
    BY <2>1
<1> HIDE DEF r, x
<1>6. Held(r) = Held(d)
  BY <1>3 DEF Held, Has
<1>7. Bytes(r, Held(r)) = Bytes(d, Held(d))
  <2> DEFINE S == Held(d)
  <2>1. Sized(d, S) /\ \A j \in S : r.items[j].size = d.items[j].size
    BY <1>1, <1>3
  <2> HIDE DEF S
  <2>2. Bytes(r, S) = Bytes(d, S)
    BY <2>1, BytesSame
  <2> QED
    BY <1>6, <2>2 DEF S
<1>8. ASSUME NEW j \in Held(r)
      PROVE  /\ r.items[j].size \in Sizes /\ r.items[j].v \in 1 .. Len(x)
             /\ r.expires[j] = x[r.items[j].v]
  <2>1. /\ j \in Keys /\ j \in Held(d) /\ d.items[j].size \in Sizes
        /\ d.items[j].v \in 1 .. Len(e) /\ d.expires[j] = e[d.items[j].v]
    BY <1>1, <1>6 DEF Tidy
  <2>2. d.items[j].v = v <=> j = k
    BY <2>1 DEF Tidy
  <2> HIDE DEF v
  <2> QED
    BY <1>3, <1>5, <2>1, <2>2
<1>9. Tidy(r, x)
  <2>1. \A j \in Keys : r.expires[j] # Never => Has(r, j)
    <3>1. Has(r, k)
      BY <1>6 DEF Held
    <3>2. \A j \in Keys : d.expires[j] # Never => Has(r, j)
      BY <1>3 DEF Tidy, Has
    <3> QED
      BY <1>3, <3>1, <3>2
  <2>2. /\ Distinct(r.list) /\ ToSet(r.list) = Held(r) /\ r.usedBytes = Bytes(r, Held(r))
        /\ \A i, j \in Held(r) : r.items[i].v = r.items[j].v => i = j
    BY <1>1, <1>3, <1>6, <1>7 DEF Tidy
  <2> QED
    BY <1>4, <1>8, <2>1, <2>2 DEF Tidy
<1> QED
  BY <1>9 DEF r, x, v

\* The element of a key that is there moves to the back.
LEMMA TouchedIs ==
    ASSUME NEW d, NEW e, Tidy(d, e), NEW k \in Held(d)
    PROVE  /\ Tidy([d EXCEPT !.list = MoveToBack(@, k)], e)
           /\ [d EXCEPT !.list = MoveToBack(@, k)].items = d.items
<1> DEFINE l == MoveToBack(d.list, k)
           r == [d EXCEPT !.list = l]
<1>1. /\ d.list \in Seq(Keys) /\ d.items \in [Keys -> Item]
      /\ d.expires \in [Keys -> 1 .. Never] /\ d.usedBytes \in Nat
      /\ Held(d) \subseteq Keys /\ Sized(d, Held(d)) /\ d.usedBytes = Bytes(d, Held(d))
  BY TidyHas DEF Tidy, CacheType
<1>2. l \in Seq(Keys) /\ Distinct(l) /\ ToSet(l) = Held(d)
  BY <1>1, MovedIs DEF Tidy
<1> HIDE DEF l
<1>3. r = [list |-> l, items |-> d.items, expires |-> d.expires, usedBytes |-> d.usedBytes]
  BY DEF Tidy, CacheType
<1>4. r.list = l /\ r.items = d.items /\ r.expires = d.expires /\ r.usedBytes = d.usedBytes
  BY <1>3
<1>5. r \in CacheType
  BY <1>1, <1>2, <1>3 DEF CacheType
<1> HIDE DEF r
<1>6. Held(r) = Held(d) /\ \A j \in Keys : Has(r, j) <=> Has(d, j)
  BY <1>4 DEF Held, Has
<1>7. Bytes(r, Held(r)) = Bytes(d, Held(d))
  <2> DEFINE S == Held(d)
  <2>1. Sized(d, S) /\ \A j \in S : r.items[j].size = d.items[j].size
    BY <1>1, <1>4
  <2> HIDE DEF S
  <2>2. Bytes(r, S) = Bytes(d, S)
    BY <2>1, BytesSame
  <2> QED
    BY <1>6, <2>2 DEF S
<1>8. Tidy(r, e)
  BY <1>1, <1>2, <1>4, <1>5, <1>6, <1>7 DEF Tidy
<1> QED
  BY <1>4, <1>8 DEF r, l

-----------------------------------------------------------------------------
(* The steps.                                                                 *)

\* What is removed is reported, for the first time.
LEMMA RemovalKeeps ==
    ASSUME NEW d, NEW e \in Seq(1 .. Never), Tidy(d, e), Len(e) <= MaxVersion,
           NEW S, S \subseteq Held(d),
           reported \in [Versions -> Nat], Told(d, reported, Len(e)), RemoveElements(d, S)
    PROVE  /\ Tidy(c', e) /\ Told(c', reported', Len(e))
           /\ reported' \in [Versions -> Nat]
<1> DEFINE r == Removed(d, S)
           gone(v) == \E k \in S : d.items[k].v = v
<1>1. /\ c' = r
      /\ reported' = [v \in Versions |-> IF gone(v) THEN reported[v] + 1 ELSE reported[v]]
  BY DEF RemoveElements
<1>2. /\ Tidy(r, e) /\ Held(r) = Held(d) \ S
      /\ \A k \in Keys : r.items[k] = IF k \in S THEN NoItem ELSE d.items[k]
  BY RemovedIs
<1>3. Len(e) \in Nat /\ Held(d) \subseteq Keys
  BY DEF Held
<1> HIDE DEF r
<1>4. ASSUME NEW v \in Versions
      PROVE  /\ reported'[v] \in Nat /\ reported'[v] <= 1 /\ (v > Len(e) => reported'[v] = 0)
             /\ reported'[v] = 1 => \A k \in Keys : r.items[k].v # v
  <2>1. reported[v] \in Nat /\ v \in Nat /\ v # 0
    BY DEF Versions
  <2>2. reported'[v] = IF gone(v) THEN reported[v] + 1 ELSE reported[v]
    BY <1>1
  <2>3. CASE gone(v)
    <3>1. PICK k \in S : d.items[k].v = v
      BY <2>3
    <3>2. k \in Held(d) /\ k \in Keys /\ v \in 1 .. Len(e)
      BY <1>3, <3>1 DEF Tidy
    <3>3. reported[v] = 0
      BY <2>1, <3>1, <3>2 DEF Told
    <3>4. ASSUME NEW j \in Keys, r.items[j].v = v PROVE FALSE
      <4>1. j \notin S
        BY <1>2, <2>1, <3>4 DEF NoItem
      <4>2. d.items[j].v = v
        BY <1>2, <3>4, <4>1
      <4>3. j \in Held(d)
        BY <2>1, <4>2 DEF Held, Has, NoItem
      <4> QED
        BY <3>1, <3>2, <4>1, <4>2, <4>3 DEF Tidy
    <3>5. reported'[v] = 1
      BY <2>2, <2>3, <3>3
    <3> QED
      BY <1>3, <2>1, <3>2, <3>4, <3>5
  <2>4. CASE ~gone(v)
    <3>1. reported'[v] = reported[v]
      BY <2>2, <2>4
    <3>2. \A k \in Keys : r.items[k].v = v => d.items[k].v = v
      BY <1>2, <2>1 DEF NoItem
    <3> QED
      BY <2>1, <3>1, <3>2 DEF Told
  <2> QED
    BY <2>3, <2>4
<1>5. reported' \in [Versions -> Nat]
  <2> HIDE DEF gone
  <2> QED
    BY <1>1, <1>4
<1> QED
  BY <1>1, <1>2, <1>4, <1>5 DEF Told

\* Before another Set nothing is reported of it.
LEMMA StoredTold ==
    ASSUME NEW d, NEW e \in Seq(1 .. Never), Tidy(d, e), Told(d, reported, Len(e)),
           NEW l, NEW k \in Keys, NEW it, it.v = Len(e) + 1, NEW exp \in 1 .. Never, NEW used
    PROVE  Told(Stored(d, l, k, it, exp, used), reported, Len(Append(e, exp)))
<1> DEFINE r == Stored(d, l, k, it, exp, used)
<1>1. Len(e) \in Nat /\ Len(Append(e, exp)) = Len(e) + 1
  OBVIOUS
<1>2. \A j \in Keys : r.items[j] = IF j = k THEN it ELSE d.items[j]
  BY DEF Stored, Tidy, CacheType
<1> HIDE DEF r
<1>3. ASSUME NEW v \in Versions
      PROVE  /\ reported[v] <= 1 /\ (v > Len(e) + 1 => reported[v] = 0)
             /\ reported[v] = 1 => \A j \in Keys : r.items[j].v # v
  <2>1. v \in Nat
    BY DEF Versions
  <2>2. reported[v] <= 1 /\ (v > Len(e) => reported[v] = 0)
    BY DEF Told
  <2>3. ASSUME reported[v] = 1, NEW j \in Keys PROVE r.items[j].v # v
    <3>1. v # Len(e) + 1 /\ d.items[j].v # v
      BY <1>1, <2>1, <2>2, <2>3 DEF Told
    <3> QED
      BY <1>2, <3>1
  <2> QED
    BY <1>1, <2>1, <2>2, <2>3
<1> QED
  BY <1>1, <1>3 DEF Told, r

LEMMA Start == Init => IInv
<1> SUFFICES ASSUME Init PROVE IInv
  OBVIOUS
<1> DEFINE none == {}
<1>1. Held(c) = none
  BY DEF Init, Held, Has
<1>2. c \in CacheType
  BY LruAssumption DEF Init, CacheType, Item, NoItem, Never
<1>3. Distinct(c.list) /\ ToSet(c.list) = none
  BY DEF Init, Distinct, ToSet
<1>4. Bytes(c, none) = 0
  <2>1. PICK k \in Keys : TRUE
    BY LruAssumption
  <2>2. c.items[k].size \in Nat
    BY DEF Init, NoItem
  <2> QED
    BY <2>2, BytesOfOne
<1> HIDE DEF none
<1>5. Tidy(c, expiry)
  <2>1. c.usedBytes = 0 /\ \A k \in Keys : c.expires[k] = Never
    BY DEF Init
  <2>2. \A k \in Held(c) : FALSE
    BY <1>1 DEF none
  <2> QED
    BY <1>1, <1>2, <1>3, <1>4, <2>1, <2>2 DEF Tidy
<1>6. RestOK
  <2>1. NoElem \in [k : Keys, elem : 0 .. MaxVersion]
    BY LruAssumption DEF NoElem
  <2>2. seen \in [Procs -> [k : Keys, elem : 0 .. MaxVersion]]
    BY <2>1 DEF Init
  <2>3. expiry \in Seq(1 .. Never) /\ Len(expiry) = 0
    BY DEF Init
  <2>4. /\ reported \in [Versions -> Nat] /\ pc \in [Procs -> {"idle", "expired", "touch"}]
        /\ maxBytes \in Limits /\ closed \in BOOLEAN
    BY DEF Init
  <2>5. now \in 1 .. MaxTime /\ 0 <= MaxVersion
    BY LruAssumption DEF Init
  <2> QED
    BY <2>2, <2>3, <2>4, <2>5 DEF RestOK
<1> QED
  BY <1>5, <1>6 DEF Init, IInv, GotInv, Told

\* A step that removes and leaves the Gets alone.
LEMMA RemovalStep ==
    ASSUME IInv, NEW S, S \subseteq Held(c), RemoveElements(c, S), got' = 0,
           maxBytes' \in Limits, UNCHANGED <<closed, now, expiry>>,
           pc' \in [Procs -> {"idle", "expired", "touch"}],
           seen' \in [Procs -> [k : Keys, elem : 0 .. MaxVersion]]
    PROVE  IInv'
<1>1. /\ Tidy(c', expiry) /\ Told(c', reported', Len(expiry)) /\ reported' \in [Versions -> Nat]
  BY RemovalKeeps DEF IInv, RestOK
<1>2. Tidy(c, expiry)'
  BY <1>1
<1>3. Told(c, reported, Len(expiry))'
  BY <1>1
<1>4. RestOK'
  BY <1>1 DEF IInv, RestOK
<1> QED
  BY <1>2, <1>3, <1>4 DEF IInv, GotInv

\* A step that leaves the cache, the Sets and the reports alone.
LEMMA QuietStep ==
    ASSUME IInv, UNCHANGED <<c, expiry, reported>>, RestOK', GotInv'
    PROVE  IInv'
<1>1. Tidy(c, expiry)' /\ Told(c, reported, Len(expiry))'
  BY DEF IInv, Tidy, Told, Distinct, Held, Has
<1> QED
  BY <1>1 DEF IInv

LEMMA EndGetOK ==
    ASSUME IInv, NEW p \in Procs, EndGet(p)
    PROVE  /\ pc' \in [Procs -> {"idle", "expired", "touch"}]
           /\ seen' \in [Procs -> [k : Keys, elem : 0 .. MaxVersion]]
           /\ got' = 0 /\ maxBytes' \in Limits /\ UNCHANGED <<closed, now, expiry>>
<1>1. NoElem \in [k : Keys, elem : 0 .. MaxVersion]
  BY LruAssumption DEF NoElem
<1> QED
  BY <1>1 DEF IInv, RestOK, EndGet

LEMMA TickKeeps == IInv /\ Tick => IInv'
<1> SUFFICES ASSUME IInv, Tick PROVE IInv'
  OBVIOUS
<1>1. RestOK'
  BY LruAssumption DEF IInv, RestOK, Tick
<1>2. GotInv'
  BY DEF Tick, GotInv
<1> QED
  BY <1>1, <1>2, QuietStep DEF Tick

LEMMA CloseKeeps == IInv /\ Close => IInv'
<1> SUFFICES ASSUME IInv, Close PROVE IInv'
  OBVIOUS
<1>1. RestOK'
  BY DEF IInv, RestOK, Close
<1>2. GotInv'
  BY DEF Close, GotInv
<1> QED
  BY <1>1, <1>2, QuietStep DEF Close

LEMMA ClearKeeps == IInv /\ Clear => IInv'
<1> SUFFICES ASSUME IInv, Clear PROVE IInv'
  OBVIOUS
<1>1. /\ maxBytes' \in Limits /\ pc' \in [Procs -> {"idle", "expired", "touch"}]
      /\ seen' \in [Procs -> [k : Keys, elem : 0 .. MaxVersion]]
  BY DEF IInv, RestOK, Clear
<1> DEFINE S == Held(c)
<1>2. S \subseteq Held(c) /\ RemoveElements(c, S)
  BY DEF Clear
<1> HIDE DEF S
<1> QED
  BY <1>1, <1>2, RemovalStep DEF Clear

LEMMA CleanupKeeps == IInv /\ Cleanup => IInv'
<1> SUFFICES ASSUME IInv, Cleanup PROVE IInv'
  OBVIOUS
<1> DEFINE S == Victims(c, maxBytes)
<1>1. /\ maxBytes' \in Limits /\ pc' \in [Procs -> {"idle", "expired", "touch"}]
      /\ seen' \in [Procs -> [k : Keys, elem : 0 .. MaxVersion]]
  BY DEF IInv, RestOK, Cleanup
<1>2. S \subseteq Held(c)
  <2>1. maxBytes \in Nat
    BY LruAssumption DEF IInv, RestOK
  <2> QED
    BY <2>1, VictimsAre DEF IInv
<1>3. RemoveElements(c, S)
  BY DEF Cleanup
<1> HIDE DEF S
<1> QED
  BY <1>1, <1>2, <1>3, RemovalStep DEF Cleanup

LEMMA SetMaxBytesKeeps ==
    ASSUME IInv, NEW limit \in Limits, SetMaxBytes(limit)
    PROVE  IInv'
<1> DEFINE S == IF limit > 0 THEN Victims(c, limit) ELSE {}
<1>1. /\ maxBytes' \in Limits /\ pc' \in [Procs -> {"idle", "expired", "touch"}]
      /\ seen' \in [Procs -> [k : Keys, elem : 0 .. MaxVersion]]
  BY DEF IInv, RestOK, SetMaxBytes
<1>2. S \subseteq Held(c)
  <2>1. limit \in Nat
    BY LruAssumption
  <2> QED
    BY <2>1, VictimsAre DEF IInv
<1>3. RemoveElements(c, S)
  BY DEF SetMaxBytes
<1> HIDE DEF S
<1> QED
  BY <1>1, <1>2, <1>3, RemovalStep DEF SetMaxBytes

LEMMA DeleteKeeps ==
    ASSUME IInv, NEW k \in Keys, Delete(k)
    PROVE  IInv'
<1> DEFINE S == {k} \cap Held(c)
<1>1. /\ maxBytes' \in Limits /\ pc' \in [Procs -> {"idle", "expired", "touch"}]
      /\ seen' \in [Procs -> [k : Keys, elem : 0 .. MaxVersion]]
  BY DEF IInv, RestOK, Delete
<1>2. S \subseteq Held(c) /\ RemoveElements(c, S)
  BY DEF Delete
<1> HIDE DEF S
<1> QED
  BY <1>1, <1>2, RemovalStep DEF Delete

LEMMA DropExpiredKeeps ==
    ASSUME IInv, NEW p \in Procs, DropExpired(p)
    PROVE  IInv'
<1> DEFINE S == {seen[p].k} \cap Held(c)
<1>1. EndGet(p)
  BY DEF DropExpired
<1>2. S \subseteq Held(c) /\ RemoveElements(c, S)
  BY DEF DropExpired
<1> HIDE DEF S
<1> QED
  BY <1>1, <1>2, EndGetOK, RemovalStep

LEMMA TouchKeeps ==
    ASSUME IInv, NEW p \in Procs, Touch(p)
    PROVE  IInv'
<1> DEFINE k == seen[p].k
<1>1. EndGet(p) /\ UNCHANGED reported
  BY DEF Touch
<1>2. Tidy(c', expiry) /\ c'.items = c.items
  <2>1. k \in Keys
    BY DEF IInv, RestOK
  <2>2. c' = IF Has(c, k) /\ c.items[k].elem = seen[p].elem
             THEN [c EXCEPT !.list = MoveToBack(@, k)] ELSE c
    BY DEF Touch
  <2> HIDE DEF k
  <2>3. CASE Has(c, k)
    <3>1. k \in Held(c)
      BY <2>1, <2>3 DEF Held
    <3> QED
      BY <2>2, <3>1, TouchedIs DEF IInv
  <2>4. CASE ~Has(c, k)
    BY <2>2, <2>4 DEF IInv
  <2> QED
    BY <2>3, <2>4
<1>3. RestOK' /\ got' = 0 /\ UNCHANGED expiry
  BY <1>1, EndGetOK DEF IInv, RestOK
<1>4. Tidy(c, expiry)'
  BY <1>2, <1>3
<1>5. Told(c, reported, Len(expiry))'
  BY <1>1, <1>2, <1>3 DEF IInv, Told
<1> QED
  BY <1>3, <1>4, <1>5 DEF IInv, GotInv

LEMMA GetKeeps ==
    ASSUME IInv, NEW p \in Procs, NEW k \in Keys, Get(p, k)
    PROVE  IInv'
<1>1. UNCHANGED <<c, maxBytes, closed, now, expiry, reported>>
  BY DEF Get
<1>2. c.items[k].elem \in 0 .. MaxVersion
  BY DEF IInv, Tidy, CacheType, Item
<1>3. CASE GetMiss(p, k)
  <2>1. RestOK' /\ GotInv'
    BY <1>1, <1>3 DEF IInv, RestOK, GotInv, GetMiss
  <2> QED
    BY <1>1, <2>1, QuietStep
<1>4. CASE GetExpired(p, k)
  <2>1. RestOK' /\ GotInv'
    BY <1>1, <1>4 DEF IInv, RestOK, GotInv, GetExpired
  <2> QED
    BY <1>1, <2>1, QuietStep
<1>5. CASE GetHit(p, k)
  <2>1. RestOK'
    BY <1>1, <1>2, <1>5 DEF IInv, RestOK, GetHit
  <2>2. GotInv'
    <3>1. /\ k \in Held(c) /\ c.items[k].v \in 1 .. Len(expiry)
          /\ c.expires[k] = expiry[c.items[k].v] /\ c.expires[k] \in 1 .. Never
      BY <1>5 DEF IInv, Tidy, CacheType, GetHit, Held
    <3>2. now <= c.expires[k]
      <4>1. ~ (now > c.expires[k]) /\ now \in Nat /\ Never \in Nat
        BY <1>5, LruAssumption DEF GetHit, Expired, IInv, RestOK, Never
      <4> QED
        BY <3>1, <4>1
    <3>3. got' = c.items[k].v
      BY <1>5 DEF GetHit
    <3> QED
      BY <1>1, <3>1, <3>2, <3>3 DEF GotInv
  <2> QED
    BY <1>1, <2>1, <2>2, QuietStep
<1> QED
  BY <1>3, <1>4, <1>5 DEF Get

LEMMA UpdateExpirationKeeps ==
    ASSUME IInv, NEW k \in Keys, NEW exp \in Expiries, UpdateExpiration(k, exp)
    PROVE  IInv'
<1>1. exp \in 1 .. Never
  BY LruAssumption DEF Expiries, Never, IInv, RestOK
<1>2. k \in Held(c)
  BY DEF UpdateExpiration, Held
<1>3. Tidy(c', expiry')
  BY <1>1, <1>2, ExpiryIs DEF IInv, RestOK, UpdateExpiration
<1>4. expiry' \in Seq(1 .. Never) /\ Len(expiry') = Len(expiry)
  <2>1. c.items[k].v \in 1 .. Len(expiry) /\ expiry \in Seq(1 .. Never)
    BY <1>2 DEF IInv, RestOK, Tidy
  <2>2. expiry' = [expiry EXCEPT ![c.items[k].v] = exp]
    BY DEF UpdateExpiration
  <2> QED
    BY <1>1, <2>1, <2>2
<1>5. c'.items = c.items
  BY DEF UpdateExpiration, IInv, Tidy, CacheType
<1>6. RestOK' /\ GotInv'
  BY <1>4 DEF IInv, RestOK, GotInv, UpdateExpiration
<1>7. Tidy(c, expiry)'
  BY <1>3
<1>8. Told(c, reported, Len(expiry))'
  BY <1>4, <1>5 DEF IInv, Told, UpdateExpiration
<1> QED
  BY <1>6, <1>7, <1>8 DEF IInv

LEMMA SetKeeps ==
    ASSUME IInv, NEW k \in Keys, NEW exp \in Expiries, NEW size \in Sizes, Set(k, exp, size)
    PROVE  IInv'
<1> DEFINE x == Append(expiry, exp)
<1>1. exp \in 1 .. Never
  BY LruAssumption DEF Expiries, Never, IInv, RestOK
<1>2. /\ expiry \in Seq(1 .. Never) /\ Len(expiry) \in Nat /\ Len(expiry) < MaxVersion
      /\ x \in Seq(1 .. Never) /\ Len(x) = Len(expiry) + 1 /\ Len(x) <= MaxVersion
  BY <1>1, LruAssumption DEF IInv, RestOK, Set
<1>3. expiry' = x /\ UNCHANGED <<maxBytes, closed, now, pc, seen>> /\ got' = 0
  BY DEF Set
<1>4. /\ Tidy(c, expiry) /\ Told(c, reported, Len(expiry)) /\ c.usedBytes \in Nat
      /\ c.items \in [Keys -> Item] /\ c.list \in Seq(Keys)
      /\ reported \in [Versions -> Nat] /\ size \in Nat \ {0}
      /\ Distinct(c.list) /\ ToSet(c.list) = Held(c)
  BY LruAssumption DEF IInv, RestOK, Tidy, CacheType
<1>5. Len(expiry) + 1 \in 0 .. MaxVersion
  BY <1>2, LruAssumption
<1> HIDE DEF x
<1>6. Tidy(c', x) /\ Told(c', reported', Len(x)) /\ reported' \in [Versions -> Nat]
  <2>1. CASE Update(k, exp, size)
    <3> DEFINE it == [v |-> Len(expiry) + 1, elem |-> c.items[k].elem, size |-> size]
               l == MoveToBack(c.list, k)
               used == c.usedBytes + (size - c.items[k].size)
    <3>1. k \in Held(c) /\ Has(c, k)
      BY <2>1 DEF Update, Held
    <3>2. /\ it \in Item /\ it.v = Len(expiry) + 1 /\ it.size = size
      BY <1>4, <1>5 DEF Item
    <3>3. l \in Seq(Keys) /\ Distinct(l) /\ ToSet(l) = Held(c) \cup {k}
      BY <1>4, <3>1, MovedIs
    <3>4. used \in Int /\ used = c.usedBytes - c.items[k].size + it.size
      <4>1. c.items[k].size \in Nat
        BY <3>1, LruAssumption DEF IInv, Tidy
      <4> QED
        BY <1>4, <3>2, <4>1
    <3>5. c' = Stored(c, l, k, it, exp, used) /\ UNCHANGED reported
      BY <1>4, <2>1, <3>1, OverwrittenIs DEF Update
    <3> HIDE DEF it, l, used
    <3>6. used = (IF Has(c, k) THEN c.usedBytes - c.items[k].size ELSE c.usedBytes) + it.size
      BY <3>1, <3>4
    <3>7. Tidy(Stored(c, l, k, it, exp, used), Append(expiry, exp))
      BY <1>1, <1>2, <1>4, <3>2, <3>3, <3>4, <3>6, StoredIs
    <3>8. Told(Stored(c, l, k, it, exp, used), reported, Len(Append(expiry, exp)))
      BY <1>1, <1>2, <1>4, <3>2, StoredTold
    <3> QED
      BY <1>4, <3>5, <3>7, <3>8 DEF x
  <2>2. CASE Insert(k, exp, size)
    <3> DEFINE it == [v |-> Len(expiry) + 1, elem |-> Len(expiry) + 1, size |-> size]
               l == Append(c.list, k)
               used == c.usedBytes + size
               d == Pushed(k, exp, size)
               S == Victims(d, maxBytes)
    <3>1. k \notin Held(c) /\ ~Has(c, k)
      BY <2>2 DEF Insert, Held
    <3>2. it \in Item /\ it.v = Len(expiry) + 1 /\ it.size = size
      BY <1>5 DEF Item
    <3>3. l \in Seq(Keys) /\ Distinct(l) /\ ToSet(l) = Held(c) \cup {k}
      BY <1>4, <3>1, AppendIs
    <3>4. used \in Int /\ used = c.usedBytes + it.size
      BY <1>4, <3>2
    <3>5. d = Stored(c, l, k, it, exp, used)
      BY <1>4, PushedIs
    <3>6. RemoveElements(d, S)
      BY <2>2 DEF Insert, Pushed
    <3> HIDE DEF it, l, used, d, S
    <3>7. used = (IF Has(c, k) THEN c.usedBytes - c.items[k].size ELSE c.usedBytes) + it.size
      BY <3>1, <3>4
    <3>8. Tidy(d, x)
      <4>1. Tidy(Stored(c, l, k, it, exp, used), Append(expiry, exp))
        BY <1>1, <1>2, <1>4, <3>2, <3>3, <3>4, <3>7, StoredIs
      <4> QED
        BY <3>5, <4>1 DEF x
    <3>9. Told(d, reported, Len(x))
      <4>1. Told(Stored(c, l, k, it, exp, used), reported, Len(Append(expiry, exp)))
        BY <1>1, <1>2, <1>4, <3>2, StoredTold
      <4> QED
        BY <3>5, <4>1 DEF x
    <3>10. S \subseteq Held(d)
      <4>1. maxBytes \in Nat
        BY LruAssumption DEF IInv, RestOK
      <4> QED
        BY <3>8, <4>1, VictimsAre DEF S
    <3> QED
      BY <1>2, <1>4, <3>6, <3>8, <3>9, <3>10, RemovalKeeps
  <2> QED
    BY <2>1, <2>2 DEF Set
<1>7. RestOK'
  BY <1>2, <1>3, <1>6 DEF IInv, RestOK
<1>8. Tidy(c, expiry)' /\ Told(c, reported, Len(expiry))'
  BY <1>3, <1>6
<1> QED
  BY <1>3, <1>7, <1>8 DEF IInv, GotInv

LEMMA NextKeeps == IInv /\ [Next]_vars => IInv'
<1> SUFFICES ASSUME IInv, [Next]_vars PROVE IInv'
  OBVIOUS
<1>1. ASSUME NEW k \in Keys, Delete(k) PROVE IInv'
  BY <1>1, DeleteKeeps
<1>2. ASSUME NEW limit \in Limits, SetMaxBytes(limit) PROVE IInv'
  BY <1>2, SetMaxBytesKeeps
<1>3. ASSUME NEW k \in Keys, NEW exp \in Expiries, UpdateExpiration(k, exp) PROVE IInv'
  BY <1>3, UpdateExpirationKeeps
<1>4. ASSUME NEW k \in Keys, NEW exp \in Expiries, NEW size \in Sizes, Set(k, exp, size)
      PROVE  IInv'
  BY <1>4, SetKeeps
<1>5. ASSUME NEW p \in Procs, Touch(p) PROVE IInv'
  BY <1>5, TouchKeeps
<1>6. ASSUME NEW p \in Procs, DropExpired(p) PROVE IInv'
  BY <1>6, DropExpiredKeeps
<1>7. ASSUME NEW p \in Procs, NEW k \in Keys, Get(p, k) PROVE IInv'
  BY <1>7, GetKeeps
<1>8. CASE UNCHANGED vars
  <2>1. RestOK' /\ GotInv'
    BY <1>8 DEF IInv, RestOK, GotInv, vars
  <2> QED
    BY <1>8, <2>1, QuietStep DEF vars
<1> QED
  BY <1>1, <1>2, <1>3, <1>4, <1>5, <1>6, <1>7, <1>8,
     TickKeeps, ClearKeeps, CleanupKeeps, CloseKeeps DEF Next

-----------------------------------------------------------------------------
(* Every step of the store keeps IInv (lru.go 88-264).                        *)
THEOREM Inductive == Spec => []IInv
  BY Start, NextKeeps, PTL DEF Spec

(* The list, the maps and the counters of the store have their types, and at
   most MaxVersion values were Set (lru.go 21-55).                            *)
THEOREM TypeCorrect == Spec => []TypeOK
<1>1. IInv => TypeOK
  <2> SUFFICES ASSUME IInv PROVE TypeOK
    OBVIOUS
  <2>1. got \in 0 .. Len(expiry)
    <3>1. Len(expiry) \in Nat
      BY DEF IInv, RestOK
    <3> QED
      BY <3>1 DEF IInv, GotInv
  <2> QED
    BY <2>1 DEF IInv, RestOK, Tidy, CacheType, Item, TypeOK
<1> QED
  BY <1>1, Inductive, PTL

(* In a store used through Cache, which never calls Clear between the halves of a
   Get, the list, the items and the expires hold the same keys, one element each,
   and usedBytes, which the code keeps by differences, is the sum of their sizes:
   for any sizes and any order of Sets, Deletes, evictions and the halves of Gets
   (lru.go 117-121, 144-169, 179-189, 205-223; cache.go 161, 280).            *)
THEOREM StructuresStayInStep == Spec => []StructuresAgree
<1>1. IInv => StructuresAgree
  <2> SUFFICES ASSUME IInv PROVE StructuresAgree
    OBVIOUS
  <2>1. c.list \in Seq(Keys) /\ Distinct(c.list)
    BY DEF IInv, Tidy, CacheType
  <2>2. Cardinality(ToSet(c.list)) = Len(c.list)
    BY <2>1, ListFinite
  <2> QED
    BY <2>2 DEF IInv, Tidy, StructuresAgree
<1> QED
  BY <1>1, Inductive, PTL

(* No Get returns a value past the expiry last given to it (lru.go 100-112).  *)
THEOREM ServesNothingExpired == Spec => []NeverServedExpired
<1>1. IInv => NeverServedExpired
  BY DEF IInv, GotInv, NeverServedExpired
<1> QED
  BY <1>1, Inductive, PTL

(* OnEvicted is called at most once for a value, and not while the store holds
   it (lru.go 179-189, 231-237).                                              *)
THEOREM ReportsAreFinal == Spec => []ReportsFinal
<1>1. IInv => ReportsFinal
  BY DEF IInv, Told, ReportsFinal
<1> QED
  BY <1>1, Inductive, PTL
=============================================================================
