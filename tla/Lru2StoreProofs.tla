--------------------------- MODULE Lru2StoreProofs ---------------------------
(* Lru2Store: expired values are not served, forgotten ones do not come back
   and each is reported once, for every number of goroutines, keys, buckets,
   capacities and Sets.                                                       *)
EXTENDS Lru2Store, FiniteSetTheorems, TLAPS

\* A key has one node in a level.
Unique(s) == \A i, j \in DOMAIN s : s[i].k = s[j].k => i = j

\* A level of bucket b.
GoodLevel(s, b, cap) ==
    /\ s \in Seq(Nodes) /\ Len(s) <= cap /\ Unique(s)
    /\ \A e \in ToSet(s) : BucketOf[e.k] = b

-----------------------------------------------------------------------------
(* The operators of Recency.                                                  *)

LEMMA MemberIs ==
    ASSUME NEW S, NEW s \in Seq(S)
    PROVE  /\ Len(s) \in Nat /\ DOMAIN s = 1 .. Len(s)
           /\ \A e : e \in ToSet(s) <=> \E j \in 1 .. Len(s) : e = s[j]
           /\ ToSet(s) \subseteq S
  BY DEF ToSet

\* The parts of a concatenation.
LEMMA ConcatIs ==
    ASSUME NEW S, NEW a \in Seq(S), NEW b \in Seq(S)
    PROVE  /\ a \o b \in Seq(S) /\ Len(a \o b) = Len(a) + Len(b)
           /\ \A j \in 1 .. Len(a) : (a \o b)[j] = a[j]
           /\ \A j \in 1 .. Len(b) : (a \o b)[Len(a) + j] = b[j]
  OBVIOUS

LEMMA RemoveAtIs ==
    ASSUME NEW S, NEW s \in Seq(S), NEW i \in 1 .. Len(s)
    PROVE  /\ RemoveAt(s, i) \in Seq(S) /\ Len(RemoveAt(s, i)) = Len(s) - 1
           /\ \A j \in 1 .. Len(s) - 1 : RemoveAt(s, i)[j] = IF j < i THEN s[j] ELSE s[j + 1]
<1> DEFINE a == SubSeq(s, 1, i - 1)
           b == SubSeq(s, i + 1, Len(s))
<1>1. a \in Seq(S) /\ Len(a) = i - 1 /\ \A j \in 1 .. i - 1 : a[j] = s[j]
  OBVIOUS
<1>2. b \in Seq(S) /\ Len(b) = Len(s) - i /\ \A j \in 1 .. Len(s) - i : b[j] = s[i + j]
  OBVIOUS
<1> HIDE DEF a, b
<1>3. /\ a \o b \in Seq(S) /\ Len(a \o b) = Len(a) + Len(b)
      /\ \A j \in 1 .. Len(a) : (a \o b)[j] = a[j]
      /\ \A j \in 1 .. Len(b) : (a \o b)[Len(a) + j] = b[j]
  <2>1. a \in Seq(S) /\ b \in Seq(S)
    BY <1>1, <1>2
  <2> QED
    BY ONLY <2>1, ConcatIs
<1>4. a \o b \in Seq(S) /\ Len(a \o b) = Len(s) - 1
  <2>1. (i - 1) + (Len(s) - i) = Len(s) - 1
    OBVIOUS
  <2> QED
    BY <1>1, <1>2, <1>3, <2>1
<1>5. ASSUME NEW j \in 1 .. Len(s) - 1
      PROVE  (a \o b)[j] = IF j < i THEN s[j] ELSE s[j + 1]
  <2>1. CASE j < i
    <3>1. j \in 1 .. i - 1
      BY <2>1
    <3> QED
      BY <1>1, <1>3, <2>1, <3>1
  <2>2. CASE j >= i
    <3> DEFINE l == j - (i - 1)
    <3>1. l \in 1 .. Len(s) - i /\ (i - 1) + l = j /\ i + l = j + 1
      BY <2>2
    <3> HIDE DEF l
    <3>2. (a \o b)[Len(a) + l] = b[l]
      BY <1>2, <1>3, <3>1
    <3> QED
      BY <1>1, <1>2, <2>2, <3>1, <3>2
  <2>3. j < i \/ j >= i
    OBVIOUS
  <2> QED
    BY <2>1, <2>2, <2>3
<1>6. RemoveAt(s, i) = a \o b
  BY DEF RemoveAt, a, b
<1> QED
  BY <1>4, <1>5, <1>6

LEMMA PlaceIs ==
    ASSUME NEW S, NEW s \in Seq(S), NEW k, Has(s, k)
    PROVE  /\ PlaceOf(s, k) \in 1 .. Len(s) /\ s[PlaceOf(s, k)].k = k
           /\ NodeOf(s, k) = s[PlaceOf(s, k)] /\ NodeOf(s, k) \in S
  BY DEF Has, PlaceOf, NodeOf

LEMMA WithoutIs ==
    ASSUME NEW S, NEW s \in Seq(S), Unique(s), NEW k, Has(s, k)
    PROVE  /\ Without(s, k) \in Seq(S) /\ Len(Without(s, k)) = Len(s) - 1
           /\ Unique(Without(s, k))
           /\ ToSet(Without(s, k)) = {e \in ToSet(s) : e.k # k}
<1> DEFINE i == PlaceOf(s, k)
           w == Without(s, k)
<1>1. i \in 1 .. Len(s) /\ s[i].k = k
  BY PlaceIs
<1>2. /\ w \in Seq(S) /\ Len(w) = Len(s) - 1
      /\ \A j \in 1 .. Len(s) - 1 : w[j] = IF j < i THEN s[j] ELSE s[j + 1]
  BY <1>1, RemoveAtIs DEF Without
<1> HIDE DEF i, w
<1>3. Unique(w)
  <2> SUFFICES ASSUME NEW j \in 1 .. Len(s) - 1, NEW l \in 1 .. Len(s) - 1, w[j].k = w[l].k
               PROVE  j = l
    BY <1>2 DEF Unique
  <2> DEFINE up(x) == IF x < i THEN x ELSE x + 1
  <2>1. up(j) \in 1 .. Len(s) /\ up(l) \in 1 .. Len(s) /\ (up(j) = up(l) => j = l)
    BY <1>1
  <2>2. w[j] = s[up(j)] /\ w[l] = s[up(l)]
    BY <1>2
  <2> HIDE DEF up
  <2> QED
    BY <2>1, <2>2 DEF Unique
<1>4. ASSUME NEW e \in ToSet(w) PROVE e \in ToSet(s) /\ e.k # k
  <2>1. PICK j \in 1 .. Len(s) - 1 : e = w[j]
    BY <1>2 DEF ToSet
  <2>2. PICK l \in 1 .. Len(s) : e = s[l] /\ l # i
    BY <1>1, <1>2, <2>1
  <2> QED
    BY <1>1, <2>2 DEF ToSet, Unique
<1>5. ASSUME NEW e \in ToSet(s), e.k # k PROVE e \in ToSet(w)
  <2>1. PICK l \in 1 .. Len(s) : e = s[l]
    BY DEF ToSet
  <2>2. l # i
    BY <1>1, <1>5, <2>1
  <2>3. CASE l < i
    <3>1. l \in 1 .. Len(s) - 1 /\ w[l] = e
      BY <1>1, <1>2, <2>1, <2>3
    <3> QED
      BY <1>2, <3>1 DEF ToSet
  <2>4. CASE l > i
    <3>1. l - 1 \in 1 .. Len(s) - 1 /\ w[l - 1] = e
      BY <1>1, <1>2, <2>1, <2>4
    <3> QED
      BY <1>2, <3>1 DEF ToSet
  <2> QED
    BY <1>1, <2>2, <2>3, <2>4
<1> QED
  BY <1>2, <1>3, <1>4, <1>5 DEF w

\* A node of another key joins a level, at either end.
LEMMA JoinFrontIs ==
    ASSUME NEW S, NEW s \in Seq(S), Unique(s), NEW e \in S, NEW k, e.k = k, ~Has(s, k)
    PROVE  /\ <<e>> \o s \in Seq(S) /\ Len(<<e>> \o s) = Len(s) + 1 /\ Unique(<<e>> \o s)
           /\ ToSet(<<e>> \o s) = ToSet(s) \cup {e}
<1> DEFINE t == <<e>> \o s
<1>1. t \in Seq(S) /\ Len(t) = Len(s) + 1 /\ t[1] = e /\ \A j \in 1 .. Len(s) : t[j + 1] = s[j]
  OBVIOUS
<1> HIDE DEF t
<1>2. \A j \in 1 .. Len(t) : j = 1 \/ (j - 1 \in 1 .. Len(s) /\ t[j] = s[j - 1])
  BY <1>1
<1>3. Unique(t)
  <2>1. DOMAIN t = 1 .. Len(t) /\ \A j \in 1 .. Len(s) : s[j].k # k
    BY <1>1 DEF Has
  <2>2. ASSUME NEW i \in 1 .. Len(t), NEW j \in 1 .. Len(t), t[i].k = t[j].k PROVE i = j
    <3>1. CASE i = 1 \/ j = 1
      BY <1>1, <1>2, <2>1, <2>2, <3>1
    <3>2. CASE i # 1 /\ j # 1
      <4>1. i - 1 \in 1 .. Len(s) /\ j - 1 \in 1 .. Len(s) /\ s[i - 1].k = s[j - 1].k
        BY <1>2, <2>2, <3>2
      <4>2. i - 1 = j - 1
        BY <4>1 DEF Unique
      <4> QED
        BY <4>2
    <3> QED
      BY <3>1, <3>2
  <2> QED
    BY <2>1, <2>2 DEF Unique
<1>4. ASSUME NEW x PROVE x \in ToSet(t) <=> x \in ToSet(s) \cup {e}
  <2>1. ASSUME x \in ToSet(s) PROVE x \in ToSet(t)
    <3>1. PICK j \in 1 .. Len(s) : x = s[j]
      BY <2>1, MemberIs
    <3>2. j + 1 \in 1 .. Len(t) /\ x = t[j + 1]
      BY <1>1, <3>1
    <3> QED
      BY <1>1, <3>2, MemberIs
  <2>2. e \in ToSet(t)
    BY <1>1, MemberIs
  <2>3. x \in ToSet(t) => x \in ToSet(s) \cup {e}
    BY <1>1, <1>2, MemberIs
  <2> QED
    BY <2>1, <2>2, <2>3
<1> QED
  BY <1>1, <1>3, <1>4 DEF t

LEMMA JoinBackIs ==
    ASSUME NEW S, NEW s \in Seq(S), Unique(s), NEW e \in S, NEW k, e.k = k, ~Has(s, k)
    PROVE  /\ Append(s, e) \in Seq(S) /\ Len(Append(s, e)) = Len(s) + 1 /\ Unique(Append(s, e))
           /\ ToSet(Append(s, e)) = ToSet(s) \cup {e}
<1> DEFINE t == Append(s, e)
<1>1. /\ t \in Seq(S) /\ Len(t) = Len(s) + 1 /\ t[Len(s) + 1] = e
      /\ \A j \in 1 .. Len(s) : t[j] = s[j]
  OBVIOUS
<1> HIDE DEF t
<1>2. Unique(t)
  <2>1. \A j \in 1 .. Len(t) : (j \in 1 .. Len(s) /\ t[j] = s[j]) \/ (j = Len(s) + 1 /\ t[j] = e)
    BY <1>1
  <2>2. DOMAIN t = 1 .. Len(t) /\ \A j \in 1 .. Len(s) : s[j].k # k
    BY <1>1 DEF Has
  <2>3. ASSUME NEW i \in 1 .. Len(t), NEW j \in 1 .. Len(t), t[i].k = t[j].k PROVE i = j
    BY <2>1, <2>2, <2>3 DEF Unique
  <2> QED
    BY <2>2, <2>3 DEF Unique
<1>3. ASSUME NEW x PROVE x \in ToSet(t) <=> x \in ToSet(s) \cup {e}
  <2>1. \A j \in 1 .. Len(s) : j \in 1 .. Len(t)
    BY <1>1
  <2>2. \A j \in 1 .. Len(t) : j \in 1 .. Len(s) \/ j = Len(s) + 1
    BY <1>1
  <2> QED
    BY <1>1, <2>1, <2>2, MemberIs
<1> QED
  BY <1>1, <1>2, <1>3 DEF t

\* A full level gives up its last node.
LEMMA FrontIs ==
    ASSUME NEW S, NEW s \in Seq(S), Unique(s), Len(s) > 0,
           NEW f, f = SubSeq(s, 1, Len(s) - 1)
    PROVE  /\ f \in Seq(S) /\ Len(f) = Len(s) - 1 /\ Unique(f)
           /\ LastNode(s) \in ToSet(s)
           /\ ToSet(f) = ToSet(s) \ {LastNode(s)}
<1>1. Len(s) \in Nat /\ Len(s) - 1 \in Nat /\ Len(s) \in 1 .. Len(s) /\ LastNode(s) = s[Len(s)]
  BY DEF LastNode
<1>2. f \in Seq(S) /\ Len(f) = Len(s) - 1 /\ \A j \in 1 .. Len(s) - 1 : f[j] = s[j]
  <2>1. PICK i \in 1 .. Len(s) : i = Len(s)
    BY <1>1
  <2>2. f = SubSeq(s, 1, i - 1)
    BY <2>1
  <2>3. f \in Seq(S) /\ Len(f) = i - 1 /\ \A j \in 1 .. i - 1 : f[j] = s[j]
    BY <2>2
  <2> QED
    BY <2>1, <2>3
<1>3. Unique(f)
  BY <1>1, <1>2 DEF Unique
<1>4. ASSUME NEW e PROVE e \in ToSet(f) <=> e \in ToSet(s) \ {LastNode(s)}
  <2>1. e \in ToSet(s) <=> \E j \in 1 .. Len(s) : e = s[j]
    BY MemberIs
  <2>2. e \in ToSet(f) <=> \E j \in 1 .. Len(f) : e = f[j]
    BY ONLY <1>2, MemberIs
  <2>3. \A j \in 1 .. Len(s) : j = Len(s) \/ j \in 1 .. Len(f)
    BY <1>1, <1>2
  <2>4. \A j \in 1 .. Len(f) : j \in 1 .. Len(s) /\ f[j] = s[j] /\ f[j] # s[Len(s)]
    BY <1>1, <1>2 DEF Unique
  <2> QED
    BY <1>1, <2>1, <2>2, <2>3, <2>4
<1>5. LastNode(s) \in ToSet(s)
  BY <1>1, MemberIs
<1> QED
  BY <1>2, <1>3, <1>4, <1>5

LEMMA HasIs ==
    ASSUME NEW S, NEW s \in Seq(S), NEW k
    PROVE  /\ Has(s, k) <=> \E e \in ToSet(s) : e.k = k
           /\ Alive(s, k) <=> \E e \in Live(s) : e.k = k
           /\ Live(s) = {e \in ToSet(s) : e.exp > 0}
  BY DEF Has, Alive, Live, ToSet

\* The live node of a key is the one that is found.
LEMMA FoundIs ==
    ASSUME NEW S, NEW s \in Seq(S), Unique(s), NEW k, Alive(s, k)
    PROVE  /\ Has(s, k) /\ NodeOf(s, k) \in Live(s) /\ NodeOf(s, k).k = k
           /\ \A e \in Live(s) : e.k = k => e = NodeOf(s, k)
<1>1. Has(s, k)
  BY HasIs
<1>2. PlaceOf(s, k) \in 1 .. Len(s) /\ s[PlaceOf(s, k)].k = k /\ NodeOf(s, k) = s[PlaceOf(s, k)]
  BY <1>1, PlaceIs
<1>3. \A e \in ToSet(s) : e.k = k => e = NodeOf(s, k)
  BY <1>2, MemberIs DEF Unique
<1> QED
  BY <1>1, <1>2, <1>3, HasIs

LEMMA KillIs ==
    ASSUME NEW b, NEW cap, NEW s, GoodLevel(s, b, cap), NEW k
    PROVE  GoodLevel(Kill(s, k), b, cap) /\ Live(Kill(s, k)) = {e \in Live(s) : e.k # k}
<1>1. s \in Seq(Nodes) /\ Unique(s) /\ Len(s) <= cap /\ \A e \in ToSet(s) : e \in Nodes /\ BucketOf[e.k] = b
  BY MemberIs DEF GoodLevel
<1>2. CASE ~Alive(s, k)
  <2>1. \A e \in Live(s) : e.k # k
    BY <1>1, <1>2, HasIs
  <2> QED
    BY <1>2, <2>1 DEF Kill
<1>3. CASE Alive(s, k)
  <2> DEFINE n == Node(k, NodeOf(s, k).v, 0)
             w == Without(s, k)
             t == Append(w, n)
  <2>1. Kill(s, k) = t
    BY <1>3 DEF Kill
  <2>2. Has(s, k) /\ NodeOf(s, k) \in ToSet(s) /\ NodeOf(s, k).k = k
    BY <1>1, <1>3, FoundIs, HasIs
  <2>3. n \in Nodes /\ n.k = k /\ n.exp = 0 /\ BucketOf[k] = b
    BY <1>1, <2>2, StoreAssumption DEF Nodes, Node, Forever
  <2>4. /\ w \in Seq(Nodes) /\ Len(w) = Len(s) - 1 /\ Unique(w)
        /\ ToSet(w) = {e \in ToSet(s) : e.k # k}
    BY <1>1, <2>2, WithoutIs
  <2> HIDE DEF n, w
  <2>5. ~Has(w, k)
    BY <2>4, HasIs
  <2>6. t \in Seq(Nodes) /\ Len(t) = Len(s) /\ Unique(t) /\ ToSet(t) = ToSet(w) \cup {n}
    <3>1. t \in Seq(Nodes) /\ Len(t) = Len(w) + 1 /\ Unique(t) /\ ToSet(t) = ToSet(w) \cup {n}
      BY <2>3, <2>4, <2>5, JoinBackIs
    <3> HIDE DEF t
    <3> QED
      BY <1>1, <2>4, <3>1
  <2> HIDE DEF t
  <2>7. GoodLevel(t, b, cap)
    BY <1>1, <2>3, <2>4, <2>6 DEF GoodLevel
  <2>8. Live(t) = {e \in Live(s) : e.k # k}
    <3>1. Live(t) = {e \in ToSet(t) : e.exp > 0} /\ Live(s) = {e \in ToSet(s) : e.exp > 0}
      BY <1>1, <2>6, HasIs
    <3>2. ~(n.exp > 0)
      BY <2>3
    <3> QED
      BY <2>4, <2>6, <3>1, <3>2
  <2> QED
    BY <2>1, <2>7, <2>8
<1> QED
  BY <1>2, <1>3

LEMMA TouchIs ==
    ASSUME NEW b, NEW cap, NEW s, GoodLevel(s, b, cap), NEW k
    PROVE  GoodLevel(Touch(s, k), b, cap) /\ Live(Touch(s, k)) = Live(s)
<1>1. s \in Seq(Nodes) /\ Unique(s) /\ Len(s) <= cap /\ \A e \in ToSet(s) : e \in Nodes /\ BucketOf[e.k] = b
  BY MemberIs DEF GoodLevel
<1>2. CASE ~Has(s, k)
  BY <1>2 DEF Touch
<1>3. CASE Has(s, k)
  <2> DEFINE n == NodeOf(s, k)
             w == Without(s, k)
             t == <<n>> \o w
  <2>1. Touch(s, k) = t
    BY <1>3 DEF Touch
  <2>2. n \in ToSet(s) /\ n.k = k /\ \A e \in ToSet(s) : e.k = k => e = n
    BY <1>1, <1>3, PlaceIs, MemberIs DEF Unique
  <2>3. /\ w \in Seq(Nodes) /\ Len(w) = Len(s) - 1 /\ Unique(w)
        /\ ToSet(w) = {e \in ToSet(s) : e.k # k}
    BY <1>1, <1>3, WithoutIs
  <2> HIDE DEF n, w
  <2>4. ~Has(w, k)
    BY <2>3, HasIs
  <2>5. t \in Seq(Nodes) /\ Len(t) = Len(s) /\ Unique(t) /\ ToSet(t) = ToSet(s)
    <3>1. n \in Nodes
      BY <1>1, <2>2
    <3>2. t \in Seq(Nodes) /\ Len(t) = Len(w) + 1 /\ Unique(t) /\ ToSet(t) = ToSet(w) \cup {n}
      BY <2>2, <2>3, <2>4, <3>1, JoinFrontIs
    <3> HIDE DEF t
    <3>3. ToSet(w) \cup {n} = ToSet(s)
      BY <2>2, <2>3
    <3>4. Len(w) + 1 = Len(s)
      BY <1>1, <2>3
    <3> QED
      BY <3>2, <3>3, <3>4
  <2> HIDE DEF t
  <2>6. GoodLevel(t, b, cap) /\ Live(t) = Live(s)
    BY <1>1, <2>5, HasIs DEF GoodLevel
  <2> QED
    BY <2>1, <2>6
<1> QED
  BY <1>2, <1>3

\* A put of node n into s leaves t and evicts out.
PutDone(t, out, s, n, b, cap) ==
    /\ GoodLevel(t, b, cap)
    /\ out \subseteq {e \in Live(s) : e.k # n.k}
    /\ Live(t) = {n} \cup ({e \in Live(s) : e.k # n.k} \ out)

LEMMA PutIs ==
    ASSUME NEW b, NEW cap \in Nat \ {0}, NEW s, GoodLevel(s, b, cap), NEW k, BucketOf[k] = b,
           NEW v, NEW exp, Node(k, v, exp) \in Nodes, exp > 0
    PROVE  PutDone(PutNode(s, k, v, exp, cap), EvictedBy(s, k, cap), s, Node(k, v, exp), b, cap)
<1> DEFINE n == Node(k, v, exp)
           out == EvictedBy(s, k, cap)
           w == IF Has(s, k) THEN Without(s, k)
                ELSE IF Reuses(s, k, cap) THEN SubSeq(s, 1, Len(s) - 1) ELSE s
           t == <<n>> \o w
<1>1. s \in Seq(Nodes) /\ Unique(s) /\ Len(s) <= cap /\ \A e \in ToSet(s) : e \in Nodes /\ BucketOf[e.k] = b
  BY MemberIs DEF GoodLevel
<1>2. PutNode(s, k, v, exp, cap) = t
  BY DEF PutNode
<1>3. n \in Nodes /\ n.k = k /\ n.exp > 0
  BY DEF Node
<1>4. \A e \in ToSet(s) : e \in Live(s) <=> e.exp > 0
  BY <1>1, HasIs
<1>5. /\ w \in Seq(Nodes) /\ Len(w) + 1 <= cap /\ Unique(w) /\ ~Has(w, k)
      /\ ToSet(w) \subseteq ToSet(s)
      /\ out \subseteq {e \in Live(s) : e.k # k}
      /\ \A e \in ToSet(s) : e.exp > 0 => (e \in ToSet(w) <=> e.k # k /\ e \notin out)
  <2>1. CASE Has(s, k)
    <3>1. w = Without(s, k) /\ out = {}
      BY <2>1 DEF EvictedBy, Reuses
    <3>2. /\ w \in Seq(Nodes) /\ Len(w) = Len(s) - 1 /\ Unique(w)
          /\ ToSet(w) = {e \in ToSet(s) : e.k # k}
      BY <1>1, <2>1, <3>1, WithoutIs
    <3> HIDE DEF w, out
    <3>3. ~Has(w, k)
      BY <3>2, HasIs
    <3>4. Len(w) + 1 <= cap
      BY <1>1, <3>2
    <3> QED
      BY <3>1, <3>2, <3>3, <3>4
  <2>2. CASE ~Has(s, k) /\ Len(s) = cap
    <3>1. w = SubSeq(s, 1, Len(s) - 1) /\ Reuses(s, k, cap)
      BY <2>2 DEF Reuses
    <3>2. Len(s) > 0
      BY <2>2
    <3>3. /\ w \in Seq(Nodes) /\ Len(w) = Len(s) - 1 /\ Unique(w)
          /\ LastNode(s) \in ToSet(s)
          /\ ToSet(w) = ToSet(s) \ {LastNode(s)}
      BY <1>1, <3>1, <3>2, FrontIs
    <3>4. out = IF LastNode(s).exp > 0 THEN {LastNode(s)} ELSE {}
      BY <3>1 DEF EvictedBy
    <3> HIDE DEF w, out
    <3>5. \A e \in ToSet(s) : e.k # k
      BY <1>1, <2>2, HasIs
    <3>6. ~Has(w, k) /\ Len(w) + 1 <= cap
      BY <1>1, <3>3, <3>5, HasIs
    <3> QED
      BY <1>4, <3>3, <3>4, <3>5, <3>6
  <2>3. CASE ~Has(s, k) /\ Len(s) # cap
    <3>1. w = s /\ out = {}
      BY <2>3 DEF EvictedBy, Reuses
    <3>2. \A e \in ToSet(s) : e.k # k
      BY <1>1, <2>3, HasIs
    <3>3. Len(s) + 1 <= cap
      BY <1>1, <2>3
    <3> HIDE DEF w, out
    <3> QED
      BY <1>1, <2>3, <3>1, <3>2, <3>3
  <2> QED
    BY <2>1, <2>2, <2>3
<1> HIDE DEF w, n, out
<1>6. t \in Seq(Nodes) /\ Len(t) = Len(w) + 1 /\ Unique(t) /\ ToSet(t) = ToSet(w) \cup {n}
  BY <1>3, <1>5, JoinFrontIs
<1> HIDE DEF t
<1>7. GoodLevel(t, b, cap)
  BY <1>1, <1>3, <1>5, <1>6 DEF GoodLevel
<1>8. Live(t) = {n} \cup ({e \in Live(s) : e.k # k} \ out)
  <2>1. Live(t) = {e \in ToSet(t) : e.exp > 0} /\ Live(s) = {e \in ToSet(s) : e.exp > 0}
    BY <1>1, <1>6, HasIs
  <2> QED
    BY <1>3, <1>5, <1>6, <2>1
<1> QED
  BY <1>2, <1>3, <1>5, <1>7, <1>8 DEF n, out, PutDone

LEMMA LeastOf ==
    ASSUME NEW S, S \subseteq Nat, S # {}
    PROVE  \E n \in S : \A j \in S : n <= j
<1>1. PICK n \in S : \A j \in S : ~ (<<j, n>> \in OpToRel(<, Nat))
  BY WFMin, NatLessThanWellFounded
<1>2. ASSUME NEW j \in S PROVE n <= j
  <2>1. j \in Nat /\ n \in Nat /\ <<j, n>> \in Nat \X Nat
    OBVIOUS
  <2>2. ~ (j < n)
    BY <1>1, <2>1 DEF OpToRel
  <2> QED
    BY <2>1, <2>2
<1> QED
  BY <1>2

\* f is the levels that a walk passes through ...
PathOf(f, s, walk, nodes) ==
    /\ \A i \in 0 .. Len(walk) :
          f[i] = IF i = 0 THEN s
                 ELSE IF walk[i] \in nodes THEN Kill(f[i - 1], walk[i].k)
                 ELSE f[i - 1]
    /\ Swept(s, walk, nodes) = f[Len(walk)]

\* ... and they exist: the function of Swept is well defined.
LEMMA SweptPath ==
    ASSUME NEW S, NEW s, NEW walk \in Seq(S), NEW nodes
    PROVE  \E f : PathOf(f, s, walk, nodes)
<1> DEFINE L == Len(walk)
           next(f, i) == IF i = 0 THEN s
                         ELSE IF walk[i] \in nodes THEN Kill(f[i - 1], walk[i].k)
                         ELSE f[i - 1]
           body(f) == [i \in 0 .. L |-> IF i = 0 THEN s
                                        ELSE IF walk[i] \in nodes THEN Kill(f[i - 1], walk[i].k)
                                        ELSE f[i - 1]]
           path(n) == \E f : DOMAIN f = 0 .. n /\ \A i \in 0 .. n : f[i] = next(f, i)
           after == CHOOSE f : f = body(f)
<1>1. L \in Nat
  OBVIOUS
<1>2. Swept(s, walk, nodes) = after[L]
  BY DEF Swept
<1>3. path(L)
  <2> DEFINE bad == {n \in 0 .. L : ~path(n)}
  <2> SUFFICES ASSUME bad # {} PROVE FALSE
    BY <1>1
  <2>1. PICK n \in bad : \A j \in bad : n <= j
    <3>1. bad \subseteq Nat
      BY <1>1
    <3> HIDE DEF bad
    <3> QED
      BY <3>1, LeastOf
  <2>2. n # 0
    <3>1. path(0)
      <4> DEFINE g == [i \in 0 .. 0 |-> s]
      <4>1. DOMAIN g = 0 .. 0 /\ \A i \in 0 .. 0 : g[i] = next(g, i)
        OBVIOUS
      <4> QED
        BY <4>1
    <3> HIDE DEF path
    <3> QED
      BY <2>1, <3>1
  <2>3. path(n - 1)
    <3>1. n - 1 \in 0 .. L /\ ~(n <= n - 1)
      BY <1>1, <2>1, <2>2
    <3> HIDE DEF path
    <3> QED
      BY <2>1, <3>1
  <2>4. PICK f : DOMAIN f = 0 .. n - 1 /\ \A i \in 0 .. n - 1 : f[i] = next(f, i)
    BY <2>3
  <2> DEFINE g == [i \in 0 .. n |-> IF i = n THEN next(f, n) ELSE f[i]]
  <2>5. ASSUME NEW i \in 0 .. n PROVE g[i] = next(g, i)
    <3>1. CASE i = 0
      BY <1>1, <2>1, <2>2, <2>4, <3>1
    <3>2. CASE i # 0
      <4>1. i - 1 \in 0 .. n - 1 /\ i - 1 \in 0 .. n /\ i - 1 # n
        BY <1>1, <2>1, <3>2
      <4>2. g[i - 1] = f[i - 1]
        BY <4>1
      <4>3. next(g, i) = next(f, i)
        BY <3>2, <4>2
      <4>4. g[i] = next(f, i)
        <5>1. CASE i = n
          BY <5>1
        <5>2. CASE i # n
          <6>1. i \in 0 .. n - 1
            BY <1>1, <2>1, <5>2
          <6>2. g[i] = f[i]
            BY <5>2
          <6> HIDE DEF next, g
          <6> QED
            BY <2>4, <6>1, <6>2
        <5> QED
          BY <5>1, <5>2
      <4> QED
        BY <4>3, <4>4
    <3> QED
      BY <3>1, <3>2
  <2>6. path(n)
    <3>1. DOMAIN g = 0 .. n
      OBVIOUS
    <3> HIDE DEF g, next
    <3> QED
      BY <2>5, <3>1
  <2> QED
    BY <2>1, <2>6
<1>4. PICK f : DOMAIN f = 0 .. L /\ \A i \in 0 .. L : f[i] = next(f, i)
  BY <1>3
<1>5. \E h : h = body(h)
  <2> DEFINE h == [i \in 0 .. L |-> f[i]]
  <2>1. ASSUME NEW i \in 0 .. L PROVE body(h)[i] = f[i]
    <3>1. i # 0 => i - 1 \in 0 .. L
      BY <1>1
    <3> QED
      BY <1>4, <3>1
  <2>2. body(h) = h
    <3>1. \A i \in 0 .. L : body(h)[i] = h[i]
      BY <2>1
    <3>2. DOMAIN body(h) = 0 .. L /\ body(h) = [i \in 0 .. L |-> body(h)[i]]
      OBVIOUS
    <3> QED
      BY <3>1, <3>2
  <2> QED
    BY <2>2
<1>6. after = body(after)
  BY <1>5
<1> HIDE DEF after
<1>7. \A i \in 0 .. L : after[i] = next(after, i)
  BY <1>6
<1> QED
  BY <1>2, <1>7 DEF PathOf

LEMMA SweptIs ==
    ASSUME NEW b, NEW cap, NEW s, GoodLevel(s, b, cap), NEW walk \in Seq(Nodes), NEW nodes
    PROVE  LET t == Swept(s, walk, nodes) IN
           /\ GoodLevel(t, b, cap)
           /\ Live(t) = {e \in Live(s) : \A j \in 1 .. Len(walk) : walk[j] \in nodes => walk[j].k # e.k}
<1> DEFINE L == Len(walk)
<1>1. L \in Nat
  OBVIOUS
<1>2. PICK f : PathOf(f, s, walk, nodes)
  <2>1. walk \in Seq(Nodes)
    OBVIOUS
  <2> QED
    BY ONLY <2>1, SweptPath
<1> DEFINE left(i) == {e \in Live(s) : \A j \in 1 .. i : walk[j] \in nodes => walk[j].k # e.k}
           good(i) == GoodLevel(f[i], b, cap) /\ Live(f[i]) = left(i)
<1>3. good(0)
  <2>1. f[0] = s
    BY <1>1, <1>2 DEF PathOf
  <2>2. left(0) = Live(s)
    OBVIOUS
  <2> QED
    BY <2>1, <2>2
<1>4. ASSUME NEW i \in 1 .. L, good(i - 1) PROVE good(i)
  <2>1. i \in 0 .. L /\ i # 0 /\ i - 1 \in 0 .. L
    BY <1>1
  <2>2. \A j \in 1 .. i : j = i \/ j \in 1 .. i - 1
    BY <1>1
  <2>3. \A j \in 1 .. i - 1 : j \in 1 .. i
    BY <1>1
  <2>4. i \in 1 .. i
    BY <1>1
  <2>5. CASE walk[i] \in nodes
    <3>1. f[i] = Kill(f[i - 1], walk[i].k)
      BY <1>2, <2>1, <2>5 DEF PathOf
    <3>2. GoodLevel(f[i], b, cap) /\ Live(f[i]) = {e \in Live(f[i - 1]) : e.k # walk[i].k}
      BY <1>4, <3>1, KillIs
    <3>3. left(i) = {e \in left(i - 1) : e.k # walk[i].k}
      BY <2>2, <2>3, <2>4, <2>5
    <3> QED
      BY <1>4, <3>2, <3>3
  <2>6. CASE walk[i] \notin nodes
    <3>1. f[i] = f[i - 1]
      BY <1>2, <2>1, <2>6 DEF PathOf
    <3>2. left(i) = left(i - 1)
      BY <2>2, <2>3, <2>6
    <3> QED
      BY <1>4, <3>1, <3>2
  <2> QED
    BY <2>5, <2>6
<1> HIDE DEF good
<1>5. good(L)
  <2> DEFINE bad == {i \in 0 .. L : ~good(i)}
  <2> SUFFICES ASSUME bad # {} PROVE FALSE
    BY <1>1
  <2>1. PICK i \in bad : \A j \in bad : i <= j
    <3>1. bad \subseteq Nat
      BY <1>1
    <3> HIDE DEF bad
    <3> QED
      BY <3>1, LeastOf
  <2>2. i \in 1 .. L /\ i - 1 \in 0 .. L /\ ~(i <= i - 1)
    BY <1>1, <1>3, <2>1
  <2>3. good(i - 1)
    BY <2>1, <2>2
  <2> QED
    BY <1>4, <2>1, <2>2, <2>3
<1> QED
  BY <1>2, <1>5 DEF good, PathOf

-----------------------------------------------------------------------------
(* The inductive invariant.                                                   *)

Sets == [k : Keys, exp : 1 .. Forever]
Putting == {q \in Procs : pc[q] = "put"}

RestOK ==
    /\ now \in 1 .. MaxTime /\ closed \in BOOLEAN
    /\ log \in Seq(Sets)
    /\ pc \in [Procs -> {"idle", "put", "collect", "clear"}]
    /\ set \in [Procs -> Sets \cup {NoSet}]
    /\ \A p \in Putting : set[p] \in Sets
    /\ at \in [Procs -> Buckets] /\ keys \in [Procs -> SUBSET Keys]
    /\ since \in [Procs -> Nat] /\ \A p \in Procs : since[p] <= Len(log)
    /\ sweepAt \in 0 .. BucketCount /\ sweepTime \in 0 .. MaxTime
    /\ reported \in [Versions -> Nat]
    /\ forgotten \in [Keys -> Nat] /\ \A k \in Keys : forgotten[k] <= Len(log)

\* The Sets that have begun are within the bound on the versions.
RoomInv == IsFiniteSet(Putting) /\ Len(log) + Cardinality(Putting) <= MaxVersion

\* No version is in both levels of a bucket.
Apart(l1, l2) == \A d \in Live(l1), e \in Live(l2) : d.v # e.v

LevelsInv ==
    /\ level \in [Buckets -> Seq(Nodes) \X Seq(Nodes)]
    /\ \A b \in Buckets : /\ GoodLevel(level[b][1], b, L1Cap)
                          /\ GoodLevel(level[b][2], b, L2Cap)
                          /\ Apart(level[b][1], level[b][2])

\* A live node is what a Set left there, whatever moved it since.
Logged(e) == e.v \in 1 .. Len(log) /\ e.k = log[e.v].k /\ e.exp = log[e.v].exp
LiveInv == \A e \in LiveNodes : Logged(e)

ReportInv == \A v \in Versions : v > Len(log) => reported[v] = 0

GotInv == got # 0 => got \in 1 .. Len(log) /\ now < log[got].exp

\* Clear has yet to collect or to delete what was there when it began.
Due(p, e) ==
    \/ e.k \in keys[p]
    \/ pc[p] = "collect" /\ BucketOf[e.k] >= at[p]
ClearInv ==
    \A p \in Procs, e \in LiveNodes :
       pc[p] \in {"collect", "clear"} /\ e.v <= since[p] => Due(p, e)

\* Clear collects from the first bucket.
AtInv == \A p \in Procs : pc[p] # "collect" => at[p] = 1

IInv == /\ RestOK /\ RoomInv /\ AtInv /\ LevelsInv /\ LiveInv /\ ReportInv /\ GotInv /\ ClearInv
        /\ ReportsFinal /\ ForgottenStaysForgotten

LEMMA LatestIs ==
    ASSUME NEW n \in Nat, NEW k
    PROVE  LatestSet(k, n) \in 0 .. n
<1> DEFINE S == {0} \cup {v \in 1 .. n : log[v].k = k}
           T == {m \in 0 .. n : n - m \in S}
<1>1. PICK m \in T : \A j \in T : m <= j
  <2>1. T \subseteq Nat /\ T # {}
    <3>1. n \in T
      OBVIOUS
    <3> QED
      BY <3>1
  <2> HIDE DEF T
  <2> QED
    BY <2>1, LeastOf
<1>2. n - m \in S /\ \A y \in S : n - m >= y
  <2>1. ASSUME NEW y \in S PROVE n - m >= y
    <3>1. y \in 0 .. n /\ n - y \in 0 .. n /\ n - (n - y) = y
      OBVIOUS
    <3>2. n - y \in T
      BY <3>1
    <3>3. m <= n - y /\ m \in 0 .. n
      BY <1>1, <3>2
    <3> QED
      BY <3>1, <3>3
  <2> QED
    BY <1>1, <2>1
<1>3. Max(S) \in S
  BY <1>2 DEF Max
<1>4. S \subseteq 0 .. n
  OBVIOUS
<1> QED
  BY <1>3, <1>4 DEF LatestSet

LEMMA MaxOfTwo ==
    ASSUME NEW a \in Nat, NEW b \in Nat
    PROVE  Max({a, b}) = IF a < b THEN b ELSE a
  BY DEF Max

-----------------------------------------------------------------------------
(* What a critical section does to the levels.                                *)

BucketNodes(b) == Live(level[b][1]) \cup Live(level[b][2])

LEMMA NodesOfBuckets == LiveNodes = UNION {BucketNodes(b) : b \in Buckets}
  BY DEF LiveNodes, BucketNodes

\* The levels of b become l1 and l2; out are reported, new (if any) is added.
Changed(b, l1, l2, new, out) ==
    /\ level' = [level EXCEPT ![b] = <<l1, l2>>]
    /\ GoodLevel(l1, b, L1Cap) /\ GoodLevel(l2, b, L2Cap) /\ Apart(l1, l2)
    /\ Live(l1) \cup Live(l2) \subseteq BucketNodes(b) \cup new
    /\ \A v \in out : /\ \E e \in BucketNodes(b) : e.v = v
                      /\ \A e \in Live(l1) \cup Live(l2) : e.v # v

\* What that means for the store.
Effect(new, out) ==
    /\ LevelsInv'
    /\ LiveNodes' \subseteq LiveNodes \cup new
    /\ \A v \in out : Holds(v)
    /\ \A v \in out, e \in LiveNodes' : e.v # v

\* The live nodes of a bucket are those of its keys.
LEMMA NodesAtHome ==
    ASSUME LevelsInv, NEW b \in Buckets
    PROVE  \A e : e \in BucketNodes(b) <=> e \in LiveNodes /\ BucketOf[e.k] = b
<1>1. ASSUME NEW c \in Buckets, NEW e \in BucketNodes(c)
      PROVE  e \in Nodes /\ BucketOf[e.k] = c
  <2>1. GoodLevel(level[c][1], c, L1Cap) /\ GoodLevel(level[c][2], c, L2Cap)
    BY DEF LevelsInv
  <2>2. ASSUME NEW s, NEW cap, GoodLevel(s, c, cap), e \in Live(s)
        PROVE  e \in Nodes /\ BucketOf[e.k] = c
    <3>1. s \in Seq(Nodes)
      BY <2>2 DEF GoodLevel
    <3>2. e \in ToSet(s) /\ ToSet(s) \subseteq Nodes
      BY <2>2, <3>1, HasIs, MemberIs
    <3> QED
      BY <2>2, <3>2 DEF GoodLevel
  <2> QED
    BY <2>1, <2>2 DEF BucketNodes
<1> QED
  BY <1>1, NodesOfBuckets

LEMMA ChangedHas ==
    ASSUME LevelsInv, LiveInv, NEW b \in Buckets, NEW l1, NEW l2, NEW new, NEW out,
           Changed(b, l1, l2, new, out)
    PROVE  /\ Effect(new, out)
           /\ \A e \in LiveNodes' : BucketOf[e.k] = b => e \in Live(l1) \cup Live(l2)
<1>1. /\ level' \in [Buckets -> Seq(Nodes) \X Seq(Nodes)]
      /\ level'[b][1] = l1 /\ level'[b][2] = l2
      /\ \A c \in Buckets : c # b => level'[c] = level[c]
  <2>1. l1 \in Seq(Nodes) /\ l2 \in Seq(Nodes)
    BY DEF Changed, GoodLevel
  <2>2. PICK pair \in Seq(Nodes) \X Seq(Nodes) : pair = <<l1, l2>>
    BY <2>1
  <2>3. level' = [level EXCEPT ![b] = pair] /\ pair[1] = l1 /\ pair[2] = l2
    BY <2>2 DEF Changed
  <2> QED
    BY <2>3 DEF LevelsInv
<1>2. LevelsInv'
  <2>1. ASSUME NEW c \in Buckets
        PROVE  /\ GoodLevel(level'[c][1], c, L1Cap)
               /\ GoodLevel(level'[c][2], c, L2Cap)
               /\ Apart(level'[c][1], level'[c][2])
    <3>1. CASE c = b
      BY <1>1, <3>1 DEF Changed
    <3>2. CASE c # b
      BY <1>1, <3>2 DEF LevelsInv
    <3> QED
      BY <3>1, <3>2
  <2> QED
    BY <1>1, <2>1 DEF LevelsInv, GoodLevel, Apart
<1>3. /\ \A e : e \in LiveNodes' => e \in Live(l1) \cup Live(l2) \/ (e \in LiveNodes /\ BucketOf[e.k] # b)
  <2> SUFFICES ASSUME NEW e \in LiveNodes'
               PROVE  e \in Live(l1) \cup Live(l2) \/ (e \in LiveNodes /\ BucketOf[e.k] # b)
    OBVIOUS
  <2>1. PICK c \in Buckets : e \in Live(level'[c][1]) \cup Live(level'[c][2])
    BY DEF LiveNodes, Live
  <2>2. CASE c = b
    BY <1>1, <2>1, <2>2
  <2>3. CASE c # b
    <3>1. e \in BucketNodes(c)
      BY <1>1, <2>1, <2>3 DEF BucketNodes
    <3>2. e \in LiveNodes /\ BucketOf[e.k] = c
      BY <3>1, NodesAtHome
    <3> QED
      BY <2>3, <3>2
  <2> QED
    BY <2>2, <2>3
<1>4. BucketNodes(b) \subseteq LiveNodes
  BY NodesOfBuckets
<1>5. LiveNodes' \subseteq LiveNodes \cup new
  BY <1>3, <1>4 DEF Changed
<1>6. \A v \in out : Holds(v)
  BY <1>4 DEF Changed, Holds
<1>7. ASSUME NEW v \in out, NEW e \in LiveNodes' PROVE e.v # v
  <2>1. CASE e \in Live(l1) \cup Live(l2)
    BY <2>1 DEF Changed
  <2>2. CASE e \in LiveNodes /\ BucketOf[e.k] # b
    <3>1. PICK d \in BucketNodes(b) : d.v = v
      BY DEF Changed
    <3>2. d \in LiveNodes /\ BucketOf[d.k] = b
      BY <3>1, NodesAtHome
    <3>3. d.k = log[d.v].k /\ e.k = log[e.v].k
      BY <2>2, <3>2 DEF LiveInv, Logged
    <3> QED
      BY <2>2, <3>1, <3>2, <3>3
  <2> QED
    BY <1>3, <2>1, <2>2
<1>8. ASSUME NEW e \in LiveNodes', BucketOf[e.k] = b PROVE e \in Live(l1) \cup Live(l2)
  BY <1>3, <1>8
<1> QED
  BY <1>2, <1>5, <1>6, <1>7, <1>8 DEF Effect

\* The parts of the invariant about a bucket, for the actions.
LEMMA BucketIs ==
    ASSUME LevelsInv, NEW k \in Keys, NEW b, b = BucketOf[k]
    PROVE  /\ b \in Buckets
           /\ GoodLevel(level[b][1], b, L1Cap) /\ GoodLevel(level[b][2], b, L2Cap)
           /\ Apart(level[b][1], level[b][2])
           /\ level[b] = <<level[b][1], level[b][2]>>
  BY StoreAssumption DEF LevelsInv

\* A key that is alive in a level has a live node there.
LEMMA AliveIs ==
    ASSUME NEW s, NEW b, NEW cap, GoodLevel(s, b, cap), NEW k, Alive(s, k)
    PROVE  NodeOf(s, k) \in Live(s) /\ NodeOf(s, k).k = k
  BY FoundIs DEF GoodLevel

\* The live nodes of a good level.
LEMMA LiveIs ==
    ASSUME NEW s, NEW b, NEW cap, GoodLevel(s, b, cap)
    PROVE  \A e \in Live(s) : /\ e \in Nodes /\ e.exp > 0 /\ BucketOf[e.k] = b
                              /\ e = NodeOf(s, e.k)
<1>1. s \in Seq(Nodes) /\ Unique(s) /\ \A e \in ToSet(s) : BucketOf[e.k] = b
  BY DEF GoodLevel
<1>2. \A e \in Live(s) : e \in ToSet(s) /\ e \in Nodes /\ e.exp > 0
  BY <1>1, HasIs, MemberIs
<1>3. ASSUME NEW e \in Live(s) PROVE e = NodeOf(s, e.k)
  <2>1. Alive(s, e.k)
    BY <1>1, HasIs
  <2> QED
    BY <1>1, <2>1, FoundIs
<1> QED
  BY <1>1, <1>2, <1>3

LEMMA PutEffect ==
    ASSUME IInv, NEW p \in Procs, PutSet(p)
    PROVE  /\ Len(log) + 1 \in Versions /\ set[p] \in Sets
           /\ log' = Append(log, set[p])
           /\ \E out : /\ Effect({Node(set[p].k, Len(log) + 1, set[p].exp)}, out)
                       /\ Report(out)
<1> DEFINE k == set[p].k
           b == BucketOf[k]
           l1 == level[b][1]
           l2 == level[b][2]
           n == Node(k, Len(log) + 1, set[p].exp)
           m == PutNode(l1, k, Len(log) + 1, set[p].exp, L1Cap)
           gone == EvictedBy(l1, k, L1Cap)
           out == {e.v : e \in gone}
<1>1. p \in Putting /\ set[p] \in Sets /\ Len(log) \in Nat
  BY DEF PutSet, Putting, IInv, RestOK
<1>2. Len(log) + 1 \in Versions
  <2>1. Cardinality(Putting) \in Nat /\ Cardinality(Putting) # 0
    BY <1>1, FS_CardinalityType, FS_EmptySet DEF IInv, RoomInv
  <2>2. Len(log) + Cardinality(Putting) <= MaxVersion
    BY DEF IInv, RoomInv
  <2> QED
    BY <1>1, <2>1, <2>2, StoreAssumption DEF Versions
<1>3. n \in Nodes /\ set[p].exp > 0 /\ k \in Keys
  BY <1>1, <1>2, StoreAssumption DEF Nodes, Node, Sets, Forever
<1>4. LevelsInv /\ LiveInv
  BY DEF IInv
<1>5. /\ b \in Buckets /\ GoodLevel(l1, b, L1Cap) /\ GoodLevel(l2, b, L2Cap) /\ Apart(l1, l2)
      /\ level[b] = <<l1, l2>>
  BY <1>3, <1>4, BucketIs
<1>6. log' = Append(log, set[p]) /\ Report(out) /\ Len(log') = Len(log) + 1
  <2>1. log' = Append(log, set[p]) /\ Report(out)
    BY DEF PutSet
  <2>2. log \in Seq(Sets)
    BY DEF IInv, RestOK
  <2> QED
    BY <1>1, <2>1, <2>2
<1>7. level' = [level EXCEPT ![b] = <<m, l2>>]
  <2>1. level' = [level EXCEPT ![b][1] = m]
    BY <1>6 DEF PutSet
  <2>2. [level[b] EXCEPT ![1] = m] = <<m, l2>>
    <3> HIDE DEF m, l1, l2, b
    <3>1. [<<l1, l2>> EXCEPT ![1] = m] = <<m, l2>>
      OBVIOUS
    <3> QED
      BY <1>5, <3>1
  <2> QED
    BY <2>1, <2>2
<1> HIDE DEF n
<1>8. /\ GoodLevel(m, b, L1Cap) /\ gone \subseteq Live(l1)
      /\ \A e \in gone : e \in Live(l1) /\ e.k # k
      /\ Live(m) = {n} \cup ({e \in Live(l1) : e.k # k} \ gone)
  <2> DEFINE v == Len(log) + 1
             exp == set[p].exp
  <2>1. /\ L1Cap \in Nat \ {0} /\ BucketOf[k] = b /\ exp > 0
        /\ Node(k, v, exp) \in Nodes /\ n = Node(k, v, exp)
        /\ m = PutNode(l1, k, v, exp, L1Cap) /\ gone = EvictedBy(l1, k, L1Cap)
    BY <1>3, StoreAssumption DEF n
  <2>2. GoodLevel(l1, b, L1Cap)
    BY <1>5
  <2> HIDE DEF k, b, l1, m, gone, v, exp
  <2>3. PutDone(m, gone, l1, n, b, L1Cap)
    BY ONLY <2>1, <2>2, PutIs
  <2>4. n.k = k
    BY DEF n, Node
  <2> QED
    BY <2>3, <2>4 DEF PutDone
<1>9. /\ \A e \in Live(l1) \cup Live(l2) : e.v # Len(log) + 1
      /\ \A d, e \in Live(l1) : d.v = e.v => d = e
  <2>1. \A e \in Live(l1) \cup Live(l2) : e \in LiveNodes
    BY <1>5 DEF LiveNodes
  <2>2. \A e \in Live(l1) \cup Live(l2) : e.v \in 1 .. Len(log) /\ e.k = log[e.v].k
    BY <1>4, <2>1 DEF LiveInv, Logged
  <2>3. \A d, e \in Live(l1) : d.k = e.k => d = e
    <3>1. \A e \in Live(l1) : e = NodeOf(l1, e.k)
      <4>1. GoodLevel(l1, b, L1Cap)
        BY <1>5
      <4> HIDE DEF l1, b
      <4> QED
        BY ONLY <4>1, LiveIs
    <3> HIDE DEF l1
    <3> QED
      BY <3>1
  <2> QED
    BY <1>1, <2>2, <2>3
<1>10. n.v = Len(log) + 1
  BY DEF n, Node
<1> HIDE DEF m, gone, l1, l2
<1>11. Changed(b, m, l2, {n}, out)
  <2>1. Apart(m, l2)
    BY <1>5, <1>8, <1>9, <1>10 DEF Apart
  <2>2. Live(m) \cup Live(l2) \subseteq BucketNodes(b) \cup {n}
    BY <1>8 DEF BucketNodes, l1, l2
  <2>3. ASSUME NEW v \in out
        PROVE  /\ \E e \in BucketNodes(b) : e.v = v
               /\ \A e \in Live(m) \cup Live(l2) : e.v # v
    <3>1. PICK d \in gone : v = d.v
      OBVIOUS
    <3>2. d \in BucketNodes(b)
      BY <1>8 DEF BucketNodes, l1
    <3>3. \A e \in Live(m) : e.v # d.v
      BY <1>8, <1>9, <1>10
    <3>4. \A e \in Live(l2) : e.v # d.v
      BY <1>5, <1>8 DEF Apart
    <3> QED
      BY <3>1, <3>2, <3>3, <3>4
  <2> QED
    BY <1>5, <1>7, <1>8, <2>1, <2>2, <2>3 DEF Changed
<1>12. Effect({n}, out)
  BY <1>4, <1>5, <1>11, ChangedHas
<1> QED
  BY <1>1, <1>2, <1>6, <1>12 DEF n

LEMMA LiveNodesAre ==
    ASSUME LevelsInv
    PROVE  \A e \in LiveNodes : e \in Nodes /\ e.k \in Keys /\ e.v \in Nat
<1>1. \A e \in LiveNodes : e \in Nodes
  <2> SUFFICES ASSUME NEW b \in Buckets, NEW i \in {1, 2}, NEW e \in Live(level[b][i])
               PROVE  e \in Nodes
    BY DEF LiveNodes
  <2>1. GoodLevel(level[b][i], b, IF i = 1 THEN L1Cap ELSE L2Cap)
    BY DEF LevelsInv
  <2> QED
    BY <2>1, LiveIs
<1> QED
  BY <1>1 DEF Nodes, Versions

\* A version is live as one node.
LEMMA VersionIs ==
    ASSUME LevelsInv, LiveInv
    PROVE  \A d, e \in LiveNodes : d.v = e.v => d = e
<1>1. \A e \in LiveNodes : e \in Nodes
  BY LiveNodesAre
<1>2. \A d, e \in LiveNodes : d.v = e.v => d.k = e.k /\ d.exp = e.exp
  BY DEF LiveInv, Logged
<1> QED
  BY <1>1, <1>2 DEF Nodes

\* A key is deleted from both levels.
LEMMA KillBoth ==
    ASSUME LevelsInv, LiveInv, NEW k \in Keys, NEW b, b = BucketOf[k],
           level' = [level EXCEPT ![b] = Killed(b, k)],
           NEW out, \A v \in out : \E e \in BucketNodes(b) : e.k = k /\ e.v = v
    PROVE  Effect({}, out) /\ \A e \in LiveNodes' : e.k # k
<1> DEFINE l1 == level[b][1]
           l2 == level[b][2]
           m1 == Kill(l1, k)
           m2 == Kill(l2, k)
<1>1. b \in Buckets /\ GoodLevel(l1, b, L1Cap) /\ GoodLevel(l2, b, L2Cap) /\ Apart(l1, l2)
  BY BucketIs
<1>2. level' = [level EXCEPT ![b] = <<m1, m2>>]
  BY DEF Killed
<1>3. BucketNodes(b) = Live(l1) \cup Live(l2) /\ BucketNodes(b) \subseteq LiveNodes
  BY <1>1, NodesOfBuckets DEF BucketNodes
<1> HIDE DEF l1, l2
<1>4. GoodLevel(m1, b, L1Cap) /\ Live(m1) = {e \in Live(l1) : e.k # k}
  BY <1>1, KillIs
<1>5. GoodLevel(m2, b, L2Cap) /\ Live(m2) = {e \in Live(l2) : e.k # k}
  BY <1>1, KillIs
<1> HIDE DEF m1, m2
<1>6. Changed(b, m1, m2, {}, out)
  <2>1. Apart(m1, m2)
    BY <1>1, <1>4, <1>5 DEF Apart
  <2>2. Live(m1) \cup Live(m2) \subseteq BucketNodes(b) \cup {}
    BY <1>3, <1>4, <1>5
  <2>3. ASSUME NEW v \in out, NEW e \in Live(m1) \cup Live(m2) PROVE e.v # v
    <3>1. PICK d \in BucketNodes(b) : d.k = k /\ d.v = v
      OBVIOUS
    <3>2. e \in BucketNodes(b) /\ e.k # k
      BY <1>3, <1>4, <1>5
    <3> QED
      BY <1>3, <3>1, <3>2, VersionIs
  <2>4. \A v \in out : \E e \in BucketNodes(b) : e.v = v
    OBVIOUS
  <2> QED
    BY <1>2, <1>4, <1>5, <2>1, <2>2, <2>3, <2>4 DEF Changed
<1>7. /\ Effect({}, out)
      /\ \A e \in LiveNodes' : BucketOf[e.k] = b => e \in Live(m1) \cup Live(m2)
  BY <1>1, <1>6, ChangedHas
<1> QED
  BY <1>4, <1>5, <1>7

\* What is reported with the deletion of a key was there.
LEMMA ReportOfIs ==
    ASSUME LevelsInv, NEW k \in Keys, NEW b, b = BucketOf[k]
    PROVE  /\ \A v \in ReportOf(b, k) : \E e \in BucketNodes(b) : e.k = k /\ e.v = v
           /\ Alive(level[b][2], k) =>
                \E e \in BucketNodes(b) : e.k = k /\ e.v = NodeOf(level[b][2], k).v
<1> DEFINE l1 == level[b][1]
           l2 == level[b][2]
<1>1. GoodLevel(l1, b, L1Cap) /\ GoodLevel(l2, b, L2Cap)
  BY BucketIs
<1>2. BucketNodes(b) = Live(l1) \cup Live(l2)
  BY DEF BucketNodes
<1>3. ReportOf(b, k) = IF Alive(l1, k) THEN {NodeOf(l1, k).v}
                       ELSE IF Alive(l2, k) THEN {NodeOf(l2, k).v} ELSE {}
  BY DEF ReportOf
<1>4. Alive(l1, k) => NodeOf(l1, k) \in Live(l1) /\ NodeOf(l1, k).k = k
  BY <1>1, AliveIs
<1>5. Alive(l2, k) => NodeOf(l2, k) \in Live(l2) /\ NodeOf(l2, k).k = k
  BY <1>1, AliveIs
<1> HIDE DEF l1, l2
<1>6. \A v \in ReportOf(b, k) : \E e \in BucketNodes(b) : e.k = k /\ e.v = v
  BY <1>2, <1>3, <1>4, <1>5
<1>7. Alive(l2, k) => \E e \in BucketNodes(b) : e.k = k /\ e.v = NodeOf(l2, k).v
  BY <1>2, <1>5
<1> QED
  BY <1>6, <1>7 DEF l2

LEMMA DeleteEffect ==
    ASSUME IInv, NEW k \in Keys, DeleteKey(k)
    PROVE  \E out : Effect({}, out) /\ Report(out) /\ \A e \in LiveNodes' : e.k # k
<1> DEFINE b == BucketOf[k]
           out == ReportOf(b, k)
<1>1. LevelsInv /\ LiveInv
  BY DEF IInv
<1>2. level' = [level EXCEPT ![b] = Killed(b, k)] /\ Report(out)
  BY DEF DeleteKey
<1>3. \A v \in out : \E e \in BucketNodes(b) : e.k = k /\ e.v = v
  BY <1>1, ReportOfIs
<1> HIDE DEF out
<1>4. Effect({}, out) /\ \A e \in LiveNodes' : e.k # k
  BY <1>1, <1>2, <1>3, KillBoth
<1> QED
  BY <1>2, <1>4

\* A Get returns nothing, or the value of a live node that has not expired.
Served == got' = 0 \/ \E e \in LiveNodes : got' = e.v /\ ~Expired(e, now)

LEMMA GetExpiredEffect ==
    ASSUME IInv, NEW k \in Keys, GetExpired(k)
    PROVE  Served /\ \E out : Effect({}, out) /\ Report(out)
<1> DEFINE b == BucketOf[k]
           l2 == level[b][2]
           out == IF Alive(l2, k) THEN {NodeOf(l2, k).v} ELSE {}
<1>1. LevelsInv /\ LiveInv
  BY DEF IInv
<1>2. level' = [level EXCEPT ![b] = Killed(b, k)] /\ Report(out) /\ got' = 0
  BY DEF GetExpired, Found, Killed
<1>3. \A v \in out : \E e \in BucketNodes(b) : e.k = k /\ e.v = v
  BY <1>1, ReportOfIs
<1> HIDE DEF out
<1>4. Effect({}, out)
  BY <1>1, <1>2, <1>3, KillBoth
<1> QED
  BY <1>2, <1>4 DEF Served

LEMMA GetPromotesEffect ==
    ASSUME IInv, NEW k \in Keys, GetPromotes(k)
    PROVE  Served /\ \E out : Effect({}, out) /\ Report(out)
<1> DEFINE b == BucketOf[k]
           l1 == level[b][1]
           l2 == level[b][2]
           n == NodeOf(l1, k)
           m1 == Kill(l1, k)
           m2 == PutNode(l2, k, n.v, n.exp, L2Cap)
           gone == EvictedBy(l2, k, L2Cap)
           out == {f.v : f \in gone}
<1>1. LevelsInv /\ LiveInv
  BY DEF IInv
<1>2. b \in Buckets /\ GoodLevel(l1, b, L1Cap) /\ GoodLevel(l2, b, L2Cap) /\ Apart(l1, l2)
  BY <1>1, BucketIs
<1>3. /\ Alive(l1, k) /\ ~Expired(n, now)
      /\ level' = [level EXCEPT ![b] = <<m1, m2>>] /\ Report(out) /\ got' = n.v
  BY DEF GetPromotes, Promote, Found
<1>4. BucketNodes(b) = Live(l1) \cup Live(l2) /\ BucketNodes(b) \subseteq LiveNodes
  BY <1>2, NodesOfBuckets DEF BucketNodes
<1>5. n \in Live(l1) /\ n.k = k /\ n \in Nodes /\ n.exp > 0
  <2>1. n \in Live(l1) /\ n.k = k
    BY <1>2, <1>3, AliveIs
  <2> HIDE DEF n
  <2> QED
    BY <1>2, <2>1, LiveIs
<1> HIDE DEF l1, l2, n
<1>6. Node(k, n.v, n.exp) = n
  BY <1>5 DEF Node, Nodes
<1>7. GoodLevel(m1, b, L1Cap) /\ Live(m1) = {e \in Live(l1) : e.k # k}
  BY <1>2, KillIs
<1>8. /\ GoodLevel(m2, b, L2Cap) /\ gone \subseteq {e \in Live(l2) : e.k # k}
      /\ Live(m2) = {n} \cup ({e \in Live(l2) : e.k # k} \ gone)
  <2> DEFINE v == n.v
             exp == n.exp
  <2>1. /\ L2Cap \in Nat \ {0} /\ BucketOf[k] = b /\ exp > 0
        /\ Node(k, v, exp) \in Nodes /\ n = Node(k, v, exp)
        /\ m2 = PutNode(l2, k, v, exp, L2Cap) /\ gone = EvictedBy(l2, k, L2Cap)
        /\ GoodLevel(l2, b, L2Cap)
    BY <1>2, <1>5, <1>6, StoreAssumption
  <2> HIDE DEF b, m2, gone, v, exp
  <2>2. PutDone(m2, gone, l2, n, b, L2Cap)
    BY ONLY <2>1, PutIs
  <2> QED
    BY <1>5, <2>2 DEF PutDone
<1> HIDE DEF m1, m2, gone
<1>9. Changed(b, m1, m2, {}, out)
  <2>1. ASSUME NEW d \in Live(m1), NEW e \in Live(m2) PROVE d.v # e.v
    <3>1. d \in LiveNodes /\ d # n /\ n \in LiveNodes
      BY <1>4, <1>5, <1>7
    <3>2. d.v # n.v
      BY <1>1, <3>1, VersionIs
    <3> QED
      BY <1>2, <1>7, <1>8, <3>2 DEF Apart
  <2>2. Live(m1) \cup Live(m2) \subseteq BucketNodes(b) \cup {}
    BY <1>4, <1>5, <1>7, <1>8
  <2>3. ASSUME NEW v \in out
        PROVE  /\ \E e \in BucketNodes(b) : e.v = v
               /\ \A e \in Live(m1) \cup Live(m2) : e.v # v
    <3>1. PICK f \in gone : v = f.v
      OBVIOUS
    <3>2. f \in BucketNodes(b) /\ f \in LiveNodes /\ f \in Live(l2) /\ f.k # k
      BY <1>4, <1>8
    <3>3. ASSUME NEW e \in Live(m1) \cup Live(m2) PROVE e.v # v
      <4>1. e \in LiveNodes
        BY <1>4, <2>2
      <4>2. e # f
        <5>1. CASE e \in Live(m1)
          BY <1>2, <1>7, <3>2, <5>1 DEF Apart
        <5>2. CASE e \in Live(m2)
          BY <1>5, <1>8, <3>2, <5>2
        <5> QED
          BY <5>1, <5>2
      <4> QED
        BY <1>1, <3>1, <3>2, <4>1, <4>2, VersionIs
    <3> QED
      BY <3>1, <3>2, <3>3
  <2> QED
    BY <1>3, <1>7, <1>8, <2>1, <2>2, <2>3 DEF Changed, Apart
<1> HIDE DEF out
<1>10. Effect({}, out)
  BY <1>1, <1>2, <1>9, ChangedHas
<1>11. Served
  BY <1>3, <1>4, <1>5 DEF Served
<1> QED
  BY <1>3, <1>10, <1>11

LEMMA GetLevel2Effect ==
    ASSUME IInv, NEW k \in Keys, GetLevel2(k)
    PROVE  Served /\ \E out : Effect({}, out) /\ Report(out)
<1> DEFINE b == BucketOf[k]
           l1 == level[b][1]
           l2 == level[b][2]
           m2 == Touch(l2, k)
<1>1. LevelsInv /\ LiveInv
  BY DEF IInv
<1>2. b \in Buckets /\ GoodLevel(l1, b, L1Cap) /\ GoodLevel(l2, b, L2Cap) /\ Apart(l1, l2)
  BY <1>1, BucketIs
<1>3. /\ level' = [level EXCEPT ![b] = <<l1, m2>>] /\ Report({})
      /\ got' = IF Alive(l2, k) /\ ~Expired(NodeOf(l2, k), now) THEN NodeOf(l2, k).v ELSE 0
  BY DEF GetLevel2, Found
<1>4. BucketNodes(b) = Live(l1) \cup Live(l2) /\ BucketNodes(b) \subseteq LiveNodes
  BY <1>2, NodesOfBuckets DEF BucketNodes
<1>5. Alive(l2, k) => NodeOf(l2, k) \in Live(l2)
  BY <1>2, AliveIs
<1> HIDE DEF l1, l2
<1>6. GoodLevel(m2, b, L2Cap) /\ Live(m2) = Live(l2)
  BY <1>2, TouchIs
<1>7. Served
  BY <1>3, <1>4, <1>5 DEF Served
<1> HIDE DEF m2
<1>8. Changed(b, l1, m2, {}, {})
  BY <1>2, <1>3, <1>4, <1>6 DEF Changed, Apart
<1>9. Effect({}, {})
  BY <1>1, <1>2, <1>8, ChangedHas
<1> QED
  BY <1>3, <1>7, <1>9

\* The walk of a cleanup pass meets every live node.
LEMMA WalkMeets ==
    ASSUME NEW s \in Seq(Nodes), NEW t \in Seq(Nodes), NEW e \in Live(s) \cup Live(t)
    PROVE  \E j \in 1 .. Len(s \o t) : (s \o t)[j] = e
<1>1. /\ s \o t \in Seq(Nodes) /\ Len(s \o t) = Len(s) + Len(t)
      /\ \A j \in 1 .. Len(s) : (s \o t)[j] = s[j]
      /\ \A j \in 1 .. Len(t) : (s \o t)[Len(s) + j] = t[j]
  <2>1. s \in Seq(Nodes) /\ t \in Seq(Nodes)
    OBVIOUS
  <2> QED
    BY ONLY <2>1, ConcatIs
<1>2. Len(s) \in Nat /\ Len(t) \in Nat
  OBVIOUS
<1>3. e \in ToSet(s) \/ e \in ToSet(t)
  BY HasIs
<1>4. CASE e \in ToSet(s)
  <2>1. PICK j \in 1 .. Len(s) : e = s[j]
    BY <1>4, MemberIs
  <2>2. j \in 1 .. Len(s \o t)
    BY <1>1, <1>2
  <2> QED
    BY <1>1, <2>1, <2>2
<1>5. CASE e \in ToSet(t)
  <2>1. PICK j \in 1 .. Len(t) : e = t[j]
    BY <1>5, MemberIs
  <2>2. Len(s) + j \in 1 .. Len(s \o t)
    BY <1>1, <1>2
  <2> QED
    BY <1>1, <2>1, <2>2
<1> QED
  BY <1>3, <1>4, <1>5

LEMMA SweepEffect ==
    ASSUME IInv, Sweep
    PROVE  \E out : Effect({}, out) /\ Report(out)
<1> DEFINE b == sweepAt
           l1 == level[b][1]
           l2 == level[b][2]
           nodes == SweepNodes(b)
           walk == l1 \o l2
           m1 == Swept(l1, walk, nodes)
           m2 == Swept(l2, walk, nodes)
           out == UNION {ReportOf(b, e.k) : e \in nodes}
<1>1. LevelsInv /\ LiveInv
  BY DEF IInv
<1>2. /\ b \in Buckets /\ GoodLevel(l1, b, L1Cap) /\ GoodLevel(l2, b, L2Cap) /\ Apart(l1, l2)
      /\ level[b] = <<l1, l2>>
  <2>1. b \in Buckets
    BY StoreAssumption DEF IInv, RestOK, Sweep, Buckets
  <2> QED
    BY <1>1, <2>1 DEF LevelsInv
<1>3. level' = [level EXCEPT ![b] = <<m1, m2>>] /\ Report(out)
  BY DEF Sweep
<1>4. BucketNodes(b) = Live(l1) \cup Live(l2) /\ BucketNodes(b) \subseteq LiveNodes
  BY <1>2, NodesOfBuckets DEF BucketNodes
<1>5. nodes \subseteq Live(l1) \cup Live(l2)
  BY DEF SweepNodes, ExpiredNodes
<1>6. l1 \in Seq(Nodes) /\ l2 \in Seq(Nodes) /\ walk \in Seq(Nodes)
  <2>1. l1 \in Seq(Nodes) /\ l2 \in Seq(Nodes)
    BY <1>2 DEF GoodLevel
  <2> QED
    BY ONLY <2>1, ConcatIs
<1>7. \A n \in nodes : \E j \in 1 .. Len(walk) : walk[j] = n
  <2>1. \A n \in Live(l1) \cup Live(l2) : \E j \in 1 .. Len(walk) : walk[j] = n
    BY ONLY <1>6, WalkMeets
  <2> QED
    BY <1>5, <2>1
<1>8. \A n \in nodes : n.k \in Keys /\ b = BucketOf[n.k]
  <2>1. \A n \in Live(l1) \cup Live(l2) : n \in Nodes /\ b = BucketOf[n.k]
    BY <1>2, LiveIs
  <2> QED
    BY <1>5, <2>1 DEF Nodes
<1>9. \A v \in out : \E n \in nodes, e \in BucketNodes(b) : e.k = n.k /\ e.v = v
  <2> SUFFICES ASSUME NEW n \in nodes, NEW v \in ReportOf(b, n.k)
               PROVE  \E e \in BucketNodes(b) : e.k = n.k /\ e.v = v
    OBVIOUS
  <2> DEFINE k == n.k
  <2>1. k \in Keys /\ b = BucketOf[k]
    BY <1>8
  <2> HIDE DEF k, nodes
  <2>2. \A w \in ReportOf(b, k) : \E e \in BucketNodes(b) : e.k = k /\ e.v = w
    BY <1>1, <2>1, ReportOfIs
  <2> QED
    BY <2>2 DEF k
<1> HIDE DEF l1, l2, nodes, walk, out
<1>10. /\ GoodLevel(m1, b, L1Cap)
       /\ Live(m1) = {e \in Live(l1) : \A j \in 1 .. Len(walk) : walk[j] \in nodes => walk[j].k # e.k}
  BY <1>2, <1>6, SweptIs
<1>11. /\ GoodLevel(m2, b, L2Cap)
       /\ Live(m2) = {e \in Live(l2) : \A j \in 1 .. Len(walk) : walk[j] \in nodes => walk[j].k # e.k}
  BY <1>2, <1>6, SweptIs
<1> HIDE DEF m1, m2
<1>12. Changed(b, m1, m2, {}, out)
  <2>1. Apart(m1, m2)
    BY <1>2, <1>10, <1>11 DEF Apart
  <2>2. Live(m1) \cup Live(m2) \subseteq BucketNodes(b) \cup {}
    BY <1>4, <1>10, <1>11
  <2>3. ASSUME NEW v \in out, NEW e \in Live(m1) \cup Live(m2) PROVE e.v # v
    <3>1. PICK n \in nodes, d \in BucketNodes(b) : d.k = n.k /\ d.v = v
      BY <1>9
    <3>2. PICK j \in 1 .. Len(walk) : walk[j] = n
      BY <1>7
    <3>3. e.k # n.k
      BY <1>10, <1>11, <3>2
    <3>4. e \in LiveNodes /\ d \in LiveNodes /\ e # d
      BY <1>4, <2>2, <3>1, <3>3
    <3> QED
      BY <1>1, <3>1, <3>4, VersionIs
  <2>4. \A v \in out : \E e \in BucketNodes(b) : e.v = v
    BY <1>9
  <2> QED
    BY <1>3, <1>10, <1>11, <2>1, <2>2, <2>3, <2>4 DEF Changed
<1> HIDE DEF b
<1>13. Effect({}, out)
  BY <1>1, <1>2, <1>12, ChangedHas
<1> QED
  BY <1>3, <1>13

-----------------------------------------------------------------------------
(* What the steps keep.                                                       *)

\* Steps that move or drop nodes but store nothing.
LEMMA EffectKeeps ==
    ASSUME IInv, NEW out, Effect({}, out), Report(out), log' = log
    PROVE  /\ LevelsInv' /\ LiveInv' /\ ReportInv' /\ ReportsFinal'
           /\ reported' \in [Versions -> Nat]
           /\ LiveNodes' \subseteq LiveNodes
<1>1. LevelsInv' /\ LiveNodes' \subseteq LiveNodes
  BY DEF Effect
<1>2. LiveInv'
  BY <1>1 DEF IInv, LiveInv, Logged
<1>3. reported \in [Versions -> Nat] /\ reported' \in [Versions -> Nat]
  BY DEF IInv, RestOK, Report
<1>4. ASSUME NEW v \in Versions
      PROVE  /\ v > Len(log) => reported'[v] = 0
             /\ reported'[v] <= 1 /\ (reported'[v] = 1 => ~Holds(v)')
  <2>1. /\ v > Len(log) => reported[v] = 0
        /\ reported[v] <= 1 /\ (reported[v] = 1 => ~Holds(v)) /\ reported[v] \in Nat
    BY <1>3 DEF IInv, ReportInv, ReportsFinal
  <2>2. CASE v \in out
    <3>1. Holds(v) /\ ~Holds(v)'
      BY <2>2 DEF Effect, Holds
    <3>2. v \in 1 .. Len(log)
      BY <3>1 DEF Holds, IInv, LiveInv, Logged
    <3>3. Len(log) \in Nat
      BY DEF IInv, RestOK
    <3> QED
      BY <2>1, <2>2, <3>1, <3>2, <3>3 DEF Report
  <2>3. CASE v \notin out
    <3>1. reported'[v] = reported[v]
      BY <2>3 DEF Report
    <3>2. Holds(v)' => Holds(v)
      BY <1>1 DEF Holds
    <3> QED
      BY <2>1, <3>1, <3>2
  <2> QED
    BY <2>2, <2>3
<1> QED
  BY <1>1, <1>2, <1>3, <1>4 DEF ReportInv, ReportsFinal, Holds

\* A Set stores one new version.
LEMMA PutKeeps ==
    ASSUME IInv, NEW p \in Procs, PutSet(p)
    PROVE  /\ LevelsInv' /\ LiveInv' /\ ReportInv' /\ ReportsFinal'
           /\ reported' \in [Versions -> Nat]
           /\ log' \in Seq(Sets) /\ Len(log') = Len(log) + 1 /\ set[p] \in Sets
           /\ \A e \in LiveNodes' : e \in LiveNodes \/ (e.v = Len(log) + 1 /\ e.k \in Keys)
<1> DEFINE n == Node(set[p].k, Len(log) + 1, set[p].exp)
<1>1. /\ Len(log) + 1 \in Versions /\ set[p] \in Sets
      /\ log' = Append(log, set[p])
  BY PutEffect
<1>2. PICK out : Effect({n}, out) /\ Report(out)
  BY PutEffect
<1>3. /\ log' \in Seq(Sets) /\ Len(log) \in Nat /\ Len(log') = Len(log) + 1
      /\ log'[Len(log) + 1] = set[p] /\ \A i \in 1 .. Len(log) : log'[i] = log[i]
  <2>1. log \in Seq(Sets)
    BY DEF IInv, RestOK
  <2> QED
    BY <1>1, <2>1
<1>4. n.k = set[p].k /\ n.v = Len(log) + 1 /\ n.exp = set[p].exp /\ n.k \in Keys
  BY <1>1 DEF Node, Sets
<1> HIDE DEF n
<1>5. LevelsInv' /\ LiveNodes' \subseteq LiveNodes \cup {n}
  BY <1>2 DEF Effect
<1>6. \A e \in LiveNodes : Logged(e)
  BY DEF IInv, LiveInv
<1>7. LiveInv'
  <2> SUFFICES ASSUME NEW e \in LiveNodes'
               PROVE  e.v \in 1 .. Len(log') /\ e.k = log'[e.v].k /\ e.exp = log'[e.v].exp
    BY DEF LiveInv, Logged
  <2>1. CASE e = n
    BY <1>3, <1>4, <2>1
  <2>2. CASE e \in LiveNodes
    BY <1>3, <1>6, <2>2 DEF Logged
  <2> QED
    BY <1>5, <2>1, <2>2
<1>8. reported \in [Versions -> Nat] /\ reported' \in [Versions -> Nat]
  BY <1>2 DEF IInv, RestOK, Report
<1>9. ASSUME NEW v \in Versions
      PROVE  /\ v > Len(log') => reported'[v] = 0
             /\ reported'[v] <= 1 /\ (reported'[v] = 1 => \A e \in LiveNodes' : e.v # v)
  <2>1. /\ v > Len(log) => reported[v] = 0
        /\ reported[v] <= 1 /\ (reported[v] = 1 => ~Holds(v)) /\ reported[v] \in Nat
    BY <1>8 DEF IInv, ReportInv, ReportsFinal
  <2>2. v \in Nat
    BY DEF Versions
  <2>3. CASE v \in out
    <3>1. Holds(v) /\ \A e \in LiveNodes' : e.v # v
      BY <1>2, <2>3 DEF Effect
    <3>2. v \in 1 .. Len(log)
      BY <1>6, <3>1 DEF Holds, Logged
    <3> QED
      BY <1>2, <1>3, <2>1, <2>3, <3>1, <3>2 DEF Report
  <2>4. CASE v \notin out
    <3>1. reported'[v] = reported[v]
      BY <1>2, <2>4 DEF Report
    <3>2. reported[v] = 1 => v # n.v
      BY <1>3, <1>4, <2>1, <2>2
    <3>3. reported[v] = 1 => \A e \in LiveNodes' : e.v # v
      BY <1>5, <2>1, <3>2 DEF Holds
    <3> QED
      BY <1>3, <2>1, <2>2, <3>1, <3>3
  <2> QED
    BY <2>3, <2>4
<1>10. \A e \in LiveNodes' : e \in LiveNodes \/ (e.v = Len(log) + 1 /\ e.k \in Keys)
  BY <1>4, <1>5
<1> QED
  BY <1>1, <1>3, <1>5, <1>7, <1>8, <1>9, <1>10 DEF ReportInv, ReportsFinal, Holds

\* What Clear has in front of it shrinks with the store.
LEMMA ClearKeeps ==
    ASSUME IInv, LiveNodes' \subseteq LiveNodes, UNCHANGED <<pc, at, keys, since>>
    PROVE  ClearInv'
  BY DEF IInv, ClearInv, Due

LEMMA ForgottenKeeps ==
    ASSUME IInv, LiveNodes' \subseteq LiveNodes, UNCHANGED forgotten
    PROVE  ForgottenStaysForgotten'
  BY DEF IInv, ForgottenStaysForgotten

LEMMA AtKeeps ==
    ASSUME IInv, UNCHANGED <<pc, at>>
    PROVE  AtInv'
  BY DEF IInv, AtInv

LEMMA RoomKeeps ==
    ASSUME IInv, UNCHANGED <<pc, log>>
    PROVE  RoomInv' /\ Putting' = Putting
  BY DEF IInv, RoomInv, Putting

\* Steps that leave the levels and the history of the Sets alone.
LEMMA QuietKeeps ==
    ASSUME IInv, UNCHANGED <<level, log, reported>>
    PROVE  /\ LevelsInv' /\ LiveInv' /\ ReportInv' /\ ReportsFinal'
           /\ LiveNodes' = LiveNodes
<1>1. LiveNodes' = LiveNodes
  BY DEF LiveNodes, Live
<1>2. LevelsInv'
  BY DEF IInv, LevelsInv, GoodLevel, Apart
<1>3. LiveInv'
  BY <1>1 DEF IInv, LiveInv, Logged
<1>4. ReportInv' /\ ReportsFinal'
  BY <1>1 DEF IInv, ReportInv, ReportsFinal, Holds
<1> QED
  BY <1>1, <1>2, <1>3, <1>4

-----------------------------------------------------------------------------
(* The invariant holds at first and every step keeps it.                      *)

LEMMA Start == Init => IInv
<1> SUFFICES ASSUME Init PROVE IInv
  OBVIOUS
<1>1. level = [b \in Buckets |-> <<<<>>, <<>>>>] /\ log = <<>> /\ Len(log) = 0
  BY DEF Init
<1>2. \A b \in Buckets : level[b][1] = <<>> /\ level[b][2] = <<>>
  BY <1>1
<1>3. Live(<<>>) = {} /\ LiveNodes = {}
  BY <1>2 DEF LiveNodes, Live
<1>4. RestOK
  <2>1. Putting = {} /\ <<>> \in Seq(Sets)
    BY DEF Init, Putting
  <2>2. /\ now \in 1 .. MaxTime /\ sweepAt \in 0 .. BucketCount /\ sweepTime \in 0 .. MaxTime
        /\ at \in [Procs -> Buckets]
    BY StoreAssumption DEF Init, Buckets
  <2>3. /\ closed \in BOOLEAN
        /\ pc \in [Procs -> {"idle", "put", "collect", "clear"}]
        /\ set \in [Procs -> Sets \cup {NoSet}]
        /\ keys \in [Procs -> SUBSET Keys]
    BY DEF Init
  <2>4. since \in [Procs -> Nat] /\ \A p \in Procs : since[p] <= 0
    BY DEF Init
  <2>5. forgotten \in [Keys -> Nat] /\ \A k \in Keys : forgotten[k] <= 0
    BY DEF Init
  <2>6. reported \in [Versions -> Nat]
    BY DEF Init
  <2> QED
    BY <1>1, <2>1, <2>2, <2>3, <2>4, <2>5, <2>6 DEF RestOK
<1>5. RoomInv
  <2>1. Putting = {}
    BY DEF Init, Putting
  <2> QED
    BY <1>1, <2>1, FS_EmptySet, StoreAssumption DEF RoomInv
<1>6. LevelsInv
  <2>1. <<>> \in Seq(Nodes) /\ Len(<<>>) = 0 /\ Unique(<<>>) /\ ToSet(<<>>) = {}
    BY DEF Unique, ToSet
  <2>2. \A b, cap : cap \in Nat \ {0} => GoodLevel(<<>>, b, cap)
    BY <2>1 DEF GoodLevel
  <2>3. \A b \in Buckets : GoodLevel(<<>>, b, L1Cap) /\ GoodLevel(<<>>, b, L2Cap)
    BY <2>2, StoreAssumption
  <2>4. Apart(<<>>, <<>>)
    BY <1>3 DEF Apart
  <2>5. level \in [Buckets -> Seq(Nodes) \X Seq(Nodes)]
    BY <1>1, <2>1
  <2> QED
    BY <1>2, <2>3, <2>4, <2>5 DEF LevelsInv
<1>7. ReportInv /\ GotInv /\ AtInv
  BY DEF Init, ReportInv, GotInv, AtInv
<1>8. LiveInv /\ ClearInv /\ ForgottenStaysForgotten
  BY <1>3 DEF LiveInv, ClearInv, ForgottenStaysForgotten
<1>9. ReportsFinal
  BY DEF Init, ReportsFinal
<1> QED
  BY <1>4, <1>5, <1>6, <1>7, <1>8, <1>9 DEF IInv

LEMMA TickKeeps == IInv /\ Tick => IInv'
<1> SUFFICES ASSUME IInv, Tick PROVE IInv'
  OBVIOUS
<1>1. UNCHANGED <<level, closed, log, pc, set, at, keys, since, sweepAt, sweepTime, reported, forgotten>>
  BY DEF Tick, clear, sweep
<1>2. now < MaxTime /\ now' = now + 1 /\ got' = 0
  BY DEF Tick
<1>3. /\ LevelsInv' /\ LiveInv' /\ ReportInv' /\ ReportsFinal' /\ LiveNodes' = LiveNodes
  BY <1>1, QuietKeeps
<1>4. RestOK'
  BY <1>1, <1>2, StoreAssumption DEF IInv, RestOK, Putting
<1>5. RoomInv' /\ AtInv' /\ ClearInv' /\ ForgottenStaysForgotten' /\ GotInv'
  BY <1>1, <1>2, <1>3, RoomKeeps, AtKeeps, ClearKeeps, ForgottenKeeps DEF GotInv
<1> QED
  BY <1>3, <1>4, <1>5 DEF IInv

LEMMA CloseKeeps == IInv /\ Close => IInv'
<1> SUFFICES ASSUME IInv, Close PROVE IInv'
  OBVIOUS
<1>1. UNCHANGED <<now, level, log, pc, set, at, keys, since, sweepAt, sweepTime, reported, forgotten>>
  BY DEF Close, clear, sweep
<1>2. closed' = TRUE /\ got' = 0
  BY DEF Close
<1>3. /\ LevelsInv' /\ LiveInv' /\ ReportInv' /\ ReportsFinal' /\ LiveNodes' = LiveNodes
  BY <1>1, QuietKeeps
<1>4. RestOK'
  BY <1>1, <1>2 DEF IInv, RestOK, Putting
<1>5. RoomInv' /\ AtInv' /\ ClearInv' /\ ForgottenStaysForgotten' /\ GotInv'
  BY <1>1, <1>2, <1>3, RoomKeeps, AtKeeps, ClearKeeps, ForgottenKeeps DEF GotInv
<1> QED
  BY <1>3, <1>4, <1>5 DEF IInv

LEMMA BeginSweepKeeps == IInv /\ BeginSweep => IInv'
<1> SUFFICES ASSUME IInv, BeginSweep PROVE IInv'
  OBVIOUS
<1>1. UNCHANGED <<now, level, closed, log, pc, set, at, keys, since, reported, forgotten>>
  BY DEF BeginSweep, clear
<1>2. sweepAt' = 1 /\ sweepTime' = now /\ got' = 0
  BY DEF BeginSweep
<1>3. /\ LevelsInv' /\ LiveInv' /\ ReportInv' /\ ReportsFinal' /\ LiveNodes' = LiveNodes
  BY <1>1, QuietKeeps
<1>4. RestOK'
  BY <1>1, <1>2, StoreAssumption DEF IInv, RestOK, Putting
<1>5. RoomInv' /\ AtInv' /\ ClearInv' /\ ForgottenStaysForgotten' /\ GotInv'
  BY <1>1, <1>2, <1>3, RoomKeeps, AtKeeps, ClearKeeps, ForgottenKeeps DEF GotInv
<1> QED
  BY <1>3, <1>4, <1>5 DEF IInv

LEMMA SweepKeeps == IInv /\ Sweep => IInv'
<1> SUFFICES ASSUME IInv, Sweep PROVE IInv'
  OBVIOUS
<1>1. UNCHANGED <<now, closed, log, pc, set, at, keys, since, forgotten>>
  BY DEF Sweep, clear
<1>2. /\ sweepAt' = (sweepAt + 1) % (BucketCount + 1)
      /\ sweepTime' = IF sweepAt < BucketCount THEN sweepTime ELSE 0
      /\ got' = 0
  BY DEF Sweep
<1>3. /\ LevelsInv' /\ LiveInv' /\ ReportInv' /\ ReportsFinal'
      /\ reported' \in [Versions -> Nat] /\ LiveNodes' \subseteq LiveNodes
  BY <1>1, SweepEffect, EffectKeeps
<1>4. sweepAt' \in 0 .. BucketCount
  <2>1. sweepAt \in 0 .. BucketCount /\ BucketCount \in Nat
    BY StoreAssumption DEF IInv, RestOK
  <2> QED
    BY <1>2, <2>1
<1>5. RestOK'
  BY <1>1, <1>2, <1>3, <1>4, StoreAssumption DEF IInv, RestOK, Putting
<1>6. RoomInv' /\ AtInv' /\ ClearInv' /\ ForgottenStaysForgotten' /\ GotInv'
  BY <1>1, <1>2, <1>3, RoomKeeps, AtKeeps, ClearKeeps, ForgottenKeeps DEF GotInv
<1> QED
  BY <1>3, <1>5, <1>6 DEF IInv

LEMMA BeginSetKeeps == ASSUME NEW p \in Procs PROVE IInv /\ BeginSet(p) => IInv'
<1> SUFFICES ASSUME IInv, BeginSet(p) PROVE IInv'
  OBVIOUS
<1>1. UNCHANGED <<now, level, closed, log, at, keys, since, sweepAt, sweepTime, reported, forgotten>>
  BY DEF BeginSet, clear, sweep
<1>2. PICK s \in Sets : set' = [set EXCEPT ![p] = s]
  <2>1. PICK k \in Keys, exp \in {Forever} \cup {now + d : d \in Durations} :
          /\ exp <= MaxTime \/ exp = Forever
          /\ set' = [set EXCEPT ![p] = [k |-> k, exp |-> exp]]
    BY DEF BeginSet
  <2>2. exp \in 1 .. Forever
    BY <2>1, StoreAssumption DEF Forever, IInv, RestOK
  <2>3. [k |-> k, exp |-> exp] \in Sets
    BY <2>2 DEF Sets
  <2> QED
    BY <2>1, <2>3
<1>3. /\ pc[p] = "idle" /\ pc' = [pc EXCEPT ![p] = "put"] /\ got' = 0
      /\ Len(log) + Cardinality(Putting) < MaxVersion
  BY DEF BeginSet, Goto, Putting
<1>4. Putting' = Putting \cup {p} /\ p \notin Putting
  BY <1>3 DEF Putting, IInv, RestOK
<1>5. /\ LevelsInv' /\ LiveInv' /\ ReportInv' /\ ReportsFinal' /\ LiveNodes' = LiveNodes
  BY <1>1, QuietKeeps
<1>6. RestOK'
  BY <1>1, <1>2, <1>3, <1>4 DEF IInv, RestOK
<1>7. RoomInv'
  <2>1. IsFiniteSet(Putting) /\ Cardinality(Putting) \in Nat
    BY FS_CardinalityType DEF IInv, RoomInv
  <2>2. IsFiniteSet(Putting') /\ Cardinality(Putting') = Cardinality(Putting) + 1
    BY <1>4, <2>1, FS_AddElement
  <2>3. Len(log) \in Nat
    BY DEF IInv, RestOK
  <2> QED
    BY <1>1, <1>3, <2>1, <2>2, <2>3, StoreAssumption DEF RoomInv
<1>8. ForgottenStaysForgotten' /\ GotInv'
  BY <1>1, <1>3, <1>5, ForgottenKeeps DEF GotInv
<1>9. ClearInv'
  BY <1>1, <1>3, <1>5 DEF IInv, RestOK, ClearInv, Due
<1>10. AtInv'
  BY <1>1, <1>2, <1>3 DEF IInv, RestOK, AtInv
<1> QED
  BY <1>5, <1>6, <1>7, <1>8, <1>9, <1>10 DEF IInv

LEMMA PutSetKeeps == ASSUME NEW p \in Procs PROVE IInv /\ PutSet(p) => IInv'
<1> SUFFICES ASSUME IInv, PutSet(p) PROVE IInv'
  OBVIOUS
<1>1. UNCHANGED <<now, closed, at, keys, since, sweepAt, sweepTime, forgotten>>
  BY DEF PutSet, clear, sweep
<1>2. /\ pc[p] = "put" /\ pc' = [pc EXCEPT ![p] = "idle"] /\ got' = 0
      /\ set' = [set EXCEPT ![p] = NoSet]
  BY DEF PutSet, Goto
<1>3. /\ LevelsInv' /\ LiveInv' /\ ReportInv' /\ ReportsFinal'
      /\ reported' \in [Versions -> Nat]
      /\ log' \in Seq(Sets) /\ Len(log') = Len(log) + 1
      /\ \A e \in LiveNodes' : e \in LiveNodes \/ (e.v = Len(log) + 1 /\ e.k \in Keys)
  BY PutKeeps
<1>4. Putting' = Putting \ {p} /\ p \in Putting
  BY <1>2 DEF Putting, IInv, RestOK
<1>5. /\ Len(log) \in Nat /\ since \in [Procs -> Nat] /\ forgotten \in [Keys -> Nat]
      /\ \A q \in Procs : since[q] <= Len(log)
      /\ \A k \in Keys : forgotten[k] <= Len(log)
  BY DEF IInv, RestOK
<1>6. RestOK'
  <2>1. \A q \in Procs : since'[q] <= Len(log')
    BY <1>1, <1>3, <1>5
  <2>2. \A k \in Keys : forgotten'[k] <= Len(log')
    BY <1>1, <1>3, <1>5
  <2>3. \A q \in Putting' : set'[q] \in Sets
    BY <1>2, <1>4 DEF IInv, RestOK, Putting
  <2> QED
    BY <1>1, <1>2, <1>3, <2>1, <2>2, <2>3 DEF IInv, RestOK
<1>7. RoomInv'
  <2>1. IsFiniteSet(Putting) /\ Cardinality(Putting) \in Nat
    BY FS_CardinalityType DEF IInv, RoomInv
  <2>2. IsFiniteSet(Putting') /\ Cardinality(Putting') = Cardinality(Putting) - 1
    BY <1>4, <2>1, FS_RemoveElement
  <2> QED
    BY <1>3, <1>5, <2>1, <2>2, StoreAssumption DEF IInv, RoomInv
<1>8. GotInv'
  BY <1>2 DEF GotInv
<1>9. ForgottenStaysForgotten'
  BY <1>1, <1>3, <1>5 DEF IInv, ForgottenStaysForgotten
<1>10. ClearInv'
  <2> SUFFICES ASSUME NEW q \in Procs, NEW e \in LiveNodes',
                      pc'[q] \in {"collect", "clear"}, e.v <= since'[q]
               PROVE  Due(q, e)'
    BY DEF ClearInv
  <2>1. e \in LiveNodes
    BY <1>1, <1>3, <1>5
  <2>2. pc'[q] = pc[q]
    BY <1>2 DEF IInv, RestOK
  <2>3. Due(q, e)
    BY <1>1, <2>1, <2>2 DEF IInv, ClearInv
  <2> QED
    BY <1>1, <2>2, <2>3 DEF Due
<1>11. AtInv'
  BY <1>1, <1>2, <1>3 DEF IInv, RestOK, AtInv
<1> QED
  BY <1>3, <1>6, <1>7, <1>8, <1>9, <1>10, <1>11 DEF IInv

LEMMA GetKeeps == ASSUME NEW p \in Procs, NEW k \in Keys PROVE IInv /\ Get(p, k) => IInv'
<1> SUFFICES ASSUME IInv, Get(p, k) PROVE IInv'
  OBVIOUS
<1>1. UNCHANGED <<now, closed, log, pc, set, at, keys, since, sweepAt, sweepTime, forgotten>>
  BY DEF Get, clear, sweep
<1>2. Served /\ \E out : Effect({}, out) /\ Report(out)
  BY GetExpiredEffect, GetPromotesEffect, GetLevel2Effect DEF Get
<1>3. /\ LevelsInv' /\ LiveInv' /\ ReportInv' /\ ReportsFinal'
      /\ reported' \in [Versions -> Nat] /\ LiveNodes' \subseteq LiveNodes
  BY <1>1, <1>2, EffectKeeps
<1>4. RestOK'
  BY <1>1, <1>3 DEF IInv, RestOK, Putting
<1>5. RoomInv' /\ AtInv' /\ ClearInv' /\ ForgottenStaysForgotten'
  BY <1>1, <1>3, RoomKeeps, AtKeeps, ClearKeeps, ForgottenKeeps
<1>6. GotInv'
  <2>1. CASE got' = 0
    BY <2>1 DEF GotInv
  <2>2. ASSUME NEW e \in LiveNodes, got' = e.v, ~Expired(e, now) PROVE GotInv'
    <3>1. e.v \in 1 .. Len(log) /\ e.exp = log[e.v].exp
      BY DEF IInv, LiveInv, Logged
    <3>2. e.exp \in Int /\ now \in Int
      BY LiveNodesAre, StoreAssumption DEF Nodes, IInv, RestOK, Forever
    <3>3. now < e.exp
      BY <2>2, <3>2 DEF Expired
    <3> QED
      BY <1>1, <2>2, <3>1, <3>3 DEF GotInv
  <2> QED
    BY <1>2, <2>1, <2>2 DEF Served
<1> QED
  BY <1>3, <1>4, <1>5, <1>6 DEF IInv

\* A deletion may forget everything of the key it deletes.
LEMMA DeleteKeyKeeps ==
    ASSUME IInv, NEW k \in Keys, DeleteKey(k), UNCHANGED log
    PROVE  /\ LevelsInv' /\ LiveInv' /\ ReportInv' /\ ReportsFinal'
           /\ reported' \in [Versions -> Nat] /\ LiveNodes' \subseteq LiveNodes
           /\ \A e \in LiveNodes' : e.k # k
           /\ forgotten' \in [Keys -> Nat] /\ \A j \in Keys : forgotten'[j] <= Len(log')
           /\ ForgottenStaysForgotten' /\ GotInv'
<1>1. \A e \in LiveNodes' : e.k # k
  BY DeleteEffect
<1>2. /\ LevelsInv' /\ LiveInv' /\ ReportInv' /\ ReportsFinal'
      /\ reported' \in [Versions -> Nat] /\ LiveNodes' \subseteq LiveNodes
  BY DeleteEffect, EffectKeeps
<1>3. forgotten' = [forgotten EXCEPT ![k] = LatestSet(k, Len(log))] /\ got' = 0
  BY DEF DeleteKey
<1>4. LatestSet(k, Len(log)) \in 0 .. Len(log) /\ Len(log) \in Nat
  BY LatestIs DEF IInv, RestOK
<1>5. forgotten' \in [Keys -> Nat] /\ \A j \in Keys : forgotten'[j] <= Len(log')
  BY <1>3, <1>4 DEF IInv, RestOK
<1>6. ForgottenStaysForgotten'
  <2> SUFFICES ASSUME NEW e \in LiveNodes' PROVE e.v > forgotten'[e.k]
    BY DEF ForgottenStaysForgotten
  <2>1. e \in LiveNodes /\ e.k # k
    BY <1>1, <1>2
  <2>2. e.k \in Keys
    BY <2>1, LiveNodesAre DEF IInv
  <2>3. forgotten'[e.k] = forgotten[e.k]
    BY <1>3, <2>1, <2>2 DEF IInv, RestOK
  <2> QED
    BY <2>1, <2>3 DEF IInv, ForgottenStaysForgotten
<1>7. GotInv'
  BY <1>3 DEF GotInv
<1> QED
  BY <1>1, <1>2, <1>5, <1>6, <1>7

LEMMA DeleteKeeps == ASSUME NEW p \in Procs, NEW k \in Keys PROVE IInv /\ Delete(p, k) => IInv'
<1> SUFFICES ASSUME IInv, Delete(p, k) PROVE IInv'
  OBVIOUS
<1>1. UNCHANGED <<now, closed, log, pc, set, at, keys, since, sweepAt, sweepTime>>
  BY DEF Delete, clear, sweep
<1>2. DeleteKey(k) /\ UNCHANGED log
  BY <1>1 DEF Delete
<1>3. /\ LevelsInv' /\ LiveInv' /\ ReportInv' /\ ReportsFinal'
      /\ reported' \in [Versions -> Nat] /\ LiveNodes' \subseteq LiveNodes
      /\ forgotten' \in [Keys -> Nat] /\ \A j \in Keys : forgotten'[j] <= Len(log')
      /\ ForgottenStaysForgotten' /\ GotInv'
  BY <1>2, DeleteKeyKeeps
<1>4. RestOK'
  BY <1>1, <1>3 DEF IInv, RestOK, Putting
<1>5. RoomInv' /\ AtInv' /\ ClearInv'
  BY <1>1, <1>3, RoomKeeps, AtKeeps, ClearKeeps
<1> QED
  BY <1>3, <1>4, <1>5 DEF IInv

LEMMA ClearKeyKeeps == ASSUME NEW p \in Procs, NEW k \in Keys PROVE IInv /\ ClearKey(p, k) => IInv'
<1> SUFFICES ASSUME IInv, ClearKey(p, k) PROVE IInv'
  OBVIOUS
<1>1. UNCHANGED <<now, closed, log, pc, set, at, since, sweepAt, sweepTime>>
  BY DEF ClearKey, sweep
<1>2. DeleteKey(k) /\ UNCHANGED log
  BY <1>1 DEF ClearKey
<1>3. /\ LevelsInv' /\ LiveInv' /\ ReportInv' /\ ReportsFinal'
      /\ reported' \in [Versions -> Nat] /\ LiveNodes' \subseteq LiveNodes
      /\ \A e \in LiveNodes' : e.k # k
      /\ forgotten' \in [Keys -> Nat] /\ \A j \in Keys : forgotten'[j] <= Len(log')
      /\ ForgottenStaysForgotten' /\ GotInv'
  BY <1>2, DeleteKeyKeeps
<1>4. keys' = [keys EXCEPT ![p] = keys[p] \ {k}]
  BY DEF ClearKey
<1>5. RestOK'
  BY <1>1, <1>3, <1>4 DEF IInv, RestOK, Putting
<1>6. ClearInv'
  <2> SUFFICES ASSUME NEW q \in Procs, NEW e \in LiveNodes',
                      pc'[q] \in {"collect", "clear"}, e.v <= since'[q]
               PROVE  Due(q, e)'
    BY DEF ClearInv
  <2>1. e \in LiveNodes /\ e.k # k
    BY <1>3
  <2>2. Due(q, e)
    BY <1>1, <2>1 DEF IInv, ClearInv
  <2>3. e.k \in keys[q] => e.k \in keys'[q]
    BY <1>4, <2>1 DEF IInv, RestOK
  <2> QED
    BY <1>1, <2>2, <2>3 DEF Due
<1>7. RoomInv' /\ AtInv'
  BY <1>1, RoomKeeps, AtKeeps
<1> QED
  BY <1>3, <1>5, <1>6, <1>7 DEF IInv

LEMMA BeginClearKeeps == ASSUME NEW p \in Procs PROVE IInv /\ BeginClear(p) => IInv'
<1> SUFFICES ASSUME IInv, BeginClear(p) PROVE IInv'
  OBVIOUS
<1>1. UNCHANGED <<now, level, closed, log, set, at, keys, sweepAt, sweepTime, reported, forgotten>>
  BY DEF BeginClear, sweep
<1>2. /\ pc[p] = "idle" /\ pc' = [pc EXCEPT ![p] = "collect"] /\ got' = 0
      /\ since' = [since EXCEPT ![p] = Len(log)]
  BY DEF BeginClear, Goto
<1>3. Putting' = Putting
  BY <1>2 DEF Putting, IInv, RestOK
<1>4. /\ LevelsInv' /\ LiveInv' /\ ReportInv' /\ ReportsFinal' /\ LiveNodes' = LiveNodes
  BY <1>1, QuietKeeps
<1>5. RestOK'
  <2>1. Len(log) \in Nat
    BY DEF IInv, RestOK
  <2> QED
    BY <1>1, <1>2, <1>3, <2>1 DEF IInv, RestOK
<1>6. RoomInv' /\ GotInv' /\ ForgottenStaysForgotten'
  BY <1>1, <1>2, <1>3, <1>4, ForgottenKeeps DEF IInv, RoomInv, GotInv
<1>7. ClearInv'
  <2> SUFFICES ASSUME NEW q \in Procs, NEW e \in LiveNodes,
                      pc'[q] \in {"collect", "clear"}, e.v <= since'[q]
               PROVE  Due(q, e)'
    BY <1>4 DEF ClearInv
  <2>1. CASE q = p
    <3>1. Buckets = 1 .. BucketCount /\ BucketOf[e.k] \in Buckets
      BY LiveNodesAre, StoreAssumption DEF IInv, Buckets
    <3>2. at[p] = 1
      BY <1>2 DEF IInv, AtInv
    <3>3. pc'[p] = "collect" /\ at'[p] = 1 /\ BucketOf[e.k] >= 1
      BY <1>1, <1>2, <3>1, <3>2, StoreAssumption DEF IInv, RestOK
    <3> QED
      BY <2>1, <3>3 DEF Due
  <2>2. CASE q # p
    <3>1. pc'[q] = pc[q] /\ since'[q] = since[q]
      BY <1>2, <2>2 DEF IInv, RestOK
    <3>2. Due(q, e)
      BY <3>1 DEF IInv, ClearInv
    <3> QED
      BY <1>1, <3>1, <3>2 DEF Due
  <2> QED
    BY <2>1, <2>2
<1>8. AtInv'
  BY <1>1, <1>2 DEF IInv, RestOK, AtInv
<1> QED
  BY <1>4, <1>5, <1>6, <1>7, <1>8 DEF IInv

LEMMA CollectKeeps == ASSUME NEW p \in Procs PROVE IInv /\ Collect(p) => IInv'
<1> SUFFICES ASSUME IInv, Collect(p) PROVE IInv'
  OBVIOUS
<1> DEFINE found == UNION {{e.k : e \in Live(level[at[p]][i])} : i \in {1, 2}}
<1>1. UNCHANGED <<now, level, closed, log, set, since, sweepAt, sweepTime, reported, forgotten>>
  BY DEF Collect, sweep
<1>2. pc[p] = "collect" /\ keys' = [keys EXCEPT ![p] = keys[p] \cup found] /\ got' = 0
  BY DEF Collect
<1>3. \/ at[p] < BucketCount /\ at' = [at EXCEPT ![p] = at[p] + 1] /\ pc' = pc
      \/ ~(at[p] < BucketCount) /\ at' = [at EXCEPT ![p] = 1] /\ pc' = [pc EXCEPT ![p] = "clear"]
  BY DEF Collect, Goto
<1>4. at[p] \in Buckets /\ Buckets = 1 .. BucketCount /\ BucketCount \in Nat \ {0}
  BY StoreAssumption DEF IInv, RestOK, Buckets
<1>5. /\ \A e \in BucketNodes(at[p]) : e.k \in found
      /\ found \subseteq Keys
  <2>1. \A e \in BucketNodes(at[p]) : e.k \in found
    BY DEF BucketNodes
  <2>2. ASSUME NEW i \in {1, 2}, NEW e \in Live(level[at[p]][i]) PROVE e.k \in Keys
    <3>1. e \in LiveNodes
      BY <1>4 DEF LiveNodes
    <3> QED
      BY <3>1, LiveNodesAre DEF IInv
  <2> QED
    BY <2>1, <2>2
<1>6. /\ LevelsInv' /\ LiveInv' /\ ReportInv' /\ ReportsFinal' /\ LiveNodes' = LiveNodes
  BY <1>1, QuietKeeps
<1> HIDE DEF found
<1>7. /\ Putting' = Putting
      /\ pc' \in [Procs -> {"idle", "put", "collect", "clear"}] /\ at' \in [Procs -> Buckets]
  <2>1. CASE pc' = pc /\ at[p] < BucketCount /\ at' = [at EXCEPT ![p] = at[p] + 1]
    BY <1>4, <2>1 DEF IInv, RestOK, Putting
  <2>2. CASE at' = [at EXCEPT ![p] = 1] /\ pc' = [pc EXCEPT ![p] = "clear"]
    BY <1>2, <1>4, <2>2 DEF IInv, RestOK, Putting
  <2> QED
    BY <1>3, <2>1, <2>2
<1>8. RestOK'
  <2>1. keys' \in [Procs -> SUBSET Keys]
    BY <1>2, <1>5 DEF IInv, RestOK
  <2> QED
    BY <1>1, <1>7, <2>1 DEF IInv, RestOK
<1>9. RoomInv' /\ GotInv' /\ ForgottenStaysForgotten'
  BY <1>1, <1>2, <1>6, <1>7, ForgottenKeeps DEF IInv, RoomInv, GotInv
<1>10. ClearInv'
  <2> SUFFICES ASSUME NEW q \in Procs, NEW e \in LiveNodes,
                      pc'[q] \in {"collect", "clear"}, e.v <= since[q]
               PROVE  Due(q, e)'
    BY <1>1, <1>6 DEF ClearInv
  <2>1. CASE q = p
    <3>1. Due(p, e)
      BY <1>2, <2>1 DEF IInv, ClearInv
    <3>2. BucketOf[e.k] = at[p] => e.k \in found
      BY <1>4, <1>5, NodesAtHome DEF IInv
    <3>3. e.k \in keys'[p] \/ BucketOf[e.k] > at[p]
      <4>1. keys'[p] = keys[p] \cup found
        BY <1>2 DEF IInv, RestOK
      <4>2. BucketOf[e.k] \in Buckets
        BY LiveNodesAre, StoreAssumption DEF IInv
      <4>3. BucketOf[e.k] >= at[p] => BucketOf[e.k] = at[p] \/ BucketOf[e.k] > at[p]
        BY <1>4, <4>2
      <4> QED
        BY <3>1, <3>2, <4>1, <4>3 DEF Due
    <3>4. CASE pc' = pc /\ at[p] < BucketCount /\ at' = [at EXCEPT ![p] = at[p] + 1]
      <4>1. at'[p] = at[p] + 1 /\ pc'[p] = "collect"
        BY <1>2, <3>4 DEF IInv, RestOK
      <4>2. BucketOf[e.k] \in Buckets
        BY LiveNodesAre, StoreAssumption DEF IInv
      <4>3. BucketOf[e.k] > at[p] => BucketOf[e.k] >= at'[p]
        BY <1>4, <4>1, <4>2
      <4> QED
        BY <2>1, <3>3, <4>1, <4>3 DEF Due
    <3>5. CASE ~(at[p] < BucketCount)
      <4>1. BucketOf[e.k] \in Buckets
        BY LiveNodesAre, StoreAssumption DEF IInv
      <4>2. ~(BucketOf[e.k] > at[p])
        BY <1>4, <3>5, <4>1
      <4> QED
        BY <2>1, <3>3, <4>2 DEF Due
    <3> QED
      BY <1>3, <3>4, <3>5
  <2>2. CASE q # p
    <3>1. pc'[q] = pc[q] /\ at'[q] = at[q] /\ keys'[q] = keys[q]
      BY <1>2, <1>3, <2>2 DEF IInv, RestOK
    <3>2. Due(q, e)
      BY <3>1 DEF IInv, ClearInv
    <3> QED
      BY <3>1, <3>2 DEF Due
  <2> QED
    BY <2>1, <2>2
<1>11. AtInv'
  <2> SUFFICES ASSUME NEW q \in Procs, pc'[q] # "collect" PROVE at'[q] = 1
    BY DEF AtInv
  <2>1. CASE q = p
    BY <1>2, <1>3, <2>1 DEF IInv, RestOK
  <2>2. CASE q # p
    BY <1>3, <2>2 DEF IInv, RestOK, AtInv
  <2> QED
    BY <2>1, <2>2
<1> QED
  BY <1>6, <1>8, <1>9, <1>10, <1>11 DEF IInv

LEMMA EndClearKeeps == ASSUME NEW p \in Procs PROVE IInv /\ EndClear(p) => IInv'
<1> SUFFICES ASSUME IInv, EndClear(p) PROVE IInv'
  OBVIOUS
<1>1. UNCHANGED <<now, level, closed, log, set, at, keys, sweepAt, sweepTime, reported>>
  BY DEF EndClear, sweep
<1>2. /\ pc[p] = "clear" /\ keys[p] = {} /\ pc' = [pc EXCEPT ![p] = "idle"] /\ got' = 0
      /\ since' = [since EXCEPT ![p] = 0]
  BY DEF EndClear, Goto
<1>3. Putting' = Putting
  BY <1>2 DEF Putting, IInv, RestOK
<1>4. /\ LevelsInv' /\ LiveInv' /\ ReportInv' /\ ReportsFinal' /\ LiveNodes' = LiveNodes
  BY <1>1, QuietKeeps
<1>5. /\ Len(log) \in Nat /\ since[p] \in Nat /\ since[p] <= Len(log)
      /\ forgotten \in [Keys -> Nat] /\ \A k \in Keys : forgotten[k] <= Len(log)
  BY DEF IInv, RestOK
<1>6. \A k \in Keys : LatestSet(k, since[p]) \in 0 .. since[p]
  BY <1>5, LatestIs
<1>7. \A k \in Keys : forgotten'[k] = IF forgotten[k] < LatestSet(k, since[p])
                                    THEN LatestSet(k, since[p]) ELSE forgotten[k]
  <2>1. \A k \in Keys : forgotten'[k] = Max({forgotten[k], LatestSet(k, since[p])})
    BY DEF EndClear
  <2>2. \A k \in Keys : forgotten[k] \in Nat /\ LatestSet(k, since[p]) \in Nat
    BY <1>5, <1>6
  <2> QED
    BY <2>1, <2>2, MaxOfTwo
<1>8. forgotten' \in [Keys -> Nat] /\ \A k \in Keys : forgotten'[k] <= Len(log)
  <2>1. \A k \in Keys : forgotten'[k] \in Nat /\ forgotten'[k] <= Len(log)
    BY <1>5, <1>6, <1>7
  <2>2. forgotten' = [k \in Keys |-> forgotten'[k]]
    BY DEF EndClear
  <2> QED
    BY <2>1, <2>2
<1>9. RestOK'
  BY <1>1, <1>2, <1>3, <1>5, <1>8 DEF IInv, RestOK
<1>10. RoomInv' /\ GotInv'
  BY <1>1, <1>2, <1>3 DEF IInv, RoomInv, GotInv
<1>11. ForgottenStaysForgotten'
  <2> SUFFICES ASSUME NEW e \in LiveNodes PROVE e.v > forgotten'[e.k]
    BY <1>4 DEF ForgottenStaysForgotten
  <2>1. e.k \in Keys /\ e.v \in Nat
    BY LiveNodesAre DEF IInv
  <2>2. ~(e.v <= since[p])
    BY <1>2 DEF IInv, ClearInv, Due
  <2>3. e.v > forgotten[e.k]
    BY DEF IInv, ForgottenStaysForgotten
  <2>4. LatestSet(e.k, since[p]) \in 0 .. since[p]
    BY <1>6, <2>1
  <2>5. e.v > LatestSet(e.k, since[p])
    BY <1>5, <2>1, <2>2, <2>4
  <2> QED
    BY <1>7, <2>1, <2>3, <2>5
<1>12. ClearInv'
  <2> SUFFICES ASSUME NEW q \in Procs, NEW e \in LiveNodes,
                      pc'[q] \in {"collect", "clear"}, e.v <= since'[q]
               PROVE  Due(q, e)'
    BY <1>4 DEF ClearInv
  <2>1. q # p /\ pc'[q] = pc[q]
    BY <1>2 DEF IInv, RestOK
  <2>2. since'[q] = since[q]
    BY <1>2, <2>1 DEF IInv, RestOK
  <2>3. Due(q, e)
    BY <2>1, <2>2 DEF IInv, ClearInv
  <2> QED
    BY <1>1, <2>1, <2>3 DEF Due
<1>13. AtInv'
  BY <1>1, <1>2 DEF IInv, RestOK, AtInv
<1> QED
  BY <1>4, <1>9, <1>10, <1>11, <1>12, <1>13 DEF IInv

LEMMA NextKeeps == IInv /\ [Next]_vars => IInv'
<1> SUFFICES ASSUME IInv, [Next]_vars PROVE IInv'
  OBVIOUS
<1>1. CASE Tick \/ Close \/ BeginSweep \/ Sweep
  BY <1>1, TickKeeps, CloseKeeps, BeginSweepKeeps, SweepKeeps
<1>2. ASSUME NEW p \in Procs, Step(p) PROVE IInv'
  <2>1. CASE BeginSet(p) \/ PutSet(p)
    BY <2>1, BeginSetKeeps, PutSetKeeps
  <2>2. CASE BeginClear(p) \/ Collect(p) \/ EndClear(p)
    BY <2>2, BeginClearKeeps, CollectKeeps, EndClearKeeps
  <2>3. ASSUME NEW k \in Keys, Get(p, k) \/ Delete(p, k) \/ ClearKey(p, k) PROVE IInv'
    BY <2>3, GetKeeps, DeleteKeeps, ClearKeyKeeps
  <2> QED
    BY <1>2, <2>1, <2>2, <2>3 DEF Step
<1>3. CASE UNCHANGED vars
  <2>1. UNCHANGED <<now, level, closed, log, pc, set, at, keys, since, got,
                    sweepAt, sweepTime, reported, forgotten>>
    BY <1>3 DEF vars, clear, sweep
  <2>2. /\ LevelsInv' /\ LiveInv' /\ ReportInv' /\ ReportsFinal' /\ LiveNodes' = LiveNodes
    BY <2>1, QuietKeeps
  <2>3. RestOK' /\ GotInv'
    BY <2>1 DEF IInv, RestOK, GotInv, Putting
  <2>4. RoomInv' /\ AtInv' /\ ClearInv' /\ ForgottenStaysForgotten'
    BY <2>1, <2>2, RoomKeeps, AtKeeps, ClearKeeps, ForgottenKeeps
  <2> QED
    BY <2>2, <2>3, <2>4 DEF IInv
<1> QED
  BY <1>1, <1>2, <1>3 DEF Next

(* The store keeps IInv: a live node is what a Set stored, in the one level it
   is in, and Clear knows the keys of all it still has to delete.             *)
THEOREM Inductive == Spec => []IInv
<1>1. Init => IInv
  BY Start
<1>2. IInv /\ [Next]_vars => IInv'
  BY NextKeeps
<1> QED
  BY <1>1, <1>2, PTL DEF Spec

\* A level without a second node of a key has as many keys as nodes.
LEMMA KeysOnce ==
    ASSUME NEW s \in Seq(Nodes), Unique(s)
    PROVE  Cardinality(NodeKeys(s)) = Len(s)
<1> DEFINE f == [i \in 1 .. Len(s) |-> s[i].k]
<1>1. Len(s) \in Nat /\ DOMAIN s = 1 .. Len(s)
  OBVIOUS
<1>2. f \in Bijection(1 .. Len(s), NodeKeys(s))
  <2>1. f \in [1 .. Len(s) -> NodeKeys(s)]
    BY <1>1 DEF NodeKeys
  <2>2. \A i, j \in 1 .. Len(s) : f[i] = f[j] => i = j
    BY <1>1 DEF Unique
  <2>3. \A k \in NodeKeys(s) : \E i \in 1 .. Len(s) : f[i] = k
    BY <1>1 DEF NodeKeys
  <2> HIDE DEF f
  <2> QED
    BY <2>1, <2>2, <2>3 DEF Bijection, Injection, IsInjective, Surjection
<1>3. ExistsBijection(1 .. Len(s), NodeKeys(s))
  BY <1>2 DEF ExistsBijection
<1>4. IsFiniteSet(1 .. Len(s)) /\ Cardinality(1 .. Len(s)) = Len(s)
  BY <1>1, FS_Interval
<1> QED
  BY <1>3, <1>4, FS_Bijection

LEMMA TypesFollow == IInv => TypeOK
<1> SUFFICES ASSUME IInv PROVE TypeOK
  OBVIOUS
<1>1. ASSUME NEW b \in Buckets, NEW i \in {1, 2} PROVE LevelOK(b, i)
  <2> DEFINE s == level[b][i]
             cap == IF i = 1 THEN L1Cap ELSE L2Cap
  <2>1. GoodLevel(s, b, cap)
    BY DEF IInv, LevelsInv
  <2> HIDE DEF s, cap
  <2>2. s \in Seq(Nodes) /\ Len(s) <= cap /\ Unique(s) /\ \A e \in ToSet(s) : BucketOf[e.k] = b
    BY <2>1 DEF GoodLevel
  <2>3. ToSet(s) \subseteq Nodes /\ \A k \in NodeKeys(s) : \E e \in ToSet(s) : e.k = k
    BY <2>2, MemberIs DEF NodeKeys
  <2>4. Cardinality(NodeKeys(s)) = Len(s)
    BY <2>2, KeysOnce
  <2> QED
    BY <2>2, <2>3, <2>4 DEF LevelOK, s, cap
<1>2. Len(log) \in Nat /\ Len(log) <= MaxVersion /\ ToSet(log) \subseteq Sets
  <2>1. log \in Seq(Sets)
    BY DEF IInv, RestOK
  <2>2. Cardinality(Putting) \in Nat /\ Len(log) + Cardinality(Putting) <= MaxVersion
    BY FS_CardinalityType DEF IInv, RoomInv
  <2> QED
    BY <2>1, <2>2, MemberIs, StoreAssumption
<1>3. /\ got \in 0 .. Len(log)
      /\ since \in [Procs -> 0 .. MaxVersion] /\ forgotten \in [Keys -> 0 .. MaxVersion]
  <2>1. got \in 0 .. Len(log)
    BY <1>2 DEF IInv, GotInv
  <2>2. /\ since \in [Procs -> Nat] /\ \A p \in Procs : since[p] <= Len(log)
        /\ forgotten \in [Keys -> Nat] /\ \A k \in Keys : forgotten[k] <= Len(log)
    BY DEF IInv, RestOK
  <2>3. \A p \in Procs : since[p] \in 0 .. MaxVersion
    BY <1>2, <2>2, StoreAssumption
  <2>4. \A k \in Keys : forgotten[k] \in 0 .. MaxVersion
    BY <1>2, <2>2, StoreAssumption
  <2> QED
    BY <2>1, <2>2, <2>3, <2>4
<1> QED
  BY <1>1, <1>2, <1>3 DEF IInv, RestOK, TypeOK, Sets

(* Every level keeps within its capacity and holds a key at most once, in the
   bucket the key hashes to, whatever the goroutines do.                      *)
THEOREM TypeCorrect == Spec => []TypeOK
  BY Inductive, TypesFollow, PTL

(* What a Delete found, or what was there when a Clear that has returned began,
   never comes back: not from the other level, nor through a promotion, a Set
   or a cleanup pass that runs between the two phases of Clear.               *)
THEOREM NothingForgottenReturns == Spec => []ForgottenStaysForgotten
<1>1. IInv => ForgottenStaysForgotten
  BY DEF IInv
<1> QED
  BY <1>1, Inductive, PTL

(* Get returns a value only before the expiry its Set computed, whichever level
   it came from and however often it was promoted.                            *)
THEOREM ServesNothingExpired == Spec => []NeverServedExpired
<1>1. IInv => NeverServedExpired
  BY DEF IInv, GotInv, NeverServedExpired
<1> QED
  BY <1>1, Inductive, PTL

(* OnEvicted is called at most once for a stored value, and the store does not
   hold it afterwards.                                                        *)
THEOREM ReportsAreFinal == Spec => []ReportsFinal
<1>1. IInv => ReportsFinal
  BY DEF IInv
<1> QED
  BY <1>1, Inductive, PTL
=============================================================================
