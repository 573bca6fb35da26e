--------------------------- MODULE Lru2LevelProofs ---------------------------
(* Lru2Level: the index arithmetic keeps a sound doubly linked list and a map of
   it, and implements a recency list, for any keys, values and capacity.      *)
EXTENDS Lru2Level, FiniteSetTheorems, TLAPS

Links == [Indices -> Indices \X Indices]

\* s lists the indices 1 .. L in some order.
Order(s, L) ==
    /\ s \in [1 .. L -> 1 .. L]
    /\ \A i, j \in 1 .. L : s[i] = s[j] => i = j
    /\ \A i \in 1 .. L : \E j \in 1 .. L : s[j] = i

\* What stands at place i of the list; the sentinel before and behind it.
At(s, L, i) == IF i \in 1 .. L THEN s[i] ELSE 0

\* d links s: column t leads from its front to its end, column f back.
Linked(d, s, L, f, t) ==
    /\ \A i \in 1 .. L : d[s[i]][f] = At(s, L, i - 1) /\ d[s[i]][t] = At(s, L, i + 1)
    /\ d[0][t] = At(s, L, 1) /\ d[0][f] = At(s, L, L)

Rev(s, L) == [i \in 1 .. L |-> s[L + 1 - i]]

\* Place x of the list moves to its front, or to its end.
Fronted(s, L, x) ==
    [j \in 1 .. L |-> IF j = 1 THEN s[x] ELSE IF j <= x THEN s[j - 1] ELSE s[j]]
Backed(s, L, x) ==
    [j \in 1 .. L |-> IF j = L THEN s[x] ELSE IF j >= x THEN s[j + 1] ELSE s[j]]

\* The two columns of dlnk, in either role.
Columns(f, t) == <<f, t>> \in {<<1, 2>>, <<2, 1>>}

-----------------------------------------------------------------------------
(* The list.                                                                  *)

\* e is d with one cell changed.
CellSet(d, e, i, c, j) ==
    /\ e \in Links
    /\ \A x \in Indices, y \in {1, 2} : e[x][y] = IF x = i /\ y = c THEN j ELSE d[x][y]

LEMMA LinkIs ==
    ASSUME NEW d \in Links, NEW i \in Indices, NEW c \in {1, 2}, NEW j \in Indices
    PROVE  CellSet(d, Link(d, i, c, j), i, c, j)
<1> DEFINE pair == [d[i] EXCEPT ![c] = j]
           r == [d EXCEPT ![i] = pair]
<1>1. d[i] \in Indices \X Indices
  BY DEF Links
<1>2. pair \in Indices \X Indices /\ \A y \in {1, 2} : pair[y] = IF y = c THEN j ELSE d[i][y]
  <2>1. PICK a \in Indices, b \in Indices : d[i] = <<a, b>>
    BY <1>1
  <2>2. CASE c = 1
    <3>1. pair = <<j, b>>
      BY <2>1, <2>2
    <3> QED
      BY <2>1, <2>2, <3>1
  <2>3. CASE c = 2
    <3>1. pair = <<a, j>>
      BY <2>1, <2>3
    <3> QED
      BY <2>1, <2>3, <3>1
  <2> QED
    BY <2>2, <2>3
<1>3. Link(d, i, c, j) = r
  BY DEF Link
<1> HIDE DEF pair
<1>4. r \in Links /\ \A x \in Indices : r[x] = IF x = i THEN pair ELSE d[x]
  BY <1>2 DEF Links
<1> HIDE DEF r
<1> QED
  BY <1>2, <1>3, <1>4 DEF CellSet

LEMMA CellIs ==
    ASSUME NEW d \in Links, NEW i \in Indices, NEW c \in {1, 2}
    PROVE  d[i][c] \in Indices
<1>1. PICK a \in Indices, b \in Indices : d[i] = <<a, b>>
  BY DEF Links
<1> QED
  BY <1>1

\* The six assignments of adjust, for an index that is not in front.
LEMMA AdjustIs ==
    ASSUME NEW d \in Links, NEW f, NEW t, Columns(f, t), NEW i \in Indices \ {0},
           d[i][f] \notin {0, i}, d[i][t] # i, d[0][t] \notin {0, i}
    PROVE  LET r == Adjust(d, i, f, t) IN
           /\ r \in Links
           /\ r[0][t] = i /\ r[0][f] = IF d[i][t] = 0 THEN d[i][f] ELSE d[0][f]
           /\ r[i][f] = 0 /\ r[i][t] = d[0][t]
           /\ \A j \in Indices \ {0, i} :
                 /\ r[j][f] = IF j = d[0][t] THEN i
                              ELSE IF j = d[i][t] THEN d[i][f] ELSE d[j][f]
                 /\ r[j][t] = IF j = d[i][f] THEN d[i][t] ELSE d[j][t]
<1> DEFINE a == d[i][f]
           b == d[i][t]
           h == d[0][t]
           d1 == Link(d, b, f, a)
           d2 == Link(d1, d1[i][f], t, d1[i][t])
           d3 == Link(d2, i, f, 0)
           d4 == Link(d3, i, t, d3[0][t])
           d5 == Link(d4, d4[0][t], f, i)
           r == Link(d5, 0, t, i)
<1>1. /\ f \in {1, 2} /\ t \in {1, 2} /\ f # t /\ 0 \in Indices /\ i \in Indices /\ i # 0
      /\ a \in Indices /\ b \in Indices /\ h \in Indices
      /\ a # 0 /\ a # i /\ b # i /\ h # 0 /\ h # i
  BY LevelAssumption, CellIs DEF Columns, Indices
<1>2. Adjust(d, i, f, t) = r
  BY <1>1 DEF Adjust
<1>3. d[i][f] = a /\ d[i][t] = b /\ d[0][t] = h
  OBVIOUS
<1> HIDE DEF a, b, h
<1>4. /\ d1 \in Links
     /\ \A x \in Indices, y \in {1, 2} : d1[x][y] = IF x = b /\ y = f THEN a ELSE d[x][y]
  <2>1. d1 = Link(d, b, f, a) /\ d \in Links
    BY <1>1
  <2>2. b \in Indices /\ f \in {1, 2} /\ a \in Indices
    BY <1>1
  <2>3. CellSet(d, Link(d, b, f, a), b, f, a)
    BY ONLY <2>1, <2>2, LinkIs
  <2> QED
    BY <2>1, <2>3 DEF CellSet
<1> HIDE DEF d1
<1>5. d1[i][f] = a /\ d1[i][t] = b
  BY <1>1, <1>3, <1>4
<1>6. /\ d2 \in Links
     /\ \A x \in Indices, y \in {1, 2} : d2[x][y] = IF x = a /\ y = t THEN b ELSE d1[x][y]
  <2>1. d2 = Link(d1, a, t, b) /\ d1 \in Links
    BY <1>4, <1>1, <1>5
  <2>2. a \in Indices /\ t \in {1, 2} /\ b \in Indices
    BY <1>1
  <2>3. CellSet(d1, Link(d1, a, t, b), a, t, b)
    BY ONLY <2>1, <2>2, LinkIs
  <2> QED
    BY <2>1, <2>3 DEF CellSet
<1> HIDE DEF d2
<1>7. /\ d3 \in Links
     /\ \A x \in Indices, y \in {1, 2} : d3[x][y] = IF x = i /\ y = f THEN 0 ELSE d2[x][y]
  <2>1. d3 = Link(d2, i, f, 0) /\ d2 \in Links
    BY <1>6, <1>1
  <2>2. i \in Indices /\ f \in {1, 2} /\ 0 \in Indices
    BY <1>1
  <2>3. CellSet(d2, Link(d2, i, f, 0), i, f, 0)
    BY ONLY <2>1, <2>2, LinkIs
  <2> QED
    BY <2>1, <2>3 DEF CellSet
<1> HIDE DEF d3
<1>8. d3[0][t] = h
  BY <1>1, <1>3, <1>4, <1>6, <1>7
<1>9. /\ d4 \in Links
     /\ \A x \in Indices, y \in {1, 2} : d4[x][y] = IF x = i /\ y = t THEN h ELSE d3[x][y]
  <2>1. d4 = Link(d3, i, t, h) /\ d3 \in Links
    BY <1>7, <1>1, <1>8
  <2>2. i \in Indices /\ t \in {1, 2} /\ h \in Indices
    BY <1>1
  <2>3. CellSet(d3, Link(d3, i, t, h), i, t, h)
    BY ONLY <2>1, <2>2, LinkIs
  <2> QED
    BY <2>1, <2>3 DEF CellSet
<1> HIDE DEF d4
<1>10. d4[0][t] = h
  BY <1>1, <1>8, <1>9
<1>11. /\ d5 \in Links
      /\ \A x \in Indices, y \in {1, 2} : d5[x][y] = IF x = h /\ y = f THEN i ELSE d4[x][y]
  <2>1. d5 = Link(d4, h, f, i) /\ d4 \in Links
    BY <1>9, <1>1, <1>10
  <2>2. h \in Indices /\ f \in {1, 2} /\ i \in Indices
    BY <1>1
  <2>3. CellSet(d4, Link(d4, h, f, i), h, f, i)
    BY ONLY <2>1, <2>2, LinkIs
  <2> QED
    BY <2>1, <2>3 DEF CellSet
<1> HIDE DEF d5
<1>12. /\ r \in Links
      /\ \A x \in Indices, y \in {1, 2} : r[x][y] = IF x = 0 /\ y = t THEN i ELSE d5[x][y]
  <2>1. r = Link(d5, 0, t, i) /\ d5 \in Links
    BY <1>11, <1>1
  <2>2. 0 \in Indices /\ t \in {1, 2} /\ i \in Indices
    BY <1>1
  <2>3. CellSet(d5, Link(d5, 0, t, i), 0, t, i)
    BY ONLY <2>1, <2>2, LinkIs
  <2> QED
    BY <2>1, <2>3 DEF CellSet
<1> HIDE DEF r
<1>13. ASSUME NEW j \in Indices
       PROVE  /\ r[j][f] = IF j = h THEN i ELSE IF j = i THEN 0 ELSE IF j = b THEN a ELSE d[j][f]
              /\ r[j][t] = IF j = 0 THEN i ELSE IF j = i THEN h ELSE IF j = a THEN b ELSE d[j][t]
  <2>1. r[j][f] = d5[j][f] /\ r[j][t] = IF j = 0 THEN i ELSE d5[j][t]
    BY <1>1, <1>12
  <2>2. d5[j][f] = (IF j = h THEN i ELSE d4[j][f]) /\ d5[j][t] = d4[j][t]
    BY <1>1, <1>11
  <2>3. d4[j][f] = d3[j][f] /\ d4[j][t] = IF j = i THEN h ELSE d3[j][t]
    BY <1>1, <1>9
  <2>4. d3[j][f] = (IF j = i THEN 0 ELSE d2[j][f]) /\ d3[j][t] = d2[j][t]
    BY <1>1, <1>7
  <2>5. d2[j][f] = d1[j][f] /\ d2[j][t] = IF j = a THEN b ELSE d1[j][t]
    BY <1>1, <1>6
  <2>6. d1[j][f] = (IF j = b THEN a ELSE d[j][f]) /\ d1[j][t] = d[j][t]
    BY <1>1, <1>4
  <2> QED
    BY <2>1, <2>2, <2>3, <2>4, <2>5, <2>6
<1>14. /\ r[0][t] = i /\ r[0][f] = IF b = 0 THEN a ELSE d[0][f]
       /\ r[i][f] = 0 /\ r[i][t] = h
  BY <1>1, <1>13
<1>15. \A j \in Indices \ {0, i} :
          /\ r[j][f] = IF j = h THEN i ELSE IF j = b THEN a ELSE d[j][f]
          /\ r[j][t] = IF j = a THEN b ELSE d[j][t]
  BY <1>13
<1> QED
  BY <1>2, <1>3, <1>12, <1>14, <1>15

LEMMA RevIs ==
    ASSUME NEW L \in Nat, NEW s, Order(s, L)
    PROVE  /\ Order(Rev(s, L), L)
           /\ \A d, f, t : Linked(d, s, L, f, t) => Linked(d, Rev(s, L), L, t, f)
<1> DEFINE r == Rev(s, L)
<1>1. \A i \in 1 .. L : L + 1 - i \in 1 .. L /\ L + 1 - (L + 1 - i) = i
  OBVIOUS
<1>2. \A i \in 1 .. L : r[i] = s[L + 1 - i] /\ r[i] \in 1 .. L
  BY <1>1 DEF Rev, Order
<1>3. Order(r, L)
  <2>1. r \in [1 .. L -> 1 .. L]
    BY <1>2 DEF Rev
  <2>2. ASSUME NEW i \in 1 .. L, NEW j \in 1 .. L, r[i] = r[j] PROVE i = j
    <3>1. s[L + 1 - i] = s[L + 1 - j] /\ L + 1 - i \in 1 .. L /\ L + 1 - j \in 1 .. L
      BY <1>1, <1>2, <2>2
    <3>2. L + 1 - i = L + 1 - j
      BY <3>1 DEF Order
    <3> QED
      BY <3>2
  <2>3. ASSUME NEW i \in 1 .. L PROVE \E j \in 1 .. L : r[j] = i
    <3>1. PICK j \in 1 .. L : s[j] = i
      BY DEF Order
    <3>2. L + 1 - j \in 1 .. L /\ r[L + 1 - j] = i
      BY <1>1, <1>2, <3>1
    <3> QED
      BY <3>2
  <2> QED
    BY <2>1, <2>2, <2>3 DEF Order
<1>4. ASSUME NEW d, NEW f, NEW t, Linked(d, s, L, f, t) PROVE Linked(d, r, L, t, f)
  <2>1. \A i \in 0 .. L + 1 : At(r, L, i) = At(s, L, L + 1 - i)
    <3>1. \A i \in 0 .. L + 1 : i \in 1 .. L <=> L + 1 - i \in 1 .. L
      OBVIOUS
    <3> HIDE DEF r
    <3> QED
      BY <1>2, <3>1 DEF At
  <2>2. ASSUME NEW i \in 1 .. L
        PROVE  d[r[i]][t] = At(r, L, i - 1) /\ d[r[i]][f] = At(r, L, i + 1)
    <3> DEFINE j == L + 1 - i
    <3>1. /\ j \in 1 .. L /\ r[i] = s[j] /\ i - 1 \in 0 .. L + 1 /\ i + 1 \in 0 .. L + 1
          /\ L + 1 - (i - 1) = j + 1 /\ L + 1 - (i + 1) = j - 1
      BY <1>2
    <3> HIDE DEF j, r
    <3>2. d[s[j]][f] = At(s, L, j - 1) /\ d[s[j]][t] = At(s, L, j + 1)
      BY <1>4, <3>1 DEF Linked
    <3>3. At(r, L, i - 1) = At(s, L, j + 1) /\ At(r, L, i + 1) = At(s, L, j - 1)
      BY <2>1, <3>1
    <3> QED
      BY <3>1, <3>2, <3>3
  <2>3. At(r, L, 1) = At(s, L, L) /\ At(r, L, L) = At(s, L, 1)
    <3>1. 1 \in 0 .. L + 1 /\ L \in 0 .. L + 1 /\ L + 1 - 1 = L /\ L + 1 - L = 1
      OBVIOUS
    <3> HIDE DEF r
    <3> QED
      BY <2>1, <3>1
  <2> HIDE DEF r
  <2> QED
    BY <1>4, <2>2, <2>3 DEF Linked
<1> QED
  BY <1>3, <1>4 DEF r

LEMMA FrontedIs ==
    ASSUME NEW L \in Nat, NEW s, Order(s, L), NEW x \in 1 .. L
    PROVE  Order(Fronted(s, L, x), L)
<1> DEFINE r == Fronted(s, L, x)
           old == [j \in 1 .. L |-> IF j = 1 THEN x ELSE IF j <= x THEN j - 1 ELSE j]
<1>1. \A j \in 1 .. L : old[j] \in 1 .. L
  OBVIOUS
<1>2. \A i, j \in 1 .. L : old[i] = old[j] => i = j
  OBVIOUS
<1>3. \A i \in 1 .. L : \E j \in 1 .. L : old[j] = i
  <2> SUFFICES ASSUME NEW i \in 1 .. L PROVE \E j \in 1 .. L : old[j] = i
    OBVIOUS
  <2>1. CASE i = x
    <3>1. 1 \in 1 .. L /\ old[1] = i
      BY <2>1
    <3> QED
      BY <3>1
  <2>2. CASE i < x
    <3>1. i + 1 \in 1 .. L /\ old[i + 1] = i
      BY <2>2
    <3> QED
      BY <3>1
  <2>3. CASE i > x
    <3>1. old[i] = i
      BY <2>3
    <3> QED
      BY <3>1
  <2> QED
    BY <2>1, <2>2, <2>3
<1>4. r = [j \in 1 .. L |-> s[old[j]]]
  BY DEF Fronted
<1> HIDE DEF old, r
<1>5. \A j \in 1 .. L : r[j] = s[old[j]] /\ r[j] \in 1 .. L
  <2>1. \A j \in 1 .. L : r[j] = s[old[j]]
    BY <1>4
  <2>2. s \in [1 .. L -> 1 .. L]
    BY DEF Order
  <2> QED
    BY <1>1, <2>1, <2>2
<1>6. r \in [1 .. L -> 1 .. L]
  BY <1>4, <1>5
<1>7. \A i, j \in 1 .. L : r[i] = r[j] => i = j
  <2> SUFFICES ASSUME NEW i \in 1 .. L, NEW j \in 1 .. L, r[i] = r[j] PROVE i = j
    OBVIOUS
  <2>1. s[old[i]] = s[old[j]] /\ old[i] \in 1 .. L /\ old[j] \in 1 .. L
    BY <1>1, <1>5
  <2>2. old[i] = old[j]
    BY <2>1 DEF Order
  <2> QED
    BY <1>2, <2>2
<1>8. \A i \in 1 .. L : \E j \in 1 .. L : r[j] = i
  <2> SUFFICES ASSUME NEW i \in 1 .. L PROVE \E j \in 1 .. L : r[j] = i
    OBVIOUS
  <2>1. PICK l \in 1 .. L : s[l] = i
    BY DEF Order
  <2>2. PICK j \in 1 .. L : old[j] = l
    BY <1>3
  <2> QED
    BY <1>5, <2>1, <2>2
<1> QED
  BY <1>6, <1>7, <1>8 DEF Order, r

\* adjust moves a place of the list to its front ...
LEMMA AdjustFronts ==
    ASSUME NEW L \in 0 .. Cap, NEW s, Order(s, L), NEW f, NEW t, Columns(f, t),
           NEW d \in Links, Linked(d, s, L, f, t), NEW x \in 1 .. L
    PROVE  /\ Adjust(d, s[x], f, t) \in Links
           /\ Linked(Adjust(d, s[x], f, t), Fronted(s, L, x), L, f, t)
<1> DEFINE i == s[x]
           w == Fronted(s, L, x)
           r == Adjust(d, i, f, t)
<1>1. /\ L \in Nat /\ \A j \in 1 .. L : s[j] \in 1 .. L /\ s[j] \in Indices \ {0}
      /\ \A j, l \in 1 .. L : s[j] = s[l] => j = l
  <2>1. L \in Nat /\ 1 .. L \subseteq Indices \ {0}
    BY LevelAssumption DEF Indices
  <2>2. s \in [1 .. L -> 1 .. L] /\ \A j, l \in 1 .. L : s[j] = s[l] => j = l
    BY DEF Order
  <2> QED
    BY <2>1, <2>2
<1>2. \A j \in 1 .. L : d[s[j]][f] = At(s, L, j - 1) /\ d[s[j]][t] = At(s, L, j + 1)
  BY DEF Linked
<1>3. d[0][t] = At(s, L, 1) /\ d[0][f] = At(s, L, L)
  BY DEF Linked
<1>4. \A j \in 1 .. L : w[j] = IF j = 1 THEN s[x] ELSE IF j <= x THEN s[j - 1] ELSE s[j]
  BY DEF Fronted
<1>5. CASE x = 1
  <2>1. d[i][f] = 0
    BY <1>2, <1>5 DEF At
  <2>2. r = d
    BY <2>1 DEF Adjust
  <2>3. w = s
    <3>1. \A j \in 1 .. L : w[j] = s[j]
      BY <1>1, <1>4, <1>5
    <3>2. s = [j \in 1 .. L |-> s[j]] /\ w = [j \in 1 .. L |-> w[j]]
      BY DEF Order, Fronted
    <3> HIDE DEF w
    <3> QED
      BY <3>1, <3>2
  <2> HIDE DEF r, w
  <2> QED
    BY <2>2, <2>3 DEF r, w
<1>6. CASE x # 1
  <2> DEFINE a == s[x - 1]
             b == At(s, L, x + 1)
             h == s[1]
  <2>1. x - 1 \in 1 .. L /\ 1 \in 1 .. L /\ 1 < x /\ L \in 1 .. L
    BY <1>1, <1>6
  <2>2. d[i][f] = a /\ d[i][t] = b /\ d[0][t] = h
    BY <1>2, <1>3, <2>1 DEF At
  <2>3. a \notin {0, i} /\ b # i /\ h \notin {0, i}
    BY <1>1, <2>1 DEF At, Indices
  <2>4. /\ r \in Links
        /\ r[0][t] = i /\ r[0][f] = IF b = 0 THEN a ELSE d[0][f]
        /\ r[i][f] = 0 /\ r[i][t] = h
        /\ \A j \in Indices \ {0, i} :
              /\ r[j][f] = IF j = h THEN i ELSE IF j = b THEN a ELSE d[j][f]
              /\ r[j][t] = IF j = a THEN b ELSE d[j][t]
    <3>1. i \in Indices \ {0} /\ d[i][f] \notin {0, i} /\ d[i][t] # i /\ d[0][t] \notin {0, i}
      BY <1>1, <2>2, <2>3
    <3> HIDE DEF i, a, b, h
    <3> QED
      BY <2>2, <3>1, AdjustIs
  <2> HIDE DEF r, w
  <2>5. \A j \in 1 .. L : j # x => s[j] \in Indices \ {0, i}
    BY <1>1
  <2>6. ASSUME NEW j \in 1 .. L
        PROVE  r[w[j]][f] = At(w, L, j - 1) /\ r[w[j]][t] = At(w, L, j + 1)
    <3>1. CASE j = 1
      <4>1. w[j] = i /\ At(w, L, j - 1) = 0
        BY <1>4, <3>1 DEF At
      <4>2. At(w, L, j + 1) = h
        <5>1. 2 \in 1 .. L /\ w[2] = h
          BY <1>4, <2>1
        <5> QED
          BY <3>1, <5>1 DEF At
      <4> QED
        BY <2>4, <4>1, <4>2
    <3>2. CASE j # 1 /\ j < x
      <4>1. j - 1 \in 1 .. L /\ w[j] = s[j - 1] /\ j - 1 # x /\ j - 1 # x - 1 /\ j - 1 # x + 1
        BY <1>4, <3>2
      <4>2. At(w, L, j + 1) = s[j]
        <5>1. j + 1 \in 1 .. L /\ w[j + 1] = s[j]
          BY <1>4, <3>2
        <5> QED
          BY <5>1 DEF At
      <4>3. d[s[j - 1]][f] = At(s, L, j - 2) /\ d[s[j - 1]][t] = s[j]
        BY <1>2, <4>1 DEF At
      <4>4. s[j - 1] \in Indices \ {0, i} /\ s[j - 1] # a /\ s[j - 1] # b
        BY <1>1, <2>1, <2>5, <4>1 DEF At
      <4>5. r[w[j]][t] = At(w, L, j + 1)
        BY <2>4, <4>1, <4>2, <4>3, <4>4
      <4>6. r[w[j]][f] = At(w, L, j - 1)
        <5>1. CASE j = 2
          <6>1. w[j] = h /\ At(w, L, j - 1) = i
            BY <1>4, <2>1, <4>1, <5>1 DEF At
          <6> QED
            BY <2>4, <4>1, <4>4, <6>1
        <5>2. CASE j # 2
          <6>1. j - 2 \in 1 .. L /\ w[j - 1] = s[j - 2] /\ s[j - 1] # h
            BY <1>1, <1>4, <2>1, <3>2, <4>1, <5>2
          <6>2. At(w, L, j - 1) = s[j - 2] /\ At(s, L, j - 2) = s[j - 2]
            BY <4>1, <6>1 DEF At
          <6> QED
            BY <2>4, <4>1, <4>3, <4>4, <6>1, <6>2
        <5> QED
          BY <5>1, <5>2
      <4> QED
        BY <4>5, <4>6
    <3>3. CASE j = x
      <4>1. w[j] = a /\ a \in Indices \ {0, i}
        BY <1>4, <2>1, <2>5, <3>3
      <4>2. At(w, L, j + 1) = b
        <5>1. x + 1 \in 1 .. L => w[x + 1] = s[x + 1]
          BY <1>4, <2>1
        <5> QED
          BY <3>3, <5>1 DEF At
      <4>3. r[a][f] = At(w, L, j - 1)
        <5>1. CASE x = 2
          <6>1. a = h /\ At(w, L, j - 1) = i
            BY <1>4, <2>1, <3>3, <5>1 DEF At
          <6> QED
            BY <2>4, <4>1, <6>1
        <5>2. CASE x # 2
          <6>1. x - 2 \in 1 .. L /\ w[x - 1] = s[x - 2] /\ a # h
            BY <1>1, <1>4, <2>1, <5>2
          <6>2. At(w, L, j - 1) = s[x - 2] /\ d[a][f] = s[x - 2] /\ a # b
            BY <1>1, <1>2, <2>1, <3>3, <6>1 DEF At
          <6> QED
            BY <2>4, <4>1, <6>1, <6>2
        <5> QED
          BY <5>1, <5>2
      <4> QED
        BY <2>4, <4>1, <4>2, <4>3
    <3>4. CASE j > x
      <4>1. w[j] = s[j] /\ s[j] \in Indices \ {0, i} /\ s[j] # h /\ s[j] # a
        BY <1>1, <1>4, <2>1, <2>5, <3>4
      <4>2. At(w, L, j + 1) = At(s, L, j + 1)
        <5>1. j + 1 \in 1 .. L => w[j + 1] = s[j + 1]
          BY <1>4, <2>1, <3>4
        <5> QED
          BY <5>1 DEF At
      <4>3. r[s[j]][f] = At(w, L, j - 1)
        <5>1. CASE j = x + 1
          <6>1. s[j] = b /\ At(w, L, j - 1) = a
            BY <1>4, <2>1, <5>1 DEF At
          <6> QED
            BY <2>4, <4>1, <6>1
        <5>2. CASE j # x + 1
          <6>1. j - 1 \in 1 .. L /\ j - 1 > x /\ w[j - 1] = s[j - 1] /\ s[j] # b
            BY <1>1, <1>4, <2>1, <3>4, <5>2 DEF At
          <6>2. At(w, L, j - 1) = s[j - 1] /\ d[s[j]][f] = s[j - 1]
            BY <1>2, <6>1 DEF At
          <6> QED
            BY <2>4, <4>1, <6>1, <6>2
        <5> QED
          BY <5>1, <5>2
      <4> QED
        BY <1>2, <2>4, <4>1, <4>2, <4>3
    <3> QED
      BY <3>1, <3>2, <3>3, <3>4
  <2>7. r[0][t] = At(w, L, 1) /\ r[0][f] = At(w, L, L)
    <3>1. At(w, L, 1) = i
      BY <1>4, <2>1 DEF At
    <3>2. CASE x = L
      <4>1. b = 0 /\ At(w, L, L) = a
        BY <1>4, <2>1, <3>2 DEF At
      <4> QED
        BY <2>4, <3>1, <4>1
    <3>3. CASE x # L
      <4>1. x + 1 \in 1 .. L /\ b # 0
        BY <1>1, <2>1, <3>3 DEF At
      <4>2. At(w, L, L) = s[L] /\ At(s, L, L) = s[L]
        BY <1>4, <2>1, <3>3 DEF At
      <4> QED
        BY <1>3, <2>4, <3>1, <4>1, <4>2
    <3> QED
      BY <3>2, <3>3
  <2>8. Linked(r, w, L, f, t)
    BY <2>6, <2>7 DEF Linked
  <2> QED
    BY <2>4, <2>8 DEF r, w
<1> QED
  BY <1>5, <1>6

\* ... and, with the columns exchanged, to its end.
LEMMA AdjustBacks ==
    ASSUME NEW L \in 0 .. Cap, NEW s, Order(s, L),
           NEW d \in Links, Linked(d, s, L, 1, 2), NEW x \in 1 .. L
    PROVE  /\ Adjust(d, s[x], 2, 1) \in Links /\ Order(Backed(s, L, x), L)
           /\ Linked(Adjust(d, s[x], 2, 1), Backed(s, L, x), L, 1, 2)
<1> DEFINE v == Rev(s, L)
           y == L + 1 - x
           w == Fronted(v, L, y)
           e == Adjust(d, s[x], 2, 1)
<1>1. L \in Nat /\ y \in 1 .. L /\ L + 1 - y = x /\ L \in 0 .. Cap
  BY LevelAssumption
<1>2. v[y] = s[x]
  BY <1>1 DEF Rev
<1>3. Order(v, L) /\ Linked(d, v, L, 2, 1)
  BY <1>1, RevIs
<1>4. Columns(2, 1) /\ d \in Links
  BY DEF Columns
<1>5. Rev(w, L) = Backed(s, L, x)
  <2>1. ASSUME NEW j \in 1 .. L PROVE Rev(w, L)[j] = Backed(s, L, x)[j]
    <3>1. L + 1 - j \in 1 .. L /\ (L + 1 - j = 1 <=> j = L) /\ (L + 1 - j <= y <=> j >= x)
      BY <1>1
    <3>2. Rev(w, L)[j] = IF j = L THEN v[y] ELSE IF j >= x THEN v[L + 1 - j - 1] ELSE v[L + 1 - j]
      BY <3>1 DEF Rev, Fronted
    <3>3. j # L => L + 1 - j - 1 \in 1 .. L /\ L + 1 - (L + 1 - j - 1) = j + 1
      BY <1>1
    <3>4. L + 1 - (L + 1 - j) = j
      BY <1>1
    <3>5. (j # L => v[L + 1 - j - 1] = s[j + 1]) /\ v[L + 1 - j] = s[j]
      BY <3>1, <3>3, <3>4 DEF Rev
    <3>6. Backed(s, L, x)[j] = IF j = L THEN s[x] ELSE IF j >= x THEN s[j + 1] ELSE s[j]
      BY DEF Backed
    <3> HIDE DEF v, y, w
    <3> QED
      BY <1>2, <3>2, <3>5, <3>6
  <2> HIDE DEF w
  <2> QED
    BY <2>1 DEF Rev, Backed
<1> HIDE DEF v, y
<1>6. Order(w, L)
  BY <1>1, <1>3, FrontedIs
<1>7. e \in Links /\ Linked(e, w, L, 2, 1)
  <2>1. Adjust(d, v[y], 2, 1) \in Links /\ Linked(Adjust(d, v[y], 2, 1), w, L, 2, 1)
    BY ONLY <1>1, <1>3, <1>4, AdjustFronts
  <2> QED
    BY <1>2, <2>1
<1> HIDE DEF e, w
<1>8. Order(Rev(w, L), L) /\ Linked(e, Rev(w, L), L, 1, 2)
  BY <1>1, <1>6, <1>7, RevIs
<1> QED
  BY <1>5, <1>7, <1>8 DEF e

\* A node never used joins the list in front.
Joined(s, L) == [j \in 1 .. L + 1 |-> IF j = 1 THEN L + 1 ELSE s[j - 1]]

\* What Allocate makes of d.
Allocated(d, L) ==
    LET d1 == Link(d, d[0][2], 1, L + 1)
        d2 == [d1 EXCEPT ![L + 1] = <<0, d1[0][2]>>]
    IN Link(d2, 0, 2, L + 1)

LEMMA AllocateIs ==
    ASSUME NEW L \in 0 .. Cap - 1, NEW s, Order(s, L), NEW d \in Links, Linked(d, s, L, 1, 2)
    PROVE  /\ Order(Joined(s, L), L + 1) /\ Allocated(d, L) \in Links
           /\ Linked(Allocated(d, L), Joined(s, L), L + 1, 1, 2)
<1> DEFINE M == L + 1
           h == d[0][2]
           w == Joined(s, L)
           d1 == Link(d, h, 1, M)
           d2 == [d1 EXCEPT ![M] = <<0, d1[0][2]>>]
           r == Link(d2, 0, 2, M)
<1>1. /\ L \in Nat /\ M \in 1 .. M /\ M \in Indices \ {0} /\ M = L + 1 /\ 0 \in Indices
      /\ 1 .. L \subseteq Indices \ {0, M} /\ M \notin 1 .. L
      /\ 1 .. M = 1 .. L \cup {M}
  BY LevelAssumption DEF Indices
<1>2. /\ s \in [1 .. L -> 1 .. L] /\ \A j, l \in 1 .. L : s[j] = s[l] => j = l
      /\ \A j \in 1 .. L : \E l \in 1 .. L : s[l] = j
  BY DEF Order
<1>3. h \in Indices \ {M} /\ h = At(s, L, 1)
  <2>1. h = At(s, L, 1)
    BY DEF Linked
  <2>2. 1 \in 1 .. L => s[1] \in 1 .. L
    BY <1>2
  <2> HIDE DEF h
  <2> QED
    BY <1>1, <2>1, <2>2 DEF At
<1>4. \A j \in 1 .. M : w[j] = IF j = 1 THEN M ELSE s[j - 1]
  BY DEF Joined
<1>5. \A j \in 1 .. M : j = 1 \/ j - 1 \in 1 .. L
  BY <1>1
<1>6. Order(w, M)
  <2>1. w \in [1 .. M -> 1 .. M]
    BY <1>1, <1>2, <1>5 DEF Joined
  <2> HIDE DEF w
  <2>2. ASSUME NEW i \in 1 .. M, NEW j \in 1 .. M, w[i] = w[j] PROVE i = j
    <3>1. CASE i = 1 \/ j = 1
      BY <1>1, <1>2, <1>4, <1>5, <2>2, <3>1
    <3>2. CASE i # 1 /\ j # 1
      <4>1. i - 1 = j - 1
        BY <1>2, <1>4, <1>5, <2>2, <3>2
      <4> QED
        BY <4>1
    <3> QED
      BY <3>1, <3>2
  <2>3. ASSUME NEW i \in 1 .. M PROVE \E j \in 1 .. M : w[j] = i
    <3>1. CASE i = M
      <4>1. 1 \in 1 .. M /\ w[1] = M
        BY <1>1, <1>4
      <4> QED
        BY <3>1, <4>1
    <3>2. CASE i # M
      <4>1. PICK l \in 1 .. L : s[l] = i
        BY <1>1, <1>2, <3>2
      <4>2. l + 1 \in 1 .. M /\ w[l + 1] = i
        BY <1>1, <1>4, <4>1
      <4> QED
        BY <4>2
    <3> QED
      BY <3>1, <3>2
  <2> QED
    BY <2>1, <2>2, <2>3 DEF Order
<1> HIDE DEF h, M, w
<1>7. /\ d1 \in Links
      /\ \A x \in Indices, y \in {1, 2} : d1[x][y] = IF x = h /\ y = 1 THEN M ELSE d[x][y]
  <2>1. d1 = Link(d, h, 1, M) /\ d \in Links /\ h \in Indices /\ 1 \in {1, 2} /\ M \in Indices
    BY <1>1, <1>3
  <2>2. CellSet(d, Link(d, h, 1, M), h, 1, M)
    BY ONLY <2>1, LinkIs
  <2> QED
    BY <2>1, <2>2 DEF CellSet
<1> HIDE DEF d1
<1>8. d1[0][2] = h
  BY <1>1, <1>7 DEF h
<1>9. /\ d2 \in Links
      /\ \A x \in Indices, y \in {1, 2} :
            d2[x][y] = IF x = M THEN (IF y = 1 THEN 0 ELSE h) ELSE d1[x][y]
  <2> DEFINE pair == <<0, h>>
             e == [d1 EXCEPT ![M] = pair]
  <2>1. d2 = e
    BY <1>8
  <2>2. pair \in Indices \X Indices /\ pair[1] = 0 /\ pair[2] = h
    BY <1>1, <1>3
  <2> HIDE DEF pair, d2
  <2>3. e \in Links /\ \A x \in Indices : e[x] = IF x = M THEN pair ELSE d1[x]
    BY <1>1, <1>7, <2>2 DEF Links
  <2> HIDE DEF e
  <2> QED
    BY <2>1, <2>2, <2>3
<1> HIDE DEF d2
<1>10. /\ r \in Links
       /\ \A x \in Indices, y \in {1, 2} : r[x][y] = IF x = 0 /\ y = 2 THEN M ELSE d2[x][y]
  <2>1. r = Link(d2, 0, 2, M) /\ d2 \in Links /\ 0 \in Indices /\ 2 \in {1, 2} /\ M \in Indices
    BY <1>1, <1>9
  <2>2. CellSet(d2, Link(d2, 0, 2, M), 0, 2, M)
    BY ONLY <2>1, LinkIs
  <2> QED
    BY <2>1, <2>2 DEF CellSet
<1> HIDE DEF r
<1>11. ASSUME NEW x \in Indices
       PROVE  /\ r[x][1] = IF x = M THEN 0 ELSE IF x = h THEN M ELSE d[x][1]
              /\ r[x][2] = IF x = 0 THEN M ELSE IF x = M THEN h ELSE d[x][2]
  <2>1. r[x][1] = d2[x][1] /\ r[x][2] = IF x = 0 THEN M ELSE d2[x][2]
    BY <1>10
  <2>2. d2[x][1] = (IF x = M THEN 0 ELSE d1[x][1]) /\ d2[x][2] = IF x = M THEN h ELSE d1[x][2]
    BY <1>9
  <2>3. d1[x][1] = (IF x = h THEN M ELSE d[x][1]) /\ d1[x][2] = d[x][2]
    BY <1>7
  <2> QED
    BY <2>1, <2>2, <2>3
<1>12. ASSUME NEW j \in 1 .. M
       PROVE  r[w[j]][1] = At(w, M, j - 1) /\ r[w[j]][2] = At(w, M, j + 1)
  <2>1. CASE j = 1
    <3>1. w[j] = M /\ At(w, M, j - 1) = 0
      BY <1>4, <2>1 DEF At
    <3>2. At(w, M, j + 1) = h
      <4>1. 2 \in 1 .. M <=> 1 \in 1 .. L
        BY <1>1
      <4>2. 2 \in 1 .. M => w[2] = s[1]
        BY <1>4
      <4> QED
        BY <1>3, <2>1, <4>1, <4>2 DEF At
    <3> QED
      BY <1>1, <1>11, <3>1, <3>2
  <2>2. CASE j # 1
    <3>1. j - 1 \in 1 .. L /\ w[j] = s[j - 1] /\ s[j - 1] \in 1 .. L
      BY <1>2, <1>4, <1>5, <2>2
    <3>2. s[j - 1] \in Indices \ {0, M}
      BY <1>1, <3>1
    <3>3. d[s[j - 1]][1] = At(s, L, j - 2) /\ d[s[j - 1]][2] = At(s, L, j)
      <4>1. (j - 1) - 1 = j - 2 /\ (j - 1) + 1 = j
        OBVIOUS
      <4> QED
        BY <3>1, <4>1 DEF Linked
    <3>4. At(w, M, j + 1) = At(s, L, j)
      <4>1. j + 1 \in 1 .. M <=> j \in 1 .. L
        BY <1>1, <3>1
      <4>2. j + 1 \in 1 .. M => w[j + 1] = s[j]
        BY <1>4
      <4> QED
        BY <4>1, <4>2 DEF At
    <3>5. r[w[j]][1] = At(w, M, j - 1)
      <4>1. CASE j = 2
        <5>1. s[j - 1] = h /\ At(w, M, j - 1) = M
          BY <1>1, <1>3, <1>4, <3>1, <4>1 DEF At
        <5> QED
          BY <1>11, <3>1, <3>2, <5>1
      <4>2. CASE j # 2
        <5>1. j - 2 \in 1 .. L /\ w[j - 1] = s[j - 2] /\ j - 1 \in 1 .. M
          BY <1>1, <1>4, <3>1, <4>2
        <5>2. s[j - 1] # h
          BY <1>2, <1>3, <3>1, <3>2, <4>2 DEF At
        <5>3. At(w, M, j - 1) = s[j - 2] /\ At(s, L, j - 2) = s[j - 2]
          BY <5>1 DEF At
        <5> QED
          BY <1>11, <3>1, <3>2, <3>3, <5>2, <5>3
      <4> QED
        BY <4>1, <4>2
    <3> QED
      BY <1>11, <3>1, <3>2, <3>3, <3>4, <3>5
  <2> QED
    BY <2>1, <2>2
<1>13. r[0][2] = At(w, M, 1) /\ r[0][1] = At(w, M, M)
  <2>1. At(w, M, 1) = M
    BY <1>1, <1>4 DEF At
  <2>2. r[0][1] = At(w, M, M)
    <3>1. CASE L = 0
      <4>1. h = 0 /\ M = 1
        BY <1>1, <1>3, <3>1 DEF At
      <4> QED
        BY <1>1, <1>11, <2>1, <4>1
    <3>2. CASE L # 0
      <4>1. M - 1 = L /\ L \in 1 .. L /\ 1 \in 1 .. L /\ M # 1
        BY <1>1, <3>2
      <4>2. h \in 1 .. L /\ h # 0
        BY <1>1, <1>2, <1>3, <4>1 DEF At
      <4>3. At(w, M, M) = s[L] /\ At(s, L, L) = s[L]
        BY <1>1, <1>4, <4>1 DEF At
      <4>4. d[0][1] = At(s, L, L)
        BY DEF Linked
      <4> QED
        BY <1>1, <1>11, <4>2, <4>3, <4>4
    <3> QED
      BY <3>1, <3>2
  <2> QED
    BY <1>1, <1>11, <2>1, <2>2
<1>14. Linked(r, w, M, 1, 2)
  BY <1>12, <1>13 DEF Linked
<1>15. Allocated(d, L) = r
  BY DEF Allocated, r, d2, d1, h, M
<1> QED
  BY <1>6, <1>10, <1>14, <1>15 DEF w, M

-----------------------------------------------------------------------------
(* A walk meets the list.                                                     *)

LEMMA LeastOf ==
    ASSUME NEW S, S \subseteq Nat, S # {}
    PROVE  \E i \in S : \A j \in S : i <= j
<1>1. PICK i \in S : \A j \in S : ~ (<<j, i>> \in OpToRel(<, Nat))
  BY WFMin, NatLessThanWellFounded
<1>2. ASSUME NEW j \in S PROVE i <= j
  <2>1. j \in Nat /\ i \in Nat /\ <<j, i>> \in Nat \X Nat
    OBVIOUS
  <2>2. ~ (j < i)
    BY <1>1, <2>1 DEF OpToRel
  <2> QED
    BY <2>1, <2>2
<1> QED
  BY <1>2

\* g is the indices met in d along column t, with the sentinel between rounds ...
MetBy(g, d, t) ==
    /\ g \in [0 .. Cap -> Indices]
    /\ \A i \in 0 .. Cap : g[i] = IF i = 0 THEN d[0][t] ELSE d[g[i - 1]][t]
    /\ Walk(d, t) = LET met == {i \in 0 .. Cap - 1 : \A j \in 0 .. i : g[j] # 0}
                    IN [i \in 1 .. Cardinality(met) |-> g[i - 1]]

\* ... and it exists: the function of Walk is well defined.
LEMMA WalkPath ==
    ASSUME NEW d \in Links, NEW t \in {1, 2}
    PROVE  \E g : MetBy(g, d, t)
<1> DEFINE next(f, i) == IF i = 0 THEN d[0][t] ELSE d[f[i - 1]][t]
           body(f) == [i \in 0 .. Cap |-> IF i = 0 THEN d[0][t] ELSE d[f[i - 1]][t]]
           path(l) == \E f : f \in [0 .. l -> Indices] /\ \A i \in 0 .. l : f[i] = next(f, i)
           at == CHOOSE f : f = body(f)
<1>1. Cap \in Nat /\ 0 \in Indices
  BY LevelAssumption DEF Indices
<1>2. \A i \in Indices : d[i][t] \in Indices
  BY CellIs
<1>3. path(Cap)
  <2> DEFINE bad == {l \in 0 .. Cap : ~path(l)}
  <2> SUFFICES ASSUME bad # {} PROVE FALSE
    <3>1. Cap \in 0 .. Cap
      BY <1>1
    <3> HIDE DEF path
    <3> QED
      BY <3>1
  <2>1. PICK l \in bad : \A j \in bad : l <= j
    <3>1. bad \subseteq Nat
      BY <1>1
    <3> HIDE DEF bad
    <3> QED
      BY <3>1, LeastOf
  <2>2. l # 0
    <3>1. path(0)
      <4> DEFINE g == [i \in 0 .. 0 |-> d[0][t]]
      <4>1. g \in [0 .. 0 -> Indices] /\ \A i \in 0 .. 0 : g[i] = next(g, i)
        BY <1>1, <1>2
      <4> QED
        BY <4>1
    <3> HIDE DEF path
    <3> QED
      BY <2>1, <3>1
  <2>3. path(l - 1)
    <3>1. l - 1 \in 0 .. Cap /\ ~(l <= l - 1)
      BY <1>1, <2>1, <2>2
    <3> HIDE DEF path
    <3> QED
      BY <2>1, <3>1
  <2>4. PICK f : f \in [0 .. l - 1 -> Indices] /\ \A i \in 0 .. l - 1 : f[i] = next(f, i)
    BY <2>3
  <2> DEFINE g == [i \in 0 .. l |-> IF i = l THEN next(f, l) ELSE f[i]]
  <2>5. ASSUME NEW i \in 0 .. l PROVE g[i] = next(g, i)
    <3>1. CASE i = 0
      BY <1>1, <2>1, <2>2, <2>4, <3>1
    <3>2. CASE i # 0
      <4>1. i - 1 \in 0 .. l - 1 /\ i - 1 \in 0 .. l /\ i - 1 # l
        BY <1>1, <2>1, <3>2
      <4>2. g[i - 1] = f[i - 1]
        BY <4>1
      <4>3. next(g, i) = next(f, i)
        BY <3>2, <4>2
      <4>4. g[i] = next(f, i)
        <5>1. CASE i = l
          BY <5>1
        <5>2. CASE i # l
          <6>1. i \in 0 .. l - 1
            BY <1>1, <2>1, <5>2
          <6>2. g[i] = f[i]
            BY <5>2
          <6> HIDE DEF next, g
          <6> QED
            BY <2>4, <6>1, <6>2
        <5> QED
          BY <5>1, <5>2
      <4> QED
        BY <4>3, <4>4
    <3> QED
      BY <3>1, <3>2
  <2>6. g \in [0 .. l -> Indices]
    <3>1. next(f, l) \in Indices
      <4>1. l - 1 \in 0 .. l - 1
        BY <1>1, <2>1, <2>2
      <4> QED
        BY <1>1, <1>2, <2>2, <2>4, <4>1
    <3>2. \A i \in 0 .. l : i # l => f[i] \in Indices
      BY <1>1, <2>1, <2>4
    <3> HIDE DEF next
    <3> QED
      BY <3>1, <3>2
  <2>7. path(l)
    <3> HIDE DEF g, next
    <3> QED
      BY <2>5, <2>6
  <2> HIDE DEF path
  <2> QED
    BY <2>1, <2>7
<1>4. PICK f : f \in [0 .. Cap -> Indices] /\ \A i \in 0 .. Cap : f[i] = next(f, i)
  BY <1>3
<1>5. \E h : h = body(h)
  <2>1. \A i \in 0 .. Cap : body(f)[i] = f[i]
    BY <1>4
  <2>2. body(f) = f
    <3>1. DOMAIN body(f) = 0 .. Cap /\ body(f) = [i \in 0 .. Cap |-> body(f)[i]]
      OBVIOUS
    <3>2. f = [i \in 0 .. Cap |-> f[i]]
      BY <1>4
    <3> HIDE DEF body
    <3> QED
      BY <2>1, <3>1, <3>2
  <2> QED
    BY <2>2
<1>6. at = body(at)
  BY <1>5
<1>7. Walk(d, t) = LET met == {i \in 0 .. Cap - 1 : \A j \in 0 .. i : at[j] # 0}
                   IN [i \in 1 .. Cardinality(met) |-> at[i - 1]]
  BY DEF Walk
<1> HIDE DEF at
<1>8. DOMAIN at = 0 .. Cap /\ \A i \in 0 .. Cap : at[i] = next(at, i)
  BY <1>6
<1>9. \A i \in 0 .. Cap : at[i] \in Indices
  <2> DEFINE bad == {i \in 0 .. Cap : at[i] \notin Indices}
  <2> SUFFICES ASSUME bad # {} PROVE FALSE
    OBVIOUS
  <2>1. PICK l \in bad : \A j \in bad : l <= j
    <3>1. bad \subseteq Nat
      BY <1>1
    <3> HIDE DEF bad
    <3> QED
      BY <3>1, LeastOf
  <2>2. l \in 0 .. Cap /\ at[l] \notin Indices
    BY <2>1
  <2>3. l # 0
    BY <1>1, <1>2, <1>8, <2>2
  <2>4. l - 1 \in 0 .. Cap /\ ~(l <= l - 1)
    BY <1>1, <2>2, <2>3
  <2>5. at[l - 1] \in Indices
    BY <2>1, <2>4
  <2> QED
    BY <1>2, <1>8, <2>2, <2>3, <2>5
<1>10. at \in [0 .. Cap -> Indices]
  <2>1. at = [i \in 0 .. Cap |-> at[i]]
    BY <1>6
  <2> QED
    BY <1>9, <2>1
<1> QED
  BY <1>7, <1>8, <1>10 DEF MetBy

LEMMA WalkIs ==
    ASSUME NEW L \in 0 .. Cap, NEW s, Order(s, L), NEW f, NEW t, Columns(f, t),
           NEW d \in Links, Linked(d, s, L, f, t)
    PROVE  Walk(d, t) = s
<1>1. L \in Nat /\ Cap \in Nat
  BY LevelAssumption
<1>2. s = [i \in 1 .. L |-> s[i]] /\ \A i \in 1 .. L : s[i] \in 1 .. L
  BY DEF Order
<1>3. PICK g : MetBy(g, d, t)
  <2>1. d \in Links /\ t \in {1, 2}
    BY DEF Columns
  <2> QED
    BY ONLY <2>1, WalkPath
<1> DEFINE good(i) == g[i] = At(s, L, i + 1)
<1>4. \A i \in 0 .. L : good(i)
  <2> DEFINE bad == {i \in 0 .. L : ~good(i)}
  <2> SUFFICES ASSUME bad # {} PROVE FALSE
    OBVIOUS
  <2>1. PICK i \in bad : \A j \in bad : i <= j
    <3>1. bad \subseteq Nat
      BY <1>1
    <3> HIDE DEF bad
    <3> QED
      BY <3>1, LeastOf
  <2>2. i \in 0 .. L /\ ~good(i) /\ i \in 0 .. Cap
    BY <1>1, <2>1
  <2>3. i # 0
    <3>1. g[0] = At(s, L, 0 + 1)
      BY <1>1, <1>3 DEF MetBy, Linked
    <3> QED
      BY <2>2, <3>1
  <2>4. i - 1 \in 0 .. L /\ ~(i <= i - 1) /\ i \in 1 .. L
    BY <1>1, <2>2, <2>3
  <2>5. good(i - 1)
    BY <2>1, <2>4
  <2>6. g[i - 1] = s[i]
    BY <2>4, <2>5 DEF At
  <2>7. g[i] = d[s[i]][t]
    BY <1>3, <2>2, <2>3, <2>6 DEF MetBy
  <2> QED
    BY <2>2, <2>4, <2>7 DEF Linked
<1> DEFINE met == {i \in 0 .. Cap - 1 : \A j \in 0 .. i : g[j] # 0}
<1>5. \A i \in 0 .. L - 1 : g[i] = s[i + 1] /\ g[i] # 0
  <2>1. \A i \in 0 .. L - 1 : i \in 0 .. L /\ i + 1 \in 1 .. L
    BY <1>1
  <2> QED
    BY <1>2, <1>4, <2>1 DEF At
<1>6. g[L] = 0
  <2>1. L \in 0 .. L /\ L + 1 \notin 1 .. L
    BY <1>1
  <2> QED
    BY <1>4, <2>1 DEF At
<1>7. met = 0 .. L - 1
  <2>1. ASSUME NEW i \in met PROVE i \in 0 .. L - 1
    <3>1. i \in 0 .. Cap - 1 /\ \A j \in 0 .. i : g[j] # 0
      OBVIOUS
    <3>2. L \notin 0 .. i
      BY <1>6, <3>1
    <3> QED
      BY <1>1, <3>1, <3>2
  <2>2. ASSUME NEW i \in 0 .. L - 1 PROVE i \in met
    <3>1. i \in 0 .. Cap - 1 /\ \A j \in 0 .. i : j \in 0 .. L - 1
      BY <1>1
    <3> QED
      BY <1>5, <3>1
  <2> QED
    BY <2>1, <2>2
<1>8. Cardinality(met) = L
  <2>1. Cardinality(0 .. L - 1) = L
    BY <1>1, FS_Interval
  <2> QED
    BY <1>7, <2>1
<1>9. Walk(d, t) = [i \in 1 .. Cardinality(met) |-> g[i - 1]]
  BY <1>3 DEF MetBy
<1> HIDE DEF met
<1>10. \A i \in 1 .. L : g[i - 1] = s[i]
  <2>1. \A i \in 1 .. L : i - 1 \in 0 .. L - 1 /\ (i - 1) + 1 = i
    BY <1>1
  <2> QED
    BY <1>5, <2>1
<1> QED
  BY <1>2, <1>8, <1>9, <1>10

-----------------------------------------------------------------------------
(* What the level promises, and the nodes it holds.                           *)

Nodes == [k : Keys \cup {NoKey}, v : Values, exp : Expiries \cup {0}]

\* The list is s, and the list is all that was allocated.
Listed(s) == Order(s, last) /\ Linked(dlnk, s, last, 1, 2)

IInv == TypeOK /\ MapSound /\ \E s : Listed(s)

\* The nodes along the list.
Contents(s, L, nodes) == [i \in 1 .. L |-> nodes[s[i]]]

LEMMA TypesAre ==
    ASSUME IInv
    PROVE  /\ dlnk \in Links /\ m \in [1 .. Cap -> Nodes] /\ hmap \in [Keys -> Indices]
           /\ last \in 0 .. Cap /\ last \in Nat /\ Cap \in Nat /\ 1 .. last \subseteq 1 .. Cap
           /\ \A i \in 1 .. last : m[i].k \in Keys /\ hmap[m[i].k] = i
           /\ \A k \in Keys : hmap[k] # 0 => hmap[k] \in 1 .. last /\ m[hmap[k]].k = k
<1>1. /\ dlnk \in Links /\ m \in [1 .. Cap -> Nodes] /\ hmap \in [Keys -> Indices]
      /\ last \in 0 .. Cap /\ last \in Nat /\ Cap \in Nat
  <2>1. TypeOK
    BY DEF IInv
  <2>2. dlnk \in Links /\ m \in [1 .. Cap -> Nodes] /\ hmap \in [Keys -> Indices]
    BY <2>1 DEF TypeOK, Links, Nodes
  <2>3. last \in 0 .. Cap /\ Cap \in Nat
    BY <2>1, LevelAssumption DEF TypeOK, Indices
  <2> QED
    BY <2>2, <2>3
<1>2. \A i \in 1 .. last : m[i].k \in Keys /\ hmap[m[i].k] = i
  BY DEF IInv, MapSound
<1>3. \A k \in Keys : hmap[k] # 0 => hmap[k] \in 1 .. last /\ m[hmap[k]].k = k
  BY <1>1 DEF IInv, MapSound, Indices
<1> QED
  BY <1>1, <1>2, <1>3

\* listBar, in this state or the next.
LEMMA ListBarIs ==
    ASSUME NEW L \in 0 .. Cap, NEW d \in Links, NEW nodes \in [1 .. Cap -> Nodes],
           NEW s, Order(s, L), Linked(d, s, L, 1, 2)
    PROVE  /\ Walk(d, 2) = s /\ Len(s) = L
           /\ [i \in 1 .. Len(s) |-> nodes[s[i]]] = Contents(s, L, nodes)
           /\ Contents(s, L, nodes) \in Seq(Nodes) /\ Len(Contents(s, L, nodes)) = L
<1>1. L \in Nat /\ 1 .. L \subseteq 1 .. Cap
  BY LevelAssumption
<1>2. s \in Seq(1 .. L) /\ Len(s) = L
  <2>1. s \in [1 .. L -> 1 .. L] /\ s = [i \in 1 .. L |-> s[i]]
    BY DEF Order
  <2> QED
    BY <1>1, <2>1
<1>3. Columns(1, 2)
  BY DEF Columns
<1>4. Walk(d, 2) = s
  BY <1>3, WalkIs
<1>5. \A i \in 1 .. L : nodes[s[i]] \in Nodes
  BY <1>1 DEF Order
<1>6. Contents(s, L, nodes) \in Seq(Nodes) /\ Len(Contents(s, L, nodes)) = L
  BY <1>1, <1>5 DEF Contents
<1> QED
  BY <1>2, <1>4, <1>6 DEF Contents

LEMMA Sound == IInv => LevelSound
<1> SUFFICES ASSUME IInv PROVE ListSound
  BY DEF IInv, LevelSound
<1>1. /\ dlnk \in Links /\ last \in 0 .. Cap /\ last \in Nat /\ m \in [1 .. Cap -> Nodes]
  BY TypesAre
<1>2. PICK s : Order(s, last) /\ Linked(dlnk, s, last, 1, 2)
  BY DEF IInv, Listed
<1>3. Walk(dlnk, 2) = s /\ Len(s) = last
  BY <1>1, <1>2, ListBarIs
<1>4. Walk(dlnk, 1) = Rev(s, last)
  <2>1. Order(Rev(s, last), last) /\ Linked(dlnk, Rev(s, last), last, 2, 1)
    BY <1>1, <1>2, RevIs
  <2>2. Columns(2, 1)
    BY DEF Columns
  <2> QED
    BY <1>1, <2>1, <2>2, WalkIs
<1>5. {s[i] : i \in 1 .. last} = 1 .. last
  <2>1. /\ \A i \in 1 .. last : s[i] \in 1 .. last
        /\ \A i \in 1 .. last : \E j \in 1 .. last : s[j] = i
    BY <1>2 DEF Order
  <2> QED
    BY <2>1
<1>6. Rev(s, last) = [i \in 1 .. Len(s) |-> s[Len(s) + 1 - i]]
  BY <1>3 DEF Rev
<1> QED
  BY <1>3, <1>4, <1>5, <1>6 DEF ListSound, p, n

\* Sequences with the same elements.
LEMMA SameLists ==
    ASSUME NEW S, NEW a \in Seq(S), NEW b \in Seq(S), Len(a) = Len(b),
           \A i \in 1 .. Len(a) : a[i] = b[i]
    PROVE  a = b
  OBVIOUS

LEMMA ConcatIs ==
    ASSUME NEW S, NEW a \in Seq(S), NEW b \in Seq(S)
    PROVE  /\ a \o b \in Seq(S) /\ Len(a \o b) = Len(a) + Len(b)
           /\ \A j \in 1 .. Len(a) : (a \o b)[j] = a[j]
           /\ \A j \in 1 .. Len(b) : (a \o b)[Len(a) + j] = b[j]
  OBVIOUS

LEMMA ConsIs ==
    ASSUME NEW S, NEW e \in S, NEW b \in Seq(S)
    PROVE  /\ <<e>> \o b \in Seq(S) /\ Len(<<e>> \o b) = Len(b) + 1
           /\ \A j \in 1 .. Len(b) + 1 : (<<e>> \o b)[j] = IF j = 1 THEN e ELSE b[j - 1]
  OBVIOUS

LEMMA RemoveAtIs ==
    ASSUME NEW S, NEW l \in Seq(S), NEW x \in 1 .. Len(l)
    PROVE  /\ List!RemoveAt(l, x) \in Seq(S) /\ Len(List!RemoveAt(l, x)) = Len(l) - 1
           /\ \A j \in 1 .. Len(l) - 1 :
                 List!RemoveAt(l, x)[j] = IF j < x THEN l[j] ELSE l[j + 1]
<1> DEFINE a == SubSeq(l, 1, x - 1)
           b == SubSeq(l, x + 1, Len(l))
<1>1. a \in Seq(S) /\ Len(a) = x - 1 /\ \A j \in 1 .. x - 1 : a[j] = l[j]
  OBVIOUS
<1>2. b \in Seq(S) /\ Len(b) = Len(l) - x /\ \A j \in 1 .. Len(l) - x : b[j] = l[x + j]
  OBVIOUS
<1> HIDE DEF a, b
<1>3. /\ a \o b \in Seq(S) /\ Len(a \o b) = Len(a) + Len(b)
      /\ \A j \in 1 .. Len(a) : (a \o b)[j] = a[j]
      /\ \A j \in 1 .. Len(b) : (a \o b)[Len(a) + j] = b[j]
  <2>1. a \in Seq(S) /\ b \in Seq(S)
    BY <1>1, <1>2
  <2> QED
    BY ONLY <2>1, ConcatIs
<1>4. a \o b \in Seq(S) /\ Len(a \o b) = Len(l) - 1
  <2>1. (x - 1) + (Len(l) - x) = Len(l) - 1
    OBVIOUS
  <2> QED
    BY <1>1, <1>2, <1>3, <2>1
<1>5. ASSUME NEW j \in 1 .. Len(l) - 1
      PROVE  (a \o b)[j] = IF j < x THEN l[j] ELSE l[j + 1]
  <2>1. CASE j < x
    <3>1. j \in 1 .. x - 1
      BY <2>1
    <3> QED
      BY <1>1, <1>3, <2>1, <3>1
  <2>2. CASE j >= x
    <3> DEFINE i == j - (x - 1)
    <3>1. i \in 1 .. Len(l) - x /\ (x - 1) + i = j /\ x + i = j + 1
      BY <2>2
    <3> HIDE DEF i
    <3>2. (a \o b)[Len(a) + i] = b[i]
      BY <1>2, <1>3, <3>1
    <3> QED
      BY <1>1, <1>2, <2>2, <3>1, <3>2
  <2>3. j < x \/ j >= x
    OBVIOUS
  <2> QED
    BY <2>1, <2>2, <2>3
<1>6. List!RemoveAt(l, x) = a \o b
  BY DEF List!RemoveAt, a, b
<1> QED
  BY <1>4, <1>5, <1>6

-----------------------------------------------------------------------------
(* The operations.                                                            *)

LEMMA ListNow ==
    ASSUME IInv, NEW s, Listed(s)
    PROVE  /\ listBar = Contents(s, last, m)
           /\ Contents(s, last, m) \in Seq(Nodes) /\ Len(Contents(s, last, m)) = last
           /\ \A i \in 1 .. last : Contents(s, last, m)[i] = m[s[i]]
<1>1. /\ dlnk \in Links /\ last \in 0 .. Cap /\ m \in [1 .. Cap -> Nodes]
      /\ Order(s, last) /\ Linked(dlnk, s, last, 1, 2)
  BY TypesAre DEF Listed
<1>2. /\ Walk(dlnk, 2) = s /\ Len(s) = last
      /\ [i \in 1 .. Len(s) |-> m[s[i]]] = Contents(s, last, m)
      /\ Contents(s, last, m) \in Seq(Nodes) /\ Len(Contents(s, last, m)) = last
  BY ONLY <1>1, ListBarIs
<1>3. \A i \in 1 .. last : Contents(s, last, m)[i] = m[s[i]]
  BY DEF Contents
<1> QED
  BY <1>2, <1>3 DEF listBar, n

\* What is to be shown of the state after an operation.
LEMMA NextIs ==
    ASSUME NEW L \in 0 .. Cap, last' = L, NEW r, Order(r, L),
           dlnk' \in Links, Linked(dlnk', r, L, 1, 2),
           m' \in [1 .. Cap -> Nodes], hmap' \in [Keys -> Indices], MapSound'
    PROVE  /\ IInv' /\ listBar' = Contents(r, L, m')
           /\ Contents(r, L, m') \in Seq(Nodes) /\ Len(Contents(r, L, m')) = L
           /\ \A i \in 1 .. L : Contents(r, L, m')[i] = m'[r[i]]
<1>1. TypeOK'
  BY LevelAssumption DEF TypeOK, Links, Nodes, Indices
<1>2. Listed(r)'
  BY DEF Listed
<1>3. IInv'
  BY <1>1, <1>2 DEF IInv
<1>4. /\ Walk(dlnk', 2) = r /\ Len(r) = L
      /\ [i \in 1 .. Len(r) |-> m'[r[i]]] = Contents(r, L, m')
      /\ Contents(r, L, m') \in Seq(Nodes) /\ Len(Contents(r, L, m')) = L
  BY ListBarIs
<1>5. \A i \in 1 .. L : Contents(r, L, m')[i] = m'[r[i]]
  BY DEF Contents
<1> QED
  BY <1>3, <1>4, <1>5 DEF listBar, n

\* A key of the map has its place in the list, and no other key has one.
LEMMA Places ==
    ASSUME IInv, NEW s, Listed(s), NEW k \in Keys
    PROVE  LET c == Contents(s, last, m) IN
           /\ hmap[k] = 0 => ~List!Has(c, k)
           /\ hmap[k] # 0 => \E x \in 1 .. last :
                 /\ s[x] = hmap[k] /\ m[s[x]].k = k
                 /\ List!Has(c, k) /\ List!PlaceOf(c, k) = x
<1> DEFINE c == Contents(s, last, m)
<1>1. DOMAIN c = 1 .. last /\ \A i \in 1 .. last : c[i] = m[s[i]]
  BY DEF Contents
<1>2. /\ \A i \in 1 .. last : s[i] \in 1 .. last
      /\ \A i, j \in 1 .. last : s[i] = s[j] => i = j
      /\ \A i \in 1 .. last : \E j \in 1 .. last : s[j] = i
  BY DEF Listed, Order
<1>3. \A i \in 1 .. last : m[i].k \in Keys /\ hmap[m[i].k] = i
  BY TypesAre
<1>4. hmap[k] # 0 => hmap[k] \in 1 .. last /\ m[hmap[k]].k = k
  BY TypesAre
<1>5. \A i \in 1 .. last : c[i].k = k <=> s[i] = hmap[k]
  <2> SUFFICES ASSUME NEW i \in 1 .. last PROVE c[i].k = k <=> s[i] = hmap[k]
    OBVIOUS
  <2>1. c[i].k = m[s[i]].k /\ s[i] \in 1 .. last /\ s[i] # 0
    BY <1>1, <1>2
  <2>2. hmap[m[s[i]].k] = s[i]
    BY <1>3, <2>1
  <2> HIDE DEF c
  <2> QED
    BY <1>4, <2>1, <2>2
<1> HIDE DEF c
<1>6. ASSUME hmap[k] = 0 PROVE ~List!Has(c, k)
  <2>1. \A i \in 1 .. last : s[i] # 0
    BY <1>2
  <2> QED
    BY <1>1, <1>5, <1>6, <2>1 DEF List!Has
<1>7. ASSUME hmap[k] # 0
      PROVE  \E x \in 1 .. last :
                /\ s[x] = hmap[k] /\ m[s[x]].k = k
                /\ List!Has(c, k) /\ List!PlaceOf(c, k) = x
  <2>1. PICK x \in 1 .. last : s[x] = hmap[k]
    BY <1>2, <1>4, <1>7
  <2>2. \A i \in DOMAIN c : c[i].k = k <=> i = x
    <3>1. \A i \in 1 .. last : s[i] = s[x] <=> i = x
      BY <1>2
    <3> QED
      BY <1>1, <1>5, <2>1, <3>1
  <2>3. List!Has(c, k)
    BY <1>1, <2>1, <2>2 DEF List!Has
  <2>4. List!PlaceOf(c, k) = x
    BY <1>1, <2>1, <2>2 DEF List!PlaceOf
  <2> QED
    BY <1>4, <1>7, <2>1, <2>3, <2>4
<1> QED
  BY <1>6, <1>7 DEF c

LEMMA NodeIs ==
    ASSUME NEW k \in Keys, NEW v \in Values, NEW exp \in Expiries \cup {0}
    PROVE  /\ Node(k, v, exp) \in Nodes /\ Node(k, v, exp).k = k
           /\ Node(k, v, exp) = List!Node(k, v, exp)
  BY DEF Node, List!Node, Nodes

\* The node at place x in front, with the others as they were.
LEMMA FrontIs ==
    ASSUME NEW S, NEW e \in S, NEW c \in Seq(S), NEW x \in 1 .. Len(c),
           NEW r \in Seq(S), Len(r) = Len(c),
           \A j \in 1 .. Len(c) :
              r[j] = IF j = 1 THEN e ELSE IF j <= x THEN c[j - 1] ELSE c[j]
    PROVE  r = <<e>> \o List!RemoveAt(c, x)
<1> DEFINE w == List!RemoveAt(c, x)
           q == <<e>> \o w
<1>1. /\ w \in Seq(S) /\ Len(w) = Len(c) - 1
      /\ \A j \in 1 .. Len(c) - 1 : w[j] = IF j < x THEN c[j] ELSE c[j + 1]
  BY RemoveAtIs
<1> HIDE DEF w
<1>2. q \in Seq(S) /\ Len(q) = Len(w) + 1 /\ \A j \in 1 .. Len(w) + 1 : q[j] = IF j = 1 THEN e ELSE w[j - 1]
  BY <1>1, ConsIs
<1> HIDE DEF q
<1>3. Len(q) = Len(r) /\ Len(c) \in Nat
  BY <1>1, <1>2
<1>4. ASSUME NEW j \in 1 .. Len(r) PROVE r[j] = q[j]
  <2>1. j \in 1 .. Len(c) /\ j \in 1 .. Len(w) + 1
    BY <1>1, <1>3
  <2>2. CASE j = 1
    BY <1>2, <2>1, <2>2
  <2>3. CASE j # 1
    <3>1. j - 1 \in 1 .. Len(c) - 1 /\ (j - 1 < x <=> j <= x) /\ (j - 1) + 1 = j
      BY <2>1, <2>3
    <3>2. w[j - 1] = IF j <= x THEN c[j - 1] ELSE c[j]
      BY <1>1, <3>1
    <3> QED
      BY <1>2, <2>1, <2>3, <3>2
  <2> QED
    BY <2>2, <2>3
<1>5. r = q
  BY <1>2, <1>3, <1>4, SameLists
<1> QED
  BY <1>5 DEF q, w

LEMMA PutExistingStep ==
    ASSUME IInv, NEW k \in Keys, NEW v \in Values, NEW exp \in Expiries, PutExisting(k, v, exp)
    PROVE  IInv' /\ List!Put(k, v, exp)
<1> DEFINE e == Node(k, v, exp)
           i == hmap[k]
<1>1. PICK s : Listed(s)
  BY DEF IInv
<1> DEFINE c == Contents(s, last, m)
           L == last
<1>2. /\ dlnk \in Links /\ m \in [1 .. Cap -> Nodes] /\ hmap \in [Keys -> Indices]
      /\ L \in 0 .. Cap /\ L \in Nat /\ 1 .. L \subseteq 1 .. Cap
      /\ \A j \in 1 .. L : m[j].k \in Keys /\ hmap[m[j].k] = j
      /\ \A j \in Keys : hmap[j] # 0 => hmap[j] \in 1 .. L /\ m[hmap[j]].k = j
  BY TypesAre
<1>3. Order(s, L) /\ Linked(dlnk, s, L, 1, 2)
  BY <1>1 DEF Listed
<1>4. i # 0 /\ m' = [m EXCEPT ![i] = e] /\ dlnk' = Adjust(dlnk, i, 1, 2) /\ hmap' = hmap /\ last' = L
  BY DEF PutExisting, ToFront, p, n
<1>5. PICK x \in 1 .. L : s[x] = i /\ List!Has(c, k) /\ List!PlaceOf(c, k) = x
  BY <1>1, <1>4, Places
<1>6. i \in 1 .. L /\ i \in 1 .. Cap /\ m[i].k = k
  BY <1>2, <1>4
<1>7. e \in Nodes /\ e.k = k /\ e = List!Node(k, v, exp)
  BY NodeIs
<1>8. listBar = c /\ c \in Seq(Nodes) /\ Len(c) = L /\ \A j \in 1 .. L : c[j] = m[s[j]]
  BY <1>1, ListNow
<1> DEFINE r == Fronted(s, L, x)
           d == Contents(r, L, m')
<1>9. Order(r, L) /\ dlnk' \in Links /\ Linked(dlnk', r, L, 1, 2)
  <2>1. Columns(1, 2)
    BY DEF Columns
  <2>2. Adjust(dlnk, s[x], 1, 2) \in Links /\ Linked(Adjust(dlnk, s[x], 1, 2), r, L, 1, 2)
    BY ONLY <1>2, <1>3, <2>1, AdjustFronts
  <2>3. Order(r, L)
    BY <1>2, <1>3, FrontedIs
  <2> QED
    BY <1>4, <1>5, <2>2, <2>3
<1> HIDE DEF e, i, c
<1>10. m' \in [1 .. Cap -> Nodes] /\ \A j \in 1 .. Cap : m'[j] = IF j = i THEN e ELSE m[j]
  BY <1>2, <1>4, <1>6, <1>7
<1>11. MapSound'
  <2>1. \A j \in Keys : hmap[j] # 0 => hmap[j] <= L /\ m'[hmap[j]].k = j
    BY <1>2, <1>6, <1>7, <1>10
  <2>2. \A j \in 1 .. L : m'[j].k \in Keys /\ hmap[m'[j].k] = j
    <3>1. hmap[k] = i
      BY DEF i
    <3> QED
      BY <1>2, <1>6, <1>7, <1>10, <3>1
  <2> QED
    BY <1>4, <2>1, <2>2 DEF MapSound
<1> HIDE DEF r
<1>12. /\ IInv' /\ listBar' = d /\ d \in Seq(Nodes) /\ Len(d) = L
       /\ \A j \in 1 .. L : d[j] = m'[r[j]]
  <2>1. hmap' \in [Keys -> Indices] /\ last' = L /\ L \in 0 .. Cap
    BY <1>2, <1>4
  <2> HIDE DEF L
  <2> QED
    BY <1>9, <1>10, <1>11, <2>1, NextIs
<1> HIDE DEF d
<1>13. ASSUME NEW j \in 1 .. L
       PROVE  d[j] = IF j = 1 THEN e ELSE IF j <= x THEN c[j - 1] ELSE c[j]
  <2>1. r[j] = IF j = 1 THEN s[x] ELSE IF j <= x THEN s[j - 1] ELSE s[j]
    BY DEF r, Fronted
  <2>2. /\ \A l \in 1 .. L : s[l] \in 1 .. L /\ s[l] \in 1 .. Cap
        /\ \A l \in 1 .. L : s[l] = i => l = x
    BY <1>2, <1>3, <1>5 DEF Order
  <2>3. CASE j = 1
    BY <1>5, <1>6, <1>10, <1>12, <2>1, <2>3
  <2>4. CASE j # 1 /\ j <= x
    <3>1. j - 1 \in 1 .. L /\ j - 1 # x
      BY <1>2, <2>4
    <3>2. d[j] = m[s[j - 1]]
      BY <1>10, <1>12, <2>1, <2>2, <2>4, <3>1
    <3> QED
      BY <1>8, <2>4, <3>1, <3>2
  <2>5. CASE ~(j <= x)
    <3>1. j # x /\ j # 1
      BY <1>2, <2>5
    <3>2. d[j] = m[s[j]]
      BY <1>10, <1>12, <2>1, <2>2, <2>5, <3>1
    <3> QED
      BY <1>8, <2>5, <3>1, <3>2
  <2> QED
    BY <2>3, <2>4, <2>5
<1>14. d = <<e>> \o List!RemoveAt(c, x)
  <2>1. /\ e \in Nodes /\ c \in Seq(Nodes) /\ x \in 1 .. Len(c)
        /\ d \in Seq(Nodes) /\ Len(d) = Len(c)
        /\ \A j \in 1 .. Len(c) :
              d[j] = IF j = 1 THEN e ELSE IF j <= x THEN c[j - 1] ELSE c[j]
    BY <1>7, <1>8, <1>12, <1>13
  <2> QED
    BY ONLY <2>1, FrontIs
<1>15. d = List!PutNode(c, k, v, exp, Cap)
  BY <1>5, <1>7, <1>14 DEF List!PutNode, List!Without
<1> QED
  BY <1>8, <1>12, <1>15 DEF List!Put

LEMMA GetStep ==
    ASSUME IInv, NEW k \in Keys, Get(k)
    PROVE  IInv' /\ List!Get(k)
<1> DEFINE i == hmap[k]
<1>1. PICK s : Listed(s)
  BY DEF IInv
<1> DEFINE c == Contents(s, last, m)
           L == last
<1>2. /\ dlnk \in Links /\ m \in [1 .. Cap -> Nodes] /\ hmap \in [Keys -> Indices]
      /\ L \in 0 .. Cap /\ L \in Nat /\ 1 .. L \subseteq 1 .. Cap
  BY TypesAre
<1>3. Order(s, L) /\ Linked(dlnk, s, L, 1, 2)
  BY <1>1 DEF Listed
<1>4. i # 0 /\ m' = m /\ dlnk' = Adjust(dlnk, i, 1, 2) /\ hmap' = hmap /\ last' = L
  BY DEF Get, ToFront, p, n
<1>5. PICK x \in 1 .. L : s[x] = i /\ List!Has(c, k) /\ List!PlaceOf(c, k) = x
  BY <1>1, <1>4, Places
<1>6. listBar = c /\ c \in Seq(Nodes) /\ Len(c) = L /\ \A j \in 1 .. L : c[j] = m[s[j]]
  BY <1>1, ListNow
<1> DEFINE r == Fronted(s, L, x)
           d == Contents(r, L, m')
<1>7. Order(r, L) /\ dlnk' \in Links /\ Linked(dlnk', r, L, 1, 2)
  <2>1. Columns(1, 2)
    BY DEF Columns
  <2>2. Adjust(dlnk, s[x], 1, 2) \in Links /\ Linked(Adjust(dlnk, s[x], 1, 2), r, L, 1, 2)
    BY ONLY <1>2, <1>3, <2>1, AdjustFronts
  <2>3. Order(r, L)
    BY <1>2, <1>3, FrontedIs
  <2> QED
    BY <1>4, <1>5, <2>2, <2>3
<1>8. MapSound'
  BY <1>4 DEF IInv, MapSound
<1> HIDE DEF i, c, r
<1>9. /\ IInv' /\ listBar' = d /\ d \in Seq(Nodes) /\ Len(d) = L
      /\ \A j \in 1 .. L : d[j] = m'[r[j]]
  <2>1. /\ m' \in [1 .. Cap -> Nodes] /\ hmap' \in [Keys -> Indices] /\ last' = L
        /\ L \in 0 .. Cap
    BY <1>2, <1>4
  <2> HIDE DEF L
  <2> QED
    BY <1>7, <1>8, <2>1, NextIs
<1> HIDE DEF d
<1>10. c[x] \in Nodes
  BY <1>6
<1>11. ASSUME NEW j \in 1 .. L
       PROVE  d[j] = IF j = 1 THEN c[x] ELSE IF j <= x THEN c[j - 1] ELSE c[j]
  <2>1. r[j] = IF j = 1 THEN s[x] ELSE IF j <= x THEN s[j - 1] ELSE s[j]
    BY DEF r, Fronted
  <2>2. j # 1 => j - 1 \in 1 .. L
    BY <1>2
  <2> QED
    BY <1>4, <1>6, <1>9, <2>1, <2>2
<1>12. d = <<c[x]>> \o List!RemoveAt(c, x)
  BY <1>6, <1>9, <1>10, <1>11, FrontIs
<1>13. d = List!Touch(c, k)
  BY <1>5, <1>12 DEF List!Touch, List!Without, List!NodeOf
<1> QED
  BY <1>6, <1>9, <1>13 DEF List!Get

LEMMA FirstPart ==
    ASSUME NEW S, NEW l \in Seq(S), NEW x \in 1 .. Len(l)
    PROVE  LET a == SubSeq(l, 1, x - 1) IN
           a \in Seq(S) /\ Len(a) = x - 1 /\ \A j \in 1 .. x - 1 : a[j] = l[j]
  OBVIOUS

LEMMA LastRemoved ==
    ASSUME NEW S, NEW c \in Seq(S), Len(c) # 0
    PROVE  List!RemoveAt(c, Len(c)) = SubSeq(c, 1, Len(c) - 1)
<1> DEFINE w == List!RemoveAt(c, Len(c))
           q == SubSeq(c, 1, Len(c) - 1)
<1>1. Len(c) \in 1 .. Len(c)
  OBVIOUS
<1>2. /\ w \in Seq(S) /\ Len(w) = Len(c) - 1
      /\ \A j \in 1 .. Len(c) - 1 : w[j] = IF j < Len(c) THEN c[j] ELSE c[j + 1]
  BY <1>1, RemoveAtIs
<1> HIDE DEF w
<1>3. q \in Seq(S) /\ Len(q) = Len(c) - 1 /\ \A j \in 1 .. Len(c) - 1 : q[j] = c[j]
  BY <1>1, FirstPart
<1> HIDE DEF q
<1>4. \A j \in 1 .. Len(w) : w[j] = q[j]
  BY <1>2, <1>3
<1>5. w = q
  BY <1>2, <1>3, <1>4, SameLists
<1> QED
  BY <1>5 DEF w, q

LEMMA PutFullStep ==
    ASSUME IInv, NEW k \in Keys, NEW v \in Values, NEW exp \in Expiries, PutFull(k, v, exp)
    PROVE  IInv' /\ List!Put(k, v, exp)
<1> DEFINE e == Node(k, v, exp)
           i == dlnk[0][1]
           o == m[i].k
<1>1. PICK s : Listed(s)
  BY DEF IInv
<1> DEFINE c == Contents(s, last, m)
           L == last
<1>2. /\ dlnk \in Links /\ m \in [1 .. Cap -> Nodes] /\ hmap \in [Keys -> Indices]
      /\ L \in 0 .. Cap /\ L \in Nat /\ 1 .. L \subseteq 1 .. Cap
      /\ \A j \in 1 .. L : m[j].k \in Keys /\ hmap[m[j].k] = j
      /\ \A j \in Keys : hmap[j] # 0 => hmap[j] \in 1 .. L /\ m[hmap[j]].k = j
  BY TypesAre
<1>3. Order(s, L) /\ Linked(dlnk, s, L, 1, 2)
  BY <1>1 DEF Listed
<1>4. /\ hmap[k] = 0 /\ m' = [m EXCEPT ![i] = e] /\ dlnk' = Adjust(dlnk, i, 1, 2)
      /\ hmap' = [hmap EXCEPT ![o] = 0, ![k] = i] /\ last' = L /\ L = Cap
  BY DEF PutFull, ToFront, p, n
<1>5. L \in 1 .. L /\ L # 0 /\ s[L] = i
  <2>1. L \in 1 .. L /\ L # 0
    BY <1>2, <1>4, LevelAssumption
  <2> QED
    BY <1>3, <2>1 DEF Linked, At
<1>6. i \in 1 .. L /\ i \in 1 .. Cap /\ o \in Keys /\ hmap[o] = i /\ i # 0 /\ o # k
  <2>1. i \in 1 .. L
    BY <1>3, <1>5 DEF Order
  <2> QED
    BY <1>2, <1>4, <2>1
<1>7. e \in Nodes /\ e.k = k /\ e = List!Node(k, v, exp)
  BY NodeIs
<1>8. listBar = c /\ c \in Seq(Nodes) /\ Len(c) = L /\ \A j \in 1 .. L : c[j] = m[s[j]]
  BY <1>1, ListNow
<1>9. ~List!Has(c, k)
  BY <1>1, <1>4, Places
<1> DEFINE r == Fronted(s, L, L)
           d == Contents(r, L, m')
<1>10. Order(r, L) /\ dlnk' \in Links /\ Linked(dlnk', r, L, 1, 2)
  <2>1. Columns(1, 2)
    BY DEF Columns
  <2>2. Adjust(dlnk, s[L], 1, 2) \in Links /\ Linked(Adjust(dlnk, s[L], 1, 2), r, L, 1, 2)
    BY ONLY <1>2, <1>3, <1>5, <2>1, AdjustFronts
  <2>3. Order(r, L)
    BY <1>2, <1>3, <1>5, FrontedIs
  <2> QED
    BY <1>4, <1>5, <2>2, <2>3
<1> HIDE DEF e, i, o, c
<1>11. m' \in [1 .. Cap -> Nodes] /\ \A j \in 1 .. Cap : m'[j] = IF j = i THEN e ELSE m[j]
  BY <1>2, <1>4, <1>6, <1>7
<1>12. /\ hmap' \in [Keys -> Indices]
       /\ \A j \in Keys : hmap'[j] = IF j = k THEN i ELSE IF j = o THEN 0 ELSE hmap[j]
  <2>1. i \in Indices /\ 0 \in Indices
    BY <1>6, LevelAssumption DEF Indices
  <2> QED
    BY <1>2, <1>4, <1>6, <2>1
<1>13. MapSound'
  <2>1. ASSUME NEW j \in Keys, hmap'[j] # 0 PROVE hmap'[j] <= L /\ m'[hmap'[j]].k = j
    <3>1. CASE j = k
      BY <1>6, <1>7, <1>11, <1>12, <3>1
    <3>2. CASE j # k
      <4>1. j # o /\ hmap'[j] = hmap[j] /\ hmap[j] \in 1 .. L /\ m[hmap[j]].k = j
        BY <1>2, <1>12, <2>1, <3>2
      <4>2. hmap[j] # i
        BY <4>1 DEF o
      <4> QED
        BY <1>2, <1>11, <4>1, <4>2
    <3> QED
      BY <3>1, <3>2
  <2>2. ASSUME NEW j \in 1 .. L PROVE m'[j].k \in Keys /\ hmap'[m'[j].k] = j
    <3>1. CASE j = i
      BY <1>6, <1>7, <1>11, <1>12, <3>1
    <3>2. CASE j # i
      <4>1. m'[j] = m[j] /\ m[j].k \in Keys /\ hmap[m[j].k] = j
        BY <1>2, <1>11, <3>2
      <4>2. m[j].k # k /\ m[j].k # o
        BY <1>4, <1>6, <3>2, <4>1
      <4> QED
        BY <1>12, <4>1, <4>2
    <3> QED
      BY <3>1, <3>2
  <2> QED
    BY <1>4, <2>1, <2>2 DEF MapSound
<1> HIDE DEF r
<1>14. /\ IInv' /\ listBar' = d /\ d \in Seq(Nodes) /\ Len(d) = L
       /\ \A j \in 1 .. L : d[j] = m'[r[j]]
  <2>1. last' = L /\ L \in 0 .. Cap
    BY <1>2, <1>4
  <2> HIDE DEF L
  <2> QED
    BY <1>10, <1>11, <1>12, <1>13, <2>1, NextIs
<1> HIDE DEF d
<1>15. ASSUME NEW j \in 1 .. L
       PROVE  d[j] = IF j = 1 THEN e ELSE IF j <= L THEN c[j - 1] ELSE c[j]
  <2>1. r[j] = IF j = 1 THEN s[L] ELSE IF j <= L THEN s[j - 1] ELSE s[j]
    BY DEF r, Fronted
  <2>2. /\ \A l \in 1 .. L : s[l] \in 1 .. L /\ s[l] \in 1 .. Cap
        /\ \A l \in 1 .. L : s[l] = i => l = L
    BY <1>2, <1>3, <1>5 DEF Order
  <2>3. CASE j = 1
    BY <1>5, <1>6, <1>11, <1>14, <2>1, <2>3
  <2>4. CASE j # 1
    <3>1. j - 1 \in 1 .. L /\ j - 1 # L /\ j <= L
      BY <1>2, <2>4
    <3>2. d[j] = m[s[j - 1]]
      BY <1>11, <1>14, <2>1, <2>2, <2>4, <3>1
    <3> QED
      BY <1>8, <2>4, <3>1, <3>2
  <2> QED
    BY <2>3, <2>4
<1>16. d = <<e>> \o SubSeq(c, 1, Len(c) - 1)
  <2>1. /\ e \in Nodes /\ c \in Seq(Nodes) /\ Len(c) \in 1 .. Len(c)
        /\ d \in Seq(Nodes) /\ Len(d) = Len(c) /\ Len(c) # 0
        /\ \A j \in 1 .. Len(c) :
              d[j] = IF j = 1 THEN e ELSE IF j <= Len(c) THEN c[j - 1] ELSE c[j]
    BY <1>5, <1>7, <1>8, <1>14, <1>15
  <2>2. d = <<e>> \o List!RemoveAt(c, Len(c))
    BY ONLY <2>1, FrontIs
  <2>3. List!RemoveAt(c, Len(c)) = SubSeq(c, 1, Len(c) - 1)
    BY ONLY <2>1, LastRemoved
  <2> QED
    BY <2>2, <2>3
<1>17. d = List!PutNode(c, k, v, exp, Cap)
  BY <1>4, <1>7, <1>8, <1>9, <1>16 DEF List!PutNode, List!Reuses
<1> QED
  BY <1>8, <1>14, <1>17 DEF List!Put

LEMMA PutFreshStep ==
    ASSUME IInv, NEW k \in Keys, NEW v \in Values, NEW exp \in Expiries, PutFresh(k, v, exp)
    PROVE  IInv' /\ List!Put(k, v, exp)
<1> DEFINE e == Node(k, v, exp)
           L == last
           M == L + 1
<1>1. PICK s : Listed(s)
  BY DEF IInv
<1> DEFINE c == Contents(s, last, m)
<1>2. /\ dlnk \in Links /\ m \in [1 .. Cap -> Nodes] /\ hmap \in [Keys -> Indices]
      /\ L \in 0 .. Cap /\ L \in Nat /\ Cap \in Nat /\ 1 .. L \subseteq 1 .. Cap
      /\ \A j \in 1 .. L : m[j].k \in Keys /\ hmap[m[j].k] = j
      /\ \A j \in Keys : hmap[j] # 0 => hmap[j] \in 1 .. L /\ m[hmap[j]].k = j
  BY TypesAre
<1>3. Order(s, L) /\ Linked(dlnk, s, L, 1, 2)
  BY <1>1 DEF Listed
<1>4. /\ hmap[k] = 0 /\ L < Cap /\ last' = M
      /\ m' = [m EXCEPT ![M] = e] /\ hmap' = [hmap EXCEPT ![k] = M]
  BY DEF PutFresh, Allocate
<1>5. /\ M \in 1 .. Cap /\ M \in 0 .. Cap /\ L \in 0 .. Cap - 1 /\ M \notin 1 .. L
      /\ 1 .. M = 1 .. L \cup {M} /\ M \in 1 .. M /\ M \in Indices
  BY <1>2, <1>4 DEF Indices
<1>6. dlnk' = Allocated(dlnk, L)
  <2> DEFINE d1 == IF \A j \in Keys : hmap[j] = 0
                   THEN Link(dlnk, 0, 1, M) ELSE Link(dlnk, dlnk[0][2], 1, M)
  <2>1. dlnk' = Link([d1 EXCEPT ![M] = <<0, d1[0][2]>>], 0, 2, M)
    BY <1>4 DEF PutFresh, Allocate, p, n
  <2>2. d1 = Link(dlnk, dlnk[0][2], 1, M)
    <3>1. CASE L = 0
      <4>1. dlnk[0][2] = 0
        BY <1>3, <3>1 DEF Linked, At
      <4> QED
        BY <4>1
    <3>2. CASE L # 0
      <4>1. 1 \in 1 .. L
        BY <1>2, <3>2
      <4>2. m[1].k \in Keys /\ hmap[m[1].k] # 0
        BY <1>2, <4>1
      <4> QED
        BY <4>2
    <3> QED
      BY <3>1, <3>2
  <2> HIDE DEF d1
  <2> QED
    BY <2>1, <2>2 DEF Allocated
<1>7. e \in Nodes /\ e.k = k /\ e = List!Node(k, v, exp)
  BY NodeIs
<1>8. listBar = c /\ c \in Seq(Nodes) /\ Len(c) = L /\ \A j \in 1 .. L : c[j] = m[s[j]]
  BY <1>1, ListNow
<1>9. ~List!Has(c, k)
  BY <1>1, <1>4, Places
<1> DEFINE r == Joined(s, L)
           d == Contents(r, M, m')
<1>10. Order(r, M) /\ dlnk' \in Links /\ Linked(dlnk', r, M, 1, 2)
  BY <1>2, <1>3, <1>5, <1>6, AllocateIs
<1> HIDE DEF e, c
<1>11. m' \in [1 .. Cap -> Nodes] /\ \A j \in 1 .. Cap : m'[j] = IF j = M THEN e ELSE m[j]
  BY <1>2, <1>4, <1>5, <1>7
<1>12. /\ hmap' \in [Keys -> Indices]
       /\ \A j \in Keys : hmap'[j] = IF j = k THEN M ELSE hmap[j]
  BY <1>2, <1>4, <1>5
<1>13. MapSound'
  <2>1. ASSUME NEW j \in Keys, hmap'[j] # 0 PROVE hmap'[j] <= M /\ m'[hmap'[j]].k = j
    <3>1. CASE j = k
      BY <1>5, <1>7, <1>11, <1>12, <3>1
    <3>2. CASE j # k
      <4>1. hmap'[j] = hmap[j] /\ hmap[j] \in 1 .. L /\ m[hmap[j]].k = j
        BY <1>2, <1>12, <2>1, <3>2
      <4>2. hmap[j] # M /\ hmap[j] \in 1 .. Cap /\ hmap[j] <= M
        BY <1>2, <1>5, <4>1
      <4> QED
        BY <1>11, <4>1, <4>2
    <3> QED
      BY <3>1, <3>2
  <2>2. ASSUME NEW j \in 1 .. M PROVE m'[j].k \in Keys /\ hmap'[m'[j].k] = j
    <3>1. CASE j = M
      BY <1>5, <1>7, <1>11, <1>12, <3>1
    <3>2. CASE j # M
      <4>1. j \in 1 .. L /\ j \in 1 .. Cap /\ j # 0
        BY <1>2, <1>5, <3>2
      <4>2. m'[j] = m[j] /\ m[j].k \in Keys /\ hmap[m[j].k] = j
        BY <1>2, <1>11, <3>2, <4>1
      <4> QED
        BY <1>4, <1>12, <4>1, <4>2
    <3> QED
      BY <3>1, <3>2
  <2> QED
    BY <1>4, <2>1, <2>2 DEF MapSound
<1> HIDE DEF r
<1>14. /\ IInv' /\ listBar' = d /\ d \in Seq(Nodes) /\ Len(d) = M
       /\ \A j \in 1 .. M : d[j] = m'[r[j]]
  <2>1. last' = M /\ M \in 0 .. Cap
    BY <1>4, <1>5
  <2> HIDE DEF M
  <2> QED
    BY <1>10, <1>11, <1>12, <1>13, <2>1, NextIs
<1> HIDE DEF d
<1>15. ASSUME NEW j \in 1 .. M PROVE d[j] = IF j = 1 THEN e ELSE c[j - 1]
  <2>1. r[j] = IF j = 1 THEN M ELSE s[j - 1]
    BY DEF r, Joined
  <2>2. CASE j = 1
    BY <1>5, <1>11, <1>14, <2>1, <2>2
  <2>3. CASE j # 1
    <3>1. j - 1 \in 1 .. L
      BY <1>2, <2>3
    <3>2. s[j - 1] \in 1 .. L /\ s[j - 1] \in 1 .. Cap /\ s[j - 1] # M
      BY <1>2, <1>3, <1>5, <3>1 DEF Order
    <3> QED
      BY <1>8, <1>11, <1>14, <2>1, <2>3, <3>1, <3>2
  <2> QED
    BY <2>2, <2>3
<1>16. d = <<e>> \o c
  <2> DEFINE q == <<e>> \o c
  <2>1. q \in Seq(Nodes) /\ Len(q) = Len(c) + 1 /\ \A j \in 1 .. Len(c) + 1 : q[j] = IF j = 1 THEN e ELSE c[j - 1]
    BY <1>7, <1>8, ConsIs
  <2> HIDE DEF q
  <2>2. d \in Seq(Nodes) /\ Len(d) = Len(q) /\ \A j \in 1 .. Len(d) : d[j] = q[j]
    BY <1>8, <1>14, <1>15, <2>1
  <2>3. d = q
    BY ONLY <2>1, <2>2, SameLists
  <2> QED
    BY <2>3 DEF q
<1>17. d = List!PutNode(c, k, v, exp, Cap)
  <2>1. Len(c) # Cap
    BY <1>2, <1>4, <1>8
  <2> QED
    BY <1>7, <1>9, <1>16, <2>1 DEF List!PutNode, List!Reuses
<1> QED
  BY <1>8, <1>14, <1>17 DEF List!Put

\* The node at place x at the end, with the others as they were.
LEMMA BackIs ==
    ASSUME NEW S, NEW e \in S, NEW c \in Seq(S), NEW x \in 1 .. Len(c),
           NEW r \in Seq(S), Len(r) = Len(c),
           \A j \in 1 .. Len(c) :
              r[j] = IF j = Len(c) THEN e ELSE IF j >= x THEN c[j + 1] ELSE c[j]
    PROVE  r = Append(List!RemoveAt(c, x), e)
<1> DEFINE w == List!RemoveAt(c, x)
           q == Append(w, e)
<1>1. /\ w \in Seq(S) /\ Len(w) = Len(c) - 1
      /\ \A j \in 1 .. Len(c) - 1 : w[j] = IF j < x THEN c[j] ELSE c[j + 1]
  BY RemoveAtIs
<1> HIDE DEF w
<1>2. /\ q \in Seq(S) /\ Len(q) = Len(w) + 1
      /\ \A j \in 1 .. Len(w) + 1 : q[j] = IF j = Len(w) + 1 THEN e ELSE w[j]
  BY <1>1
<1> HIDE DEF q
<1>3. Len(q) = Len(r) /\ Len(c) \in Nat /\ Len(w) + 1 = Len(c)
  BY <1>1, <1>2
<1>4. ASSUME NEW j \in 1 .. Len(r) PROVE r[j] = q[j]
  <2>1. j \in 1 .. Len(c)
    BY <1>3
  <2>2. CASE j = Len(c)
    BY <1>2, <1>3, <2>1, <2>2
  <2>3. CASE j # Len(c)
    <3>1. j \in 1 .. Len(c) - 1 /\ (~(j < x) <=> j >= x)
      BY <1>3, <2>1, <2>3
    <3>2. w[j] = IF j >= x THEN c[j + 1] ELSE c[j]
      BY <1>1, <3>1
    <3> QED
      BY <1>2, <1>3, <2>1, <2>3, <3>2
  <2> QED
    BY <2>2, <2>3
<1>5. r = q
  BY <1>2, <1>3, <1>4, SameLists
<1> QED
  BY <1>5 DEF q, w

LEMMA Deleted ==
    ASSUME NEW e \in Nodes, e.k \in Keys
    PROVE  [e EXCEPT !.exp = 0] = Node(e.k, e.v, 0) /\ Node(e.k, e.v, 0) \in Nodes
<1>1. e = [k |-> e.k, v |-> e.v, exp |-> e.exp] /\ e.v \in Values
  BY DEF Nodes
<1>2. [e EXCEPT !.exp = 0] = Node(e.k, e.v, 0)
  BY <1>1 DEF Node
<1>3. Node(e.k, e.v, 0) \in Nodes
  BY <1>1, NodeIs
<1> QED
  BY <1>2, <1>3

LEMMA DelStep ==
    ASSUME IInv, NEW k \in Keys, Del(k)
    PROVE  IInv' /\ List!Del(k)
<1> DEFINE i == hmap[k]
           e == Node(k, m[i].v, 0)
           L == last
<1>1. PICK s : Listed(s)
  BY DEF IInv
<1> DEFINE c == Contents(s, last, m)
<1>2. /\ dlnk \in Links /\ m \in [1 .. Cap -> Nodes] /\ hmap \in [Keys -> Indices]
      /\ L \in 0 .. Cap /\ L \in Nat /\ 1 .. L \subseteq 1 .. Cap
      /\ \A j \in 1 .. L : m[j].k \in Keys /\ hmap[m[j].k] = j
      /\ \A j \in Keys : hmap[j] # 0 => hmap[j] \in 1 .. L /\ m[hmap[j]].k = j
  BY TypesAre
<1>3. Order(s, L) /\ Linked(dlnk, s, L, 1, 2)
  BY <1>1 DEF Listed
<1>4. /\ i # 0 /\ m[i].exp > 0 /\ m' = [m EXCEPT ![i].exp = 0]
      /\ dlnk' = Adjust(dlnk, i, 2, 1) /\ hmap' = hmap /\ last' = L
  BY DEF Del, ToBack, p, n
<1>5. PICK x \in 1 .. L : s[x] = i /\ List!Has(c, k) /\ List!PlaceOf(c, k) = x
  BY <1>1, <1>4, Places
<1>6. i \in 1 .. L /\ i \in 1 .. Cap /\ m[i].k = k /\ m[i] \in Nodes
  BY <1>2, <1>4
<1>7. e \in Nodes /\ e.k = k /\ [m[i] EXCEPT !.exp = 0] = e
  <2>1. m[i] \in Nodes /\ m[i].k \in Keys
    BY <1>6
  <2>2. /\ [m[i] EXCEPT !.exp = 0] = Node(m[i].k, m[i].v, 0)
        /\ Node(m[i].k, m[i].v, 0) \in Nodes
    BY ONLY <2>1, Deleted
  <2>3. Node(k, m[i].v, 0).k = k
    BY DEF Node
  <2> QED
    BY <1>6, <2>2, <2>3
<1>8. listBar = c /\ c \in Seq(Nodes) /\ Len(c) = L /\ \A j \in 1 .. L : c[j] = m[s[j]]
  BY <1>1, ListNow
<1> DEFINE r == Backed(s, L, x)
           d == Contents(r, L, m')
<1>9. Order(r, L) /\ dlnk' \in Links /\ Linked(dlnk', r, L, 1, 2)
  <2>1. /\ Adjust(dlnk, s[x], 2, 1) \in Links /\ Order(r, L)
        /\ Linked(Adjust(dlnk, s[x], 2, 1), r, L, 1, 2)
    BY ONLY <1>2, <1>3, AdjustBacks
  <2> QED
    BY <1>4, <1>5, <2>1
<1>10. m' = [m EXCEPT ![i] = e]
  BY <1>4, <1>7
<1>11. e = List!Node(k, List!NodeOf(c, k).v, 0)
  BY <1>5, <1>8 DEF List!Node, List!NodeOf, Node
<1>12. List!Alive(c, k)
  <2>1. x \in DOMAIN c /\ c[x].k = k /\ c[x].exp > 0
    BY <1>4, <1>5, <1>6, <1>8
  <2> QED
    BY <2>1 DEF List!Alive
<1> HIDE DEF e, i, c
<1>13. m' \in [1 .. Cap -> Nodes] /\ \A j \in 1 .. Cap : m'[j] = IF j = i THEN e ELSE m[j]
  BY <1>2, <1>6, <1>7, <1>10
<1>14. MapSound'
  <2>1. \A j \in Keys : hmap[j] # 0 => hmap[j] <= L /\ m'[hmap[j]].k = j
    BY <1>2, <1>6, <1>7, <1>13
  <2>2. \A j \in 1 .. L : m'[j].k \in Keys /\ hmap[m'[j].k] = j
    <3>1. hmap[k] = i
      BY DEF i
    <3> QED
      BY <1>2, <1>6, <1>7, <1>13, <3>1
  <2> QED
    BY <1>4, <2>1, <2>2 DEF MapSound
<1> HIDE DEF r
<1>15. /\ IInv' /\ listBar' = d /\ d \in Seq(Nodes) /\ Len(d) = L
       /\ \A j \in 1 .. L : d[j] = m'[r[j]]
  <2>1. hmap' \in [Keys -> Indices] /\ last' = L /\ L \in 0 .. Cap
    BY <1>2, <1>4
  <2> HIDE DEF L
  <2> QED
    BY <1>9, <1>13, <1>14, <2>1, NextIs
<1> HIDE DEF d
<1>16. ASSUME NEW j \in 1 .. L
       PROVE  d[j] = IF j = L THEN e ELSE IF j >= x THEN c[j + 1] ELSE c[j]
  <2>1. r[j] = IF j = L THEN s[x] ELSE IF j >= x THEN s[j + 1] ELSE s[j]
    BY DEF r, Backed
  <2>2. /\ \A l \in 1 .. L : s[l] \in 1 .. L /\ s[l] \in 1 .. Cap
        /\ \A l \in 1 .. L : s[l] = i => l = x
    BY <1>2, <1>3, <1>5 DEF Order
  <2>3. CASE j = L
    BY <1>5, <1>6, <1>13, <1>15, <2>1, <2>3
  <2>4. CASE j # L /\ j >= x
    <3>1. j + 1 \in 1 .. L /\ j + 1 # x
      BY <1>2, <2>4
    <3>2. d[j] = m[s[j + 1]]
      BY <1>13, <1>15, <2>1, <2>2, <2>4, <3>1
    <3> QED
      BY <1>8, <2>4, <3>1, <3>2
  <2>5. CASE ~(j >= x)
    <3>1. j # x /\ j # L
      BY <1>2, <2>5
    <3>2. d[j] = m[s[j]]
      BY <1>13, <1>15, <2>1, <2>2, <2>5, <3>1
    <3> QED
      BY <1>8, <2>5, <3>1, <3>2
  <2> QED
    BY <2>3, <2>4, <2>5
<1>17. d = Append(List!RemoveAt(c, x), e)
  <2>1. /\ e \in Nodes /\ c \in Seq(Nodes) /\ x \in 1 .. Len(c)
        /\ d \in Seq(Nodes) /\ Len(d) = Len(c)
        /\ \A j \in 1 .. Len(c) :
              d[j] = IF j = Len(c) THEN e ELSE IF j >= x THEN c[j + 1] ELSE c[j]
    BY <1>7, <1>8, <1>15, <1>16
  <2> QED
    BY ONLY <2>1, BackIs
<1>18. d = List!Kill(c, k)
  BY <1>5, <1>11, <1>12, <1>17 DEF List!Kill, List!Without
<1> QED
  BY <1>8, <1>15, <1>18 DEF List!Del

-----------------------------------------------------------------------------
(* The theorems.                                                              *)

LEMMA InitIs == Init => IInv /\ List!ListInit
<1> SUFFICES ASSUME Init PROVE IInv /\ List!ListInit
  OBVIOUS
<1> DEFINE s == [i \in 1 .. 0 |-> i]
           e == Node(NoKey, CHOOSE v \in Values : TRUE, 0)
<1>1. /\ Cap \in Nat \ {0} /\ 0 \in Indices /\ 0 \in 0 .. Cap
      /\ (CHOOSE v \in Values : TRUE) \in Values
  BY LevelAssumption DEF Indices
<1>2. e \in Nodes
  BY <1>1 DEF Node, Nodes
<1>3. /\ dlnk = [i \in Indices |-> <<0, 0>>] /\ m = [i \in 1 .. Cap |-> e]
      /\ hmap = [k \in Keys |-> 0] /\ last = 0
  BY DEF Init
<1> HIDE DEF e
<1>4. dlnk \in Links /\ m \in [1 .. Cap -> Nodes] /\ hmap \in [Keys -> Indices]
  BY <1>1, <1>2, <1>3 DEF Links
<1>5. TypeOK
  BY <1>1, <1>3, <1>4 DEF TypeOK, Links, Nodes
<1>6. MapSound
  BY <1>3 DEF MapSound
<1>7. Order(s, 0)
  BY DEF Order
<1>8. Linked(dlnk, s, 0, 1, 2)
  <2>1. dlnk[0][1] = 0 /\ dlnk[0][2] = 0
    BY <1>1, <1>3
  <2> QED
    BY <2>1 DEF Linked, At
<1> HIDE DEF s
<1>9. Listed(s)
  BY <1>3, <1>7, <1>8 DEF Listed
<1>10. IInv
  BY <1>5, <1>6, <1>9 DEF IInv
<1>11. /\ listBar = Contents(s, last, m)
       /\ Contents(s, last, m) \in Seq(Nodes) /\ Len(Contents(s, last, m)) = last
  BY <1>9, <1>10, ListNow
<1>12. listBar = <<>>
  BY <1>3, <1>11
<1> QED
  BY <1>10, <1>12 DEF List!ListInit

LEMMA StepIs == IInv /\ [Next]_vars => IInv' /\ [List!ListNext]_listBar
<1> SUFFICES ASSUME IInv, [Next]_vars PROVE IInv' /\ [List!ListNext]_listBar
  OBVIOUS
<1>1. CASE Next
  <2>1. PICK k \in Keys :
           \/ \E v \in Values, exp \in Expiries : Put(k, v, exp)
           \/ Get(k)
           \/ Del(k)
    BY <1>1 DEF Next
  <2>2. CASE \E v \in Values, exp \in Expiries : Put(k, v, exp)
    <3>1. PICK v \in Values, exp \in Expiries : Put(k, v, exp)
      BY <2>2
    <3>2. IInv' /\ List!Put(k, v, exp)
      BY <3>1, PutExistingStep, PutFullStep, PutFreshStep DEF Put
    <3> QED
      BY <3>2 DEF List!ListNext
  <2>3. CASE Get(k)
    BY <2>3, GetStep DEF List!ListNext
  <2>4. CASE Del(k)
    BY <2>4, DelStep DEF List!ListNext
  <2> QED
    BY <2>1, <2>2, <2>3, <2>4
<1>2. CASE UNCHANGED vars
  <2>1. dlnk' = dlnk /\ m' = m /\ hmap' = hmap /\ last' = last
    BY <1>2 DEF vars
  <2>2. listBar' = listBar
    BY <2>1 DEF listBar, n, Walk
  <2>3. IInv'
    BY <2>1 DEF IInv, TypeOK, MapSound, Listed
  <2> QED
    BY <2>2, <2>3
<1> QED
  BY <1>1, <1>2

\* The variables keep their types: no operation leaves the array of nodes
\* (lru2.go put, 380-420).
THEOREM TypeCorrect == Spec => []TypeOK
<1>1. Init => IInv
  BY InitIs
<1>2. IInv /\ [Next]_vars => IInv'
  BY StepIs
<1>3. IInv => TypeOK
  BY DEF IInv
<1> QED
  BY <1>1, <1>2, <1>3, PTL DEF Spec

\* Whatever the order of puts, gets and dels, the two directions of the list
\* mirror each other, every allocated node is on it once, and the map names
\* exactly the allocated nodes (lru2.go adjust and put, 380-420, 463-475).
THEOREM LevelAlwaysSound == Spec => []LevelSound
<1>1. Init => IInv
  BY InitIs
<1>2. IInv /\ [Next]_vars => IInv'
  BY StepIs
<1> QED
  BY <1>1, <1>2, Sound, PTL DEF Spec

\* The array of links read from the sentinel is a recency list of at most Cap
\* nodes, and put, get and del do to it what Recency says (lru2.go, 380-475).
THEOREM LevelImplementsRecencyList == Spec => ImplementsRecencyList
<1>1. Init => IInv /\ List!ListInit
  BY InitIs
<1>2. IInv /\ [Next]_vars => IInv' /\ [List!ListNext]_listBar
  BY StepIs
<1> QED
  BY <1>1, <1>2, PTL DEF Spec, ImplementsRecencyList, List!ListSpec
=============================================================================
