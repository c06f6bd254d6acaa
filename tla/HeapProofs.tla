------------------------------ MODULE HeapProofs ------------------------------
(***************************************************************************)
(* Theorems about tegrabl_malloc.c: the free list stays sorted and linked  *)
(* (ListSortedTheorem), and free and allocated blocks share the heap out   *)
(* (BlocksTileTheorem), for heaps of every size and requests of every size *)
(* and alignment.                                                          *)
(*                                                                         *)
(* The model reads the list by following next, which has a value only as   *)
(* long as next leads on to an end.  So the invariant speaks of a set F of *)
(* blocks instead: Linked says that the links join F up in the order of    *)
(* its addresses, and FreeListFacts that the list is then F.  The lemmas   *)
(* say what inserting, taking out, splitting and merging do to F and to    *)
(* the words Covered by it.                                                *)
(***************************************************************************)
EXTENDS Heap, InductionFacts, SequenceTheorems

Ptr == Addr \cup {Null}
HeapT == [head : Ptr, size : [Addr -> Int], prev : [Addr -> Ptr], next : [Addr -> Ptr]]

\* next leads upwards
Rising(h) == h.next \in [Addr -> Ptr] /\ \A a \in Addr : h.next[a] = Null \/ a < h.next[a]

LEMMA FromIs ==
  ASSUME NEW h, Rising(h)
  PROVE  /\ From(h, Null) = <<>>
         /\ \A a \in Addr : From(h, a) = <<a>> \o From(h, h.next[a])
<1> DEFINE f[a \in Addr \cup {Null}] == IF a = Null THEN <<>> ELSE <<a>> \o f[h.next[a]]
           One(F) == [a \in Addr \cup {Null} |-> IF a = Null THEN <<>> ELSE <<a>> \o F[h.next[a]]]
           D == [Addr \cup {Null} -> Seq(Addr)]
           n == HeapSize + 1
           g == [y \in (1 .. n) \X D |-> One(y[2])]
           z == [a \in Addr \cup {Null} |-> <<>>]
<1>0. n \in Nat /\ HeapSize \in Nat /\ Null \notin Addr
  BY HeapSizeAssumption DEF Null, Addr
<1>n. h.next \in [Addr -> Addr \cup {Null}] /\ \A a \in Addr : h.next[a] = Null \/ a < h.next[a]
  BY DEF Rising, Ptr
<1>1. \A F \in D : One(F) \in D
  <2> SUFFICES ASSUME NEW F \in D, NEW a \in Addr \cup {Null}
               PROVE  (IF a = Null THEN <<>> ELSE <<a>> \o F[h.next[a]]) \in Seq(Addr)
    OBVIOUS
  <2>1. CASE a = Null
    BY <2>1
  <2>2. CASE a # Null
    <3>1. a \in Addr /\ F[h.next[a]] \in Seq(Addr)
      BY <1>n, <2>2
    <3>2. <<a>> \in Seq(Addr)
      BY <3>1
    <3> HIDE DEF D
    <3> DEFINE r == F[h.next[a]]
    <3>3. <<a>> \o r \in Seq(Addr)
      <4> HIDE DEF r
      <4> QED BY <3>1, <3>2, ConcatProperties DEF r
    <3> QED BY <2>2, <3>3
  <2> QED BY <2>1, <2>2
<1>2. z \in D
  OBVIOUS
<1> HIDE DEF D
<1>3. IsStep(g, n, D)
  <2> HIDE DEF One
  <2> QED BY <1>1 DEF IsStep
<1>4. \A k \in 1 .. n, F \in D : g[<<k, F>>] = One(F)
  <2> HIDE DEF One
  <2> QED OBVIOUS
<1> HIDE DEF g, z, n
<1>5. PICK G : ByRecursion(G, n, D, z, g)
  BY <1>0, <1>2, <1>3, FunctionByRecursion
<1>6. /\ G[0] = z
      /\ \A k \in 0 .. n : G[k] \in D
      /\ \A k \in 1 .. n : G[k] = One(G[k - 1])
  <2> HIDE DEF One
  <2>0. G \in [0 .. n -> D] /\ \A i \in 0 .. n : G[i] = IF i = 0 THEN z ELSE g[<<i, G[i - 1]>>]
    <3> HIDE DEF f
    <3> QED BY <1>5 DEF ByRecursion
  <2>1. G[0] = z /\ \A k \in 0 .. n : G[k] \in D
    <3>1. 0 \in 0 .. n
      BY <1>0
    <3> QED BY <2>0, <3>1
  <2>2. ASSUME NEW k \in 1 .. n PROVE G[k] = One(G[k - 1])
    <3>1. k \in 0 .. n /\ k # 0 /\ k - 1 \in 0 .. n
      BY <1>0
    <3>2. G[k] = g[<<k, G[k - 1]>>]
      BY <2>0, <3>1
    <3> QED BY <1>4, <2>1, <3>1, <3>2
  <2> QED BY <2>1, <2>2
<1> DEFINE Settled(k) == \A a \in Addr \cup {Null} :
                            a = Null \/ a + k >= HeapSize => G[k + 1][a] = G[k][a]
           S == {k \in Nat : k <= HeapSize => Settled(k)}
<1>7. \A k \in 0 .. HeapSize, a \in Addr \cup {Null} :
         G[k + 1][a] = IF a = Null THEN <<>> ELSE <<a>> \o G[k][h.next[a]]
  <2> SUFFICES ASSUME NEW k \in 0 .. HeapSize, NEW a \in Addr \cup {Null}
               PROVE  G[k + 1][a] = IF a = Null THEN <<>> ELSE <<a>> \o G[k][h.next[a]]
    OBVIOUS
  <2>1. k + 1 \in 1 .. n /\ (k + 1) - 1 = k
    BY <1>0 DEF n
  <2>2. G[k + 1] = One(G[k])
    <3> HIDE DEF One
    <3>1. G[k + 1] = One(G[(k + 1) - 1])
      BY <1>6, <2>1
    <3> QED BY <2>1, <3>1
  <2> QED BY <2>2
<1>8. 0 \in S
  <2> SUFFICES ASSUME NEW a \in Addr \cup {Null}, a = Null \/ a + 0 >= HeapSize
               PROVE  G[0 + 1][a] = G[0][a]
    OBVIOUS
  <2>1. a = Null
    BY <1>0 DEF Addr
  <2>2. G[0][a] = <<>>
    BY <1>6 DEF z
  <2>3. 0 \in 0 .. HeapSize
    BY <1>0
  <2>4. G[0 + 1][a] = <<>>
    BY <1>7, <2>1, <2>3
  <2> QED BY <2>2, <2>4
<1>9. ASSUME NEW k \in Nat, k \in S PROVE k + 1 \in S
  <2> SUFFICES ASSUME k + 1 <= HeapSize, NEW a \in Addr \cup {Null},
                      a = Null \/ a + (k + 1) >= HeapSize
               PROVE  G[(k + 1) + 1][a] = G[k + 1][a]
    OBVIOUS
  <2>1. k \in 0 .. HeapSize /\ k + 1 \in 0 .. HeapSize /\ Settled(k)
    BY <1>0, <1>9
  <2>2. CASE a = Null
    <3>1. G[(k + 1) + 1][a] = <<>> /\ G[k + 1][a] = <<>>
      <4> HIDE DEF Settled
      <4> QED BY <1>7, <2>1, <2>2
    <3> QED BY <3>1
  <2>3. CASE a # Null
    <3> DEFINE b == h.next[a]
    <3>1. a \in Addr /\ b \in Addr \cup {Null} /\ (b = Null \/ b + k >= HeapSize)
      BY <1>0, <1>n, <2>3 DEF Addr
    <3>2. G[k + 1][b] = G[k][b]
      BY <2>1, <3>1
    <3>3. G[(k + 1) + 1][a] = <<a>> \o G[k + 1][b] /\ G[k + 1][a] = <<a>> \o G[k][b]
      <4> HIDE DEF Settled
      <4> QED BY <1>7, <2>1, <2>3
    <3> QED BY <3>2, <3>3
  <2> QED BY <2>2, <2>3
<1> HIDE DEF S
<1>10. Settled(HeapSize)
  <2>1. Nat \subseteq S
    BY <1>8, <1>9, NatSetInduction
  <2> QED BY <1>0, <2>1 DEF S
<1>11. \A a \in Addr \cup {Null} :
          G[HeapSize][a] = IF a = Null THEN <<>> ELSE <<a>> \o G[HeapSize][h.next[a]]
  <2> SUFFICES ASSUME NEW a \in Addr \cup {Null}
               PROVE  G[HeapSize][a] = IF a = Null THEN <<>> ELSE <<a>> \o G[HeapSize][h.next[a]]
    OBVIOUS
  <2>1. a = Null \/ a + HeapSize >= HeapSize
    BY <1>0 DEF Addr
  <2>2. G[HeapSize + 1][a] = G[HeapSize][a]
    BY <1>10, <2>1
  <2>3. HeapSize \in 0 .. HeapSize
    BY <1>0
  <2>4. G[HeapSize + 1][a] = IF a = Null THEN <<>> ELSE <<a>> \o G[HeapSize][h.next[a]]
    BY <1>7, <2>3
  <2> QED BY <2>2, <2>4
<1>12. f = [a \in Addr \cup {Null} |-> IF a = Null THEN <<>> ELSE <<a>> \o f[h.next[a]]]
  <2> DEFINE r == G[HeapSize]
  <2>1. r \in D
    <3>1. HeapSize \in 0 .. n
      BY <1>0 DEF n
    <3> QED BY <1>6, <3>1
  <2>2. r = [a \in Addr \cup {Null} |-> IF a = Null THEN <<>> ELSE <<a>> \o r[h.next[a]]]
    <3> HIDE DEF r
    <3> SUFFICES ASSUME NEW a \in Addr \cup {Null}
                 PROVE  r[a] = IF a = Null THEN <<>> ELSE <<a>> \o r[h.next[a]]
      BY <2>1 DEF D
    <3> QED BY <1>11 DEF r
  <2> HIDE DEF r
  <2>3. \E F : F = [a \in Addr \cup {Null} |-> IF a = Null THEN <<>> ELSE <<a>> \o F[h.next[a]]]
    BY <2>2
  <2> QED BY <2>3
<1>13. \A b : From(h, b) = f[b]
  BY DEF From
<1> HIDE DEF f
<1>14. From(h, Null) = <<>>
  BY <1>12, <1>13
<1>15. ASSUME NEW a \in Addr PROVE From(h, a) = <<a>> \o From(h, h.next[a])
  <2>1. f[a] = <<a>> \o f[h.next[a]]
    BY <1>0, <1>12
  <2> QED BY <1>13, <2>1
<1> QED BY <1>14, <1>15

-------------------------------------------------------------------------------
\* b is the block of F after a, or Null when there is none; b is the one before a
IsNext(F, a, b) ==
  IF b = Null THEN \A c \in F : c <= a
  ELSE b \in F /\ a < b /\ \A c \in F : c <= a \/ b <= c
IsPrev(F, a, b) ==
  IF b = Null THEN \A c \in F : a <= c
  ELSE b \in F /\ b < a /\ \A c \in F : c <= b \/ a <= c

\* the links of the heap make one list of the blocks F, in the order of their addresses
Linked(h, F) ==
  /\ F \subseteq Addr
  /\ \A a \in F : IsNext(F, a, h.next[a]) /\ IsPrev(F, a, h.prev[a])
  /\ \A a \in Addr \ F : h.next[a] = Null /\ h.prev[a] = Null

HeadOf(h, F) ==
  IF h.head = Null THEN F = {} ELSE h.head \in F /\ \A c \in F : h.head <= c

LEMMA LinkedRises ==
  ASSUME NEW h \in HeapT, NEW F, Linked(h, F)
  PROVE  Rising(h)
<1>1. h.next \in [Addr -> Ptr]
  BY DEF HeapT
<1>2. ASSUME NEW a \in Addr PROVE h.next[a] = Null \/ a < h.next[a]
  BY DEF Linked, IsNext
<1> QED BY <1>1, <1>2 DEF Rising

\* l is the list of the blocks of F from a on
ListFrom(h, F, a, l) ==
  /\ l \in Seq(F)
  /\ a = Null => Len(l) = 0
  /\ a # Null => Len(l) > 0 /\ l[1] = a /\ h.next[l[Len(l)]] = Null
  /\ \A i \in 1 .. Len(l) - 1 : l[i + 1] = h.next[l[i]]
  /\ \A i \in 1 .. Len(l) : a <= l[i]
  /\ a # Null => \A c \in F : a <= c => \E i \in 1 .. Len(l) : l[i] = c

LEMMA ListStep ==
  ASSUME NEW h \in HeapT, NEW F, Linked(h, F), NEW a \in F,
         NEW r, ListFrom(h, F, h.next[a], r)
  PROVE  ListFrom(h, F, a, <<a>> \o r)
<1> DEFINE b == h.next[a]
           s == <<a>>
           l == s \o r
<1>0. F \subseteq Int /\ Null \notin F /\ a \in Int /\ Null = -1 /\ \A c \in F : c >= 0
  BY DEF Linked, Addr, Null
<1>1. s \in Seq(F) /\ Len(s) = 1 /\ s[1] = a
  OBVIOUS
<1>2. r \in Seq(F) /\ Len(r) \in Nat
  <2>1. r \in Seq(F)
    BY DEF ListFrom
  <2> QED BY <2>1, LenProperties
<1>3. IsNext(F, a, b)
  BY DEF Linked
<1>4. /\ b = Null => Len(r) = 0
      /\ b # Null => Len(r) > 0 /\ r[1] = b /\ h.next[r[Len(r)]] = Null
      /\ \A i \in 1 .. Len(r) - 1 : r[i + 1] = h.next[r[i]]
      /\ \A i \in 1 .. Len(r) : b <= r[i]
      /\ b # Null => \A c \in F : b <= c => \E i \in 1 .. Len(r) : r[i] = c
  BY DEF ListFrom
<1> DEFINE m == Len(r)
<1> HIDE DEF s
<1>5. /\ l \in Seq(F)
      /\ Len(l) = 1 + m
      /\ \A i \in 1 .. 1 + m : l[i] = IF i <= 1 THEN s[i] ELSE r[i - 1]
  <2>1. /\ l \in Seq(F)
        /\ Len(l) = Len(s) + Len(r)
        /\ \A i \in 1 .. Len(s) + Len(r) : l[i] = IF i <= Len(s) THEN s[i] ELSE r[i - Len(s)]
    BY <1>1, <1>2, ConcatProperties
  <2> QED BY <1>1, <2>1
<1> HIDE DEF l, m, b
<1>6. l[1] = a /\ \A i \in 1 .. m : l[i + 1] = r[i]
  <2>1. m \in Nat
    BY <1>2 DEF m
  <2>2. l[1] = s[1]
    BY <1>5, <2>1
  <2>3. ASSUME NEW i \in 1 .. m PROVE l[i + 1] = r[i]
    <3>1. i + 1 \in 1 .. 1 + m /\ ~(i + 1 <= 1) /\ (i + 1) - 1 = i
      BY <2>1
    <3> QED BY <1>5, <3>1
  <2> QED BY <1>1, <2>2, <2>3
<1>7. m \in Nat
  BY <1>2 DEF m
<1>8. b = Null <=> m = 0
  BY <1>4, <1>7 DEF m
<1>9. h.next[l[1 + m]] = Null
  <2>1. CASE m = 0
    <3>1. 1 + m = 1
      BY <2>1
    <3> QED BY <1>6, <1>8, <2>1, <3>1 DEF b
  <2>2. CASE m # 0
    <3>1. m \in 1 .. m /\ 1 + m = m + 1
      BY <1>7, <2>2
    <3> QED BY <1>4, <1>6, <1>8, <2>2, <3>1 DEF m
  <2> QED BY <2>1, <2>2
<1>10. ASSUME NEW i \in 1 .. m PROVE l[i + 1] = h.next[l[i]]
  <2>1. CASE i = 1
    <3>1. r[1] = b
      BY <1>4, <1>7, <1>8
    <3> QED BY <1>6, <2>1, <3>1 DEF b
  <2>2. CASE i # 1
    <3>1. i - 1 \in 1 .. m - 1 /\ i - 1 \in 1 .. m /\ (i - 1) + 1 = i
      BY <1>7, <2>2
    <3>2. r[(i - 1) + 1] = h.next[r[i - 1]]
      BY <1>4, <3>1 DEF m
    <3>3. l[(i - 1) + 1] = r[i - 1]
      BY <1>6, <3>1
    <3> QED BY <1>6, <3>1, <3>2, <3>3
  <2> QED BY <2>1, <2>2
<1>11. ASSUME NEW i \in 1 .. 1 + m PROVE a <= l[i]
  <2>1. CASE i = 1
    BY <1>0, <1>6, <2>1
  <2>2. CASE i # 1
    <3>1. i - 1 \in 1 .. m /\ (i - 1) + 1 = i /\ m # 0
      BY <1>7, <2>2
    <3>2. b <= r[i - 1] /\ b # Null /\ l[i] = r[i - 1]
      <4>1. b <= r[i - 1]
        BY <1>4, <3>1 DEF m
      <4>2. l[(i - 1) + 1] = r[i - 1]
        BY <1>6, <3>1
      <4> QED BY <1>8, <3>1, <4>1, <4>2
    <3>3. a < b /\ b \in F /\ l[i] \in F
      <4>1. l[i] \in F
        BY <1>5, ElementOfSeq, <1>7
      <4> QED BY <1>3, <3>2, <4>1 DEF IsNext
    <3> DEFINE x == l[i]
               y == r[i - 1]
    <3>4. a \in Int /\ b \in Int /\ x \in Int /\ a < b /\ b <= y /\ x = y
      BY <1>0, <3>2, <3>3
    <3> HIDE DEF x, y
    <3>5. a <= x
      BY <3>4
    <3> QED BY <3>5 DEF x
  <2> QED BY <2>1, <2>2
<1>12. ASSUME NEW c \in F, a <= c PROVE \E i \in 1 .. 1 + m : l[i] = c
  <2>1. CASE c = a
    <3>1. 1 \in 1 .. 1 + m
      BY <1>7
    <3> QED BY <1>6, <2>1, <3>1
  <2>2. CASE c # a
    <3>1. b # Null /\ b <= c
      BY <1>0, <1>3, <1>12, <2>2 DEF IsNext
    <3>2. PICK i \in 1 .. m : r[i] = c
      BY <1>4, <3>1 DEF m
    <3>3. i + 1 \in 1 .. 1 + m
      BY <1>7
    <3> QED BY <1>6, <3>2, <3>3
  <2> QED BY <2>1, <2>2
<1>13. ListFrom(h, F, a, l)
  <2>1. a # Null
    BY <1>0
  <2>2. Len(l) = 1 + m /\ 1 + m > 0 /\ (1 + m) - 1 = m
    BY <1>5, <1>7
  <2> QED BY <1>5, <1>6, <1>9, <1>10, <1>11, <1>12, <2>1, <2>2 DEF ListFrom
<1> QED BY <1>13 DEF l, s

LEMMA ListFromFrom ==
  ASSUME NEW h \in HeapT, NEW F, Linked(h, F), NEW a \in F \cup {Null}
  PROVE  ListFrom(h, F, a, From(h, a))
<1>z. /\ HeapSize \in Nat /\ Null = -1 /\ F \subseteq 0 .. HeapSize - 1
      /\ Rising(h)
  BY HeapSizeAssumption, LinkedRises DEF Linked, Null, Addr
<1>0. /\ HeapSize \in Nat /\ Null = -1 /\ F \subseteq 0 .. HeapSize - 1
      /\ Rising(h) /\ \A c \in F : c \in Int
  BY ONLY <1>z
<1>1. ListFrom(h, F, Null, From(h, Null))
  <2> DEFINE l == <<>>
  <2>1. l \in Seq(F) /\ Len(l) = 0
    OBVIOUS
  <2>2. From(h, Null) = l
    BY <1>0, FromIs
  <2> HIDE DEF l
  <2>3. (1 .. Len(l) - 1) = {} /\ (1 .. Len(l)) = {}
    BY <2>1
  <2> QED BY <2>1, <2>2, <2>3 DEF ListFrom
<1> DEFINE S == {k \in Nat : \A c \in F : c + k >= HeapSize => ListFrom(h, F, c, From(h, c))}
<1>2. 0 \in S
  BY <1>0
<1>3. ASSUME NEW k \in Nat, k \in S PROVE k + 1 \in S
  <2> SUFFICES ASSUME NEW c \in F, c + (k + 1) >= HeapSize
               PROVE  ListFrom(h, F, c, From(h, c))
    OBVIOUS
  <2> DEFINE b == h.next[c]
  <2>1. b = Null \/ (b \in F /\ c < b)
    BY DEF Linked, IsNext
  <2>2. ListFrom(h, F, b, From(h, b))
    <3>1. CASE b = Null
      BY <1>1, <3>1
    <3>2. CASE b # Null
      <4>0. b \in F /\ c < b
        BY <2>1, <3>2
      <4>1. b \in F /\ b + k >= HeapSize
        <5> HIDE DEF b, S
        <5>1. b \in Int /\ c \in Int
          BY <1>0, <4>0
        <5>2. HeapSize \in Int /\ k \in Int /\ c + (k + 1) >= HeapSize /\ c + 1 <= b
          BY <1>0, <4>0, <5>1
        <5>3. b + k >= HeapSize
          BY ONLY <5>1, <5>2
        <5> QED BY <4>0, <5>3
      <4>2. \A e \in F : e + k >= HeapSize => ListFrom(h, F, e, From(h, e))
        BY <1>3
      <4> HIDE DEF b, S
      <4>3. ListFrom(h, F, b, From(h, b))
        BY ONLY <4>1, <4>2
      <4> QED BY <4>3
    <3> QED BY <3>1, <3>2
  <2>3. From(h, c) = <<c>> \o From(h, b)
    BY <1>0, FromIs DEF Addr
  <2>4. ListFrom(h, F, c, <<c>> \o From(h, b))
    BY <2>2, ListStep
  <2> QED BY <2>3, <2>4
<1> HIDE DEF S
<1>4. HeapSize \in S
  BY <1>0, <1>2, <1>3, NatSetInduction
<1>5. CASE a \in F
  <2>1. a + HeapSize >= HeapSize
    BY <1>0, <1>5
  <2> QED BY <1>4, <1>5, <2>1 DEF S
<1> QED BY <1>1, <1>5

\* The free list has the blocks of F, in their order.
LEMMA FreeListFacts ==
  ASSUME NEW h \in HeapT, NEW F, Linked(h, F), HeadOf(h, F)
  PROVE  /\ FreeSet(h) = F
         /\ FreeList(h) \in Seq(F)
         /\ Len(FreeList(h)) \in Nat
         /\ DOMAIN FreeList(h) = 1 .. Len(FreeList(h))
         /\ \A i \in 1 .. Len(FreeList(h)) : FreeList(h)[i] \in F
         /\ h.head = Null => Len(FreeList(h)) = 0
         /\ h.head # Null =>
              /\ Len(FreeList(h)) > 0 /\ FreeList(h)[1] = h.head
              /\ h.next[FreeList(h)[Len(FreeList(h))]] = Null
         /\ \A i \in 1 .. Len(FreeList(h)) - 1 : FreeList(h)[i + 1] = h.next[FreeList(h)[i]]
<1> DEFINE l == FreeList(h)
<1>1. h.head \in F \cup {Null}
  BY DEF HeadOf
<1>2. ListFrom(h, F, h.head, l)
  BY <1>1, ListFromFrom DEF FreeList
<1>3. FreeSet(h) = {l[i] : i \in DOMAIN l}
  BY DEF FreeSet
<1> HIDE DEF l
<1>4. l \in Seq(F)
  BY <1>2 DEF ListFrom
<1>5. Len(l) \in Nat /\ DOMAIN l = 1 .. Len(l)
  BY <1>4, LenProperties
<1>6. \A i \in 1 .. Len(l) : l[i] \in F
  BY <1>4, ElementOfSeq
<1>7. F \subseteq FreeSet(h)
  <2> SUFFICES ASSUME NEW c \in F PROVE \E i \in 1 .. Len(l) : l[i] = c
    BY <1>3, <1>5
  <2>1. h.head # Null /\ h.head <= c
    BY DEF HeadOf
  <2> QED BY <1>2, <2>1 DEF ListFrom
<1>8. FreeSet(h) = F
  BY <1>3, <1>5, <1>6, <1>7
<1>9. /\ h.head = Null => Len(l) = 0
      /\ h.head # Null => Len(l) > 0 /\ l[1] = h.head /\ h.next[l[Len(l)]] = Null
      /\ \A i \in 1 .. Len(l) - 1 : l[i + 1] = h.next[l[i]]
  BY <1>2 DEF ListFrom
<1> QED BY <1>4, <1>5, <1>6, <1>8, <1>9 DEF l

-------------------------------------------------------------------------------
\* What the helpers do to each link.

\* k is h with b after a
IsLink(h, a, b, k) ==
  /\ k \in HeapT /\ k.head = h.head /\ k.size = h.size
  /\ \A c \in Addr : k.next[c] = IF c = a THEN b ELSE h.next[c]
  /\ \A c \in Addr : k.prev[c] = IF c = b THEN a ELSE h.prev[c]

LEMMA LinkFacts ==
  ASSUME NEW h \in HeapT, NEW a \in Ptr, NEW b \in Ptr
  PROVE  IsLink(h, a, b, Link(h, a, b))
<1> DEFINE g == SetNext(h, a, b)
           k == SetPrev(g, b, a)
<1>0. Null \notin Addr
  BY HeapSizeAssumption DEF Null, Addr
<1>1. /\ g \in HeapT /\ g.head = h.head /\ g.size = h.size /\ g.prev = h.prev
      /\ \A c \in Addr : g.next[c] = IF c = a THEN b ELSE h.next[c]
  BY <1>0 DEF SetNext, HeapT, Ptr
<1> HIDE DEF g
<1>2. /\ k \in HeapT /\ k.head = g.head /\ k.size = g.size /\ k.next = g.next
      /\ \A c \in Addr : k.prev[c] = IF c = b THEN a ELSE g.prev[c]
  BY <1>0, <1>1 DEF SetPrev, HeapT, Ptr
<1> HIDE DEF k
<1>3. Link(h, a, b) = k
  BY DEF Link, g, k
<1>4. IsLink(h, a, b, k)
  BY <1>1, <1>2 DEF IsLink
<1> QED BY <1>3, <1>4

LEMMA DropFacts ==
  ASSUME NEW h \in HeapT, NEW a \in Addr
  PROVE  /\ Drop(h, a) \in HeapT
         /\ Drop(h, a).head = h.head
         /\ Drop(h, a).size = h.size
         /\ \A c \in Addr : Drop(h, a).next[c] = IF c = a THEN Null ELSE h.next[c]
         /\ \A c \in Addr : Drop(h, a).prev[c] = IF c = a THEN Null ELSE h.prev[c]
BY DEF Drop, HeapT, Ptr

\* k is h without the header at a
IsForgotten(h, a, k) ==
  /\ k \in HeapT /\ k.head = h.head
  /\ \A c \in Addr : k.size[c] = IF c = a THEN 0 ELSE h.size[c]
  /\ \A c \in Addr : k.next[c] = IF c = a THEN Null ELSE h.next[c]
  /\ \A c \in Addr : k.prev[c] = IF c = a THEN Null ELSE h.prev[c]

LEMMA ForgetFacts ==
  ASSUME NEW h \in HeapT, NEW a \in Addr
  PROVE  IsForgotten(h, a, Forget(h, a))
<1> DEFINE d == Drop(h, a)
<1>1. /\ d \in HeapT /\ d.head = h.head /\ d.size = h.size
      /\ \A c \in Addr : d.next[c] = IF c = a THEN Null ELSE h.next[c]
      /\ \A c \in Addr : d.prev[c] = IF c = a THEN Null ELSE h.prev[c]
  BY DropFacts
<1> HIDE DEF d
<1>2. Forget(h, a) = [d EXCEPT !.size[a] = 0]
  BY DEF Forget, d
<1> QED BY <1>1, <1>2 DEF HeapT, IsForgotten

\* The heap with another head or another size.
LEMMA HeadFacts ==
  ASSUME NEW h \in HeapT, NEW a \in Ptr
  PROVE  /\ [h EXCEPT !.head = a] \in HeapT
         /\ [h EXCEPT !.head = a].head = a
         /\ [h EXCEPT !.head = a].size = h.size
         /\ [h EXCEPT !.head = a].next = h.next
         /\ [h EXCEPT !.head = a].prev = h.prev
BY DEF HeapT

LEMMA SizeFacts ==
  ASSUME NEW h \in HeapT, NEW a \in Addr, NEW n \in Int
  PROVE  /\ [h EXCEPT !.size[a] = n] \in HeapT
         /\ [h EXCEPT !.size[a] = n].head = h.head
         /\ \A c \in Addr : [h EXCEPT !.size[a] = n].size[c] = IF c = a THEN n ELSE h.size[c]
         /\ [h EXCEPT !.size[a] = n].next = h.next
         /\ [h EXCEPT !.size[a] = n].prev = h.prev
BY DEF HeapT

-------------------------------------------------------------------------------
\* What the links of the list become when a block is put in, taken out or replaced.

LEMMA LinkedTypes ==
  ASSUME NEW h \in HeapT, NEW F, Linked(h, F)
  PROVE  /\ \A c \in F : c \in Int /\ c >= 0 /\ c < HeapSize /\ c \in Addr
         /\ \A c \in F : h.next[c] = Null \/ (h.next[c] \in F /\ c < h.next[c])
         /\ \A c \in F : h.prev[c] = Null \/ (h.prev[c] \in F /\ h.prev[c] < c)
         /\ Null = -1
<1>1. F \subseteq Addr /\ \A c \in Addr : c \in Int /\ c >= 0 /\ c < HeapSize
  BY HeapSizeAssumption DEF Linked, Addr
<1>2. \A c \in F : IsNext(F, c, h.next[c]) /\ IsPrev(F, c, h.prev[c])
  BY DEF Linked
<1> QED BY <1>1, <1>2 DEF IsNext, IsPrev, Null

\* The links lead both ways.
LEMMA BothWays ==
  ASSUME NEW h \in HeapT, NEW F, Linked(h, F), NEW a \in F
  PROVE  /\ h.next[a] # Null => h.prev[h.next[a]] = a
         /\ h.prev[a] # Null => h.next[h.prev[a]] = a
<1>1. \A c \in F : c \in Int /\ c # Null
  BY LinkedTypes DEF Null
<1>2. \A c \in F : IsNext(F, c, h.next[c]) /\ IsPrev(F, c, h.prev[c])
  BY DEF Linked
<1>3. ASSUME h.next[a] # Null PROVE h.prev[h.next[a]] = a
  <2> DEFINE b == h.next[a]
             p == h.prev[b]
  <2>1. b \in F /\ a < b /\ \A c \in F : c <= a \/ b <= c
    BY <1>2, <1>3 DEF IsNext
  <2>2. p # Null /\ p \in F /\ p < b /\ \A c \in F : c <= p \/ b <= c
    <3>1. IsPrev(F, b, p)
      BY <1>2, <2>1
    <3> HIDE DEF p, b
    <3> QED BY <1>1, <2>1, <3>1 DEF IsPrev
  <2> HIDE DEF p, b
  <2>3. p = a
    BY <1>1, <2>1, <2>2
  <2> QED BY <2>3 DEF p, b
<1>4. ASSUME h.prev[a] # Null PROVE h.next[h.prev[a]] = a
  <2> DEFINE b == h.prev[a]
             p == h.next[b]
  <2>1. b \in F /\ b < a /\ \A c \in F : c <= b \/ a <= c
    BY <1>2, <1>4 DEF IsPrev
  <2>2. p # Null /\ p \in F /\ b < p /\ \A c \in F : c <= b \/ p <= c
    <3>1. IsNext(F, b, p)
      BY <1>2, <2>1
    <3> HIDE DEF p, b
    <3> QED BY <1>1, <2>1, <3>1 DEF IsNext
  <2> HIDE DEF p, b
  <2>3. p = a
    BY <1>1, <2>1, <2>2
  <2> QED BY <2>3 DEF p, b
<1> QED BY <1>3, <1>4

LEMMA InsertList ==
  ASSUME NEW h \in HeapT, NEW F, Linked(h, F), NEW b \in Addr \ F,
         NEW before \in F \cup {Null}, NEW after \in F \cup {Null},
         IsPrev(F, b, before), IsNext(F, b, after), NEW g \in HeapT,
         \A c \in Addr : g.next[c] = IF c = before THEN b ELSE IF c = b THEN after ELSE h.next[c],
         \A c \in Addr : g.prev[c] = IF c = after THEN b ELSE IF c = b THEN before ELSE h.prev[c]
  PROVE  Linked(g, F \cup {b})
<1> DEFINE G == F \cup {b}
<1>1. /\ \A c \in G : c \in Int /\ c # Null /\ c \in Addr
      /\ F \subseteq Addr /\ G \subseteq Addr
  <2>1. F \subseteq Addr
    BY DEF Linked
  <2> QED BY <2>1 DEF Null, Addr
<1>2. \A c \in F : IsNext(F, c, h.next[c]) /\ IsPrev(F, c, h.prev[c])
  BY DEF Linked
<1>3. ASSUME NEW a \in G PROVE IsNext(G, a, g.next[a])
  <2>1. CASE a = b
    <3>1. g.next[a] = after
      BY <1>1, <2>1 
    <3> QED BY <1>1, <2>1, <3>1 DEF IsNext
  <2>2. CASE a # b /\ a = before
    <3>1. g.next[a] = b
      BY <1>1, <2>2
    <3> QED BY <1>1, <2>2, <3>1 DEF IsNext, IsPrev
  <2>3. CASE a # b /\ a # before
    <3> DEFINE n == h.next[a]
    <3>1. g.next[a] = n /\ a \in F
      BY <1>1, <2>3
    <3>2. IsNext(F, a, n)
      BY <1>2, <3>1
    <3> HIDE DEF n
    <3>3. b <= a \/ (n # Null /\ n <= b)
      <4>1. CASE before = Null
        BY <1>1, <2>3, <3>1, <4>1 DEF IsPrev
      <4>2. CASE before # Null
        <5>1. before \in F /\ before < b /\ \A c \in F : c <= before \/ b <= c
          BY <4>2 DEF IsPrev
        <5>2. CASE n = Null
          <6>1. before <= a
            BY <3>2, <5>1, <5>2 DEF IsNext
          <6>2. before # a
            BY <2>3
          <6>3. a <= before \/ b <= a
            BY <3>1, <5>1
          <6> QED BY <1>1, <3>1, <5>1, <6>1, <6>2, <6>3
        <5>3. CASE n # Null
          <6>1. n \in F /\ a < n /\ (before <= a \/ n <= before)
            BY <3>2, <5>1, <5>3 DEF IsNext
          <6>2. before # a
            BY <2>3
          <6>3. a <= before \/ b <= a
            BY <3>1, <5>1
          <6> QED BY <1>1, <3>1, <5>1, <5>3, <6>1, <6>2, <6>3
        <5> QED BY <5>2, <5>3
      <4> QED BY <4>1, <4>2
    <3>4. CASE n = Null
      BY <1>1, <3>1, <3>2, <3>3, <3>4 DEF IsNext
    <3>5. CASE n # Null
      <4>1. n \in F /\ a < n /\ \A c \in F : c <= a \/ n <= c
        BY <3>2, <3>5 DEF IsNext
      <4>2. \A c \in G : c <= a \/ n <= c
        BY <3>3, <4>1
      <4> QED BY <3>1, <3>5, <4>1, <4>2 DEF IsNext
    <3> QED BY <3>4, <3>5
  <2> QED BY <2>1, <2>2, <2>3
<1>4. ASSUME NEW a \in G PROVE IsPrev(G, a, g.prev[a])
  <2>1. CASE a = b
    <3>1. g.prev[a] = before
      BY <1>1, <2>1
    <3> QED BY <1>1, <2>1, <3>1 DEF IsPrev
  <2>2. CASE a # b /\ a = after
    <3>1. g.prev[a] = b
      BY <1>1, <2>2
    <3> QED BY <1>1, <2>2, <3>1 DEF IsNext, IsPrev
  <2>3. CASE a # b /\ a # after
    <3> DEFINE n == h.prev[a]
    <3>1. g.prev[a] = n /\ a \in F
      BY <1>1, <2>3
    <3>2. IsPrev(F, a, n)
      BY <1>2, <3>1
    <3> HIDE DEF n
    <3>3. a <= b \/ (n # Null /\ b <= n)
      <4>1. CASE after = Null
        BY <1>1, <2>3, <3>1, <4>1 DEF IsNext
      <4>2. CASE after # Null
        <5>1. after \in F /\ b < after /\ \A c \in F : c <= b \/ after <= c
          BY <4>2 DEF IsNext
        <5>2. CASE n = Null
          <6>1. a <= after
            BY <3>2, <5>1, <5>2 DEF IsPrev
          <6>2. after # a
            BY <2>3
          <6>3. a <= b \/ after <= a
            BY <3>1, <5>1
          <6> QED BY <1>1, <3>1, <5>1, <6>1, <6>2, <6>3
        <5>3. CASE n # Null
          <6>1. n \in F /\ n < a /\ (after <= n \/ a <= after)
            BY <3>2, <5>1, <5>3 DEF IsPrev
          <6>2. after # a
            BY <2>3
          <6>3. a <= b \/ after <= a
            BY <3>1, <5>1
          <6> QED BY <1>1, <3>1, <5>1, <5>3, <6>1, <6>2, <6>3
        <5> QED BY <5>2, <5>3
      <4> QED BY <4>1, <4>2
    <3>4. CASE n = Null
      BY <1>1, <3>1, <3>2, <3>3, <3>4 DEF IsPrev
    <3>5. CASE n # Null
      <4>1. n \in F /\ n < a /\ \A c \in F : c <= n \/ a <= c
        BY <3>2, <3>5 DEF IsPrev
      <4>2. \A c \in G : c <= n \/ a <= c
        BY <3>3, <4>1
      <4> QED BY <3>1, <3>5, <4>1, <4>2 DEF IsPrev
    <3> QED BY <3>4, <3>5
  <2> QED BY <2>1, <2>2, <2>3
<1>5. ASSUME NEW a \in Addr \ G PROVE g.next[a] = Null /\ g.prev[a] = Null
  <2>1. a # b /\ a # before /\ a # after
    BY <1>1 DEF Null, Addr
  <2>2. h.next[a] = Null /\ h.prev[a] = Null
    BY DEF Linked
  <2> QED BY <2>1, <2>2
<1> QED BY <1>1, <1>3, <1>4, <1>5 DEF Linked

LEMMA RemoveList ==
  ASSUME NEW h \in HeapT, NEW F, Linked(h, F), NEW b \in F, NEW g \in HeapT,
         \A c \in Addr : g.next[c] = IF c = b THEN Null
                                     ELSE IF c = h.prev[b] THEN h.next[b] ELSE h.next[c],
         \A c \in Addr : g.prev[c] = IF c = b THEN Null
                                     ELSE IF c = h.next[b] THEN h.prev[b] ELSE h.prev[c]
  PROVE  Linked(g, F \ {b})
<1> DEFINE G == F \ {b}
           p == h.prev[b]
           n == h.next[b]
<1>1. /\ \A c \in F : c \in Int /\ c # Null /\ c \in Addr
      /\ F \subseteq Addr
  <2>1. F \subseteq Addr
    BY DEF Linked
  <2> QED BY <2>1 DEF Null, Addr
<1>2. \A c \in F : IsNext(F, c, h.next[c]) /\ IsPrev(F, c, h.prev[c])
  BY DEF Linked
<1>3. IsNext(F, b, n) /\ IsPrev(F, b, p)
  BY <1>2
<1>4. \A c \in Addr : /\ g.next[c] = IF c = b THEN Null ELSE IF c = p THEN n ELSE h.next[c]
                      /\ g.prev[c] = IF c = b THEN Null ELSE IF c = n THEN p ELSE h.prev[c]
  OBVIOUS
<1>5. \A a \in F : /\ h.next[a] = b => p = a
                   /\ h.prev[a] = b => n = a
  <2> SUFFICES ASSUME NEW a \in F
               PROVE  (h.next[a] = b => p = a) /\ (h.prev[a] = b => n = a)
    OBVIOUS
  <2>1. /\ h.next[a] # Null => h.prev[h.next[a]] = a
        /\ h.prev[a] # Null => h.next[h.prev[a]] = a
    BY BothWays
  <2>2. b # Null
    BY <1>1
  <2> QED BY <2>1, <2>2
<1> HIDE DEF p, n
<1>6. ASSUME NEW a \in G PROVE IsNext(G, a, g.next[a])
  <2>1. CASE a = p
    <3>1. g.next[a] = n
      BY <1>1, <1>4, <2>1
    <3> QED BY <1>1, <1>3, <2>1, <3>1 DEF IsNext, IsPrev
  <2>2. CASE a # p
    <3>1. g.next[a] = h.next[a] /\ h.next[a] # b
      BY <1>1, <1>4, <1>5, <2>2
    <3>2. IsNext(F, a, h.next[a])
      BY <1>2
    <3> QED BY <3>1, <3>2 DEF IsNext
  <2> QED BY <2>1, <2>2
<1>7. ASSUME NEW a \in G PROVE IsPrev(G, a, g.prev[a])
  <2>1. CASE a = n
    <3>1. g.prev[a] = p
      BY <1>1, <1>4, <2>1
    <3> QED BY <1>1, <1>3, <2>1, <3>1 DEF IsNext, IsPrev
  <2>2. CASE a # n
    <3>1. g.prev[a] = h.prev[a] /\ h.prev[a] # b
      BY <1>1, <1>4, <1>5, <2>2
    <3>2. IsPrev(F, a, h.prev[a])
      BY <1>2
    <3> QED BY <3>1, <3>2 DEF IsPrev
  <2> QED BY <2>1, <2>2
<1>8. ASSUME NEW a \in Addr \ G PROVE g.next[a] = Null /\ g.prev[a] = Null
  <2>1. CASE a = b
    BY <1>4, <2>1
  <2>2. CASE a # b
    <3>1. a \notin F /\ a # p /\ a # n
      <4>1. (p = Null \/ p \in F) /\ (n = Null \/ n \in F)
        BY <1>3 DEF IsNext, IsPrev
      <4> QED BY <2>2, <4>1 DEF Null, Addr
    <3>2. h.next[a] = Null /\ h.prev[a] = Null
      BY <3>1 DEF Linked
    <3> QED BY <1>4, <2>2, <3>1, <3>2
  <2> QED BY <2>1, <2>2
<1> QED BY <1>1, <1>6, <1>7, <1>8 DEF Linked

\* A list without b, as the heap that has only its links.
LEMMA RemovedExists ==
  ASSUME NEW h \in HeapT, NEW F, Linked(h, F), NEW b \in F
  PROVE  \E g \in HeapT :
           /\ \A c \in Addr : g.next[c] = IF c = b THEN Null
                                          ELSE IF c = h.prev[b] THEN h.next[b] ELSE h.next[c]
           /\ \A c \in Addr : g.prev[c] = IF c = b THEN Null
                                          ELSE IF c = h.next[b] THEN h.prev[b] ELSE h.prev[c]
<1> DEFINE p == h.prev[b]
           n == h.next[b]
           nx == [c \in Addr |-> IF c = b THEN Null ELSE IF c = p THEN n ELSE h.next[c]]
           pv == [c \in Addr |-> IF c = b THEN Null ELSE IF c = n THEN p ELSE h.prev[c]]
           g == [head |-> h.head, size |-> h.size, prev |-> pv, next |-> nx]
<1>1. b \in Addr
  BY DEF Linked
<1>2. /\ h.head \in Ptr /\ h.size \in [Addr -> Int]
      /\ h.prev \in [Addr -> Ptr] /\ h.next \in [Addr -> Ptr] /\ Null \in Ptr
  BY DEF HeapT, Ptr
<1>3. p \in Ptr /\ n \in Ptr
  BY <1>1, <1>2
<1>4. nx \in [Addr -> Ptr] /\ pv \in [Addr -> Ptr]
  <2> HIDE DEF p, n
  <2> QED BY <1>2, <1>3
<1>5. /\ \A c \in Addr : nx[c] = IF c = b THEN Null ELSE IF c = p THEN n ELSE h.next[c]
      /\ \A c \in Addr : pv[c] = IF c = b THEN Null ELSE IF c = n THEN p ELSE h.prev[c]
  OBVIOUS
<1> HIDE DEF nx, pv
<1>6. g \in HeapT /\ g.next = nx /\ g.prev = pv
  BY <1>2, <1>4 DEF HeapT
<1> HIDE DEF g
<1> QED BY <1>5, <1>6

LEMMA ReplaceList ==
  ASSUME NEW h \in HeapT, NEW F, Linked(h, F), NEW b \in F, NEW rest \in Addr, b < rest,
         \A c \in F : c <= b \/ rest < c, NEW g \in HeapT,
         \A c \in Addr : g.next[c] = IF c = b THEN Null ELSE IF c = rest THEN h.next[b]
                                     ELSE IF c = h.prev[b] THEN rest ELSE h.next[c],
         \A c \in Addr : g.prev[c] = IF c = b THEN Null ELSE IF c = h.next[b] THEN rest
                                     ELSE IF c = rest THEN h.prev[b] ELSE h.prev[c]
  PROVE  Linked(g, (F \ {b}) \cup {rest})
<1> DEFINE p == h.prev[b]
           n == h.next[b]
           G == F \ {b}
<1>1. PICK k \in HeapT :
        /\ \A c \in Addr : k.next[c] = IF c = b THEN Null ELSE IF c = p THEN n ELSE h.next[c]
        /\ \A c \in Addr : k.prev[c] = IF c = b THEN Null ELSE IF c = n THEN p ELSE h.prev[c]
  BY RemovedExists
<1>2. Linked(k, G)
  BY <1>1, RemoveList
<1>3. /\ \A c \in F : c \in Int /\ c # Null /\ c \in Addr
      /\ \A c \in Addr : c \in Int /\ c # Null
  <2>1. F \subseteq Addr
    BY DEF Linked
  <2> QED BY <2>1 DEF Null, Addr
<1>4. IsNext(F, b, n) /\ IsPrev(F, b, p)
  BY DEF Linked
<1>5. /\ \A c \in Addr : g.next[c] = IF c = b THEN Null ELSE IF c = rest THEN n
                                     ELSE IF c = p THEN rest ELSE h.next[c]
      /\ \A c \in Addr : g.prev[c] = IF c = b THEN Null ELSE IF c = n THEN rest
                                     ELSE IF c = rest THEN p ELSE h.prev[c]
  OBVIOUS
<1> HIDE DEF p, n
<1>6. rest \in Addr \ G
  BY <1>3
<1>7. p \in G \cup {Null} /\ n \in G \cup {Null}
  BY <1>3, <1>4 DEF IsNext, IsPrev
<1>8. IsPrev(G, rest, p)
  BY <1>3, <1>4 DEF IsPrev
<1>9. IsNext(G, rest, n)
  BY <1>3, <1>4 DEF IsNext
<1>10. p # n \/ p = Null
  BY <1>3, <1>4 DEF IsNext, IsPrev
<1>11. /\ \A c \in Addr : g.next[c] = IF c = p THEN rest ELSE IF c = rest THEN n ELSE k.next[c]
       /\ \A c \in Addr : g.prev[c] = IF c = n THEN rest ELSE IF c = rest THEN p ELSE k.prev[c]
  <2>1. p # b /\ n # b /\ rest # b /\ rest # p /\ rest # n
    BY <1>3, <1>6, <1>7
  <2> QED BY <1>1, <1>5, <2>1
<1> HIDE DEF G
<1>12. Linked(g, G \cup {rest})
  BY <1>2, <1>6, <1>7, <1>8, <1>9, <1>11, InsertList
<1> QED BY <1>12 DEF G

-------------------------------------------------------------------------------
\* Taking a block out of the list and splitting it.

\* the blocks F lie in the heap, each with at least one word between it and the next
Apart(h, F) ==
  /\ \A a \in F : MinSize <= h.size[a] /\ a + h.size[a] <= HeapSize
  /\ \A a, c \in F : a < c => a + h.size[a] < c

\* the words of the blocks F
Covered(h, F) == {w \in Addr : \E a \in F : a <= w /\ w < a + h.size[a]}

\* g is h without the block b in its list
WithoutBlock(h, b, g) ==
  /\ g \in HeapT /\ g.size = h.size
  /\ g.head = IF h.head = b THEN h.next[b] ELSE h.head
  /\ \A c \in Addr : g.next[c] = IF c = b THEN Null
                                 ELSE IF c = h.prev[b] THEN h.next[b] ELSE h.next[c]
  /\ \A c \in Addr : g.prev[c] = IF c = b THEN Null
                                 ELSE IF c = h.next[b] THEN h.prev[b] ELSE h.prev[c]

LEMMA UnlinkFacts ==
  ASSUME NEW h \in HeapT, NEW F, Linked(h, F), HeadOf(h, F), NEW b \in F
  PROVE  /\ WithoutBlock(h, b, Unlink(h, b))
         /\ Linked(Unlink(h, b), F \ {b})
         /\ HeadOf(Unlink(h, b), F \ {b})
<1> DEFINE p == h.prev[b]
           n == h.next[b]
           k == Link(h, p, n)
           top == IF k.head = b THEN n ELSE k.head
           m == [k EXCEPT !.head = top]
           u == Drop(m, b)
<1>1. /\ \A c \in F : c \in Int /\ c # Null /\ c \in Addr
      /\ p \in Ptr /\ n \in Ptr /\ h.head \in Ptr
  BY LinkedTypes DEF HeapT, Null, Ptr
<1>2. IsNext(F, b, n) /\ IsPrev(F, b, p)
  BY DEF Linked
<1>3. Unlink(h, b) = u
  BY DEF Unlink
<1> HIDE DEF p, n
<1>4. /\ k \in HeapT /\ k.head = h.head /\ k.size = h.size
      /\ \A c \in Addr : k.next[c] = IF c = p THEN n ELSE h.next[c]
      /\ \A c \in Addr : k.prev[c] = IF c = n THEN p ELSE h.prev[c]
  <2>1. IsLink(h, p, n, k)
    BY <1>1, LinkFacts
  <2> QED BY <2>1 DEF IsLink
<1> HIDE DEF k
<1>5. top \in Ptr
  BY <1>1, <1>4
<1> HIDE DEF top
<1>6. m \in HeapT /\ m.head = top /\ m.size = k.size /\ m.next = k.next /\ m.prev = k.prev
  BY <1>4, <1>5, HeadFacts
<1> HIDE DEF m
<1>7. /\ u \in HeapT /\ u.head = top /\ u.size = h.size
      /\ \A c \in Addr : u.next[c] = IF c = b THEN Null ELSE IF c = p THEN n ELSE h.next[c]
      /\ \A c \in Addr : u.prev[c] = IF c = b THEN Null ELSE IF c = n THEN p ELSE h.prev[c]
  <2>1. /\ u \in HeapT /\ u.head = m.head /\ u.size = m.size
        /\ \A c \in Addr : u.next[c] = IF c = b THEN Null ELSE m.next[c]
        /\ \A c \in Addr : u.prev[c] = IF c = b THEN Null ELSE m.prev[c]
    BY <1>1, <1>6, DropFacts
  <2> HIDE DEF u
  <2> QED BY <1>4, <1>6, <2>1
<1> HIDE DEF u
<1>8. Linked(u, F \ {b})
  BY <1>7, RemoveList DEF p, n
<1>9. HeadOf(u, F \ {b})
  <2>1. CASE h.head = b
    <3>1. u.head = n /\ \A c \in F : b <= c
      BY <1>1, <1>4, <1>7, <2>1 DEF HeadOf, top
    <3> QED BY <1>1, <1>2, <3>1 DEF HeadOf, IsNext
  <2>2. CASE h.head # b
    <3>1. u.head = h.head
      BY <1>4, <1>7, <2>2 DEF top
    <3> QED BY <2>2, <3>1 DEF HeadOf
  <2> QED BY <2>1, <2>2
<1>10. u.head = IF h.head = b THEN n ELSE h.head
  BY <1>4, <1>7 DEF top
<1> HIDE DEF top
<1>11. WithoutBlock(h, b, u)
  BY <1>7, <1>10 DEF WithoutBlock, p, n
<1> QED BY <1>3, <1>8, <1>9, <1>11

\* What Split leaves of a list: either b is out of it, or the rest is in its place.
SplitRest(h, b, n) ==
  LET rest == b + n
      r == [h EXCEPT !.size[rest] = h.size[b] - n, !.size[b] = n,
                     !.head = IF @ = b THEN rest ELSE @]
  IN  Drop(Link(Link(r, h.prev[b], rest), rest, h.next[b]), b)

\* g is h with the first n words of b taken out of its list
WithRest(h, b, n, g) ==
  /\ g \in HeapT
  /\ g.head = IF h.head = b THEN b + n ELSE h.head
  /\ \A c \in Addr : g.size[c] = IF c = b THEN n ELSE IF c = b + n THEN h.size[b] - n
                                 ELSE h.size[c]
  /\ \A c \in Addr : g.next[c] = IF c = b THEN Null ELSE IF c = b + n THEN h.next[b]
                                 ELSE IF c = h.prev[b] THEN b + n ELSE h.next[c]
  /\ \A c \in Addr : g.prev[c] = IF c = b THEN Null ELSE IF c = h.next[b] THEN b + n
                                 ELSE IF c = b + n THEN h.prev[b] ELSE h.prev[c]

LEMMA SplitRestFacts ==
  ASSUME NEW h \in HeapT, NEW F, Linked(h, F), HeadOf(h, F), Apart(h, F),
         NEW b \in F, NEW n \in Int, MinSize <= n, MinSize < h.size[b] - n
  PROVE  /\ b + n \in Addr /\ b < b + n /\ b + n \notin F
         /\ WithRest(h, b, n, SplitRest(h, b, n))
         /\ Linked(SplitRest(h, b, n), (F \ {b}) \cup {b + n})
         /\ HeadOf(SplitRest(h, b, n), (F \ {b}) \cup {b + n})
<1> DEFINE p == h.prev[b]
           q == h.next[b]
           rest == b + n
           z == h.size[b]
           top == IF h.head = b THEN rest ELSE h.head
           r == [h EXCEPT !.size[rest] = z - n, !.size[b] = n, !.head = IF @ = b THEN rest ELSE @]
           k == Link(r, p, rest)
           l == Link(k, rest, q)
           d == Drop(l, b)
<1>1. /\ \A c \in F : c \in Int /\ c # Null /\ c \in Addr
      /\ p \in Ptr /\ q \in Ptr /\ h.head \in Ptr /\ z \in Int
      /\ b \in Int /\ b >= 0 /\ b \in Addr
  BY LinkedTypes DEF HeapT, Null, Ptr
<1>2. IsNext(F, b, q) /\ IsPrev(F, b, p)
  BY DEF Linked
<1>3. SplitRest(h, b, n) = d
  BY DEF SplitRest
<1>4. /\ z <= HeapSize - b /\ MinSize = 4 /\ HeapSize \in Nat
      /\ \A c \in F : b < c => b + z < c
  <2>1. b + z <= HeapSize /\ \A c \in F : b < c => b + z < c
    BY DEF Apart
  <2> HIDE DEF z
  <2> QED BY <1>1, <2>1, HeapSizeAssumption DEF MinSize
<1>5. rest \in Int /\ b < rest /\ rest < b + z /\ rest < HeapSize /\ 0 <= rest
  <2>1. n \in Int /\ 4 <= n /\ 4 < z - n
    BY <1>4
  <2> HIDE DEF z
  <2> QED BY <1>1, <1>4, <2>1
<1>6. rest \in Addr /\ rest # Null /\ rest # b
  BY <1>1, <1>4, <1>5 DEF Addr, Null
<1>7. \A c \in F : c <= b \/ rest < c
  <2> SUFFICES ASSUME NEW c \in F, ~(c <= b) PROVE rest < c
    OBVIOUS
  <2>1. c \in Int /\ b < c
    BY <1>1
  <2>2. b + z < c
    BY <1>4, <2>1
  <2> QED BY <1>1, <1>5, <2>1, <2>2
<1>8. rest \notin F
  BY <1>1, <1>5, <1>7
<1> HIDE DEF p, q, rest, z
<1>9. /\ r \in HeapT /\ r.head = top /\ r.next = h.next /\ r.prev = h.prev
      /\ \A c \in Addr : r.size[c] = IF c = b THEN n ELSE IF c = rest THEN z - n ELSE h.size[c]
  <2>1. top \in Ptr
    BY <1>1, <1>6 DEF Ptr
  <2>2. r.head = top
    BY DEF HeapT
  <2>3. /\ r.next = h.next /\ r.prev = h.prev
        /\ \A c \in Addr : r.size[c] = IF c = b THEN n ELSE IF c = rest THEN z - n ELSE h.size[c]
    BY <1>1, <1>6 DEF HeapT
  <2>4. r \in HeapT
    <3> DEFINE r0 == [h EXCEPT !.size[rest] = z - n]
               r1 == [r0 EXCEPT !.size[b] = n]
    <3>1. z - n \in Int
      BY <1>1
    <3>2. r0 \in HeapT /\ r0.head = h.head
      BY <1>6, <3>1, SizeFacts
    <3>3. r = [r1 EXCEPT !.head = top]
      BY <3>2 DEF HeapT
    <3> HIDE DEF r0
    <3>4. r1 \in HeapT
      BY <1>1, <3>2, SizeFacts
    <3> HIDE DEF r1, top, r
    <3>5. [r1 EXCEPT !.head = top] \in HeapT
      BY <2>1, <3>4, HeadFacts
    <3> QED BY <3>3, <3>5
  <2> QED BY <2>2, <2>3, <2>4
<1> HIDE DEF r
<1>10. /\ k \in HeapT /\ k.head = r.head /\ k.size = r.size
       /\ \A c \in Addr : k.next[c] = IF c = p THEN rest ELSE r.next[c]
       /\ \A c \in Addr : k.prev[c] = IF c = rest THEN p ELSE r.prev[c]
  <2>1. rest \in Ptr
    BY <1>6 DEF Ptr
  <2>2. IsLink(r, p, rest, k)
    BY <1>1, <1>9, <2>1, LinkFacts
  <2> HIDE DEF k
  <2> QED BY <2>2 DEF IsLink
<1> HIDE DEF k
<1>11. /\ l \in HeapT /\ l.head = r.head /\ l.size = r.size
       /\ \A c \in Addr : l.next[c] = IF c = rest THEN q ELSE k.next[c]
       /\ \A c \in Addr : l.prev[c] = IF c = q THEN rest ELSE k.prev[c]
  <2>1. rest \in Ptr
    BY <1>6 DEF Ptr
  <2>2. IsLink(k, rest, q, l)
    BY <1>1, <1>10, <2>1, LinkFacts
  <2> HIDE DEF l
  <2>3. /\ l \in HeapT /\ l.head = k.head /\ l.size = k.size
        /\ \A c \in Addr : l.next[c] = IF c = rest THEN q ELSE k.next[c]
        /\ \A c \in Addr : l.prev[c] = IF c = q THEN rest ELSE k.prev[c]
    BY <2>2 DEF IsLink
  <2> QED BY <1>10, <2>3
<1> HIDE DEF l
<1>12. /\ d \in HeapT /\ d.head = l.head /\ d.size = l.size
       /\ \A c \in Addr : d.next[c] = IF c = b THEN Null ELSE l.next[c]
       /\ \A c \in Addr : d.prev[c] = IF c = b THEN Null ELSE l.prev[c]
  BY <1>1, <1>11, DropFacts
<1> HIDE DEF d
<1>13. /\ \A c \in Addr : d.next[c] = IF c = b THEN Null ELSE IF c = rest THEN q
                                      ELSE IF c = p THEN rest ELSE h.next[c]
       /\ \A c \in Addr : d.prev[c] = IF c = b THEN Null ELSE IF c = q THEN rest
                                      ELSE IF c = rest THEN p ELSE h.prev[c]
  BY <1>9, <1>10, <1>11, <1>12
<1>14. Linked(d, (F \ {b}) \cup {rest})
  BY <1>5, <1>6, <1>7, <1>12, <1>13, ReplaceList DEF p, q
<1>15. d.head = top
  BY <1>9, <1>11, <1>12
<1>16. HeadOf(d, (F \ {b}) \cup {rest})
  <2>1. CASE h.head = b
    <3>1. d.head = rest /\ \A c \in F : b <= c
      BY <1>1, <1>15, <2>1 DEF HeadOf
    <3> QED BY <1>1, <1>5, <1>6, <1>7, <3>1 DEF HeadOf
  <2>2. CASE h.head # b
    <3>1. d.head = h.head
      BY <1>15, <2>2
    <3>2. h.head # Null /\ h.head \in F /\ \A c \in F : h.head <= c
      BY DEF HeadOf
    <3>3. h.head <= rest
      <4>1. h.head <= b /\ h.head \in Int
        BY <1>1, <3>2
      <4> QED BY <1>1, <1>5, <4>1
    <3> QED BY <2>2, <3>1, <3>2, <3>3 DEF HeadOf
  <2> QED BY <2>1, <2>2
<1>17. \A c \in Addr : d.size[c] = IF c = b THEN n ELSE IF c = rest THEN z - n ELSE h.size[c]
  BY <1>9, <1>11, <1>12
<1> HIDE DEF top
<1>18. top = IF h.head = b THEN rest ELSE h.head
  BY DEF top
<1>19. WithRest(h, b, n, d)
  BY <1>12, <1>13, <1>15, <1>17, <1>18 DEF WithRest, p, q, rest, z
<1> QED BY <1>3, <1>5, <1>6, <1>8, <1>14, <1>16, <1>19 DEF rest

\* k is h with the block b of F taken out of the list, n words of it or more; F1 are
\* the blocks left, and the links of b tell where it was.
SplitOff(h, F, b, n, k, F1) ==
  LET got == k.size[b]
      nxt == NextAfterSplit(k, h.prev[b], h.next[b])
  IN  /\ k \in HeapT /\ Linked(k, F1) /\ HeadOf(k, F1) /\ Apart(k, F1)
      /\ b \in Addr /\ b \notin F1
      /\ got \in Int /\ n <= got /\ got <= h.size[b]
      /\ \A c \in Addr : c < b \/ b + h.size[b] <= c => k.size[c] = h.size[c]
      /\ Covered(k, F1) = {w \in Covered(h, F) : w < b \/ b + got <= w}
      /\ \A c \in F1 : (c < b /\ c + k.size[c] < b) \/ b + got <= c
      /\ h.prev[b] \in F1 \cup {Null} /\ IsPrev(F1, b, h.prev[b])
      /\ nxt \in F1 \cup {Null} /\ IsNext(F1, b, nxt)

\* The integers that the next two proofs compare.
LEMMA ApartTypes ==
  ASSUME NEW h \in HeapT, NEW F, Linked(h, F), Apart(h, F)
  PROVE  /\ HeapSize \in Nat /\ MinSize = 4
         /\ \A c \in Addr : c \in Int /\ 0 <= c /\ c < HeapSize /\ c # Null /\ h.size[c] \in Int
         /\ \A c \in F : c \in Addr /\ 4 <= h.size[c] /\ c + h.size[c] <= HeapSize
         /\ \A a, c \in F : a < c => a + h.size[a] < c
BY HeapSizeAssumption DEF Apart, Linked, MinSize, HeapT, Addr, Null

LEMMA SplitWhole ==
  ASSUME NEW h \in HeapT, NEW F, Linked(h, F), HeadOf(h, F), Apart(h, F),
         NEW b \in F, NEW n \in Int, n <= h.size[b]
  PROVE  SplitOff(h, F, b, n, Unlink(h, b), F \ {b})
<1> DEFINE p == h.prev[b]
           q == h.next[b]
           u == Unlink(h, b)
           G == F \ {b}
           nxt == NextAfterSplit(u, p, q)
           z == h.size[b]
<1>1. /\ HeapSize \in Nat /\ MinSize = 4
      /\ \A c \in Addr : c \in Int /\ 0 <= c /\ c < HeapSize /\ c # Null /\ h.size[c] \in Int
      /\ \A c \in F : c \in Addr /\ 4 <= h.size[c] /\ c + h.size[c] <= HeapSize
      /\ \A a, c \in F : a < c => a + h.size[a] < c
  BY ApartTypes
<1>2. IsNext(F, b, q) /\ IsPrev(F, b, p)
  BY DEF Linked
<1>3. /\ u \in HeapT /\ Linked(u, G) /\ HeadOf(u, G) /\ u.size = h.size
      /\ \A c \in Addr : u.next[c] = IF c = b THEN Null ELSE IF c = p THEN q ELSE h.next[c]
      /\ \A c \in Addr : u.prev[c] = IF c = b THEN Null ELSE IF c = q THEN p ELSE h.prev[c]
  <2>1. WithoutBlock(h, b, u) /\ Linked(u, G) /\ HeadOf(u, G)
    BY UnlinkFacts
  <2> HIDE DEF u, G, nxt
  <2> QED BY <2>1 DEF WithoutBlock
<1>4. p # Null => p \in F /\ p < b
  BY <1>2 DEF IsPrev
<1>5. q # Null => q \in F /\ b < q
  BY <1>2 DEF IsNext
<1>6. u.head = IF h.head = b THEN q ELSE h.head
  <2>1. WithoutBlock(h, b, u)
    BY UnlinkFacts
  <2> HIDE DEF u
  <2> QED BY <2>1 DEF WithoutBlock
<1> HIDE DEF p, q, u, z
<1>7. nxt = q
  <2>1. CASE q # Null
    <3>1. q # b /\ q \in Addr /\ u.prev[q] = p
      BY <1>1, <1>3, <1>5, <2>1
    <3> QED BY <2>1, <3>1 DEF NextAfterSplit
  <2>2. CASE q = Null /\ p # Null
    <3>1. p # b /\ p \in Addr /\ u.next[p] = q
      BY <1>1, <1>3, <1>4, <2>2
    <3> QED BY <2>2, <3>1 DEF NextAfterSplit
  <2>3. CASE q = Null /\ p = Null
    <3>1. \A c \in F : b <= c /\ c <= b
      BY <1>2, <2>3 DEF IsNext, IsPrev
    <3>2. h.head = b
      BY <1>1, <3>1 DEF HeadOf
    <3>3. u.head = q
      BY <1>6, <3>2
    <3> QED BY <2>3, <3>3 DEF NextAfterSplit
  <2> QED BY <2>1, <2>2, <2>3
<1> HIDE DEF nxt
<1>8. Apart(u, G)
  BY <1>1, <1>3 DEF Apart
<1>9. IsPrev(G, b, p) /\ IsNext(G, b, q) /\ p \in G \cup {Null} /\ q \in G \cup {Null}
  BY <1>1, <1>2, <1>4, <1>5 DEF IsPrev, IsNext
<1>10. u.size[b] = z /\ z \in Int /\ n <= z
  BY <1>1, <1>3 DEF z
<1>11. \A c \in G : (c < b /\ c + u.size[c] < b) \/ b + z <= c
  <2> SUFFICES ASSUME NEW c \in G PROVE (c < b /\ c + u.size[c] < b) \/ b + z <= c
    OBVIOUS
  <2>1. c \in F /\ c # b /\ c \in Int /\ b \in Int /\ u.size[c] = h.size[c]
    BY <1>1, <1>3
  <2>2. CASE c < b
    BY <1>1, <2>1, <2>2
  <2>3. CASE b < c
    <3>1. b + z < c
      BY <1>1, <2>1, <2>3 DEF z
    <3> QED BY <2>1, <3>1, <1>10
  <2> QED BY <2>1, <2>2, <2>3
<1>12. Covered(u, G) = {w \in Covered(h, F) : w < b \/ b + z <= w}
  <2>1. ASSUME NEW w \in Addr
        PROVE  (\E a \in G : a <= w /\ w < a + u.size[a])
                 <=> (\E a \in F : a <= w /\ w < a + h.size[a]) /\ (w < b \/ b + z <= w)
    <3>0. w \in Int /\ b \in Int /\ b \in Addr
      BY <1>1
    <3>1. ASSUME NEW a \in G, a <= w, w < a + u.size[a]
          PROVE  w < b \/ b + z <= w
      <4>1. a \in Int /\ u.size[a] \in Int
        BY <1>1, <1>3
      <4>2. CASE a < b /\ a + u.size[a] < b
        BY <3>0, <3>1, <4>1, <4>2
      <4>3. CASE b + z <= a
        BY <1>10, <3>0, <3>1, <4>1, <4>3
      <4> QED BY <1>11, <4>2, <4>3
    <3>2. ASSUME NEW a \in F, a <= w, w < a + h.size[a], w < b \/ b + z <= w
          PROVE  a \in G
      <4>1. a # b
        <5> SUFFICES ASSUME a = b PROVE FALSE
          OBVIOUS
        <5>1. b <= w /\ w < b + z
          BY <3>2 DEF z
        <5> QED BY <1>10, <3>0, <3>2, <5>1
      <4> QED BY <4>1
    <3>3. \A a \in G : a \in F /\ u.size[a] = h.size[a]
      BY <1>3
    <3>4. (\E a \in G : a <= w /\ w < a + u.size[a])
            => (\E a \in F : a <= w /\ w < a + h.size[a]) /\ (w < b \/ b + z <= w)
      BY <3>1, <3>3
    <3>5. (\E a \in F : a <= w /\ w < a + h.size[a]) /\ (w < b \/ b + z <= w)
            => \E a \in G : a <= w /\ w < a + u.size[a]
      BY <3>2, <3>3
    <3> QED BY <3>4, <3>5
  <2> HIDE DEF G
  <2> QED BY <2>1 DEF Covered
<1>13. \A c \in Addr : u.size[c] = h.size[c]
  BY <1>3
<1> HIDE DEF G
<1>14. SplitOff(h, F, b, n, u, G)
  <2>1. b \in Addr /\ b \notin G
    BY <1>1 DEF G
  <2>2. nxt = NextAfterSplit(u, h.prev[b], h.next[b])
    BY DEF nxt, p, q
  <2>3. p = h.prev[b] /\ z = h.size[b]
    BY DEF p, z
  <2>4. z <= z
    BY <1>10
  <2> QED BY <1>3, <1>7, <1>8, <1>9, <1>10, <1>11, <1>12, <1>13, <2>1, <2>2, <2>3, <2>4 DEF SplitOff
<1> QED BY <1>14 DEF u, G

LEMMA SplitPart ==
  ASSUME NEW h \in HeapT, NEW F, Linked(h, F), HeadOf(h, F), Apart(h, F),
         NEW b \in F, NEW n \in Int, MinSize <= n, MinSize < h.size[b] - n
  PROVE  SplitOff(h, F, b, n, SplitRest(h, b, n), (F \ {b}) \cup {b + n})
<1> DEFINE p == h.prev[b]
           q == h.next[b]
           rest == b + n
           u == SplitRest(h, b, n)
           G == (F \ {b}) \cup {rest}
           nxt == NextAfterSplit(u, p, q)
           z == h.size[b]
<1>1. /\ HeapSize \in Nat /\ MinSize = 4
      /\ \A c \in Addr : c \in Int /\ 0 <= c /\ c < HeapSize /\ c # Null /\ h.size[c] \in Int
      /\ \A c \in F : c \in Addr /\ 4 <= h.size[c] /\ c + h.size[c] <= HeapSize
      /\ \A a, c \in F : a < c => a + h.size[a] < c
  BY ApartTypes
<1>2. IsNext(F, b, q) /\ IsPrev(F, b, p)
  BY DEF Linked
<1>a. /\ rest \in Addr /\ b < rest /\ rest \notin F
      /\ WithRest(h, b, n, u) /\ Linked(u, G) /\ HeadOf(u, G)
  BY SplitRestFacts
<1>b. rest = b + n
  OBVIOUS
<1> HIDE DEF p, q, u, G, nxt, z, rest
<1>3. /\ u \in HeapT /\ u.head = IF h.head = b THEN rest ELSE h.head
      /\ \A c \in Addr : u.size[c] = IF c = b THEN n ELSE IF c = rest THEN z - n ELSE h.size[c]
      /\ \A c \in Addr : u.next[c] = IF c = b THEN Null ELSE IF c = rest THEN q
                                     ELSE IF c = p THEN rest ELSE h.next[c]
      /\ \A c \in Addr : u.prev[c] = IF c = b THEN Null ELSE IF c = q THEN rest
                                     ELSE IF c = rest THEN p ELSE h.prev[c]
  BY <1>a DEF WithRest, p, q, z, rest
<1>4. p # Null => p \in F /\ p < b
  BY <1>2 DEF IsPrev
<1>5. q # Null => q \in F /\ b < q
  BY <1>2 DEF IsNext
<1>6. /\ b \in Addr /\ b \in Int /\ z \in Int /\ rest \in Int /\ rest \in Addr
      /\ b < rest /\ rest = b + n /\ 4 < z - n /\ 4 <= n /\ b + z <= HeapSize
      /\ rest # b /\ rest # p /\ rest # q
  BY <1>1, <1>4, <1>5, <1>a, <1>b DEF z
<1>7. nxt = rest
  <2>1. CASE q # Null
    <3>1. q # b /\ q \in Addr /\ u.prev[q] = rest
      BY <1>1, <1>3, <1>5, <2>1
    <3> QED BY <1>6, <2>1, <3>1 DEF NextAfterSplit, nxt
  <2>2. CASE q = Null /\ p # Null
    <3>a. p \in F /\ p < b /\ p # rest
      BY <1>4, <1>6, <2>2
    <3>b. p \in Addr /\ p \in Int
      BY <1>1, <3>a
    <3>0. p # b /\ p \in Addr /\ p # rest
      BY <1>6, <3>a, <3>b
    <3>1. u.next[p] = rest
      BY <1>3, <3>0
    <3> QED BY <2>2, <3>1 DEF NextAfterSplit, nxt
  <2>3. CASE q = Null /\ p = Null
    <3>1. \A c \in F : b <= c /\ c <= b
      BY <1>2, <2>3 DEF IsNext, IsPrev
    <3>2. h.head = b
      BY <1>1, <3>1 DEF HeadOf
    <3>3. u.head = rest
      BY <1>3, <3>2
    <3> QED BY <2>3, <3>3 DEF NextAfterSplit, nxt
  <2> QED BY <2>1, <2>2, <2>3
<1>8. /\ u.size[b] = n /\ u.size[rest] = z - n
      /\ \A c \in F \ {b} : u.size[c] = h.size[c] /\ c \in Addr /\ c \in Int
  <2>1. u.size[b] = n /\ u.size[rest] = z - n
    BY <1>3, <1>6
  <2>2. ASSUME NEW c \in F \ {b} PROVE u.size[c] = h.size[c] /\ c \in Addr /\ c \in Int
    <3>1. c \in Addr /\ c \in Int /\ c # b /\ c # rest
      BY <1>1, <1>a
    <3> QED BY <1>3, <3>1
  <2> QED BY <2>1, <2>2
<1>9. \A c \in F \ {b} : (c < b /\ c + h.size[c] < b) \/ (b < c /\ b + z < c)
  <2> SUFFICES ASSUME NEW c \in F \ {b}
               PROVE  (c < b /\ c + h.size[c] < b) \/ (b < c /\ b + z < c)
    OBVIOUS
  <2>1. c < b => c + h.size[c] < b
    BY <1>1
  <2>2. b < c => b + z < c
    BY <1>1 DEF z
  <2>3. c < b \/ b < c
    BY <1>6, <1>8
  <2> QED BY <2>1, <2>2, <2>3
<1>10. Apart(u, G)
  <2>1. ASSUME NEW a \in G PROVE MinSize <= u.size[a] /\ a + u.size[a] <= HeapSize
    <3>1. CASE a = rest
      <4>1. rest + (z - n) = b + z
        BY <1>6
      <4> QED BY <1>1, <1>6, <1>8, <3>1, <4>1
    <3>2. CASE a # rest
      BY <1>1, <1>8, <3>2 DEF G
    <3> QED BY <3>1, <3>2
  <2>2. ASSUME NEW a \in G, NEW c \in G, a < c PROVE a + u.size[a] < c
    <3>1. CASE a = rest
      <4>1. c \in F \ {b} /\ c \in Int
        BY <1>6, <1>8, <2>2, <3>1 DEF G
      <4>2. b + z < c
        <5>1. ~(c < b)
          BY <1>6, <2>2, <3>1, <4>1
        <5> QED BY <1>9, <4>1, <5>1
      <4> QED BY <1>6, <1>8, <3>1, <4>1, <4>2
    <3>2. CASE a # rest /\ c # rest
      <4>1. a \in F \ {b} /\ c \in F \ {b}
        BY <3>2 DEF G
      <4>2. u.size[a] = h.size[a]
        BY <1>8, <4>1
      <4> QED BY <1>1, <2>2, <4>1, <4>2
    <3>3. CASE a # rest /\ c = rest
      <4>1. a \in F \ {b} /\ a \in Int /\ a < rest /\ h.size[a] \in Int
        BY <1>1, <1>8, <2>2, <3>3 DEF G
      <4>2. a + h.size[a] < b
        <5>1. ~(b + z < a)
          BY <1>6, <4>1
        <5> QED BY <1>9, <4>1, <5>1
      <4> QED BY <1>6, <1>8, <3>3, <4>1, <4>2
    <3> QED BY <3>1, <3>2, <3>3
  <2> QED BY <2>1, <2>2 DEF Apart
<1>11. IsPrev(G, b, p) /\ p \in G \cup {Null}
  <2>1. p # Null => p \in F \ {b}
    BY <1>1, <1>4
  <2>2. \A c \in G : c \in F \ {b} \/ b <= c
    BY <1>6 DEF G
  <2>3. p # Null => p \in G /\ p < b
    BY <1>4, <2>1 DEF G
  <2>4. p \in G \cup {Null}
    BY <2>3
  <2>5. CASE p = Null
    <3>1. \A c \in G : b <= c
      BY <1>2, <2>2, <2>5 DEF IsPrev
    <3> QED BY <2>4, <2>5, <3>1 DEF IsPrev
  <2>6. CASE p # Null
    <3>1. \A c \in G : c <= p \/ b <= c
      BY <1>2, <2>2, <2>6 DEF IsPrev
    <3> QED BY <2>3, <2>6, <3>1 DEF IsPrev
  <2> QED BY <2>4, <2>5, <2>6
<1>12. IsNext(G, b, rest) /\ rest \in G \cup {Null}
  <2>1. rest # Null
    BY <1>1, <1>6
  <2>2. ASSUME NEW c \in G PROVE c <= b \/ rest <= c
    <3>1. CASE c = rest
      BY <1>6, <3>1
    <3>2. CASE c # rest
      <4>1. c \in F \ {b} /\ c \in Int
        BY <1>8, <3>2 DEF G
      <4>2. CASE c < b
        BY <4>2, <1>6, <4>1
      <4>3. CASE b + z < c
        BY <4>3, <1>6, <4>1
      <4> QED BY <1>9, <4>1, <4>2, <4>3
    <3> QED BY <3>1, <3>2
  <2> QED BY <1>6, <2>1, <2>2 DEF IsNext, G
<1>13. \A c \in G : (c < b /\ c + u.size[c] < b) \/ b + n <= c
  <2> SUFFICES ASSUME NEW c \in G PROVE (c < b /\ c + u.size[c] < b) \/ b + n <= c
    OBVIOUS
  <2>1. CASE c = rest
    BY <1>6, <2>1
  <2>2. CASE c # rest
    <3>1. c \in F \ {b} /\ c \in Int /\ u.size[c] = h.size[c]
      BY <1>8, <2>2 DEF G
    <3>2. CASE c < b /\ c + h.size[c] < b
      BY <3>1, <3>2
    <3>3. CASE b + z < c
      BY <1>6, <3>1, <3>3
    <3> QED BY <1>9, <3>1, <3>2, <3>3
  <2> QED BY <2>1, <2>2
<1>14. Covered(u, G) = {w \in Covered(h, F) : w < b \/ b + n <= w}
  <2>1. ASSUME NEW w \in Addr
        PROVE  (\E a \in G : a <= w /\ w < a + u.size[a])
                 <=> (\E a \in F : a <= w /\ w < a + h.size[a]) /\ (w < b \/ b + n <= w)
    <3>0. w \in Int /\ b \in Int /\ b \in Addr
      BY <1>1, <1>6
    <3>1. ASSUME NEW a \in G, a <= w, w < a + u.size[a]
          PROVE  (\E e \in F : e <= w /\ w < e + h.size[e]) /\ (w < b \/ b + n <= w)
      <4>1. CASE a = rest
        <5>1. b <= w /\ w < b + z /\ b + n <= w
          BY <1>6, <1>8, <3>0, <3>1, <4>1
        <5> QED BY <5>1 DEF z
      <4>2. CASE a # rest
        <5>1. a \in F \ {b} /\ a \in Int /\ u.size[a] = h.size[a] /\ h.size[a] \in Int
          BY <1>1, <1>8, <4>2 DEF G
        <5>2. w < b \/ b + n <= w
          <6>1. CASE a + h.size[a] < b
            BY <1>6, <3>0, <3>1, <5>1, <6>1
          <6>2. CASE b + z < a
            BY <1>6, <3>0, <3>1, <5>1, <6>2
          <6> QED BY <1>9, <5>1, <6>1, <6>2
        <5> QED BY <3>1, <5>1, <5>2
      <4> QED BY <4>1, <4>2
    <3>2. ASSUME NEW a \in F, a <= w, w < a + h.size[a], w < b \/ b + n <= w
          PROVE  \E e \in G : e <= w /\ w < e + u.size[e]
      <4>1. CASE a = b
        <5>1. rest <= w /\ w < rest + (z - n)
          <6>1. b <= w /\ w < b + z
            BY <3>2, <4>1 DEF z
          <6> QED BY <1>6, <3>0, <3>2, <6>1
        <5> QED BY <1>8, <5>1 DEF G
      <4>2. CASE a # b
        <5>1. a \in G /\ u.size[a] = h.size[a]
          BY <1>8, <4>2 DEF G
        <5> QED BY <3>2, <5>1
      <4> QED BY <4>1, <4>2
    <3> QED BY <3>1, <3>2
  <2> QED BY <2>1 DEF Covered
<1>15. \A c \in Addr : c < b \/ b + z <= c => u.size[c] = h.size[c]
  <2> SUFFICES ASSUME NEW c \in Addr, c < b \/ b + z <= c PROVE c # b /\ c # rest
    BY <1>3
  <2>1. c \in Int
    BY <1>1
  <2> QED BY <1>6, <2>1
<1>16. SplitOff(h, F, b, n, u, G)
  <2>1. b \in Addr /\ b \notin G
    BY <1>6 DEF G
  <2>2. nxt = NextAfterSplit(u, h.prev[b], h.next[b])
    BY DEF nxt, p, q
  <2>3. p = h.prev[b] /\ z = h.size[b]
    BY DEF p, z
  <2>4. n <= n /\ n <= z
    BY <1>6
  <2> QED BY <1>3, <1>a, <1>7, <1>8, <1>10, <1>11, <1>12, <1>13, <1>14, <1>15,
             <2>1, <2>2, <2>3, <2>4 DEF SplitOff
<1> QED BY <1>16 DEF u, G, rest

\* Split leaves a list.
LEMMA SplitFacts ==
  ASSUME NEW h \in HeapT, NEW F, Linked(h, F), HeadOf(h, F), Apart(h, F),
         NEW b \in F, NEW n \in Int, MinSize <= n, n <= h.size[b]
  PROVE  \E F1 : SplitOff(h, F, b, n, Split(h, b, n), F1)
<1>1. CASE h.size[b] - n <= MinSize
  <2>1. Split(h, b, n) = Unlink(h, b)
    BY <1>1 DEF Split
  <2>2. SplitOff(h, F, b, n, Unlink(h, b), F \ {b})
    BY SplitWhole
  <2> QED BY <2>1, <2>2
<1>2. CASE ~(h.size[b] - n <= MinSize)
  <2>1. Split(h, b, n) = SplitRest(h, b, n)
    BY <1>2 DEF Split, SplitRest
  <2>2. h.size[b] \in Int
    BY ApartTypes
  <2>3. MinSize < h.size[b] - n
    BY <1>2, <2>2 DEF MinSize
  <2>4. SplitOff(h, F, b, n, SplitRest(h, b, n), (F \ {b}) \cup {b + n})
    BY <2>3, SplitPart
  <2> QED BY <2>1, <2>4
<1> QED BY <1>1, <1>2

-------------------------------------------------------------------------------
\* The invariant.

Block == [start : Addr, ptr : Int, len : Int]

\* an allocated block: what the caller was given lies in it behind a header, and the
\* header has its size, unless ALLOC_MAGIC was written over it
Held(h, blk) ==
  /\ MinSize <= blk.len /\ blk.start + blk.len <= HeapSize
  /\ blk.start + Header <= blk.ptr /\ blk.ptr < blk.start + blk.len
  /\ h.size[blk.start] \in {blk.len, Huge}

\* every word belongs to a free block, to an allocated one or to nobody, and to one only
Shared(h, F, lv, ls) ==
  /\ \A blk \in lv : \A w \in LiveWords(blk) : w \notin Covered(h, F)
  /\ \A x, y \in lv : x # y => LiveWords(x) \cap LiveWords(y) = {}
  /\ \A w \in Addr : w \in Covered(h, F) \/ w \in ls \/ \E blk \in lv : w \in LiveWords(blk)

Whole(h, F, lv, ls) ==
  /\ Linked(h, F) /\ HeadOf(h, F) /\ Apart(h, F)
  /\ \A blk \in lv : Held(h, blk)
  /\ Shared(h, F, lv, ls)

Typed(h, lv, ls) == h \in HeapT /\ lv \subseteq Block /\ ls \subseteq Addr

HeapInv ==
  /\ Typed(heap, live, lost)
  /\ ~Clobbered => Whole(heap, FreeSet(heap), live, lost)

LEMMA WholeIsInv ==
  ASSUME Typed(heap, live, lost), NEW F, Whole(heap, F, live, lost)
  PROVE  HeapInv
<1>1. FreeSet(heap) = F
  BY FreeListFacts DEF Whole, Typed
<1> QED BY <1>1 DEF HeapInv

LEMMA WholeNext ==
  ASSUME Typed(heap', live', lost'), NEW F, Whole(heap', F, live', lost')
  PROVE  HeapInv'
<1>1. FreeSet(heap') = F
  BY FreeListFacts DEF Whole, Typed
<1>2. FreeSet(heap)' = F
  BY <1>1
<1> QED BY <1>1, <1>2 DEF HeapInv

LEMMA BlockFacts ==
  ASSUME NEW h, NEW blk \in Block, Held(h, blk)
  PROVE  /\ blk.start \in Addr /\ blk.start \in Int /\ 0 <= blk.start
         /\ blk.len \in Int /\ 4 <= blk.len /\ blk.start + blk.len <= HeapSize
         /\ blk.ptr \in Int /\ blk.start + 3 <= blk.ptr /\ blk.ptr < blk.start + blk.len
         /\ \A w : w \in LiveWords(blk) <=> w \in Int /\ blk.start <= w /\ w < blk.start + blk.len
         /\ blk.start \in LiveWords(blk)
         /\ LiveWords(blk) \subseteq Addr
<1>1. blk.start \in Addr /\ blk.len \in Int /\ blk.ptr \in Int
  BY DEF Block
<1>2. blk.start \in Int /\ 0 <= blk.start
  BY <1>1 DEF Addr
<1>3. /\ 4 <= blk.len /\ blk.start + blk.len <= HeapSize
      /\ blk.start + 3 <= blk.ptr /\ blk.ptr < blk.start + blk.len
  BY DEF Held, MinSize, Header
<1> DEFINE s == blk.start
           n == blk.len
<1>4. LiveWords(blk) = s .. s + n - 1
  BY DEF LiveWords, Words
<1>5. s \in Int /\ n \in Int /\ 0 <= s /\ 4 <= n /\ s + n <= HeapSize
  BY <1>1, <1>2, <1>3
<1>6. HeapSize \in Nat
  BY HeapSizeAssumption
<1> HIDE DEF s, n
<1>7. /\ \A w : w \in s .. s + n - 1 <=> w \in Int /\ s <= w /\ w < s + n
      /\ s \in s .. s + n - 1
      /\ s .. s + n - 1 \subseteq 0 .. HeapSize - 1
  BY <1>5, <1>6
<1> QED BY <1>1, <1>2, <1>3, <1>4, <1>7 DEF s, n, Addr

\* A block is allocated out of free words.
LEMMA Allocated ==
  ASSUME NEW h, NEW F, NEW lv, NEW ls, Whole(h, F, lv, ls),
         NEW g, NEW G, Linked(g, G), HeadOf(g, G), Apart(g, G),
         NEW blk, Held(g, blk), \A x \in lv : Held(g, x), NEW lt, ls \subseteq lt,
         \A w \in LiveWords(blk) : w \in Covered(h, F) /\ w \notin Covered(g, G),
         Covered(g, G) \subseteq Covered(h, F),
         \A w \in Covered(h, F) : w \in Covered(g, G) \/ w \in LiveWords(blk) \/ w \in lt
  PROVE  Whole(g, G, lv \cup {blk}, lt)
<1> DEFINE lw == lv \cup {blk}
<1>1. /\ \A x \in lv : \A w \in LiveWords(x) : w \notin Covered(h, F)
      /\ \A x, y \in lv : x # y => LiveWords(x) \cap LiveWords(y) = {}
      /\ \A w \in Addr : w \in Covered(h, F) \/ w \in ls \/ \E x \in lv : w \in LiveWords(x)
  BY DEF Whole, Shared
<1>2. \A x \in lw : \A w \in LiveWords(x) : w \notin Covered(g, G)
  BY <1>1
<1>3. ASSUME NEW x \in lw, NEW y \in lw, x # y PROVE LiveWords(x) \cap LiveWords(y) = {}
  BY <1>1, <1>3
<1>4. ASSUME NEW w \in Addr
      PROVE  w \in Covered(g, G) \/ w \in lt \/ \E x \in lw : w \in LiveWords(x)
  BY <1>1
<1>5. Shared(g, G, lw, lt)
  BY <1>2, <1>3, <1>4 DEF Shared
<1> QED BY <1>5 DEF Whole

\* What a split leaves: blocks that were allocated are as they were, and the words of b
\* that go are no free block's.
WordsSplit(h, F, lv, b, k, F1) ==
  /\ \A x \in lv : /\ h.size[x.start] \in {x.len, Huge}
                   /\ x.start < b \/ b + h.size[b] <= x.start
                   /\ k.size[x.start] = h.size[x.start]
  /\ \A w \in Int : b <= w /\ w < b + k.size[b]
                      => w \in Covered(h, F) /\ w \notin Covered(k, F1)
  /\ Covered(k, F1) \subseteq Covered(h, F)
  /\ \A w \in Covered(h, F) : w \in Covered(k, F1) \/ (b <= w /\ w < b + k.size[b])

LEMMA SplitWords ==
  ASSUME NEW h \in HeapT, NEW F, NEW lv, lv \subseteq Block, NEW ls, Whole(h, F, lv, ls),
         NEW b \in F, NEW n \in Int, MinSize <= n, NEW k, NEW F1, SplitOff(h, F, b, n, k, F1)
  PROVE  WordsSplit(h, F, lv, b, k, F1)
<1> DEFINE got == k.size[b]
           z == h.size[b]
<1>1. /\ Linked(h, F) /\ Apart(h, F) /\ \A x \in lv : Held(h, x)
      /\ \A x \in lv : \A w \in LiveWords(x) : w \notin Covered(h, F)
  BY DEF Whole, Shared
<1>2. /\ HeapSize \in Nat /\ MinSize = 4
      /\ \A c \in Addr : c \in Int /\ 0 <= c /\ c < HeapSize /\ c # Null /\ h.size[c] \in Int
      /\ \A c \in F : c \in Addr /\ 4 <= h.size[c] /\ c + h.size[c] <= HeapSize
      /\ \A a, c \in F : a < c => a + h.size[a] < c
  BY <1>1, ApartTypes
<1>3. /\ got \in Int /\ n <= got /\ got <= z
      /\ \A c \in Addr : c < b \/ b + z <= c => k.size[c] = h.size[c]
      /\ Covered(k, F1) = {w \in Covered(h, F) : w < b \/ b + got <= w}
  BY DEF SplitOff
<1>4. b \in Addr /\ b \in Int /\ 0 <= b /\ z \in Int /\ b + z <= HeapSize
  BY <1>2
<1> HIDE DEF got
<1>5. ASSUME NEW w \in Int, b <= w, w < b + z PROVE w \in Covered(h, F)
  <2>1. w \in Addr
    <3> HIDE DEF z
    <3> QED BY <1>2, <1>4, <1>5 DEF Addr
  <2> QED BY <1>5, <2>1 DEF Covered
<1> HIDE DEF z
<1>6. ASSUME NEW x \in lv
      PROVE  /\ h.size[x.start] \in {x.len, Huge}
             /\ x.start < b \/ b + z <= x.start
             /\ k.size[x.start] = h.size[x.start]
  <2>1. Held(h, x) /\ x \in Block
    BY <1>1
  <2>2. x.start \in Addr /\ x.start \in Int /\ x.start \in LiveWords(x)
    BY <2>1, BlockFacts
  <2>3. x.start \notin Covered(h, F)
    BY <1>1, <2>2
  <2>4. x.start < b \/ b + z <= x.start
    BY <1>4, <1>5, <2>2, <2>3
  <2> QED BY <1>3, <2>1, <2>2, <2>4 DEF Held
<1>7. ASSUME NEW w \in Int, b <= w, w < b + got
      PROVE  w \in Covered(h, F) /\ w \notin Covered(k, F1)
  <2>1. w < b + z /\ ~(w < b) /\ ~(b + got <= w)
    BY <1>3, <1>4, <1>7
  <2> QED BY <1>3, <1>5, <1>7, <2>1
<1>8. ASSUME NEW w \in Covered(h, F) PROVE w \in Covered(k, F1) \/ (b <= w /\ w < b + got)
  <2>1. w \in Int
    BY <1>2 DEF Covered
  <2> QED BY <1>3, <1>4, <2>1
<1> QED BY <1>3, <1>6, <1>7, <1>8 DEF WordsSplit, got, z

\* The first index that fits is one that fits.
LEMMA LeastFit ==
  ASSUME NEW n, NEW fit, fit \subseteq 1 .. n, fit # {}
  PROVE  (CHOOSE i \in fit : \A j \in fit : i <= j) \in fit
<1>1. fit \subseteq Nat
  OBVIOUS
<1>2. \E i \in fit : \A j \in fit : i <= j
  BY <1>1, NatLeast
<1> QED BY <1>2

LEMMA MallocKeeps ==
  ASSUME HeapInv, ~Clobbered, NEW size \in Sizes, Malloc(size)
  PROVE  HeapInv'
<1> DEFINE F == FreeSet(heap)
           l == FreeList(heap)
           n == AllocSize(size)
           fit == {i \in DOMAIN l : heap.size[l[i]] > n}
           b == IF fit = {} THEN Null ELSE l[CHOOSE i \in fit : \A j \in fit : i <= j]
           k == Split(heap, b, n)
           blk == [start |-> b, ptr |-> b + Header, len |-> k.size[b]]
<1>1. /\ Typed(heap, live, lost) /\ heap \in HeapT /\ live \subseteq Block
      /\ Whole(heap, F, live, lost)
      /\ Linked(heap, F) /\ HeadOf(heap, F) /\ Apart(heap, F)
  BY DEF HeapInv, Typed, Whole
<1>2. /\ b # Null /\ heap' = k /\ live' = live \cup {blk} /\ lost' = lost
  BY DEF Malloc, FirstFit
<1>3. n \in Int /\ 4 <= n /\ MinSize <= n
  BY SizesAssumption DEF AllocSize, MinSize, Header
<1>4. b \in F /\ heap.size[b] > n
  <2>1. DOMAIN l = 1 .. Len(l) /\ \A i \in 1 .. Len(l) : l[i] \in F
    BY <1>1, FreeListFacts
  <2> DEFINE i == CHOOSE i \in fit : \A j \in fit : i <= j
  <2>2. fit # {} /\ b = l[i]
    BY <1>2
  <2>3. fit \subseteq 1 .. Len(l)
    BY <2>1
  <2>4. i \in fit
    <3> HIDE DEF fit
    <3> QED BY <2>2, <2>3, LeastFit
  <2>5. \A j \in fit : j \in 1 .. Len(l) /\ heap.size[l[j]] > n
    BY <2>1
  <2> HIDE DEF i, fit, l, n
  <2> QED BY <2>1, <2>2, <2>4, <2>5
<1> HIDE DEF n, b, l, F
<1>5. /\ b \in Addr /\ b \in Int /\ b + heap.size[b] <= HeapSize
      /\ heap.size[b] \in Int /\ HeapSize \in Nat
  BY <1>1, <1>4, ApartTypes
<1>6. n <= heap.size[b]
  BY <1>3, <1>4, <1>5
<1>7. PICK F1 : SplitOff(heap, F, b, n, k, F1)
  BY <1>1, <1>3, <1>4, <1>6, SplitFacts
<1> HIDE DEF k
<1>8. /\ k \in HeapT /\ Linked(k, F1) /\ HeadOf(k, F1) /\ Apart(k, F1)
      /\ k.size[b] \in Int /\ n <= k.size[b] /\ k.size[b] <= heap.size[b]
  BY <1>7 DEF SplitOff
<1>9. /\ \A x \in live : /\ heap.size[x.start] \in {x.len, Huge}
                         /\ k.size[x.start] = heap.size[x.start]
      /\ \A w \in Int : b <= w /\ w < b + k.size[b]
                          => w \in Covered(heap, F) /\ w \notin Covered(k, F1)
      /\ Covered(k, F1) \subseteq Covered(heap, F)
      /\ \A w \in Covered(heap, F) : w \in Covered(k, F1) \/ (b <= w /\ w < b + k.size[b])
  <2>1. WordsSplit(heap, F, live, b, k, F1)
    BY <1>1, <1>3, <1>4, <1>7, SplitWords
  <2> HIDE DEF blk
  <2> QED BY <2>1 DEF WordsSplit
<1>10. blk \in Block /\ blk.start = b /\ blk.len = k.size[b] /\ blk.ptr = b + 3
  BY <1>5, <1>8 DEF Block, Header
<1>11. Held(k, blk)
  <2>1. 4 <= k.size[b] /\ b + k.size[b] <= HeapSize
    BY <1>3, <1>5, <1>8
  <2> HIDE DEF blk
  <2>2. blk.start + 3 <= blk.ptr /\ blk.ptr < blk.start + blk.len
    BY <1>5, <1>8, <1>10, <2>1
  <2> QED BY <1>10, <2>1, <2>2 DEF Held, MinSize, Header
<1> HIDE DEF blk
<1>12. \A w : w \in LiveWords(blk) <=> w \in Int /\ b <= w /\ w < b + k.size[b]
  BY <1>10, <1>11, BlockFacts
<1>13. \A x \in live : Held(k, x)
  BY <1>1, <1>9 DEF Held, Whole
<1>14. Whole(k, F1, live \cup {blk}, lost)
  <2>1. \A w \in LiveWords(blk) : w \in Covered(heap, F) /\ w \notin Covered(k, F1)
    BY <1>9, <1>12
  <2>2. \A w \in Covered(heap, F) : w \in Covered(k, F1) \/ w \in LiveWords(blk) \/ w \in lost
    <3>1. \A w \in Covered(heap, F) : w \in Int
      BY DEF Covered, Addr
    <3> QED BY <1>9, <1>12, <3>1
  <2> QED BY <1>1, <1>8, <1>9, <1>11, <1>13, <2>1, <2>2, Allocated
<1>15. Typed(heap', live', lost')
  BY <1>1, <1>2, <1>8, <1>10 DEF Typed
<1>16. Whole(heap', F1, live', lost')
  BY <1>2, <1>14
<1> QED BY <1>15, <1>16, WholeNext

\* g is h with the size n in the header at a
Resized(h, F, a, n, g) ==
  /\ g \in HeapT /\ Linked(g, F) /\ HeadOf(g, F) /\ Apart(g, F)
  /\ Covered(g, F) = Covered(h, F)
  /\ \A c \in Addr : g.size[c] = IF c = a THEN n ELSE h.size[c]

\* The size of a header that no free block has is nothing to the list.
LEMMA SizeOutside ==
  ASSUME NEW h \in HeapT, NEW F, Linked(h, F), HeadOf(h, F), Apart(h, F),
         NEW a \in Addr, a \notin F, NEW n \in Int, NEW g, g = [h EXCEPT !.size[a] = n]
  PROVE  Resized(h, F, a, n, g)
<1>1. /\ g \in HeapT /\ g.head = h.head /\ g.next = h.next /\ g.prev = h.prev
      /\ \A c \in Addr : g.size[c] = IF c = a THEN n ELSE h.size[c]
  BY SizeFacts
<1>2. F \subseteq Addr
  BY DEF Linked
<1>3. \A c \in F : g.size[c] = h.size[c]
  BY <1>1, <1>2
<1>4. Linked(g, F) /\ HeadOf(g, F)
  BY <1>1 DEF Linked, HeadOf
<1>5. Apart(g, F)
  BY <1>3 DEF Apart
<1>6. Covered(g, F) = Covered(h, F)
  BY <1>3 DEF Covered
<1> QED BY <1>1, <1>4, <1>5, <1>6 DEF Resized

\* FreeLead puts the words that alignment skips back into the list.
LeadPut(k, F1, b, skip, s) ==
  /\ s \in HeapT /\ Linked(s, F1 \cup {b}) /\ HeadOf(s, F1 \cup {b}) /\ Apart(s, F1 \cup {b})
  /\ \A c \in Addr : s.size[c] = IF c = b THEN skip ELSE k.size[c]
  /\ \A w \in Addr : w \in Covered(s, F1 \cup {b})
                       <=> w \in Covered(k, F1) \/ (b <= w /\ w < b + skip)

LEMMA LeadFacts ==
  ASSUME NEW k \in HeapT, NEW F1, Linked(k, F1), HeadOf(k, F1), Apart(k, F1),
         NEW b \in Addr, b \notin F1, NEW before \in F1 \cup {Null}, IsPrev(F1, b, before),
         NEW after, NEW nxt \in F1 \cup {Null}, nxt = NextAfterSplit(k, before, after),
         IsNext(F1, b, nxt),
         NEW skip \in Int, MinSize <= skip, NEW got \in Int, skip < got, b + got <= HeapSize,
         \A c \in F1 : (c < b /\ c + k.size[c] < b) \/ b + got <= c
  PROVE  LeadPut(k, F1, b, skip, FreeLead(k, b, skip, before, after))
<1> DEFINE r0 == [k EXCEPT !.size[b] = skip]
           r == [k EXCEPT !.size[b] = skip, !.next[b] = nxt, !.prev[b] = before]
           t == SetNext(r, before, b)
           u == SetPrev(t, nxt, b)
           top == IF u.head = Null \/ u.head > b THEN b ELSE u.head
           s == [u EXCEPT !.head = top]
           G == F1 \cup {b}
<1>1. /\ \A c \in Addr : c \in Int /\ 0 <= c /\ c < HeapSize /\ c # Null /\ k.size[c] \in Int
      /\ \A c \in F1 : c \in Addr /\ 4 <= k.size[c] /\ c + k.size[c] <= HeapSize
      /\ \A a, c \in F1 : a < c => a + k.size[a] < c
      /\ HeapSize \in Nat /\ MinSize = 4 /\ Null \notin Addr
  BY ApartTypes
<1>2. before \in Ptr /\ nxt \in Ptr /\ b \in Ptr /\ b # before /\ b # nxt
  BY <1>1 DEF Ptr
<1>3. FreeLead(k, b, skip, before, after) = s
  BY DEF FreeLead
<1>4. /\ r \in HeapT /\ r.head = k.head
      /\ \A c \in Addr : r.size[c] = IF c = b THEN skip ELSE k.size[c]
      /\ \A c \in Addr : r.next[c] = IF c = b THEN nxt ELSE k.next[c]
      /\ \A c \in Addr : r.prev[c] = IF c = b THEN before ELSE k.prev[c]
  BY <1>2 DEF HeapT
<1> HIDE DEF r
<1>5. /\ t \in HeapT /\ t.head = r.head /\ t.size = r.size /\ t.prev = r.prev
      /\ \A c \in Addr : t.next[c] = IF c = before THEN b ELSE r.next[c]
  BY <1>1, <1>2, <1>4 DEF SetNext, HeapT, Ptr
<1> HIDE DEF t
<1>6. /\ u \in HeapT /\ u.head = t.head /\ u.size = t.size /\ u.next = t.next
      /\ \A c \in Addr : u.prev[c] = IF c = nxt THEN b ELSE t.prev[c]
  BY <1>1, <1>2, <1>5 DEF SetPrev, HeapT, Ptr
<1> HIDE DEF u
<1>7. top \in Ptr
  BY <1>2, <1>6 DEF HeapT
<1>8. top = IF k.head = Null \/ k.head > b THEN b ELSE k.head
  BY <1>4, <1>5, <1>6
<1> HIDE DEF top
<1>9. s \in HeapT /\ s.head = top /\ s.size = u.size /\ s.next = u.next /\ s.prev = u.prev
  BY <1>6, <1>7, HeadFacts
<1> HIDE DEF s
<1>10. /\ \A c \in Addr : s.next[c] = IF c = before THEN b ELSE IF c = b THEN nxt ELSE k.next[c]
       /\ \A c \in Addr : s.prev[c] = IF c = nxt THEN b ELSE IF c = b THEN before ELSE k.prev[c]
       /\ \A c \in Addr : s.size[c] = IF c = b THEN skip ELSE k.size[c]
  BY <1>4, <1>5, <1>6, <1>9
<1>11. Linked(s, G)
  BY <1>9, <1>10, InsertList
<1>12. HeadOf(s, G)
  <2>1. CASE k.head = Null
    <3>1. F1 = {} /\ s.head = b
      BY <1>8, <1>9, <2>1 DEF HeadOf
    <3> QED BY <1>1, <3>1 DEF HeadOf
  <2>2. CASE k.head # Null
    <3>1. k.head \in F1 /\ \A c \in F1 : k.head <= c
      BY <2>2 DEF HeadOf
    <3>2. k.head \in Int /\ b \in Int /\ \A c \in F1 : c \in Int
      BY <1>1, <3>1
    <3>3. CASE k.head > b
      <4>1. s.head = b
        BY <1>8, <1>9, <3>3
      <4>2. \A c \in F1 : b <= c
        BY <3>1, <3>2, <3>3
      <4> QED BY <1>1, <3>2, <4>1, <4>2 DEF HeadOf
    <3>4. CASE ~(k.head > b)
      <4>1. s.head = k.head /\ k.head <= b
        BY <1>8, <1>9, <2>2, <3>2, <3>4
      <4> QED BY <2>2, <3>1, <4>1 DEF HeadOf
    <3> QED BY <3>3, <3>4
  <2> QED BY <2>1, <2>2
<1>13. \A c \in F1 : c \in Int /\ s.size[c] = k.size[c]
  <2> SUFFICES ASSUME NEW c \in F1 PROVE c \in Int /\ s.size[c] = k.size[c]
    OBVIOUS
  <2>1. c \in Addr /\ c # b
    BY <1>1
  <2> QED BY <1>1, <1>10, <2>1
<1>14. s.size[b] = skip /\ b \in Int /\ b + skip < b + got
  BY <1>1, <1>10
<1>15. Apart(s, G)
  <2>1. ASSUME NEW a \in G PROVE MinSize <= s.size[a] /\ a + s.size[a] <= HeapSize
    <3>1. CASE a = b
      BY <1>1, <1>14, <3>1
    <3>2. CASE a # b
      BY <1>1, <1>13, <3>2
    <3> QED BY <3>1, <3>2
  <2>2. ASSUME NEW a \in G, NEW c \in G, a < c PROVE a + s.size[a] < c
    <3>1. CASE a = b
      <4>1. c \in F1 /\ c \in Int /\ ~(c < b)
        BY <1>13, <1>14, <2>2, <3>1
      <4> QED BY <1>14, <3>1, <4>1
    <3>2. CASE a # b /\ c = b
      <4>1. a \in F1 /\ a \in Int /\ s.size[a] = k.size[a] /\ a < b
        BY <1>13, <2>2, <3>2
      <4>2. ~(b + got <= a)
        BY <1>1, <1>14, <4>1
      <4> QED BY <3>2, <4>1, <4>2
    <3>3. CASE a # b /\ c # b
      <4>1. a \in F1 /\ c \in F1 /\ s.size[a] = k.size[a]
        BY <1>13, <3>3
      <4> QED BY <1>1, <2>2, <4>1
    <3> QED BY <3>1, <3>2, <3>3
  <2> QED BY <2>1, <2>2 DEF Apart
<1>16. ASSUME NEW w \in Addr
       PROVE  w \in Covered(s, G) <=> w \in Covered(k, F1) \/ (b <= w /\ w < b + skip)
  <2>1. (\E a \in G : a <= w /\ w < a + s.size[a])
          <=> (\E a \in F1 : a <= w /\ w < a + k.size[a]) \/ (b <= w /\ w < b + skip)
    BY <1>13, <1>14
  <2> QED BY <2>1 DEF Covered
<1>17. LeadPut(k, F1, b, skip, s)
  BY <1>9, <1>10, <1>11, <1>12, <1>15, <1>16 DEF LeadPut
<1> QED BY <1>3, <1>17

\* What Memalign splits off: enough for the skip and the block.
MemalignSplits(F, alignment, n, b, F1) ==
  LET skip == AlignSize(b, alignment)
      k == Split(heap, b, n + skip)
  IN  /\ b \in F /\ b \in Addr
      /\ skip \in Int /\ 1 <= skip
      /\ SplitOff(heap, F, b, n + skip, k, F1)
      /\ WordsSplit(heap, F, live, b, k, F1)
      /\ b + k.size[b] <= HeapSize

LEMMA MemalignStart ==
  ASSUME Typed(heap, live, lost), NEW F, Whole(heap, F, live, lost),
         NEW alignment \in Alignments, NEW n \in Int, 4 <= n, NEW b \in F,
         AlignSize(b, alignment) + n <= heap.size[b]
  PROVE  \E F1 : MemalignSplits(F, alignment, n, b, F1)
<1> DEFINE skip == AlignSize(b, alignment)
           k == Split(heap, b, n + skip)
<1>1. /\ heap \in HeapT /\ live \subseteq Block
      /\ Linked(heap, F) /\ HeadOf(heap, F) /\ Apart(heap, F)
  BY DEF Typed, Whole
<1>3. skip + n <= heap.size[b]
  OBVIOUS
<1>4. /\ b \in Addr /\ b \in Int /\ 0 <= b /\ b + heap.size[b] <= HeapSize
      /\ heap.size[b] \in Int /\ HeapSize \in Nat
  BY <1>1, <1>3, ApartTypes
<1>5. skip \in Int /\ 1 <= skip
  <2>1. alignment \in Nat /\ alignment > 0 /\ b + 3 \in Nat
    BY <1>4, AlignmentsAssumption
  <2>2. (b + 3) % alignment \in 0 .. alignment - 1
    BY <2>1
  <2> DEFINE m == (b + 3) % alignment
  <2>3. skip = alignment - m
    BY DEF AlignSize, Header
  <2> HIDE DEF m, skip
  <2>4. m \in Int /\ m <= alignment - 1
    BY <2>2 DEF m
  <2> QED BY <2>1, <2>3, <2>4
<1> HIDE DEF skip
<1>6. n + skip \in Int /\ MinSize <= n + skip /\ n + skip <= heap.size[b]
  BY <1>3, <1>4, <1>5 DEF MinSize
<1>7. PICK F1 : SplitOff(heap, F, b, n + skip, k, F1)
  BY <1>1, <1>3, <1>6, SplitFacts
<1> HIDE DEF k
<1>8. WordsSplit(heap, F, live, b, k, F1)
  BY <1>1, <1>3, <1>6, <1>7, SplitWords
<1>9. b + k.size[b] <= HeapSize
  <2>1. k.size[b] \in Int /\ k.size[b] <= heap.size[b]
    BY <1>7 DEF SplitOff
  <2> QED BY <1>4, <2>1
<1>10. MemalignSplits(F, alignment, n, b, F1)
  BY <1>3, <1>4, <1>5, <1>7, <1>8, <1>9 DEF MemalignSplits, k, skip
<1> QED BY <1>10

\* A short skip stays in the block.
LEMMA ShortSkip ==
  ASSUME Typed(heap, live, lost), NEW alignment, NEW F, Whole(heap, F, live, lost),
         NEW n \in Int, 4 <= n, NEW b, NEW F1, MemalignSplits(F, alignment, n, b, F1),
         NEW skip, skip = AlignSize(b, alignment), NEW k, k = Split(heap, b, n + skip),
         NEW blk, blk = [start |-> b, ptr |-> b + Header + skip, len |-> k.size[b]],
         heap' = IF skip = 1 THEN [k EXCEPT !.size[b] = Huge] ELSE k,
         live' = live \cup {blk}, lost' = lost
  PROVE  HeapInv'
<1> DEFINE got == k.size[b]
           g == heap'
<1>1. /\ heap \in HeapT /\ live \subseteq Block /\ lost \subseteq Addr
      /\ Whole(heap, F, live, lost) /\ \A x \in live : Held(heap, x)
  BY DEF Typed, Whole
<1>2. /\ b \in F /\ b \in Addr /\ skip \in Int /\ 1 <= skip
      /\ SplitOff(heap, F, b, n + skip, k, F1)
      /\ WordsSplit(heap, F, live, b, k, F1)
      /\ b + got <= HeapSize
  BY DEF MemalignSplits
<1>3. /\ k \in HeapT /\ Linked(k, F1) /\ HeadOf(k, F1) /\ Apart(k, F1) /\ b \notin F1
      /\ got \in Int /\ n + skip <= got /\ got <= heap.size[b]
  BY <1>2 DEF SplitOff
<1>4. /\ \A x \in live : /\ heap.size[x.start] \in {x.len, Huge}
                         /\ x.start < b \/ b + heap.size[b] <= x.start
                         /\ k.size[x.start] = heap.size[x.start]
      /\ \A w \in Int : b <= w /\ w < b + got
                          => w \in Covered(heap, F) /\ w \notin Covered(k, F1)
      /\ Covered(k, F1) \subseteq Covered(heap, F)
      /\ \A w \in Covered(heap, F) : w \in Covered(k, F1) \/ (b <= w /\ w < b + got)
  <2> HIDE DEF g
  <2> QED BY <1>2 DEF WordsSplit
<1>5. HeapSize \in Nat /\ b \in Int /\ Huge \in Int /\ heap.size[b] \in Int
  BY <1>1, <1>2, HeapSizeAssumption DEF Addr, Huge, HeapT
<1>6. /\ g \in HeapT /\ Linked(g, F1) /\ HeadOf(g, F1) /\ Apart(g, F1)
      /\ Covered(g, F1) = Covered(k, F1)
      /\ \A c \in Addr \ {b} : g.size[c] = k.size[c]
      /\ g.size[b] \in {got, Huge}
  <2>1. CASE skip = 1
    <3> DEFINE j == [k EXCEPT !.size[b] = Huge]
    <3>1. /\ j \in HeapT /\ Linked(j, F1) /\ HeadOf(j, F1) /\ Apart(j, F1)
          /\ Covered(j, F1) = Covered(k, F1)
          /\ \A c \in Addr : j.size[c] = IF c = b THEN Huge ELSE k.size[c]
      <4>1. Resized(k, F1, b, Huge, j)
        BY <1>2, <1>3, <1>5, SizeOutside
      <4> QED BY <4>1 DEF Resized
    <3>2. g = j
      BY <2>1
    <3> HIDE DEF j, g
    <3> QED BY <1>2, <3>1, <3>2
  <2>2. CASE skip # 1
    BY <1>3, <2>2
  <2> QED BY <2>1, <2>2
<1> HIDE DEF g, got
<1>7. blk \in Block /\ blk.start = b /\ blk.len = got /\ blk.ptr = b + 3 + skip
  BY <1>2, <1>3, <1>5 DEF Block, Header, got
<1>8. Held(g, blk)
  <2>1. 4 <= got /\ b + 3 <= b + 3 + skip /\ b + 3 + skip < b + got
    BY <1>2, <1>3, <1>5
  <2> QED BY <1>2, <1>6, <1>7, <2>1 DEF Held, MinSize, Header
<1>9. \A w : w \in LiveWords(blk) <=> w \in Int /\ b <= w /\ w < b + got
  BY <1>7, <1>8, BlockFacts
<1>10. ASSUME NEW x \in live PROVE Held(g, x)
  <2>1. x.start \in Addr /\ x.start \in Int
    BY <1>1 DEF Block, Addr
  <2>2. x.start # b
    <3>1. x.start < b \/ b + heap.size[b] <= x.start
      BY <1>4
    <3> QED BY <1>2, <1>3, <1>5, <2>1, <3>1
  <2>3. g.size[x.start] = heap.size[x.start]
    BY <1>4, <1>6, <2>1, <2>2
  <2> QED BY <1>1, <2>3 DEF Held
<1>11. Whole(g, F1, live \cup {blk}, lost)
  <2>1. \A w \in LiveWords(blk) : w \in Covered(heap, F) /\ w \notin Covered(g, F1)
    BY <1>4, <1>6, <1>9
  <2>2. \A w \in Covered(heap, F) : w \in Covered(g, F1) \/ w \in LiveWords(blk) \/ w \in lost
    <3>1. \A w \in Covered(heap, F) : w \in Int
      BY DEF Covered, Addr
    <3> QED BY <1>4, <1>6, <1>9, <3>1
  <2>3. Covered(g, F1) \subseteq Covered(heap, F)
    BY <1>4, <1>6
  <2> QED BY <1>1, <1>6, <1>8, <1>10, <2>1, <2>2, <2>3, Allocated
<1>12. Typed(heap', live', lost')
  BY <1>1, <1>6, <1>7 DEF Typed, g
<1>13. Whole(heap', F1, live', lost')
  BY <1>11 DEF g
<1> QED BY <1>12, <1>13, WholeNext

\* A long skip becomes a free block, and what Split gave beyond n words is lost.
LEMMA LongSkip ==
  ASSUME Typed(heap, live, lost), NEW alignment, NEW F, Whole(heap, F, live, lost),
         NEW n \in Int, 4 <= n, NEW b, NEW F1, MemalignSplits(F, alignment, n, b, F1),
         NEW skip, skip = AlignSize(b, alignment), MinSize <= skip,
         NEW k, k = Split(heap, b, n + skip),
         NEW blk, blk = [start |-> b + skip, ptr |-> b + Header + skip, len |-> n],
         heap' = [FreeLead(k, b, skip, heap.prev[b], heap.next[b]) EXCEPT !.size[b + skip] = n],
         live' = live \cup {blk},
         lost' = lost \cup Words(b + skip + n, k.size[b] - (n + skip))
  PROVE  HeapInv'
<1> DEFINE got == k.size[b]
           p == heap.prev[b]
           nxt == NextAfterSplit(k, p, heap.next[b])
           s == FreeLead(k, b, skip, p, heap.next[b])
           at == b + skip
           G == F1 \cup {b}
           g == heap'
           rest == Words(b + skip + n, got - (n + skip))
<1>1. /\ heap \in HeapT /\ live \subseteq Block /\ lost \subseteq Addr
      /\ Whole(heap, F, live, lost) /\ \A x \in live : Held(heap, x)
  BY DEF Typed, Whole
<1>2. /\ b \in F /\ b \in Addr /\ skip \in Int /\ 1 <= skip
      /\ SplitOff(heap, F, b, n + skip, k, F1)
      /\ WordsSplit(heap, F, live, b, k, F1)
      /\ b + got <= HeapSize
  BY DEF MemalignSplits
<1>3. /\ k \in HeapT /\ Linked(k, F1) /\ HeadOf(k, F1) /\ Apart(k, F1) /\ b \notin F1
      /\ got \in Int /\ n + skip <= got /\ got <= heap.size[b]
      /\ \A c \in F1 : (c < b /\ c + k.size[c] < b) \/ b + got <= c
      /\ p \in F1 \cup {Null} /\ IsPrev(F1, b, p)
      /\ nxt \in F1 \cup {Null} /\ IsNext(F1, b, nxt)
  <2> HIDE DEF g, s, rest, at, G
  <2> QED BY <1>2 DEF SplitOff
<1>4. /\ \A x \in live : /\ heap.size[x.start] \in {x.len, Huge}
                         /\ x.start < b \/ b + heap.size[b] <= x.start
                         /\ k.size[x.start] = heap.size[x.start]
      /\ \A w \in Int : b <= w /\ w < b + got
                          => w \in Covered(heap, F) /\ w \notin Covered(k, F1)
      /\ Covered(k, F1) \subseteq Covered(heap, F)
      /\ \A w \in Covered(heap, F) : w \in Covered(k, F1) \/ (b <= w /\ w < b + got)
  <2> HIDE DEF g, s, rest, at, G, nxt, p
  <2> QED BY <1>2 DEF WordsSplit
<1>5. HeapSize \in Nat /\ b \in Int /\ 0 <= b /\ heap.size[b] \in Int
  BY <1>1, <1>2, HeapSizeAssumption DEF Addr, HeapT
<1>6. /\ at \in Int /\ b < at /\ at + n <= b + got /\ at < b + got /\ at \in Addr
      /\ skip < got /\ 4 <= skip
  <2>1. 4 <= skip
    BY DEF MinSize
  <2>2. at \in Int /\ b < at /\ at + n <= b + got /\ at < b + got /\ 0 <= at /\ at < HeapSize
    <3> HIDE DEF got
    <3> QED BY <1>2, <1>3, <1>5, <2>1
  <2>3. skip < got
    <3> HIDE DEF got
    <3> QED BY <1>2, <1>3
  <2> HIDE DEF at
  <2>4. at \in Addr
    BY <1>5, <2>2 DEF Addr
  <2> QED BY <2>1, <2>2, <2>3, <2>4
<1>7. LeadPut(k, F1, b, skip, s)
  BY <1>2, <1>3, <1>6, LeadFacts
<1> HIDE DEF s, p, nxt
<1>8. /\ s \in HeapT /\ Linked(s, G) /\ HeadOf(s, G) /\ Apart(s, G)
      /\ \A c \in Addr : s.size[c] = IF c = b THEN skip ELSE k.size[c]
      /\ \A w \in Addr : w \in Covered(s, G)
                           <=> w \in Covered(k, F1) \/ (b <= w /\ w < b + skip)
  BY <1>7 DEF LeadPut
<1>9. at \notin G
  <2>1. at \notin F1
    <3> HIDE DEF at, got
    <3> SUFFICES ASSUME at \in F1 PROVE FALSE
      OBVIOUS
    <3>1. at < b \/ b + got <= at
      BY <1>3
    <3> QED BY <1>3, <1>5, <1>6, <3>1
  <2>2. at # b
    <3> HIDE DEF at
    <3> QED BY <1>5, <1>6
  <2> QED BY <2>1, <2>2
<1>10. g = [s EXCEPT !.size[at] = n]
  BY DEF s, p
<1> HIDE DEF g, at, got, G
<1>11. /\ g \in HeapT /\ Linked(g, G) /\ HeadOf(g, G) /\ Apart(g, G)
       /\ Covered(g, G) = Covered(s, G)
       /\ \A c \in Addr : g.size[c] = IF c = at THEN n ELSE s.size[c]
  <2>1. Resized(s, G, at, n, g)
    BY <1>6, <1>8, <1>9, <1>10, SizeOutside
  <2> QED BY <2>1 DEF Resized
<1>12. blk \in Block /\ blk.start = at /\ blk.len = n /\ blk.ptr = at + 3
  <2>1. b + Header + skip = at + 3 /\ at + 3 \in Int
    BY <1>2, <1>5, <1>6 DEF at, Header
  <2>2. blk = [start |-> at, ptr |-> at + 3, len |-> n]
    BY <2>1 DEF at
  <2> QED BY <1>6, <2>1, <2>2 DEF Block
<1>13. Held(g, blk)
  <2>1. at + n <= HeapSize /\ at + 3 <= at + 3 /\ at + 3 < at + n
    BY <1>2, <1>3, <1>5, <1>6 DEF got
  <2>2. g.size[at] = n
    BY <1>6, <1>11
  <2> QED BY <1>12, <2>1, <2>2 DEF Held, MinSize, Header
<1>14. \A w : w \in LiveWords(blk) <=> w \in Int /\ at <= w /\ w < at + n
  BY <1>12, <1>13, BlockFacts
<1>15. ASSUME NEW x \in live PROVE Held(g, x)
  <2>1. x.start \in Addr /\ x.start \in Int
    BY <1>1 DEF Block, Addr
  <2>2. x.start # b /\ x.start # at
    <3>1. x.start < b \/ b + heap.size[b] <= x.start
      BY <1>4
    <3>2. got <= heap.size[b] /\ got \in Int
      BY <1>3 DEF got
    <3> QED BY <1>5, <1>6, <2>1, <3>1, <3>2
  <2>3. g.size[x.start] = heap.size[x.start]
    BY <1>4, <1>8, <1>11, <2>1, <2>2
  <2> QED BY <1>1, <2>3 DEF Held
<1>16. \A w : w \in rest <=> w \in Int /\ at + n <= w /\ w < b + got
  <2> DEFINE f == at + n
             z == got - (n + skip)
  <2>1. rest = f .. f + z - 1 /\ f \in Int /\ z \in Int /\ f + z = b + got
    <3>1. rest = Words(b + skip + n, z)
      BY DEF got
    <3>2. b + skip + n = f
      BY DEF at
    <3>3. f \in Int /\ z \in Int /\ f + z = b + got
      BY <1>2, <1>3, <1>5, <1>6 DEF at, got
    <3> QED BY <3>1, <3>2, <3>3 DEF Words
  <2> HIDE DEF f, z, rest
  <2>2. \A w : w \in f .. f + z - 1 <=> w \in Int /\ f <= w /\ w < f + z
    BY <2>1
  <2> QED BY <2>1, <2>2 DEF f
<1> HIDE DEF rest
<1>17. rest \subseteq Addr
  <2> SUFFICES ASSUME NEW w \in rest PROVE w \in Addr
    OBVIOUS
  <2>1. w \in Int /\ at + n <= w /\ w < b + got
    BY <1>16
  <2>2. 0 <= w /\ w < HeapSize
    BY <1>2, <1>3, <1>5, <1>6, <2>1 DEF got
  <2> QED BY <1>5, <2>1, <2>2 DEF Addr
<1>18. Whole(g, G, live \cup {blk}, lost \cup rest)
  <2>0. got \in Int /\ b + skip = at /\ b + got \in Int
    BY <1>3, <1>5 DEF got, at
  <2>a. \A w \in Addr : w \in Int
    BY DEF Addr
  <2>b. \A w \in Covered(heap, F) : w \in Addr
    BY DEF Covered
  <2>c. \A w \in Covered(g, G) : w \in Addr
    BY DEF Covered
  <2>d. \A w \in Addr : w \in Covered(g, G) <=> w \in Covered(k, F1) \/ (b <= w /\ w < at)
    BY <1>8, <1>11, <2>0
  <2>e. /\ \A w \in Int : b <= w /\ w < b + got
                            => w \in Covered(heap, F) /\ w \notin Covered(k, F1)
        /\ Covered(k, F1) \subseteq Covered(heap, F)
        /\ \A w \in Covered(heap, F) : w \in Covered(k, F1) \/ (b <= w /\ w < b + got)
    BY <1>4 DEF got
  <2>1. ASSUME NEW w \in LiveWords(blk) PROVE w \in Covered(heap, F) /\ w \notin Covered(g, G)
    <3>1. w \in Int /\ at <= w /\ w < at + n
      BY <1>14
    <3>2. b <= w /\ w < b + got /\ ~(w < at)
      BY <1>5, <1>6, <2>0, <3>1
    <3> QED BY <2>b, <2>c, <2>d, <2>e, <3>1, <3>2
  <2>2. ASSUME NEW w \in Covered(heap, F)
        PROVE  w \in Covered(g, G) \/ w \in LiveWords(blk) \/ w \in lost \cup rest
    <3>1. w \in Addr /\ w \in Int
      BY <2>a, <2>b
    <3>2. CASE w \in Covered(k, F1)
      BY <2>d, <3>1, <3>2
    <3>3. CASE b <= w /\ w < b + got
      <4>1. CASE w < at
        BY <2>d, <3>1, <3>3, <4>1
      <4>2. CASE at <= w /\ w < at + n
        BY <1>14, <3>1, <4>2
      <4>3. CASE at + n <= w
        BY <1>16, <3>1, <3>3, <4>3
      <4> QED BY <1>6, <3>1, <4>1, <4>2, <4>3
    <3> QED BY <2>e, <3>2, <3>3
  <2>3. ASSUME NEW w \in Covered(g, G) PROVE w \in Covered(heap, F)
    <3>1. w \in Addr /\ w \in Int
      BY <2>a, <2>c
    <3>2. CASE w \in Covered(k, F1)
      BY <2>e, <3>2
    <3>3. CASE b <= w /\ w < at
      <4>1. w < b + got
        BY <1>6, <2>0, <3>1, <3>3
      <4> QED BY <2>e, <3>1, <3>3, <4>1
    <3> QED BY <2>d, <3>1, <3>2, <3>3
  <2>4. lost \subseteq lost \cup rest /\ Covered(g, G) \subseteq Covered(heap, F)
    BY <2>3
  <2> QED BY <1>1, <1>11, <1>13, <1>15, <2>1, <2>2, <2>4, Allocated
<1>19. live' = live \cup {blk} /\ lost' = lost \cup rest
  BY DEF rest, got
<1>20. Typed(heap', live', lost')
  BY <1>1, <1>11, <1>12, <1>17, <1>19 DEF Typed, g
<1>21. Whole(heap', G, live', lost')
  BY <1>18, <1>19 DEF g
<1> QED BY <1>20, <1>21, WholeNext

LEMMA MemalignKeeps ==
  ASSUME HeapInv, ~Clobbered, NEW alignment \in Alignments, NEW size \in Sizes,
         Memalign(alignment, size)
  PROVE  HeapInv'
<1> DEFINE F == FreeSet(heap)
           l == FreeList(heap)
           n == AllocSize(size)
           fit == {i \in DOMAIN l : /\ heap.size[l[i]] >= n
                                    /\ AlignSize(l[i], alignment) + n <= heap.size[l[i]]}
           b == IF fit = {} THEN Null ELSE l[CHOOSE i \in fit : \A j \in fit : i <= j]
           skip == AlignSize(b, alignment)
           k == Split(heap, b, n + skip)
<1>1. /\ b # Null
      /\ IF skip < MinSize
           THEN /\ heap' = IF skip = 1 THEN [k EXCEPT !.size[b] = Huge] ELSE k
                /\ live' = live \cup {[start |-> b, ptr |-> b + Header + skip, len |-> k.size[b]]}
                /\ lost' = lost
           ELSE /\ heap' = [FreeLead(k, b, skip, heap.prev[b], heap.next[b])
                              EXCEPT !.size[b + skip] = n]
                /\ live' = live \cup {[start |-> b + skip, ptr |-> b + Header + skip, len |-> n]}
                /\ lost' = lost \cup Words(b + skip + n, k.size[b] - (n + skip))
  BY DEF Memalign, FirstFit
<1>2. n \in Int /\ 4 <= n
  BY SizesAssumption DEF AllocSize, MinSize, Header
<1>3. Typed(heap, live, lost) /\ Whole(heap, F, live, lost)
  BY DEF HeapInv
<1>4. b \in F /\ skip + n <= heap.size[b]
  <2>1. DOMAIN l = 1 .. Len(l) /\ \A j \in 1 .. Len(l) : l[j] \in F
    BY <1>3, FreeListFacts DEF Typed, Whole
  <2> DEFINE i == CHOOSE i \in fit : \A j \in fit : i <= j
  <2>2. fit # {} /\ b = l[i]
    BY <1>1
  <2>3. fit \subseteq 1 .. Len(l)
    BY <2>1
  <2>4. i \in fit
    <3> HIDE DEF fit
    <3> QED BY <2>2, <2>3, LeastFit
  <2>5. \A j \in fit : j \in 1 .. Len(l) /\ AlignSize(l[j], alignment) + n <= heap.size[l[j]]
    BY <2>1
  <2>6. i \in 1 .. Len(l) /\ AlignSize(l[i], alignment) + n <= heap.size[l[i]]
    BY <2>4, <2>5
  <2>7. skip = AlignSize(b, alignment)
    OBVIOUS
  <2> HIDE DEF i, fit, l, n, b, skip, k
  <2> QED BY <2>1, <2>2, <2>6, <2>7
<1> HIDE DEF F, l, n, fit, b
<1>5. PICK F1 : MemalignSplits(F, alignment, n, b, F1)
  BY <1>2, <1>3, <1>4, MemalignStart
<1>6. skip \in Int
  BY <1>5 DEF MemalignSplits
<1> HIDE DEF skip, k
<1>7. skip = AlignSize(b, alignment) /\ k = Split(heap, b, n + skip)
  BY DEF skip, k
<1>8. CASE skip < MinSize
  <2> DEFINE blk == [start |-> b, ptr |-> b + Header + skip, len |-> k.size[b]]
             g == IF skip = 1 THEN [k EXCEPT !.size[b] = Huge] ELSE k
  <2>1. heap' = g /\ live' = live \cup {blk} /\ lost' = lost
    BY <1>1, <1>8
  <2>2. blk = [start |-> b, ptr |-> b + Header + skip, len |-> k.size[b]]
    OBVIOUS
  <2> HIDE DEF blk
  <2> QED BY <1>2, <1>3, <1>5, <1>7, <2>1, <2>2, ShortSkip
<1>9. CASE ~(skip < MinSize)
  <2>1. MinSize <= skip
    BY <1>6, <1>9 DEF MinSize
  <2> DEFINE blk == [start |-> b + skip, ptr |-> b + Header + skip, len |-> n]
  <2>2. /\ heap' = [FreeLead(k, b, skip, heap.prev[b], heap.next[b]) EXCEPT !.size[b + skip] = n]
        /\ live' = live \cup {blk}
        /\ lost' = lost \cup Words(b + skip + n, k.size[b] - (n + skip))
    BY <1>1, <1>9
  <2>3. blk = [start |-> b + skip, ptr |-> b + Header + skip, len |-> n]
    OBVIOUS
  <2> HIDE DEF blk
  <2> QED BY <1>2, <1>3, <1>5, <1>7, <2>1, <2>2, <2>3, LongSkip
<1> QED BY <1>8, <1>9

-------------------------------------------------------------------------------
\* Merging.

\* The head may be behind the block b that was put in.
LooseHead(h, F, b) ==
  IF h.head = Null THEN \A c \in F : b <= c
  ELSE /\ h.head \in F \/ h.head > b
       /\ \A c \in F : h.head <= c \/ b <= c

\* Of the blocks F only b may touch a neighbour; nothing is said of where b ends.
Joining(h, F, b) ==
  /\ h \in HeapT /\ Linked(h, F) /\ b \in F /\ LooseHead(h, F, b)
  /\ \A a \in F \ {b} : MinSize <= h.size[a] /\ a + h.size[a] <= HeapSize
  /\ \A a, c \in F : a < c /\ a # b => a + h.size[a] <= c /\ (c # b => a + h.size[a] < c)
  /\ MinSize <= h.size[b]

\* b ends in the heap and before the next block, or it touches none
Snug(h, F, b) == b + h.size[b] <= HeapSize /\ \A c \in F : b < c => b + h.size[b] <= c
Clear(h, F, b) == b + h.size[b] <= HeapSize /\ \A c \in F : b < c => b + h.size[b] < c

\* no block touches b from below
ClearBelow(h, F, b) == \A a \in F : a < b => a + h.size[a] < b

LEMMA JoiningFacts ==
  ASSUME NEW h, NEW F, NEW b, Joining(h, F, b)
  PROVE  /\ h \in HeapT /\ Linked(h, F) /\ b \in F /\ LooseHead(h, F, b)
         /\ HeapSize \in Nat /\ MinSize = 4 /\ Huge = 2 * HeapSize /\ Null = -1
         /\ \A c \in F : c \in Addr /\ c \in Int /\ 0 <= c /\ c < HeapSize /\ c # Null
                         /\ h.size[c] \in Int /\ 4 <= h.size[c]
         /\ \A a \in F : a # b => a + h.size[a] <= HeapSize
         /\ \A a, c \in F : a < c /\ a # b => a + h.size[a] <= c /\ (c # b => a + h.size[a] < c)
         /\ IsNext(F, b, h.next[b]) /\ IsPrev(F, b, h.prev[b])
<1>1. h \in HeapT /\ Linked(h, F) /\ b \in F /\ LooseHead(h, F, b)
  BY DEF Joining
<1>2. HeapSize \in Nat /\ MinSize = 4 /\ Huge = 2 * HeapSize /\ Null = -1
  BY HeapSizeAssumption DEF MinSize, Huge, Null
<1>3. /\ \A c \in F : c \in Int /\ 0 <= c /\ c < HeapSize /\ c \in Addr
      /\ \A c \in F : c # Null
  BY <1>1, <1>2, LinkedTypes
<1>4. \A c \in F : h.size[c] \in Int
  BY <1>1, <1>3 DEF HeapT
<1>5. /\ \A a \in F \ {b} : 4 <= h.size[a] /\ a + h.size[a] <= HeapSize
      /\ \A a, c \in F : a < c /\ a # b => a + h.size[a] <= c /\ (c # b => a + h.size[a] < c)
      /\ 4 <= h.size[b]
  BY <1>2 DEF Joining
<1>6. IsNext(F, b, h.next[b]) /\ IsPrev(F, b, h.prev[b])
  BY <1>1 DEF Linked
<1>7. \A c \in F : 4 <= h.size[c]
  BY <1>5
<1> QED BY <1>1, <1>2, <1>3, <1>4, <1>5, <1>6, <1>7

\* k is h with the block y, which begins where x ends, joined to x.
Joined(h, x, y, k) ==
  /\ k \in HeapT /\ k.head = h.head
  /\ \A c \in Addr : k.size[c] = IF c = y THEN 0 ELSE IF c = x THEN h.size[x] + h.size[y]
                                 ELSE h.size[c]
  /\ \A c \in Addr : k.next[c] = IF c = y THEN Null ELSE IF c = x THEN h.next[y] ELSE h.next[c]
  /\ \A c \in Addr : k.prev[c] = IF c = y THEN Null ELSE IF c = h.next[y] THEN x ELSE h.prev[c]

JoinTo(h, x, y) == Forget([Link(h, x, h.next[y]) EXCEPT !.size[x] = @ + h.size[y]], y)

LEMMA JoinFacts ==
  ASSUME NEW h \in HeapT, NEW F, Linked(h, F), NEW x \in F, NEW y \in F, x < y,
         h.prev[y] = x, x + h.size[x] = y,
         \A c \in F : h.size[c] \in Int /\ 4 <= h.size[c]
  PROVE  \A k : k = JoinTo(h, x, y) =>
           Joined(h, x, y, k) /\ Linked(k, F \ {y}) /\ Covered(k, F \ {y}) = Covered(h, F)
<1> SUFFICES /\ Joined(h, x, y, JoinTo(h, x, y))
             /\ Linked(JoinTo(h, x, y), F \ {y})
             /\ Covered(JoinTo(h, x, y), F \ {y}) = Covered(h, F)
  OBVIOUS
<1> DEFINE k == JoinTo(h, x, y)
           q == h.next[y]
           l == Link(h, x, q)
           z == l.size[x] + h.size[y]
           m == [l EXCEPT !.size[x] = z]
           G == F \ {y}
<1>1. /\ \A c \in F : c \in Addr /\ c \in Int /\ c # Null
      /\ \A c \in Addr : c \in Int /\ c # Null
  <2>1. F \subseteq Addr
    BY DEF Linked
  <2> QED BY <2>1 DEF Addr, Null
<1>2. x \in Addr /\ y \in Addr /\ x \in Ptr /\ q \in Ptr /\ x # y
  BY <1>1 DEF HeapT, Ptr
<1>3. k = Forget(m, y)
  BY DEF JoinTo
<1> HIDE DEF q, k
<1>4. /\ l \in HeapT /\ l.head = h.head /\ l.size = h.size
      /\ \A c \in Addr : l.next[c] = IF c = x THEN q ELSE h.next[c]
      /\ \A c \in Addr : l.prev[c] = IF c = q THEN x ELSE h.prev[c]
  <2>1. IsLink(h, x, q, l)
    BY <1>2, LinkFacts
  <2> HIDE DEF l
  <2> QED BY <2>1 DEF IsLink
<1> HIDE DEF l
<1>5. z = h.size[x] + h.size[y] /\ z \in Int
  BY <1>4
<1> HIDE DEF z
<1>6. /\ m \in HeapT /\ m.head = l.head /\ m.next = l.next /\ m.prev = l.prev
      /\ \A c \in Addr : m.size[c] = IF c = x THEN z ELSE l.size[c]
  BY <1>2, <1>4, <1>5, SizeFacts
<1> HIDE DEF m
<1>7. /\ k \in HeapT /\ k.head = m.head
      /\ \A c \in Addr : k.size[c] = IF c = y THEN 0 ELSE m.size[c]
      /\ \A c \in Addr : k.next[c] = IF c = y THEN Null ELSE m.next[c]
      /\ \A c \in Addr : k.prev[c] = IF c = y THEN Null ELSE m.prev[c]
  <2>1. IsForgotten(m, y, k)
    BY <1>2, <1>3, <1>6, ForgetFacts
  <2> QED BY <2>1 DEF IsForgotten
<1>8. /\ k.head = h.head
      /\ \A c \in Addr : k.size[c] = IF c = y THEN 0 ELSE IF c = x THEN z ELSE h.size[c]
      /\ \A c \in Addr : k.next[c] = IF c = y THEN Null ELSE IF c = x THEN q ELSE h.next[c]
      /\ \A c \in Addr : k.prev[c] = IF c = y THEN Null ELSE IF c = q THEN x ELSE h.prev[c]
  BY <1>4, <1>6, <1>7
<1>9. Joined(h, x, y, k)
  BY <1>5, <1>7, <1>8 DEF Joined, q
<1>10. Linked(k, G)
  <2>1. h.next[y] = q /\ h.prev[y] = x
    BY DEF q
  <2>2. /\ \A c \in Addr : k.next[c] = IF c = y THEN Null
                                       ELSE IF c = h.prev[y] THEN h.next[y] ELSE h.next[c]
        /\ \A c \in Addr : k.prev[c] = IF c = y THEN Null
                                       ELSE IF c = h.next[y] THEN h.prev[y] ELSE h.prev[c]
    BY <1>8, <2>1
  <2> HIDE DEF G
  <2>3. Linked(k, F \ {y})
    BY <1>7, <2>2, RemoveList
  <2> QED BY <2>3 DEF G
<1>11. Covered(k, G) = Covered(h, F)
  <2>1. k.size[x] = z /\ x \in G
    BY <1>2, <1>8
  <2>2. \A c \in F : c # x /\ c # y => c \in G /\ k.size[c] = h.size[c]
    BY <1>1, <1>8
  <2>3. ASSUME NEW w \in Addr
        PROVE  (\E a \in G : a <= w /\ w < a + k.size[a])
                 <=> (\E a \in F : a <= w /\ w < a + h.size[a])
    <3>0. /\ w \in Int /\ x \in Int /\ y \in Int /\ x + z = y + h.size[y] /\ y = x + h.size[x]
          /\ h.size[x] \in Int /\ h.size[y] \in Int /\ 4 <= h.size[x] /\ 4 <= h.size[y]
      BY <1>1, <1>5
    <3>1. ASSUME NEW a \in G, a <= w, w < a + k.size[a]
          PROVE  \E e \in F : e <= w /\ w < e + h.size[e]
      <4>1. CASE a = x
        <5>1. x <= w /\ w < x + z
          BY <2>1, <3>1, <4>1
        <5>2. (x <= w /\ w < x + h.size[x]) \/ (y <= w /\ w < y + h.size[y])
          BY <3>0, <5>1
        <5> QED BY <5>2
      <4>2. CASE a # x
        BY <2>2, <3>1, <4>2
      <4> QED BY <4>1, <4>2
    <3>2. ASSUME NEW a \in F, a <= w, w < a + h.size[a]
          PROVE  \E e \in G : e <= w /\ w < e + k.size[e]
      <4>1. CASE a = x \/ a = y
        <5>1. x <= w /\ w < x + z
          BY <1>5, <3>0, <3>2, <4>1
        <5> QED BY <2>1, <5>1
      <4>2. CASE a # x /\ a # y
        BY <2>2, <3>2, <4>2
      <4> QED BY <4>1, <4>2
    <3> QED BY <3>1, <3>2
  <2> HIDE DEF G
  <2> QED BY <2>3 DEF Covered
<1> QED BY <1>9, <1>10, <1>11 DEF k

\* What a step of merging keeps: whether b reaches over the heap, and the words.
Kept(h, F, k, G) ==
  /\ G \subseteq F
  /\ \A c \in Addr \ F : k.size[c] = h.size[c]
  /\ Covered(k, G) = Covered(h, F)

LEMMA MergeNextFacts ==
  ASSUME NEW h, NEW F, NEW b, Joining(h, F, b), Snug(h, F, b) \/ h.size[b] >= Huge,
         NEW k, k = MergeNext(h, b)
  PROVE  \E G : /\ Joining(k, G, b)
                /\ Kept(h, F, k, G)
                /\ Snug(h, F, b) => Clear(k, G, b)
                /\ h.size[b] >= Huge => k.size[b] >= Huge
<1> DEFINE y == h.next[b]
           G == F \ {y}
<1>1. /\ h \in HeapT /\ Linked(h, F) /\ b \in F /\ LooseHead(h, F, b)
      /\ HeapSize \in Nat /\ MinSize = 4 /\ Huge = 2 * HeapSize /\ Null = -1
      /\ \A c \in F : c \in Addr /\ c \in Int /\ 0 <= c /\ c < HeapSize /\ c # Null
                      /\ h.size[c] \in Int /\ 4 <= h.size[c]
      /\ \A a \in F : a # b => a + h.size[a] <= HeapSize
      /\ \A a, c \in F : a < c /\ a # b => a + h.size[a] <= c /\ (c # b => a + h.size[a] < c)
      /\ IsNext(F, b, y)
  BY JoiningFacts
<1>2. b \in Int /\ h.size[b] \in Int /\ 0 <= b /\ 4 <= h.size[b]
  BY <1>1
<1>3. CASE y # Null /\ b + h.size[b] = y
  <2>1. k = JoinTo(h, b, y)
    BY <1>3 DEF MergeNext, JoinTo
  <2>2. y \in F /\ b < y /\ \A c \in F : c <= b \/ y <= c
    BY <1>1, <1>3 DEF IsNext
  <2>3. h.prev[y] = b
    BY <1>1, <1>3, BothWays
  <2> HIDE DEF y
  <2>4. /\ y \in Int /\ h.size[y] \in Int /\ 4 <= h.size[y] /\ y # b /\ y < HeapSize
        /\ y + h.size[y] <= HeapSize /\ b \in Addr /\ y \in Addr
    BY <1>1, <1>2, <2>2
  <2>5. Joined(h, b, y, k) /\ Linked(k, G) /\ Covered(k, G) = Covered(h, F)
    BY <1>1, <1>3, <2>1, <2>2, <2>3, JoinFacts
  <2>6. /\ k \in HeapT /\ k.head = h.head
        /\ \A c \in Addr : k.size[c] = IF c = y THEN 0 ELSE IF c = b THEN h.size[b] + h.size[y]
                                       ELSE h.size[c]
    BY <2>5 DEF Joined
  <2>7. k.size[b] = h.size[b] + h.size[y] /\ b + k.size[b] = y + h.size[y]
    <3>1. k.size[b] = h.size[b] + h.size[y]
      BY <2>4, <2>6
    <3> QED BY <1>2, <1>3, <2>4, <3>1
  <2>8. \A c \in F : c # b /\ c # y => c \in G /\ k.size[c] = h.size[c]
    BY <1>1, <2>6
  <2>9. LooseHead(k, G, b)
    <3>1. CASE h.head = Null
      BY <1>1, <2>6, <3>1 DEF LooseHead
    <3>2. CASE h.head # Null
      <4>1. (h.head \in F \/ h.head > b) /\ \A c \in F : h.head <= c \/ b <= c
        BY <1>1, <3>2 DEF LooseHead
      <4>2. h.head \in G \/ h.head > b
        BY <1>2, <2>2, <2>4, <4>1
      <4> QED BY <2>6, <3>2, <4>1, <4>2 DEF LooseHead
    <3> QED BY <3>1, <3>2
  <2>10. Joining(k, G, b)
    <3>1. b \in G
      BY <1>1, <2>4
    <3>2. \A a \in G \ {b} : MinSize <= k.size[a] /\ a + k.size[a] <= HeapSize
      BY <1>1, <2>8
    <3>3. ASSUME NEW a \in G, NEW c \in G, a < c, a # b
          PROVE  a + k.size[a] <= c /\ (c # b => a + k.size[a] < c)
      <4>1. k.size[a] = h.size[a]
        BY <2>8, <3>3
      <4> QED BY <1>1, <3>3, <4>1
    <3>4. MinSize <= k.size[b]
      BY <1>1, <1>2, <2>4, <2>7
    <3> QED BY <2>5, <2>6, <2>9, <3>1, <3>2, <3>3, <3>4 DEF Joining
  <2>11. Clear(k, G, b)
    <3>1. b + k.size[b] <= HeapSize
      BY <2>4, <2>7
    <3>2. ASSUME NEW c \in G, b < c PROVE b + k.size[b] < c
      <4>1. c \in Int /\ y < c
        <5>1. c \in Int /\ ~(c <= b) /\ c # y
          BY <1>1, <1>2, <3>2
        <5>2. y <= c
          BY <2>2, <5>1
        <5> QED BY <2>4, <5>1, <5>2
      <4>2. c # b
        BY <1>2, <3>2, <4>1
      <4>3. y + h.size[y] < c
        BY <1>1, <2>2, <2>4, <4>1, <4>2
      <4> QED BY <2>7, <4>3
    <3> QED BY <3>1, <3>2 DEF Clear
  <2>12. Kept(h, F, k, G)
    <3>1. \A c \in Addr \ F : k.size[c] = h.size[c]
      BY <1>1, <2>2, <2>6
    <3> QED BY <2>5, <3>1 DEF Kept
  <2>13. h.size[b] >= Huge => k.size[b] >= Huge
    BY <1>1, <1>2, <2>4, <2>7
  <2> QED BY <2>10, <2>11, <2>12, <2>13
<1>4. CASE ~(y # Null /\ b + h.size[b] = y)
  <2>1. k = h
    BY <1>4 DEF MergeNext
  <2>2. Snug(h, F, b) => Clear(h, F, b)
    <3> SUFFICES ASSUME Snug(h, F, b), NEW c \in F, b < c PROVE b + h.size[b] < c
      BY DEF Snug, Clear
    <3>1. c \in Int /\ ~(c <= b)
      BY <1>1, <1>2
    <3>2. y # Null /\ y \in F /\ b < y /\ y <= c
      BY <1>1, <3>1 DEF IsNext
    <3>3. b + h.size[b] <= y /\ b + h.size[b] # y
      BY <1>4, <3>2 DEF Snug
    <3>4. y \in Int
      BY <1>1, <3>2
    <3> HIDE DEF y
    <3> QED BY <1>2, <3>1, <3>2, <3>3, <3>4
  <2>3. Kept(h, F, h, F)
    BY DEF Kept
  <2> QED BY <2>1, <2>2, <2>3
<1> QED BY <1>3, <1>4

LEMMA MergePrevFacts ==
  ASSUME NEW h, NEW F, NEW b, Joining(h, F, b), Clear(h, F, b) \/ h.size[b] >= Huge
  PROVE  LET m == MergePrev(h, b)
         IN  \E G : /\ Joining(m.h, G, m.b)
                    /\ ClearBelow(m.h, G, m.b)
                    /\ Kept(h, F, m.h, G)
                    /\ Clear(h, F, b) => Clear(m.h, G, m.b)
                    /\ h.size[b] >= Huge => m.h.size[m.b] >= Huge
<1> DEFINE x == h.prev[b]
           G == F \ {b}
           m == MergePrev(h, b)
<1>1. /\ h \in HeapT /\ Linked(h, F) /\ b \in F /\ LooseHead(h, F, b)
      /\ HeapSize \in Nat /\ MinSize = 4 /\ Huge = 2 * HeapSize /\ Null = -1
      /\ \A c \in F : c \in Addr /\ c \in Int /\ 0 <= c /\ c < HeapSize /\ c # Null
                      /\ h.size[c] \in Int /\ 4 <= h.size[c]
      /\ \A a \in F : a # b => a + h.size[a] <= HeapSize
      /\ \A a, c \in F : a < c /\ a # b => a + h.size[a] <= c /\ (c # b => a + h.size[a] < c)
      /\ IsPrev(F, b, x)
  <2> HIDE DEF m, G
  <2> QED BY JoiningFacts
<1>2. b \in Int /\ h.size[b] \in Int /\ 0 <= b /\ 4 <= h.size[b]
  BY <1>1
<1>3. CASE x # Null /\ x + h.size[x] = b
  <2> DEFINE k == JoinTo(h, x, b)
  <2>1. m = [h |-> k, b |-> x]
    BY <1>3 DEF MergePrev, JoinTo
  <2>2. x \in F /\ x < b /\ \A c \in F : c <= x \/ b <= c
    BY <1>1, <1>3 DEF IsPrev
  <2>3. h.prev[b] = x
    OBVIOUS
  <2> HIDE DEF x, m, k
  <2>4. x \in Int /\ h.size[x] \in Int /\ 4 <= h.size[x] /\ x # b /\ x \in Addr /\ b \in Addr
    BY <1>1, <1>2, <2>2
  <2>5. Joined(h, x, b, k) /\ Linked(k, G) /\ Covered(k, G) = Covered(h, F)
    <3> HIDE DEF G
    <3>1. /\ h \in HeapT /\ Linked(h, F) /\ b \in F
          /\ \A c \in F : h.size[c] \in Int /\ 4 <= h.size[c]
      BY <1>1
    <3>2. k = JoinTo(h, x, b)
      BY DEF k
    <3>3. G = F \ {b}
      BY DEF G
    <3> QED BY <1>1, <1>3, <2>2, <2>3, <3>1, <3>2, <3>3, JoinFacts
  <2>6. /\ k \in HeapT /\ k.head = h.head
        /\ \A c \in Addr : k.size[c] = IF c = b THEN 0 ELSE IF c = x THEN h.size[x] + h.size[b]
                                       ELSE h.size[c]
    BY <2>5 DEF Joined
  <2>7. k.size[x] = h.size[x] + h.size[b] /\ x + k.size[x] = b + h.size[b]
    <3>1. k.size[x] = h.size[x] + h.size[b]
      BY <2>4, <2>6
    <3> QED BY <1>2, <1>3, <2>4, <3>1
  <2>8. \A c \in F : c # x /\ c # b => c \in G /\ k.size[c] = h.size[c]
    BY <1>1, <2>6
  <2>9. LooseHead(k, G, x)
    <3>1. CASE h.head = Null
      <4>1. b <= x
        BY <1>1, <2>2, <3>1 DEF LooseHead
      <4> QED BY <1>2, <2>2, <2>4, <4>1
    <3>2. CASE h.head # Null
      <4>1. (h.head \in F \/ h.head > b) /\ \A c \in F : h.head <= c \/ b <= c
        BY <1>1, <3>2 DEF LooseHead
      <4>2. h.head \in Int
        BY <1>1 DEF HeapT, Ptr, Addr
      <4>3. h.head <= x
        <5>1. h.head <= x \/ b <= x
          BY <2>2, <4>1
        <5> QED BY <1>2, <2>2, <2>4, <5>1
      <4>4. h.head \in G
        <5>1. h.head # b /\ ~(h.head > b)
          BY <1>2, <2>2, <2>4, <4>2, <4>3
        <5> QED BY <4>1, <5>1
      <4>5. ASSUME NEW c \in G PROVE h.head <= c \/ x <= c
        <5>1. h.head <= c \/ b <= c
          BY <4>1
        <5>2. c \in Int
          BY <1>1
        <5> QED BY <1>2, <2>2, <2>4, <5>1, <5>2
      <4> QED BY <2>6, <3>2, <4>4, <4>5 DEF LooseHead
    <3> QED BY <3>1, <3>2
  <2>10. Joining(k, G, x)
    <3>1. x \in G
      BY <2>2, <2>4
    <3>2. \A a \in G \ {x} : MinSize <= k.size[a] /\ a + k.size[a] <= HeapSize
      BY <1>1, <2>8
    <3>3. ASSUME NEW a \in G, NEW c \in G, a < c, a # x
          PROVE  a + k.size[a] <= c /\ (c # x => a + k.size[a] < c)
      <4>1. k.size[a] = h.size[a] /\ a # b /\ a \in F /\ c \in F /\ c # b
        BY <2>8, <3>3
      <4> QED BY <1>1, <3>3, <4>1
    <3>4. MinSize <= k.size[x]
      BY <1>1, <1>2, <2>4, <2>7
    <3> QED BY <2>5, <2>6, <2>9, <3>1, <3>2, <3>3, <3>4 DEF Joining
  <2>11. ClearBelow(k, G, x)
    <3> SUFFICES ASSUME NEW a \in G, a < x PROVE a + k.size[a] < x
      BY DEF ClearBelow
    <3>1. a \in F /\ a # b /\ a # x /\ x # b
      BY <1>1, <2>4
    <3>2. k.size[a] = h.size[a]
      BY <2>8, <3>1
    <3> QED BY <1>1, <2>2, <3>1, <3>2
  <2>12. Clear(h, F, b) => Clear(k, G, x)
    <3> SUFFICES ASSUME Clear(h, F, b) PROVE Clear(k, G, x)
      OBVIOUS
    <3>1. x + k.size[x] <= HeapSize
      BY <2>7 DEF Clear
    <3>2. ASSUME NEW c \in G, x < c PROVE x + k.size[x] < c
      <4>1. c \in Int /\ ~(c <= x) /\ c # b
        BY <1>1, <2>4, <3>2
      <4>2. b <= c
        BY <2>2, <4>1
      <4>3. b < c
        BY <1>2, <4>1, <4>2
      <4>4. b + h.size[b] < c
        BY <4>3 DEF Clear
      <4> QED BY <2>7, <4>4
    <3> QED BY <3>1, <3>2 DEF Clear
  <2>13. Kept(h, F, k, G)
    <3>1. \A c \in Addr \ F : k.size[c] = h.size[c]
      BY <1>1, <2>2, <2>6
    <3> QED BY <2>5, <3>1 DEF Kept
  <2>14. h.size[b] >= Huge => k.size[x] >= Huge
    BY <1>1, <1>2, <2>4, <2>7
  <2>15. m.h = k /\ m.b = x
    BY <2>1
  <2> HIDE DEF G
  <2> QED BY <2>10, <2>11, <2>12, <2>13, <2>14, <2>15 DEF m
<1>4. CASE ~(x # Null /\ x + h.size[x] = b)
  <2>1. m = [h |-> h, b |-> b]
    BY <1>4 DEF MergePrev
  <2>2. ClearBelow(h, F, b)
    <3> SUFFICES ASSUME NEW a \in F, a < b PROVE a + h.size[a] < b
      BY DEF ClearBelow
    <3>0. \A c \in F : c \in Int /\ h.size[c] \in Int
      BY <1>1
    <3>1. a \in Int /\ ~(b <= a) /\ a # b /\ h.size[a] \in Int
      <4>1. a \in Int /\ h.size[a] \in Int
        BY <3>0
      <4> QED BY <1>2, <4>1
    <3>2. x # Null /\ x \in F /\ x < b /\ a <= x
      BY <1>1, <3>1 DEF IsPrev
    <3>3. x \in Int /\ x # b /\ h.size[x] \in Int
      <4>1. x \in Int /\ h.size[x] \in Int
        BY <3>0, <3>2
      <4> HIDE DEF x
      <4> QED BY <1>2, <3>2, <4>1
    <3>4. x + h.size[x] <= b /\ x + h.size[x] # b
      BY <1>1, <1>4, <3>2, <3>3
    <3>5. CASE a = x
      <4> HIDE DEF x
      <4> QED BY <1>2, <3>3, <3>4, <3>5
    <3>6. CASE a # x
      <4>1. a < x
        BY <3>1, <3>2, <3>3, <3>6
      <4>2. a + h.size[a] < x
        BY <1>1, <3>1, <3>2, <3>3, <4>1
      <4> HIDE DEF x
      <4> QED BY <1>2, <3>1, <3>2, <3>3, <4>2
    <3> QED BY <3>5, <3>6
  <2>3. Kept(h, F, h, F)
    BY DEF Kept
  <2>4. m.h = h /\ m.b = b
    BY <2>1
  <2> HIDE DEF m
  <2> QED BY <2>2, <2>3, <2>4 DEF m
<1> QED BY <1>3, <1>4

\* After one round there is nothing left to merge.
Settled(h, G, b) ==
  /\ Joining(h, G, b) /\ ClearBelow(h, G, b)
  /\ Clear(h, G, b) \/ h.size[b] >= Huge

LEMMA MergeFacts ==
  ASSUME NEW h, NEW F, NEW b, Joining(h, F, b), Snug(h, F, b) \/ h.size[b] >= Huge
  PROVE  LET m == Merge(h, b)
         IN  \E G : /\ Settled(m.h, G, m.b)
                    /\ Kept(h, F, m.h, G)
                    /\ Snug(h, F, b) => Clear(m.h, G, m.b)
                    /\ h.size[b] >= Huge => m.h.size[m.b] >= Huge
<1> DEFINE k == MergeNext(h, b)
           m == MergePrev(k, b)
<1>1. Merge(h, b) = m
  BY DEF Merge
<1> HIDE DEF k
<1>2. PICK G1 : /\ Joining(k, G1, b)
                /\ Kept(h, F, k, G1)
                /\ Snug(h, F, b) => Clear(k, G1, b)
                /\ h.size[b] >= Huge => k.size[b] >= Huge
  BY MergeNextFacts DEF k
<1>3. PICK G : /\ Joining(m.h, G, m.b)
               /\ ClearBelow(m.h, G, m.b)
               /\ Kept(k, G1, m.h, G)
               /\ Clear(k, G1, b) => Clear(m.h, G, m.b)
               /\ k.size[b] >= Huge => m.h.size[m.b] >= Huge
  BY <1>2, MergePrevFacts
<1> HIDE DEF m
<1>4. Kept(h, F, m.h, G)
  BY <1>2, <1>3 DEF Kept
<1>5. Settled(m.h, G, m.b)
  BY <1>2, <1>3 DEF Settled
<1> QED BY <1>1, <1>2, <1>3, <1>4, <1>5

LEMMA SettledStays ==
  ASSUME NEW h, NEW G, NEW b, Settled(h, G, b)
  PROVE  Merge(h, b) = [h |-> h, b |-> b]
<1> DEFINE y == h.next[b]
           x == h.prev[b]
<1>1. /\ b \in G /\ HeapSize \in Nat /\ Huge = 2 * HeapSize
      /\ \A c \in G : c \in Int /\ 0 <= c /\ c < HeapSize /\ h.size[c] \in Int
      /\ IsNext(G, b, y) /\ IsPrev(G, b, x)
  BY JoiningFacts DEF Settled
<1>2. ~(y # Null /\ b + h.size[b] = y)
  <2> SUFFICES ASSUME y # Null, b + h.size[b] = y PROVE FALSE
    OBVIOUS
  <2>1. y \in G /\ b < y
    BY <1>1 DEF IsNext
  <2>2. y \in Int /\ y < HeapSize /\ b \in Int /\ 0 <= b /\ h.size[b] \in Int
    BY <1>1, <2>1
  <2> HIDE DEF y
  <2>3. CASE Clear(h, G, b)
    <3>1. b + h.size[b] < y
      BY <2>1, <2>3 DEF Clear
    <3> QED BY <2>2, <3>1
  <2>4. CASE h.size[b] >= Huge
    BY <1>1, <2>2, <2>4
  <2> QED BY <2>3, <2>4 DEF Settled
<1>3. ~(x # Null /\ x + h.size[x] = b)
  <2> SUFFICES ASSUME x # Null, x + h.size[x] = b PROVE FALSE
    OBVIOUS
  <2>1. x \in G /\ x < b
    BY <1>1 DEF IsPrev
  <2>2. x + h.size[x] < b
    BY <2>1 DEF Settled, ClearBelow
  <2>3. b \in Int
    BY <1>1
  <2> HIDE DEF x
  <2> QED BY <2>2, <2>3
<1>4. MergeNext(h, b) = h
  BY <1>2 DEF MergeNext
<1>5. MergePrev(h, b) = [h |-> h, b |-> b]
  BY <1>3 DEF MergePrev
<1> QED BY <1>4, <1>5 DEF Merge

LEMMA MergeAllFacts ==
  ASSUME NEW h, NEW b, NEW m, m = Merge(h, b), Merge(m.h, m.b) = [h |-> m.h, b |-> m.b]
  PROVE  MergeAll(h, b).h = m.h /\ MergeAll(h, b).b = m.b
<1> DEFINE N == HeapSize \div MinSize
           z == [h |-> h, b |-> b, done |-> FALSE]
           Round(last) == IF last.done THEN last
                          ELSE [h |-> Merge(last.h, last.b).h, b |-> Merge(last.h, last.b).b,
                                done |-> Merge(last.h, last.b).b = last.b]
           f[n \in Nat] == IF n = 0 THEN z ELSE Round(f[n - 1])
           e == [n \in Nat |-> IF n = 0 THEN z
                               ELSE [h |-> m.h, b |-> m.b, done |-> n # 1 \/ m.b = b]]
<1>1. N \in Nat /\ N > 0
  BY HeapSizeAssumption DEF MinSize
<1>2. MergeAll(h, b) = f[N]
  BY DEF MergeAll
<1>3. Round(z) = [h |-> m.h, b |-> m.b, done |-> m.b = b]
  OBVIOUS
<1>4. \A d \in BOOLEAN : Round([h |-> m.h, b |-> m.b, done |-> d])
                           = [h |-> m.h, b |-> m.b, done |-> TRUE]
  <2> SUFFICES ASSUME NEW d \in BOOLEAN
               PROVE  Round([h |-> m.h, b |-> m.b, done |-> d])
                        = [h |-> m.h, b |-> m.b, done |-> TRUE]
    OBVIOUS
  <2>1. CASE d = TRUE
    BY <2>1
  <2>2. CASE d = FALSE
    <3> DEFINE r == [h |-> m.h, b |-> m.b, done |-> d]
               t == Merge(m.h, m.b)
    <3>1. r.h = m.h /\ r.b = m.b /\ r.done = FALSE
      BY <2>2
    <3>2. t.h = m.h /\ t.b = m.b
      OBVIOUS
    <3> HIDE DEF r
    <3>3. Round(r) = [h |-> t.h, b |-> t.b, done |-> t.b = m.b]
      BY <3>1
    <3> HIDE DEF t, Round
    <3>4. Round(r) = [h |-> m.h, b |-> m.b, done |-> TRUE]
      <4>1. (t.b = m.b) = TRUE
        BY <3>2
      <4> QED BY <3>2, <3>3, <4>1
    <3> QED BY <3>4 DEF r
  <2> QED BY <2>1, <2>2
<1> HIDE DEF Round, z
<1>5. ASSUME NEW n \in Nat PROVE e[n] = IF n = 0 THEN z ELSE Round(e[n - 1])
  <2>1. CASE n = 0
    BY <2>1
  <2>2. CASE n = 1
    <3>1. e[n - 1] = z
      BY <2>2
    <3>2. e[n] = [h |-> m.h, b |-> m.b, done |-> m.b = b]
      BY <2>2
    <3> QED BY <1>3, <2>2, <3>1, <3>2
  <2>3. CASE n # 0 /\ n # 1
    <3> DEFINE d == n - 1 # 1 \/ m.b = b
    <3>1. n - 1 \in Nat /\ n - 1 # 0
      BY <2>3
    <3>2. e[n - 1] = [h |-> m.h, b |-> m.b, done |-> d] /\ d \in BOOLEAN
      BY <3>1
    <3>3. e[n] = [h |-> m.h, b |-> m.b, done |-> TRUE]
      BY <2>3
    <3> HIDE DEF d, e
    <3> QED BY <1>4, <2>3, <3>2, <3>3
  <2> QED BY <2>1, <2>2, <2>3
<1>6. e = [n \in Nat |-> IF n = 0 THEN z ELSE Round(e[n - 1])]
  <2>1. e = [n \in Nat |-> e[n]]
    OBVIOUS
  <2> HIDE DEF e
  <2> QED BY <1>5, <2>1
<1>7. f = [n \in Nat |-> IF n = 0 THEN z ELSE Round(f[n - 1])]
  <2> HIDE DEF e
  <2>1. \E g : g = [n \in Nat |-> IF n = 0 THEN z ELSE Round(g[n - 1])]
    BY <1>6
  <2> QED BY <2>1
<1> HIDE DEF f, e
<1> DEFINE S == {n \in Nat : \E d \in BOOLEAN :
                               f[n + 1] = [h |-> m.h, b |-> m.b, done |-> d]}
<1>8. 0 \in S
  <2>1. f[0] = z
    BY <1>7
  <2>2. f[0 + 1] = Round(f[0])
    <3>1. 0 + 1 \in Nat /\ 0 + 1 # 0 /\ (0 + 1) - 1 = 0
      OBVIOUS
    <3> QED BY <1>7, <3>1
  <2> QED BY <1>3, <2>1, <2>2
<1>9. ASSUME NEW n \in Nat, n \in S PROVE n + 1 \in S
  <2>1. PICK d \in BOOLEAN : f[n + 1] = [h |-> m.h, b |-> m.b, done |-> d]
    BY <1>9
  <2>2. f[(n + 1) + 1] = Round(f[n + 1])
    <3>1. (n + 1) + 1 \in Nat /\ (n + 1) + 1 # 0 /\ ((n + 1) + 1) - 1 = n + 1
      OBVIOUS
    <3> QED BY <1>7, <3>1
  <2>3. f[(n + 1) + 1] = [h |-> m.h, b |-> m.b, done |-> TRUE]
    BY <1>4, <2>1, <2>2
  <2>4. \E c \in BOOLEAN : f[(n + 1) + 1] = [h |-> m.h, b |-> m.b, done |-> c]
    BY <2>3
  <2> QED BY <2>4
<1>10. Nat \subseteq S
  <2> HIDE DEF S
  <2> QED BY <1>8, <1>9, NatSetInduction
<1>11. N - 1 \in S
  <2> HIDE DEF S, N
  <2>1. N - 1 \in Nat
    BY <1>1
  <2> QED BY <1>10, <2>1
<1>12. f[N].h = m.h /\ f[N].b = m.b
  <2>1. PICK d \in BOOLEAN : f[(N - 1) + 1] = [h |-> m.h, b |-> m.b, done |-> d]
    BY <1>11
  <2>2. (N - 1) + 1 = N
    <3> HIDE DEF N
    <3> QED BY <1>1
  <2> QED BY <2>1, <2>2
<1> QED BY <1>2, <1>12

-------------------------------------------------------------------------------
\* Freeing.

\* before and after are the neighbours in F of a block b that is not in it
Placed(F, b, before, after) ==
  /\ before \in F \cup {Null} /\ IsPrev(F, b, before)
  /\ after \in F \cup {Null} /\ IsNext(F, b, after)

\* The blocks that the data lies behind are the blocks before the one that is freed.
LEMMA InsertPlace ==
  ASSUME NEW h \in HeapT, NEW F, Linked(h, F), HeadOf(h, F), NEW b \in Addr, b \notin F,
         NEW ptr \in Int, \A c \in F : (ptr > c => c < b) /\ (ptr <= c => b < c),
         NEW l, l = FreeList(h), NEW k \in 0 .. Len(l),
         \A i \in 1 .. k : ptr > l[i], k < Len(l) => ptr <= l[k + 1],
         NEW before, before = IF k = 0 THEN Null ELSE l[k],
         NEW after, after = IF k = Len(l) THEN Null ELSE l[k + 1]
  PROVE  Placed(F, b, before, after)
<1> SUFFICES /\ before \in F \cup {Null} /\ IsPrev(F, b, before)
             /\ after \in F \cup {Null} /\ IsNext(F, b, after)
  BY DEF Placed
<1>1. /\ Len(l) \in Nat /\ \A i \in 1 .. Len(l) : l[i] \in F
      /\ h.head = Null => Len(l) = 0
      /\ h.head # Null => Len(l) > 0 /\ l[1] = h.head /\ h.next[l[Len(l)]] = Null
      /\ \A i \in 1 .. Len(l) - 1 : l[i + 1] = h.next[l[i]]
  BY FreeListFacts
<1> DEFINE n == Len(l)
<1>2. /\ n \in Nat /\ k \in Int /\ 0 <= k /\ k <= n
      /\ \A c \in F : c \in Int /\ c # Null
      /\ b \in Int
  <2>1. \A c \in F : c \in Int /\ c # Null
    BY LinkedTypes DEF Null
  <2> QED BY <1>1, <2>1 DEF Addr
<1>3. CASE k = 0
  <2>1. before = Null
    BY <1>3
  <2>2. CASE n = 0
    <3>1. F = {} /\ after = Null
      BY <1>1, <1>3, <2>2 DEF HeadOf
    <3> QED BY <2>1, <3>1 DEF IsPrev, IsNext
  <2>3. CASE n # 0
    <3>1. h.head # Null /\ l[1] = h.head
      BY <1>1, <2>3
    <3>2. after = h.head /\ ptr <= h.head
      <4>1. k # Len(l) /\ k < Len(l) /\ k + 1 = 1
        BY <1>2, <1>3, <2>3
      <4> QED BY <3>1, <4>1
    <3>3. h.head \in F /\ \A c \in F : h.head <= c
      BY <3>1 DEF HeadOf
    <3>4. after \in F /\ b < after /\ \A c \in F : after <= c
      BY <3>2, <3>3
    <3>5. \A c \in F : b <= c
      BY <1>2, <3>4
    <3> QED BY <1>2, <2>1, <3>4, <3>5 DEF IsPrev, IsNext
  <2> QED BY <2>2, <2>3
<1>4. CASE k # 0
  <2>1. k \in 1 .. k /\ k \in 1 .. n
    BY <1>2, <1>4
  <2>2. before = l[k] /\ before \in F /\ ptr > before
    BY <1>1, <1>4, <2>1
  <2>3. before < b /\ before # Null /\ before \in Int
    BY <1>2, <2>2
  <2>4. after = h.next[before]
    <3>1. CASE k = n
      <4>1. h.head # Null
        BY <1>1, <1>2, <1>4, <3>1
      <4> QED BY <1>1, <2>2, <3>1, <4>1
    <3>2. CASE k # n
      <4>1. k \in 1 .. n - 1
        BY <1>2, <1>4, <3>2
      <4> QED BY <1>1, <2>2, <3>2, <4>1
    <3> QED BY <3>1, <3>2
  <2>5. IsNext(F, before, after)
    BY <2>2, <2>4 DEF Linked
  <2>6. CASE after = Null
    <3>1. \A c \in F : c <= before
      BY <2>5, <2>6 DEF IsNext
    <3>2. \A c \in F : c <= b
      BY <1>2, <2>3, <3>1
    <3> QED BY <2>2, <2>3, <2>6, <3>1, <3>2 DEF IsPrev, IsNext
  <2>7. CASE after # Null
    <3>1. after \in F /\ \A c \in F : c <= before \/ after <= c
      BY <2>5, <2>7 DEF IsNext
    <3>2. k # n /\ k < n
      BY <1>2, <2>7
    <3>3. ptr <= after /\ b < after
      BY <3>1, <3>2
    <3>4. ASSUME NEW c \in F PROVE (c <= before \/ b <= c) /\ (c <= b \/ after <= c)
      <4>1. c \in Int /\ after \in Int
        BY <1>2, <3>1
      <4>2. c <= before \/ after <= c
        BY <3>1
      <4> QED BY <1>2, <2>3, <3>3, <4>1, <4>2
    <3> QED BY <2>2, <2>3, <2>7, <3>1, <3>3, <3>4 DEF IsPrev, IsNext
  <2> QED BY <2>6, <2>7
<1> QED BY <1>3, <1>4

\* Some number of the list's first blocks is what the data lies behind.
LEMMA PassedExists ==
  ASSUME NEW n \in Nat, NEW l, NEW ptr \in Int, \A i \in 1 .. n : l[i] \in Int
  PROVE  \E k \in 0 .. n : (\A i \in 1 .. k : ptr > l[i]) /\ (k < n => ptr <= l[k + 1])
<1> DEFINE T == {k \in 0 .. n : \A i \in 1 .. k : ptr > l[i]}
<1>1. 0 \in T
  OBVIOUS
<1>2. PICK k \in T : \A j \in T : j <= k
  <2>1. T # {} /\ T \subseteq 0 .. n
    BY <1>1
  <2> HIDE DEF T
  <2> QED BY <2>1, GreatestOf
<1>3. ASSUME k < n PROVE ptr <= l[k + 1]
  <2> SUFFICES ASSUME ~(ptr <= l[k + 1]) PROVE FALSE
    OBVIOUS
  <2>1. k + 1 \in 1 .. n /\ k + 1 \in 0 .. n /\ k \in Int
    BY <1>3
  <2>2. ptr > l[k + 1]
    BY <2>1
  <2>3. ASSUME NEW i \in 1 .. k + 1 PROVE ptr > l[i]
    <3>1. CASE i = k + 1
      BY <2>2, <3>1
    <3>2. CASE i # k + 1
      <4>1. i \in 1 .. k
        BY <2>1, <3>2
      <4> QED BY <4>1
    <3> QED BY <3>1, <3>2
  <2>4. k + 1 \in T
    BY <2>1, <2>3
  <2>5. k + 1 <= k
    BY <1>2, <2>4
  <2> QED BY <2>1, <2>5
<1> QED BY <1>3

\* k is the heap with the block that is freed, which starts at b, put into the list.
PutIn(h, F, blk, b, k) ==
  /\ Joining(k, F \cup {b}, b)
  /\ k.size = h.size /\ k.head = h.head
  /\ h.size[b] = blk.len => Snug(k, F \cup {b}, b)
  /\ h.size[b] = blk.len => \A w \in Addr : w \in Covered(k, F \cup {b})
                                <=> w \in Covered(h, F) \/ w \in LiveWords(blk)

LEMMA PutBack ==
  ASSUME NEW h \in HeapT, NEW F, NEW lv, lv \subseteq Block, NEW ls, Whole(h, F, lv, ls),
         NEW blk \in lv, NEW b, b = blk.start,
         NEW before \in F \cup {Null}, NEW after \in F \cup {Null},
         b \notin F, IsPrev(F, b, before), IsNext(F, b, after),
         NEW k, k = Link(Link(h, before, b), b, after)
  PROVE  PutIn(h, F, blk, b, k)
<1> DEFINE G == F \cup {b}
           j == Link(h, before, b)
<1>1. /\ Linked(h, F) /\ HeadOf(h, F) /\ Apart(h, F) /\ Held(h, blk) /\ blk \in Block
      /\ \A w \in LiveWords(blk) : w \notin Covered(h, F)
  BY DEF Whole, Shared
<1>2. /\ HeapSize \in Nat /\ MinSize = 4
      /\ \A c \in Addr : c \in Int /\ 0 <= c /\ c < HeapSize /\ c # Null /\ h.size[c] \in Int
      /\ \A c \in F : c \in Addr /\ 4 <= h.size[c] /\ c + h.size[c] <= HeapSize
      /\ \A a, c \in F : a < c => a + h.size[a] < c
  BY <1>1, ApartTypes
<1>3. /\ b \in Addr /\ b \in Int /\ 0 <= b
      /\ blk.len \in Int /\ 4 <= blk.len /\ b + blk.len <= HeapSize
      /\ \A w : w \in LiveWords(blk) <=> w \in Int /\ b <= w /\ w < b + blk.len
      /\ b \in LiveWords(blk)
  BY <1>1, BlockFacts
<1>4. before \in Ptr /\ after \in Ptr /\ b \in Ptr /\ b # before /\ b # after
  BY <1>2, <1>3 DEF Ptr
<1>5. /\ j \in HeapT /\ j.head = h.head /\ j.size = h.size
      /\ \A c \in Addr : j.next[c] = IF c = before THEN b ELSE h.next[c]
      /\ \A c \in Addr : j.prev[c] = IF c = b THEN before ELSE h.prev[c]
  <2>1. IsLink(h, before, b, j)
    BY <1>4, LinkFacts
  <2> HIDE DEF j
  <2> QED BY <2>1 DEF IsLink
<1>6. k = Link(j, b, after)
  OBVIOUS
<1> HIDE DEF j
<1>7. /\ k \in HeapT /\ k.head = j.head /\ k.size = j.size
      /\ \A c \in Addr : k.next[c] = IF c = b THEN after ELSE j.next[c]
      /\ \A c \in Addr : k.prev[c] = IF c = after THEN b ELSE j.prev[c]
  <2>1. IsLink(j, b, after, k)
    BY <1>4, <1>5, <1>6, LinkFacts
  <2> QED BY <2>1 DEF IsLink
<1>8. /\ k.head = h.head /\ k.size = h.size
      /\ \A c \in Addr : k.next[c] = IF c = before THEN b ELSE IF c = b THEN after ELSE h.next[c]
      /\ \A c \in Addr : k.prev[c] = IF c = after THEN b ELSE IF c = b THEN before ELSE h.prev[c]
  BY <1>4, <1>5, <1>7
<1>9. Linked(k, G)
  BY <1>1, <1>3, <1>7, <1>8, InsertList
<1>10. ASSUME NEW a \in F PROVE a + h.size[a] <= b \/ b < a
  <2>1. b \notin Covered(h, F)
    BY <1>1, <1>3
  <2>2. ~(a <= b /\ b < a + h.size[a])
    BY <1>3, <2>1 DEF Covered
  <2>3. a \in Int /\ h.size[a] \in Int
    BY <1>2
  <2> QED BY <1>3, <2>2, <2>3
<1>11. LooseHead(k, G, b)
  <2>1. CASE h.head = Null
    BY <1>1, <1>3, <1>8, <2>1 DEF HeadOf, LooseHead
  <2>2. CASE h.head # Null
    BY <1>1, <1>3, <1>8, <2>2 DEF HeadOf, LooseHead
  <2> QED BY <2>1, <2>2
<1>12. MinSize <= k.size[b]
  <2>1. h.size[b] \in {blk.len, 2 * HeapSize}
    BY <1>1 DEF Held, Huge
  <2>2. 4 <= 2 * HeapSize
    BY HeapSizeAssumption
  <2> QED BY <1>2, <1>3, <1>8, <2>1, <2>2
<1>13. Joining(k, G, b)
  <2>1. \A a \in G \ {b} : MinSize <= k.size[a] /\ a + k.size[a] <= HeapSize
    BY <1>2, <1>8
  <2>2. ASSUME NEW a \in G, NEW c \in G, a < c, a # b
        PROVE  a + k.size[a] <= c /\ (c # b => a + k.size[a] < c)
    <3>1. a \in F /\ a \in Int /\ h.size[a] \in Int
      BY <1>2, <2>2
    <3>2. CASE c = b
      <4>1. ~(b < a)
        BY <1>3, <2>2, <3>1, <3>2
      <4> QED BY <1>8, <1>10, <3>1, <3>2, <4>1
    <3>3. CASE c # b
      <4>1. c \in F /\ c \in Int
        BY <1>2, <3>3
      <4>2. a + h.size[a] < c
        BY <1>2, <2>2, <3>1, <4>1
      <4> QED BY <1>8, <3>1, <4>1, <4>2
    <3> QED BY <3>2, <3>3
  <2> QED BY <1>7, <1>9, <1>11, <1>12, <2>1, <2>2 DEF Joining
<1>14. ASSUME h.size[b] = blk.len PROVE Snug(k, G, b)
  <2>1. ASSUME NEW c \in G, b < c PROVE b + k.size[b] <= c
    <3>1. c \in F
      BY <1>3, <2>1
    <3>2. c \in Int /\ c \in Addr /\ 4 <= h.size[c] /\ h.size[c] \in Int
      BY <1>2, <3>1
    <3>3. c < c + h.size[c]
      BY <3>2
    <3>4. c \in Covered(h, F)
      BY <3>1, <3>2, <3>3 DEF Covered
    <3>5. ~(b <= c /\ c < b + blk.len)
      BY <1>1, <1>3, <3>2, <3>4
    <3> QED BY <1>3, <1>8, <1>14, <2>1, <3>2, <3>5
  <2> QED BY <1>3, <1>8, <1>14, <2>1 DEF Snug
<1>15. ASSUME h.size[b] = blk.len, NEW w \in Addr
       PROVE  w \in Covered(k, G) <=> w \in Covered(h, F) \/ w \in LiveWords(blk)
  <2>1. w \in Int
    BY <1>2
  <2>2. (\E a \in G : a <= w /\ w < a + k.size[a])
          <=> (\E a \in F : a <= w /\ w < a + h.size[a]) \/ (b <= w /\ w < b + blk.len)
    BY <1>8, <1>15
  <2> QED BY <1>3, <2>1, <2>2 DEF Covered
<1> QED BY <1>8, <1>13, <1>14, <1>15 DEF PutIn

\* What is left once all is merged, with the head where it belongs.
LEMMA MergedHead ==
  ASSUME NEW h, NEW G, NEW b, Settled(h, G, b),
         NEW g, g = [h EXCEPT !.head = IF @ = Null \/ @ > b THEN b ELSE @]
  PROVE  /\ g \in HeapT /\ Linked(g, G) /\ HeadOf(g, G) /\ g.size = h.size
         /\ b \in G /\ Covered(g, G) = Covered(h, G)
         /\ Clear(h, G, b) => Apart(g, G)
<1> DEFINE top == IF h.head = Null \/ h.head > b THEN b ELSE h.head
<1>1. /\ h \in HeapT /\ Linked(h, G) /\ b \in G /\ LooseHead(h, G, b)
      /\ MinSize = 4
      /\ \A c \in G : c \in Addr /\ c \in Int /\ c # Null /\ h.size[c] \in Int /\ 4 <= h.size[c]
      /\ \A a \in G : a # b => a + h.size[a] <= HeapSize
      /\ \A a, c \in G : a < c /\ a # b => a + h.size[a] <= c /\ (c # b => a + h.size[a] < c)
  <2>1. Joining(h, G, b)
    BY DEF Settled
  <2> HIDE DEF top
  <2>2. /\ h \in HeapT /\ Linked(h, G) /\ b \in G /\ LooseHead(h, G, b) /\ MinSize = 4
        /\ \A c \in G : c \in Addr /\ c \in Int /\ c # Null /\ h.size[c] \in Int /\ 4 <= h.size[c]
    BY <2>1, JoiningFacts
  <2>3. \A a \in G : a # b => a + h.size[a] <= HeapSize
    BY <2>1, JoiningFacts
  <2>4. \A a, c \in G : a < c /\ a # b => a + h.size[a] <= c /\ (c # b => a + h.size[a] < c)
    BY <2>1, JoiningFacts
  <2> QED BY <2>2, <2>3, <2>4
<1>2. top \in Ptr
  BY <1>1 DEF HeapT, Ptr
<1>3. g = [h EXCEPT !.head = top]
  OBVIOUS
<1> HIDE DEF top
<1>4. g \in HeapT /\ g.head = top /\ g.size = h.size /\ g.next = h.next /\ g.prev = h.prev
  <2>1. h \in HeapT
    BY <1>1
  <2> DEFINE q == [h EXCEPT !.head = top]
  <2>2. q \in HeapT /\ q.head = top /\ q.size = h.size /\ q.next = h.next /\ q.prev = h.prev
    BY <1>2, <2>1, HeadFacts
  <2>3. g = q
    BY <1>3
  <2> HIDE DEF q
  <2> QED BY ONLY <2>2, <2>3
<1>5. Linked(g, G)
  BY <1>1, <1>4 DEF Linked
<1>6. HeadOf(g, G)
  <2>1. CASE h.head = Null
    <3>1. g.head = b /\ \A c \in G : b <= c
      BY <1>1, <1>4, <2>1 DEF LooseHead, top
    <3> QED BY <1>1, <3>1 DEF HeadOf
  <2>2. CASE h.head # Null
    <3>1. /\ h.head \in G \/ h.head > b
          /\ \A c \in G : h.head <= c \/ b <= c
      BY <1>1, <2>2 DEF LooseHead
    <3>2. h.head \in Int /\ b \in Int
      BY <1>1 DEF HeapT, Ptr, Addr, Null
    <3>3. CASE h.head > b
      <4>1. g.head = b
        BY <1>4, <3>3 DEF top
      <4>2. \A c \in G : b <= c
        BY <1>1, <3>1, <3>2, <3>3
      <4> QED BY <1>1, <4>1, <4>2 DEF HeadOf
    <3>4. CASE ~(h.head > b)
      <4>1. g.head = h.head /\ h.head \in G
        BY <1>4, <2>2, <3>1, <3>4 DEF top
      <4>2. \A c \in G : h.head <= c
        BY <1>1, <3>1, <3>2, <3>4
      <4> QED BY <2>2, <4>1, <4>2 DEF HeadOf
    <3> QED BY <3>3, <3>4
  <2> QED BY <2>1, <2>2
<1>7. Covered(g, G) = Covered(h, G)
  BY <1>4 DEF Covered
<1>8. ASSUME Clear(h, G, b) PROVE Apart(g, G)
  <2>1. \A a \in G : MinSize <= g.size[a] /\ a + g.size[a] <= HeapSize
    BY <1>1, <1>4, <1>8 DEF Clear
  <2>2. ASSUME NEW a \in G, NEW c \in G, a < c PROVE a + g.size[a] < c
    <3>1. CASE a = b
      BY <1>4, <1>8, <2>2, <3>1 DEF Clear
    <3>2. CASE a # b /\ c = b
      BY <1>4, <2>2, <3>2 DEF Settled, ClearBelow
    <3>3. CASE a # b /\ c # b
      BY <1>1, <1>4, <2>2, <3>3
    <3> QED BY <3>1, <3>2, <3>3
  <2> QED BY <2>1, <2>2 DEF Apart
<1> QED BY <1>1, <1>4, <1>5, <1>6, <1>7, <1>8

\* What free makes of the heap: the blocks G are the list, the words of blk are theirs, and
\* a size that was written over is still in it.
Freed(h, F, blk, g, G) ==
  /\ g \in HeapT /\ Linked(g, G) /\ HeadOf(g, G) /\ G \subseteq F \cup {blk.start}
  /\ \A c \in Addr : c \notin F /\ c # blk.start => g.size[c] = h.size[c]
  /\ h.size[blk.start] = blk.len =>
       /\ Apart(g, G)
       /\ \A w \in Addr : w \in Covered(g, G) <=> w \in Covered(h, F) \/ w \in LiveWords(blk)
  /\ h.size[blk.start] # blk.len => \E c \in G : g.size[c] >= Huge

LEMMA MergedFree ==
  ASSUME NEW h \in HeapT, NEW F, NEW lv, lv \subseteq Block, NEW ls, Whole(h, F, lv, ls),
         NEW blk \in lv, NEW b, b = blk.start, NEW k, PutIn(h, F, blk, b, k),
         NEW a, a = MergeAll(k, b),
         NEW g, g = [a.h EXCEPT !.head = IF @ = Null \/ @ > a.b THEN a.b ELSE @]
  PROVE  \E G : Freed(h, F, blk, g, G)
<1> DEFINE H == F \cup {b}
           m == Merge(k, b)
<1>0. /\ Joining(k, H, b) /\ k.size = h.size
      /\ h.size[b] = blk.len => Snug(k, H, b)
      /\ h.size[b] = blk.len => \A w \in Addr : w \in Covered(k, H)
                                    <=> w \in Covered(h, F) \/ w \in LiveWords(blk)
  BY DEF PutIn
<1>1. h.size[b] \in {blk.len, Huge} /\ b \in Addr
  BY DEF Whole, Held, Block
<1>2. Snug(k, H, b) \/ k.size[b] >= Huge
  <2>1. CASE h.size[b] = blk.len
    BY <1>0, <2>1
  <2>2. CASE h.size[b] = Huge
    <3>1. k.size[b] = Huge /\ Huge \in Int
      BY <1>0, <2>2, HeapSizeAssumption DEF Huge
    <3> QED BY <3>1
  <2> QED BY <1>1, <2>1, <2>2
<1>3. PICK G : /\ Settled(m.h, G, m.b)
               /\ Kept(k, H, m.h, G)
               /\ Snug(k, H, b) => Clear(m.h, G, m.b)
               /\ k.size[b] >= Huge => m.h.size[m.b] >= Huge
  BY <1>0, <1>2, MergeFacts
<1>4. a.h = m.h /\ a.b = m.b
  <2>1. Merge(m.h, m.b) = [h |-> m.h, b |-> m.b]
    BY <1>3, SettledStays
  <2> HIDE DEF m
  <2>2. m = Merge(k, b)
    BY DEF m
  <2> QED BY <2>1, <2>2, MergeAllFacts
<1> HIDE DEF m
<1>5. /\ g \in HeapT /\ Linked(g, G) /\ HeadOf(g, G) /\ g.size = m.h.size
      /\ m.b \in G /\ Covered(g, G) = Covered(m.h, G)
      /\ Clear(m.h, G, m.b) => Apart(g, G)
  BY <1>3, <1>4, MergedHead
<1>6. /\ G \subseteq H
      /\ \A c \in Addr \ H : g.size[c] = h.size[c]
      /\ Covered(g, G) = Covered(k, H)
  BY <1>0, <1>3, <1>5 DEF Kept
<1>7. ASSUME h.size[b] # blk.len PROVE \E c \in G : g.size[c] >= Huge
  <2>1. k.size[b] >= Huge
    BY <1>0, <1>1, <1>7, HeapSizeAssumption DEF Huge
  <2> QED BY <1>3, <1>5, <2>1
<1> QED BY <1>0, <1>3, <1>5, <1>6, <1>7 DEF Freed

\* What is free and allocated after a block was freed.
LEMMA Returned ==
  ASSUME NEW h, NEW F, NEW lv, lv \subseteq Block, NEW ls, NEW blk \in lv, Whole(h, F, lv, ls),
         h \in HeapT, h.size[blk.start] = blk.len,
         NEW g, NEW G, Freed(h, F, blk, g, G)
  PROVE  Whole(g, G, lv \ {blk}, ls)
<1>1. /\ Linked(g, G) /\ HeadOf(g, G) /\ Apart(g, G)
      /\ \A c \in Addr : c \notin F /\ c # blk.start => g.size[c] = h.size[c]
      /\ \A w \in Addr : w \in Covered(g, G) <=> w \in Covered(h, F) \/ w \in LiveWords(blk)
  BY DEF Freed
<1>2. /\ \A x \in lv : \A w \in LiveWords(x) : w \notin Covered(h, F)
      /\ \A x, y \in lv : x # y => LiveWords(x) \cap LiveWords(y) = {}
      /\ \A w \in Addr : w \in Covered(h, F) \/ w \in ls \/ \E x \in lv : w \in LiveWords(x)
      /\ \A x \in lv : Held(h, x)
      /\ Apart(h, F)
  BY DEF Whole, Shared
<1>3. ASSUME NEW x \in lv, x # blk PROVE Held(g, x)
  <2>1. /\ x.start \in Addr /\ x.start \in LiveWords(x)
        /\ blk.start \in LiveWords(blk)
    BY <1>2, BlockFacts
  <2>2. x.start # blk.start
    BY <1>2, <1>3, <2>1
  <2>3. x.start \notin F
    <3> SUFFICES ASSUME x.start \in F PROVE FALSE
      OBVIOUS
    <3> DEFINE c == x.start
    <3>1. c \in Int /\ h.size[c] \in Int /\ 4 <= h.size[c]
      <4>1. c \in F /\ c \in Addr
        BY <2>1
      <4> HIDE DEF c
      <4>2. 4 <= h.size[c]
        BY <1>2, <4>1 DEF Apart, MinSize
      <4>3. h.size[c] \in Int
        BY <4>1 DEF HeapT
      <4>4. c \in Int
        BY <4>1 DEF Addr
      <4> QED BY <4>2, <4>3, <4>4
    <3> HIDE DEF c
    <3>2. c <= c /\ c < c + h.size[c]
      BY <3>1
    <3>3. c \in F /\ c \in Addr
      BY <2>1 DEF c
    <3>4. c \in Covered(h, F)
      BY <3>2, <3>3 DEF Covered
    <3>5. x.start \in Covered(h, F)
      BY <3>4 DEF c
    <3> QED BY <1>2, <2>1, <3>5
  <2> QED BY <1>1, <1>2, <2>1, <2>2, <2>3 DEF Held
<1>4. ASSUME NEW x \in lv, x # blk, NEW w \in LiveWords(x) PROVE w \notin Covered(g, G)
  <2>1. w \notin Covered(h, F) /\ w \notin LiveWords(blk)
    BY <1>2, <1>4
  <2>2. w \in Covered(g, G) => w \in Addr
    BY DEF Covered
  <2> QED BY <1>1, <2>1, <2>2
<1>5. ASSUME NEW w \in Addr
      PROVE  w \in Covered(g, G) \/ w \in ls \/ \E x \in lv \ {blk} : w \in LiveWords(x)
  BY <1>1, <1>2
<1>6. Shared(g, G, lv \ {blk}, ls)
  BY <1>2, <1>4, <1>5 DEF Shared
<1> QED BY <1>1, <1>3, <1>6 DEF Whole


LEMMA FreeKeeps ==
  ASSUME HeapInv, ~Clobbered, NEW blk \in live, Free(blk)
  PROVE  HeapInv'
<1> DEFINE F == FreeSet(heap)
           b == blk.start
           l == FreeList(heap)
           passed == CHOOSE k \in 0 .. Len(l) :
                       /\ \A i \in 1 .. k : blk.ptr > l[i]
                       /\ k < Len(l) => blk.ptr <= l[k + 1]
           before == IF passed = 0 THEN Null ELSE l[passed]
           after == IF passed = Len(l) THEN Null ELSE l[passed + 1]
           k == Link(Link(heap, before, b), b, after)
           a == MergeAll(k, b)
           g == [a.h EXCEPT !.head = IF @ = Null \/ @ > a.b THEN a.b ELSE @]
<1>1. heap' = g /\ live' = live \ {blk} /\ lost' = lost
  BY DEF Free
<1>2. /\ Typed(heap, live, lost) /\ heap \in HeapT /\ live \subseteq Block
      /\ Whole(heap, F, live, lost)
      /\ Linked(heap, F) /\ HeadOf(heap, F) /\ Apart(heap, F)
      /\ blk \in Block /\ Held(heap, blk)
      /\ \A w \in LiveWords(blk) : w \notin Covered(heap, F)
  BY DEF HeapInv, Typed, Whole, Shared
<1>3. /\ b \in Addr /\ b \in Int /\ blk.ptr \in Int
      /\ b + 3 <= blk.ptr /\ blk.ptr < b + blk.len /\ blk.len \in Int
      /\ b \in LiveWords(blk)
      /\ \A w : w \in LiveWords(blk) <=> w \in Int /\ b <= w /\ w < b + blk.len
  BY <1>2, BlockFacts
<1>4. /\ Len(l) \in Nat /\ \A i \in 1 .. Len(l) : l[i] \in F
  BY <1>2, FreeListFacts
<1> HIDE DEF F
<1>5. \A c \in F : c \in Int /\ c \in Addr /\ heap.size[c] \in Int /\ 4 <= heap.size[c]
  <2>1. \A c \in F : c \in Addr /\ 4 <= heap.size[c]
    BY <1>2, ApartTypes
  <2>2. \A c \in Addr : c \in Int /\ heap.size[c] \in Int
    BY <1>2, ApartTypes
  <2> QED BY <2>1, <2>2
<1>6. ASSUME NEW c \in F PROVE ~(b <= c /\ c < b + blk.len)
  <2>1. c \in Addr /\ c \in Int /\ c <= c /\ c < c + heap.size[c]
    BY <1>5
  <2>2. c \in Covered(heap, F)
    BY <2>1 DEF Covered
  <2> QED BY <1>2, <1>3, <2>1, <2>2
<1>7. b \notin F
  <2>1. b <= b /\ b < b + blk.len
    BY <1>3
  <2> HIDE DEF b
  <2> QED BY <1>6, <2>1
<1>8. \A c \in F : (blk.ptr > c => c < b) /\ (blk.ptr <= c => b < c)
  <2> SUFFICES ASSUME NEW c \in F
               PROVE  (blk.ptr > c => c < b) /\ (blk.ptr <= c => b < c)
    OBVIOUS
  <2>1. c \in Int /\ ~(b <= c /\ c < b + blk.len)
    BY <1>5, <1>6
  <2> HIDE DEF b
  <2> QED BY <1>3, <2>1
<1>9. /\ passed \in 0 .. Len(l)
      /\ \A i \in 1 .. passed : blk.ptr > l[i]
      /\ passed < Len(l) => blk.ptr <= l[passed + 1]
  <2>1. \A i \in 1 .. Len(l) : l[i] \in Int
    BY <1>4, <1>5
  <2> HIDE DEF l
  <2>2. \E j \in 0 .. Len(l) : (\A i \in 1 .. j : blk.ptr > l[i])
                                 /\ (j < Len(l) => blk.ptr <= l[j + 1])
    BY <1>3, <1>4, <2>1, PassedExists
  <2> QED BY <2>2
<1> HIDE DEF passed
<1>10. Placed(F, b, before, after)
  <2>1. l = FreeList(heap)
    OBVIOUS
  <2>2. before = IF passed = 0 THEN Null ELSE l[passed]
    OBVIOUS
  <2>3. after = IF passed = Len(l) THEN Null ELSE l[passed + 1]
    OBVIOUS
  <2> HIDE DEF l, before, after, b, k, a, g
  <2>4. heap \in HeapT /\ Linked(heap, F) /\ HeadOf(heap, F)
    BY <1>2
  <2>5. b \in Addr /\ blk.ptr \in Int
    BY <1>3
  <2> QED BY ONLY <1>7, <1>8, <1>9, <2>1, <2>2, <2>3, <2>4, <2>5, InsertPlace
<1> HIDE DEF l, before, after
<1>11. PutIn(heap, F, blk, b, k)
  <2>1. k = Link(Link(heap, before, b), b, after)
    OBVIOUS
  <2>2. b = blk.start
    OBVIOUS
  <2> HIDE DEF k, b
  <2>3. /\ before \in F \cup {Null} /\ IsPrev(F, b, before)
        /\ after \in F \cup {Null} /\ IsNext(F, b, after)
    BY <1>10 DEF Placed
  <2> QED BY <1>2, <1>7, <2>1, <2>2, <2>3, PutBack
<1> HIDE DEF k
<1>12. PICK G : Freed(heap, F, blk, g, G)
  <2>1. g = [a.h EXCEPT !.head = IF @ = Null \/ @ > a.b THEN a.b ELSE @]
    OBVIOUS
  <2> HIDE DEF g, a
  <2>2. a = MergeAll(k, b)
    BY DEF a
  <2> HIDE DEF b
  <2> QED BY <1>2, <1>11, <2>1, <2>2, MergedFree DEF b
<1> HIDE DEF g
<1>13. /\ g \in HeapT /\ Linked(g, G) /\ HeadOf(g, G)
       /\ heap.size[b] # blk.len => \E c \in G : g.size[c] >= Huge
  BY <1>12 DEF Freed
<1>14. Typed(heap', live', lost')
  BY <1>1, <1>2, <1>13 DEF Typed
<1>15. CASE heap.size[b] = blk.len
  <2>1. Whole(g, G, live \ {blk}, lost)
    BY <1>2, <1>12, <1>15, Returned
  <2>2. Whole(heap', G, live', lost')
    BY <1>1, <2>1
  <2> QED BY <1>14, <2>2, WholeNext
<1>16. CASE heap.size[b] # blk.len
  <2>1. FreeSet(g) = G
    BY <1>13, FreeListFacts
  <2>2. FreeSet(heap') = G /\ \E c \in G : heap'.size[c] >= Huge
    BY <1>1, <1>13, <1>16, <2>1
  <2>3. FreeSet(heap)' = G
    BY <2>2
  <2>4. Clobbered'
    BY <2>2, <2>3 DEF Clobbered
  <2>5. Typed(heap, live, lost)'
    BY <1>14 DEF Typed
  <2> QED BY <2>4, <2>5 DEF HeapInv
<1> QED BY <1>15, <1>16

-------------------------------------------------------------------------------
\* The theorems.

LEMMA InitHeap ==
  ASSUME Init
  PROVE  HeapInv
<1>0. HeapSize \in Nat /\ HeapSize >= 4 /\ 0 \in Addr /\ MinSize = 4
  BY HeapSizeAssumption DEF Addr, MinSize
<1>1. /\ heap = [head |-> 0, size |-> [a \in Addr |-> IF a = 0 THEN HeapSize ELSE 0],
                 prev |-> [a \in Addr |-> Null], next |-> [a \in Addr |-> Null]]
      /\ live = {} /\ lost = {}
  BY DEF Init
<1>2. /\ heap.head = 0 /\ heap.size[0] = HeapSize
      /\ \A a \in Addr : heap.next[a] = Null /\ heap.prev[a] = Null
  BY <1>0, <1>1
<1>3. heap \in HeapT
  BY <1>0, <1>1 DEF HeapT, Ptr
<1>4. Typed(heap, live, lost)
  BY <1>1, <1>3 DEF Typed
<1>5. Linked(heap, {0}) /\ HeadOf(heap, {0})
  BY <1>0, <1>2 DEF Linked, HeadOf, IsNext, IsPrev, Null
<1>6. Apart(heap, {0})
  BY <1>0, <1>2 DEF Apart
<1>7. \A w \in Addr : w \in Covered(heap, {0})
  BY <1>0, <1>2 DEF Covered, Addr
<1>8. Shared(heap, {0}, live, lost)
  BY <1>1, <1>7 DEF Shared
<1> QED BY <1>1, <1>4, <1>5, <1>6, <1>8, WholeIsInv DEF Whole

\* The free list stays one rising chain of blocks of the heap, and no
\* word belongs to two blocks, through tegrabl_malloc(), tegrabl_memalign() and tegrabl_free()
\* (tegrabl_malloc.c:100-495), for heaps of every size.
THEOREM HeapInvariant == Spec => []HeapInv
<1>1. Init => HeapInv
  BY InitHeap
<1>2. HeapInv /\ [Next]_vars => HeapInv'
  <2> SUFFICES ASSUME HeapInv, [Next]_vars PROVE HeapInv'
    OBVIOUS
  <2>1. ASSUME ~Clobbered, NEW size \in Sizes, Malloc(size) PROVE HeapInv'
    BY <2>1, MallocKeeps
  <2>2. ASSUME ~Clobbered, NEW size \in Sizes, NEW alignment \in Alignments,
               Memalign(alignment, size)
        PROVE  HeapInv'
    BY <2>2, MemalignKeeps
  <2>3. ASSUME ~Clobbered, NEW blk \in live, Free(blk) PROVE HeapInv'
    BY <2>3, FreeKeeps
  <2>4. CASE UNCHANGED vars
    <3>1. heap' = heap /\ live' = live /\ lost' = lost
      BY <2>4 DEF vars
    <3>2. FreeSet(heap)' = FreeSet(heap)
      BY <3>1
    <3>3. Clobbered' <=> Clobbered
      BY <3>1, <3>2 DEF Clobbered
    <3>4. CASE Clobbered
      BY <3>1, <3>3, <3>4 DEF HeapInv, Typed
    <3>5. CASE ~Clobbered
      BY <3>1, <3>2, <3>5, WholeNext DEF HeapInv, Typed
    <3> QED BY <3>4, <3>5
  <2> QED BY <2>1, <2>2, <2>3, <2>4 DEF Next
<1> QED BY <1>1, <1>2, PTL DEF Spec

LEMMA SortedFromInv ==
  ASSUME HeapInv
  PROVE  ListSorted
<1> SUFFICES ASSUME ~Clobbered
             PROVE  LET l == FreeList(heap)
                    IN  /\ heap.head \in Addr \cup {Null}
                        /\ l # <<>> => heap.prev[l[1]] = Null
                        /\ \A i \in DOMAIN l : heap.size[l[i]] \in MinSize .. HeapSize
                        /\ \A i \in 1 .. Len(l) - 1 :
                             /\ heap.prev[l[i + 1]] = l[i]
                             /\ l[i] + heap.size[l[i]] < l[i + 1]
  BY DEF ListSorted
<1> DEFINE l == FreeList(heap)
           F == FreeSet(heap)
<1>1. /\ heap \in HeapT /\ Linked(heap, F) /\ HeadOf(heap, F) /\ Apart(heap, F)
  BY DEF HeapInv, Typed, Whole
<1> HIDE DEF F
<1>2. /\ Len(l) \in Nat /\ DOMAIN l = 1 .. Len(l)
      /\ \A i \in 1 .. Len(l) : l[i] \in F
      /\ heap.head = Null => Len(l) = 0
      /\ heap.head # Null => Len(l) > 0 /\ l[1] = heap.head
      /\ \A i \in 1 .. Len(l) - 1 : l[i + 1] = heap.next[l[i]]
  BY <1>1, FreeListFacts
<1>3. /\ HeapSize \in Nat /\ MinSize = 4
      /\ \A c \in F : c \in Int /\ 0 <= c /\ c # Null /\ heap.size[c] \in Int
                      /\ 4 <= heap.size[c] /\ c + heap.size[c] <= HeapSize
      /\ \A a, c \in F : a < c => a + heap.size[a] < c
  <2>1. /\ \A c \in Addr : c \in Int /\ 0 <= c /\ c # Null /\ heap.size[c] \in Int
        /\ \A c \in F : c \in Addr /\ 4 <= heap.size[c] /\ c + heap.size[c] <= HeapSize
    BY <1>1, ApartTypes
  <2>2. /\ HeapSize \in Nat /\ MinSize = 4
        /\ \A a, c \in F : a < c => a + heap.size[a] < c
    BY <1>1, ApartTypes
  <2> QED BY <2>1, <2>2
<1>4. heap.head \in Addr \cup {Null}
  BY <1>1 DEF HeapT, Ptr
<1> HIDE DEF l
<1>5. l # <<>> => heap.prev[l[1]] = Null
  <2> SUFFICES ASSUME l # <<>> PROVE heap.prev[l[1]] = Null
    OBVIOUS
  <2>0. l \in Seq(F)
    BY <1>1, FreeListFacts DEF l
  <2>1. Len(l) # 0
    BY <2>0, EmptySeq
  <2>2. heap.head \in F /\ l[1] = heap.head /\ \A c \in F : heap.head <= c
    BY <1>1, <1>2, <2>1 DEF HeadOf
  <2>3. IsPrev(F, heap.head, heap.prev[heap.head])
    BY <1>1, <2>2 DEF Linked
  <2> DEFINE p == heap.prev[heap.head]
  <2>4. p # Null => p \in F /\ p < heap.head
    BY <2>3 DEF IsPrev
  <2> HIDE DEF p
  <2>5. p = Null
    BY <1>3, <2>2, <2>4
  <2> QED BY <2>2, <2>5 DEF p
<1>6. ASSUME NEW i \in DOMAIN l PROVE heap.size[l[i]] \in MinSize .. HeapSize
  <2> DEFINE c == l[i]
  <2>1. c \in F
    BY <1>2
  <2> HIDE DEF c
  <2>2. heap.size[c] \in Int /\ 4 <= heap.size[c] /\ heap.size[c] <= HeapSize
    BY <1>3, <2>1
  <2> QED BY <1>3, <2>2 DEF c
<1>7. ASSUME NEW i \in 1 .. Len(l) - 1
      PROVE  heap.prev[l[i + 1]] = l[i] /\ l[i] + heap.size[l[i]] < l[i + 1]
  <2> DEFINE c == l[i]
             d == l[i + 1]
  <2>1. c \in F /\ d \in F /\ d = heap.next[c]
    BY <1>2
  <2> HIDE DEF c, d
  <2>2. d # Null
    BY <1>3, <2>1
  <2>3. heap.prev[d] = c
    BY <1>1, <2>1, <2>2, BothWays
  <2>4. c < d
    BY <1>1, <2>1, <2>2, LinkedTypes
  <2>5. c + heap.size[c] < d
    BY <1>3, <2>1, <2>4
  <2> QED BY <2>3, <2>5 DEF c, d
<1> QED BY <1>4, <1>5, <1>6, <1>7 DEF l

LEMMA TileFromInv ==
  ASSUME HeapInv
  PROVE  BlocksTile
<1> DEFINE F == FreeSet(heap)
<1> SUFFICES ASSUME ~Clobbered
             PROVE  /\ \A b \in F, blk \in live : FreeWords(b) \cap LiveWords(blk) = {}
                    /\ \A x, y \in live : x # y => LiveWords(x) \cap LiveWords(y) = {}
                    /\ Addr = UNION ({FreeWords(b) : b \in F}
                                       \cup {LiveWords(blk) : blk \in live} \cup {lost})
                    /\ \A blk \in live : blk.ptr >= blk.start + Header
  BY DEF BlocksTile
<1>1. /\ heap \in HeapT /\ Linked(heap, F) /\ Apart(heap, F)
      /\ live \subseteq Block /\ lost \subseteq Addr
      /\ \A blk \in live : Held(heap, blk)
      /\ \A blk \in live : \A w \in LiveWords(blk) : w \notin Covered(heap, F)
      /\ \A x, y \in live : x # y => LiveWords(x) \cap LiveWords(y) = {}
      /\ \A w \in Addr : w \in Covered(heap, F) \/ w \in lost \/ \E x \in live : w \in LiveWords(x)
  BY DEF HeapInv, Typed, Whole, Shared
<1> HIDE DEF F
<1>2. ASSUME NEW b \in F
      PROVE  \A w : w \in FreeWords(b) <=> w \in Addr /\ b <= w /\ w < b + heap.size[b]
  <2>1. b \in Addr /\ b + heap.size[b] <= HeapSize /\ HeapSize \in Nat
    BY <1>1, ApartTypes
  <2>2. b \in Int /\ 0 <= b /\ heap.size[b] \in Int
    BY <1>1, <2>1, ApartTypes
  <2> QED BY <2>1, <2>2 DEF FreeWords, Words, Addr
<1>3. \A w \in Addr : w \in Covered(heap, F) <=> \E b \in F : w \in FreeWords(b)
  BY <1>2 DEF Covered
<1>4. ASSUME NEW b \in F, NEW blk \in live PROVE FreeWords(b) \cap LiveWords(blk) = {}
  BY <1>1, <1>2, <1>3
<1>5. ASSUME NEW blk \in live
      PROVE  LiveWords(blk) \subseteq Addr /\ blk.ptr >= blk.start + Header
  <2>1. /\ blk.start \in Int /\ 0 <= blk.start
        /\ blk.len \in Int /\ blk.start + blk.len <= HeapSize
        /\ blk.ptr \in Int /\ blk.start + 3 <= blk.ptr
        /\ \A w : w \in LiveWords(blk) <=> w \in Int /\ blk.start <= w /\ w < blk.start + blk.len
    BY <1>1, BlockFacts
  <2>2. HeapSize \in Int
    BY HeapSizeAssumption
  <2>3. ASSUME NEW w \in LiveWords(blk) PROVE w \in Addr
    <3>1. w \in Int /\ blk.start <= w /\ w < blk.start + blk.len
      BY <2>1
    <3> QED BY <2>1, <2>2, <3>1 DEF Addr
  <2> QED BY <2>1, <2>3 DEF Header
<1>6. Addr = UNION ({FreeWords(b) : b \in F} \cup {LiveWords(blk) : blk \in live} \cup {lost})
  <2>1. ASSUME NEW w \in Addr
        PROVE  \E s \in {FreeWords(b) : b \in F} \cup {LiveWords(blk) : blk \in live} \cup {lost} :
                 w \in s
    BY <1>1, <1>3
  <2>2. \A s \in {FreeWords(b) : b \in F} \cup {LiveWords(blk) : blk \in live} \cup {lost} :
          s \subseteq Addr
    BY <1>1, <1>2, <1>5
  <2> QED BY <2>1, <2>2
<1> QED BY <1>1, <1>4, <1>5, <1>6

\* The free list is sorted by address and linked both ways, and no two of its blocks
\* touch, after every call of tegrabl_malloc.c (:58-62), while no size was written over.
THEOREM ListSortedTheorem == Spec => []ListSorted
<1>1. HeapInv => ListSorted
  BY SortedFromInv
<1> QED BY <1>1, HeapInvariant, PTL

\* Free and allocated blocks and the words lost share the heap out, and each data
\* pointer lies behind its header, after every call of tegrabl_malloc.c
\* (tegrabl_heap_split_block, tegrabl_heap_merge_blocks, :100-320), while no size was
\* written over.
THEOREM BlocksTileTheorem == Spec => []BlocksTile
<1>1. HeapInv => BlocksTile
  BY TileFromInv
<1> QED BY <1>1, HeapInvariant, PTL
===============================================================================
