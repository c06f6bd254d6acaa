--------------------------- MODULE FastbootProofs ---------------------------
(***************************************************************************)
(* Fastboot mode for every layout of partitions, size of blocks, set of    *)
(* images and number of commands and faults: who holds the menu mutex,     *)
(* what a command leaves alone on the disk, that one copy of the BCT       *)
(* survives an update that fails or is cut off, that an update writes what *)
(* an image needs before the image, and that OKAY means done.              *)
(***************************************************************************)
EXTENDS MCFastboot, InductionFacts, SequenceTheorems

-----------------------------------------------------------------------------
(***************************************************************************)
(* Writes that are not aligned to blocks.                                  *)
(***************************************************************************)
Span(at, data) == at .. at + Len(data) - 1

IsDisk(d) == d = [u \in DOMAIN d |-> d[u]] /\ DOMAIN d \subseteq Int

LEMMA IntervalWithin ==
  ASSUME NEW a \in Int, NEW k \in Int, NEW b \in Int, NEW n \in Int,
         b <= a, a + k <= b + n
  PROVE  (a .. a + k - 1) \subseteq (b .. b + n - 1)
  OBVIOUS

LEMMA DivFacts ==
  ASSUME NEW n \in Nat \ {0}, NEW x \in Nat
  PROVE  /\ x \div n \in Nat /\ x % n \in 0 .. n - 1
         /\ x = (x \div n) * n + (x % n)
  OBVIOUS

\* An address in the middle of a block is one so far from its start.
LEMMA ModOfSum ==
  ASSUME NEW n \in Nat \ {0}, NEW q \in Nat, NEW r \in 0 .. n - 1
  PROVE  (q * n + r) % n = r /\ (q * n + r) \div n = q
<1> DEFINE x == q * n + r
<1>1. x \in Nat
  OBVIOUS
<1>2. /\ x \div n \in Nat /\ x % n \in 0 .. n - 1
      /\ x = (x \div n) * n + (x % n)
  BY <1>1, DivFacts
<1>3. (x \div n) = q
  <2>1. CASE x \div n >= q + 1
    <3>1. (x \div n) * n >= (q + 1) * n
      BY <1>2, <2>1
    <3>2. (q + 1) * n = q * n + n
      OBVIOUS
    <3> QED BY <1>2, <3>1, <3>2
  <2>2. CASE x \div n + 1 <= q
    <3>1. (x \div n + 1) * n <= q * n
      BY <1>2, <2>2
    <3>2. (x \div n + 1) * n = (x \div n) * n + n
      BY <1>2
    <3> QED BY <1>2, <3>1, <3>2
  <2> QED BY <1>2, <2>1, <2>2
<1> QED BY <1>2, <1>3

LEMMA MulFacts ==
  ASSUME NEW n \in Nat, NEW a \in Nat, NEW b \in Nat, NEW c \in Nat
  PROVE  /\ a * n \in Nat
         /\ a * n + b * n + c * n = (a + b + c) * n + 0
  OBVIOUS

LEMMA MulMonotone ==
  ASSUME NEW n \in Nat, NEW a \in Nat, NEW b \in Nat, a <= b
  PROVE  a * n <= b * n
  OBVIOUS

LEMMA IntervalEnd ==
  ASSUME NEW m \in Nat, NEW n \in Nat, 1 .. m = 1 .. n
  PROVE  m = n
<1>1. CASE m < n
  <2>1. n \in 1 .. n /\ n \notin 1 .. m
    BY <1>1
  <2> QED BY <2>1
<1>2. CASE n < m
  <2>1. m \in 1 .. m /\ m \notin 1 .. n
    BY <1>2
  <2> QED BY <2>1
<1> QED BY <1>1, <1>2

LEMMA FunctionIsSeq ==
  ASSUME NEW V, NEW n \in Nat, NEW s \in [1 .. n -> V]
  PROVE  s \in Seq(V) /\ Len(s) = n
<1>1. s \in Seq(V)
  <2>1. Seq(V) = UNION {[1 .. m -> V] : m \in Nat}
    BY SeqDef
  <2>2. [1 .. n -> V] \in {[1 .. m -> V] : m \in Nat}
    OBVIOUS
  <2> QED BY <2>1, <2>2
<1>2. Len(s) = n
  <2>1. DOMAIN s = 1 .. Len(s) /\ Len(s) \in Nat
    BY <1>1, LenProperties
  <2>2. 1 .. Len(s) = 1 .. n
    BY <2>1
  <2> QED BY <2>1, <2>2, IntervalEnd
<1> QED BY <1>1, <1>2

LEMMA OverlayFacts ==
  ASSUME NEW d, NEW at \in Int, NEW V, NEW data \in Seq(V), DOMAIN d \subseteq Int
  PROVE  /\ DOMAIN Overlay(d, at, data) = DOMAIN d
         /\ Overlay(d, at, data) =
              [u \in DOMAIN d |-> IF u \in Span(at, data) THEN data[u - at + 1] ELSE d[u]]
<1>1. Len(data) \in Nat
  BY LenProperties
<1> QED BY <1>1 DEF Overlay, Span

\* A block that is read, changed in part and written back has changed in that part.
LEMMA PatchIsOverlay ==
  ASSUME NEW d, NEW at \in Nat, NEW V, NEW data \in Seq(V), DOMAIN d \subseteq Int,
         (at % BlockUnits) + Len(data) <= BlockUnits
  PROVE  Patch(d, at, data) = Overlay(d, at, data)
<1> DEFINE block == at \div BlockUnits
           from == at % BlockUnits
           base == block * BlockUnits
           old == ReadBlock(d, block)
           temp == Overlay(old, from + 1, data)
<1>0. BlockUnits \in Nat \ {0}
  BY BlockAssumption
<1>1. /\ block \in Nat /\ from \in 0 .. BlockUnits - 1 /\ at = base + from
      /\ base \in Nat
  <2>1. /\ block \in Nat /\ from \in 0 .. BlockUnits - 1
        /\ at = block * BlockUnits + from
    BY <1>0, DivFacts
  <2> HIDE DEF block, from
  <2>2. block * BlockUnits \in Nat
    BY <1>0, <2>1
  <2> QED BY <2>1, <2>2
<1>2. Len(data) \in Nat
  BY LenProperties
<1> HIDE DEF block, from
<1>3. DOMAIN old = 1 .. BlockUnits /\ \A i \in 1 .. BlockUnits : old[i] = d[base + i - 1]
  BY DEF ReadBlock
<1> HIDE DEF base, old
<1>4. temp = [i \in 1 .. BlockUnits |->
                IF i \in Span(from + 1, data) THEN data[i - (from + 1) + 1] ELSE old[i]]
  <2>1. DOMAIN old \subseteq Int /\ from + 1 \in Int
    BY <1>0, <1>1, <1>3
  <2>2. temp = [i \in DOMAIN old |->
                 IF i \in Span(from + 1, data) THEN data[i - (from + 1) + 1] ELSE old[i]]
    BY <2>1, OverlayFacts
  <2> QED BY <1>3, <2>2
<1>5. DOMAIN temp = 1 .. BlockUnits
  BY <1>4
<1>6. temp = [i \in 1 .. BlockUnits |-> temp[i]]
  BY <1>4
<1> HIDE DEF temp
<1> DEFINE W == {temp[i] : i \in 1 .. BlockUnits}
<1>7. temp \in [1 .. BlockUnits -> W]
  BY <1>6
<1> HIDE DEF W
<1>8. temp \in Seq(W)
  BY <1>0, <1>7, FunctionIsSeq
<1>9. Len(temp) = BlockUnits
  BY <1>0, <1>7, FunctionIsSeq
<1>10. Patch(d, at, data) = Overlay(d, base, temp)
  BY DEF Patch, WriteBlocks, base, temp, old, block, from
<1>11. Overlay(d, base, temp) =
         [u \in DOMAIN d |-> IF u \in Span(base, temp) THEN temp[u - base + 1] ELSE d[u]]
  BY <1>1, <1>8, OverlayFacts
<1>12. Overlay(d, at, data) =
         [u \in DOMAIN d |-> IF u \in Span(at, data) THEN data[u - at + 1] ELSE d[u]]
  BY OverlayFacts
<1>13. ASSUME NEW u \in DOMAIN d
       PROVE  (IF u \in Span(base, temp) THEN temp[u - base + 1] ELSE d[u])
                = IF u \in Span(at, data) THEN data[u - at + 1] ELSE d[u]
  <2>0. u \in Int
    OBVIOUS
  <2>1. u \in Span(base, temp) <=> base <= u /\ u <= base + BlockUnits - 1
    BY <1>0, <1>1, <1>9, <2>0 DEF Span
  <2>2. u \in Span(at, data) <=> base + from <= u /\ u <= base + from + Len(data) - 1
    BY <1>1, <1>2, <2>0 DEF Span
  <2>3. from + Len(data) <= BlockUnits
    BY DEF from
  <2>4. CASE u \notin Span(base, temp)
    <3>1. u \notin Span(at, data)
      BY <2>0, <2>1, <2>2, <2>3, <2>4, <1>0, <1>1, <1>2
    <3> QED BY <3>1, <2>4
  <2>5. CASE u \in Span(base, temp)
    <3> DEFINE i == u - base + 1
    <3>1. i \in 1 .. BlockUnits
      BY <2>0, <2>1, <2>5, <1>0, <1>1
    <3>2. temp[i] = IF i \in Span(from + 1, data) THEN data[i - (from + 1) + 1] ELSE old[i]
      BY <3>1, <1>4
    <3>3. i \in Span(from + 1, data) <=> u \in Span(at, data)
      <4>1. i \in Span(from + 1, data) <=> from + 1 <= i /\ i <= from + 1 + Len(data) - 1
        BY <3>1, <1>0, <1>1, <1>2 DEF Span
      <4> QED BY SMTT(30), <4>1, <2>0, <2>2, <1>0, <1>1, <1>2
    <3>4. i - (from + 1) + 1 = u - at + 1 /\ base + i - 1 = u
      BY <2>0, <1>1, <1>0
    <3>5. old[i] = d[u]
      BY <1>3, <3>1, <3>4
    <3> HIDE DEF i
    <3>6. temp[i] = IF u \in Span(at, data) THEN data[u - at + 1] ELSE d[u]
      BY <3>2, <3>3, <3>4, <3>5
    <3> QED BY <3>6, <2>5 DEF i
  <2> QED BY <2>4, <2>5
<1> QED BY <1>10, <1>11, <1>12, <1>13

\* d with the units of T as data, written from unit at on, have them
On(d, at, data, T) == [u \in DOMAIN d |-> IF u \in T THEN data[u - at + 1] ELSE d[u]]

\* Part of a write on top of parts that are there already.
LaysOn(d, at, V, data, T, i, n) ==
  LET s == SubSeq(data, i + 1, i + n)
  IN  /\ Len(s) = n /\ s \in Seq(V)
      /\ Overlay(On(d, at, data, T), at + i, s)
           = On(d, at, data, T \cup (at + i .. at + i + n - 1))

LEMMA OverlayPart ==
  ASSUME NEW d, NEW at \in Nat, NEW V, NEW data \in Seq(V), DOMAIN d \subseteq Int,
         NEW T, NEW i \in Nat, NEW n \in Nat, i + n <= Len(data)
  PROVE  LaysOn(d, at, V, data, T, i, n)
<1> DEFINE s == SubSeq(data, i + 1, i + n)
           e == On(d, at, data, T)
<1>0. Len(data) \in Nat
  BY LenProperties
<1>1. \A k \in i + 1 .. i + n : data[k] \in V
  BY <1>0, ElementOfSeq
<1>2. /\ s \in Seq(V)
      /\ Len(s) = IF i + 1 <= i + n THEN i + n - (i + 1) + 1 ELSE 0
      /\ \A k \in 1 .. i + n - (i + 1) + 1 : s[k] = data[i + 1 + k - 1]
  <2>1. i + 1 \in Int /\ i + n \in Int
    OBVIOUS
  <2> QED BY SMTT(30), <1>1, <2>1, SubSeqProperties
<1> HIDE DEF s
<1>3. Len(s) = n
  BY <1>2
<1>4. \A k \in 1 .. n : s[k] = data[i + k]
  BY <1>2
<1>5. DOMAIN e = DOMAIN d
  BY DEF On
<1>6. Overlay(e, at + i, s) =
        [u \in DOMAIN d |-> IF u \in Span(at + i, s) THEN s[u - (at + i) + 1] ELSE e[u]]
  <2>1. at + i \in Int /\ DOMAIN e \subseteq Int
    BY <1>5
  <2> HIDE DEF e
  <2>2. Overlay(e, at + i, s) =
          [u \in DOMAIN e |-> IF u \in Span(at + i, s) THEN s[u - (at + i) + 1] ELSE e[u]]
    <3> DEFINE from == at + i
    <3>1. from \in Int /\ s \in Seq(V)
      BY <1>2
    <3> HIDE DEF from
    <3>2. Overlay(e, from, s) =
            [u \in DOMAIN e |-> IF u \in Span(from, s) THEN s[u - from + 1] ELSE e[u]]
      BY <2>1, <3>1, OverlayFacts
    <3> QED BY <3>2 DEF from
  <2> QED BY <1>5, <2>2
<1>7. ASSUME NEW u \in DOMAIN d
      PROVE  (IF u \in Span(at + i, s) THEN s[u - (at + i) + 1] ELSE e[u])
               = IF u \in T \cup (at + i .. at + i + n - 1) THEN data[u - at + 1] ELSE d[u]
  <2>1. Span(at + i, s) = at + i .. at + i + n - 1
    BY <1>3 DEF Span
  <2>2. e[u] = IF u \in T THEN data[u - at + 1] ELSE d[u]
    BY DEF On
  <2>3. CASE u \in Span(at + i, s)
    <3>1. u - (at + i) + 1 \in 1 .. n /\ i + (u - (at + i) + 1) = u - at + 1
      BY <2>1, <2>3
    <3>2. s[u - (at + i) + 1] = data[u - at + 1]
      BY <3>1, <1>4
    <3> QED BY <2>1, <2>3, <3>2
  <2>4. CASE u \notin Span(at + i, s)
    BY <2>1, <2>2, <2>4
  <2> QED BY <2>3, <2>4
<1> HIDE DEF e
<1>8. Overlay(e, at + i, s) = On(d, at, data, T \cup (at + i .. at + i + n - 1))
  BY <1>6, <1>7 DEF On
<1> QED BY <1>2, <1>3, <1>8 DEF s, e, LaysOn

\* How a write of len units, from r units into block q on, is divided into a partial
\* block, whole blocks and a partial block of n units.
Divided(n, q, r, len, head, blocks, tail) ==
  /\ n \in Nat \ {0} /\ q \in Nat /\ r \in 0 .. n - 1 /\ len \in Nat
  /\ head = IF r = 0 THEN 0 ELSE Smaller(n - r, len)
  /\ blocks \in Nat /\ tail \in 0 .. n - 1
  /\ len - head = blocks * n + tail

LEMMA WriteParts ==
  ASSUME NEW n, NEW q, NEW r, NEW len, NEW head, NEW blocks, NEW tail,
         Divided(n, q, r, len, head, blocks, tail)
  PROVE  /\ head \in Nat /\ blocks * n \in Nat
         /\ head + blocks * n + tail = len
         /\ r + head <= n
         /\ tail > 0 => (q * n + r + len - tail) % n = 0
<1>0. /\ n \in Nat \ {0} /\ q \in Nat /\ r \in 0 .. n - 1 /\ len \in Nat
      /\ head = IF r = 0 THEN 0 ELSE Smaller(n - r, len)
      /\ blocks \in Nat /\ tail \in 0 .. n - 1
      /\ len - head = blocks * n + tail
  BY DEF Divided
<1>1. head \in Nat /\ head <= len /\ r + head <= n
  BY <1>0 DEF Smaller
<1>2. blocks * n \in Nat /\ q * n \in Nat
  BY <1>0, MulFacts
<1>3. ASSUME tail > 0 PROVE (q * n + r + len - tail) % n = 0
  <2>1. head < len
    BY <1>0, <1>1, <1>2, <1>3
  <2>2. PICK c \in {0, 1} : r + head = c * n
    <3>1. CASE r = 0
      <4>1. r + head = 0 * n
        BY <1>0, <3>1
      <4> QED BY <4>1
    <3>2. CASE r # 0
      <4>1. r + head = 1 * n
        BY <1>0, <3>2, <2>1 DEF Smaller
      <4> QED BY <4>1
    <3> QED BY <3>1, <3>2
  <2>3. q * n + r + len - tail = q * n + c * n + blocks * n
    <3>1. c * n \in Nat
      BY <1>0, <2>2, MulFacts
    <3> QED BY <1>0, <1>1, <1>2, <2>2, <3>1
  <2> DEFINE m == q + c + blocks
  <2>4. m \in Nat /\ q * n + c * n + blocks * n = m * n + 0
    BY <1>0, <2>2, MulFacts
  <2>5. (m * n + 0) % n = 0
    <3> HIDE DEF m
    <3>1. 0 \in 0 .. n - 1
      BY <1>0
    <3> QED BY <1>0, <2>4, <3>1, ModOfSum
  <2> QED BY <2>3, <2>4, <2>5
<1> QED BY <1>0, <1>1, <1>2, <1>3

\* Whatever happens to a write, the disk is as before but for some of the units written
\* to, which have the data; and all of them have when neither the caller is told of an
\* error nor one is dropped.
WriteOutcome(d, at, data, o) ==
  \E T \in SUBSET Span(at, data) :
    /\ o.disk = On(d, at, data, T)
    /\ ~o.err /\ ~o.dropped => T = Span(at, data)

LEMMA WriteOutcomes ==
  ASSUME NEW d, IsDisk(d), NEW at \in Nat, NEW V, NEW data \in Seq(V),
         NEW faulty \in BOOLEAN, NEW o \in default_write(d, at, data, faulty)
  PROVE  WriteOutcome(d, at, data, o)
<1> DEFINE len == Len(data)
           head == IF at % BlockUnits = 0 THEN 0
                   ELSE Smaller(BlockUnits - (at % BlockUnits), len)
           blocks == (len - head) \div BlockUnits
           tail == len - head - blocks * BlockUnits
           Part(i, n) == SubSeq(data, i + 1, i + n)
           First(e) == IF head = 0 THEN e ELSE Patch(e, at, Part(0, head))
           Middle(e, n) == Overlay(e, at + head, Part(head, n * BlockUnits))
           Last(e) == IF tail = 0 THEN e
                      ELSE Patch(e, at + len - tail, Part(len - tail, tail))
           Faults ==
             (IF head = 0 THEN {} ELSE {Failed(d), Unnoticed(Last(Middle(d, blocks)))})
             \cup {Failed(Middle(First(d), n)) : n \in 0 .. blocks - 1}
             \cup (IF tail = 0 THEN {} ELSE {Failed(Middle(First(d), blocks))})
           n1 == BlockUnits
           q == at \div BlockUnits
           r == at % BlockUnits
           t == (len - head) % BlockUnits
           Front == at .. at + head - 1
           Mid(n) == at + head .. at + head + n * BlockUnits - 1
           Back == at + len - tail .. at + len - 1
           X(T) == On(d, at, data, T)
<1>0. o \in {Clean(Last(Middle(First(d), blocks)))} \cup (IF faulty THEN Faults ELSE {})
  BY DEF default_write
<1>1. n1 \in Nat \ {0}
  BY BlockAssumption
<1>2. len \in Nat
  BY LenProperties
<1>3. q \in Nat /\ r \in 0 .. n1 - 1 /\ at = q * n1 + r
  BY <1>1, DivFacts
<1>4. head = IF r = 0 THEN 0 ELSE Smaller(n1 - r, len)
  OBVIOUS
<1>5. len - head \in Nat
  <2> HIDE DEF len, r, n1, head
  <2> QED BY <1>1, <1>2, <1>3, <1>4 DEF Smaller
<1>6. blocks \in Nat /\ t \in 0 .. n1 - 1 /\ len - head = blocks * n1 + t
  <2> DEFINE x == len - head
  <2>1. x \in Nat
    BY <1>5
  <2> HIDE DEF x
  <2>2. x \div n1 \in Nat /\ x % n1 \in 0 .. n1 - 1 /\ x = (x \div n1) * n1 + (x % n1)
    BY <1>1, <2>1, DivFacts
  <2> QED BY <2>2 DEF x
<1>7. tail = len - head - blocks * n1
  OBVIOUS
<1>8. \A n : Mid(n) = at + head .. at + head + n * n1 - 1
  OBVIOUS
<1> HIDE DEF len, r, q, head, blocks, t, tail, n1
<1>9. /\ head \in Nat /\ blocks * n1 \in Nat
      /\ head + blocks * n1 + t = len
      /\ r + head <= n1
      /\ t > 0 => (q * n1 + r + len - t) % n1 = 0
  <2>1. Divided(n1, q, r, len, head, blocks, t)
    BY <1>1, <1>2, <1>3, <1>4, <1>6 DEF Divided
  <2> QED BY <2>1, WriteParts
<1>10. tail = t
  BY <1>2, <1>6, <1>7, <1>9
<1>11. DOMAIN d \subseteq Int
  BY DEF IsDisk
<1>12. X({}) = d
  BY DEF On, IsDisk
<1>13. \A T : DOMAIN X(T) = DOMAIN d
  BY DEF On
<1>14. ASSUME NEW i \in Nat, NEW n \in Nat, i + n <= len, NEW T
       PROVE  /\ Len(Part(i, n)) = n /\ Part(i, n) \in Seq(V)
              /\ Overlay(X(T), at + i, Part(i, n)) = X(T \cup (at + i .. at + i + n - 1))
  <2>1. i + n <= Len(data)
    BY <1>14 DEF len
  <2>2. LaysOn(d, at, V, data, T, i, n)
    BY <1>11, <2>1, OverlayPart
  <2> QED BY <2>2 DEF LaysOn
<1>15. ASSUME NEW T, NEW n \in 0 .. blocks
       PROVE  Middle(X(T), n) = X(T \cup Mid(n))
  <2>1. n * n1 \in Nat /\ n * n1 <= blocks * n1
    BY <1>1, <1>6, MulFacts, MulMonotone
  <2> DEFINE m == n * n1
  <2>2. m \in Nat /\ head + m <= len
    BY <1>6, <1>9, <2>1
  <2> HIDE DEF m
  <2>3. Overlay(X(T), at + head, Part(head, m)) = X(T \cup (at + head .. at + head + m - 1))
    BY <1>9, <1>14, <2>2
  <2> QED BY <2>3 DEF m, n1
<1>16. ASSUME NEW T PROVE First(X(T)) = X(T \cup Front)
  <2>1. CASE head = 0
    <3>1. Front = {}
      BY <2>1
    <3>2. T \cup Front = T
      BY <3>1
    <3> QED BY <2>1, <3>2
  <2>2. CASE head # 0
    <3>1. /\ Len(Part(0, head)) = head /\ Part(0, head) \in Seq(V)
          /\ Overlay(X(T), at + 0, Part(0, head)) = X(T \cup (at + 0 .. at + 0 + head - 1))
      <4>1. 0 \in Nat /\ 0 + head <= len
        BY <1>6, <1>9
      <4> QED BY <1>9, <1>14, <4>1
    <3>2. (at % BlockUnits) + Len(Part(0, head)) <= BlockUnits
      BY <1>9, <3>1 DEF r, n1
    <3>3. DOMAIN X(T) \subseteq Int
      BY <1>11, <1>13
    <3>4. Patch(X(T), at, Part(0, head)) = Overlay(X(T), at, Part(0, head))
      <4> DEFINE e == X(T)
                 s == Part(0, head)
      <4> HIDE DEF e, s
      <4> QED BY <3>1, <3>2, <3>3, PatchIsOverlay DEF e, s
    <3>5. at + 0 = at /\ at + 0 + head - 1 = at + head - 1
      BY <1>9
    <3> QED BY <2>2, <3>1, <3>4, <3>5
  <2> QED BY <2>1, <2>2
<1>17. ASSUME NEW T PROVE Last(X(T)) = X(T \cup Back)
  <2>0. tail \in Nat /\ tail < n1 /\ len - tail \in Nat
    BY <1>1, <1>6, <1>9, <1>10
  <2>1. CASE tail = 0
    <3>1. Back = {}
      BY <2>1, <1>2
    <3>2. T \cup Back = T
      BY <3>1
    <3> QED BY <2>1, <3>2
  <2>2. CASE tail # 0
    <3> DEFINE i == len - tail
               from == at + len - tail
    <3>0. i \in Nat /\ from \in Nat /\ from = at + i /\ i + tail = len
      BY <1>2, <2>0
    <3>1. (from % BlockUnits) = 0
      <4>1. t > 0
        BY <2>0, <2>2, <1>10
      <4>2. (q * n1 + r + len - t) % n1 = 0
        BY <1>9, <4>1
      <4> QED BY <4>2, <1>3, <1>10 DEF n1
    <3> HIDE DEF i, from
    <3>2. /\ Len(Part(i, tail)) = tail /\ Part(i, tail) \in Seq(V)
          /\ Overlay(X(T), at + i, Part(i, tail)) = X(T \cup (at + i .. at + i + tail - 1))
      <4>1. i + tail <= len
        BY <2>0, <3>0, <1>2
      <4> QED BY <1>14, <2>0, <3>0, <4>1
    <3>3. (from % BlockUnits) + Len(Part(i, tail)) <= BlockUnits
      BY <2>0, <3>1, <3>2, <1>1 DEF n1
    <3>4. DOMAIN X(T) \subseteq Int
      BY <1>11, <1>13
    <3>5. Patch(X(T), from, Part(i, tail)) = Overlay(X(T), from, Part(i, tail))
      <4> DEFINE e == X(T)
                 s == Part(i, tail)
      <4> HIDE DEF e, s
      <4> QED BY <3>0, <3>2, <3>3, <3>4, PatchIsOverlay DEF e, s
    <3>6. at + i + tail - 1 = at + len - 1
      BY <1>2, <2>0, <3>0
    <3>7. Patch(X(T), from, Part(i, tail)) = X(T \cup (from .. at + len - 1))
      BY <3>0, <3>2, <3>5, <3>6
    <3> QED BY <2>2, <3>7 DEF from, i
  <2> QED BY <2>1, <2>2
<1>18. /\ Span(at, data) = at .. at + len - 1
       /\ Front \subseteq Span(at, data)
       /\ Back \subseteq Span(at, data)
       /\ (Front \cup Mid(blocks)) \cup Back = Span(at, data)
  <2> DEFINE m == blocks * n1
  <2>1. m \in Nat /\ head \in Nat /\ tail \in Nat /\ head + m + tail = len
    BY <1>6, <1>9, <1>10
  <2> HIDE DEF m
  <2>2. Span(at, data) = at .. at + len - 1
    BY DEF Span, len
  <2>3. Mid(blocks) = at + head .. at + head + m - 1
    BY DEF m, n1
  <2> HIDE DEF Mid
  <2> QED BY <2>1, <2>2, <2>3
<1>19. ASSUME NEW n \in 0 .. blocks PROVE Mid(n) \subseteq Span(at, data)
  <2>1. n * n1 \in Nat /\ n * n1 <= blocks * n1
    BY <1>1, <1>6, MulFacts, MulMonotone
  <2> DEFINE m == n * n1
  <2>2. m \in Nat /\ head + m <= len
    BY <1>6, <1>9, <2>1
  <2>3. Mid(n) = at + head .. at + head + m - 1
    BY DEF n1
  <2> HIDE DEF m, Mid
  <2> QED BY <1>2, <1>9, <1>18, <2>2, <2>3
<1>20. blocks \in 0 .. blocks
  BY <1>6
<1>21. First(d) = X(Front)
  <2>1. First(X({})) = X({} \cup Front)
    BY <1>16
  <2> QED BY <2>1, <1>12
<1>22. ASSUME NEW n \in 0 .. blocks PROVE Middle(First(d), n) = X(Front \cup Mid(n))
  BY <1>15, <1>21
<1>23. Last(Middle(First(d), blocks)) = X(Span(at, data))
  BY <1>17, <1>18, <1>20, <1>22
<1>24. Last(Middle(d, blocks)) = X((({} \cup Mid(blocks)) \cup Back))
  <2>1. Middle(X({}), blocks) = X({} \cup Mid(blocks))
    BY <1>15, <1>20
  <2> QED BY <2>1, <1>12, <1>17
<1>25. ASSUME NEW T \in SUBSET Span(at, data),
              o.disk = X(T), o.err \/ o.dropped \/ T = Span(at, data)
       PROVE  WriteOutcome(d, at, data, o)
  BY <1>25 DEF WriteOutcome
<1> HIDE DEF X, First, Middle, Last, Front, Mid, Back
<1>26. CASE o = Clean(Last(Middle(First(d), blocks)))
  BY <1>23, <1>25, <1>26 DEF Clean, Outcome
<1>27. CASE o = Failed(d)
  <2>1. {} \in SUBSET Span(at, data)
    OBVIOUS
  <2>2. o.disk = X({}) /\ o.err
    BY <1>12, <1>27 DEF Failed, Outcome
  <2> QED BY <1>25, <2>1, <2>2
<1>28. CASE o = Unnoticed(Last(Middle(d, blocks)))
  <2>1. ({} \cup Mid(blocks)) \cup Back \in SUBSET Span(at, data)
    BY <1>18, <1>19, <1>20
  <2> QED BY <1>24, <1>25, <1>28, <2>1 DEF Unnoticed, Outcome
<1>29. ASSUME NEW n \in 0 .. blocks, o = Failed(Middle(First(d), n))
       PROVE  WriteOutcome(d, at, data, o)
  <2>1. Front \cup Mid(n) \in SUBSET Span(at, data)
    BY <1>18, <1>19
  <2> QED BY <1>22, <1>25, <1>29, <2>1 DEF Failed, Outcome
<1>30. \/ o = Clean(Last(Middle(First(d), blocks)))
       \/ o = Failed(d)
       \/ o = Unnoticed(Last(Middle(d, blocks)))
       \/ \E n \in 0 .. blocks : o = Failed(Middle(First(d), n))
  <2>1. 0 .. blocks - 1 \subseteq 0 .. blocks
    BY <1>6
  <2> QED BY <1>0, <1>20, <2>1
<1> QED BY <1>26, <1>27, <1>28, <1>29, <1>30

Units == UNION {UnitsOf(p) : p \in DOMAIN Start}

\* What a write to a partition may leave: e, of disk d, with the outcome o
WrittenTo(d, at, data, o) ==
  /\ \A u \in DOMAIN d \ Span(at, data) : o.disk[u] = d[u]
  /\ \A u \in DOMAIN d \cap Span(at, data) : o.disk[u] \in {d[u], data[u - at + 1]}
  /\ ~o.err /\ ~o.dropped =>
       \A u \in DOMAIN d \cap Span(at, data) : o.disk[u] = data[u - at + 1]

LEMMA PartitionWrite ==
  ASSUME NEW d \in [Units -> Int], NEW p \in DOMAIN Start, NEW offset \in Nat,
         NEW data \in Seq(Int), NEW faulty \in BOOLEAN,
         NEW o \in partition_write(d, p, offset, data, faulty)
  PROVE  /\ o.disk \in [Units -> Int]
         /\ WrittenTo(d, Start[p] + offset, data, o)
         /\ o.disk # d => Span(Start[p] + offset, data) \subseteq UnitsOf(p)
<1> DEFINE at == Start[p] + offset
<1>1. at \in Nat /\ Units \subseteq Int
  BY BlockAssumption DEF Units, UnitsOf
<1>2. IsDisk(d) /\ DOMAIN d = Units
  BY <1>1 DEF IsDisk
<1>3. Len(data) \in Nat /\ \A i \in 1 .. Len(data) : data[i] \in Int
  BY LenProperties, ElementOfSeq
<1>4. CASE Fits(p, offset, Len(data))
  <2>1. o \in default_write(d, at, data, faulty)
    BY <1>4 DEF partition_write
  <2> HIDE DEF at
  <2>2. WriteOutcome(d, at, data, o)
    BY <1>1, <1>2, <2>1, WriteOutcomes
  <2>3. PICK T \in SUBSET Span(at, data) :
          o.disk = On(d, at, data, T) /\ (~o.err /\ ~o.dropped => T = Span(at, data))
    BY <2>2 DEF WriteOutcome
  <2>4. \A u \in Units : o.disk[u] = IF u \in T THEN data[u - at + 1] ELSE d[u]
    BY <1>2, <2>3 DEF On
  <2>5. \A u \in Span(at, data) : data[u - at + 1] \in Int
    BY <1>1, <1>3 DEF Span
  <2>6. o.disk \in [Units -> Int]
    BY <1>2, <2>3, <2>5 DEF On
  <2>7. WrittenTo(d, at, data, o)
    BY <1>2, <2>3, <2>4 DEF WrittenTo
  <2>8. Span(at, data) \subseteq UnitsOf(p)
    BY SMTT(30), <1>1, <1>3, <1>4, BlockAssumption DEF Fits, Span, UnitsOf, at
  <2> QED BY <2>6, <2>7, <2>8 DEF at
<1>5. CASE ~Fits(p, offset, Len(data))
  <2>1. o.disk = d /\ o.err
    BY <1>5 DEF partition_write, Refused, Outcome
  <2> QED BY <1>2, <2>1 DEF WrittenTo
<1> QED BY <1>4, <1>5

LEMMA PartitionErase ==
  ASSUME NEW d \in [Units -> Int], NEW p \in DOMAIN Start, NEW faulty \in BOOLEAN,
         NEW o \in partition_erase(d, p, faulty)
  PROVE  /\ o.disk \in [Units -> Int]
         /\ \A u \in Units \ UnitsOf(p) : o.disk[u] = d[u]
         /\ \A u \in UnitsOf(p) : o.disk[u] \in {d[u], Erased}
         /\ ~o.err => \A u \in UnitsOf(p) : o.disk[u] = Erased
<1> DEFINE Upto(n) == [u \in DOMAIN d |-> IF u \in UnitsOf(p) /\ u < Start[p] + n * BlockUnits
                                           THEN Erased ELSE d[u]]
           blocks == Size[p] \div BlockUnits
<1>1. /\ BlockUnits \in Nat \ {0} /\ Start[p] \in Nat /\ Size[p] \in Nat
      /\ Size[p] % BlockUnits = 0
  BY BlockAssumption
<1>2. blocks * BlockUnits = Size[p]
  <2> DEFINE x == Size[p]
             n == BlockUnits
  <2> HIDE DEF x, n
  <2>1. x = (x \div n) * n + (x % n) /\ x \div n \in Nat
    BY <1>1, DivFacts DEF x, n
  <2>2. x % n = 0 /\ x \in Nat /\ n \in Nat
    BY <1>1 DEF x, n
  <2>3. (x \div n) * n \in Nat
    BY <2>1, <2>2, MulFacts
  <2>4. (x \div n) * n = x
    BY <2>1, <2>2, <2>3
  <2> QED BY <2>4 DEF x, n
<1>3. UnitsOf(p) \subseteq Units /\ DOMAIN d = Units
  BY DEF Units
<1>4. \A u \in UnitsOf(p) : u < Start[p] + blocks * BlockUnits
  BY <1>1, <1>2 DEF UnitsOf
<1>5. \A n : Upto(n) \in [Units -> Int] /\ \A u \in Units :
        Upto(n)[u] = IF u \in UnitsOf(p) /\ u < Start[p] + n * BlockUnits THEN Erased ELSE d[u]
  BY <1>3 DEF Erased
<1>6. o \in {Clean(Upto(blocks))} \cup {Failed(Upto(n)) : n \in 0 .. blocks - 1}
  BY DEF partition_erase
<1> HIDE DEF Upto, blocks
<1>7. CASE o = Clean(Upto(blocks))
  <2>1. o.disk = Upto(blocks)
    BY <1>7 DEF Clean, Outcome
  <2> QED BY <1>3, <1>4, <1>5, <2>1
<1>8. CASE \E n \in 0 .. blocks - 1 : o = Failed(Upto(n))
  <2>1. PICK n : o.disk = Upto(n) /\ o.err
    BY <1>8 DEF Failed, Outcome
  <2> QED BY <1>3, <1>5, <2>1
<1> QED BY <1>6, <1>7, <1>8

-----------------------------------------------------------------------------
(***************************************************************************)
(* The inductive invariant.  CmdOK ties what a command met when it came to *)
(* what its handler reads; JobOK says that what a handler has yet to write *)
(* is where the command may write.                                         *)
(***************************************************************************)
\* the mutex has a waiter only while somebody holds it and the server is at menu_lock()
QueueOK ==
  /\ queued \in BOOLEAN
  /\ queued => fb \in {"lock", "relock"} /\ holder # "none"

BupChecks ==
  [checked : BOOLEAN, required : BOOLEAN, spec : {"unread", "read", "missing"}]

CmdIsRecord ==
  /\ cmd = [op |-> cmd.op, arg |-> cmd.arg, img |-> cmd.img, open |-> cmd.open,
            stale |-> cmd.stale, all |-> cmd.all]
  /\ cmd.all \in BOOLEAN

CmdOK ==
  /\ disk \in [Units -> Int]
  /\ buf \in Images \cup {None} /\ cmd.img \in Images \cup {None}
  /\ bup \in BupChecks /\ CmdIsRecord
  /\ fb \in {"lock", "start"} =>
       /\ was = disk
       /\ cmd.img = buf /\ cmd.open = unlocked /\ cmd.stale = bup.checked
       /\ cmd.op = "download" => cmd.arg \in Images
  /\ fb \in {"confirm", "confirm_keys", "relock", "chosen"} => cmd.op = "flashing"

\* writes that stay in S
WritesIn(S) ==
  {w \in [part : DOMAIN Start, offset : Nat, data : Seq(Int)] :
     Span(Start[w.part] + w.offset, w.data) \subseteq S}

\* The parser is at chunk k, or in it, and the cursor where its units are
SparseAt(at, img) ==
  at.chunks # <<>> =>
    \E k \in DOMAIN img.chunks :
      /\ at.chunks = SubSeq(img.chunks, k, Len(img.chunks))
      /\ at.fill \in 0 .. img.chunks[k].n
      /\ at.fill > 0 => img.chunks[k].type = "fill"
      /\ at.offset = Before(img, k) + IF at.fill = 0 THEN 0 ELSE img.chunks[k].n - at.fill

JobOK ==
  fb = "work" =>
    \/ /\ job.kind = "raw" /\ FlashesData /\ cmd.open
       /\ cmd.img.kind # "sparse" /\ job.data = cmd.img.data
    \/ /\ FlashesData /\ cmd.open /\ cmd.img.kind = "sparse"
       /\ job = [kind |-> "sparse", img |-> cmd.img, at |-> job.at]
       /\ SparseAt(job.at, cmd.img)
    \/ /\ Updates /\ cmd.open
       /\ job = [kind |-> "update", writes |-> job.writes]
       /\ job.writes \in Seq(WritesIn(Covered))
    \/ job.kind = "erase" /\ cmd.op = "erase" /\ cmd.open
    \/ job.kind = "odm" /\ cmd.op = "flashing" /\ Wiped
    \/ /\ cmd.op = "flashing" /\ Wiped
       /\ job = [kind |-> "bct", writes |-> job.writes]
       /\ job.writes \in Seq(WritesIn(BctUnits))

Inv == TypeOK /\ QueueOK /\ CmdOK /\ JobOK /\ RestKept

LEMMA TypeInit == Init => TypeOK /\ QueueOK
  BY DEF Init, RamInit, TypeOK, QueueOK

LEMMA TypeStep ==
  ASSUME TypeOK, QueueOK, [Next]_vars
  PROVE  TypeOK' /\ QueueOK'
<1> USE DEF TypeOK, QueueOK
<1> USE DEF Ack, Done, Work, Exit, Fault, Resume, Handling, Working, Off, Release, ram
<1>1. CASE Receive
  BY <1>1 DEF Receive
<1>2. CASE HostGone
  BY <1>2 DEF HostGone
<1>3. CASE LockForCommand \/ RelockAfterMenu
  <2>1. PICK from \in {"lock", "relock"}, to \in {"start", "chosen"} : MenuLock(from, to)
    BY <1>3 DEF LockForCommand, RelockAfterMenu
  <2>2. UNCHANGED <<unlocked, state, main, status, answer>> /\ fb = from
    BY <2>1 DEF MenuLock
  <2>3. CASE holder = "none" /\ holder' = "server" /\ fb' = to /\ queued' = queued
    <3>1. queued' = FALSE
      BY <2>3
    <3> QED BY <2>2, <2>3, <3>1
  <2>4. CASE holder = "main" /\ ~queued /\ queued' = TRUE /\ UNCHANGED <<holder, fb>>
    BY <2>2, <2>4
  <2>5. CASE holder = "server" /\ queued /\ queued' = FALSE /\ fb' = to /\ UNCHANGED holder
    BY <2>2, <2>5
  <2>6. CASE holder = "server" /\ ~queued /\ fb' = "panic" /\ UNCHANGED <<holder, queued>>
    BY <2>2, <2>6
  <2> QED BY <2>1, <2>3, <2>4, <2>5, <2>6 DEF MenuLock
<1>4. CASE Unlock
  BY <1>4 DEF Unlock
<1>5. CASE Download
  BY <1>5 DEF Download
<1>6. CASE Flash
  BY <1>6 DEF Flash, FlashPartition, FlashBootloader, AtFlash
<1>7. CASE Erase \/ Answering
  <2>1. CASE Erase
    BY <2>1 DEF Erase
  <2>2. CASE Answering
    BY <2>2 DEF Answering
  <2> QED BY <1>7, <2>1, <2>2
<1>8. CASE Flashing
  BY <1>8 DEF Flashing
<1>9. CASE RawStep
  BY <1>9 DEF RawStep, AtWork
<1>10. CASE SparseStep
  BY <1>10 DEF SparseStep, AtWork, Proceed
<1>11. CASE UpdateStep
  BY <1>11 DEF UpdateStep, AtWork
<1>12. CASE EraseStep
  BY <1>12 DEF EraseStep, AtWork
<1>13. CASE ChangeState
  BY <1>13 DEF ChangeState
<1>14. CASE OdmRead
  BY <1>14 DEF OdmRead, AtOdm
<1>15. CASE OdmWrite
  BY <1>15 DEF OdmWrite, AtOdm
<1>16. CASE ConfirmTry \/ ConfirmIdle \/ ConfirmEnter \/ ConfirmFails
  BY <1>16 DEF ConfirmTry, ConfirmIdle, ConfirmEnter, ConfirmFails, AtConfirm
<1>17. CASE MenuStep
  BY <1>17 DEF MenuStep, MenuDraw, MenuLoop, MenuTry, MenuIdle, MenuEnter, MenuFails, AtMenu
<1>18. CASE MenuJoin \/ SelectFails
  BY <1>18 DEF MenuJoin, SelectFails, AtMenu
<1>21. CASE Select \/ BootKernel \/ PowerCut \/ Reboot
  <2>1. Off
    BY <1>21 DEF Select, BootKernel, PowerCut, Reboot
  <2> QED BY <2>1
<1>19. CASE PowerOn
  BY <1>19 DEF PowerOn
<1>20. CASE UNCHANGED vars
  BY <1>20 DEF vars
<1> QED BY <1>1, <1>2, <1>3, <1>4, <1>5, <1>6, <1>7, <1>8, <1>9, <1>10, <1>11, <1>12,
           <1>13, <1>14, <1>15, <1>16, <1>17, <1>18, <1>19, <1>20, <1>21 DEF Next, ServerStep

-----------------------------------------------------------------------------
(***************************************************************************)
(* The parser of sparse images.                                            *)
(***************************************************************************)
LEMMA SparseFacts ==
  ASSUME NEW img, IsSparse(img), NEW k \in DOMAIN img.chunks
  PROVE  LET c == img.chunks[k]
         IN  /\ Len(img.chunks) \in Nat /\ k \in 1 .. Len(img.chunks)
             /\ c.type \in {"raw", "fill", "skip", "crc", "bad"}
             /\ c.n \in Nat /\ c.data \in Seq(Int) /\ Len(c.data) \in Nat
             /\ c.type = "raw" => Len(c.data) = c.n \/ k = Len(img.chunks)
             /\ c.type = "fill" => c.n > 0 /\ Len(c.data) = 1 /\ c.data[1] \in Int
<1> DEFINE Chunks == [type : {"raw", "fill", "skip", "crc", "bad"}, n : Nat, data : Seq(Int)]
           c == img.chunks[k]
<1>1. img.chunks \in Seq(Chunks)
  BY DEF IsSparse
<1>2. Len(img.chunks) \in Nat /\ k \in 1 .. Len(img.chunks)
  BY <1>1, LenProperties
<1>3. c \in Chunks
  BY <1>1, <1>2, ElementOfSeq
<1>4. /\ c.type = "raw" => Len(c.data) = c.n \/ k = Len(img.chunks)
      /\ c.type = "fill" => c.n > 0 /\ Len(c.data) = 1
  BY DEF IsSparse
<1>5. c.data \in Seq(Int)
  BY <1>3
<1> HIDE DEF c
<1>6. Len(c.data) \in Nat
  BY <1>5, LenProperties
<1>7. Len(c.data) = 1 => c.data[1] \in Int
  BY <1>5, ElementOfSeq
<1> QED BY <1>2, <1>3, <1>4, <1>5, <1>6, <1>7 DEF c

\* The units before a chunk are the sum of those of the chunks before it.
LEMMA BeforeFacts ==
  ASSUME NEW img, IsSparse(img)
  PROVE  /\ Before(img, 1) = 0
         /\ \A k \in DOMAIN img.chunks :
              /\ Before(img, k) \in Nat
              /\ Before(img, k + 1) = Before(img, k) + img.chunks[k].n
<1> DEFINE n == Len(img.chunks)
           sum[k \in 0 .. n] == IF k = 0 THEN 0 ELSE sum[k - 1] + img.chunks[k].n
           g == [y \in (1 .. n) \X Nat |-> y[2] + img.chunks[y[1]].n]
<1>1. n \in Nat /\ DOMAIN img.chunks = 1 .. n
  BY LenProperties DEF IsSparse
<1>2. \A k \in 1 .. n : img.chunks[k].n \in Nat
  BY <1>1, SparseFacts
<1>3. \A k : Before(img, k) = sum[k - 1]
  BY DEF Before
<1>4. sum = [k \in 0 .. n |-> IF k = 0 THEN 0 ELSE sum[k - 1] + img.chunks[k].n]
  <2>1. g \in [(1 .. n) \X Nat -> Nat]
    BY <1>2
  <2>2. \A k \in 1 .. n, x \in Nat : g[<<k, x>>] = x + img.chunks[k].n
    OBVIOUS
  <2> HIDE DEF g, n
  <2>3. PICK f \in [0 .. n -> Nat] :
          \A i \in 0 .. n : f[i] = IF i = 0 THEN 0 ELSE g[<<i, f[i - 1]>>]
    <3> DEFINE z == 0
               D == Nat
    <3>1. z \in D /\ IsStep(g, n, D)
      BY <2>1 DEF IsStep
    <3> HIDE DEF z, D
    <3>2. \E f : ByRecursion(f, n, D, z, g)
      BY <1>1, <3>1, FunctionByRecursion
    <3> QED BY <3>2 DEF z, D, ByRecursion
  <2>4. ASSUME NEW i \in 0 .. n
        PROVE  f[i] = IF i = 0 THEN 0 ELSE f[i - 1] + img.chunks[i].n
    <3>1. i # 0 => i \in 1 .. n /\ f[i - 1] \in Nat
      BY <1>1
    <3> QED BY <2>2, <2>3, <3>1
  <2>5. f = [k \in 0 .. n |-> IF k = 0 THEN 0 ELSE f[k - 1] + img.chunks[k].n]
    BY <2>4
  <2>6. \E h : h = [k \in 0 .. n |-> IF k = 0 THEN 0 ELSE h[k - 1] + img.chunks[k].n]
    BY <2>5
  <2> QED BY <2>6
<1> HIDE DEF sum, n
<1> DEFINE S == {k \in Nat : k <= n => sum[k] \in Nat}
<1>5. 0 \in S
  BY <1>1, <1>4
<1>6. ASSUME NEW k \in Nat, k \in S PROVE k + 1 \in S
  <2> SUFFICES ASSUME k + 1 <= n PROVE sum[k + 1] \in Nat
    OBVIOUS
  <2>1. k + 1 \in 0 .. n /\ k + 1 # 0 /\ k + 1 \in 1 .. n /\ (k + 1) - 1 = k
    BY <1>1
  <2>2. sum[k + 1] = sum[k] + img.chunks[k + 1].n
    BY <1>4, <2>1
  <2>3. sum[k] \in Nat
    BY <1>1, <1>6
  <2> QED BY <1>2, <2>1, <2>2, <2>3
<1>7. \A k \in 0 .. n : sum[k] \in Nat
  <2> HIDE DEF S
  <2>1. Nat \subseteq S
    BY <1>5, <1>6, NatSetInduction
  <2> QED BY <1>1, <2>1 DEF S
<1>8. Before(img, 1) = 0
  <2>1. Before(img, 1) = sum[0]
    <3>1. Before(img, 1) = sum[1 - 1]
      BY <1>3
    <3> QED BY <3>1
  <2> QED BY <1>1, <1>4, <2>1
<1>9. ASSUME NEW k \in 1 .. n
      PROVE  /\ Before(img, k) \in Nat
             /\ Before(img, k + 1) = Before(img, k) + img.chunks[k].n
  <2>1. k - 1 \in 0 .. n /\ k \in 0 .. n /\ k # 0 /\ (k + 1) - 1 = k
    BY <1>1
  <2>2. sum[k] = sum[k - 1] + img.chunks[k].n
    BY <1>4, <2>1
  <2> QED BY <1>3, <1>7, <2>1, <2>2
<1> QED BY <1>1, <1>8, <1>9

LEMMA SparseBegins ==
  ASSUME NEW img, IsSparse(img)
  PROVE  SparseAt(SparseStart(img), img)
<1> DEFINE n == Len(img.chunks)
           at == SparseStart(img)
           Chunks == [type : {"raw", "fill", "skip", "crc", "bad"}, n : Nat, data : Seq(Int)]
<1>0. img.chunks \in Seq(Chunks)
  BY DEF IsSparse
<1> HIDE DEF Chunks
<1>1. at.chunks = img.chunks /\ at.fill = 0 /\ at.offset = 0
  BY DEF SparseStart
<1>2. n \in Nat /\ DOMAIN img.chunks = 1 .. n
  BY <1>0, LenProperties
<1>3. SubSeq(img.chunks, 1, n) = img.chunks
  BY <1>0, SubSeqFull
<1>4. CASE img.chunks # <<>>
  <2>1. n # 0
    BY <1>0, <1>4, EmptySeq
  <2>2. 1 \in DOMAIN img.chunks
    BY <1>2, <2>1
  <2>3. Before(img, 1) = 0 /\ img.chunks[1].n \in Nat
    BY <2>2, BeforeFacts, SparseFacts
  <2> HIDE DEF at
  <2>4. at.fill \in 0 .. img.chunks[1].n /\ ~(at.fill > 0)
    BY <1>1, <2>3
  <2>5. at.offset = Before(img, 1) + IF at.fill = 0 THEN 0 ELSE img.chunks[1].n - at.fill
    BY <1>1, <2>3
  <2>6. at.chunks = SubSeq(img.chunks, 1, Len(img.chunks))
    BY <1>1, <1>3
  <2>7. SparseAt(at, img)
    BY <2>2, <2>4, <2>5, <2>6 DEF SparseAt
  <2> QED BY <2>7 DEF at
<1>5. CASE img.chunks = <<>>
  BY <1>1, <1>5 DEF SparseAt
<1> QED BY <1>4, <1>5

\* One step of the parser writes units of the chunk that it is at, and the cursor and
\* the chunks that are left stay in step.
LEMMA SparseStepFacts ==
  ASSUME NEW img, IsSparse(img), NEW at, SparseAt(at, img), at.chunks # <<>>
  PROVE  LET c == NextChunk(at)
             data == NextData(at)
         IN  /\ c.type \in {"raw", "fill", "skip", "crc", "bad"}
             /\ c.type = "skip" => SparseAt(After(at, c.n), img)
             /\ c.type \in {"raw", "fill"} =>
                  /\ data \in Seq(Int) /\ at.offset \in Nat
                  /\ Span(at.offset, data) \subseteq SparseUnits(img)
                  /\ SparseAt(After(at, Len(data)), img)
<1> DEFINE n == Len(img.chunks)
           Chunks == [type : {"raw", "fill", "skip", "crc", "bad"}, n : Nat, data : Seq(Int)]
           c == NextChunk(at)
           data == NextData(at)
<1>0. img.chunks \in Seq(Chunks)
  BY DEF IsSparse
<1> HIDE DEF Chunks
<1>1. n \in Nat /\ DOMAIN img.chunks = 1 .. n
  BY <1>0, LenProperties
<1>2. PICK k \in 1 .. n :
        /\ at.chunks = SubSeq(img.chunks, k, n)
        /\ at.fill \in 0 .. img.chunks[k].n
        /\ at.fill > 0 => img.chunks[k].type = "fill"
        /\ at.offset = Before(img, k) + IF at.fill = 0 THEN 0 ELSE img.chunks[k].n - at.fill
  BY <1>1 DEF SparseAt
<1>3. c = img.chunks[k] /\ Tail(at.chunks) = SubSeq(img.chunks, k + 1, n)
  <2>1. n \in k .. n
    BY <1>1
  <2> QED BY <1>0, <1>2, <2>1, HeadTailOfSubSeq DEF NextChunk
<1> HIDE DEF c, data, n
<1>4. /\ c.type \in {"raw", "fill", "skip", "crc", "bad"}
      /\ c.n \in Nat /\ c.data \in Seq(Int) /\ Len(c.data) \in Nat
      /\ c.type = "raw" => Len(c.data) = c.n \/ k = n
      /\ c.type = "fill" => c.n > 0 /\ Len(c.data) = 1 /\ c.data[1] \in Int
  BY <1>1, <1>3, SparseFacts DEF n
<1>5. Before(img, k) \in Nat /\ Before(img, k + 1) = Before(img, k) + c.n
  BY <1>1, <1>3, BeforeFacts
<1>6. at.fill \in 0 .. c.n /\ (at.fill > 0 => c.type = "fill")
  BY <1>2, <1>3
<1>7. at.offset = Before(img, k) + IF at.fill = 0 THEN 0 ELSE c.n - at.fill
  BY <1>2, <1>3
\* a parser that is at the next chunk, or at the end
<1>8. ASSUME NEW b, b.chunks = SubSeq(img.chunks, k + 1, n), b.fill = 0,
             b.offset = Before(img, k + 1) \/ k = n
      PROVE  SparseAt(b, img)
  <2>1. CASE k = n
    <3>1. SubSeq(img.chunks, k + 1, n) = <<>>
      BY <1>1, <2>1, SubSeqEmpty
    <3> QED BY <1>8, <3>1 DEF SparseAt
  <2>2. CASE k # n
    <3>1. k + 1 \in 1 .. n
      BY <1>1, <2>2
    <3>2. Before(img, k + 1) \in Nat /\ img.chunks[k + 1].n \in Nat
      BY <1>1, <3>1, BeforeFacts, SparseFacts
    <3>3. b.fill \in 0 .. img.chunks[k + 1].n /\ ~(b.fill > 0)
      BY <1>8, <3>2
    <3>4. b.offset = Before(img, k + 1)
                       + IF b.fill = 0 THEN 0 ELSE img.chunks[k + 1].n - b.fill
      BY <1>8, <2>2, <3>2
    <3> DEFINE j == k + 1
    <3> HIDE DEF j
    <3>5. /\ j \in DOMAIN img.chunks /\ b.chunks = SubSeq(img.chunks, j, n)
          /\ b.fill \in 0 .. img.chunks[j].n /\ ~(b.fill > 0)
          /\ b.offset = Before(img, j) + IF b.fill = 0 THEN 0 ELSE img.chunks[j].n - b.fill
      BY <1>1, <1>8, <3>1, <3>3, <3>4 DEF j
    <3> QED BY <3>5 DEF SparseAt, n
  <2> QED BY <2>1, <2>2
<1>9. ASSUME c.type = "skip" PROVE SparseAt(After(at, c.n), img)
  <2> DEFINE b == After(at, c.n)
  <2>1. at.fill = 0 /\ at.offset = Before(img, k)
    BY <1>5, <1>6, <1>7, <1>9
  <2>2. b.chunks = Tail(at.chunks) /\ b.fill = 0 /\ b.offset = at.offset + c.n
    BY <1>9 DEF After, c
  <2> HIDE DEF b
  <2> QED BY <1>3, <1>5, <1>8, <2>1, <2>2 DEF b
<1>10. ASSUME c.type = "raw"
       PROVE  /\ data \in Seq(Int) /\ at.offset \in Nat
              /\ Span(at.offset, data) \subseteq ChunkUnits(img, k)
              /\ SparseAt(After(at, Len(data)), img)
  <2> DEFINE b == After(at, Len(data))
  <2>1. at.fill = 0 /\ at.offset = Before(img, k)
    BY <1>5, <1>6, <1>7, <1>10
  <2>2. data = c.data
    BY <1>10 DEF data, c, NextData
  <2>3. b.chunks = Tail(at.chunks) /\ b.fill = 0 /\ b.offset = at.offset + Len(data)
    BY <1>10 DEF After, c
  <2>4. Span(at.offset, data) = ChunkUnits(img, k)
    BY <1>3, <1>10, <2>1, <2>2 DEF Span, ChunkUnits
  <2>5. b.offset = Before(img, k + 1) \/ k = n
    BY <1>4, <1>5, <1>10, <2>1, <2>2, <2>3
  <2> HIDE DEF b
  <2>6. SparseAt(b, img)
    BY <1>3, <1>8, <2>3, <2>5
  <2> QED BY <1>4, <1>5, <2>1, <2>2, <2>4, <2>6 DEF b
<1>11. ASSUME c.type = "fill"
       PROVE  /\ data \in Seq(Int) /\ at.offset \in Nat
              /\ Span(at.offset, data) \subseteq ChunkUnits(img, k)
              /\ SparseAt(After(at, Len(data)), img)
  <2> DEFINE m == IF at.fill > 0 THEN at.fill ELSE c.n
             s == Piece(m)
             b == After(at, Len(data))
  <2>1. m \in 1 .. c.n /\ at.offset = Before(img, k) + (c.n - m)
    BY <1>4, <1>5, <1>6, <1>7, <1>11
  <2>2. data = [i \in 1 .. s |-> c.data[1]]
    BY <1>11 DEF data, NextData, c
  <2> HIDE DEF m
  <2>3. s \in 1 .. m
    BY <2>1, LocalBufferAssumption DEF Piece, Smaller
  <2> HIDE DEF s
  <2>4. data \in Seq(Int) /\ Len(data) = s
    <3>1. data \in [1 .. s -> Int]
      BY <1>4, <1>11, <2>2
    <3>2. s \in Nat
      BY <2>1, <2>3
    <3> QED BY <3>1, <3>2, FunctionIsSeq
  <2>5. Span(at.offset, data) \subseteq ChunkUnits(img, k)
    <3> DEFINE first == at.offset
               low == Before(img, k)
               size == c.n
    <3>1. ChunkUnits(img, k) = low .. low + size - 1
      BY <1>3, <1>11 DEF ChunkUnits
    <3>2. Span(at.offset, data) = first .. first + s - 1
      BY <2>4 DEF Span
    <3>3. first \in Int /\ s \in Int /\ low \in Int /\ size \in Int
      BY <1>4, <1>5, <2>1, <2>3
    <3>4. low <= first /\ first + s <= low + size
      BY <1>4, <1>5, <2>1, <2>3
    <3> HIDE DEF first, low, size
    <3>5. (first .. first + s - 1) \subseteq (low .. low + size - 1)
      BY <3>3, <3>4, IntervalWithin
    <3> QED BY <3>1, <3>2, <3>5
  <2>6. /\ b.chunks = IF m - s > 0 THEN at.chunks ELSE Tail(at.chunks)
        /\ b.fill = m - s /\ b.offset = at.offset + s
    BY <1>11, <2>4 DEF After, c, m
  <2> HIDE DEF b
  <2>7. SparseAt(b, img)
    <3>1. CASE m - s > 0
      <4>1. b.chunks = SubSeq(img.chunks, k, n)
        BY <1>2, <2>6, <3>1
      <4>2. b.fill \in 0 .. img.chunks[k].n /\ img.chunks[k].type = "fill"
        BY <1>3, <1>4, <1>11, <2>1, <2>3, <2>6, <3>1
      <4>3. b.offset = Before(img, k) + IF b.fill = 0 THEN 0 ELSE img.chunks[k].n - b.fill
        BY SMTT(30), <1>3, <1>4, <1>5, <2>1, <2>3, <2>6, <3>1
      <4> QED BY <1>1, <4>1, <4>2, <4>3 DEF SparseAt, n
    <3>2. CASE ~(m - s > 0)
      <4>1. m = s
        BY <2>1, <2>3, <3>2
      <4>2. b.chunks = SubSeq(img.chunks, k + 1, n) /\ b.fill = 0
        <5>1. m - s = 0
          BY <2>1, <4>1
        <5> QED BY <1>3, <2>6, <3>2, <5>1
      <4>3. b.offset = Before(img, k + 1)
        BY <1>4, <1>5, <2>1, <2>6, <4>1
      <4> QED BY <1>8, <4>2, <4>3
    <3> QED BY <3>1, <3>2
  <2> QED BY <1>4, <1>5, <2>1, <2>4, <2>5, <2>7 DEF b
<1>12. ChunkUnits(img, k) \subseteq SparseUnits(img)
  BY <1>1 DEF SparseUnits
<1> QED BY <1>4, <1>9, <1>10, <1>11, <1>12 DEF c, data

-----------------------------------------------------------------------------
(***************************************************************************)
(* The writes of an update and of a change of the lock bit.                *)
(***************************************************************************)
Names == {"BCT", "mb1", "mb2"}

LEMMA DependencyFacts ==
  /\ DOMAIN Dependency = Names
  /\ Dependency["BCT"] = {"mb2"} /\ Dependency["mb1"] = {"BCT"} /\ Dependency["mb2"] = {}
  BY DEF Dependency, Names

\* names that were handled, and their order, in which none comes twice and each comes
\* after what it depends on
Handled ==
  {h \in [names : SUBSET Names, order : Seq(Names)] :
     /\ \A i, j \in 1 .. Len(h.order) :
          h.order[i] \in h.names /\ (h.order[i] = h.order[j] => i = j)
     /\ \A n \in h.names : \E i \in 1 .. Len(h.order) : h.order[i] = n
     /\ \A i \in 1 .. Len(h.order) : \A n \in Dependency[h.order[i]] :
          \E j \in 1 .. i - 1 : h.order[j] = n}

LEMMA UpdateRecursiveFacts ==
  ASSUME NEW name \in Names, NEW done \in Handled
  PROVE  /\ UpdateRecursive(name, done) \in Handled
         /\ done.names \cup {name} \subseteq UpdateRecursive(name, done).names
<1> DEFINE Next1(n, before) ==
             IF n \in done.names THEN done
             ELSE [names |-> before.names \cup {n}, order |-> Append(before.order, n)]
           Below(n, f) ==
             IF Dependency[n] = {} THEN done ELSE f[CHOOSE d \in Dependency[n] : TRUE]
           Sat(f) == f = [n \in Names |-> Next1(n, Below(n, f))]
           v2 == Next1("mb2", done)
           vB == Next1("BCT", v2)
           v1 == Next1("mb1", vB)
           f0 == [n \in Names |-> IF n = "mb2" THEN v2 ELSE IF n = "BCT" THEN vB ELSE v1]
           f == CHOOSE f : Sat(f)
<1>1. /\ (CHOOSE d \in Dependency["BCT"] : TRUE) = "mb2"
      /\ (CHOOSE d \in Dependency["mb1"] : TRUE) = "BCT"
  BY DependencyFacts
<1>2. \A g : /\ Below("mb2", g) = done
             /\ Below("BCT", g) = g["mb2"]
             /\ Below("mb1", g) = g["BCT"]
  BY <1>1, DependencyFacts
<1>3. UpdateRecursive(name, done) = f[name]
  BY DependencyFacts DEF UpdateRecursive
<1>4. ASSUME NEW n \in Names, NEW before \in Handled,
             done.names \subseteq before.names,
             n \notin done.names => n \notin before.names /\ Dependency[n] \subseteq before.names
      PROVE  /\ Next1(n, before) \in Handled
             /\ Next1(n, before).names \subseteq done.names \cup before.names \cup {n}
             /\ done.names \cup {n} \subseteq Next1(n, before).names
  <2> DEFINE old == before.order
             new == Append(old, n)
  <2>1. before.names \in SUBSET Names /\ old \in Seq(Names) /\ Len(old) \in Nat
    BY LenProperties DEF Handled
  <2>2. /\ new \in Seq(Names) /\ Len(new) = Len(old) + 1
        /\ \A i \in 1 .. Len(old) : new[i] = old[i]
        /\ new[Len(old) + 1] = n
    BY <2>1, AppendProperties
  <2>3. /\ \A i, j \in 1 .. Len(old) :
             old[i] \in before.names /\ (old[i] = old[j] => i = j)
        /\ \A m \in before.names : \E i \in 1 .. Len(old) : old[i] = m
        /\ \A i \in 1 .. Len(old) : \A m \in Dependency[old[i]] :
             \E j \in 1 .. i - 1 : old[j] = m
    BY DEF Handled
  <2> HIDE DEF old, new
  <2>4. ASSUME n \notin before.names, NEW i \in 1 .. Len(new), NEW j \in 1 .. Len(new)
        PROVE  new[i] \in before.names \cup {n} /\ (new[i] = new[j] => i = j)
    <3>1. /\ i \in 1 .. Len(old) \/ i = Len(old) + 1
          /\ j \in 1 .. Len(old) \/ j = Len(old) + 1
      BY <2>1, <2>2
    <3> QED BY <2>2, <2>3, <2>4, <3>1
  <2>6. ASSUME NEW m \in before.names \cup {n} PROVE \E i \in 1 .. Len(new) : new[i] = m
    <3>1. CASE m = n
      <4>1. Len(old) + 1 \in 1 .. Len(new)
        BY <2>1, <2>2
      <4> QED BY <2>2, <3>1, <4>1
    <3>2. CASE m # n
      <4>1. PICK i \in 1 .. Len(old) : old[i] = m
        BY <2>3, <3>2
      <4>2. i \in 1 .. Len(new) /\ new[i] = old[i]
        BY <2>1, <2>2
      <4> QED BY <4>1, <4>2
    <3> QED BY <3>1, <3>2
  <2>7. ASSUME n \notin done.names, NEW i \in 1 .. Len(new), NEW m \in Dependency[new[i]]
        PROVE  \E j \in 1 .. i - 1 : new[j] = m
    <3>1. \E j \in 1 .. Len(old) : j \in 1 .. i - 1 /\ old[j] = m
      <4>1. CASE i \in 1 .. Len(old)
        <5>1. new[i] = old[i]
          BY <2>2, <4>1
        <5>2. PICK j \in 1 .. i - 1 : old[j] = m
          BY <2>3, <2>7, <4>1, <5>1
        <5>3. j \in 1 .. Len(old)
          BY <2>1, <4>1
        <5> QED BY <5>2, <5>3
      <4>2. CASE i = Len(old) + 1
        <5>1. m \in before.names
          BY <1>4, <2>2, <2>7, <4>2
        <5>2. PICK j \in 1 .. Len(old) : old[j] = m
          BY <2>3, <5>1
        <5>3. j \in 1 .. i - 1
          BY <2>1, <4>2
        <5> QED BY <5>2, <5>3
      <4> QED BY <2>1, <2>2, <2>7, <4>1, <4>2
    <3> QED BY <2>2, <3>1
  <2>5. n \notin done.names =>
          [names |-> before.names \cup {n}, order |-> new] \in Handled
    <3> DEFINE h == [names |-> before.names \cup {n}, order |-> new]
    <3> SUFFICES ASSUME n \notin done.names PROVE h \in Handled
      OBVIOUS
    <3>1. h \in [names : SUBSET Names, order : Seq(Names)] /\ h.order = new
          /\ h.names = before.names \cup {n}
      BY <2>1, <2>2
    <3>2. n \notin before.names
      BY <1>4
    <3> HIDE DEF h
    <3> QED BY <2>4, <2>6, <2>7, <3>1, <3>2 DEF Handled
  <2> QED BY <1>4, <2>5 DEF new, old
<1> HIDE DEF Next1, Below
<1>5. f0["mb2"] = v2 /\ f0["BCT"] = vB /\ f0["mb1"] = v1
  BY DEF Names
<1>6. Sat(f0)
  <2> HIDE DEF v2, vB, v1
  <2>1. \A n \in Names : f0[n] = Next1(n, Below(n, f0))
    <3>1. f0["mb2"] = Next1("mb2", Below("mb2", f0))
      BY <1>2, <1>5 DEF v2
    <3>2. f0["BCT"] = Next1("BCT", Below("BCT", f0))
      BY <1>2, <1>5 DEF vB
    <3>3. f0["mb1"] = Next1("mb1", Below("mb1", f0))
      BY <1>2, <1>5 DEF v1
    <3> HIDE DEF f0
    <3> QED BY <3>1, <3>2, <3>3 DEF Names
  <2> QED BY <2>1
<1>7. Sat(f)
  <2> HIDE DEF f0, Sat
  <2> QED BY <1>6
<1> HIDE DEF f
<1>8. \A n \in Names : f[n] = Next1(n, Below(n, f))
  BY <1>7
<1>9. /\ f["mb2"] \in Handled /\ f["mb2"].names \subseteq done.names \cup {"mb2"}
      /\ done.names \cup {"mb2"} \subseteq f["mb2"].names
  <2>1. Dependency["mb2"] \subseteq done.names
    BY DependencyFacts
  <2> QED BY <1>2, <1>4, <1>8, <2>1 DEF Names
<1>10. /\ f["BCT"] \in Handled /\ f["BCT"].names \subseteq done.names \cup {"mb2", "BCT"}
       /\ done.names \cup {"BCT"} \subseteq f["BCT"].names
  <2>1. "BCT" \notin done.names => "BCT" \notin f["mb2"].names
    BY <1>9
  <2>2. Dependency["BCT"] \subseteq f["mb2"].names
    BY <1>9, DependencyFacts
  <2> QED BY <1>2, <1>4, <1>8, <1>9, <2>1, <2>2 DEF Names
<1>11. f["mb1"] \in Handled /\ done.names \cup {"mb1"} \subseteq f["mb1"].names
  <2>1. "mb1" \notin done.names => "mb1" \notin f["BCT"].names
    BY <1>10
  <2>2. Dependency["mb1"] \subseteq f["BCT"].names
    BY <1>10, DependencyFacts
  <2> QED BY <1>2, <1>4, <1>8, <1>10, <2>1, <2>2 DEF Names
<1> QED BY <1>3, <1>9, <1>10, <1>11 DEF Names

\* The entry that is written for a name is the first of them, which the payload's
\* version is that of.
LEMMA EntryFacts ==
  ASSUME NEW payload, IsPayload(payload)
  PROVE  /\ payload.version \in 0 .. LockBit - 1 /\ payload.ratchet \in BOOLEAN
         /\ Len(payload.entries) \in Nat
         /\ DOMAIN payload.entries = 1 .. Len(payload.entries)
         /\ \A i \in 1 .. Len(payload.entries) : payload.entries[i].name \in Names
         /\ NamesOf(payload) \subseteq Names
         /\ \A name \in NamesOf(payload) :
              /\ \E i \in 1 .. Len(payload.entries) : payload.entries[i].name = name
              /\ ImageData(payload, name)
                   = [i \in 1 .. ImageUnits[name] |-> payload.version]
<1> DEFINE Entries == [name : DOMAIN Dependency, spec : STRING, mode : Nat,
                       version : 0 .. LockBit - 1]
           n == Len(payload.entries)
<1>1. payload.entries \in Seq(Entries)
  BY DEF IsPayload
<1>2. n \in Nat /\ DOMAIN payload.entries = 1 .. n
      /\ \A i \in 1 .. n : payload.entries[i] \in Entries
  <2> HIDE DEF Entries
  <2> QED BY <1>1, LenProperties, ElementOfSeq
<1>3. \A i \in 1 .. n : payload.entries[i].name \in Names
  BY <1>2, DependencyFacts
<1>4. ASSUME NEW name \in NamesOf(payload)
      PROVE  /\ \E i \in 1 .. n : payload.entries[i].name = name
             /\ EntryFor(payload, name).version = payload.version
  <2> DEFINE T == PlacesFor(payload, name)
             first == CHOOSE i \in T : \A k \in T : i <= k
  <2>1. T \subseteq 1 .. n /\ T \subseteq Nat /\ T # {}
    BY <1>2 DEF NamesOf, PlacesFor
  <2>2. \A i \in T : payload.entries[i].name = name /\ IsFor(payload.entries[i])
    BY DEF PlacesFor
  <2>3. \A i \in 1 .. n : payload.entries[i].name = name /\ IsFor(payload.entries[i]) => i \in T
    BY <1>2 DEF PlacesFor
  <2> HIDE DEF T
  <2>4. first \in T /\ \A k \in T : first <= k
    BY <2>1, NatLeast
  <2>5. EntryFor(payload, name) = payload.entries[first]
    BY DEF EntryFor, T
  <2> HIDE DEF first
  <2>6. first \in 1 .. n
    BY <2>1, <2>4
  <2>7. \/ payload.entries[first].version = payload.version
        \/ ~IsFor(payload.entries[first])
        \/ \E k \in 1 .. first - 1 :
             payload.entries[k].name = payload.entries[first].name
               /\ IsFor(payload.entries[k])
    BY <1>2, <2>6 DEF IsPayload
  <2>8. \A k \in 1 .. first - 1 : k \in 1 .. n /\ ~(first <= k)
    BY <1>2, <2>6
  <2> QED BY <2>2, <2>3, <2>4, <2>5, <2>6, <2>7, <2>8
<1>5. NamesOf(payload) \subseteq Names
  BY DependencyFacts DEF NamesOf
<1> QED BY <1>2, <1>3, <1>4, <1>5 DEF IsPayload, ImageData

LEMMA UpdateOrderFacts ==
  ASSUME NEW payload, IsPayload(payload)
  PROVE  /\ UpdateOrder(payload) \in Seq(Names)
         /\ \A i, j \in 1 .. Len(UpdateOrder(payload)) :
              UpdateOrder(payload)[i] = UpdateOrder(payload)[j] => i = j
         /\ \A i \in 1 .. Len(UpdateOrder(payload)) :
              \A m \in Dependency[UpdateOrder(payload)[i]] :
                \E j \in 1 .. i - 1 : UpdateOrder(payload)[j] = m
         /\ \A m \in NamesOf(payload) :
              \E i \in 1 .. Len(UpdateOrder(payload)) : UpdateOrder(payload)[i] = m
<1> DEFINE n == Len(payload.entries)
           z == [names |-> {}, order |-> <<>>]
           upto[i \in 0 .. n] ==
             IF i = 0 THEN z ELSE UpdateRecursive(payload.entries[i].name, upto[i - 1])
           g == [y \in (1 .. n) \X Handled |-> UpdateRecursive(payload.entries[y[1]].name, y[2])]
<1>1. n \in Nat /\ \A i \in 1 .. n : payload.entries[i].name \in Names
  BY EntryFacts
<1>2. UpdateOrder(payload) = upto[n].order
  BY DEF UpdateOrder
<1>3. z \in Handled
  <2>1. z \in [names : SUBSET Names, order : Seq(Names)] /\ Len(z.order) = 0
    BY EmptySeq
  <2> QED BY <2>1 DEF Handled
<1>4. /\ IsStep(g, n, Handled)
      /\ \A i \in 1 .. n, x \in Handled :
           g[<<i, x>>] = UpdateRecursive(payload.entries[i].name, x)
  BY <1>1, UpdateRecursiveFacts DEF IsStep
<1>5. upto = [i \in 0 .. n |->
                IF i = 0 THEN z ELSE UpdateRecursive(payload.entries[i].name, upto[i - 1])]
  <2> HIDE DEF g, n, z
  <2>1. PICK f : ByRecursion(f, n, Handled, z, g)
    BY <1>1, <1>3, <1>4, FunctionByRecursion
  <2>2. ASSUME NEW i \in 0 .. n
        PROVE  f[i] = IF i = 0 THEN z ELSE UpdateRecursive(payload.entries[i].name, f[i - 1])
    <3>1. i # 0 => i \in 1 .. n /\ i - 1 \in 0 .. n
      BY <1>1
    <3> QED BY <1>4, <2>1, <3>1 DEF ByRecursion
  <2>3. f = [i \in 0 .. n |->
              IF i = 0 THEN z ELSE UpdateRecursive(payload.entries[i].name, f[i - 1])]
    BY <2>1, <2>2 DEF ByRecursion
  <2>4. \E h : h = [i \in 0 .. n |->
              IF i = 0 THEN z ELSE UpdateRecursive(payload.entries[i].name, h[i - 1])]
    BY <2>3
  <2> QED BY <2>4
<1> HIDE DEF upto, n, z
<1> DEFINE Seen(i) == \A j \in 1 .. i : payload.entries[j].name \in upto[i].names
           S == {i \in Nat : i <= n => upto[i] \in Handled /\ Seen(i)}
<1>6. 0 \in S
  BY <1>1, <1>3, <1>5
<1>7. ASSUME NEW i \in Nat, i \in S PROVE i + 1 \in S
  <2> SUFFICES ASSUME i + 1 <= n PROVE upto[i + 1] \in Handled /\ Seen(i + 1)
    OBVIOUS
  <2>1. i + 1 \in 0 .. n /\ i + 1 # 0 /\ i + 1 \in 1 .. n /\ (i + 1) - 1 = i
    BY <1>1
  <2>2. upto[i + 1] = UpdateRecursive(payload.entries[i + 1].name, upto[i])
    BY <1>5, <2>1
  <2>3. upto[i] \in Handled /\ payload.entries[i + 1].name \in Names /\ Seen(i)
    BY <1>1, <1>7, <2>1
  <2>4. /\ upto[i + 1] \in Handled
        /\ upto[i].names \cup {payload.entries[i + 1].name} \subseteq upto[i + 1].names
    BY <2>2, <2>3, UpdateRecursiveFacts
  <2>5. \A j \in 1 .. i + 1 : j \in 1 .. i \/ j = i + 1
    OBVIOUS
  <2> QED BY <2>3, <2>4, <2>5
<1>8. upto[n] \in Handled /\ Seen(n)
  <2> HIDE DEF S
  <2>1. Nat \subseteq S
    BY <1>6, <1>7, NatSetInduction
  <2> QED BY <1>1, <2>1 DEF S
<1>9. \A m \in NamesOf(payload) : \E j \in 1 .. n : payload.entries[j].name = m
  BY EntryFacts DEF n
<1>10. \A m \in NamesOf(payload) : m \in upto[n].names
  BY <1>8, <1>9
<1> DEFINE h == upto[n]
           order == h.order
<1>11. h \in Handled
  BY <1>8
<1> HIDE DEF h
<1>12. order \in Seq(Names) /\ \A m \in h.names : \E i \in 1 .. Len(order) : order[i] = m
  BY <1>11 DEF Handled
<1>13. \A i, j \in 1 .. Len(order) : order[i] = order[j] => i = j
  BY <1>11 DEF Handled
<1>14. \A i \in 1 .. Len(order) : \A m \in Dependency[order[i]] :
         \E j \in 1 .. i - 1 : order[j] = m
  BY <1>11 DEF Handled
<1>15. UpdateOrder(payload) = order /\ \A m \in NamesOf(payload) : m \in h.names
  BY <1>2, <1>10 DEF h
<1> HIDE DEF order
<1> QED BY <1>12, <1>13, <1>14, <1>15

\* Writes from unit on, in partition p at offset, stay in S
LEMMA WriteFacts ==
  ASSUME NEW p \in DOMAIN Start, NEW offset \in Nat, NEW data \in Seq(Int), NEW S,
         Start[p] + offset .. Start[p] + offset + Len(data) - 1 \subseteq S
  PROVE  Write(p, offset, data) \in WritesIn(S)
  BY DEF Write, WritesIn, Span

LEMMA BctConstants ==
  /\ ImageUnits["BCT"] \in Nat \ {0} /\ BctSlot \in Nat /\ BootBlock \in Nat \ {0}
  /\ "BCT" \in DOMAIN Start /\ Start["BCT"] \in Nat /\ Size["BCT"] \in Nat
<1>1. "BCT" \in DOMAIN Dependency
  BY DependencyFacts DEF Names
<1>2. ImageUnits["BCT"] \in Nat \ {0}
  BY <1>1, ImageUnitsAssumption
<1> QED BY <1>2, BctAssumption, LayoutAssumption, BlockAssumption

LEMMA BctCopiesFacts ==
  ASSUME NEW size \in Nat
  PROVE  /\ BctCopies(size) \in Seq(Nat) /\ Len(BctCopies(size)) \in Nat
         /\ Len(BctCopies(size)) >= 2
         /\ BctCopies(size)[1] = 0 /\ BctCopies(size)[2] = BctSlot
         /\ size = 0 => Len(BctCopies(size)) = 2
         /\ \A i \in 3 .. Len(BctCopies(size)) : BctCopies(size)[i] >= BootBlock
<1> DEFINE blocks == size \div BootBlock
           first == <<0, BctSlot>>
           rest == IF blocks < 2 THEN <<>> ELSE [i \in 1 .. blocks - 1 |-> i * BootBlock]
<1>1. BctSlot \in Nat /\ BootBlock \in Nat \ {0}
  BY BctConstants
<1>2. blocks \in Nat /\ (size = 0 => blocks = 0)
  <2>1. blocks \in Nat
    BY <1>1, DivFacts
  <2>2. ASSUME size = 0 PROVE blocks = 0
    <3>1. 0 \div BootBlock = 0
      <4> DEFINE b == BootBlock
      <4>1. b \in Nat \ {0}
        BY <1>1
      <4> HIDE DEF b
      <4>2. (0 * b + 0) \div b = 0
        <5> DEFINE q == 0
                   r == 0
        <5>1. q \in Nat /\ r \in 0 .. b - 1
          BY <4>1
        <5> HIDE DEF q, r
        <5>2. (q * b + r) \div b = q
          BY <4>1, <5>1, ModOfSum
        <5> QED BY <5>2 DEF q, r
      <4>3. 0 * b + 0 = 0
        BY <4>1
      <4> QED BY <4>2, <4>3 DEF b
    <3> QED BY <2>2, <3>1
  <2> QED BY <2>1, <2>2
<1> HIDE DEF blocks
<1>3. first \in Seq(Nat) /\ Len(first) = 2 /\ first[1] = 0 /\ first[2] = BctSlot
  BY <1>1
<1>4. /\ rest \in Seq(Nat) /\ Len(rest) \in Nat /\ (blocks < 2 => Len(rest) = 0)
      /\ \A i \in 1 .. Len(rest) : rest[i] >= BootBlock
  <2>1. CASE blocks < 2
    BY <2>1, EmptySeq
  <2>2. CASE ~(blocks < 2)
    <3>1. blocks - 1 \in Nat
      BY <1>2, <2>2
    <3>2. \A i \in 1 .. blocks - 1 : i * BootBlock \in Nat
      BY <1>1, <3>1, MulFacts
    <3>3. /\ rest \in [1 .. blocks - 1 -> Nat]
          /\ \A i \in 1 .. blocks - 1 : rest[i] = i * BootBlock
      BY <2>2, <3>2
    <3> HIDE DEF rest
    <3>4. rest \in Seq(Nat) /\ Len(rest) = blocks - 1
      BY <3>1, <3>3, FunctionIsSeq
    <3>5. ASSUME NEW i \in 1 .. blocks - 1 PROVE rest[i] >= BootBlock
      <4> DEFINE one == 1
      <4>1. one \in Nat /\ one <= i /\ one * BootBlock = BootBlock
        BY <1>1
      <4> HIDE DEF one
      <4>2. one * BootBlock <= i * BootBlock
        BY <1>1, <4>1, MulMonotone
      <4>3. i * BootBlock \in Nat
        BY <1>1, <3>1, MulFacts
      <4> QED BY <1>1, <3>3, <4>1, <4>2, <4>3
    <3> QED BY <2>2, <3>1, <3>4, <3>5
  <2> QED BY <2>1, <2>2
<1>5. BctCopies(size) = first \o rest
  BY DEF BctCopies, blocks
<1> HIDE DEF first, rest
<1>6. /\ first \o rest \in Seq(Nat) /\ Len(first \o rest) = Len(first) + Len(rest)
      /\ \A i \in 1 .. Len(first) + Len(rest) :
           (first \o rest)[i] = IF i <= Len(first) THEN first[i] ELSE rest[i - Len(first)]
  BY <1>3, <1>4, ConcatProperties
<1>7. 1 \in 1 .. Len(first) + Len(rest) /\ 2 \in 1 .. Len(first) + Len(rest)
  BY <1>3, <1>4
<1>8. (first \o rest)[1] = 0 /\ (first \o rest)[2] = BctSlot
  BY <1>3, <1>6, <1>7
<1>9. size = 0 => Len(rest) = 0
  BY <1>2, <1>4
<1>10. ASSUME NEW i \in 3 .. Len(first) + Len(rest) PROVE (first \o rest)[i] >= BootBlock
  <2>1. i \in 1 .. Len(first) + Len(rest) /\ ~(i <= Len(first)) /\ i - 2 \in 1 .. Len(rest)
    BY <1>3, <1>4
  <2>2. (first \o rest)[i] = rest[i - 2]
    BY <1>3, <1>6, <2>1
  <2> QED BY <1>4, <2>1, <2>2
<1> QED BY <1>3, <1>4, <1>5, <1>6, <1>8, <1>9, <1>10

LEMMA BctWritesFacts ==
  ASSUME NEW bct \in Seq(Int), Len(bct) = ImageUnits["BCT"], NEW size \in Nat, NEW S,
         \A i \in DOMAIN BctCopies(size) :
           LET start == Start["BCT"] + BctCopies(size)[i]
           IN  start .. start + ImageUnits["BCT"] - 1 \subseteq S
  PROVE  BctWrites(bct, size) \in Seq(WritesIn(S))
<1> DEFINE copies == BctCopies(size)
           n == Len(copies)
<1>1. copies \in Seq(Nat) /\ n \in Nat
  BY BctCopiesFacts
<1>2. DOMAIN copies = 1 .. n /\ \A i \in 1 .. n : copies[i] \in Nat
  BY <1>1, LenProperties, ElementOfSeq
<1>3. ASSUME NEW i \in 1 .. n PROVE Write("BCT", copies[i], bct) \in WritesIn(S)
  <2>1. Start["BCT"] + copies[i] .. Start["BCT"] + copies[i] + Len(bct) - 1 \subseteq S
    BY <1>2
  <2> QED BY <1>2, <2>1, BctConstants, WriteFacts
<1>4. BctWrites(bct, size) = [i \in 1 .. n |-> Write("BCT", copies[i], bct)]
  BY <1>2 DEF BctWrites
<1> HIDE DEF copies, n
<1>5. BctWrites(bct, size) \in [1 .. n -> WritesIn(S)]
  BY <1>3, <1>4
<1> QED BY <1>1, <1>5, FunctionIsSeq

\* Where the copies of a BCT are: in the partition, the first two first.
LEMMA BctStartsFacts ==
  /\ DOMAIN BctStarts = DOMAIN BctCopies(Size["BCT"])
  /\ 1 \in DOMAIN BctStarts /\ 2 \in DOMAIN BctStarts
  /\ BctStarts[1] = Start["BCT"] + 0 /\ BctStarts[2] = Start["BCT"] + BctSlot
  /\ BctUnits \subseteq UnitsOf("BCT")
  /\ \A i \in DOMAIN BctStarts :
       /\ BctStarts[i] \in Nat
       /\ BctStarts[i] .. BctStarts[i] + ImageUnits["BCT"] - 1 \subseteq BctUnits
<1> DEFINE size == Size["BCT"]
           units == ImageUnits["BCT"]
           copies == BctCopies(size)
           first == <<0, BctSlot>>
           blocks == size \div BootBlock
           rest == IF blocks < 2 THEN <<>> ELSE [i \in 1 .. blocks - 1 |-> i * BootBlock]
<1>1. /\ units \in Nat \ {0} /\ BctSlot \in Nat /\ BootBlock \in Nat \ {0}
      /\ "BCT" \in DOMAIN Start /\ Start["BCT"] \in Nat /\ size \in Nat
      /\ units <= BctSlot /\ 2 * BctSlot <= BootBlock /\ BootBlock <= size
  BY BctConstants, BctAssumption, LayoutAssumption
<1>2. /\ copies \in Seq(Nat) /\ Len(copies) \in Nat /\ Len(copies) >= 2
      /\ copies[1] = 0 /\ copies[2] = BctSlot /\ DOMAIN copies = 1 .. Len(copies)
  BY <1>1, BctCopiesFacts, LenProperties
<1>3. \A i \in DOMAIN copies : copies[i] \in Nat
  BY <1>2, ElementOfSeq
<1>4. blocks \in Nat /\ blocks * BootBlock <= size
  <2> DEFINE n == BootBlock
  <2> HIDE DEF size, n
  <2>1. /\ size \div n \in Nat /\ size % n \in 0 .. n - 1
        /\ size = (size \div n) * n + (size % n)
    BY <1>1, DivFacts DEF n
  <2>2. (size \div n) * n \in Nat
    BY <1>1, <2>1, MulFacts DEF n
  <2> QED BY <2>1, <2>2 DEF n
<1>5. copies = first \o rest
  BY DEF BctCopies
<1> HIDE DEF copies, blocks, size, units
<1>6. ASSUME NEW i \in DOMAIN copies PROVE copies[i] + units <= size
  <2>1. CASE i = 1
    BY <1>1, <1>2, <2>1
  <2>2. CASE i = 2
    BY <1>1, <1>2, <2>2
  <2>3. CASE i \notin {1, 2}
    <3>1. i \in Nat /\ i > 2 /\ i <= Len(copies)
      BY <1>2, <2>3
    <3>2. ~(blocks < 2)
      <4>1. SUFFICES ASSUME blocks < 2 PROVE FALSE
        OBVIOUS
      <4>2. copies = first
        <5>1. first \in Seq(Nat)
          BY <1>1
        <5>2. first \o <<>> = first
          BY <5>1
        <5> QED BY <1>5, <4>1, <5>2
      <4>3. Len(copies) = 2
        BY <4>2
      <4> QED BY <3>1, <4>3
    <3>3. rest = [k \in 1 .. blocks - 1 |-> k * BootBlock]
      BY <3>2
    <3>4. /\ rest \in Seq(Nat) /\ Len(rest) = blocks - 1
      <4>1. \A k \in 1 .. blocks - 1 : k * BootBlock \in Nat
        BY <1>1, <1>4, MulFacts
      <4>2. rest \in [1 .. blocks - 1 -> Nat] /\ blocks - 1 \in Nat
        BY <1>4, <3>2, <3>3, <4>1
      <4> HIDE DEF rest
      <4> QED BY <4>2, FunctionIsSeq
    <3>5. first \in Seq(Nat) /\ Len(first) = 2
      BY <1>1
    <3> HIDE DEF first, rest
    <3>6. /\ Len(first \o rest) = Len(first) + Len(rest)
          /\ \A k \in 1 .. Len(first) + Len(rest) :
               (first \o rest)[k] = IF k <= Len(first) THEN first[k] ELSE rest[k - Len(first)]
      BY <3>4, <3>5, ConcatProperties
    <3>7. Len(copies) = 2 + (blocks - 1)
      BY <1>5, <3>4, <3>5, <3>6
    <3> DEFINE j == i - 2
    <3>8. j \in 1 .. blocks - 1 /\ i \in 1 .. Len(first) + Len(rest) /\ i > Len(first)
      BY <1>4, <3>1, <3>4, <3>5, <3>7
    <3>9. copies[i] = rest[j]
      BY <1>5, <3>5, <3>6, <3>8
    <3> HIDE DEF j
    <3>10. copies[i] = j * BootBlock
      BY <3>3, <3>8, <3>9
    <3>11. (j + 1) * BootBlock <= blocks * BootBlock
      <4>1. j + 1 \in Nat /\ j + 1 <= blocks
        BY <1>4, <3>8
      <4> DEFINE k == j + 1
      <4> HIDE DEF k
      <4>2. k * BootBlock <= blocks * BootBlock
        BY <1>1, <1>4, <4>1, MulMonotone DEF k
      <4> QED BY <4>2 DEF k
    <3>12. (j + 1) * BootBlock = j * BootBlock + BootBlock
      BY <1>1, <3>8
    <3>13. j * BootBlock \in Nat
      BY <1>1, <3>8, MulFacts
    <3>14. blocks * BootBlock \in Nat
      BY <1>1, <1>4, MulFacts
    <3> QED BY <1>1, <1>4, <3>10, <3>11, <3>12, <3>13, <3>14
  <2> QED BY <2>1, <2>2, <2>3
<1>7. DOMAIN BctStarts = DOMAIN copies /\ \A i \in DOMAIN copies : BctStarts[i] = Start["BCT"] + copies[i]
  BY DEF BctStarts, copies, size
<1>8. ASSUME NEW i \in DOMAIN copies
      PROVE  /\ BctStarts[i] \in Nat
             /\ BctStarts[i] .. BctStarts[i] + units - 1 \subseteq UnitsOf("BCT")
  <2>1. BctStarts[i] = Start["BCT"] + copies[i] /\ copies[i] \in Nat
    BY <1>3, <1>7
  <2> QED BY <1>1, <1>6, <2>1 DEF UnitsOf, size
<1>9. BctUnits = UNION {BctStarts[i] .. BctStarts[i] + units - 1 : i \in DOMAIN copies}
  BY <1>7 DEF BctUnits, OdmUnits, units
<1>10. 1 \in DOMAIN copies /\ 2 \in DOMAIN copies
  BY <1>2
<1>11. \A i \in DOMAIN copies : BctStarts[i] .. BctStarts[i] + units - 1 \subseteq BctUnits
  BY <1>9
<1>12. BctUnits \subseteq UnitsOf("BCT")
  BY <1>8, <1>9
<1>13. BctStarts[1] = Start["BCT"] + 0 /\ BctStarts[2] = Start["BCT"] + BctSlot
  BY <1>2, <1>7, <1>10
<1> QED BY <1>7, <1>8, <1>10, <1>11, <1>12, <1>13 DEF copies, size, units

LEMMA WithOdmFacts ==
  ASSUME NEW n \in Nat \ {0}, NEW bct \in [1 .. n -> Int], NEW open \in BOOLEAN
  PROVE  WithOdm(bct, open) \in Seq(Int) /\ Len(WithOdm(bct, open)) = n
<1>1. SetOdm(bct[1], open) \in Int
  <2>1. bct[1] \in Int
    OBVIOUS
  <2>2. bct[1] % LockBit \in Int
    BY <2>1 DEF LockBit
  <2> QED BY <2>2 DEF SetOdm, LockBit
<1>2. WithOdm(bct, open) \in [1 .. n -> Int]
  BY <1>1 DEF WithOdm
<1> QED BY <1>2, FunctionIsSeq

LEMMA VersionIsInt == \A v \in 0 .. LockBit - 1 : v \in Int
  OBVIOUS

\* The writes for a name stay where its image goes.
LEMMA WritesOfFacts ==
  ASSUME NEW payload, IsPayload(payload), NEW name \in NamesOf(payload), NEW slot \in {0, 1},
         NEW allSlots \in BOOLEAN, NEW open \in BOOLEAN, NEW S,
         \A p \in Target(name, slot, allSlots) : ImageUnitsIn(p, name) \subseteq S
  PROVE  WritesOf(name, slot, payload, allSlots, open) \in Seq(WritesIn(S))
<1> DEFINE data == ImageData(payload, name)
           n == ImageUnits[name]
           part == SlotParts[name][slot]
           other == SlotParts[name][1 - slot]
<1>1. /\ n \in Nat \ {0} /\ part \in DOMAIN Start /\ other \in DOMAIN Start
      /\ 1 - slot \in {0, 1} /\ {slot, 1 - slot} = {0, 1}
  <2>1. name \in DOMAIN Dependency
    BY DependencyFacts, EntryFacts
  <2>2. SlotParts[name] \in [{0, 1} -> DOMAIN Start]
    BY <2>1, LayoutAssumption
  <2> QED BY <2>1, <2>2, ImageUnitsAssumption
<1>2. data \in [1 .. n -> Int]
  BY EntryFacts, VersionIsInt
<1>3. data \in Seq(Int) /\ Len(data) = n
  BY <1>1, <1>2, FunctionIsSeq
<1>4. CASE name = "BCT"
  <2> DEFINE bct == WithOdm(data, open)
             z == 0
  <2>1. bct \in Seq(Int) /\ Len(bct) = ImageUnits["BCT"]
    BY <1>1, <1>2, <1>4, WithOdmFacts
  <2>2. /\ BctCopies(0) \in Seq(Nat) /\ Len(BctCopies(0)) = 2
        /\ BctCopies(0)[1] = 0 /\ BctCopies(0)[2] = BctSlot
    <3>1. z \in Nat /\ z = 0
      OBVIOUS
    <3> HIDE DEF z
    <3>2. /\ BctCopies(z) \in Seq(Nat) /\ Len(BctCopies(z)) = 2
          /\ BctCopies(z)[1] = 0 /\ BctCopies(z)[2] = BctSlot
      BY <3>1, BctCopiesFacts
    <3> QED BY <3>1, <3>2
  <2>3. DOMAIN BctCopies(0) = {1, 2}
    <3>1. DOMAIN BctCopies(0) = 1 .. 2
      BY <2>2, LenProperties
    <3> QED BY <3>1
  <2>4. part \in Target(name, slot, allSlots)
    BY <1>1 DEF Target
  <2>5. ImageUnitsIn(part, name)
          = UNION {start .. start + ImageUnits["BCT"] - 1 : start \in {BctStarts[1], BctStarts[2]}}
    BY <1>4 DEF ImageUnitsIn
  <2>6. \A i \in {1, 2} : BctStarts[i] .. BctStarts[i] + ImageUnits["BCT"] - 1 \subseteq S
    BY <2>4, <2>5
  <2>7. \A i \in {1, 2} : Start["BCT"] + BctCopies(0)[i] = BctStarts[i]
    BY <2>2, BctStartsFacts
  <2>8. WritesOf(name, slot, payload, allSlots, open) = BctWrites(bct, 0)
    BY <1>4 DEF WritesOf
  <2>9. \A i \in DOMAIN BctCopies(0) :
           LET start == Start["BCT"] + BctCopies(0)[i]
           IN  start .. start + ImageUnits["BCT"] - 1 \subseteq S
    BY <2>3, <2>6, <2>7
  <2> HIDE DEF bct
  <2>10. z \in Nat /\ z = 0
    OBVIOUS
  <2> HIDE DEF z
  <2>11. BctWrites(bct, z) \in Seq(WritesIn(S))
    BY <2>1, <2>9, <2>10, BctWritesFacts
  <2> QED BY <2>8, <2>10, <2>11
<1>5. CASE name # "BCT"
  <2> DEFINE parts == SlotOrder(name, slot, allSlots)
             T == Target(name, slot, allSlots)
  <2>1. WritesOf(name, slot, payload, allSlots, open)
          = [i \in DOMAIN parts |-> Write(parts[i], 0, data)]
    BY <1>5 DEF WritesOf
  <2>2. ASSUME NEW p \in T PROVE Write(p, 0, data) \in WritesIn(S)
    <3>1. p \in {part, other} /\ p \in DOMAIN Start
      BY <1>1 DEF Target
    <3>2. ImageUnitsIn(p, name) = UNION {start .. start + n - 1 : start \in {Start[p]}}
      BY <1>5 DEF ImageUnitsIn
    <3>3. Start[p] .. Start[p] + n - 1 \subseteq S
      BY <3>2
    <3>4. Start[p] \in Nat
      BY <3>1, BlockAssumption
    <3> DEFINE z == 0
    <3>5. z \in Nat /\ Start[p] + z = Start[p]
      BY <3>4
    <3> HIDE DEF z, data
    <3>6. Write(p, z, data) \in WritesIn(S)
      BY <1>3, <3>1, <3>3, <3>5, WriteFacts
    <3> QED BY <3>6 DEF z
  <2>3. \/ parts = <<part>> /\ part \in T
        \/ parts = <<part, other>> /\ part \in T /\ other \in T
    <3>1. part \in T
      BY <1>1 DEF Target
    <3>2. CASE SlotParts[name][0] = SlotParts[name][1]
      <4>1. part = SlotParts[name][0]
        BY <3>2
      <4> QED BY <3>1, <3>2, <4>1 DEF SlotOrder
    <3>3. CASE SlotParts[name][0] # SlotParts[name][1]
      BY <1>1, <3>1, <3>3 DEF SlotOrder, AlwaysAb, Target
    <3> QED BY <3>2, <3>3
  <2> HIDE DEF parts, T, data
  <2>4. \E m \in Nat : DOMAIN parts = 1 .. m /\ \A i \in 1 .. m : parts[i] \in T
    <3>1. CASE parts = <<part>> /\ part \in T
      <4>1. DOMAIN parts = 1 .. 1 /\ \A i \in 1 .. 1 : parts[i] \in T
        BY <3>1
      <4> QED BY <4>1
    <3>2. CASE parts = <<part, other>> /\ part \in T /\ other \in T
      <4>1. DOMAIN parts = 1 .. 2 /\ \A i \in 1 .. 2 : parts[i] \in T
        BY <3>2
      <4> QED BY <4>1
    <3> QED BY <2>3, <3>1, <3>2
  <2>5. PICK m \in Nat : DOMAIN parts = 1 .. m /\ \A i \in 1 .. m : parts[i] \in T
    BY <2>4
  <2>6. WritesOf(name, slot, payload, allSlots, open) \in [1 .. m -> WritesIn(S)]
    BY <2>1, <2>2, <2>5
  <2> QED BY <2>6, FunctionIsSeq
<1> QED BY <1>4, <1>5

\* plan[i] are the writes for the first i names in their order
PlannedBy(plan, payload, slot, allSlots, open, W) ==
  LET order == UpdateOrder(payload)
  IN  /\ UpdatePlan(payload, slot, allSlots, open) = plan[Len(order)]
      /\ plan[0] = <<>> /\ \A i \in 0 .. Len(order) : plan[i] \in W
      /\ \A i \in 1 .. Len(order) :
           plan[i] = IF order[i] \notin NamesOf(payload) THEN plan[i - 1]
                     ELSE plan[i - 1] \o WritesOf(order[i], slot, payload, allSlots, open)

\* The writes of an update go from name to name, and stay where the images of its
\* entries go.
LEMMA PlanUnfolds ==
  ASSUME NEW payload, IsPayload(payload),
         NEW slot \in {0, 1}, NEW allSlots \in BOOLEAN, NEW open \in BOOLEAN, NEW S,
         \A name \in NamesOf(payload) :
           \A p \in Target(name, slot, allSlots) : ImageUnitsIn(p, name) \subseteq S
  PROVE  \E plan :
           PlannedBy(plan, payload, slot, allSlots, open, Seq(WritesIn(S)))
<1> DEFINE order == UpdateOrder(payload)
           n == Len(order)
           W == Seq(WritesIn(S))
           z == <<>>
           Of(i) == WritesOf(order[i], slot, payload, allSlots, open)
           Next1(i, x) == IF order[i] \notin NamesOf(payload) THEN x ELSE x \o Of(i)
           plan[i \in 0 .. n] ==
             IF i = 0 THEN z
             ELSE IF order[i] \notin NamesOf(payload) THEN plan[i - 1]
             ELSE plan[i - 1] \o Of(i)
           g == [y \in (1 .. n) \X W |-> Next1(y[1], y[2])]
<1>1. order \in Seq(Names)
  BY UpdateOrderFacts
<1>2. UpdatePlan(payload, slot, allSlots, open) = plan[n]
  BY DEF UpdatePlan
<1> HIDE DEF order
<1>3. n \in Nat /\ \A i \in 1 .. n : order[i] \in Names
  BY <1>1, LenProperties, ElementOfSeq
<1>4. z \in W
  BY EmptySeq
<1>5. ASSUME NEW i \in 1 .. n, NEW x \in W PROVE Next1(i, x) \in W
  <2>1. CASE order[i] \notin NamesOf(payload)
    BY <2>1
  <2>2. CASE order[i] \in NamesOf(payload)
    <3>1. Of(i) \in Seq(WritesIn(S))
      <4> DEFINE name == order[i]
      <4>1. name \in NamesOf(payload)
        BY <2>2
      <4>2. \A p \in Target(name, slot, allSlots) : ImageUnitsIn(p, name) \subseteq S
        BY <2>2
      <4> HIDE DEF name
      <4>3. WritesOf(name, slot, payload, allSlots, open) \in Seq(WritesIn(S))
        BY <4>1, <4>2, WritesOfFacts
      <4> QED BY <4>3 DEF name
    <3> HIDE DEF Of
    <3>2. x \o Of(i) \in Seq(WritesIn(S))
      BY <3>1, ConcatProperties
    <3> QED BY <2>2, <3>2
  <2> QED BY <2>1, <2>2
<1> HIDE DEF Of, n
<1>6. /\ IsStep(g, n, W)
      /\ \A i \in 1 .. n, x \in W : g[<<i, x>>] = Next1(i, x)
  <2> HIDE DEF Next1, W
  <2> QED BY <1>5 DEF IsStep
<1>7. plan = [i \in 0 .. n |-> IF i = 0 THEN z ELSE Next1(i, plan[i - 1])]
  <2> HIDE DEF g, W, z
  <2>1. PICK f : ByRecursion(f, n, W, z, g)
    BY <1>3, <1>4, <1>6, FunctionByRecursion
  <2>2. ASSUME NEW i \in 0 .. n
        PROVE  f[i] = IF i = 0 THEN z ELSE Next1(i, f[i - 1])
    <3> HIDE DEF Next1
    <3>1. i # 0 => i \in 1 .. n /\ i - 1 \in 0 .. n
      BY <1>3
    <3> QED BY <1>6, <2>1, <3>1 DEF ByRecursion
  <2>3. f = [i \in 0 .. n |-> IF i = 0 THEN z ELSE Next1(i, f[i - 1])]
    <3> HIDE DEF Next1
    <3> QED BY <2>1, <2>2 DEF ByRecursion
  <2>4. \E h : h = [i \in 0 .. n |-> IF i = 0 THEN z ELSE Next1(i, h[i - 1])]
    <3> HIDE DEF Next1
    <3> QED BY <2>3
  <2> QED BY <2>4
<1> HIDE DEF plan, z
<1> DEFINE T == {i \in Nat : i <= n => plan[i] \in W}
<1>8. 0 \in T
  <2> HIDE DEF W, Next1
  <2> QED BY <1>3, <1>4, <1>7
<1>9. ASSUME NEW i \in Nat, i \in T PROVE i + 1 \in T
  <2> SUFFICES ASSUME i + 1 <= n PROVE plan[i + 1] \in W
    OBVIOUS
  <2> HIDE DEF W, Next1
  <2>1. i + 1 \in 0 .. n /\ i + 1 # 0 /\ i + 1 \in 1 .. n /\ (i + 1) - 1 = i
    BY <1>3
  <2>2. plan[i + 1] = Next1(i + 1, plan[i])
    BY <1>7, <2>1
  <2>3. plan[i] \in W
    BY <1>3, <1>9, <2>1
  <2> QED BY <1>5, <2>1, <2>2, <2>3
<1>10. \A i \in 0 .. n : plan[i] \in W
  <2> HIDE DEF T
  <2>1. Nat \subseteq T
    BY <1>8, <1>9, NatSetInduction
  <2> QED BY <1>3, <2>1 DEF T
<1>11. plan[0] = z
  BY <1>3, <1>7
<1>12. \A i \in 1 .. n : plan[i] = Next1(i, plan[i - 1])
  <2> HIDE DEF Next1
  <2>1. \A i \in 1 .. n : i \in 0 .. n /\ i # 0
    BY <1>3
  <2> QED BY <1>7, <2>1
<1>13. PlannedBy(plan, payload, slot, allSlots, open, W)
  <2>1. \A i \in 1 .. n :
          plan[i] = IF order[i] \notin NamesOf(payload) THEN plan[i - 1]
                    ELSE plan[i - 1] \o WritesOf(order[i], slot, payload, allSlots, open)
    BY <1>12 DEF Of
  <2> HIDE DEF W
  <2> QED BY <1>2, <1>10, <1>11, <2>1 DEF PlannedBy, order, n, z
<1> QED BY <1>13

LEMMA UpdatePlanFacts ==
  ASSUME NEW payload, IsPayload(payload),
         NEW slot \in {0, 1}, NEW allSlots \in BOOLEAN, NEW open \in BOOLEAN, NEW S,
         \A name \in NamesOf(payload) :
           \A p \in Target(name, slot, allSlots) : ImageUnitsIn(p, name) \subseteq S
  PROVE  UpdatePlan(payload, slot, allSlots, open) \in Seq(WritesIn(S))
<1>1. PICK plan : PlannedBy(plan, payload, slot, allSlots, open, Seq(WritesIn(S)))
  BY PlanUnfolds
<1>2. Len(UpdateOrder(payload)) \in 0 .. Len(UpdateOrder(payload))
  BY UpdateOrderFacts, LenProperties
<1> QED BY <1>1, <1>2 DEF PlannedBy

-----------------------------------------------------------------------------
(***************************************************************************)
(* What a step leaves alone on the disk.                                   *)
(***************************************************************************)
\* The units that command c may change, bct being those of the BCT or none
CoveredBy(c, bct) ==
  LET May(name) == IF c.stale THEN {SlotParts[name][0], SlotParts[name][1]}
                   ELSE Target(name, SlotOf(c.arg), c.img.ratchet)
  IN  IF c.op \in {"flash", "erase"} /\ ~c.open THEN {}
      ELSE IF c.op = "erase" THEN UnitsOf("data")
      ELSE IF c.op = "flashing" THEN UnitsOf("data") \cup bct
      ELSE IF c.op = "flash" /\ c.arg = "data" /\ c.img # None
        THEN {Start["data"] + u : u \in DataUnits(c.img)} \cap UnitsOf("data")
      ELSE IF c.op = "flash" /\ c.arg # "data" /\ c.img.kind = "payload"
        THEN UNION {UNION {ImageUnitsIn(p, name) : p \in May(name)} :
                      name \in NamesOf(c.img)}
      ELSE {}

\* the command is the same, but for the slots that an update is for
SameCmd ==
  /\ cmd'.op = cmd.op /\ cmd'.arg = cmd.arg /\ cmd'.img = cmd.img
  /\ cmd'.open = cmd.open /\ cmd'.stale = cmd.stale

LEMMA CoveredSame ==
  ASSUME SameCmd, cmd.op = "flashing" => (Wiped' <=> Wiped)
  PROVE  Covered' = Covered
<1> DEFINE bct == IF Wiped THEN BctUnits ELSE {}
<1>1. Covered = CoveredBy(cmd, bct)
  BY DEF Covered, CoveredBy, FlashesData, Updates, MayTarget
<1>2. Covered' = CoveredBy(cmd', bct')
  BY DEF Covered, CoveredBy, FlashesData, Updates, MayTarget
<1>5. \A S : CoveredBy(cmd', S) = CoveredBy(cmd, S)
  BY DEF CoveredBy, SameCmd
<1>3. CASE cmd.op = "flashing"
  <2>1. bct' = bct
    BY <1>3
  <2> QED BY <1>1, <1>2, <1>5, <2>1
<1>4. CASE cmd.op # "flashing"
  <2>1. \A S, T : CoveredBy(cmd, S) = CoveredBy(cmd, T)
    BY <1>4 DEF CoveredBy
  <2> QED BY <1>1, <1>2, <1>5, <2>1
<1> QED BY <1>3, <1>4

LEMMA CoveredStep ==
  ASSUME cmd' = cmd, cmd.op = "flashing" => (Wiped' <=> Wiped)
  PROVE  Covered' = Covered
  BY CoveredSame DEF SameCmd

\* A step that touches neither the disk nor the command
LEMMA StillStep ==
  ASSUME CmdOK, JobOK, RestKept, UNCHANGED <<disk, cmd, was>>,
         buf' \in Images \cup {None}, bup' \in BupChecks,
         fb' \in {"lock", "start"} =>
           fb \in {"lock", "start"} /\ UNCHANGED <<buf, bup, unlocked>>,
         fb' \in {"confirm", "confirm_keys", "relock", "chosen"} => cmd.op = "flashing",
         fb' = "work" => fb = "work" /\ job' = job
  PROVE  CmdOK' /\ JobOK' /\ RestKept'
<1>1. (Wiped' <=> Wiped) /\ Covered' = Covered
  <2>1. Wiped' <=> Wiped
    BY DEF Wiped
  <2> QED BY <2>1, CoveredStep
<1>2. CmdOK'
  BY DEF CmdOK, CmdIsRecord
<1>3. JobOK'
  BY <1>1 DEF JobOK, FlashesData, Updates
<1>4. RestKept'
  BY <1>1 DEF RestKept
<1> QED BY <1>2, <1>3, <1>4

LEMMA InvInit == Init => CmdOK /\ JobOK /\ RestKept
<1> SUFFICES ASSUME Init PROVE CmdOK /\ JobOK /\ RestKept
  OBVIOUS
<1>1. SetOdm(0, unlocked) \in Int
  <2>1. 0 % LockBit \in Int
    BY DEF LockBit
  <2> QED BY <2>1 DEF SetOdm, LockBit
<1>2. disk \in [Units -> Int]
  <2> DEFINE x == SetOdm(0, unlocked)
  <2>1. disk = [u \in Units |-> IF u \in OdmUnits THEN x ELSE 0]
    BY DEF Init, Units
  <2>2. x \in Int
    BY <1>1
  <2> HIDE DEF x
  <2> QED BY <2>1, <2>2
<1> QED BY <1>2 DEF Init, RamInit, BupStart, CmdOK, CmdIsRecord, BupChecks, JobOK, RestKept

\* A write that stays where the command may write
LEMMA WriteStep ==
  ASSUME CmdOK, RestKept, NEW p \in DOMAIN Start, NEW offset \in Nat,
         NEW data \in Seq(Int), NEW faulty \in BOOLEAN,
         NEW o \in partition_write(disk, p, offset, data, faulty),
         Span(Start[p] + offset, data) \cap UnitsOf(p) \subseteq Covered,
         disk' = o.disk, was' = was, Covered' = Covered
  PROVE  disk' \in [Units -> Int] /\ RestKept'
<1>1. disk \in [Units -> Int]
  BY DEF CmdOK
<1>2. /\ o.disk \in [Units -> Int]
      /\ WrittenTo(disk, Start[p] + offset, data, o)
      /\ o.disk # disk => Span(Start[p] + offset, data) \subseteq UnitsOf(p)
  BY <1>1, PartitionWrite
<1>3. ASSUME NEW u \in Units \ Covered PROVE o.disk[u] = disk[u]
  BY <1>1, <1>2 DEF WrittenTo
<1> QED BY <1>1, <1>2, <1>3 DEF RestKept

LEMMA FaultyType == Faulty \in BOOLEAN
  BY DEF Faulty

LEMMA Shifted ==
  ASSUME NEW start \in Nat, NEW offset \in Nat, NEW data \in Seq(Int), NEW T,
         Span(offset, data) \subseteq T
  PROVE  Span(start + offset, data) \subseteq {start + u : u \in T}
<1>1. Len(data) \in Nat
  BY LenProperties
<1> SUFFICES ASSUME NEW v \in Span(start + offset, data)
             PROVE  v \in {start + u : u \in T}
  OBVIOUS
<1>2. v - start \in Span(offset, data) /\ v = start + (v - start)
  BY <1>1 DEF Span
<1> QED BY <1>2

LEMMA ImageFacts ==
  ASSUME NEW img \in Images \cup {None}, img # None
  PROVE  /\ img.kind = "sparse" => IsSparse(img)
         /\ img.kind # "sparse" => img.data \in Seq(Int)
         /\ img.kind = "payload" => IsPayload(img)
  BY ImagesAssumption

LEMMA CmdStep ==
  ASSUME CmdOK, disk' \in [Units -> Int], UNCHANGED <<cmd, buf>>,
         bup' \in BupChecks,
         fb' \in {"work", "unlock", "spin"}
  PROVE  CmdOK'
  BY DEF CmdOK, CmdIsRecord

LEMMA RawKeeps ==
  ASSUME Inv, RawStep
  PROVE  CmdOK' /\ JobOK' /\ RestKept'
<1> USE DEF Inv
<1> DEFINE data == job.data
           z == 0
<1>1. /\ fb = "work" /\ job.kind = "raw" /\ fb' = "unlock"
      /\ UNCHANGED <<cmd, was, buf, bup>>
  BY DEF RawStep, Working, Done, AtWork
<1>2. FlashesData /\ cmd.open /\ cmd.img.kind # "sparse" /\ data = cmd.img.data
  BY <1>1 DEF JobOK
<1>3. PICK o \in partition_write(disk, "data", 0, data, Faulty) : disk' = o.disk
  BY DEF RawStep, Takes
<1>4. data \in Seq(Int) /\ Len(data) \in Nat
  BY <1>2, ImageFacts, LenProperties DEF CmdOK, FlashesData
<1>5. cmd.op = "flash" /\ cmd.img # None
  BY <1>2 DEF FlashesData
<1>6. Covered = {Start["data"] + u : u \in DataUnits(cmd.img)} \cap UnitsOf("data")
  BY <1>2, <1>5 DEF Covered
<1>7. Covered' = Covered
  BY <1>1, <1>5, CoveredStep
<1>8. "data" \in DOMAIN Start /\ Start["data"] \in Nat
  BY LayoutAssumption, BlockAssumption
<1>9. z \in Nat /\ z = 0
  OBVIOUS
<1> HIDE DEF z, data
<1>10. Span(z, data) \subseteq DataUnits(cmd.img)
  BY <1>2, <1>4, <1>9 DEF Span, DataUnits
<1>11. Span(Start["data"] + z, data) \cap UnitsOf("data") \subseteq Covered
  <2>1. Span(Start["data"] + z, data) \subseteq {Start["data"] + u : u \in DataUnits(cmd.img)}
    BY <1>4, <1>8, <1>9, <1>10, Shifted
  <2> QED BY <1>6, <2>1
<1>12. disk' \in [Units -> Int] /\ RestKept'
  BY <1>1, <1>3, <1>4, <1>7, <1>8, <1>9, <1>11, FaultyType, WriteStep
<1>13. CmdOK'
  <2>1. bup' \in BupChecks
    BY <1>1 DEF CmdOK
  <2> QED BY <1>1, <1>12, <2>1, CmdStep
<1> QED BY <1>1, <1>12, <1>13 DEF JobOK

LEMMA SparseKeeps ==
  ASSUME Inv, SparseStep
  PROVE  CmdOK' /\ JobOK' /\ RestKept'
<1> USE DEF Inv
<1> DEFINE at == job.at
           img == cmd.img
           c == NextChunk(at)
           data == NextData(at)
<1>1. fb = "work" /\ job.kind = "sparse" /\ UNCHANGED <<cmd, was, buf, bup, unlocked>>
  BY DEF SparseStep, Working, AtWork
<1>2. /\ FlashesData /\ cmd.open /\ img.kind = "sparse"
      /\ job = [kind |-> "sparse", img |-> img, at |-> at]
      /\ SparseAt(at, img)
  BY <1>1 DEF JobOK
<1>3. IsSparse(img)
  BY <1>2, ImageFacts DEF CmdOK, FlashesData
<1>4. cmd.op = "flash" /\ cmd.img # None
  BY <1>2 DEF FlashesData
<1>5. bup' \in BupChecks /\ buf' \in Images \cup {None}
  BY <1>1 DEF CmdOK
\* the parser goes on from where it is
<1>6. ASSUME NEW b, SparseAt(b, img), disk' \in [Units -> Int], RestKept',
             job' = [job EXCEPT !.at = b], fb' = fb
      PROVE  CmdOK' /\ JobOK' /\ RestKept'
  <2>1. CmdOK'
    BY <1>1, <1>5, <1>6, CmdStep
  <2>2. job' = [kind |-> "sparse", img |-> img, at |-> b]
    BY <1>2, <1>6
  <2>3. FlashesData'
    BY <1>1, <1>2 DEF FlashesData
  <2>4. JobOK'
    BY <1>1, <1>2, <1>6, <2>2, <2>3 DEF JobOK
  <2> QED BY <1>6, <2>1, <2>4
\* the handler is done, or hangs
<1>7. ASSUME fb' \in {"unlock", "spin"}, disk' \in [Units -> Int], RestKept'
      PROVE  CmdOK' /\ JobOK' /\ RestKept'
  BY <1>1, <1>5, <1>7, CmdStep DEF JobOK
<1>8. ASSUME disk' = disk PROVE disk' \in [Units -> Int] /\ RestKept'
  BY <1>1, <1>4, <1>8, CoveredStep DEF CmdOK, RestKept
<1>9. Covered' = Covered
  BY <1>1, <1>4, CoveredStep
<1>10. CASE Finished(at, job.img)
  BY <1>7, <1>8, <1>10 DEF SparseStep, Done
<1>11. CASE ~Finished(at, job.img) /\ ~Accepted(at, job.img)
  BY <1>7, <1>8, <1>11 DEF SparseStep, Done
<1>12. CASE ~Finished(at, job.img) /\ Accepted(at, job.img)
  <2>1. at.chunks # <<>>
    BY <1>12 DEF Finished
  <2> HIDE DEF c, data, at, img
  <2>2. /\ c.type \in {"raw", "fill", "skip", "crc", "bad"}
        /\ c.type = "skip" => SparseAt(After(at, c.n), img)
        /\ c.type \in {"raw", "fill"} =>
             /\ data \in Seq(Int) /\ at.offset \in Nat
             /\ Span(at.offset, data) \subseteq SparseUnits(img)
             /\ SparseAt(After(at, Len(data)), img)
    BY <1>2, <1>3, <2>1, SparseStepFacts DEF c, data
  <2>3. c.type # "bad"
    BY <1>12 DEF Accepted, c, at
  <2>4. CASE c.type = "crc"
    <3>1. fb' = "spin" /\ disk' = disk
      BY <1>12, <2>4 DEF SparseStep, c, at
    <3> QED BY <1>7, <1>8, <3>1
  <2>5. CASE c.type = "skip"
    <3>1. /\ disk' = disk
          /\ \/ fb' = "unlock"
             \/ job' = [job EXCEPT !.at = After(at, c.n)] /\ fb' = fb
      BY <1>12, <2>5 DEF SparseStep, c, at, Done, Proceed
    <3> QED BY <1>6, <1>7, <1>8, <2>2, <2>5, <3>1
  <2>6. CASE c.type \in {"raw", "fill"}
    <3>1. PICK o \in partition_write(disk, "data", at.offset, data, Faulty) :
            /\ disk' = o.disk
            /\ \/ fb' = "unlock"
               \/ job' = [job EXCEPT !.at = After(at, Len(data))] /\ fb' = fb
      <4>1. \E o \in partition_write(disk, "data", at.offset, data, Faulty) :
              /\ Takes(o)
              /\ dropped' = (dropped \/ o.dropped)
              /\ IF o.err THEN Done("FAIL") ELSE Proceed(After(at, Len(data)))
        BY <1>12, <2>6 DEF SparseStep, c, at, data
      <4> QED BY <4>1 DEF Takes, Done, Proceed
    <3>2. "data" \in DOMAIN Start /\ Start["data"] \in Nat
      BY LayoutAssumption, BlockAssumption
    <3>3. Covered = {Start["data"] + u : u \in DataUnits(img)} \cap UnitsOf("data")
      BY <1>2, <1>4 DEF Covered, img
    <3>4. Span(Start["data"] + at.offset, data) \cap UnitsOf("data") \subseteq Covered
      <4>1. Span(at.offset, data) \subseteq DataUnits(img)
        BY <1>2, <2>2, <2>6 DEF DataUnits
      <4>2. Span(Start["data"] + at.offset, data) \subseteq {Start["data"] + u : u \in DataUnits(img)}
        BY <2>2, <2>6, <3>2, <4>1, Shifted
      <4> QED BY <3>3, <4>2
    <3>5. disk' \in [Units -> Int] /\ RestKept'
      BY <1>1, <1>9, <2>2, <2>6, <3>1, <3>2, <3>4, FaultyType, WriteStep
    <3> QED BY <1>6, <1>7, <2>2, <2>6, <3>1, <3>5
  <2> QED BY <2>2, <2>3, <2>4, <2>5, <2>6
<1> QED BY <1>10, <1>11, <1>12

LEMMA WritesHead ==
  ASSUME NEW S, NEW ws \in Seq(WritesIn(S)), ws # <<>>
  PROVE  /\ Head(ws).part \in DOMAIN Start /\ Head(ws).offset \in Nat
         /\ Head(ws).data \in Seq(Int)
         /\ Span(Start[Head(ws).part] + Head(ws).offset, Head(ws).data) \subseteq S
         /\ Tail(ws) \in Seq(WritesIn(S))
<1>1. Head(ws) \in WritesIn(S) /\ Tail(ws) \in Seq(WritesIn(S))
  BY HeadTailProperties
<1> QED BY <1>1 DEF WritesIn

LEMMA UpdateKeeps ==
  ASSUME Inv, UpdateStep
  PROVE  CmdOK' /\ JobOK' /\ RestKept'
<1> USE DEF Inv
<1> DEFINE ws == job.writes
           w == Head(ws)
<1>1. fb = "work" /\ job.kind = "update" /\ UNCHANGED <<cmd, was, buf, unlocked>>
  BY DEF UpdateStep, Working, AtWork
<1>2. /\ Updates /\ cmd.open
      /\ job = [kind |-> "update", writes |-> ws]
      /\ ws \in Seq(WritesIn(Covered))
  BY <1>1 DEF JobOK
<1>3. cmd.op = "flash"
  BY <1>2 DEF Updates
<1>4. Covered' = Covered
  BY <1>1, <1>3, CoveredStep
<1>5. bup' \in BupChecks
  <2>1. bup' = bup \/ bup' = [bup EXCEPT !.checked = FALSE]
    BY DEF UpdateStep
  <2>2. bup \in [checked : BOOLEAN, required : BOOLEAN, spec : {"unread", "read", "missing"}]
    BY DEF CmdOK, BupChecks
  <2> QED BY <2>1, <2>2 DEF BupChecks
<1>6. CASE ws = <<>>
  <2>1. disk' = disk /\ fb' = "unlock"
    BY <1>6 DEF UpdateStep, Done
  <2>2. disk' \in [Units -> Int] /\ RestKept'
    BY <1>1, <1>4, <2>1 DEF CmdOK, RestKept
  <2> QED BY <1>1, <1>5, <2>1, <2>2, CmdStep DEF JobOK
<1>7. CASE ws # <<>>
  <2>1. PICK o \in partition_write(disk, w.part, w.offset, w.data, Faulty) :
          /\ disk' = o.disk
          /\ \/ fb' = "unlock"
             \/ job' = [job EXCEPT !.writes = Tail(ws)] /\ fb' = fb
    BY <1>7 DEF UpdateStep, Takes, Done
  <2>2. /\ w.part \in DOMAIN Start /\ w.offset \in Nat /\ w.data \in Seq(Int)
        /\ Span(Start[w.part] + w.offset, w.data) \subseteq Covered
        /\ Tail(ws) \in Seq(WritesIn(Covered))
    BY <1>2, <1>7, WritesHead
  <2> HIDE DEF w
  <2>3. disk' \in [Units -> Int] /\ RestKept'
    BY <1>1, <1>4, <2>1, <2>2, FaultyType, WriteStep
  <2>4. CmdOK'
    BY <1>1, <1>5, <2>1, <2>3, CmdStep
  <2>5. CASE fb' = "unlock"
    BY <2>3, <2>4, <2>5 DEF JobOK
  <2>6. CASE job' = [job EXCEPT !.writes = Tail(ws)] /\ fb' = fb
    <3>1. job' = [kind |-> "update", writes |-> Tail(ws)]
      <4> HIDE DEF ws
      <4> QED BY <1>2, <2>6
    <3>2. Updates'
      BY <1>1, <1>2 DEF Updates
    <3>3. job'.writes \in Seq(WritesIn(Covered'))
      BY <1>4, <2>2, <3>1
    <3>4. JobOK'
      BY <1>1, <1>2, <2>6, <3>1, <3>2, <3>3 DEF JobOK
    <3> QED BY <2>3, <2>4, <3>4
  <2> QED BY <2>1, <2>5, <2>6
<1> QED BY <1>6, <1>7

\* Erasing user data keeps them erased where they are.
LEMMA WipeStep ==
  ASSUME CmdOK, RestKept, NEW faulty \in BOOLEAN,
         NEW o \in partition_erase(disk, "data", faulty), disk' = o.disk,
         UNCHANGED <<cmd, was>>,
         cmd.op = "flashing" \/ (cmd.op = "erase" /\ cmd.open)
  PROVE  disk' \in [Units -> Int] /\ RestKept' /\ (~o.err => Wiped')
<1>1. disk \in [Units -> Int] /\ "data" \in DOMAIN Start
  BY LayoutAssumption DEF CmdOK
<1>2. /\ o.disk \in [Units -> Int]
      /\ \A u \in Units \ UnitsOf("data") : o.disk[u] = disk[u]
      /\ \A u \in UnitsOf("data") : o.disk[u] \in {disk[u], Erased}
      /\ ~o.err => \A u \in UnitsOf("data") : o.disk[u] = Erased
  BY <1>1, PartitionErase
<1>3. Wiped => Wiped'
  BY <1>2 DEF Wiped
<1>4. UnitsOf("data") \subseteq Covered' /\ Covered \subseteq Covered'
  <2>1. CASE cmd.op = "flashing"
    <3>1. Covered = UnitsOf("data") \cup (IF Wiped THEN BctUnits ELSE {})
      BY <2>1 DEF Covered
    <3>2. Covered' = UnitsOf("data") \cup (IF Wiped' THEN BctUnits ELSE {})
      BY <2>1 DEF Covered
    <3> QED BY <1>3, <3>1, <3>2
  <2>2. CASE cmd.op = "erase" /\ cmd.open
    BY <2>2 DEF Covered
  <2> QED BY <2>1, <2>2
<1> QED BY <1>1, <1>2, <1>4 DEF RestKept, Wiped

LEMMA EraseKeeps ==
  ASSUME Inv, EraseStep
  PROVE  CmdOK' /\ JobOK' /\ RestKept'
<1> USE DEF Inv
<1>1. /\ fb = "work" /\ job.kind = "erase" /\ fb' = "unlock"
      /\ UNCHANGED <<cmd, was, buf, bup>>
  BY DEF EraseStep, Working, AtWork, Done
<1>2. cmd.op = "erase" /\ cmd.open
  BY <1>1 DEF JobOK
<1>3. PICK o \in partition_erase(disk, "data", Faulty) : disk' = o.disk
  BY DEF EraseStep, Takes
<1>4. disk' \in [Units -> Int] /\ RestKept'
  BY <1>1, <1>2, <1>3, FaultyType, WipeStep
<1>5. CmdOK'
  <2>1. bup' \in BupChecks
    BY <1>1 DEF CmdOK
  <2> QED BY <1>1, <1>4, <2>1, CmdStep
<1> QED BY <1>1, <1>4, <1>5 DEF JobOK

LEMMA ChangeKeeps ==
  ASSUME Inv, ChangeState
  PROVE  CmdOK' /\ JobOK' /\ RestKept'
<1> USE DEF Inv
<1>1. fb = "chosen" /\ UNCHANGED <<cmd, was, buf, bup, unlocked>> /\ cmd.op = "flashing"
  BY DEF ChangeState, CmdOK
<1>2. bup' \in BupChecks /\ buf' \in Images \cup {None}
  BY <1>1 DEF CmdOK
<1>3. CASE job.kind \in {"failed", "back"}
  <2>1. disk' = disk /\ fb' = "unlock"
    BY <1>3 DEF ChangeState, Resume, Done
  <2> QED BY <1>1, <1>2, <2>1, StillStep
<1>4. CASE job.kind \notin {"failed", "back"}
  <2>1. PICK o \in partition_erase(disk, "data", Faulty) :
          /\ disk' = o.disk
          /\ \/ fb' = "unlock"
             \/ ~o.err /\ fb' = "work" /\ job' = [kind |-> "odm"]
    BY <1>4 DEF ChangeState, Resume, Done, Work, Takes
  <2>2. disk' \in [Units -> Int] /\ RestKept' /\ (~o.err => Wiped')
    BY <1>1, <2>1, FaultyType, WipeStep
  <2>3. CmdOK'
    BY <1>1, <1>2, <2>1, <2>2, CmdStep
  <2>4. JobOK'
    BY <1>1, <2>1, <2>2 DEF JobOK
  <2> QED BY <2>2, <2>3, <2>4
<1> QED BY <1>3, <1>4

LEMMA OdmReadKeeps ==
  ASSUME Inv, OdmRead
  PROVE  CmdOK' /\ JobOK' /\ RestKept'
<1> USE DEF Inv
<1> DEFINE n == ImageUnits["BCT"]
           old == BctAt(disk, BctStarts[1])
           bct == WithOdm(old, unlocked')
           size == Size["BCT"]
<1>1. /\ fb = "work" /\ job.kind = "odm" /\ disk' = disk /\ unlocked' = ~unlocked
      /\ UNCHANGED <<cmd, was, buf, bup>>
  BY DEF OdmRead, Working, AtOdm
<1>2. cmd.op = "flashing" /\ Wiped
  BY <1>1 DEF JobOK
<1>3. bup' \in BupChecks /\ buf' \in Images \cup {None}
  BY <1>1 DEF CmdOK
<1>4. CASE fb' = "unlock"
  BY <1>1, <1>3, <1>4, StillStep
<1>5. CASE fb' = "work" /\ job' = [kind |-> "bct", writes |-> BctWrites(bct, size)]
  <2>1. old \in [1 .. n -> Int] /\ n \in Nat \ {0} /\ size \in Nat
    <3>1. n \in Nat \ {0} /\ size \in Nat /\ BctStarts[1] \in Nat
      BY BctConstants, BctStartsFacts
    <3>2. BctStarts[1] .. BctStarts[1] + n - 1 \subseteq Units
      BY BctStartsFacts, BctConstants DEF Units
    <3>3. disk \in [Units -> Int]
      BY DEF CmdOK
    <3>4. \A i \in 1 .. n : BctStarts[1] + i - 1 \in BctStarts[1] .. BctStarts[1] + n - 1
      BY <3>1
    <3> QED BY <3>1, <3>2, <3>3, <3>4 DEF BctAt
  <2>2. unlocked' \in BOOLEAN
    BY <1>1
  <2> HIDE DEF old
  <2>3. bct \in Seq(Int) /\ Len(bct) = n
    BY <2>1, <2>2, WithOdmFacts
  <2>4. \A i \in DOMAIN BctCopies(size) :
          LET start == Start["BCT"] + BctCopies(size)[i]
          IN  start .. start + n - 1 \subseteq BctUnits
    <3>1. \A i \in DOMAIN BctCopies(size) : BctStarts[i] = Start["BCT"] + BctCopies(size)[i]
      BY DEF BctStarts
    <3> QED BY <3>1, BctStartsFacts
  <2> HIDE DEF bct, size
  <2>5. BctWrites(bct, size) \in Seq(WritesIn(BctUnits))
    BY <2>1, <2>3, <2>4, BctWritesFacts
  <2>6. Wiped' /\ Covered' = Covered
    <3>1. Wiped' <=> Wiped
      BY <1>1 DEF Wiped
    <3> QED BY <1>1, <1>2, <3>1, CoveredStep
  <2>7. CmdOK'
    BY <1>1, <1>3, <1>5, CmdStep DEF CmdOK
  <2>8. RestKept'
    BY <1>1, <2>6 DEF RestKept
  <2>9. JobOK'
    BY <1>1, <1>2, <1>5, <2>5, <2>6 DEF JobOK
  <2> QED BY <2>7, <2>8, <2>9
<1>6. \/ fb' = "unlock"
      \/ fb' = "work" /\ job' = [kind |-> "bct", writes |-> BctWrites(bct, size)]
  BY DEF OdmRead, Resume, Done, Work
<1> QED BY <1>4, <1>5, <1>6

LEMMA OdmWriteKeeps ==
  ASSUME Inv, OdmWrite
  PROVE  CmdOK' /\ JobOK' /\ RestKept'
<1> USE DEF Inv
<1> DEFINE ws == job.writes
           w == Head(ws)
<1>1. fb = "work" /\ job.kind = "bct" /\ UNCHANGED <<cmd, was, buf, bup, unlocked>>
  BY DEF OdmWrite, Working, AtOdm
<1>2. /\ cmd.op = "flashing" /\ Wiped
      /\ job = [kind |-> "bct", writes |-> ws]
      /\ ws \in Seq(WritesIn(BctUnits))
  BY <1>1 DEF JobOK
<1>3. bup' \in BupChecks /\ buf' \in Images \cup {None}
  BY <1>1 DEF CmdOK
<1>4. CASE ws = <<>>
  <2>1. disk' = disk /\ fb' = "unlock"
    BY <1>4 DEF OdmWrite, Resume, Done
  <2> QED BY <1>1, <1>3, <2>1, StillStep
<1>5. CASE ws # <<>>
  <2>1. PICK o \in partition_write(disk, w.part, w.offset, w.data, Faulty) :
          /\ disk' = o.disk
          /\ \/ fb' = "unlock"
             \/ job' = [job EXCEPT !.writes = Tail(ws)] /\ fb' = fb
    <3>1. \E o \in partition_write(disk, w.part, w.offset, w.data, Faulty) :
            /\ Takes(o)
            /\ dropped' = (dropped \/ o.dropped \/ o.err)
            /\ IF o.err THEN Resume("OKAY")
               ELSE /\ job' = [job EXCEPT !.writes = Tail(@)]
                    /\ UNCHANGED <<fb, answer, state, status>>
      BY <1>5 DEF OdmWrite
    <3> QED BY <3>1 DEF Takes, Resume, Done
  <2>2. /\ w.part \in DOMAIN Start /\ w.offset \in Nat /\ w.data \in Seq(Int)
        /\ Span(Start[w.part] + w.offset, w.data) \subseteq BctUnits
        /\ Tail(ws) \in Seq(WritesIn(BctUnits))
    BY <1>2, <1>5, WritesHead
  <2> HIDE DEF w
  <2>3. disk \in [Units -> Int]
    BY DEF CmdOK
  <2>4. WrittenTo(disk, Start[w.part] + w.offset, w.data, o)
    BY <2>1, <2>2, <2>3, FaultyType, PartitionWrite
  <2>5. Wiped' /\ Covered' = Covered
    <3>1. UnitsOf("data") \cap BctUnits = {} /\ UnitsOf("data") \subseteq Units
      BY LayoutAssumption, PartitionAssumption, BctStartsFacts DEF Units
    <3>2. \A u \in UnitsOf("data") : disk'[u] = disk[u]
      BY <2>1, <2>2, <2>3, <2>4, <3>1 DEF WrittenTo
    <3>3. Wiped'
      BY <1>2, <3>2 DEF Wiped
    <3> QED BY <1>1, <1>2, <3>3, CoveredStep
  <2>6. BctUnits \subseteq Covered
    BY <1>2 DEF Covered
  <2>7. Span(Start[w.part] + w.offset, w.data) \cap UnitsOf(w.part) \subseteq Covered
    BY <2>2, <2>6
  <2>8. disk' \in [Units -> Int] /\ RestKept'
    BY <1>1, <2>1, <2>2, <2>5, <2>7, FaultyType, WriteStep
  <2>9. CmdOK'
    BY <1>1, <1>3, <2>1, <2>8, CmdStep
  <2>10. CASE fb' = "unlock"
    BY <2>8, <2>9, <2>10 DEF JobOK
  <2>11. CASE job' = [job EXCEPT !.writes = Tail(ws)] /\ fb' = fb
    <3>1. job' = [kind |-> "bct", writes |-> Tail(ws)]
      <4> HIDE DEF ws
      <4> QED BY <1>2, <2>11
    <3>2. JobOK'
      BY <1>1, <1>2, <2>2, <2>5, <3>1 DEF JobOK
    <3> QED BY <2>8, <2>9, <3>2
  <2> QED BY <2>1, <2>10, <2>11
<1> QED BY <1>4, <1>5

LEMMA ReceiveKeeps ==
  ASSUME Inv, Receive
  PROVE  CmdOK' /\ JobOK' /\ RestKept'
<1> USE DEF Inv
<1>1. PICK c \in Commands :
        /\ cmd' = [op |-> c.op, arg |-> c.arg, img |-> buf, open |-> unlocked,
                   stale |-> bup.checked, all |-> FALSE]
        /\ was' = disk /\ fb' \in {"recv", "lock"}
        /\ UNCHANGED <<disk, unlocked, buf, bup>>
  BY DEF Receive
<1>2. c.op = "download" => c.arg \in Images
  BY DEF Commands
<1>3. CmdOK'
  BY <1>1, <1>2 DEF CmdOK, CmdIsRecord
<1> QED BY <1>1, <1>3 DEF JobOK, RestKept

LEMMA EraseBegins ==
  ASSUME Inv, Erase
  PROVE  CmdOK' /\ JobOK' /\ RestKept'
<1> USE DEF Inv
<1>1. /\ fb = "start" /\ cmd.op = "erase" /\ cmd.open = unlocked
      /\ UNCHANGED <<disk, cmd, was, buf, bup, unlocked>>
  BY DEF Erase, Handling, CmdOK
<1>2. bup' \in BupChecks /\ buf' \in Images \cup {None}
  BY <1>1 DEF CmdOK
<1>3. CASE ~unlocked
  <2>1. fb' = "unlock"
    BY <1>3 DEF Erase, Done
  <2> QED BY <1>1, <1>2, <2>1, StillStep
<1>4. CASE unlocked
  <2>1. fb' = "work" /\ job' = [kind |-> "erase"]
    BY <1>4 DEF Erase, Work
  <2>2. CmdOK'
    BY <1>1, <2>1 DEF CmdOK, CmdIsRecord
  <2>3. RestKept'
    BY <1>1, CoveredStep DEF RestKept
  <2> QED BY <1>1, <1>4, <2>1, <2>2, <2>3 DEF JobOK
<1> QED BY <1>3, <1>4

\* What cmd_flash() does about a payload: it is refused, or its plan is begun, or it is
\* taken for done with nothing written; and the slots that it is for.
LEMMA PayloadBegins ==
  ASSUME CmdOK, fb = "start", FlashBootloader, buf # None, buf.kind = "payload"
  PROVE  /\ SameCmd /\ CmdIsRecord' /\ cmd'.all = bup'.required
         /\ bup' \in BupChecks
         /\ cmd.stale \/ dropped' \/ bup'.required = buf.ratchet
         /\ bup'.required => cmd.stale \/ buf.ratchet
         /\ \/ fb' = "unlock" /\ answer' \in {answer, "FAIL"}
            \/ /\ fb' = "work" /\ answer' = answer
               /\ \E writes :
                    /\ job' = [kind |-> "update", writes |-> writes]
                    /\ \/ writes = UpdatePlan(buf, SlotOf(cmd.arg), bup'.required, unlocked)
                       \/ dropped' /\ writes = <<>>
<1>1. PICK fails \in BOOLEAN, missing \in BOOLEAN :
        LET empty == buf.entries = <<>>
            check == BupCheck(buf, fails)
            spec == IF empty THEN bup.spec ELSE SpecInfo(missing)
        IN  /\ fails => ~bup.checked
            /\ bup' = [check EXCEPT !.spec = spec]
            /\ cmd' = [cmd EXCEPT !.all = check.required]
            /\ dropped' = (dropped \/ fails \/ spec = "missing")
            /\ IF empty THEN Done("FAIL")
               ELSE Work([kind |-> "update",
                          writes |-> IF spec = "missing" THEN <<>>
                            ELSE UpdatePlan(buf, SlotOf(cmd.arg), check.required, unlocked)])
  BY DEF FlashBootloader
<1> DEFINE check == BupCheck(buf, fails)
           spec == IF buf.entries = <<>> THEN bup.spec ELSE SpecInfo(missing)
<1>2. cmd.stale = bup.checked /\ IsPayload(buf) /\ bup \in BupChecks
  BY ImageFacts DEF CmdOK
<1>3. buf.ratchet \in BOOLEAN
  BY <1>2 DEF IsPayload
<1>4. /\ check \in BupChecks
      /\ bup.checked => check = bup
      /\ ~bup.checked => check.required = (buf.ratchet /\ ~fails)
  BY <1>2, <1>3 DEF BupCheck, BupChecks
<1>5. spec \in {"unread", "read", "missing"}
  BY <1>2 DEF SpecInfo, BupChecks
<1>6. bup' = [check EXCEPT !.spec = spec] /\ cmd' = [cmd EXCEPT !.all = check.required]
      /\ dropped' = (dropped \/ fails \/ spec = "missing")
  BY <1>1
<1>7. /\ buf.entries = <<>> => Done("FAIL")
      /\ buf.entries # <<>> =>
           Work([kind |-> "update",
                 writes |-> IF spec = "missing" THEN <<>>
                   ELSE UpdatePlan(buf, SlotOf(cmd.arg), check.required, unlocked)])
  BY <1>1
<1> HIDE DEF check, spec
<1>8. bup' \in BupChecks /\ bup'.required = check.required /\ check.required \in BOOLEAN
  BY <1>4, <1>5, <1>6 DEF BupChecks
<1>9. SameCmd /\ CmdIsRecord' /\ cmd'.all = check.required
  <2>1. cmd = [op |-> cmd.op, arg |-> cmd.arg, img |-> cmd.img, open |-> cmd.open,
               stale |-> cmd.stale, all |-> cmd.all]
    BY DEF CmdOK, CmdIsRecord
  <2>2. cmd' = [op |-> cmd.op, arg |-> cmd.arg, img |-> cmd.img, open |-> cmd.open,
                stale |-> cmd.stale, all |-> check.required]
    BY <1>6, <2>1
  <2> QED BY <1>8, <2>2 DEF SameCmd, CmdIsRecord
<1>10. /\ cmd.stale \/ dropped' \/ bup'.required = buf.ratchet
       /\ bup'.required => cmd.stale \/ buf.ratchet
  <2>1. cmd.stale \in BOOLEAN
    BY <1>2 DEF BupChecks
  <2>2. CASE cmd.stale
    BY <2>2
  <2>3. CASE ~cmd.stale
    <3>1. bup'.required = (buf.ratchet /\ ~fails) /\ (fails => dropped')
      BY <1>2, <1>4, <1>6, <1>8, <2>3
    <3>2. CASE fails
      BY <3>1, <3>2
    <3>3. CASE ~fails
      BY <1>3, <3>1, <3>3
    <3> QED BY <3>2, <3>3
  <2> QED BY <2>1, <2>2, <2>3
<1>11. CASE buf.entries = <<>>
  <2>1. fb' = "unlock" /\ answer' \in {answer, "FAIL"}
    BY <1>7, <1>11 DEF Done, Ack
  <2> QED BY <1>8, <1>9, <1>10, <2>1
<1>12. CASE buf.entries # <<>>
  <2> DEFINE plan == UpdatePlan(buf, SlotOf(cmd.arg), check.required, unlocked)
             writes == IF spec = "missing" THEN <<>> ELSE plan
  <2>1. fb' = "work" /\ answer' = answer /\ job' = [kind |-> "update", writes |-> writes]
    BY <1>7, <1>12 DEF Work
  <2>2. plan = UpdatePlan(buf, SlotOf(cmd.arg), bup'.required, unlocked)
    BY <1>8
  <2>3. spec = "missing" => dropped'
    BY <1>6
  <2> HIDE DEF plan
  <2>4. writes = plan \/ (dropped' /\ writes = <<>>)
    BY <2>3
  <2> HIDE DEF writes
  <2> QED BY <1>8, <1>9, <1>10, <2>1, <2>2, <2>4
<1> QED BY <1>11, <1>12

\* What an update has to write is where its entries go, also when an earlier one failed
\* and the ratchet that it was checked for still counts.
LEMMA UpdateBegins ==
  ASSUME CmdOK, unlocked, unlocked \in BOOLEAN, fb = "start", cmd.op = "flash",
         cmd.arg # "data", buf # None, buf.kind = "payload",
         NEW allSlots \in BOOLEAN, allSlots => cmd.stale \/ buf.ratchet
  PROVE  /\ Updates /\ cmd.open
         /\ UpdatePlan(buf, SlotOf(cmd.arg), allSlots, unlocked) \in Seq(WritesIn(Covered))
<1> DEFINE slot == SlotOf(cmd.arg)
<1>1. cmd.img = buf /\ cmd.open = unlocked
  BY DEF CmdOK
<1>2. IsPayload(buf)
  BY ImageFacts DEF CmdOK
<1>3. slot \in {0, 1}
  BY DEF SlotOf
<1>4. Updates /\ ~FlashesData
  BY <1>1 DEF Updates, FlashesData
<1>5. Covered = UNION {UNION {ImageUnitsIn(p, name) : p \in MayTarget(name)} :
                         name \in NamesOf(buf)}
  BY <1>1, <1>4 DEF Covered
<1>6. ASSUME NEW name PROVE Target(name, slot, allSlots) \subseteq MayTarget(name)
  BY <1>1, <1>3 DEF MayTarget, Target
<1> HIDE DEF slot
<1>7. \A name \in NamesOf(buf) :
        \A p \in Target(name, slot, allSlots) : ImageUnitsIn(p, name) \subseteq Covered
  BY <1>5, <1>6
<1>8. UpdatePlan(buf, slot, allSlots, unlocked) \in Seq(WritesIn(Covered))
  BY <1>2, <1>3, <1>7, UpdatePlanFacts
<1> QED BY <1>1, <1>4, <1>8 DEF slot

LEMMA FlashBegins ==
  ASSUME Inv, Flash
  PROVE  CmdOK' /\ JobOK' /\ RestKept'
<1> USE DEF Inv
<1>1. /\ fb = "start" /\ cmd.op = "flash" /\ cmd.open = unlocked /\ cmd.img = buf
      /\ UNCHANGED <<disk, was, buf, unlocked>>
  BY DEF Flash, Handling, CmdOK
<1>2. buf' \in Images \cup {None} /\ bup \in BupChecks
  BY <1>1 DEF CmdOK
<1>3. ASSUME cmd' = cmd PROVE SameCmd /\ CmdIsRecord'
  BY <1>3 DEF SameCmd, CmdOK, CmdIsRecord
<1>4. ASSUME SameCmd PROVE Covered' = Covered /\ RestKept'
  <2>1. Covered' = Covered
    BY <1>1, <1>4, CoveredSame
  <2> QED BY <1>1, <2>1 DEF RestKept
<1>6. ASSUME SameCmd, CmdIsRecord', bup' \in BupChecks, fb' \in {"work", "unlock"}
      PROVE  CmdOK'
  BY <1>1, <1>2, <1>6 DEF CmdOK, SameCmd
<1>5. ASSUME SameCmd, CmdIsRecord', bup' \in BupChecks, fb' = "unlock"
      PROVE  CmdOK' /\ JobOK' /\ RestKept'
  BY <1>4, <1>5, <1>6 DEF JobOK
<1>7. CASE ~unlocked \/ buf = None
  <2>1. fb' = "unlock" /\ cmd' = cmd /\ bup' = bup
    BY <1>7 DEF Flash, Done, AtFlash
  <2> QED BY <1>2, <1>3, <1>5, <2>1
<1>8. CASE unlocked /\ buf # None /\ cmd.arg = "data"
  <2>1. FlashPartition
    BY <1>8 DEF Flash
  <2>3. cmd' = cmd /\ SameCmd /\ CmdIsRecord' /\ bup' \in BupChecks
    BY <1>2, <1>3, <2>1 DEF FlashPartition, AtFlash
  <2>2. FlashesData /\ FlashesData'
    BY <1>1, <1>8, <2>3 DEF FlashesData
  <2>4. CASE buf.kind = "sparse" /\ ~HeaderFits("data", buf)
    BY <1>5, <2>1, <2>3, <2>4 DEF FlashPartition, Done
  <2>5. CASE buf.kind = "sparse" /\ HeaderFits("data", buf)
    <3>1. fb' = "work" /\ job' = [kind |-> "sparse", img |-> buf, at |-> SparseStart(buf)]
      BY <2>1, <2>5 DEF FlashPartition, Work
    <3>2. SparseAt(SparseStart(buf), buf)
      BY <1>8, <2>5, ImageFacts, SparseBegins DEF CmdOK
    <3>3. JobOK'
      BY <1>1, <1>8, <2>2, <2>3, <2>5, <3>1, <3>2 DEF JobOK
    <3> QED BY <1>4, <1>6, <2>3, <3>1, <3>3
  <2>6. CASE buf.kind # "sparse"
    <3>1. fb' = "work" /\ job' = [kind |-> "raw", data |-> buf.data]
      BY <2>1, <2>6 DEF FlashPartition, Work
    <3>2. JobOK'
      BY <1>1, <1>8, <2>2, <2>3, <2>6, <3>1 DEF JobOK
    <3> QED BY <1>4, <1>6, <2>3, <3>1, <3>2
  <2> QED BY <2>4, <2>5, <2>6
<1>9. CASE unlocked /\ buf # None /\ cmd.arg # "data"
  <2>1. FlashBootloader
    BY <1>9 DEF Flash
  <2>2. CASE buf.kind # "payload"
    <3>1. fb' = "unlock" /\ cmd' = cmd /\ bup' = bup
      BY <2>1, <2>2 DEF FlashBootloader, Done, AtFlash
    <3> QED BY <1>2, <1>3, <1>5, <3>1
  <2>3. CASE buf.kind = "payload"
    <3>1. /\ SameCmd /\ CmdIsRecord' /\ bup' \in BupChecks
          /\ bup'.required => cmd.stale \/ buf.ratchet
          /\ \/ fb' = "unlock"
             \/ /\ fb' = "work"
                /\ \E writes :
                     /\ job' = [kind |-> "update", writes |-> writes]
                     /\ \/ writes = UpdatePlan(buf, SlotOf(cmd.arg), bup'.required, unlocked)
                        \/ writes = <<>>
      BY <1>1, <1>9, <2>1, <2>3, PayloadBegins
    <3>2. CASE fb' = "unlock"
      BY <1>5, <3>1, <3>2
    <3>3. CASE fb' = "work"
      <4>1. PICK writes :
              /\ job' = [kind |-> "update", writes |-> writes]
              /\ \/ writes = UpdatePlan(buf, SlotOf(cmd.arg), bup'.required, unlocked)
                 \/ writes = <<>>
        BY <3>1, <3>3
      <4>2. bup'.required \in BOOLEAN
        BY <3>1 DEF BupChecks
      <4>3. /\ Updates /\ cmd.open
            /\ UpdatePlan(buf, SlotOf(cmd.arg), bup'.required, unlocked)
                 \in Seq(WritesIn(Covered))
        BY <1>1, <1>9, <2>3, <3>1, <4>2, UpdateBegins DEF TypeOK
      <4>4. writes \in Seq(WritesIn(Covered))
        BY <4>1, <4>3, EmptySeq
      <4>5. Updates' /\ cmd'.open /\ Covered' = Covered
        BY <1>4, <3>1, <4>3 DEF Updates, SameCmd
      <4>6. job' = [kind |-> "update", writes |-> job'.writes] /\ job'.writes = writes
        BY <4>1
      <4>7. JobOK'
        BY <4>4, <4>5, <4>6 DEF JobOK
      <4> QED BY <1>4, <1>6, <3>1, <3>3, <4>7
    <3> QED BY <3>1, <3>2, <3>3
  <2> QED BY <2>2, <2>3
<1> QED BY <1>7, <1>8, <1>9

LEMMA OtherKeeps ==
  ASSUME Inv,
         \/ HostGone \/ LockForCommand \/ RelockAfterMenu \/ Unlock \/ Download \/ Flashing
         \/ Answering \/ Reboot \/ ConfirmTry \/ ConfirmIdle \/ ConfirmEnter \/ ConfirmFails
         \/ MenuStep \/ MenuJoin \/ SelectFails \/ Select \/ BootKernel \/ PowerCut \/ PowerOn
         \/ UNCHANGED vars
  PROVE  CmdOK' /\ JobOK' /\ RestKept'
<1> USE DEF Inv
<1> DEFINE Still == UNCHANGED <<disk, cmd, was>>
           Bup == bup' \in BupChecks
           Buf == buf' \in Images \cup {None}
           Begins == fb' \in {"lock", "start"} =>
                       fb \in {"lock", "start"} /\ UNCHANGED <<buf, bup, unlocked>>
           Asks == fb' \in {"confirm", "confirm_keys", "relock", "chosen"} =>
                     cmd.op = "flashing"
           Works == fb' = "work" => fb = "work" /\ job' = job
<1>0. /\ bup \in BupChecks /\ buf \in Images \cup {None}
      /\ fb \in {"confirm", "confirm_keys", "relock", "chosen"} => cmd.op = "flashing"
      /\ fb \in {"lock", "start"} /\ cmd.op = "download" => cmd.arg \in Images
      /\ None \in Images \cup {None}
  BY DEF CmdOK
<1>1. ASSUME Still, Bup, Buf, Begins, Asks, Works PROVE CmdOK' /\ JobOK' /\ RestKept'
  BY <1>1, StillStep
<1> DEFINE All == Still /\ Bup /\ Buf /\ Begins /\ Asks /\ Works
<1>2. CASE HostGone \/ Unlock \/ Answering
  <2>1. All
    <3>1. CASE HostGone
      BY <1>0, <3>1 DEF HostGone, Exit
    <3>2. CASE Unlock
      BY <1>0, <3>2 DEF Unlock, Exit
    <3>3. CASE Answering
      BY <1>0, <3>3 DEF Answering, Done
    <3> QED BY <1>2, <3>1, <3>2, <3>3
  <2> QED BY <1>1, <2>1
<1>3. CASE LockForCommand \/ RelockAfterMenu
  <2>1. CASE LockForCommand
    <3>1. fb = "lock" /\ fb' \in {"lock", "start", "panic"} /\ Still
          /\ UNCHANGED <<buf, bup, unlocked>>
      BY <2>1 DEF LockForCommand, MenuLock
    <3> QED BY <1>0, <1>1, <3>1
  <2>2. CASE RelockAfterMenu
    <3>1. fb = "relock" /\ fb' \in {"relock", "chosen", "panic"} /\ Still
          /\ UNCHANGED <<buf, bup, unlocked>>
      BY <2>2 DEF RelockAfterMenu, MenuLock
    <3> QED BY <1>0, <1>1, <3>1
  <2> QED BY <1>3, <2>1, <2>2
<1>4. CASE Download
  <2>1. fb = "start" /\ cmd.op = "download" /\ Still /\ bup' = bup
        /\ fb' \in {"unlock", "panic"}
        /\ buf' \in {buf, None, cmd.arg}
    BY <1>4 DEF Download, Handling, Done
  <2> QED BY <1>0, <1>1, <2>1
<1>5. CASE Flashing
  <2>1. fb = "start" /\ cmd.op = "flashing" /\ Still /\ bup' = bup /\ buf' = buf
        /\ fb' \in {"unlock", "confirm"}
    BY <1>5 DEF Flashing, Handling, Done
  <2> QED BY <1>0, <1>1, <2>1
<1>6. CASE ConfirmTry \/ ConfirmIdle \/ ConfirmEnter \/ ConfirmFails
  <2>1. /\ fb \in {"confirm", "confirm_keys"} /\ fb' \in {"confirm", "confirm_keys", "relock"}
        /\ Still /\ bup' = bup /\ buf' = buf
    BY <1>6 DEF ConfirmTry, ConfirmIdle, ConfirmEnter, ConfirmFails, AtConfirm
  <2> QED BY <1>0, <1>1, <2>1
<1>7. CASE MenuStep \/ MenuJoin \/ SelectFails \/ UNCHANGED vars
  <2>1. Still /\ UNCHANGED <<fb, job, bup, buf, unlocked>>
    <3>1. CASE MenuStep
      BY <3>1 DEF MenuStep, MenuDraw, MenuLoop, MenuTry, MenuIdle, MenuEnter, MenuFails,
                  AtMenu, ram
    <3>2. CASE MenuJoin \/ SelectFails
      BY <3>2 DEF MenuJoin, SelectFails, AtMenu, ram
    <3>3. CASE UNCHANGED vars
      BY <3>3 DEF vars
    <3> QED BY <1>7, <3>1, <3>2, <3>3
  <2> QED BY <1>0, <1>1, <2>1
<1>8. CASE Select \/ BootKernel \/ PowerCut \/ Reboot
  <2>1. /\ Still /\ fb' = "off" /\ buf' = None
        /\ bup' = BupStart
    BY <1>8 DEF Select, BootKernel, PowerCut, Reboot, Off
  <2>2. bup' \in BupChecks
    BY <2>1 DEF BupChecks, BupStart
  <2> QED BY <1>0, <1>1, <2>1, <2>2
<1>9. CASE PowerOn
  <2>1. Still /\ fb' = "recv" /\ bup' = bup /\ buf' = buf
    BY <1>9 DEF PowerOn, ram
  <2> QED BY <1>0, <1>1, <2>1
<1> QED BY <1>2, <1>3, <1>4, <1>5, <1>6, <1>7, <1>8, <1>9

LEMMA InvStep ==
  ASSUME Inv, [Next]_vars
  PROVE  Inv'
<1>1. TypeOK' /\ QueueOK'
  BY TypeStep DEF Inv
<1>2. CmdOK' /\ JobOK' /\ RestKept'
  <2>1. CASE Receive \/ Erase \/ Flash
    BY <2>1, ReceiveKeeps, EraseBegins, FlashBegins
  <2>2. CASE RawStep \/ SparseStep \/ UpdateStep \/ EraseStep
    BY <2>2, RawKeeps, SparseKeeps, UpdateKeeps, EraseKeeps
  <2>3. CASE ChangeState \/ OdmRead \/ OdmWrite
    BY <2>3, ChangeKeeps, OdmReadKeeps, OdmWriteKeeps
  <2>4. \/ Receive \/ Erase \/ Flash
        \/ RawStep \/ SparseStep \/ UpdateStep \/ EraseStep
        \/ ChangeState \/ OdmRead \/ OdmWrite
        \/ HostGone \/ LockForCommand \/ RelockAfterMenu \/ Unlock \/ Download \/ Flashing
        \/ Answering \/ Reboot \/ ConfirmTry \/ ConfirmIdle \/ ConfirmEnter \/ ConfirmFails
        \/ MenuStep \/ MenuJoin \/ SelectFails \/ Select \/ BootKernel \/ PowerCut \/ PowerOn
        \/ UNCHANGED vars
    BY DEF Next, ServerStep
  <2> QED BY <2>1, <2>2, <2>3, <2>4, OtherKeeps
<1> QED BY <1>1, <1>2 DEF Inv

\* What the menu mutex is for: a command's handler, its work on the storage and the menu
\* that it draws run with menu_mutex held by the fastboot thread, and the main thread
\* reads keys only with it held by the main thread (fastboot_protocol.c, menu.c).
THEOREM TypeCorrect == Spec => []TypeOK
<1>1. Init => TypeOK /\ QueueOK
  BY TypeInit
<1>2. TypeOK /\ QueueOK /\ [Next]_vars => TypeOK' /\ QueueOK'
  BY TypeStep
<1> QED BY <1>1, <1>2, PTL DEF Spec

\* A command changes nothing but what it is for, at any moment, whatever fails and
\* wherever the power goes: flashing keeps the rest of a block that it writes in part,
\* what a sparse image leaves out and the partition's neighbours, an update the slot that
\* it is not for, a change of the lock bit everything until user data are gone, and a
\* locked device everything.  For every layout of partitions, size of blocks, set of
\* images and number of commands and faults.
THEOREM RestKeptTheorem == Spec => []RestKept
<1>1. Init => Inv
  BY TypeInit, InvInit DEF Inv
<1>2. Inv /\ [Next]_vars => Inv'
  BY InvStep
<1>3. Inv => RestKept
  BY DEF Inv
<1> QED BY <1>1, <1>2, <1>3, PTL DEF Spec

-----------------------------------------------------------------------------
(***************************************************************************)
(* One copy of the BCT survives.  The writes of an update or of a change   *)
(* of the lock bit meet the first two copies one after the other, and no   *)
(* error is dropped between the two.                                       *)
(***************************************************************************)
CopyUnits(i) == BctStarts[i] .. BctStarts[i] + ImageUnits["BCT"] - 1

WholeCopy(d, i) == WholeBct(d, BctStarts[i])

\* a BCT as WholeBct() wants it
WholeData(data) ==
  /\ Len(data) = ImageUnits["BCT"]
  /\ \A i \in 2 .. ImageUnits["BCT"] : data[i] = data[1] % LockBit

\* a write of a whole BCT over copy i
Onto(w, i) ==
  w.part = "BCT" /\ Start["BCT"] + w.offset = BctStarts[i] /\ WholeData(w.data)

\* a write that meets neither of the first two copies
Apart(w) ==
  w.part # "BCT" \/
    \A i \in {1, 2} : Span(Start["BCT"] + w.offset, w.data) \cap CopyUnits(i) = {}

AllApart(ws) == \A j \in 1 .. Len(ws) : Apart(ws[j])

\* the first copy, then at once the second, and neither again
CopiesFrom(ws, k) ==
  /\ Onto(ws[k], 1) /\ Onto(ws[k + 1], 2)
  /\ \A j \in 1 .. Len(ws) : j # k /\ j # k + 1 => Apart(ws[j])

InOrder(ws) == AllApart(ws) \/ \E k \in 1 .. Len(ws) - 1 : CopiesFrom(ws, k)

\* what the writes to come need of the disk
SafeFor(ws, d) ==
  \/ InOrder(ws) /\ WholeCopy(d, 1) /\ WholeCopy(d, 2)
  \/ /\ WholeCopy(d, 1) /\ ws # <<>> /\ Onto(ws[1], 2)
     /\ \A j \in 2 .. Len(ws) : Apart(ws[j])
  \/ AllApart(ws) /\ (WholeCopy(d, 1) \/ WholeCopy(d, 2))

\* where the thread is before a command has written anything but user data
Early == {"lock", "start", "confirm", "confirm_keys", "relock", "chosen"}

BctInv ==
  WholeCopy(was, 1) /\ WholeCopy(was, 2) =>
    /\ WholeCopy(disk, 1) \/ WholeCopy(disk, 2)
    /\ (fb \in Early \/ (fb = "work" /\ job.kind = "odm")) =>
         WholeCopy(disk, 1) /\ WholeCopy(disk, 2)
    /\ fb = "work" /\ job.kind \in {"update", "bct"} => SafeFor(job.writes, disk)

LEMMA CopyFacts ==
  /\ BctStarts[1] \in Nat /\ BctStarts[2] \in Nat /\ BctStarts[1] = Start["BCT"] + 0
  /\ BctStarts[2] = Start["BCT"] + BctSlot
  /\ "BCT" \in DOMAIN Start /\ Start["BCT"] \in Nat
  /\ ImageUnits["BCT"] \in Nat \ {0} /\ BctSlot \in Nat
  /\ ImageUnits["BCT"] <= BctSlot /\ 2 * BctSlot <= BootBlock /\ BootBlock \in Nat
  /\ CopyUnits(1) \cap CopyUnits(2) = {}
  /\ \A i \in {1, 2} : CopyUnits(i) \subseteq UnitsOf("BCT")
<1>1. /\ BctStarts[1] \in Nat /\ BctStarts[2] \in Nat /\ BctStarts[1] = Start["BCT"] + 0
      /\ BctStarts[2] = Start["BCT"] + BctSlot
      /\ \A i \in {1, 2} : CopyUnits(i) \subseteq UnitsOf("BCT")
  BY BctStartsFacts DEF CopyUnits
<1>2. /\ "BCT" \in DOMAIN Start /\ Start["BCT"] \in Nat
      /\ ImageUnits["BCT"] \in Nat \ {0} /\ BctSlot \in Nat /\ BootBlock \in Nat
      /\ ImageUnits["BCT"] <= BctSlot /\ 2 * BctSlot <= BootBlock
  BY BctConstants, BctAssumption
<1>3. CopyUnits(1) \cap CopyUnits(2) = {}
  BY <1>1, <1>2 DEF CopyUnits
<1> QED BY <1>1, <1>2, <1>3

\* A copy is as whole as before where its units are as before.
LEMMA CopyKept ==
  ASSUME NEW d, NEW e, NEW i \in {1, 2}, \A u \in CopyUnits(i) : e[u] = d[u]
  PROVE  WholeCopy(e, i) <=> WholeCopy(d, i)
<1> DEFINE start == BctStarts[i]
           n == ImageUnits["BCT"]
<1>1. start \in Nat /\ n \in Nat \ {0}
  BY CopyFacts
<1>2. \A k \in 1 .. n : start + k - 1 \in CopyUnits(i)
  BY <1>1 DEF CopyUnits
<1>3. start \in CopyUnits(i)
  BY <1>1 DEF CopyUnits
<1>4. BctAt(e, start) = BctAt(d, start)
  BY <1>2 DEF BctAt
<1> QED BY <1>3, <1>4 DEF WholeCopy, WholeBct

\* A whole BCT written in full is a whole copy.
LEMMA CopyWritten ==
  ASSUME NEW e, NEW i \in {1, 2}, NEW data, WholeData(data),
         \A u \in CopyUnits(i) : e[u] = data[u - BctStarts[i] + 1]
  PROVE  WholeCopy(e, i)
<1> DEFINE start == BctStarts[i]
           n == ImageUnits["BCT"]
<1>1. start \in Nat /\ n \in Nat \ {0}
  BY CopyFacts
<1>2. ASSUME NEW k \in 1 .. n PROVE e[start + k - 1] = data[k]
  <2>1. start + k - 1 \in CopyUnits(i) /\ (start + k - 1) - start + 1 = k
    BY <1>1 DEF CopyUnits
  <2> QED BY <2>1
<1>3. e[start] = data[1]
  <2>1. 1 \in 1 .. n /\ start + 1 - 1 = start
    BY <1>1
  <2> QED BY <1>2, <2>1
<1>4. \A k \in 2 .. n : k \in 1 .. n /\ BctAt(e, start)[k] = data[k]
  BY <1>1, <1>2 DEF BctAt
<1> QED BY <1>3, <1>4 DEF WholeCopy, WholeBct, WholeData

\* What is not in the partition of the BCT leaves its copies alone.
LEMMA OtherPartition ==
  ASSUME NEW p \in DOMAIN Start, p # "BCT", NEW i \in {1, 2}
  PROVE  UnitsOf(p) \cap CopyUnits(i) = {}
  BY CopyFacts, PartitionAssumption

\* A write that begins at a block's border drops no error.
LEMMA NothingDropped ==
  ASSUME NEW d, NEW p, NEW offset, NEW data, NEW faulty \in BOOLEAN,
         NEW o \in partition_write(d, p, offset, data, faulty),
         (Start[p] + offset) % BlockUnits = 0
  PROVE  ~o.dropped
  BY DEF partition_write, default_write, Outcome, Clean, Failed, Refused, Unnoticed

\* A write of the next of ws, as it may end.
LEMMA WriteKeepsCopy ==
  ASSUME disk \in [Units -> Int], NEW S, NEW ws \in Seq(WritesIn(S)), ws # <<>>,
         SafeFor(ws, disk), NEW faulty \in BOOLEAN,
         NEW o \in partition_write(disk, Head(ws).part, Head(ws).offset, Head(ws).data, faulty)
  PROVE  /\ WholeCopy(o.disk, 1) \/ WholeCopy(o.disk, 2)
         /\ ~o.err => SafeFor(Tail(ws), o.disk)
<1> DEFINE w == Head(ws)
           e == o.disk
           at == Start[w.part] + w.offset
           rest == Tail(ws)
           n == Len(ws)
<1>1. /\ n \in Nat \ {0} /\ w = ws[1] /\ Len(rest) = n - 1
      /\ \A j \in 1 .. n - 1 : rest[j] = ws[j + 1]
  BY HeadTailProperties, LenProperties
<1>2. w.part \in DOMAIN Start /\ w.offset \in Nat /\ w.data \in Seq(Int)
  BY WritesHead
<1>3. /\ e \in [Units -> Int] /\ WrittenTo(disk, at, w.data, o)
      /\ e # disk => Span(at, w.data) \subseteq UnitsOf(w.part)
  BY <1>2, PartitionWrite
<1>4. ASSUME NEW i \in {1, 2}, Apart(w) \/ Onto(w, 3 - i)
      PROVE  WholeCopy(e, i) <=> WholeCopy(disk, i)
  <2>1. CopyUnits(i) \subseteq Units
    BY CopyFacts DEF Units
  <2>2. CASE w.part # "BCT"
    <3>1. Span(at, w.data) \cap CopyUnits(i) = {} \/ e = disk
      BY <1>2, <1>3, <2>2, OtherPartition
    <3>2. \A u \in CopyUnits(i) : e[u] = disk[u]
      BY <1>3, <2>1, <3>1 DEF WrittenTo
    <3> QED BY <3>2, CopyKept
  <2>3. CASE w.part = "BCT"
    <3>1. Span(at, w.data) \cap CopyUnits(i) = {}
      <4>1. CASE Apart(w)
        BY <2>3, <4>1 DEF Apart
      <4>2. CASE Onto(w, 3 - i)
        <5>1. Span(at, w.data) = CopyUnits(3 - i)
          BY <2>3, <4>2 DEF Onto, WholeData, Span, CopyUnits
        <5>2. 3 - i \in {1, 2} /\ {i, 3 - i} = {1, 2}
          OBVIOUS
        <5> QED BY <5>1, <5>2, CopyFacts
      <4> QED BY <1>4, <4>1, <4>2
    <3>2. \A u \in CopyUnits(i) : e[u] = disk[u]
      BY <1>3, <2>1, <3>1 DEF WrittenTo
    <3> QED BY <3>2, CopyKept
  <2> QED BY <2>2, <2>3
<1>5. ASSUME Onto(w, 1), ~o.err PROVE WholeCopy(e, 1)
  <2>1. at = BctStarts[1] /\ at = Start["BCT"] + 0 /\ w.part = "BCT" /\ WholeData(w.data)
    BY <1>5, CopyFacts DEF Onto
  <2>2. at % BlockUnits = 0
    BY <2>1, CopyFacts, BlockAssumption
  <2>3. ~o.dropped
    BY <2>2, NothingDropped
  <2>4. Span(at, w.data) = CopyUnits(1) /\ CopyUnits(1) \subseteq Units
    BY <2>1, CopyFacts DEF WholeData, Span, CopyUnits, Units
  <2>5. \A u \in CopyUnits(1) : e[u] = w.data[u - BctStarts[1] + 1]
    BY <1>3, <1>5, <2>1, <2>3, <2>4 DEF WrittenTo
  <2> QED BY <2>1, <2>5, CopyWritten
<1>6. CASE InOrder(ws) /\ WholeCopy(disk, 1) /\ WholeCopy(disk, 2)
  <2>1. CASE Apart(w) /\ InOrder(ws)
    <3>1. WholeCopy(e, 1) /\ WholeCopy(e, 2)
      BY <1>4, <1>6, <2>1
    <3>2. InOrder(rest)
      <4>1. CASE AllApart(ws)
        BY <1>1, <4>1 DEF AllApart, InOrder
      <4>2. CASE \E k \in 1 .. n - 1 : CopiesFrom(ws, k)
        <5>1. PICK k \in 1 .. n - 1 : CopiesFrom(ws, k)
          BY <4>2
        <5>2. CASE k = 1
          \* the first write is apart and is not
          <6>1. Onto(w, 1)
            BY <1>1, <5>1, <5>2 DEF CopiesFrom
          <6>2. Span(Start["BCT"] + w.offset, w.data) = CopyUnits(1) /\ w.part = "BCT"
            BY <6>1 DEF Onto, WholeData, Span, CopyUnits
          <6>3. BctStarts[1] \in CopyUnits(1)
            BY CopyFacts DEF CopyUnits
          <6> QED BY <2>1, <6>2, <6>3 DEF Apart
        <5>3. CASE k # 1
          <6> DEFINE m == k - 1
          <6>1. m \in 1 .. Len(rest) - 1 /\ m + 1 = k /\ m \in 1 .. n - 1 /\ k \in 1 .. n - 1
            BY <1>1, <5>3
          <6> HIDE DEF m
          <6>2. rest[m] = ws[k] /\ rest[m + 1] = ws[k + 1]
            BY <1>1, <6>1
          <6>3. ASSUME NEW j \in 1 .. Len(rest), j # m, j # m + 1 PROVE Apart(rest[j])
            <7>1. j + 1 \in 1 .. n /\ j + 1 # k /\ j + 1 # k + 1 /\ rest[j] = ws[j + 1]
              BY <1>1, <6>1, <6>3
            <7> QED BY <5>1, <7>1 DEF CopiesFrom
          <6>4. CopiesFrom(rest, m)
            BY <5>1, <6>2, <6>3 DEF CopiesFrom
          <6> QED BY <6>1, <6>4 DEF InOrder
        <5> QED BY <5>2, <5>3
      <4> QED BY <1>6, <4>1, <4>2 DEF InOrder
    <3> QED BY <3>1, <3>2 DEF SafeFor
  <2>2. CASE ~Apart(w)
    <3>1. PICK k \in 1 .. n - 1 : CopiesFrom(ws, k)
      BY <1>1, <1>6, <2>2 DEF InOrder, AllApart
    <3>2. k = 1
      BY <1>1, <2>2, <3>1 DEF CopiesFrom
    <3>3. Onto(w, 1) /\ Onto(ws[2], 2) /\ \A j \in 1 .. n : j # 1 /\ j # 2 => Apart(ws[j])
      BY <1>1, <3>1, <3>2 DEF CopiesFrom
    <3>4. WholeCopy(e, 2)
      <4> DEFINE i == 2
      <4>1. i \in {1, 2} /\ Onto(w, 3 - i)
        BY <3>3
      <4> HIDE DEF i
      <4>2. WholeCopy(e, i) <=> WholeCopy(disk, i)
        BY <1>4, <4>1
      <4> QED BY <1>6, <4>2 DEF i
    <3>5. rest[1] = ws[2] /\ rest # <<>> /\ \A j \in 2 .. Len(rest) : Apart(rest[j])
      <4>1. 1 \in 1 .. n - 1
        BY <1>1, <3>1, <3>2
      <4>2. rest[1] = ws[2]
        BY <1>1, <4>1
      <4>3. \A j \in 2 .. Len(rest) : rest[j] = ws[j + 1] /\ j + 1 \in 1 .. n /\ j + 1 # 1 /\ j + 1 # 2
        BY <1>1
      <4>4. Len(rest) # 0
        BY <1>1, <4>1
      <4> HIDE DEF rest
      <4>5. rest # <<>>
        BY <4>4
      <4> QED BY <3>3, <4>2, <4>3, <4>5
    <3>6. ~o.err => SafeFor(rest, e)
      BY <1>5, <3>3, <3>5 DEF SafeFor
    <3> QED BY <3>4, <3>6
  <2> QED BY <1>6, <2>1, <2>2
<1>7. CASE /\ WholeCopy(disk, 1) /\ Onto(w, 2)
           /\ \A j \in 2 .. n : Apart(ws[j])
  <2>1. WholeCopy(e, 1)
    <3> DEFINE i == 1
    <3>1. i \in {1, 2} /\ Onto(w, 3 - i)
      BY <1>7
    <3> HIDE DEF i
    <3>2. WholeCopy(e, i) <=> WholeCopy(disk, i)
      BY <1>4, <3>1
    <3> QED BY <1>7, <3>2 DEF i
  <2>2. AllApart(rest)
    <3>1. \A j \in 1 .. Len(rest) : rest[j] = ws[j + 1] /\ j + 1 \in 2 .. n
      BY <1>1
    <3> QED BY <1>7, <3>1 DEF AllApart
  <2> QED BY <2>1, <2>2 DEF SafeFor
<1>8. CASE AllApart(ws) /\ (WholeCopy(disk, 1) \/ WholeCopy(disk, 2))
  <2>1. Apart(w) /\ AllApart(rest)
    <3>1. \A j \in 1 .. Len(rest) : rest[j] = ws[j + 1] /\ j + 1 \in 1 .. n
      BY <1>1
    <3> QED BY <1>1, <1>8, <3>1 DEF AllApart
  <2>2. WholeCopy(e, 1) \/ WholeCopy(e, 2)
    BY <1>4, <1>8, <2>1
  <2> QED BY <2>1, <2>2 DEF SafeFor
<1> QED BY <1>1, <1>6, <1>7, <1>8 DEF SafeFor

LEMMA SetOdmFacts ==
  ASSUME NEW x \in Int, NEW open \in BOOLEAN
  PROVE  SetOdm(x, open) % LockBit = x % LockBit
  BY DEF SetOdm, LockBit

\* A whole BCT is whole with another lock bit.
LEMMA WithOdmWhole ==
  ASSUME NEW bct \in [1 .. ImageUnits["BCT"] -> Int], NEW open \in BOOLEAN,
         \A i \in 2 .. ImageUnits["BCT"] : bct[i] = bct[1] % LockBit
  PROVE  WithOdm(bct, open) \in Seq(Int) /\ WholeData(WithOdm(bct, open))
<1> DEFINE n == ImageUnits["BCT"]
           new == WithOdm(bct, open)
<1>1. n \in Nat \ {0}
  BY CopyFacts
<1>2. new \in Seq(Int) /\ Len(new) = n
  BY <1>1, WithOdmFacts
<1>3. new[1] = SetOdm(bct[1], open) /\ \A i \in 2 .. n : new[i] = bct[i]
  BY <1>1 DEF WithOdm
<1>4. bct[1] \in Int
  BY <1>1
<1> HIDE DEF new
<1>5. new[1] % LockBit = bct[1] % LockBit
  BY <1>3, <1>4, SetOdmFacts
<1> QED BY <1>2, <1>3, <1>5 DEF WholeData, new

LEMMA ImageWhole ==
  ASSUME NEW payload, IsPayload(payload), "BCT" \in NamesOf(payload), NEW open \in BOOLEAN
  PROVE  /\ WithOdm(ImageData(payload, "BCT"), open) \in Seq(Int)
         /\ WholeData(WithOdm(ImageData(payload, "BCT"), open))
<1> DEFINE n == ImageUnits["BCT"]
           bct == ImageData(payload, "BCT")
           v == payload.version
<1>0. v \in 0 .. LockBit - 1 /\ bct = [i \in 1 .. n |-> v]
  BY EntryFacts
<1>1. n \in Nat \ {0} /\ v \in Int /\ v % LockBit = v
  <2>1. \A x \in 0 .. LockBit - 1 : x \in Int /\ x % LockBit = x
    BY DEF LockBit
  <2>2. v \in 0 .. LockBit - 1
    BY <1>0
  <2> HIDE DEF v
  <2> QED BY <2>1, <2>2, CopyFacts
<1>2. bct \in [1 .. n -> Int] /\ \A i \in 1 .. n : bct[i] = v
  BY <1>0, <1>1
<1>3. bct[1] = v /\ \A i \in 2 .. n : bct[i] = v
  BY <1>1, <1>2
<1> HIDE DEF bct
<1>4. \A i \in 2 .. n : bct[i] = bct[1] % LockBit
  BY <1>1, <1>3
<1>5. WithOdm(bct, open) \in Seq(Int) /\ WholeData(WithOdm(bct, open))
  BY <1>2, <1>4, WithOdmWhole
<1> QED BY <1>5 DEF bct

\* The copies of a whole BCT are written first to the first two places, in their order.
LEMMA BctWritesInOrder ==
  ASSUME NEW bct \in Seq(Int), WholeData(bct), NEW size \in Nat
  PROVE  LET ws == BctWrites(bct, size)
         IN  CopiesFrom(ws, 1) /\ Len(ws) \in Nat /\ Len(ws) >= 2 /\ (size = 0 => Len(ws) = 2)
<1> DEFINE copies == BctCopies(size)
           n == Len(copies)
           ws == BctWrites(bct, size)
           V == {Write("BCT", offset, bct) : offset \in Nat}
<1>1. /\ copies \in Seq(Nat) /\ n \in Nat /\ n >= 2 /\ (size = 0 => n = 2)
      /\ copies[1] = 0 /\ copies[2] = BctSlot
      /\ \A i \in 3 .. n : copies[i] >= BootBlock
  BY BctCopiesFacts
<1>2. DOMAIN copies = 1 .. n /\ \A i \in 1 .. n : copies[i] \in Nat
  BY <1>1, LenProperties, ElementOfSeq
<1> HIDE DEF copies, n
<1>3. ws = [i \in 1 .. n |-> Write("BCT", copies[i], bct)]
  BY <1>2 DEF BctWrites, copies
<1>4. ws \in [1 .. n -> V]
  BY <1>2, <1>3
<1>5. Len(ws) = n
  BY <1>1, <1>4, FunctionIsSeq
<1>6. \A i \in 1 .. n : ws[i].part = "BCT" /\ ws[i].offset = copies[i] /\ ws[i].data = bct
  BY <1>3 DEF Write
<1> HIDE DEF ws
<1>7. 1 \in 1 .. n /\ 2 \in 1 .. n
  BY <1>1
<1>8. Onto(ws[1], 1) /\ Onto(ws[2], 2)
  BY <1>1, <1>6, <1>7, CopyFacts DEF Onto
<1>9. ASSUME NEW j \in 1 .. n, j # 1, j # 2 PROVE Apart(ws[j])
  <2>1. j \in 3 .. n
    BY <1>1, <1>9
  <2>2. copies[j] \in Nat /\ copies[j] >= BootBlock
    BY <1>1, <1>2, <2>1
  <2> DEFINE first == Start["BCT"] + copies[j]
  <2>3. \A u \in Span(first, bct) : u \in Int /\ u >= first
    <3>1. first \in Nat /\ Len(bct) \in Nat
      BY <2>2, CopyFacts, LenProperties
    <3> HIDE DEF first
    <3> QED BY <3>1 DEF Span
  <2>4. \A i \in {1, 2} : \A u \in CopyUnits(i) : u < first
    <3> DEFINE n0 == ImageUnits["BCT"]
               last == Start["BCT"] + BootBlock
    <3>1. \A i \in {1, 2} : BctStarts[i] \in Nat /\ BctStarts[i] + n0 <= last
      BY SMTT(30), CopyFacts
    <3>2. n0 \in Nat /\ last \in Nat
      BY CopyFacts
    <3>3. first \in Nat /\ first >= last
      BY <2>2, CopyFacts
    <3> HIDE DEF first, last
    <3>4. \A i \in {1, 2} : \A u \in CopyUnits(i) : u \in Nat /\ u < last
      BY <3>1, <3>2 DEF CopyUnits
    <3> QED BY <3>2, <3>3, <3>4
  <2>5. first \in Nat
    BY <2>2, CopyFacts
  <2>6. \A i \in {1, 2} : \A u \in CopyUnits(i) : u \in Nat
    BY CopyFacts DEF CopyUnits
  <2> HIDE DEF first
  <2>7. \A i \in {1, 2} : Span(first, bct) \cap CopyUnits(i) = {}
    BY <2>3, <2>4, <2>5, <2>6
  <2> QED BY <1>6, <2>7 DEF Apart, first
<1>10. CopiesFrom(ws, 1)
  BY <1>5, <1>8, <1>9 DEF CopiesFrom
<1> QED BY <1>1, <1>5, <1>10 DEF ws

LEMMA OtherWritesApart ==
  ASSUME NEW payload, NEW name \in Names, name # "BCT", NEW slot \in {0, 1},
         NEW allSlots \in BOOLEAN, NEW open \in BOOLEAN
  PROVE  AllApart(WritesOf(name, slot, payload, allSlots, open))
<1> DEFINE parts == SlotOrder(name, slot, allSlots)
           ws == WritesOf(name, slot, payload, allSlots, open)
           data == ImageData(payload, name)
           part == SlotParts[name][slot]
           other == SlotParts[name][1 - slot]
           zeroth == SlotParts[name][0]
<1>1. /\ part # "BCT" /\ other # "BCT" /\ zeroth # "BCT"
  <2>1. name \in DOMAIN Dependency /\ 1 - slot \in {0, 1} /\ 0 \in {0, 1}
    BY DependencyFacts
  <2> QED BY <2>1, LayoutAssumption
<1>2. ws = [i \in DOMAIN parts |-> Write(parts[i], 0, data)]
  BY DEF WritesOf
<1>3. parts \in {<<zeroth>>, <<part>>, <<part, other>>}
  BY DEF SlotOrder
<1> HIDE DEF part, other, zeroth, parts, data
<1>4. \E m \in {1, 2} : DOMAIN parts = 1 .. m /\ \A i \in 1 .. m : parts[i] # "BCT"
  <2>1. CASE parts = <<zeroth>> \/ parts = <<part>>
    <3>1. DOMAIN parts = 1 .. 1 /\ \A i \in 1 .. 1 : parts[i] # "BCT"
      BY <1>1, <2>1
    <3> QED BY <3>1
  <2>2. CASE parts = <<part, other>>
    <3>1. DOMAIN parts = 1 .. 2 /\ \A i \in 1 .. 2 : parts[i] # "BCT"
      BY <1>1, <2>2
    <3> QED BY <3>1
  <2> QED BY <1>3, <2>1, <2>2
<1>5. PICK m \in {1, 2} : DOMAIN parts = 1 .. m /\ \A i \in 1 .. m : parts[i] # "BCT"
  BY <1>4
<1> DEFINE V == {ws[i] : i \in 1 .. m}
<1>6. m \in Nat /\ ws \in [1 .. m -> V]
  BY <1>2, <1>5
<1>7. \A i \in 1 .. m : ws[i].part # "BCT"
  BY <1>2, <1>5 DEF Write
<1> HIDE DEF ws, V
<1>8. Len(ws) = m
  BY <1>6, FunctionIsSeq
<1> QED BY <1>7, <1>8 DEF AllApart, Apart, ws

LEMMA InOrderConcat ==
  ASSUME NEW V, NEW x \in Seq(V), NEW y \in Seq(V)
  PROVE  /\ AllApart(x) /\ AllApart(y) => AllApart(x \o y)
         /\ InOrder(x) /\ AllApart(y) => InOrder(x \o y)
         /\ AllApart(x) /\ CopiesFrom(y, 1) /\ Len(y) = 2 => InOrder(x \o y)
<1> DEFINE m == Len(x)
           n == Len(y)
           z == x \o y
<1>1. /\ m \in Nat /\ n \in Nat /\ Len(z) = m + n
      /\ \A i \in 1 .. m + n : z[i] = IF i <= m THEN x[i] ELSE y[i - m]
  BY ConcatProperties, LenProperties
<1> HIDE DEF z
<1>2. /\ \A i \in 1 .. m : i \in 1 .. m + n /\ z[i] = x[i]
      /\ \A i \in 1 .. m + n : i \in 1 .. m \/ (i - m \in 1 .. n /\ z[i] = y[i - m])
  BY <1>1
<1>3. ASSUME AllApart(x), AllApart(y) PROVE AllApart(z)
  BY <1>1, <1>2, <1>3 DEF AllApart
<1>4. ASSUME InOrder(x), AllApart(y) PROVE InOrder(z)
  <2>1. CASE AllApart(x)
    BY <1>3, <1>4, <2>1 DEF InOrder
  <2>2. CASE \E k \in 1 .. m - 1 : CopiesFrom(x, k)
    <3>1. PICK k \in 1 .. m - 1 : CopiesFrom(x, k)
      BY <2>2
    <3>2. k \in 1 .. m /\ k + 1 \in 1 .. m /\ k \in 1 .. Len(z) - 1
      BY <1>1
    <3>3. Onto(z[k], 1) /\ Onto(z[k + 1], 2)
      BY <1>2, <3>1, <3>2 DEF CopiesFrom
    <3>4. \A j \in 1 .. Len(z) : j # k /\ j # k + 1 => Apart(z[j])
      BY <1>1, <1>2, <1>4, <3>1 DEF CopiesFrom, AllApart
    <3> QED BY <3>2, <3>3, <3>4 DEF InOrder, CopiesFrom
  <2> QED BY <1>4, <2>1, <2>2 DEF InOrder
<1>5. ASSUME AllApart(x), CopiesFrom(y, 1), n = 2 PROVE InOrder(z)
  <2> DEFINE k == m + 1
  <2>1. k \in 1 .. Len(z) - 1 /\ k \in 1 .. m + n /\ k + 1 \in 1 .. m + n
        /\ ~(k <= m) /\ ~(k + 1 <= m) /\ k - m = 1 /\ (k + 1) - m = 2
    BY <1>1, <1>5
  <2>2. \A j \in 1 .. m + n : j \in 1 .. m \/ j = k \/ j = k + 1
    BY <1>1, <1>5
  <2> HIDE DEF k
  <2>3. z[k] = y[1] /\ z[k + 1] = y[2]
    BY <1>1, <2>1
  <2>4. Onto(z[k], 1) /\ Onto(z[k + 1], 2)
    BY <1>5, <2>3 DEF CopiesFrom
  <2>5. \A j \in 1 .. Len(z) : j # k /\ j # k + 1 => Apart(z[j])
    BY <1>1, <1>2, <1>5, <2>2 DEF AllApart
  <2> QED BY <2>1, <2>4, <2>5 DEF InOrder, CopiesFrom
<1> QED BY <1>3, <1>4, <1>5 DEF z

\* An update writes the BCT once, its first copy before its second.
LEMMA PlanInOrder ==
  ASSUME NEW payload, IsPayload(payload),
         NEW slot \in {0, 1}, NEW allSlots \in BOOLEAN, NEW open \in BOOLEAN
  PROVE  InOrder(UpdatePlan(payload, slot, allSlots, open))
<1> DEFINE order == UpdateOrder(payload)
           n == Len(order)
           S == UNION {UNION {ImageUnitsIn(p, name) : p \in Target(name, slot, allSlots)} :
                         name \in NamesOf(payload)}
           W == Seq(WritesIn(S))
           Of(i) == WritesOf(order[i], slot, payload, allSlots, open)
<1>0. \A name \in NamesOf(payload) :
        \A p \in Target(name, slot, allSlots) : ImageUnitsIn(p, name) \subseteq S
  OBVIOUS
<1> HIDE DEF S
<1>2. PICK plan : PlannedBy(plan, payload, slot, allSlots, open, W)
  BY <1>0, PlanUnfolds
<1>3. /\ n \in Nat /\ \A i \in 1 .. n : order[i] \in Names
      /\ \A i, j \in 1 .. n : order[i] = order[j] => i = j
  BY UpdateOrderFacts, LenProperties, ElementOfSeq
<1>4. /\ UpdatePlan(payload, slot, allSlots, open) = plan[n]
      /\ plan[0] = <<>> /\ \A i \in 0 .. n : plan[i] \in W
      /\ \A i \in 1 .. n :
           plan[i] = IF order[i] \notin NamesOf(payload) THEN plan[i - 1]
                     ELSE plan[i - 1] \o Of(i)
  BY <1>2 DEF PlannedBy
<1>5. ASSUME NEW i \in 1 .. n, order[i] \in NamesOf(payload)
      PROVE  /\ Of(i) \in W
             /\ order[i] # "BCT" => AllApart(Of(i))
             /\ order[i] = "BCT" => CopiesFrom(Of(i), 1) /\ Len(Of(i)) = 2
  <2> DEFINE name == order[i]
  <2>0. name \in NamesOf(payload)
    BY <1>5
  <2>1. name \in Names
    BY <1>3
  <2>2. \A p \in Target(name, slot, allSlots) : ImageUnitsIn(p, name) \subseteq S
    BY <1>0, <1>5
  <2> HIDE DEF name
  <2>3. WritesOf(name, slot, payload, allSlots, open) \in W
    BY <2>0, <2>2, WritesOfFacts
  <2>4. name # "BCT" => AllApart(WritesOf(name, slot, payload, allSlots, open))
    BY <2>1, OtherWritesApart
  <2>5. ASSUME name = "BCT"
        PROVE  /\ CopiesFrom(WritesOf(name, slot, payload, allSlots, open), 1)
               /\ Len(WritesOf(name, slot, payload, allSlots, open)) = 2
    <3> DEFINE bct == WithOdm(ImageData(payload, "BCT"), open)
               z == 0
    <3>1. WritesOf(name, slot, payload, allSlots, open) = BctWrites(bct, z)
      BY <2>5 DEF WritesOf
    <3>2. bct \in Seq(Int) /\ WholeData(bct) /\ z \in Nat /\ z = 0
      BY <2>0, <2>5, ImageWhole
    <3> HIDE DEF bct, z
    <3> QED BY <3>1, <3>2, BctWritesInOrder
  <2> QED BY <2>3, <2>4, <2>5 DEF name
<1> HIDE DEF order, n, Of, W
<1> DEFINE NoBct(i) == \A j \in 1 .. i : order[j] # "BCT"
           T == {i \in Nat : i <= n => InOrder(plan[i]) /\ (NoBct(i) => AllApart(plan[i]))}
<1>6. 0 \in T
  <2>1. AllApart(<<>>)
    BY DEF AllApart
  <2> QED BY <1>4, <2>1 DEF InOrder
<1>7. ASSUME NEW i \in Nat, i \in T PROVE i + 1 \in T
  <2> SUFFICES ASSUME i + 1 <= n
               PROVE  InOrder(plan[i + 1]) /\ (NoBct(i + 1) => AllApart(plan[i + 1]))
    OBVIOUS
  <2> DEFINE k == i + 1
  <2>1. k \in 1 .. n /\ k - 1 = i /\ i \in 0 .. n /\ 1 .. i \subseteq 1 .. k /\ k \in 1 .. k
        /\ k \notin 1 .. i /\ 1 .. i \subseteq 1 .. n
    BY <1>3
  <2>2. InOrder(plan[i]) /\ (NoBct(i) => AllApart(plan[i]))
    BY <1>7, <2>1
  <2> HIDE DEF k, T
  <2>3. NoBct(k) => NoBct(i) /\ order[k] # "BCT"
    BY <2>1
  <2>4. plan[k] = IF order[k] \notin NamesOf(payload) THEN plan[i] ELSE plan[i] \o Of(k)
    BY <1>4, <2>1
  <2>5. plan[i] \in W
    BY <1>4, <2>1
  <2>6. CASE order[k] \notin NamesOf(payload)
    BY <2>2, <2>3, <2>4, <2>6 DEF k
  <2>7. CASE order[k] \in NamesOf(payload) /\ order[k] # "BCT"
    <3>1. Of(k) \in W /\ AllApart(Of(k))
      BY <1>5, <2>1, <2>7
    <3>2. InOrder(plan[i] \o Of(k)) /\ (AllApart(plan[i]) => AllApart(plan[i] \o Of(k)))
      BY <2>2, <2>5, <3>1, InOrderConcat DEF W
    <3> QED BY <2>2, <2>3, <2>4, <2>7, <3>2 DEF k
  <2>8. CASE order[k] \in NamesOf(payload) /\ order[k] = "BCT"
    <3>1. Of(k) \in W /\ CopiesFrom(Of(k), 1) /\ Len(Of(k)) = 2
      BY <1>5, <2>1, <2>8
    <3>2. NoBct(i)
      BY <1>3, <2>1, <2>8
    <3>3. InOrder(plan[i] \o Of(k))
      BY <2>2, <2>5, <3>1, <3>2, InOrderConcat DEF W
    <3> QED BY <2>3, <2>4, <2>8, <3>3 DEF k
  <2> QED BY <2>6, <2>7, <2>8
<1>8. InOrder(plan[n])
  <2> HIDE DEF T
  <2>1. Nat \subseteq T
    BY <1>6, <1>7, NatSetInduction
  <2> QED BY <1>3, <2>1 DEF T
<1> QED BY <1>4, <1>8

\* A command for user data leaves the BCT as it met it.
LEMMA DataCommand ==
  ASSUME Inv', cmd'.op = "erase" \/ (cmd'.op = "flash" /\ cmd'.arg = "data"),
         fb' \notin Early
  PROVE  BctInv'
<1>1. Covered' \subseteq UnitsOf("data")
  BY DEF Covered, Updates
<1>2. "data" \in DOMAIN Start /\ "data" # "BCT"
  BY LayoutAssumption
<1>3. disk' \in [Units -> Int] /\ \A i \in {1, 2} : CopyUnits(i) \subseteq Units
  BY CopyFacts DEF Inv, CmdOK, Units
<1>4. ASSUME NEW i \in {1, 2} PROVE WholeCopy(disk', i) <=> WholeCopy(was', i)
  <2>1. \A u \in CopyUnits(i) : disk'[u] = was'[u]
    BY <1>1, <1>2, <1>3, OtherPartition DEF Inv, RestKept
  <2> QED BY <2>1, CopyKept
<1>5. fb' = "work" => job'.kind \notin {"odm", "update", "bct"}
  BY DEF Inv, JobOK, Updates
<1> QED BY <1>4, <1>5 DEF BctInv

\* A step that leaves the copies alone, and begins nothing that would not
LEMMA CopiesStill ==
  ASSUME BctInv, was' = was, WholeCopy(disk', 1) <=> WholeCopy(disk, 1),
         WholeCopy(disk', 2) <=> WholeCopy(disk, 2),
         fb' \in Early => fb \in Early,
         fb' = "work" => fb \in Early /\ job'.kind = "odm"
  PROVE  BctInv'
  BY DEF BctInv

LEMMA DiskStill ==
  ASSUME BctInv, UNCHANGED <<disk, was>>,
         fb' \in Early => fb \in Early,
         fb' = "work" => fb = "work" /\ job' = job
  PROVE  BctInv'
  BY DEF BctInv

LEMMA ReceiveKeepsCopy ==
  ASSUME BctInv, Receive
  PROVE  BctInv'
<1>1. was' = disk /\ disk' = disk /\ fb' \in {"recv", "lock"}
  BY DEF Receive
<1> QED BY <1>1 DEF BctInv

LEMMA FlashKeepsCopy ==
  ASSUME Inv, Inv', BctInv, Flash
  PROVE  BctInv'
<1>1. /\ fb = "start" /\ cmd.op = "flash" /\ UNCHANGED <<disk, was>>
      /\ fb' \in {"unlock", "work"}
  BY DEF Flash, FlashPartition, FlashBootloader, Handling, Done, Work
<1>2. CASE fb' = "unlock"
  BY <1>1, <1>2, DiskStill DEF Early
<1>3. CASE fb' = "work" /\ cmd.arg = "data"
  <2>1. cmd' = cmd
    BY <1>3 DEF Flash, FlashPartition, AtFlash
  <2> QED BY <1>1, <1>3, <2>1, DataCommand DEF Early
<1>4. CASE fb' = "work" /\ cmd.arg # "data"
  <2>1. buf # None /\ buf.kind = "payload" /\ FlashBootloader /\ CmdOK
    BY <1>4 DEF Flash, FlashBootloader, Done, Inv
  <2>2. /\ bup' \in BupChecks
        /\ \E writes :
             /\ job' = [kind |-> "update", writes |-> writes]
             /\ \/ writes = UpdatePlan(buf, SlotOf(cmd.arg), bup'.required, unlocked)
                \/ writes = <<>>
    BY <1>1, <1>4, <2>1, PayloadBegins
  <2> PICK writes :
             /\ job' = [kind |-> "update", writes |-> writes]
             /\ \/ writes = UpdatePlan(buf, SlotOf(cmd.arg), bup'.required, unlocked)
                \/ writes = <<>>
    BY <2>2
  <2>3. /\ SlotOf(cmd.arg) \in {0, 1} /\ unlocked \in BOOLEAN /\ bup'.required \in BOOLEAN
        /\ IsPayload(buf)
    BY <2>1, <2>2, ImageFacts DEF SlotOf, Inv, TypeOK, CmdOK, BupChecks
  <2>4. InOrder(writes)
    <3>1. InOrder(UpdatePlan(buf, SlotOf(cmd.arg), bup'.required, unlocked))
      BY <2>3, PlanInOrder
    <3>2. InOrder(<<>>)
      BY DEF InOrder, AllApart
    <3> QED BY <3>1, <3>2
  <2>5. WholeCopy(was, 1) /\ WholeCopy(was, 2) => SafeFor(writes, disk)
    BY <1>1, <2>4 DEF BctInv, SafeFor, Early
  <2>6. job'.kind = "update" /\ job'.writes = writes
    OBVIOUS
  <2> QED BY <1>1, <1>4, <2>5, <2>6 DEF BctInv, Early
<1> QED BY <1>1, <1>2, <1>3, <1>4

\* the first write that is left, for an update and for a change of the lock bit
LEMMA WriteStepKeepsCopy ==
  ASSUME Inv, BctInv, fb = "work", job.kind \in {"update", "bct"},
         job.writes # <<>>, NEW w, w = Head(job.writes),
         NEW o \in partition_write(disk, w.part, w.offset, w.data, Faulty),
         disk' = o.disk, was' = was,
         \/ fb' = "unlock"
         \/ ~o.err /\ job' = [job EXCEPT !.writes = Tail(job.writes)] /\ fb' = fb
  PROVE  BctInv'
<1> DEFINE ws == job.writes
<1>1. /\ job = [kind |-> job.kind, writes |-> ws]
      /\ \E S : ws \in Seq(WritesIn(S))
  BY DEF Inv, JobOK
<1>2. PICK S : ws \in Seq(WritesIn(S))
  BY <1>1
<1> SUFFICES ASSUME WholeCopy(was, 1), WholeCopy(was, 2) PROVE BctInv'
  BY DEF BctInv
<1>3. SafeFor(ws, disk) /\ disk \in [Units -> Int]
  BY DEF BctInv, Inv, CmdOK
<1>4. /\ WholeCopy(o.disk, 1) \/ WholeCopy(o.disk, 2)
      /\ ~o.err => SafeFor(Tail(ws), o.disk)
  BY <1>2, <1>3, FaultyType, WriteKeepsCopy
<1>5. CASE fb' = "unlock"
  BY <1>4, <1>5 DEF BctInv, Early
<1>6. CASE ~o.err /\ job' = [job EXCEPT !.writes = Tail(ws)] /\ fb' = fb
  <2>1. job'.kind = job.kind /\ job'.writes = Tail(ws)
    <3> DEFINE k == job.kind
    <3> HIDE DEF k, ws
    <3>1. job = [kind |-> k, writes |-> ws]
      BY <1>1 DEF k
    <3>2. job' = [kind |-> k, writes |-> Tail(ws)]
      BY <1>6, <3>1
    <3> QED BY <3>2 DEF k
  <2> QED BY <1>4, <1>6, <2>1 DEF BctInv, Early
<1> QED BY <1>5, <1>6

LEMMA UpdateKeepsCopy ==
  ASSUME Inv, BctInv, UpdateStep
  PROVE  BctInv'
<1> DEFINE w == Head(job.writes)
<1>1. fb = "work" /\ job.kind = "update" /\ was' = was
  BY DEF UpdateStep, Working, AtWork
<1>2. CASE job.writes = <<>>
  <2>1. disk' = disk /\ fb' = "unlock"
    BY <1>2 DEF UpdateStep, Done
  <2> QED BY <1>1, <2>1, DiskStill DEF Early
<1>3. CASE job.writes # <<>>
  <2>1. PICK o \in partition_write(disk, w.part, w.offset, w.data, Faulty) :
          /\ disk' = o.disk
          /\ \/ fb' = "unlock"
             \/ ~o.err /\ job' = [job EXCEPT !.writes = Tail(job.writes)] /\ fb' = fb
    BY <1>3 DEF UpdateStep, Takes, Done
  <2> HIDE DEF w
  <2> QED BY <1>1, <1>3, <2>1, WriteStepKeepsCopy DEF w
<1> QED BY <1>2, <1>3

LEMMA OdmWriteKeepsCopy ==
  ASSUME Inv, BctInv, OdmWrite
  PROVE  BctInv'
<1> DEFINE w == Head(job.writes)
<1>1. fb = "work" /\ job.kind = "bct" /\ was' = was
  BY DEF OdmWrite, Working, AtOdm
<1>2. CASE job.writes = <<>>
  <2>1. disk' = disk /\ fb' = "unlock"
    BY <1>2 DEF OdmWrite, Resume, Done
  <2> QED BY <1>1, <2>1, DiskStill DEF Early
<1>3. CASE job.writes # <<>>
  <2>1. PICK o \in partition_write(disk, w.part, w.offset, w.data, Faulty) :
          /\ disk' = o.disk
          /\ \/ fb' = "unlock"
             \/ ~o.err /\ job' = [job EXCEPT !.writes = Tail(job.writes)] /\ fb' = fb
    <3>1. \E o \in partition_write(disk, w.part, w.offset, w.data, Faulty) :
            /\ Takes(o)
            /\ IF o.err THEN Resume("OKAY")
               ELSE /\ job' = [job EXCEPT !.writes = Tail(@)]
                    /\ UNCHANGED <<fb, answer, state, status>>
      BY <1>3 DEF OdmWrite
    <3> QED BY <3>1 DEF Takes, Resume, Done
  <2> HIDE DEF w
  <2> QED BY <1>1, <1>3, <2>1, WriteStepKeepsCopy DEF w
<1> QED BY <1>2, <1>3

LEMMA OdmReadKeepsCopy ==
  ASSUME Inv, BctInv, OdmRead
  PROVE  BctInv'
<1> DEFINE n == ImageUnits["BCT"]
           start == BctStarts[1]
           old == BctAt(disk, start)
           bct == WithOdm(old, unlocked')
           size == Size["BCT"]
<1>1. /\ fb = "work" /\ job.kind = "odm" /\ disk' = disk /\ was' = was /\ unlocked' \in BOOLEAN
      /\ \/ fb' = "unlock"
         \/ fb' = "work" /\ job' = [kind |-> "bct", writes |-> BctWrites(bct, size)]
  BY DEF OdmRead, Working, AtOdm, Resume, Done, Work
<1>2. CASE fb' = "unlock"
  BY <1>1, <1>2, DiskStill DEF Early
<1>3. CASE fb' = "work" /\ job' = [kind |-> "bct", writes |-> BctWrites(bct, size)]
  <2> SUFFICES ASSUME WholeCopy(was, 1), WholeCopy(was, 2) PROVE BctInv'
    BY <1>1 DEF BctInv
  <2>1. WholeCopy(disk, 1) /\ WholeCopy(disk, 2)
    BY <1>1 DEF BctInv
  <2>2. n \in Nat \ {0} /\ start \in Nat /\ size \in Nat /\ CopyUnits(1) \subseteq Units
    BY CopyFacts, BctConstants DEF Units
  <2>3. old \in [1 .. n -> Int]
    <3>1. \A i \in 1 .. n : start + i - 1 \in CopyUnits(1)
      BY <2>2 DEF CopyUnits
    <3>2. disk \in [Units -> Int]
      BY DEF Inv, CmdOK
    <3> QED BY <2>2, <3>1, <3>2 DEF BctAt
  <2>4. \A i \in 2 .. n : old[i] = old[1] % LockBit
    <3>1. old[1] = disk[start]
      <4>1. 1 \in 1 .. n /\ start + 1 - 1 = start
        BY <2>2
      <4> QED BY <4>1 DEF BctAt
    <3> QED BY <2>1, <3>1 DEF WholeCopy, WholeBct
  <2> HIDE DEF old, size
  <2>5. bct \in Seq(Int) /\ WholeData(bct)
    BY <1>1, <2>3, <2>4, WithOdmWhole
  <2> HIDE DEF bct
  <2>6. CopiesFrom(BctWrites(bct, size), 1) /\ Len(BctWrites(bct, size)) >= 2
        /\ Len(BctWrites(bct, size)) \in Nat
    BY <2>2, <2>5, BctWritesInOrder
  <2>7. 1 \in 1 .. Len(BctWrites(bct, size)) - 1
    BY <2>6
  <2>8. SafeFor(BctWrites(bct, size), disk)
    BY <2>1, <2>6, <2>7 DEF SafeFor, InOrder
  <2>9. job'.kind = "bct" /\ job'.writes = BctWrites(bct, size)
    BY <1>3
  <2> QED BY <1>1, <1>3, <2>1, <2>8, <2>9 DEF BctInv, Early
<1> QED BY <1>1, <1>2, <1>3

LEMMA ChangeKeepsCopy ==
  ASSUME Inv, BctInv, ChangeState
  PROVE  BctInv'
<1>1. fb = "chosen" /\ was' = was
  BY DEF ChangeState
<1>2. CASE job.kind \in {"failed", "back"}
  <2>1. disk' = disk /\ fb' = "unlock"
    BY <1>2 DEF ChangeState, Resume, Done
  <2> QED BY <1>1, <2>1, DiskStill DEF Early
<1>3. CASE job.kind \notin {"failed", "back"}
  <2>1. PICK o \in partition_erase(disk, "data", Faulty) :
          /\ disk' = o.disk
          /\ \/ fb' = "unlock"
             \/ fb' = "work" /\ job' = [kind |-> "odm"]
    BY <1>3 DEF ChangeState, Resume, Done, Work, Takes
  <2>2. "data" \in DOMAIN Start /\ "data" # "BCT" /\ disk \in [Units -> Int]
    BY LayoutAssumption DEF Inv, CmdOK
  <2>3. \A u \in Units \ UnitsOf("data") : disk'[u] = disk[u]
    BY <2>1, <2>2, FaultyType, PartitionErase
  <2>4. ASSUME NEW i \in {1, 2} PROVE WholeCopy(disk', i) <=> WholeCopy(disk, i)
    <3>1. CopyUnits(i) \subseteq Units \ UnitsOf("data")
      BY <2>2, OtherPartition, CopyFacts DEF Units
    <3>2. \A u \in CopyUnits(i) : disk'[u] = disk[u]
      BY <2>3, <3>1
    <3> QED BY <3>2, CopyKept
  <2> QED BY <1>1, <2>1, <2>4, CopiesStill DEF Early
<1> QED BY <1>2, <1>3

LEMMA OtherKeepsCopy ==
  ASSUME BctInv,
         \/ HostGone \/ LockForCommand \/ RelockAfterMenu \/ Unlock \/ Download \/ Flashing
         \/ Answering \/ Reboot \/ ConfirmTry \/ ConfirmIdle \/ ConfirmEnter \/ ConfirmFails
         \/ MenuStep \/ MenuJoin \/ SelectFails \/ Select \/ BootKernel \/ PowerCut \/ PowerOn
         \/ UNCHANGED vars
  PROVE  BctInv'
<1> DEFINE Still == /\ UNCHANGED <<disk, was>>
                    /\ fb' \in Early => fb \in Early
                    /\ fb' = "work" => fb = "work" /\ job' = job
<1>1. CASE HostGone \/ Unlock \/ Answering
  <2>1. CASE HostGone
    BY <2>1, DiskStill DEF HostGone, Exit, Early
  <2>2. CASE Unlock
    BY <2>2, DiskStill DEF Unlock, Exit, Early
  <2>3. CASE Answering
    BY <2>3, DiskStill DEF Answering, Done, Early
  <2> QED BY <1>1, <2>1, <2>2, <2>3
<1>2. CASE LockForCommand \/ RelockAfterMenu
  BY <1>2, DiskStill DEF LockForCommand, RelockAfterMenu, MenuLock, Early
<1>3. CASE Download \/ Flashing
  <2>1. fb = "start" /\ UNCHANGED <<disk, was>> /\ fb' \in {"unlock", "panic", "confirm"}
    BY <1>3 DEF Download, Flashing, Handling, Done
  <2> QED BY <2>1, DiskStill DEF Early
<1>4. CASE ConfirmTry \/ ConfirmIdle \/ ConfirmEnter \/ ConfirmFails
  <2>1. /\ fb \in {"confirm", "confirm_keys"} /\ fb' \in {"confirm", "confirm_keys", "relock"}
        /\ UNCHANGED <<disk, was>>
    BY <1>4 DEF ConfirmTry, ConfirmIdle, ConfirmEnter, ConfirmFails, AtConfirm
  <2> QED BY <2>1, DiskStill DEF Early
<1>5. CASE MenuStep \/ MenuJoin \/ SelectFails \/ UNCHANGED vars
  <2>1. UNCHANGED <<disk, was, fb, job>>
    <3>1. CASE MenuStep
      BY <3>1 DEF MenuStep, MenuDraw, MenuLoop, MenuTry, MenuIdle, MenuEnter, MenuFails,
                  AtMenu, ram
    <3>2. CASE MenuJoin \/ SelectFails
      BY <3>2 DEF MenuJoin, SelectFails, AtMenu, ram
    <3>3. CASE UNCHANGED vars
      BY <3>3 DEF vars
    <3> QED BY <1>5, <3>1, <3>2, <3>3
  <2> QED BY <2>1, DiskStill
<1>6. CASE Select \/ BootKernel \/ PowerCut \/ Reboot
  <2>1. UNCHANGED <<disk, was>> /\ fb' = "off"
    BY <1>6 DEF Select, BootKernel, PowerCut, Reboot, Off
  <2> QED BY <2>1, DiskStill DEF Early
<1>7. CASE PowerOn
  <2>1. UNCHANGED <<disk, was>> /\ fb' = "recv"
    BY <1>7 DEF PowerOn
  <2> QED BY <2>1, DiskStill DEF Early
<1> QED BY <1>1, <1>2, <1>3, <1>4, <1>5, <1>6, <1>7

LEMMA BctInvStep ==
  ASSUME Inv, BctInv, [Next]_vars
  PROVE  BctInv'
<1>1. Inv'
  BY InvStep
<1>2. CASE Erase \/ RawStep \/ SparseStep \/ EraseStep
  <2>1. /\ cmd.op = "erase" \/ (cmd.op = "flash" /\ cmd.arg = "data")
        /\ cmd' = cmd /\ fb' \notin Early
    <3>1. CASE Erase
      BY <3>1 DEF Erase, Handling, Done, Work, Early
    <3>2. CASE RawStep
      BY <3>2 DEF RawStep, Working, Done, AtWork, Early, Inv, JobOK, FlashesData
    <3>3. CASE SparseStep
      <4>1. fb = "work" /\ job.kind = "sparse" /\ fb' \in {fb, "unlock", "spin"} /\ cmd' = cmd
        BY <3>3 DEF SparseStep, Working, Done, Proceed, AtWork
      <4> QED BY <4>1 DEF Early, Inv, JobOK, FlashesData
    <3>4. CASE EraseStep
      BY <3>4 DEF EraseStep, Working, Done, AtWork, Early, Inv, JobOK
    <3> QED BY <1>2, <3>1, <3>2, <3>3, <3>4
  <2> QED BY <1>1, <2>1, DataCommand
<1>3. CASE Receive \/ Flash \/ UpdateStep
  BY <1>1, <1>3, ReceiveKeepsCopy, FlashKeepsCopy, UpdateKeepsCopy
<1>4. CASE ChangeState \/ OdmRead \/ OdmWrite
  BY <1>4, ChangeKeepsCopy, OdmReadKeepsCopy, OdmWriteKeepsCopy
<1>5. \/ Erase \/ RawStep \/ SparseStep \/ EraseStep
      \/ Receive \/ Flash \/ UpdateStep
      \/ ChangeState \/ OdmRead \/ OdmWrite
      \/ HostGone \/ LockForCommand \/ RelockAfterMenu \/ Unlock \/ Download \/ Flashing
      \/ Answering \/ Reboot \/ ConfirmTry \/ ConfirmIdle \/ ConfirmEnter \/ ConfirmFails
      \/ MenuStep \/ MenuJoin \/ SelectFails \/ Select \/ BootKernel \/ PowerCut \/ PowerOn
      \/ UNCHANGED vars
  BY DEF Next, ServerStep
<1> QED BY <1>2, <1>3, <1>4, <1>5, OtherKeepsCopy

\* Whatever fails and wherever the power goes while an update or a change of the lock bit
\* writes the BCT, one of its two copies in the first block is whole, when both were as
\* the command came: the boot ROM finds one (tegrabl_brbct.c, odmdata.c).
THEOREM BctSurvivesTheorem == Spec => []BctSurvives
<1>1. Init => Inv /\ BctInv
  <2> SUFFICES ASSUME Init PROVE Inv /\ BctInv
    OBVIOUS
  <2>1. Inv
    BY TypeInit, InvInit DEF Inv
  <2>2. BctInv
    BY DEF Init, RamInit, BctInv, Early
  <2> QED BY <2>1, <2>2
<1>2. Inv /\ BctInv /\ [Next]_vars => Inv' /\ BctInv'
  BY InvStep, BctInvStep
<1>3. BctInv => BctSurvives
  <2>1. ASSUME BctInv, WholeBct(was, BctStarts[1]), WholeBct(was, BctStarts[2])
        PROVE  \E i \in {1, 2} : WholeBct(disk, BctStarts[i])
    BY <2>1 DEF BctInv, WholeCopy
  <2> QED BY <2>1 DEF BctSurvives
<1> QED BY <1>1, <1>2, <1>3, PTL DEF Spec

-----------------------------------------------------------------------------
(***************************************************************************)
(* What a list of writes has left to do: the units that are to hold v.     *)
(***************************************************************************)
At(w) == Start[w.part] + w.offset

Meets(w) == Span(At(w), w.data)

\* all that the writes put on units of T is v
Carries(ws, T, v) ==
  \A j \in 1 .. Len(ws) : \A u \in Meets(ws[j]) \cap T : ws[j].data[u - At(ws[j]) + 1] = v

\* each unit of T, in partition p, holds v, or one of the writes to p will come to it
Remaining(ws, d, p, T, v) ==
  \A u \in T : \/ u \in Units /\ d[u] = v
               \/ \E j \in 1 .. Len(ws) : ws[j].part = p /\ u \in Meets(ws[j])

LEMMA ListTail ==
  ASSUME NEW V, NEW ws \in Seq(V), ws # <<>>
  PROVE  /\ Head(ws) = ws[1] /\ 1 \in 1 .. Len(ws)
         /\ Tail(ws) \in Seq(V) /\ Len(Tail(ws)) \in Nat /\ Len(ws) = Len(Tail(ws)) + 1
         /\ \A j \in 1 .. Len(Tail(ws)) : j + 1 \in 1 .. Len(ws) /\ Tail(ws)[j] = ws[j + 1]
         /\ \A j \in 1 .. Len(ws) : j = 1 \/ (j - 1 \in 1 .. Len(Tail(ws)) /\ ws[j] = Tail(ws)[j - 1])
<1>1. Len(ws) \in Nat \ {0}
  BY LenProperties, EmptySeq
<1>2. /\ Head(ws) = ws[1] /\ Tail(ws) \in Seq(V) /\ Len(Tail(ws)) = Len(ws) - 1
      /\ \A j \in 1 .. Len(Tail(ws)) : Tail(ws)[j] = ws[j + 1]
  BY HeadTailProperties
<1> QED BY <1>1, <1>2

\* A write that went through was inside its partition.
LEMMA WriteFits ==
  ASSUME NEW d, NEW p \in DOMAIN Start, NEW offset \in Nat, NEW data \in Seq(Int),
         NEW faulty \in BOOLEAN, NEW o \in partition_write(d, p, offset, data, faulty), ~o.err
  PROVE  Span(Start[p] + offset, data) \subseteq UnitsOf(p)
<1>1. Fits(p, offset, Len(data))
  BY DEF partition_write, Refused, Outcome
<1>2. Start[p] \in Nat /\ Len(data) \in Nat /\ Size[p] \in Nat
  BY BlockAssumption, LenProperties
<1> QED BY <1>1, <1>2 DEF Fits, Span, UnitsOf

\* The next of the writes, however it ends, leaves v where it is; when no error comes of
\* it, what is left is for the others.
LEMMA WriteGoesOn ==
  ASSUME disk \in [Units -> Int], NEW S, NEW ws \in Seq(WritesIn(S)), ws # <<>>,
         NEW faulty \in BOOLEAN,
         NEW o \in partition_write(disk, Head(ws).part, Head(ws).offset, Head(ws).data, faulty),
         NEW p, NEW T, NEW v, Carries(ws, T, v), Remaining(ws, disk, p, T, v)
  PROVE  /\ \A u \in T \cap Units : disk[u] = v => o.disk[u] = v
         /\ Carries(Tail(ws), T, v)
         /\ ~o.err /\ ~o.dropped => Remaining(Tail(ws), o.disk, p, T, v)
<1> DEFINE w == Head(ws)
           rest == Tail(ws)
           n == Len(rest)
<1>1. /\ w.part \in DOMAIN Start /\ w.offset \in Nat /\ w.data \in Seq(Int)
  BY WritesHead
<1>2. /\ w = ws[1] /\ 1 \in 1 .. Len(ws)
      /\ \A j \in 1 .. n : j + 1 \in 1 .. Len(ws) /\ rest[j] = ws[j + 1]
      /\ \A j \in 1 .. Len(ws) : j = 1 \/ (j - 1 \in 1 .. n /\ ws[j] = rest[j - 1])
  BY ListTail
<1> HIDE DEF w, rest
<1>3. WrittenTo(disk, At(w), w.data, o)
  BY <1>1, PartitionWrite DEF w, At
<1>4. ~o.err => Meets(w) \subseteq Units
  BY <1>1, WriteFits DEF w, At, Meets, Units
<1>5. \A u \in Meets(w) \cap T : w.data[u - At(w) + 1] = v
  BY <1>2 DEF Carries
<1>6. \A u \in T \cap Units : disk[u] = v => o.disk[u] = v
  BY <1>3, <1>5 DEF WrittenTo, Meets
<1>7. Carries(rest, T, v)
  BY <1>2 DEF Carries
<1>8. ASSUME ~o.err, ~o.dropped, NEW u \in T
      PROVE  \/ u \in Units /\ o.disk[u] = v
             \/ \E j \in 1 .. n : rest[j].part = p /\ u \in Meets(rest[j])
  <2>1. CASE u \in Units /\ disk[u] = v
    BY <1>6, <2>1
  <2>2. CASE u \in Meets(w)
    <3>1. u \in Units
      BY <1>4, <1>8, <2>2
    <3>2. o.disk[u] = w.data[u - At(w) + 1]
      BY <1>3, <1>8, <2>2, <3>1 DEF WrittenTo, Meets
    <3> QED BY <1>5, <2>2, <3>1, <3>2
  <2>3. CASE \E j \in 1 .. Len(ws) : j # 1 /\ ws[j].part = p /\ u \in Meets(ws[j])
    BY <1>2, <2>3
  <2> QED BY <1>2, <2>1, <2>2, <2>3 DEF Remaining
<1> QED BY <1>6, <1>7, <1>8 DEF Remaining, rest

-----------------------------------------------------------------------------
(***************************************************************************)
(* The copies of the BCT do not overlap.                                   *)
(***************************************************************************)
LEMMA MulSucc ==
  ASSUME NEW n \in Nat, NEW a \in Nat
  PROVE  (a + 1) * n = a * n + n
  OBVIOUS

LEMMA CopyOffsets ==
  ASSUME NEW size \in Nat, NEW i \in 1 .. Len(BctCopies(size))
  PROVE  \/ BctCopies(size)[i] \in {0, BctSlot}
         \/ \E m \in Nat \ {0} : BctCopies(size)[i] = m * BootBlock
<1> DEFINE blocks == size \div BootBlock
           first == <<0, BctSlot>>
           rest == IF blocks < 2 THEN <<>> ELSE [k \in 1 .. blocks - 1 |-> k * BootBlock]
<1>1. BctSlot \in Nat /\ BootBlock \in Nat \ {0}
  BY BctConstants
<1>2. blocks \in Nat
  BY <1>1, DivFacts
<1>3. BctCopies(size) = first \o rest
  BY DEF BctCopies
<1>4. first \in Seq(Nat) /\ Len(first) = 2 /\ first[1] = 0 /\ first[2] = BctSlot
  BY <1>1
<1> HIDE DEF blocks, first
<1>5. /\ rest \in Seq(Nat) /\ Len(rest) \in Nat
      /\ \A k \in 1 .. Len(rest) : rest[k] = k * BootBlock
  <2>1. CASE blocks < 2
    <3>1. rest = <<>>
      BY <2>1
    <3> HIDE DEF rest
    <3>2. Len(rest) = 0 /\ rest \in Seq(Nat)
      BY <3>1, EmptySeq
    <3> QED BY <3>2
  <2>2. CASE ~(blocks < 2)
    <3>1. blocks - 1 \in Nat
      BY <1>2, <2>2
    <3>2. \A k \in 1 .. blocks - 1 : k * BootBlock \in Nat
      BY <1>1, MulFacts
    <3>3. rest \in [1 .. blocks - 1 -> Nat]
      BY <2>2, <3>2
    <3>4. rest \in Seq(Nat) /\ Len(rest) = blocks - 1
      <4> HIDE DEF rest
      <4> QED BY <3>1, <3>3, FunctionIsSeq
    <3>5. \A k \in 1 .. blocks - 1 : rest[k] = k * BootBlock
      BY <2>2
    <3> HIDE DEF rest
    <3> QED BY <3>1, <3>4, <3>5
  <2> QED BY <2>1, <2>2
<1> HIDE DEF rest
<1>6. /\ Len(first \o rest) = 2 + Len(rest)
      /\ \A k \in 1 .. 2 + Len(rest) :
           (first \o rest)[k] = IF k <= 2 THEN first[k] ELSE rest[k - 2]
  <2>1. /\ Len(first \o rest) = Len(first) + Len(rest)
        /\ \A k \in 1 .. Len(first) + Len(rest) :
             (first \o rest)[k] = IF k <= Len(first) THEN first[k] ELSE rest[k - Len(first)]
    BY <1>4, <1>5, ConcatProperties
  <2> QED BY <1>4, <2>1
<1>7. i \in 1 .. 2 + Len(rest)
  BY <1>3, <1>6
<1>8. CASE i <= 2
  <2>1. i \in {1, 2}
    BY <1>5, <1>7, <1>8
  <2> QED BY <1>3, <1>4, <1>6, <1>7, <2>1
<1>9. CASE ~(i <= 2)
  <2>1. i - 2 \in 1 .. Len(rest) /\ i - 2 \in Nat \ {0}
    BY <1>5, <1>7, <1>9
  <2>2. BctCopies(size)[i] = (i - 2) * BootBlock
    BY <1>3, <1>5, <1>6, <1>7, <1>9, <2>1
  <2> QED BY <2>1, <2>2
<1> QED BY <1>8, <1>9

\* Where a copy begins, no other copy is.
LEMMA CopiesDisjoint ==
  ASSUME NEW size \in Nat, NEW i \in 1 .. Len(BctCopies(size)),
         NEW j \in 1 .. Len(BctCopies(size)),
         BctCopies(size)[i]
           \in BctCopies(size)[j] .. BctCopies(size)[j] + ImageUnits["BCT"] - 1
  PROVE  BctCopies(size)[i] = BctCopies(size)[j]
<1> DEFINE x == BctCopies(size)[i]
           y == BctCopies(size)[j]
           B == BootBlock
           n == ImageUnits["BCT"]
<1>1. /\ n \in Nat \ {0} /\ BctSlot \in Nat /\ B \in Nat \ {0}
      /\ n <= BctSlot /\ 2 * BctSlot <= B
  BY BctConstants, BctAssumption
<1>2. x \in {0, BctSlot} \/ \E m \in Nat \ {0} : x = m * B
  BY CopyOffsets
<1>3. y \in {0, BctSlot} \/ \E m \in Nat \ {0} : y = m * B
  BY CopyOffsets
<1>4. x \in Nat /\ y \in Nat
  <2>1. \A m \in Nat \ {0} : m * B \in Nat
    BY <1>1, MulFacts
  <2> HIDE DEF x, y, B
  <2> QED BY SMTT(30), <1>1, <1>2, <1>3, <2>1
<1>5. x \in y .. y + n - 1
  OBVIOUS
<1> HIDE DEF x, y, B, n
<1>6. y <= x /\ x < y + n
  BY <1>1, <1>4, <1>5
<1>7. ASSUME NEW m \in Nat \ {0} PROVE m * B \in Nat /\ B <= m * B
  <2>1. m * B = (m - 1) * B + B /\ m - 1 \in Nat
    <3>1. m - 1 \in Nat /\ (m - 1) + 1 = m
      OBVIOUS
    <3>2. ((m - 1) + 1) * B = (m - 1) * B + B
      BY <1>1, <3>1, MulSucc
    <3> QED BY <3>1, <3>2
  <2>2. (m - 1) * B \in Nat
    BY <1>1, <2>1, MulFacts
  <2> QED BY <1>1, <2>1, <2>2
<1>8. ASSUME NEW k \in Nat \ {0}, NEW m \in Nat \ {0}, x = k * B, y = m * B
      PROVE  x = y
  <2>1. CASE k > m
    <3>1. (m + 1) * B = m * B + B
      BY <1>1, MulSucc
    <3>2. (m + 1) * B <= k * B
      BY <1>1, <2>1, MulMonotone
    <3> DEFINE s == m * B
               t == k * B
    <3>3. s \in Nat /\ t \in Nat /\ s + B <= t
      BY <1>7, <3>1, <3>2
    <3> HIDE DEF s, t
    <3>4. x = t /\ y = s
      BY <1>8 DEF s, t
    <3> QED BY <1>1, <1>6, <3>3, <3>4
  <2>2. CASE k <= m
    <3>1. x <= y
      BY <1>1, <1>8, <2>2, MulMonotone
    <3> QED BY <1>4, <1>6, <3>1
  <2> QED BY <2>1, <2>2
<1>9. ASSUME x \in {0, BctSlot}, y \in {0, BctSlot}
      PROVE  x = y
  <2>1. x = 0 \/ x = BctSlot
    BY <1>9
  <2>2. y = 0 \/ y = BctSlot
    BY <1>9
  <2>3. CASE x = 0 /\ y = BctSlot
    <3>1. y = 0
      BY <1>4, <1>6, <2>3
    <3> QED BY <2>3, <3>1
  <2>4. CASE x = BctSlot /\ y = 0
    <3>1. x < n
      BY <1>1, <1>4, <1>6, <2>4
    <3>2. FALSE
      BY <1>1, <1>4, <2>4, <3>1
    <3> QED BY <3>2
  <2> QED BY <2>1, <2>2, <2>3, <2>4
<1>10. ASSUME x \in {0, BctSlot}, \E m \in Nat \ {0} : y = m * B
       PROVE  x = y
  <2>1. y >= B
    BY <1>7, <1>10
  <2> QED BY <1>1, <1>4, <1>6, <1>10, <2>1
<1>11. ASSUME \E m \in Nat \ {0} : x = m * B, y \in {0, BctSlot}
       PROVE  x = y
  <2>1. x >= B
    BY <1>7, <1>11
  <2> QED BY <1>1, <1>4, <1>6, <1>11, <2>1
<1>12. ASSUME \E m \in Nat \ {0} : x = m * B, \E m \in Nat \ {0} : y = m * B
       PROVE  x = y
  <2>1. PICK k \in Nat \ {0} : x = k * B
    BY <1>12
  <2>2. PICK m \in Nat \ {0} : y = m * B
    BY <1>12
  <2> QED BY <1>8, <2>1, <2>2
<1>13. x = y
  BY <1>2, <1>3, <1>9, <1>10, <1>11, <1>12
<1> QED BY <1>13 DEF x, y

-----------------------------------------------------------------------------
(***************************************************************************)
(* What the parser of a sparse image has written is what the image stands  *)
(* for.                                                                    *)
(***************************************************************************)
LEMMA BeforeMonotone ==
  ASSUME NEW img, IsSparse(img), NEW j \in DOMAIN img.chunks, NEW k \in DOMAIN img.chunks,
         j < k
  PROVE  Before(img, j + 1) <= Before(img, k)
<1> DEFINE n == Len(img.chunks)
           S == {m \in Nat : m <= n /\ j < m => Before(img, j + 1) <= Before(img, m)}
<1>1. n \in Nat /\ DOMAIN img.chunks = 1 .. n
  BY LenProperties DEF IsSparse
<1>2. \A m \in 1 .. n : /\ Before(img, m) \in Nat /\ img.chunks[m].n \in Nat
                        /\ Before(img, m + 1) = Before(img, m) + img.chunks[m].n
  BY <1>1, BeforeFacts, SparseFacts
<1> HIDE DEF n
<1>3. 0 \in S
  BY <1>1
<1>4. ASSUME NEW m \in Nat, m \in S PROVE m + 1 \in S
  <2> SUFFICES ASSUME m + 1 <= n, j < m + 1
               PROVE  Before(img, j + 1) <= Before(img, m + 1)
    OBVIOUS
  <2>1. CASE j = m
    <3>1. Before(img, j + 1) \in Nat
      BY SMTT(30), <1>1, <1>2
    <3> QED BY <2>1, <3>1
  <2>2. CASE j # m
    <3>1. j < m /\ m \in 1 .. n
      BY <1>1, <2>2
    <3>2. Before(img, j + 1) <= Before(img, m)
      BY <1>1, <1>4, <3>1
    <3>3. Before(img, j + 1) \in Nat
      BY SMTT(30), <1>1, <1>2
    <3> QED BY <1>2, <3>1, <3>2, <3>3
  <2> QED BY <2>1, <2>2
<1> HIDE DEF S
<1>5. Nat \subseteq S
  BY <1>3, <1>4, NatSetInduction
<1>6. k \in S /\ k <= n
  BY <1>1, <1>5
<1> QED BY <1>6 DEF S

LEMMA ChunkBounds ==
  ASSUME NEW img, IsSparse(img), NEW k \in DOMAIN img.chunks, NEW u \in ChunkUnits(img, k)
  PROVE  u \in Nat /\ Before(img, k) <= u /\ u < Before(img, k + 1)
<1> DEFINE c == img.chunks[k]
<1>1. Before(img, k) \in Nat /\ Before(img, k + 1) = Before(img, k) + c.n
  BY BeforeFacts
<1>2. c.n \in Nat /\ Len(c.data) \in Nat
  BY SparseFacts
<1>3. c.type = "raw" => Len(c.data) <= c.n
  <2>1. c.type = "raw" => Len(c.data) = c.n \/ Len(c.data) < c.n
    BY DEF IsSparse
  <2> QED BY <1>2, <2>1
<1> HIDE DEF c
<1>4. u \in IF c.type = "raw" THEN Before(img, k) .. Before(img, k) + Len(c.data) - 1
            ELSE IF c.type = "fill" THEN Before(img, k) .. Before(img, k) + c.n - 1
            ELSE {}
  BY DEF ChunkUnits, c
<1>5. CASE c.type = "raw"
  BY <1>1, <1>2, <1>3, <1>4, <1>5
<1>6. CASE c.type # "raw"
  BY <1>1, <1>2, <1>4, <1>6
<1> QED BY <1>5, <1>6

\* A unit is in one chunk, which begins at or before it and ends behind it.
LEMMA ChunkOfUnit ==
  ASSUME NEW img, IsSparse(img), NEW j \in DOMAIN img.chunks, NEW k \in DOMAIN img.chunks,
         NEW u \in ChunkUnits(img, j), Before(img, k) <= u, u < Before(img, k + 1)
  PROVE  j = k
<1>1. j \in Nat /\ k \in Nat
  BY SparseFacts
<1>2. u \in Nat /\ Before(img, j) <= u /\ u < Before(img, j + 1)
  BY ChunkBounds
<1>3. /\ Before(img, j) \in Nat /\ Before(img, k) \in Nat
      /\ Before(img, j + 1) \in Int /\ Before(img, k + 1) \in Int
  <2>1. img.chunks[j].n \in Nat /\ img.chunks[k].n \in Nat
    BY SparseFacts
  <2>2. Before(img, j + 1) = Before(img, j) + img.chunks[j].n /\ Before(img, j) \in Nat
    BY BeforeFacts
  <2>3. Before(img, k + 1) = Before(img, k) + img.chunks[k].n /\ Before(img, k) \in Nat
    BY BeforeFacts
  <2> QED BY <2>1, <2>2, <2>3
<1>4. CASE j < k
  <2>1. Before(img, j + 1) <= Before(img, k)
    BY <1>4, BeforeMonotone
  <2> QED BY <1>2, <1>3, <2>1
<1>5. CASE k < j
  <2>1. Before(img, k + 1) <= Before(img, j)
    BY <1>5, BeforeMonotone
  <2> QED BY <1>2, <1>3, <2>1
<1> QED BY <1>1, <1>4, <1>5

LEMMA SparseValueAt ==
  ASSUME NEW img, IsSparse(img), NEW k \in DOMAIN img.chunks, NEW u \in ChunkUnits(img, k)
  PROVE  SparseValue(img, u) = IF img.chunks[k].type = "fill" THEN img.chunks[k].data[1]
                               ELSE img.chunks[k].data[u - Before(img, k) + 1]
<1> DEFINE i == CHOOSE j \in DOMAIN img.chunks : u \in ChunkUnits(img, j)
<1>1. i \in DOMAIN img.chunks /\ u \in ChunkUnits(img, i)
  OBVIOUS
<1>2. Before(img, k) <= u /\ u < Before(img, k + 1)
  BY ChunkBounds
<1> HIDE DEF i
<1>3. i = k
  BY <1>1, <1>2, ChunkOfUnit
<1> QED BY <1>3 DEF SparseValue, i

\* From parser at to parser b the units in S come in, and at the end none is left.
Advances(at, b, img, S) ==
  \A u \in SparseUnits(img) :
    /\ u < b.offset => u < at.offset \/ u \in S
    /\ b.chunks = <<>> => u < b.offset

\* The next data are what the image stands for, and the cursor goes on behind them.
LEMMA SparseStepValues ==
  ASSUME NEW img, IsSparse(img), NEW at, SparseAt(at, img), at.chunks # <<>>
  PROVE  LET c == NextChunk(at)
             data == NextData(at)
         IN  /\ c.type = "skip" => Advances(at, After(at, c.n), img, {})
             /\ c.type \in {"raw", "fill"} =>
                  /\ Advances(at, After(at, Len(data)), img, Span(at.offset, data))
                  /\ \A u \in Span(at.offset, data) :
                       data[u - at.offset + 1] = SparseValue(img, u)
             /\ Finished(at, img) => \A u \in SparseUnits(img) : u < at.offset
<1> DEFINE n == Len(img.chunks)
           Chunks == [type : {"raw", "fill", "skip", "crc", "bad"}, n : Nat, data : Seq(Int)]
           c == NextChunk(at)
           data == NextData(at)
<1>0. img.chunks \in Seq(Chunks)
  BY DEF IsSparse
<1> HIDE DEF Chunks
<1>1. n \in Nat /\ DOMAIN img.chunks = 1 .. n
  BY <1>0, LenProperties
<1>2. PICK k \in 1 .. n :
        /\ at.chunks = SubSeq(img.chunks, k, n)
        /\ at.fill \in 0 .. img.chunks[k].n
        /\ at.fill > 0 => img.chunks[k].type = "fill"
        /\ at.offset = Before(img, k) + IF at.fill = 0 THEN 0 ELSE img.chunks[k].n - at.fill
  BY <1>1 DEF SparseAt
<1>3. c = img.chunks[k] /\ Tail(at.chunks) = SubSeq(img.chunks, k + 1, n)
  <2>1. n \in k .. n
    BY <1>1
  <2> QED BY <1>0, <1>2, <2>1, HeadTailOfSubSeq DEF NextChunk
<1>4. Len(at.chunks) = n - k + 1 /\ (Tail(at.chunks) = <<>> => k = n)
  <2>1. Len(at.chunks) = n - k + 1
    BY <1>0, <1>1, <1>2, SubSeqProperties
  <2>2. k # n => Len(SubSeq(img.chunks, k + 1, n)) # 0
    BY <1>0, <1>1, SubSeqProperties
  <2>3. Len(<<>>) = 0
    OBVIOUS
  <2> QED BY <1>3, <2>1, <2>2, <2>3
<1> HIDE DEF c, data, n
<1>5. /\ c.type \in {"raw", "fill", "skip", "crc", "bad"}
      /\ c.n \in Nat /\ c.data \in Seq(Int) /\ Len(c.data) \in Nat
      /\ c.type = "fill" => c.n > 0 /\ Len(c.data) = 1 /\ c.data[1] \in Int
  BY <1>1, <1>3, SparseFacts DEF n
<1>6. Before(img, k) \in Nat /\ Before(img, k + 1) = Before(img, k) + c.n
  BY <1>1, <1>3, BeforeFacts
<1>7. at.fill \in 0 .. c.n /\ (at.fill > 0 => c.type = "fill")
  BY <1>2, <1>3
<1>8. at.offset = Before(img, k) + IF at.fill = 0 THEN 0 ELSE c.n - at.fill
  BY <1>2, <1>3
<1>9. at.offset \in Nat /\ Before(img, k) <= at.offset /\ at.offset <= Before(img, k + 1)
  BY <1>5, <1>6, <1>7, <1>8
\* a unit of the image is before chunk k, in it or behind it
<1>10. ASSUME NEW u \in SparseUnits(img)
       PROVE  /\ u \in Nat
              /\ \/ u < Before(img, k)
                 \/ u \in ChunkUnits(img, k)
                 \/ k # n /\ u >= Before(img, k + 1)
  <2>1. PICK j \in DOMAIN img.chunks : u \in ChunkUnits(img, j)
    BY DEF SparseUnits
  <2>2. u \in Nat /\ Before(img, j) <= u /\ u < Before(img, j + 1)
    BY <2>1, ChunkBounds
  <2>3. /\ Before(img, j) \in Nat /\ Before(img, j + 1) \in Int /\ j \in 1 .. n
        /\ Before(img, k + 1) \in Int
    <3>1. img.chunks[j].n \in Nat
      BY SparseFacts
    <3> QED BY SMTT(30), <1>1, <1>5, <1>6, <3>1, BeforeFacts
  <2>4. CASE j < k
    <3>1. Before(img, j + 1) <= Before(img, k)
      BY <1>1, <2>3, <2>4, BeforeMonotone
    <3> QED BY <1>6, <2>2, <2>3, <3>1
  <2>5. CASE k < j
    <3>1. Before(img, k + 1) <= Before(img, j)
      BY <1>1, <2>3, <2>5, BeforeMonotone
    <3> QED BY <1>1, <2>2, <2>3, <2>5, <3>1
  <2>6. CASE j = k
    BY <2>1, <2>2, <2>6
  <2> QED BY <1>1, <2>3, <2>4, <2>5, <2>6
<1>11. ASSUME NEW u \in ChunkUnits(img, k)
       PROVE  /\ Before(img, k) <= u /\ u < Before(img, k + 1) /\ u \in Nat
              /\ SparseValue(img, u) = IF c.type = "fill" THEN c.data[1]
                                       ELSE c.data[u - Before(img, k) + 1]
              /\ c.type \in {"raw", "fill"}
              /\ c.type = "raw" => u < Before(img, k) + Len(c.data)
  <2>1. c.type \in {"raw", "fill"} /\ (c.type = "raw" => u < Before(img, k) + Len(c.data))
    BY SMTT(30), <1>3, <1>5, <1>6 DEF ChunkUnits
  <2> QED BY <1>1, <1>3, <2>1, ChunkBounds, SparseValueAt
<1>12. ASSUME c.type = "skip" PROVE Advances(at, After(at, c.n), img, {})
  <2> DEFINE b == After(at, c.n)
  <2>1. at.fill = 0 /\ at.offset = Before(img, k)
    BY <1>6, <1>7, <1>8, <1>12
  <2>2. b.chunks = Tail(at.chunks) /\ b.offset = at.offset + c.n
    BY <1>12 DEF After, c
  <2> HIDE DEF b
  <2>3. ASSUME NEW u \in SparseUnits(img)
        PROVE  /\ u < b.offset => u < at.offset
               /\ b.chunks = <<>> => u < b.offset
    <3>1. u < Before(img, k) \/ (k # n /\ u >= Before(img, k + 1))
      <4>1. u \notin ChunkUnits(img, k)
        <5> SUFFICES ASSUME u \in ChunkUnits(img, k) PROVE FALSE
          OBVIOUS
        <5>1. c.type \in {"raw", "fill"}
          BY <1>11
        <5> QED BY <1>12, <5>1
      <4> QED BY <1>10, <4>1
    <3> QED BY <1>4, <1>5, <1>6, <1>10, <2>1, <2>2, <3>1
  <2>4. Advances(at, b, img, {})
    BY <2>3 DEF Advances
  <2> QED BY <2>4 DEF b
<1>13. ASSUME c.type = "raw"
       PROVE  /\ Advances(at, After(at, Len(data)), img, Span(at.offset, data))
              /\ \A u \in Span(at.offset, data) : data[u - at.offset + 1] = SparseValue(img, u)
  <2> DEFINE b == After(at, Len(data))
  <2>1. at.fill = 0 /\ at.offset = Before(img, k)
    BY <1>6, <1>7, <1>8, <1>13
  <2>2. data = c.data
    BY <1>13 DEF data, c, NextData
  <2>3. b.chunks = Tail(at.chunks) /\ b.offset = at.offset + Len(data)
    BY <1>13 DEF After, c
  <2>4. Span(at.offset, data) = ChunkUnits(img, k)
    BY <1>3, <1>13, <2>1, <2>2 DEF Span, ChunkUnits
  <2> HIDE DEF b
  <2>5. ASSUME NEW u \in SparseUnits(img)
        PROVE  /\ u < b.offset => u < at.offset \/ u \in Span(at.offset, data)
               /\ b.chunks = <<>> => u < b.offset
    <3>1. CASE u \in ChunkUnits(img, k)
      BY <1>5, <1>11, <1>13, <2>1, <2>2, <2>3, <2>4, <3>1
    <3>2. CASE u < Before(img, k)
      BY <1>5, <1>6, <1>10, <2>1, <2>2, <2>3, <3>2
    <3>3. CASE k # n /\ u >= Before(img, k + 1)
      <4>1. Len(c.data) <= c.n
        <5>1. c.type = "raw" => Len(c.data) = c.n \/ Len(c.data) < c.n
          BY <1>1, <1>3 DEF IsSparse
        <5> QED BY <1>5, <1>13, <5>1
      <4>2. ~(u < b.offset)
        BY <1>5, <1>6, <1>10, <2>1, <2>2, <2>3, <3>3, <4>1
      <4> QED BY <1>4, <2>3, <3>3, <4>2
    <3> QED BY <1>10, <3>1, <3>2, <3>3
  <2>6. Advances(at, b, img, Span(at.offset, data))
    BY <2>5 DEF Advances
  <2>7. \A u \in Span(at.offset, data) : data[u - at.offset + 1] = SparseValue(img, u)
    BY <1>11, <1>13, <2>1, <2>2, <2>4
  <2> QED BY <2>6, <2>7 DEF b
<1>14. ASSUME c.type = "fill"
       PROVE  /\ Advances(at, After(at, Len(data)), img, Span(at.offset, data))
              /\ \A u \in Span(at.offset, data) : data[u - at.offset + 1] = SparseValue(img, u)
  <2> DEFINE m == IF at.fill > 0 THEN at.fill ELSE c.n
             s == Piece(m)
             b == After(at, Len(data))
  <2>1. m \in 1 .. c.n /\ at.offset = Before(img, k) + (c.n - m)
    BY <1>5, <1>6, <1>7, <1>8, <1>14
  <2>2. data = [i \in 1 .. s |-> c.data[1]]
    BY <1>14 DEF data, NextData, c
  <2> HIDE DEF m
  <2>3. s \in 1 .. m
    BY <2>1, LocalBufferAssumption DEF Piece, Smaller
  <2> HIDE DEF s
  <2>4. Len(data) = s /\ \A i \in 1 .. s : data[i] = c.data[1]
    <3>1. data \in [1 .. s -> Int] /\ \A i \in 1 .. s : data[i] = c.data[1]
      BY <1>5, <1>14, <2>2
    <3>2. s \in Nat
      BY <2>1, <2>3
    <3> QED BY <3>1, <3>2, FunctionIsSeq
  <2>5. Span(at.offset, data) = at.offset .. at.offset + s - 1
    BY <2>4 DEF Span
  <2>6. ChunkUnits(img, k) = Before(img, k) .. Before(img, k) + c.n - 1
    BY <1>3, <1>14 DEF ChunkUnits
  <2>7. /\ b.chunks = IF m - s > 0 THEN at.chunks ELSE Tail(at.chunks)
        /\ b.offset = at.offset + s
    BY <1>14, <2>4 DEF After, c, m
  <2> HIDE DEF b
  <2>8. b.chunks = <<>> => m = s /\ k = n
    <3>1. CASE m - s > 0
      <4>1. b.chunks # <<>>
        BY <2>7, <3>1
      <4> QED BY <4>1
    <3>2. CASE ~(m - s > 0)
      <4>1. m = s
        BY <2>1, <2>3, <3>2
      <4>2. b.chunks = Tail(at.chunks)
        BY <2>7, <3>2
      <4> QED BY <1>4, <4>1, <4>2
    <3> QED BY <3>1, <3>2
  <2>9. b.offset <= Before(img, k + 1) /\ (m = s => b.offset = Before(img, k + 1))
    BY <1>5, <1>6, <2>1, <2>3, <2>7
  <2>10. ASSUME NEW u \in SparseUnits(img)
         PROVE  /\ u < b.offset => u < at.offset \/ u \in Span(at.offset, data)
                /\ b.chunks = <<>> => u < b.offset
    <3>1. u < b.offset => u < at.offset \/ u \in Span(at.offset, data)
      BY <1>9, <1>10, <2>1, <2>3, <2>5, <2>7
    <3>2. ASSUME b.chunks = <<>> PROVE u < b.offset
      <4>1. u < Before(img, k) \/ u < Before(img, k + 1)
        BY <1>10, <1>11, <2>8, <3>2
      <4> QED BY <1>5, <1>6, <1>10, <2>8, <2>9, <3>2, <4>1
    <3> QED BY <3>1, <3>2
  <2>11. Advances(at, b, img, Span(at.offset, data))
    BY <2>10 DEF Advances
  <2>12. ASSUME NEW u \in Span(at.offset, data)
         PROVE  data[u - at.offset + 1] = SparseValue(img, u)
    <3>1. u \in at.offset .. at.offset + s - 1
      BY <2>5
    <3>2. u - at.offset + 1 \in 1 .. s /\ u \in ChunkUnits(img, k)
      <4> DEFINE low == Before(img, k)
                 from == at.offset
                 size == c.n
      <4>1. low \in Nat /\ size \in Nat /\ from \in Nat
        BY <1>5, <1>6, <1>9
      <4>2. from = low + (size - m) /\ m \in 1 .. size /\ s \in 1 .. m
        BY <2>1, <2>3
      <4>3. u \in from .. from + s - 1
        BY <3>1
      <4> HIDE DEF low, from, size
      <4>4. u - from + 1 \in 1 .. s /\ u \in low .. low + size - 1
        BY <4>1, <4>2, <4>3
      <4> QED BY <2>6, <4>4 DEF low, from, size
    <3> QED BY <1>11, <1>14, <2>4, <3>2
  <2> QED BY <2>11, <2>12 DEF b
<1>15. ASSUME Finished(at, img), NEW u \in SparseUnits(img) PROVE u < at.offset
  <2>1. at.fill = 0 /\ k = n /\ c.type = "raw" /\ c.data = <<>>
    BY <1>1, <1>4, <1>15 DEF Finished, c
  <2>2. u \notin ChunkUnits(img, k)
    <3>1. Len(c.data) = 0
      BY <2>1
    <3> QED BY <1>11, <1>6, <2>1, <3>1
  <2> QED BY <1>6, <1>8, <1>10, <2>1, <2>2
<1> QED BY <1>12, <1>13, <1>14, <1>15 DEF c, data

\* The units that the cursor is past hold what the image says, and at the end it is past
\* all of them.
SparseDone(d, at, img) ==
  /\ \A u \in SparseUnits(img) : u < at.offset =>
       Start["data"] + u \in Units /\ d[Start["data"] + u] = SparseValue(img, u)
  /\ at.chunks = <<>> => \A u \in SparseUnits(img) : u < at.offset

LEMMA SparseDoneInit ==
  ASSUME NEW img, IsSparse(img), NEW d
  PROVE  SparseDone(d, SparseStart(img), img)
<1>1. SparseStart(img).offset = 0 /\ SparseStart(img).chunks = img.chunks
  BY DEF SparseStart
<1>2. \A u \in SparseUnits(img) : u \in Nat
  BY ChunkBounds DEF SparseUnits
<1>3. img.chunks = <<>> => SparseUnits(img) = {}
  BY DEF SparseUnits
<1> QED BY <1>1, <1>2, <1>3 DEF SparseDone

LEMMA SparseDoneStep ==
  ASSUME disk \in [Units -> Int], NEW img, IsSparse(img), NEW at, SparseAt(at, img),
         SparseDone(disk, at, img)
  PROVE  /\ Finished(at, img) => \A u \in SparseUnits(img) :
                              disk[Start["data"] + u] = SparseValue(img, u)
         /\ at.chunks # <<>> /\ NextChunk(at).type = "skip" =>
              SparseDone(disk, After(at, NextChunk(at).n), img)
         /\ \A faulty \in BOOLEAN :
              \A o \in partition_write(disk, "data", at.offset, NextData(at), faulty) :
                at.chunks # <<>> /\ NextChunk(at).type \in {"raw", "fill"}
                    /\ ~o.err /\ ~o.dropped =>
                  SparseDone(o.disk, After(at, Len(NextData(at))), img)
<1> DEFINE c == NextChunk(at)
           data == NextData(at)
           first == Start["data"]
<1>1. first \in Nat /\ "data" \in DOMAIN Start
  BY BlockAssumption, LayoutAssumption
<1>2. \A u \in SparseUnits(img) : u \in Nat
  BY ChunkBounds DEF SparseUnits
<1>3. CASE at.chunks = <<>>
  BY <1>3 DEF SparseDone
<1>4. CASE at.chunks # <<>>
  <2>1. Finished(at, img) => \A u \in SparseUnits(img) : u < at.offset
    BY <1>4, SparseStepValues
  <2>2. ASSUME c.type = "skip" PROVE SparseDone(disk, After(at, c.n), img)
    <3> DEFINE b == After(at, c.n)
    <3>1. Advances(at, b, img, {})
      BY <1>4, <2>2, SparseStepValues
    <3> HIDE DEF b
    <3>2. SparseDone(disk, b, img)
      BY <3>1 DEF SparseDone, Advances
    <3> QED BY <3>2 DEF b
  <2>3. ASSUME NEW faulty \in BOOLEAN,
               NEW o \in partition_write(disk, "data", at.offset, data, faulty),
               c.type \in {"raw", "fill"}, ~o.err, ~o.dropped
        PROVE  SparseDone(o.disk, After(at, Len(data)), img)
    <3> DEFINE b == After(at, Len(data))
    <3>1. /\ Advances(at, b, img, Span(at.offset, data))
          /\ \A u \in Span(at.offset, data) : data[u - at.offset + 1] = SparseValue(img, u)
      BY <1>4, <2>3, SparseStepValues
    <3>2. data \in Seq(Int) /\ at.offset \in Nat
      BY <1>4, <2>3, SparseStepFacts
    <3> HIDE DEF b, data
    <3>3. WrittenTo(disk, first + at.offset, data, o)
      BY <1>1, <2>3, <3>2, PartitionWrite
    <3>4. Span(first + at.offset, data) \subseteq Units
      BY <1>1, <2>3, <3>2, WriteFits DEF Units
    <3>5. Len(data) \in Nat
      BY <3>2, LenProperties
    <3>6. ASSUME NEW u \in SparseUnits(img), u < b.offset
          PROVE  first + u \in Units /\ o.disk[first + u] = SparseValue(img, u)
      <4>1. u \in Nat
        BY <1>2
      <4>2. first + u \in Span(first + at.offset, data) <=> u \in Span(at.offset, data)
        BY SMTT(30), <1>1, <3>2, <3>5, <4>1 DEF Span
      <4>3. CASE u \in Span(at.offset, data)
        <5>1. first + u \in Units
          BY <3>4, <4>2, <4>3
        <5>2. o.disk[first + u] = data[(first + u) - (first + at.offset) + 1]
          BY <2>3, <3>3, <4>2, <4>3, <5>1 DEF WrittenTo
        <5>3. (first + u) - (first + at.offset) + 1 = u - at.offset + 1
          BY <1>1, <3>2, <4>1
        <5> QED BY <3>1, <4>3, <5>1, <5>2, <5>3
      <4>4. CASE u \notin Span(at.offset, data)
        <5>1. u < at.offset
          BY <3>1, <3>6, <4>4 DEF Advances
        <5>2. first + u \in Units /\ disk[first + u] = SparseValue(img, u)
          BY <5>1 DEF SparseDone
        <5>3. o.disk[first + u] = disk[first + u]
          BY <3>3, <4>2, <4>4, <5>2 DEF WrittenTo
        <5> QED BY <5>2, <5>3
      <4> QED BY <4>3, <4>4
    <3>7. b.chunks = <<>> => \A u \in SparseUnits(img) : u < b.offset
      BY <3>1 DEF Advances
    <3>8. SparseDone(o.disk, b, img)
      BY <3>6, <3>7 DEF SparseDone
    <3> QED BY <3>8 DEF b
  <2> QED BY <2>1, <2>2, <2>3 DEF SparseDone
<1> QED BY <1>3, <1>4

-----------------------------------------------------------------------------
(***************************************************************************)
(* What the writes of an update amount to.                                 *)
(***************************************************************************)
PartsOf(name) == {SlotParts[name][0], SlotParts[name][1]}

\* Writes of nothing but v, at borders of blocks
Lays(ws, v) ==
  \A j \in 1 .. Len(ws) :
    /\ At(ws[j]) % BlockUnits = 0
    /\ \A i \in 1 .. Len(ws[j].data) : ws[j].data[i] = v

\* Writes to partitions of the names in N
For(ws, N) == \A j \in 1 .. Len(ws) : \E name \in N : ws[j].part \in PartsOf(name)

\* What a name depends on is not written after it.
Ranked(ws) ==
  \A i, j \in 1 .. Len(ws), m, n \in Names :
    i < j /\ ws[i].part \in PartsOf(m) /\ ws[j].part \in PartsOf(n) => n \notin Dependency[m]

\* The writes to p come to each unit of T
Covers(ws, p, T) ==
  \A u \in T : \E j \in 1 .. Len(ws) : ws[j].part = p /\ u \in Meets(ws[j])

LEMMA AlignedSum ==
  ASSUME NEW n \in Nat \ {0}, NEW x \in Nat, NEW y \in Nat, x % n = 0, y % n = 0
  PROVE  (x + y) % n = 0
<1> DEFINE a == x \div n
           b == y \div n
           z == 0
<1>1. a \in Nat /\ b \in Nat /\ x = a * n + 0 /\ y = b * n + 0
  BY DivFacts
<1> HIDE DEF a, b
<1>2. a * n \in Nat /\ b * n \in Nat /\ a * n + b * n + z * n = (a + b + z) * n + 0
  BY <1>1, MulFacts
<1>3. z * n = 0 /\ a + b + z = a + b
  BY <1>1
<1>4. x + y = (a + b) * n + z
  BY <1>1, <1>2, <1>3
<1>5. a + b \in Nat /\ z \in 0 .. n - 1
  BY <1>1
<1> DEFINE c == a + b
<1> HIDE DEF c, z
<1>6. (c * n + z) % n = z
  BY <1>5, ModOfSum DEF c
<1> QED BY <1>4, <1>6 DEF c, z

LEMMA PartsFacts ==
  /\ \A name \in Names : PartsOf(name) \subseteq DOMAIN Start
  /\ \A m, n \in Names : PartsOf(m) \cap PartsOf(n) # {} => m = n
  /\ PartsOf("BCT") = {"BCT"}
  /\ \A name \in Names, slot \in {0, 1}, allSlots \in BOOLEAN :
       Target(name, slot, allSlots) \subseteq PartsOf(name)
<1>1. \A name \in Names, s \in {0, 1} :
        SlotParts[name][s] \in DOMAIN Start /\ (name = "BCT" => SlotParts[name][s] = "BCT")
  BY LayoutAssumption, DependencyFacts
<1>2. \A m, n \in Names, s, t \in {0, 1} : SlotParts[m][s] = SlotParts[n][t] => m = n
  BY LayoutAssumption, DependencyFacts
<1>3. 0 \in {0, 1} /\ 1 \in {0, 1} /\ "BCT" \in Names
  BY DEF Names
<1>4. \A name \in Names : PartsOf(name) \subseteq DOMAIN Start
  BY <1>1, <1>3 DEF PartsOf
<1>5. ASSUME NEW m \in Names, NEW n \in Names, NEW p \in PartsOf(m) \cap PartsOf(n)
      PROVE  m = n
  <2>1. \E s, t \in {0, 1} : p = SlotParts[m][s] /\ p = SlotParts[n][t]
    BY <1>3 DEF PartsOf
  <2> QED BY <1>2, <2>1
<1>6. PartsOf("BCT") = {"BCT"}
  BY <1>1, <1>3 DEF PartsOf
<1>7. \A name \in Names, slot \in {0, 1}, allSlots \in BOOLEAN :
        Target(name, slot, allSlots) \subseteq PartsOf(name)
  BY DEF Target, PartsOf
<1> QED BY <1>4, <1>5, <1>6, <1>7

LEMMA BctWritesLay ==
  ASSUME NEW payload, IsPayload(payload), "BCT" \in NamesOf(payload)
  PROVE  LET ws == BctWrites(WithOdm(ImageData(payload, "BCT"), TRUE), 0)
         IN  /\ Lays(ws, payload.version)
             /\ \A j \in 1 .. Len(ws) : ws[j].part = "BCT"
             /\ Covers(ws, "BCT", ImageUnitsIn("BCT", "BCT"))
<1> DEFINE n == ImageUnits["BCT"]
           v == payload.version
           bct == WithOdm(ImageData(payload, "BCT"), TRUE)
           z == 0
           copies == BctCopies(z)
           ws == BctWrites(bct, z)
           V == {Write("BCT", offset, bct) : offset \in Nat}
<1>1. n \in Nat \ {0} /\ BctSlot \in Nat /\ Start["BCT"] \in Nat /\ BlockUnits \in Nat \ {0}
      /\ Start["BCT"] % BlockUnits = 0 /\ BctSlot % BlockUnits = 0
  BY BctConstants, BlockAssumption, LayoutAssumption
<1>2. v \in Int /\ SetOdm(v, TRUE) = v
  <2>1. v \in 0 .. LockBit - 1
    BY EntryFacts
  <2> QED BY <2>1 DEF SetOdm, LockBit
<1>3. bct \in Seq(Int) /\ Len(bct) = n /\ \A i \in 1 .. n : bct[i] = v
  <2> DEFINE data == ImageData(payload, "BCT")
  <2>0. data = [i \in 1 .. n |-> v]
    BY EntryFacts
  <2>1. data \in [1 .. n -> Int] /\ \A i \in 1 .. n : data[i] = v
    BY <1>2, <2>0
  <2> HIDE DEF data
  <2>2. WithOdm(data, TRUE) \in Seq(Int) /\ Len(WithOdm(data, TRUE)) = n
    BY <1>1, <2>1, WithOdmFacts
  <2>3. \A i \in 1 .. n : WithOdm(data, TRUE)[i] = v
    BY <1>2, <2>1 DEF WithOdm
  <2> QED BY <2>2, <2>3 DEF data
<1> HIDE DEF bct
<1>4. z \in Nat /\ z = 0
  OBVIOUS
<1> HIDE DEF z
<1>5. copies \in Seq(Nat) /\ Len(copies) = 2 /\ copies[1] = 0 /\ copies[2] = BctSlot
  BY <1>4, BctCopiesFacts
<1>6. DOMAIN copies = 1 .. 2
  BY <1>5, LenProperties
<1> HIDE DEF copies
<1>7. ws = [i \in 1 .. 2 |-> Write("BCT", copies[i], bct)]
  BY <1>6 DEF BctWrites, copies
<1>8. ws \in [1 .. 2 -> V]
  BY SMTT(30), <1>1, <1>5, <1>7
<1>9. Len(ws) = 2
  <2> HIDE DEF ws, V
  <2>1. 2 \in Nat
    OBVIOUS
  <2> QED BY <1>8, <2>1, FunctionIsSeq
<1>10. \A j \in 1 .. 2 : ws[j].part = "BCT" /\ ws[j].offset = copies[j] /\ ws[j].data = bct
  BY <1>7 DEF Write
<1> HIDE DEF ws, V
<1>11. ASSUME NEW j \in 1 .. 2
       PROVE  /\ At(ws[j]) = BctStarts[j] /\ At(ws[j]) % BlockUnits = 0
              /\ Meets(ws[j]) = BctStarts[j] .. BctStarts[j] + n - 1
  <2>1. j = 1 \/ j = 2
    OBVIOUS
  <2>2. At(ws[j]) = BctStarts[j]
    BY <1>5, <1>10, <2>1, BctStartsFacts DEF At
  <2>3. BctStarts[j] % BlockUnits = 0
    <3>1. (Start["BCT"] + BctSlot) % BlockUnits = 0
      BY <1>1, AlignedSum
    <3>2. Start["BCT"] + 0 = Start["BCT"]
      BY <1>1
    <3> QED BY <1>1, <2>1, <3>1, <3>2, BctStartsFacts
  <2> QED BY <1>3, <1>10, <2>2, <2>3 DEF Meets, Span
<1>12. Lays(ws, v)
  BY <1>3, <1>9, <1>10, <1>11 DEF Lays
<1>13. Covers(ws, "BCT", ImageUnitsIn("BCT", "BCT"))
  <2>1. ImageUnitsIn("BCT", "BCT")
          = UNION {start .. start + n - 1 : start \in {BctStarts[1], BctStarts[2]}}
    BY DEF ImageUnitsIn
  <2>2. 1 \in 1 .. 2 /\ 2 \in 1 .. 2
    OBVIOUS
  <2> HIDE DEF n
  <2>3. ASSUME NEW u \in ImageUnitsIn("BCT", "BCT")
        PROVE  \E j \in 1 .. 2 : ws[j].part = "BCT" /\ u \in Meets(ws[j])
    <3>1. \E j \in 1 .. 2 : u \in BctStarts[j] .. BctStarts[j] + n - 1
      BY <2>1, <2>2
    <3> QED BY <1>10, <1>11, <3>1
  <2> QED BY <1>9, <2>3 DEF Covers
<1> QED BY <1>4, <1>9, <1>10, <1>12, <1>13 DEF ws, bct

LEMMA OtherWritesLay ==
  ASSUME NEW payload, IsPayload(payload), NEW name \in NamesOf(payload), name # "BCT",
         NEW slot \in {0, 1}, NEW allSlots \in BOOLEAN, NEW open \in BOOLEAN
  PROVE  LET ws == WritesOf(name, slot, payload, allSlots, open)
         IN  /\ Lays(ws, payload.version)
             /\ \A j \in 1 .. Len(ws) : ws[j].part \in PartsOf(name)
             /\ \A p \in Target(name, slot, allSlots) :
                  Covers(ws, p, ImageUnitsIn(p, name))
<1> DEFINE parts == SlotOrder(name, slot, allSlots)
           ws == WritesOf(name, slot, payload, allSlots, open)
           data == ImageData(payload, name)
           n == ImageUnits[name]
           v == payload.version
           T == Target(name, slot, allSlots)
           part == SlotParts[name][slot]
           other == SlotParts[name][1 - slot]
           zeroth == SlotParts[name][0]
           first == SlotParts[name][1]
<1>0. name \in Names
  BY EntryFacts
<1>1. /\ n \in Nat \ {0} /\ {part, other} = {zeroth, first} /\ part \in {zeroth, first}
      /\ PartsOf(name) = {zeroth, first}
  <2>1. name \in DOMAIN Dependency /\ (slot = 0 \/ slot = 1)
    BY <1>0, DependencyFacts
  <2>2. CASE slot = 0
    BY <2>1, <2>2, ImageUnitsAssumption DEF PartsOf
  <2>3. CASE slot = 1
    BY <2>1, <2>3, ImageUnitsAssumption DEF PartsOf
  <2> QED BY <2>1, <2>2, <2>3
<1>2. ws = [i \in DOMAIN parts |-> Write(parts[i], 0, data)]
  BY DEF WritesOf
<1>3. \/ parts = <<part>> /\ T \subseteq {part}
      \/ parts = <<part, other>>
  <2>1. CASE zeroth = first
    <3>1. parts = <<zeroth>> /\ part = zeroth
      BY <1>1, <2>1 DEF SlotOrder
    <3>2. T \subseteq {part}
      BY <1>1, <2>1, <3>1 DEF Target
    <3> QED BY <3>1, <3>2
  <2>2. CASE zeroth # first
    BY <2>2 DEF SlotOrder, AlwaysAb, Target
  <2> QED BY <2>1, <2>2
<1>4. T \subseteq {zeroth, first}
  BY <1>0, PartsFacts, <1>1
<1>5. Len(data) = n /\ \A i \in 1 .. n : data[i] = v
  <2>0. data = [i \in 1 .. n |-> v]
    BY EntryFacts
  <2>1. data \in [1 .. n -> {v}] /\ \A i \in 1 .. n : data[i] = v
    BY <2>0
  <2> HIDE DEF data
  <2> QED BY <1>1, <2>1, FunctionIsSeq
<1> HIDE DEF part, other, zeroth, first, parts, data, T
<1>6. \E m \in Nat : /\ DOMAIN parts = 1 .. m
                     /\ \A i \in 1 .. m : parts[i] \in {zeroth, first}
                     /\ \A p \in T : \E i \in 1 .. m : parts[i] = p
  <2>1. CASE parts = <<part>> /\ T \subseteq {part}
    <3>1. /\ DOMAIN parts = 1 .. 1 /\ 1 \in 1 .. 1 /\ parts[1] = part
          /\ \A i \in 1 .. 1 : i = 1
      BY <2>1
    <3> QED BY <1>1, <2>1, <3>1
  <2>2. CASE parts = <<part, other>>
    <3>1. /\ DOMAIN parts = 1 .. 2 /\ 1 \in 1 .. 2 /\ 2 \in 1 .. 2
          /\ parts[1] = part /\ parts[2] = other
          /\ \A i \in 1 .. 2 : i = 1 \/ i = 2
      BY <2>2
    <3>2. \A p \in T : p = part \/ p = other
      BY <1>1, <1>4
    <3> QED BY <1>1, <3>1, <3>2
  <2> QED BY <1>3, <2>1, <2>2
<1>7. PICK m \in Nat : /\ DOMAIN parts = 1 .. m
                       /\ \A i \in 1 .. m : parts[i] \in {zeroth, first}
                       /\ \A p \in T : \E i \in 1 .. m : parts[i] = p
  BY <1>6
<1>8. Len(ws) = m
  <2> DEFINE V == {ws[i] : i \in 1 .. m}
  <2>1. ws \in [1 .. m -> V]
    BY <1>2, <1>7
  <2> HIDE DEF ws, V
  <2> QED BY <2>1, FunctionIsSeq
<1>9. \A i \in 1 .. m : ws[i].part = parts[i] /\ ws[i].offset = 0 /\ ws[i].data = data
  BY <1>2, <1>7 DEF Write
<1> HIDE DEF ws
<1>10. ASSUME NEW i \in 1 .. m
       PROVE  /\ At(ws[i]) = Start[parts[i]] /\ At(ws[i]) % BlockUnits = 0
              /\ Meets(ws[i]) = Start[parts[i]] .. Start[parts[i]] + n - 1
  <2>1. parts[i] \in DOMAIN Start
    BY <1>0, <1>1, <1>7, PartsFacts
  <2>2. Start[parts[i]] \in Nat /\ Start[parts[i]] % BlockUnits = 0
    BY <2>1, BlockAssumption
  <2> DEFINE s == Start[parts[i]]
  <2> HIDE DEF s
  <2>3. At(ws[i]) = s
    BY <1>9, <2>2 DEF At, s
  <2> QED BY <1>5, <1>9, <2>2, <2>3 DEF Meets, Span, s
<1>11. Lays(ws, v)
  BY <1>5, <1>8, <1>9, <1>10 DEF Lays
<1>12. \A j \in 1 .. Len(ws) : ws[j].part \in PartsOf(name)
  BY <1>1, <1>7, <1>8, <1>9
<1>13. ASSUME NEW p \in T PROVE Covers(ws, p, ImageUnitsIn(p, name))
  <2>1. ImageUnitsIn(p, name) = UNION {start .. start + n - 1 : start \in {Start[p]}}
    BY DEF ImageUnitsIn
  <2>2. PICK i \in 1 .. m : parts[i] = p
    BY <1>7
  <2>3. Meets(ws[i]) = Start[p] .. Start[p] + n - 1 /\ ws[i].part = p
    BY <1>9, <1>10, <2>2
  <2> HIDE DEF n
  <2>4. ImageUnitsIn(p, name) = Start[p] .. Start[p] + n - 1
    BY <2>1
  <2> QED BY <1>8, <2>3, <2>4 DEF Covers
<1> QED BY <1>11, <1>12, <1>13 DEF ws, T

LEMMA WritesConcat ==
  ASSUME NEW V, NEW x \in Seq(V), NEW y \in Seq(V)
  PROVE  /\ \A v : Lays(x, v) /\ Lays(y, v) => Lays(x \o y, v)
         /\ \A p, T : Covers(x, p, T) \/ Covers(y, p, T) => Covers(x \o y, p, T)
         /\ \A N : For(x, N) /\ For(y, N) => For(x \o y, N)
         /\ \A N \in SUBSET Names, name \in Names :
              Ranked(x) /\ For(x, N) /\ For(y, {name})
                  /\ (\A m \in N \cup {name} : name \notin Dependency[m]) =>
                Ranked(x \o y)
<1> DEFINE k == Len(x)
           l == Len(y)
           z == x \o y
<1>1. /\ k \in Nat /\ l \in Nat /\ Len(z) = k + l
      /\ \A i \in 1 .. k + l : z[i] = IF i <= k THEN x[i] ELSE y[i - k]
  BY ConcatProperties, LenProperties
<1> HIDE DEF z
<1>2. /\ \A i \in 1 .. k : i \in 1 .. Len(z) /\ z[i] = x[i]
      /\ \A i \in 1 .. l : i + k \in 1 .. Len(z) /\ z[i + k] = y[i]
      /\ \A i \in 1 .. Len(z) :
           \/ i \in 1 .. k /\ z[i] = x[i]
           \/ i > k /\ i - k \in 1 .. l /\ z[i] = y[i - k]
  <2>1. \A i \in 1 .. l : i + k \in 1 .. k + l /\ ~(i + k <= k) /\ (i + k) - k = i
    BY <1>1
  <2> QED BY <1>1, <2>1
<1> HIDE DEF k, l
<1>3. ASSUME NEW v, Lays(x, v), Lays(y, v) PROVE Lays(z, v)
  <2> SUFFICES ASSUME NEW i \in 1 .. Len(z)
               PROVE  /\ At(z[i]) % BlockUnits = 0
                      /\ \A j \in 1 .. Len(z[i].data) : z[i].data[j] = v
    BY DEF Lays
  <2>1. CASE i \in 1 .. k /\ z[i] = x[i]
    BY <1>3, <2>1 DEF Lays, k
  <2>2. CASE i - k \in 1 .. l /\ z[i] = y[i - k]
    BY <1>3, <2>2 DEF Lays, l
  <2> QED BY <1>2, <2>1, <2>2
<1>4. ASSUME NEW p, NEW T, Covers(x, p, T) \/ Covers(y, p, T) PROVE Covers(z, p, T)
  <2>1. CASE Covers(x, p, T)
    BY <1>2, <2>1 DEF Covers, k
  <2>2. CASE Covers(y, p, T)
    BY <1>2, <2>2 DEF Covers, l
  <2> QED BY <1>4, <2>1, <2>2
<1>5. ASSUME NEW N, For(x, N), For(y, N) PROVE For(z, N)
  BY <1>2, <1>5 DEF For, k, l
<1>6. ASSUME NEW N \in SUBSET Names, NEW name \in Names, Ranked(x), For(x, N),
             For(y, {name}), \A m \in N \cup {name} : name \notin Dependency[m]
      PROVE  Ranked(z)
  <2> SUFFICES ASSUME NEW i \in 1 .. Len(z), NEW j \in 1 .. Len(z), NEW m \in Names,
                      NEW n \in Names, i < j, z[i].part \in PartsOf(m),
                      z[j].part \in PartsOf(n)
               PROVE  n \notin Dependency[m]
    BY DEF Ranked
  <2>1. CASE j \in 1 .. k
    <3>1. i \in 1 .. k
      BY <1>1, <1>2, <2>1
    <3>2. z[i] = x[i] /\ z[j] = x[j]
      BY <1>2, <2>1, <3>1
    <3> QED BY <1>6, <2>1, <3>1, <3>2 DEF Ranked, k
  <2>2. CASE j \notin 1 .. k
    <3>1. j - k \in 1 .. l /\ z[j] = y[j - k]
      BY <1>2, <2>2
    <3>2. z[j].part \in PartsOf(name)
      BY <1>6, <3>1 DEF For, l
    <3>3. n = name
      BY <3>2, PartsFacts
    <3>4. m \in N \cup {name}
      <4>1. CASE i \in 1 .. k
        <5>1. PICK other \in N : z[i].part \in PartsOf(other)
          BY <1>2, <1>6, <4>1 DEF For, k
        <5>2. other \in Names
          OBVIOUS
        <5> QED BY <5>1, <5>2, PartsFacts
      <4>2. CASE i \notin 1 .. k
        <5>1. i - k \in 1 .. l /\ z[i] = y[i - k]
          BY <1>2, <4>2
        <5>2. z[i].part \in PartsOf(name)
          BY <1>6, <5>1 DEF For, l
        <5> QED BY <5>2, PartsFacts
      <4> QED BY <4>1, <4>2
    <3> QED BY <1>6, <3>3, <3>4
  <2> QED BY <2>1, <2>2
<1> QED BY <1>3, <1>4, <1>5, <1>6 DEF z

\* The writes of an update come to all that is to be installed, with the version and the
\* lock bit clear, and what a name depends on comes before it.
LEMMA PlanInstalls ==
  ASSUME NEW payload, IsPayload(payload),
         NEW slot \in {0, 1}, NEW allSlots \in BOOLEAN
  PROVE  LET ws == UpdatePlan(payload, slot, allSlots, TRUE)
         IN  /\ Lays(ws, payload.version) /\ For(ws, Names) /\ Ranked(ws)
             /\ \A name \in NamesOf(payload) : \A p \in Target(name, slot, allSlots) :
                  Covers(ws, p, ImageUnitsIn(p, name))
<1> DEFINE order == UpdateOrder(payload)
           n == Len(order)
           v == payload.version
           S == UNION {UNION {ImageUnitsIn(p, name) : p \in Target(name, slot, allSlots)} :
                         name \in NamesOf(payload)}
           W == Seq(WritesIn(S))
           Of(name) == WritesOf(name, slot, payload, allSlots, TRUE)
           InUpto(i) == {order[k] : k \in 1 .. i}
           Comes(ws, name) ==
             \A p \in Target(name, slot, allSlots) : Covers(ws, p, ImageUnitsIn(p, name))
<1>2. \A name \in NamesOf(payload) :
        \A p \in Target(name, slot, allSlots) : ImageUnitsIn(p, name) \subseteq S
  OBVIOUS
<1> HIDE DEF S
<1>3. PICK plan : PlannedBy(plan, payload, slot, allSlots, TRUE, W)
  BY <1>2, PlanUnfolds
<1>4. /\ n \in Nat /\ \A i \in 1 .. n : order[i] \in Names
      /\ \A i, j \in 1 .. n : order[i] = order[j] => i = j
      /\ \A i \in 1 .. n : \A m \in Dependency[order[i]] : \E j \in 1 .. i - 1 : order[j] = m
      /\ \A m \in NamesOf(payload) : \E i \in 1 .. n : order[i] = m
  BY UpdateOrderFacts, LenProperties, ElementOfSeq
<1>5. /\ UpdatePlan(payload, slot, allSlots, TRUE) = plan[n]
      /\ plan[0] = <<>> /\ \A i \in 0 .. n : plan[i] \in W
      /\ \A i \in 1 .. n :
           plan[i] = IF order[i] \notin NamesOf(payload) THEN plan[i - 1]
                     ELSE plan[i - 1] \o Of(order[i])
  BY <1>3 DEF PlannedBy
<1>6. ASSUME NEW name \in Names, name \in NamesOf(payload)
      PROVE  Of(name) \in W /\ Lays(Of(name), v) /\ For(Of(name), {name}) /\ Comes(Of(name), name)
  <2>1. \A p \in Target(name, slot, allSlots) : ImageUnitsIn(p, name) \subseteq S
    BY <1>2, <1>6
  <2>2. Of(name) \in W
    BY <1>6, <2>1, WritesOfFacts
  <2>3. CASE name = "BCT"
    <3> DEFINE ws == BctWrites(WithOdm(ImageData(payload, "BCT"), TRUE), 0)
    <3>1. Of(name) = ws
      BY <2>3 DEF WritesOf
    <3>2. /\ Lays(ws, v) /\ \A j \in 1 .. Len(ws) : ws[j].part = "BCT"
          /\ Covers(ws, "BCT", ImageUnitsIn("BCT", "BCT"))
      BY <1>6, <2>3, BctWritesLay
    <3>3. PartsOf("BCT") = {"BCT"} /\ Target(name, slot, allSlots) \subseteq {"BCT"}
      BY <2>3, PartsFacts
    <3> HIDE DEF ws
    <3>4. For(ws, {name})
      BY <2>3, <3>2, <3>3 DEF For
    <3>5. Comes(ws, name)
      BY <2>3, <3>2, <3>3
    <3> QED BY <2>2, <3>1, <3>2, <3>4, <3>5
  <2>4. CASE name # "BCT"
    <3> DEFINE ws == Of(name)
    <3>1. /\ Lays(ws, v) /\ \A j \in 1 .. Len(ws) : ws[j].part \in PartsOf(name)
          /\ Comes(ws, name)
      BY <1>6, <2>4, OtherWritesLay
    <3>2. For(ws, {name})
      BY <3>1 DEF For
    <3> QED BY <2>2, <3>1, <3>2
  <2> QED BY <2>3, <2>4
<1> HIDE DEF order, n, v, Of, W, Comes, InUpto
<1> DEFINE Good(i) == /\ Lays(plan[i], v) /\ For(plan[i], InUpto(i)) /\ Ranked(plan[i])
                      /\ \A k \in 1 .. i :
                           order[k] \in NamesOf(payload) => Comes(plan[i], order[k])
           T == {i \in Nat : i <= n => Good(i)}
<1>7. 0 \in T
  <2>1. Len(<<>>) = 0
    OBVIOUS
  <2>2. Lays(<<>>, v) /\ For(<<>>, InUpto(0)) /\ Ranked(<<>>)
    BY <2>1 DEF Lays, For, Ranked
  <2> QED BY <1>5, <2>2
<1>8. ASSUME NEW i \in Nat, i \in T PROVE i + 1 \in T
  <2> SUFFICES ASSUME i + 1 <= n PROVE Good(i + 1)
    OBVIOUS
  <2> DEFINE k == i + 1
  <2>1. k \in 1 .. n /\ k - 1 = i /\ i \in 0 .. n /\ 1 .. i \subseteq 1 .. k /\ k \in 1 .. k
        /\ k \notin 1 .. i /\ 1 .. i \subseteq 1 .. n /\ \A j \in 1 .. k : j \in 1 .. i \/ j = k
    BY <1>4
  <2>2. Good(i)
    BY <1>8, <2>1
  <2>3. \A j \in 1 .. i : \A l \in 1 .. j - 1 : l \in 1 .. i /\ l # k
    OBVIOUS
  <2> HIDE DEF k, T
  <2>4. plan[k] = IF order[k] \notin NamesOf(payload) THEN plan[i] ELSE plan[i] \o Of(order[k])
    BY <1>5, <2>1
  <2>5. plan[i] \in W /\ order[k] \in Names
    BY <1>4, <1>5, <2>1
  <2>6. InUpto(k) = InUpto(i) \cup {order[k]} /\ InUpto(i) \subseteq Names
    BY <1>4, <2>1 DEF InUpto
  <2>7. \A ws, M, N : For(ws, M) /\ M \subseteq N => For(ws, N)
    BY DEF For
  <2>8. CASE order[k] \notin NamesOf(payload)
    <3>1. plan[k] = plan[i]
      BY <2>4, <2>8
    <3>2. For(plan[k], InUpto(k))
      BY <2>2, <2>6, <2>7, <3>1
    <3>3. \A j \in 1 .. k : order[j] \in NamesOf(payload) => Comes(plan[k], order[j])
      BY <2>1, <2>2, <2>8, <3>1
    <3> QED BY <2>2, <3>1, <3>2, <3>3 DEF k
  <2>9. CASE order[k] \in NamesOf(payload)
    <3> DEFINE old == plan[i]
               new == Of(order[k])
               z == old \o new
               name == order[k]
    <3>1. new \in W /\ Lays(new, v) /\ For(new, {name}) /\ Comes(new, name)
      BY <1>6, <2>5, <2>9
    <3>2. ASSUME NEW m \in InUpto(i) \cup {name} PROVE name \notin Dependency[m]
      <4>1. CASE m = name
        BY <2>5, <4>1, DependencyFacts DEF Names
      <4>2. CASE m \in InUpto(i)
        <5>1. PICK j \in 1 .. i : m = order[j]
          BY <4>2 DEF InUpto
        <5> SUFFICES ASSUME name \in Dependency[m] PROVE FALSE
          OBVIOUS
        <5>2. PICK l \in 1 .. j - 1 : order[l] = name
          BY <1>4, <2>1, <5>1
        <5> QED BY <1>4, <2>1, <2>3, <5>2
      <4> QED BY <4>1, <4>2
    <3>3. z = plan[k]
      BY <2>4, <2>9
    <3>4. old \in W /\ Lays(old, v) /\ For(old, InUpto(i)) /\ Ranked(old)
      BY <2>2, <2>5
    <3>5. name \in Names
      BY <2>5
    <3> HIDE DEF old, new, name
    <3>6. Lays(z, v)
      BY <3>1, <3>4, WritesConcat DEF W
    <3>7. For(z, InUpto(k))
      <4>1. For(old, InUpto(k)) /\ For(new, InUpto(k))
        BY <2>6, <2>7, <3>1, <3>4 DEF name
      <4> QED BY <3>1, <3>4, <4>1, WritesConcat DEF W
    <3>8. Ranked(z)
      BY <2>6, <3>1, <3>2, <3>4, <3>5, WritesConcat DEF W
    <3>9. \A p, U : Covers(old, p, U) \/ Covers(new, p, U) => Covers(z, p, U)
      BY <3>1, <3>4, WritesConcat DEF W
    <3>10. ASSUME NEW j \in 1 .. k, order[j] \in NamesOf(payload) PROVE Comes(z, order[j])
      <4>1. CASE j \in 1 .. i
        <5>1. Comes(old, order[j])
          BY <2>2, <3>10, <4>1 DEF old
        <5> QED BY <3>9, <5>1 DEF Comes
      <4>2. CASE j = k
        <5>1. Comes(new, order[j])
          BY <3>1, <4>2 DEF name
        <5> QED BY <3>9, <5>1 DEF Comes
      <4> QED BY <2>1, <4>1, <4>2
    <3> HIDE DEF z
    <3> QED BY <3>3, <3>6, <3>7, <3>8, <3>10 DEF k
  <2> QED BY <2>8, <2>9
<1>9. Good(n)
  <2> HIDE DEF T, Good
  <2>1. Nat \subseteq T
    BY <1>7, <1>8, NatSetInduction
  <2> QED BY <1>4, <2>1 DEF T
<1>10. For(plan[n], Names)
  BY <1>4, <1>9 DEF For, InUpto
<1>11. \A name \in NamesOf(payload) : Comes(plan[n], name)
  BY <1>4, <1>9
<1> QED BY <1>5, <1>9, <1>10, <1>11 DEF Comes, v

-----------------------------------------------------------------------------
(***************************************************************************)
(* The inductive invariant of an update: what its writes have left to do,  *)
(* and that a name has nothing of its image before what it needs is there. *)
(***************************************************************************)
\* the image of a name is in full where it goes
There(name) ==
  \A p \in Target(name, SlotOf(cmd.arg), cmd.all) :
    \A u \in ImageUnitsIn(p, name) : u \in Units /\ disk[u] = cmd.img.version

\* what the writes have left to do
PlanLeft ==
  /\ Lays(job.writes, cmd.img.version)
  /\ For(job.writes, Names)
  /\ Ranked(job.writes)
  /\ \A name \in NamesOf(cmd.img) :
       \A p \in Target(name, SlotOf(cmd.arg), cmd.all) :
         Remaining(job.writes, disk, p, ImageUnitsIn(p, name), cmd.img.version)

NeedsThere ==
  \A name \in NamesOf(cmd.img) : \A needs \in Dependency[name] \cap NamesOf(cmd.img) :
    Begun(name) => There(needs)

\* without the platform spec every entry was passed over
UpdateInv ==
  Updates =>
    /\ fb = "work" => PlanLeft \/ (dropped /\ job.writes = <<>>)
    /\ NeedsThere

\* A step that changes neither the disk nor what is left to do
LEMMA UpdateSteady ==
  ASSUME UpdateInv, UNCHANGED <<disk, cmd, was>>,
         fb' = "work" => fb = "work" /\ job' = job /\ dropped' = dropped
  PROVE  UpdateInv'
<1>1. Updates' <=> Updates
  BY DEF Updates
<1>2. NeedsThere => NeedsThere'
  <2>1. \A name : Begun(name)' <=> Begun(name)
    BY DEF Begun
  <2>2. \A name : There(name)' <=> There(name)
    BY DEF There
  <2> QED BY <2>1, <2>2 DEF NeedsThere
<1>3. PlanLeft /\ job' = job => PlanLeft'
  BY DEF PlanLeft
<1> QED BY <1>1, <1>2, <1>3 DEF UpdateInv

\* A step of another command
LEMMA NoUpdate ==
  ASSUME cmd' = cmd, ~Updates
  PROVE  UpdateInv'
  BY DEF UpdateInv, Updates

LEMMA ReceiveOrders ==
  ASSUME Receive
  PROVE  UpdateInv'
<1>1. was' = disk /\ disk' = disk /\ fb' \in {"recv", "lock"}
  BY DEF Receive
<1>2. \A name : ~Begun(name)'
  BY <1>1 DEF Begun
<1> QED BY <1>1, <1>2 DEF UpdateInv, NeedsThere

LEMMA CoversLeave ==
  ASSUME NEW ws, NEW d, NEW p, NEW T, NEW v, Covers(ws, p, T)
  PROVE  Remaining(ws, d, p, T, v)
  BY DEF Covers, Remaining

\* A payload is begun with its whole plan left.
LEMMA FlashOrders ==
  ASSUME Inv, UpdateInv, Flash
  PROVE  UpdateInv'
<1>1. /\ fb = "start" /\ cmd.op = "flash" /\ UNCHANGED <<disk, was>>
      /\ fb' \in {"unlock", "work"} /\ cmd.img = buf /\ was = disk
  BY DEF Flash, FlashPartition, FlashBootloader, Handling, Done, Work, Inv, CmdOK
<1>2. NeedsThere'
  <2>1. \A name : ~Begun(name)'
    BY <1>1 DEF Begun
  <2> QED BY <2>1 DEF NeedsThere
<1>3. CASE fb' = "unlock"
  BY <1>2, <1>3 DEF UpdateInv
<1>4. CASE fb' = "work" /\ cmd.arg = "data"
  <2>1. cmd' = cmd
    BY <1>4 DEF Flash, FlashPartition, Done, AtFlash
  <2> QED BY <1>4, <2>1, NoUpdate DEF Updates
<1>5. CASE fb' = "work" /\ cmd.arg # "data"
  <2> DEFINE slot == SlotOf(cmd.arg)
             allSlots == bup'.required
  <2>1. /\ buf # None /\ buf.kind = "payload" /\ unlocked /\ FlashBootloader
    BY <1>5 DEF Flash, FlashBootloader, Done
  <2>2. /\ SameCmd /\ cmd'.all = allSlots /\ allSlots \in BOOLEAN
        /\ \E writes :
             /\ job' = [kind |-> "update", writes |-> writes]
             /\ \/ writes = UpdatePlan(buf, slot, allSlots, unlocked)
                \/ dropped' /\ writes = <<>>
    BY <1>1, <1>5, <2>1, PayloadBegins DEF Inv, BupChecks
  <2>3. IsPayload(buf)
    BY <2>1, ImageFacts DEF Inv, CmdOK
  <2>4. slot \in {0, 1} /\ unlocked = TRUE
    BY <2>1 DEF SlotOf, Inv, TypeOK
  <2>5. cmd'.img = buf /\ SlotOf(cmd'.arg) = slot /\ disk' = disk
    BY <1>1, <2>2 DEF SameCmd
  <2> HIDE DEF slot, allSlots
  <2>6. PICK writes :
          /\ job' = [kind |-> "update", writes |-> writes]
          /\ \/ writes = UpdatePlan(buf, slot, allSlots, TRUE)
             \/ dropped' /\ writes = <<>>
    BY <2>2, <2>4
  <2>7. job'.writes = writes
    BY <2>6
  <2>8. CASE writes = UpdatePlan(buf, slot, allSlots, TRUE)
    <3>1. /\ Lays(writes, buf.version) /\ For(writes, Names) /\ Ranked(writes)
          /\ \A name \in NamesOf(buf) : \A p \in Target(name, slot, allSlots) :
               Covers(writes, p, ImageUnitsIn(p, name))
      BY <2>2, <2>3, <2>4, <2>8, PlanInstalls
    <3>2. \A name \in NamesOf(buf) : \A p \in Target(name, slot, allSlots) :
            Remaining(writes, disk, p, ImageUnitsIn(p, name), buf.version)
      BY <3>1, CoversLeave
    <3>3. PlanLeft'
      BY <2>2, <2>5, <2>7, <3>1, <3>2 DEF PlanLeft
    <3> QED BY <1>2, <3>3 DEF UpdateInv
  <2>9. CASE dropped' /\ writes = <<>>
    BY <1>2, <2>7, <2>9 DEF UpdateInv
  <2> QED BY <2>6, <2>8, <2>9
<1> QED BY <1>1, <1>3, <1>4, <1>5

LEMMA LaysCarries ==
  ASSUME NEW S, NEW ws \in Seq(WritesIn(S)), NEW v, Lays(ws, v), NEW T
  PROVE  Carries(ws, T, v)
<1> SUFFICES ASSUME NEW j \in 1 .. Len(ws), NEW u \in Meets(ws[j]) \cap T
             PROVE  ws[j].data[u - At(ws[j]) + 1] = v
  BY DEF Carries
<1>1. ws[j] \in WritesIn(S)
  BY ElementOfSeq
<1> DEFINE a == At(ws[j])
           n == Len(ws[j].data)
<1>2. a \in Nat /\ n \in Nat
  <2>1. /\ ws[j].part \in DOMAIN Start /\ ws[j].offset \in Nat /\ ws[j].data \in Seq(Int)
    BY <1>1 DEF WritesIn
  <2>2. Start[ws[j].part] \in Nat
    BY <2>1, BlockAssumption
  <2> QED BY <2>1, <2>2, LenProperties DEF At
<1>3. u \in a .. a + n - 1
  BY DEF Meets, Span
<1> HIDE DEF a, n
<1>4. u - a + 1 \in 1 .. n
  BY <1>2, <1>3
<1> QED BY <1>4 DEF Lays, a, n

\* Once a name is written, nothing is left for what it needs.
LEMMA NeedsWritten ==
  ASSUME NEW S, NEW ws \in Seq(WritesIn(S)), ws # <<>>, Ranked(ws), NEW name \in Names,
         Head(ws).part \in PartsOf(name), NEW needs \in Dependency[name],
         NEW j \in 1 .. Len(ws)
  PROVE  ws[j].part \notin PartsOf(needs)
<1>1. Head(ws) = ws[1] /\ 1 \in 1 .. Len(ws)
  BY ListTail
<1>2. needs \in Names /\ needs # name
  BY DependencyFacts DEF Names
<1>3. CASE j = 1
  <2>1. PartsOf(name) \cap PartsOf(needs) = {}
    BY <1>2, PartsFacts
  <2> QED BY <1>1, <1>3, <2>1
<1>4. CASE j # 1
  <2>1. 1 < j
    BY <1>4, LenProperties
  <2> QED BY <1>1, <1>2, <2>1 DEF Ranked
<1> QED BY <1>3, <1>4

\* A write to a partition of one name leaves those of another alone.
LEMMA OtherName ==
  ASSUME disk \in [Units -> Int], NEW S, NEW w \in WritesIn(S), NEW faulty \in BOOLEAN,
         NEW o \in partition_write(disk, w.part, w.offset, w.data, faulty),
         NEW m \in Names, w.part \in PartsOf(m),
         NEW name \in Names, m # name, NEW p \in PartsOf(name), NEW u \in UnitsOf(p)
  PROVE  o.disk[u] = disk[u]
<1>1. /\ w.part \in DOMAIN Start /\ w.offset \in Nat /\ w.data \in Seq(Int)
      /\ p \in DOMAIN Start
  BY PartsFacts DEF WritesIn
<1>2. /\ WrittenTo(disk, At(w), w.data, o)
      /\ o.disk # disk => Span(At(w), w.data) \subseteq UnitsOf(w.part)
  BY <1>1, PartitionWrite DEF At
<1>3. p # w.part
  BY PartsFacts
<1>4. u \notin UnitsOf(w.part) /\ u \in Units
  BY <1>1, <1>3, PartitionAssumption DEF Units
<1> QED BY <1>2, <1>4 DEF WrittenTo

LEMMA UpdateOrders ==
  ASSUME Inv, UpdateInv, UpdateStep
  PROVE  UpdateInv'
<1> DEFINE ws == job.writes
           w == Head(ws)
           v == cmd.img.version
           slot == SlotOf(cmd.arg)
<1>1. fb = "work" /\ job.kind = "update" /\ UNCHANGED <<cmd, was>>
  BY DEF UpdateStep, Working, AtWork
<1>2. CASE ws = <<>>
  <2>1. disk' = disk /\ fb' = "unlock"
    BY <1>2 DEF UpdateStep, Done
  <2> QED BY <1>1, <2>1, UpdateSteady
<1>3. CASE ws # <<>>
  <2>1. PICK o \in partition_write(disk, w.part, w.offset, w.data, Faulty) :
          /\ disk' = o.disk
          /\ \/ fb' = "unlock"
             \/ ~o.err /\ job' = [job EXCEPT !.writes = Tail(ws)] /\ fb' = fb
    BY <1>3 DEF UpdateStep, Takes, Done
  <2> SUFFICES ASSUME Updates'
               PROVE  (fb' = "work" => PlanLeft') /\ NeedsThere'
    BY DEF UpdateInv
  <2>2. /\ Updates /\ PlanLeft /\ NeedsThere /\ disk \in [Units -> Int]
        /\ ws \in Seq(WritesIn(Covered)) /\ job = [kind |-> "update", writes |-> ws]
    BY <1>1, <1>3 DEF UpdateInv, Updates, Inv, JobOK, CmdOK
  <2>3. NamesOf(cmd.img) \subseteq Names
    <3>1. cmd.img \in Images \cup {None} /\ cmd.img # None /\ cmd.img.kind = "payload"
      BY <2>2 DEF Inv, CmdOK, Updates, None
    <3> QED BY <3>1, ImageFacts, EntryFacts
  <2>4. slot \in {0, 1}
    BY DEF SlotOf
  <2>5. /\ Lays(ws, v) /\ For(ws, Names) /\ Ranked(ws)
        /\ \A name \in NamesOf(cmd.img) : \A p \in Target(name, slot, cmd.all) :
             Remaining(ws, disk, p, ImageUnitsIn(p, name), v)
    BY <2>2 DEF PlanLeft
  <2> HIDE DEF ws, v, slot
  <2>6. /\ w = ws[1] /\ 1 \in 1 .. Len(ws) /\ w \in WritesIn(Covered)
        /\ Tail(ws) \in Seq(WritesIn(Covered))
        /\ \A j \in 1 .. Len(Tail(ws)) : j + 1 \in 1 .. Len(ws) /\ Tail(ws)[j] = ws[j + 1]
    BY <1>3, <2>2, ListTail, ElementOfSeq
  <2>7. ~o.dropped
    <3>1. (Start[w.part] + w.offset) % BlockUnits = 0
      BY <2>5, <2>6 DEF Lays, At
    <3> QED BY <2>1, <3>1, FaultyType, NothingDropped
  <2>8. ASSUME NEW name \in NamesOf(cmd.img), NEW p \in Target(name, slot, cmd.all)
        PROVE  /\ \A u \in ImageUnitsIn(p, name) \cap Units : disk[u] = v => o.disk[u] = v
               /\ ~o.err => Remaining(Tail(ws), o.disk, p, ImageUnitsIn(p, name), v)
    <3> DEFINE T == ImageUnitsIn(p, name)
    <3>1. Remaining(ws, disk, p, T, v) /\ Carries(ws, T, v)
      BY <2>2, <2>5, LaysCarries
    <3> HIDE DEF T
    <3>2. /\ \A u \in T \cap Units : disk[u] = v => o.disk[u] = v
          /\ ~o.err /\ ~o.dropped => Remaining(Tail(ws), o.disk, p, T, v)
      BY <1>3, <2>1, <2>2, <3>1, FaultyType, WriteGoesOn
    <3> QED BY <2>7, <3>2 DEF T
  <2>9. NeedsThere'
    <3> SUFFICES ASSUME NEW name \in NamesOf(cmd.img),
                        NEW needs \in Dependency[name] \cap NamesOf(cmd.img), Begun(name)'
                 PROVE  There(needs)'
      BY <1>1 DEF NeedsThere
    <3>1. There(needs) => There(needs)'
      BY <1>1, <2>1, <2>8 DEF There, v, slot
    <3>2. name \in Names /\ needs \in Names
      BY <2>3
    <3>3. PICK m \in Names : w.part \in PartsOf(m)
      BY <2>5, <2>6 DEF For
    <3>4. CASE m = name
      <4>1. \A j \in 1 .. Len(ws) : ws[j].part \notin PartsOf(needs)
        BY <1>3, <2>2, <2>5, <3>2, <3>3, <3>4, NeedsWritten
      <4>2. Target(needs, slot, cmd.all) \subseteq PartsOf(needs)
        BY <2>4 DEF Target, PartsOf
      <4>3. \A p \in Target(needs, slot, cmd.all) : \A u \in ImageUnitsIn(p, needs) :
              u \in Units /\ disk[u] = v
        BY <2>5, <4>1, <4>2 DEF Remaining
      <4> QED BY <3>1, <4>3 DEF There, v, slot
    <3>5. CASE m # name
      <4>1. \A p \in PartsOf(name), u \in Int : u \in UnitsOf(p) => disk'[u] = disk[u]
        BY <2>1, <2>2, <2>6, <3>2, <3>3, <3>5, FaultyType, OtherName
      <4>2. \A p \in PartsOf(name) : UnitsOf(p) \subseteq Int
        BY <3>2, PartsFacts, BlockAssumption DEF UnitsOf
      <4>3. Begun(name)
        BY <1>1, <4>1, <4>2 DEF Begun, PartsOf
      <4> QED BY <2>2, <3>1, <4>3 DEF NeedsThere
    <3> QED BY <3>4, <3>5
  <2>10. ASSUME fb' = "work" PROVE PlanLeft'
    <3>1. ~o.err /\ job' = [job EXCEPT !.writes = Tail(ws)]
      BY <2>1, <2>10
    <3>2. job'.writes = Tail(ws)
      BY <2>2, <3>1
    <3>3. Lays(Tail(ws), v) /\ For(Tail(ws), Names)
      BY <2>5, <2>6 DEF Lays, For
    <3>4. Ranked(Tail(ws))
      <4> SUFFICES ASSUME NEW i \in 1 .. Len(Tail(ws)), NEW j \in 1 .. Len(Tail(ws)),
                          NEW a \in Names, NEW b \in Names, i < j,
                          Tail(ws)[i].part \in PartsOf(a), Tail(ws)[j].part \in PartsOf(b)
                   PROVE  b \notin Dependency[a]
        BY DEF Ranked
      <4>1. i + 1 < j + 1
        BY LenProperties
      <4> QED BY <2>5, <2>6, <4>1 DEF Ranked
    <3>5. cmd'.img = cmd.img /\ cmd'.arg = cmd.arg /\ disk' = o.disk
      BY <1>1, <2>1
    <3>6. cmd'.all = cmd.all
      BY <1>1
    <3> QED BY <2>8, <3>1, <3>2, <3>3, <3>4, <3>5, <3>6 DEF PlanLeft, v, slot
  <2> QED BY <2>9, <2>10
<1> QED BY <1>2, <1>3

-----------------------------------------------------------------------------
(***************************************************************************)
(* The inductive invariant of an answer: what a handler has done so far.   *)
(***************************************************************************)
\* what the host may take OKAY for
Fulfilled ==
  /\ FlashesData =>
       \A u \in DataUnits(cmd.img) : disk[Start["data"] + u] = DataValue(cmd.img, u)
  /\ cmd.op = "erase" => Wiped
  /\ (cmd.op = "flashing" /\ unlocked # cmd.open) =>
       Wiped /\ \A u \in OdmUnits : disk[u] = SetOdm(disk[BctStarts[1]], unlocked)
  /\ Updates =>
       \A name \in NamesOf(cmd.img) :
         Installed(name, SlotOf(cmd.arg), cmd.img.ratchet /\ ~cmd.stale)

\* each copy of the BCT has the new ODM data, or is still to get them
OdmLeft ==
  \E v \in Int :
    /\ SetOdm(v, unlocked) = v
    /\ Carries(job.writes, OdmUnits, v)
    /\ Remaining(job.writes, disk, "BCT", OdmUnits, v)

DoneInv ==
  /\ fb \in Early \cup {"work", "off"} => answer # "OKAY"
  /\ fb \in Early => cmd.open = unlocked
  /\ fb = "work" /\ ~dropped =>
       /\ job.kind = "sparse" => SparseDone(disk, job.at, cmd.img)
       /\ job.kind = "bct" => OdmLeft
       /\ job.kind = "update" /\ cmd.img.ratchet /\ ~cmd.stale => cmd.all
  /\ answer = "OKAY" /\ ~dropped => Fulfilled

LEMMA DoneIsOkay == DoneInv => OkayMeansDone
  BY DEF DoneInv, OkayMeansDone, Fulfilled

\* A handler answers, and is done.
LEMMA Answered ==
  ASSUME fb' \in {"unlock", "panic", "spin", "recv", "exit"},
         answer' = "OKAY" /\ ~dropped' => Fulfilled'
  PROVE  DoneInv'
  BY DEF DoneInv, Early

\* A step that leaves what was done alone
LEMMA DoneSteady ==
  ASSUME DoneInv, UNCHANGED <<disk, cmd, unlocked, dropped>>,
         answer' = "OKAY" => answer = "OKAY",
         fb' \in Early => fb \in Early,
         fb' = "off" => fb = "off" \/ answer' # "OKAY",
         fb' = "work" => fb = "work" /\ job' = job
  PROVE  DoneInv'
<1>1. Fulfilled' <=> Fulfilled
  BY DEF Fulfilled, FlashesData, Updates, Installed, Wiped
<1>2. job' = job => (OdmLeft' <=> OdmLeft)
  BY DEF OdmLeft
<1> QED BY <1>1, <1>2 DEF DoneInv

\* Commands that are for nothing on the disk
LEMMA NothingAsked ==
  ASSUME cmd'.op \notin {"flash", "erase", "flashing"}
  PROVE  Fulfilled'
  BY DEF Fulfilled, FlashesData, Updates

LEMMA ReceiveDone ==
  ASSUME Receive
  PROVE  DoneInv'
<1>1. PICK c \in Commands :
        /\ cmd' = [op |-> c.op, arg |-> c.arg, img |-> buf, open |-> unlocked,
                   stale |-> bup.checked, all |-> FALSE]
        /\ fb' \in {"recv", "lock"} /\ answer' # "OKAY" /\ unlocked' = unlocked
  BY DEF Receive
<1> QED BY <1>1 DEF DoneInv, Early

LEMMA FlashDone ==
  ASSUME Inv, DoneInv, Flash
  PROVE  DoneInv'
<1>1. /\ fb = "start" /\ cmd.op = "flash" /\ UNCHANGED <<disk, unlocked>>
      /\ cmd.img = buf /\ answer # "OKAY"
  BY DEF Flash, Handling, Inv, CmdOK, DoneInv, Early
<1>2. CASE ~unlocked \/ buf = None
  <2>1. fb' = "unlock" /\ answer' # "OKAY"
    BY <1>1, <1>2 DEF Flash, Done, Ack
  <2> QED BY <2>1, Answered
<1>3. CASE unlocked /\ buf # None /\ cmd.arg = "data"
  <2>1. FlashPartition
    BY <1>3 DEF Flash
  <2>2. CASE buf.kind = "sparse" /\ ~HeaderFits("data", buf)
    <3>1. fb' = "unlock" /\ answer' # "OKAY"
      BY <1>1, <2>1, <2>2 DEF FlashPartition, Done, Ack
    <3> QED BY <3>1, Answered
  <2>3. CASE buf.kind = "sparse" /\ HeaderFits("data", buf)
    <3>1. /\ fb' = "work" /\ job' = [kind |-> "sparse", img |-> buf, at |-> SparseStart(buf)]
          /\ answer' = answer
      BY <2>1, <2>3 DEF FlashPartition, Work
    <3>2. IsSparse(buf)
      BY <1>3, <2>3, ImageFacts DEF Inv, CmdOK
    <3>3. SparseDone(disk', SparseStart(buf), buf)
      BY <3>2, SparseDoneInit
    <3>4. job'.kind = "sparse" /\ job'.at = SparseStart(buf) /\ cmd'.img = buf
      BY <1>1, <2>1, <3>1 DEF FlashPartition, AtFlash
    <3> QED BY <1>1, <3>1, <3>3, <3>4 DEF DoneInv, Early
  <2>4. CASE buf.kind # "sparse"
    <3>1. fb' = "work" /\ job' = [kind |-> "raw", data |-> buf.data] /\ answer' = answer
      BY <2>1, <2>4 DEF FlashPartition, Work
    <3>2. job'.kind = "raw"
      BY <3>1
    <3> QED BY <1>1, <3>1, <3>2 DEF DoneInv, Early
  <2> QED BY <2>2, <2>3, <2>4
<1>4. CASE unlocked /\ buf # None /\ cmd.arg # "data"
  <2>1. FlashBootloader
    BY <1>4 DEF Flash
  <2>2. CASE buf.kind # "payload"
    <3>1. fb' = "unlock" /\ cmd' = cmd
      BY <2>1, <2>2 DEF FlashBootloader, Done, AtFlash
    <3>2. Fulfilled'
      BY <1>1, <1>4, <2>2, <3>1 DEF Fulfilled, FlashesData, Updates
    <3> QED BY <3>1, <3>2, Answered
  <2>3. CASE buf.kind = "payload"
    <3>1. /\ SameCmd /\ cmd'.all = bup'.required /\ answer' # "OKAY"
          /\ cmd.stale \/ dropped' \/ bup'.required = buf.ratchet
          /\ \/ fb' = "unlock"
             \/ fb' = "work" /\ \E writes : job' = [kind |-> "update", writes |-> writes]
      BY <1>1, <1>4, <2>1, <2>3, PayloadBegins DEF Inv
    <3>2. \A writes : job' = [kind |-> "update", writes |-> writes] => job'.kind = "update"
      OBVIOUS
    <3>3. ~dropped' /\ cmd'.img.ratchet /\ ~cmd'.stale => cmd'.all
      BY <1>1, <3>1 DEF SameCmd
    <3> QED BY <3>1, <3>2, <3>3 DEF DoneInv, Early
  <2> QED BY <2>2, <2>3
<1> QED BY <1>2, <1>3, <1>4

LEMMA EraseAnswers ==
  ASSUME DoneInv, Erase
  PROVE  DoneInv'
<1>1. fb = "start" /\ answer # "OKAY"
  BY DEF Erase, Handling, DoneInv, Early
<1>2. CASE ~unlocked
  <2>1. fb' = "unlock" /\ answer' # "OKAY"
    BY <1>1, <1>2 DEF Erase, Done, Ack
  <2> QED BY <2>1, Answered
<1>3. CASE unlocked
  <2>1. fb' = "work" /\ job' = [kind |-> "erase"] /\ answer' = answer
    BY <1>3 DEF Erase, Work
  <2>2. job'.kind = "erase"
    BY <2>1
  <2> QED BY <1>1, <2>1, <2>2 DEF DoneInv, Early
<1> QED BY <1>2, <1>3

\* Nothing is asked for when the device is as the host wants it.
LEMMA FlashingAnswers ==
  ASSUME Inv, DoneInv, Flashing
  PROVE  DoneInv'
<1>1. /\ fb = "start" /\ cmd.op = "flashing" /\ answer # "OKAY" /\ cmd.open = unlocked
      /\ UNCHANGED <<disk, cmd, unlocked, dropped>>
  BY DEF Flashing, Handling, DoneInv, Early
<1>2. Fulfilled'
  BY <1>1 DEF Fulfilled, FlashesData, Updates
<1>3. fb' = "unlock" \/ (fb' = "confirm" /\ answer' = answer)
  BY DEF Flashing, Done
<1> QED BY <1>1, <1>2, <1>3, Answered DEF DoneInv, Early

LEMMA RawDone ==
  ASSUME Inv, DoneInv, RawStep
  PROVE  DoneInv'
<1> DEFINE data == job.data
           z == 0
<1>1. fb = "work" /\ job.kind = "raw" /\ fb' = "unlock" /\ UNCHANGED cmd
  BY DEF RawStep, Working, Done, AtWork
<1>2. FlashesData /\ cmd.img.kind # "sparse" /\ data = cmd.img.data /\ disk \in [Units -> Int]
  BY <1>1 DEF Inv, JobOK, CmdOK
<1>3. PICK o \in partition_write(disk, "data", 0, data, Faulty) :
        disk' = o.disk /\ dropped' = (dropped \/ o.dropped \/ o.err)
  BY DEF RawStep, Takes
<1>4. data \in Seq(Int) /\ Len(data) \in Nat
  BY <1>2, ImageFacts, LenProperties DEF Inv, CmdOK, FlashesData
<1>5. "data" \in DOMAIN Start /\ Start["data"] \in Nat
  BY LayoutAssumption, BlockAssumption
<1>6. z \in Nat /\ z = 0
  OBVIOUS
<1> HIDE DEF z, data
<1>7. ASSUME ~dropped' PROVE Fulfilled'
  <2>1. ~o.err /\ ~o.dropped
    BY <1>3, <1>7
  <2>2. WrittenTo(disk, Start["data"] + z, data, o)
    BY <1>2, <1>3, <1>4, <1>5, <1>6, FaultyType, PartitionWrite
  <2>3. Span(Start["data"] + z, data) \subseteq UnitsOf("data")
    BY <1>3, <1>4, <1>5, <1>6, <2>1, FaultyType, WriteFits
  <2>4. UnitsOf("data") \subseteq Units
    BY <1>5 DEF Units
  <2>5. ASSUME NEW u \in DataUnits(cmd.img)
        PROVE  o.disk[Start["data"] + u] = DataValue(cmd.img, u)
    <3>1. u \in 0 .. Len(data) - 1
      BY <1>2, <2>5 DEF DataUnits
    <3> DEFINE x == Start["data"] + u
    <3>2. x \in Span(Start["data"] + z, data) /\ x - (Start["data"] + z) + 1 = u + 1
      BY <1>4, <1>5, <1>6, <3>1 DEF Span
    <3> HIDE DEF x
    <3>3. o.disk[x] = data[u + 1]
      BY <1>2, <2>1, <2>2, <2>3, <2>4, <3>2 DEF WrittenTo
    <3>4. DataValue(cmd.img, u) = data[u + 1]
      BY <1>2 DEF DataValue
    <3> QED BY <3>3, <3>4 DEF x
  <2> QED BY <1>1, <1>2, <1>3, <2>5 DEF Fulfilled, FlashesData, Updates
<1> QED BY <1>1, <1>7, Answered

LEMMA EraseDone ==
  ASSUME Inv, DoneInv, EraseStep
  PROVE  DoneInv'
<1>1. fb = "work" /\ job.kind = "erase" /\ fb' = "unlock" /\ UNCHANGED cmd
  BY DEF EraseStep, Working, AtWork, Done
<1>2. cmd.op = "erase" /\ disk \in [Units -> Int] /\ answer # "OKAY"
  BY <1>1 DEF Inv, JobOK, CmdOK, DoneInv
<1>3. PICK o \in partition_erase(disk, "data", Faulty) :
        disk' = o.disk /\ (o.err => Ack("FAIL"))
  BY DEF EraseStep, Takes, Done
<1>4. ASSUME answer' = "OKAY" PROVE Fulfilled'
  <2>1. ~o.err
    BY <1>2, <1>3, <1>4 DEF Ack
  <2>2. "data" \in DOMAIN Start
    BY LayoutAssumption
  <2>3. \A u \in UnitsOf("data") : o.disk[u] = Erased
    BY <1>2, <2>1, <2>2, FaultyType, PartitionErase
  <2> QED BY <1>1, <1>2, <1>3, <2>3 DEF Fulfilled, FlashesData, Updates, Wiped
<1> QED BY <1>1, <1>4, Answered

\* A sparse image is answered OKAY when nothing is left to parse.
LEMMA SparseAnswers ==
  ASSUME Inv, DoneInv, SparseStep
  PROVE  DoneInv'
<1> DEFINE at == job.at
           img == cmd.img
           c == NextChunk(at)
           data == NextData(at)
<1>1. /\ fb = "work" /\ job.kind = "sparse" /\ UNCHANGED <<cmd, unlocked>>
      /\ answer # "OKAY" /\ disk \in [Units -> Int]
  BY DEF SparseStep, Working, AtWork, DoneInv, Inv, CmdOK
<1>2. /\ FlashesData /\ img.kind = "sparse" /\ SparseAt(at, img)
      /\ job = [kind |-> "sparse", img |-> img, at |-> at]
  BY <1>1 DEF Inv, JobOK
<1>3. IsSparse(img)
  BY <1>2, ImageFacts DEF Inv, CmdOK, FlashesData
<1>4. ~dropped => SparseDone(disk, at, img)
  BY <1>1 DEF DoneInv
\* the parser goes on
<1>5. ASSUME NEW b, ~dropped' => SparseDone(disk', b, img),
             job' = [job EXCEPT !.at = b], fb' = fb, answer' = answer
      PROVE  DoneInv'
  <2>1. job' = [kind |-> "sparse", img |-> img, at |-> b]
    BY <1>2, <1>5
  <2>2. job'.kind = "sparse" /\ job'.at = b /\ cmd'.img = img
    BY <1>1, <2>1
  <2> QED BY <1>1, <1>5, <2>2 DEF DoneInv, Early
\* the handler is done, or hangs
<1>6. ASSUME fb' \in {"unlock", "spin"}, answer' # "OKAY" PROVE DoneInv'
  BY <1>6, Answered
<1>7. CASE Finished(at, job.img)
  <2>1. disk' = disk /\ dropped' = dropped /\ fb' = "unlock"
    BY <1>7 DEF SparseStep, Done
  <2>2. ASSUME ~dropped PROVE Fulfilled'
    <3>1. \A u \in SparseUnits(img) : disk[Start["data"] + u] = SparseValue(img, u)
      <4>1. Finished(at, img)
        <5>1. job.img = img
          BY <1>2
        <5> QED BY <1>7, <5>1
      <4> HIDE DEF at, img
      <4> QED BY <1>1, <1>2, <1>3, <1>4, <2>2, <4>1, SparseDoneStep
    <3>2. \A u \in DataUnits(img) : disk[Start["data"] + u] = DataValue(img, u)
      BY <1>2, <3>1 DEF DataUnits, DataValue
    <3> QED BY <1>1, <1>2, <2>1, <3>2 DEF Fulfilled, FlashesData, Updates
  <2> QED BY <2>1, <2>2, Answered
<1>8. CASE ~Finished(at, job.img) /\ ~Accepted(at, job.img)
  <2>1. fb' = "unlock" /\ answer' # "OKAY"
    BY <1>1, <1>8 DEF SparseStep, Done, Ack
  <2> QED BY <1>6, <2>1
<1>9. CASE ~Finished(at, job.img) /\ Accepted(at, job.img)
  <2>1. at.chunks # <<>>
    BY <1>9 DEF Finished
  <2> HIDE DEF c, data, at, img
  <2>2. c.type \in {"raw", "fill", "skip", "crc", "bad"}
    BY <1>2, <1>3, <2>1, SparseStepFacts DEF c
  <2>3. c.type # "bad"
    BY <1>9 DEF Accepted, c, at
  <2>4. CASE c.type = "crc"
    <3>1. fb' = "spin" /\ answer' = answer
      BY <1>9, <2>4 DEF SparseStep, c, at
    <3> QED BY <1>1, <1>6, <3>1
  <2>5. CASE c.type = "skip"
    <3>1. /\ disk' = disk /\ dropped' = dropped
          /\ \/ fb' = "unlock" /\ answer' # "OKAY"
             \/ /\ job' = [job EXCEPT !.at = After(at, c.n)] /\ fb' = fb
                /\ answer' = answer
      BY <1>1, <1>9, <2>5 DEF SparseStep, c, at, Done, Ack, Proceed
    <3>2. ~dropped => SparseDone(disk, After(at, c.n), img)
      BY <1>1, <1>2, <1>3, <1>4, <2>1, <2>5, SparseDoneStep DEF c
    <3> QED BY <1>5, <1>6, <3>1, <3>2
  <2>6. CASE c.type \in {"raw", "fill"}
    <3>1. PICK o \in partition_write(disk, "data", at.offset, data, Faulty) :
            /\ disk' = o.disk /\ dropped' = (dropped \/ o.dropped)
            /\ \/ fb' = "unlock" /\ answer' # "OKAY"
               \/ /\ ~o.err /\ job' = [job EXCEPT !.at = After(at, Len(data))] /\ fb' = fb
                  /\ answer' = answer
      <4>1. \E o \in partition_write(disk, "data", at.offset, data, Faulty) :
              /\ Takes(o)
              /\ dropped' = (dropped \/ o.dropped)
              /\ IF o.err THEN Done("FAIL") ELSE Proceed(After(at, Len(data)))
        BY <1>9, <2>6 DEF SparseStep, c, at, data
      <4> QED BY <1>1, <4>1 DEF Takes, Done, Ack, Proceed
    <3>2. ~dropped /\ ~o.err /\ ~o.dropped => SparseDone(o.disk, After(at, Len(data)), img)
      BY <1>1, <1>2, <1>3, <1>4, <2>1, <2>6, <3>1, FaultyType, SparseDoneStep DEF c, data
    <3> QED BY <1>5, <1>6, <3>1, <3>2
  <2> QED BY <2>2, <2>3, <2>4, <2>5, <2>6
<1> QED BY <1>7, <1>8, <1>9

\* A payload is answered OKAY when nothing is left of its plan.
LEMMA UpdateAnswers ==
  ASSUME Inv, UpdateInv, DoneInv, UpdateStep
  PROVE  DoneInv'
<1> DEFINE ws == job.writes
           w == Head(ws)
<1>1. /\ fb = "work" /\ job.kind = "update" /\ UNCHANGED <<cmd, unlocked>>
      /\ answer # "OKAY"
  BY DEF UpdateStep, Working, AtWork, DoneInv
<1>2. Updates /\ job = [kind |-> "update", writes |-> ws]
  BY <1>1 DEF Inv, JobOK
<1>3. CASE ws = <<>>
  <2>1. disk' = disk /\ fb' = "unlock"
    BY <1>3 DEF UpdateStep, Done
  <2>2. ASSUME ~dropped, NEW name \in NamesOf(cmd.img)
        PROVE  Installed(name, SlotOf(cmd.arg), cmd.img.ratchet /\ ~cmd.stale)
    <3>1. PlanLeft
      BY <1>1, <1>2, <2>2 DEF UpdateInv
    <3>2. Len(ws) = 0
      BY <1>3, EmptySeq
    <3> DEFINE n == Len(ws)
               all == cmd.img.ratchet /\ ~cmd.stale
               slot == SlotOf(cmd.arg)
    <3>3. n = 0 /\ \A j \in 1 .. n : FALSE
      BY <3>2
    <3> HIDE DEF n
    <3>4. \A p \in Target(name, slot, cmd.all) : \A u \in ImageUnitsIn(p, name) :
            disk[u] = cmd.img.version
      BY <3>1, <3>3 DEF PlanLeft, Remaining, n
    <3>5. all => cmd.all
      BY <1>1, <2>2 DEF DoneInv
    <3>6. slot \in {0, 1}
      BY DEF SlotOf
    <3> HIDE DEF all, slot
    <3>7. Target(name, slot, all) \subseteq Target(name, slot, cmd.all)
      BY <3>5, <3>6 DEF Target
    <3>8. Installed(name, slot, all)
      BY <3>4, <3>7 DEF Installed
    <3> QED BY <3>8 DEF all, slot
  <2>3. dropped' = dropped
    BY <1>3 DEF UpdateStep
  <2>4. ASSUME ~dropped PROVE Fulfilled'
    BY <1>1, <1>2, <2>1, <2>2, <2>4 DEF Fulfilled, FlashesData, Updates, Installed
  <2> QED BY <2>1, <2>3, <2>4, Answered
<1>4. CASE ws # <<>>
  <2>1. \/ fb' = "unlock" /\ answer' # "OKAY"
        \/ job' = [job EXCEPT !.writes = Tail(ws)] /\ fb' = fb /\ answer' = answer
    BY <1>1, <1>4 DEF UpdateStep, Takes, Done, Ack
  <2>2. ASSUME job' = [job EXCEPT !.writes = Tail(ws)] PROVE job'.kind = "update"
    <3> HIDE DEF ws
    <3>1. job' = [kind |-> "update", writes |-> Tail(ws)]
      BY <1>2, <2>2
    <3> QED BY <3>1
  <2>3. CASE fb' = "unlock" /\ answer' # "OKAY"
    BY <2>3, Answered
  <2>4. CASE job' = [job EXCEPT !.writes = Tail(ws)] /\ fb' = fb /\ answer' = answer
    <3>1. dropped => dropped'
      BY <1>4 DEF UpdateStep
    <3> QED BY <1>1, <2>2, <2>4, <3>1 DEF DoneInv, Early
  <2> QED BY <2>1, <2>3, <2>4
<1> QED BY <1>3, <1>4

LEMMA ChangeAnswers ==
  ASSUME Inv, DoneInv, ChangeState
  PROVE  DoneInv'
<1>1. /\ fb = "chosen" /\ UNCHANGED <<cmd, unlocked>> /\ cmd.op = "flashing"
      /\ cmd.open = unlocked /\ answer # "OKAY"
  BY DEF ChangeState, Inv, CmdOK, DoneInv, Early
<1>2. Fulfilled'
  BY <1>1 DEF Fulfilled, FlashesData, Updates
<1>3. CASE job.kind \in {"failed", "back"}
  <2>1. fb' = "unlock"
    BY <1>3 DEF ChangeState, Resume, Done
  <2> QED BY <1>2, <2>1, Answered
<1>4. CASE job.kind \notin {"failed", "back"}
  <2>1. \/ fb' = "unlock"
        \/ fb' = "work" /\ job' = [kind |-> "odm"] /\ answer' = answer
    BY <1>4 DEF ChangeState, Resume, Done, Work
  <2>2. job' = [kind |-> "odm"] => job'.kind = "odm"
    OBVIOUS
  <2>3. CASE fb' = "unlock"
    BY <1>2, <2>3, Answered
  <2>4. CASE fb' = "work" /\ job' = [kind |-> "odm"] /\ answer' = answer
    BY <1>1, <2>2, <2>4 DEF DoneInv, Early
  <2> QED BY <2>1, <2>3, <2>4
<1> QED BY <1>3, <1>4

\* The bit of the lock is set, or cleared, once and for all.
LEMMA SetOdmTwice ==
  ASSUME NEW x \in Int, NEW open \in BOOLEAN
  PROVE  SetOdm(x, open) \in Int /\ SetOdm(SetOdm(x, open), open) = SetOdm(x, open)
<1>1. x % LockBit \in 0 .. 99
  BY DEF LockBit
<1> DEFINE r == x % LockBit
<1> HIDE DEF r
<1>2. r \in 0 .. 99 /\ r % 100 = r /\ (r + 100) % 100 = r
  BY <1>1 DEF r
<1> QED BY <1>2 DEF SetOdm, LockBit, r

\* The writes of a BCT come to every copy, and put its first unit nowhere but at the
\* beginning of a copy.
LEMMA BctWritesLeave ==
  ASSUME NEW bct \in Seq(Int), Len(bct) = ImageUnits["BCT"], NEW d
  PROVE  LET ws == BctWrites(bct, Size["BCT"])
         IN  /\ Carries(ws, OdmUnits, bct[1])
             /\ Remaining(ws, d, "BCT", OdmUnits, bct[1])
<1> DEFINE size == Size["BCT"]
           ws == BctWrites(bct, size)
           copies == BctCopies(size)
           n == ImageUnits["BCT"]
           s == Start["BCT"]
           m == Len(copies)
<1>1. n \in Nat \ {0} /\ s \in Nat /\ size \in Nat
  BY BctConstants
<1>2. copies \in Seq(Nat) /\ m \in Nat
  BY <1>1, BctCopiesFacts
<1>3. DOMAIN copies = 1 .. m /\ \A i \in 1 .. m : copies[i] \in Nat
  BY <1>2, LenProperties, ElementOfSeq
<1>4. ws = [i \in 1 .. m |-> Write("BCT", copies[i], bct)]
  BY <1>3 DEF BctWrites
<1>5. Len(ws) = m /\ \A i \in 1 .. m : ws[i] = Write("BCT", copies[i], bct)
  BY <1>2, <1>4
<1>6. \A i \in 1 .. m : BctStarts[i] = s + copies[i]
  BY <1>3 DEF BctStarts
<1>7. OdmUnits = {s + copies[i] : i \in 1 .. m}
  BY <1>3, <1>6, BctStartsFacts DEF OdmUnits
<1> HIDE DEF ws, copies, s, m, size
<1>8. \A i \in 1 .. m : /\ ws[i].part = "BCT" /\ ws[i].data = bct /\ At(ws[i]) = s + copies[i]
                        /\ Meets(ws[i]) = s + copies[i] .. s + copies[i] + n - 1
  <2> SUFFICES ASSUME NEW i \in 1 .. m
               PROVE  /\ ws[i].part = "BCT" /\ ws[i].data = bct /\ At(ws[i]) = s + copies[i]
                      /\ Meets(ws[i]) = s + copies[i] .. s + copies[i] + n - 1
    OBVIOUS
  <2>1. ws[i].part = "BCT" /\ ws[i].offset = copies[i] /\ ws[i].data = bct
    BY <1>5 DEF Write
  <2>2. At(ws[i]) = s + copies[i]
    BY <2>1 DEF At, s
  <2> QED BY <2>1, <2>2 DEF Meets, Span
<1> HIDE DEF n
<1>9. Carries(ws, OdmUnits, bct[1])
  <2> SUFFICES ASSUME NEW j \in 1 .. m, NEW u \in Meets(ws[j]) \cap OdmUnits
               PROVE  ws[j].data[u - At(ws[j]) + 1] = bct[1]
    BY <1>5 DEF Carries
  <2>1. PICK i \in 1 .. m : u = s + copies[i]
    BY <1>7
  <2> DEFINE x == copies[i]
             y == copies[j]
  <2>2. x \in Nat /\ y \in Nat
    BY <1>3
  <2>3. u \in s + y .. s + y + n - 1 /\ u = s + x
    BY <1>8, <2>1
  <2> HIDE DEF x, y
  <2>4. x \in y .. y + n - 1
    BY <1>1, <2>2, <2>3
  <2>5. x = y
    BY <1>1, <2>4, CopiesDisjoint DEF x, y, copies, n, m
  <2>6. u - (s + y) + 1 = 1
    BY <1>1, <2>2, <2>3, <2>5
  <2> QED BY <1>8, <2>6 DEF y
<1>10. Remaining(ws, d, "BCT", OdmUnits, bct[1])
  <2> SUFFICES ASSUME NEW u \in OdmUnits
               PROVE  \E j \in 1 .. m : ws[j].part = "BCT" /\ u \in Meets(ws[j])
    BY <1>5 DEF Remaining
  <2>1. PICK i \in 1 .. m : u = s + copies[i]
    BY <1>7
  <2> DEFINE x == copies[i]
  <2>2. x \in Nat
    BY <1>3
  <2> HIDE DEF x
  <2>3. s + x \in s + x .. s + x + n - 1
    BY <1>1, <2>2
  <2> QED BY <1>8, <2>1, <2>3 DEF x
<1> QED BY <1>9, <1>10 DEF ws, size

LEMMA OdmReadAnswers ==
  ASSUME Inv, DoneInv, OdmRead
  PROVE  DoneInv'
<1> DEFINE n == ImageUnits["BCT"]
           start == BctStarts[1]
           old == BctAt(disk, start)
           bct == WithOdm(old, unlocked')
           size == Size["BCT"]
           writes == BctWrites(bct, size)
<1>1. /\ fb = "work" /\ disk' = disk /\ unlocked' \in BOOLEAN /\ answer # "OKAY"
      /\ \/ fb' = "unlock" /\ dropped'
         \/ fb' = "work" /\ job' = [kind |-> "bct", writes |-> writes] /\ answer' = answer
  BY DEF OdmRead, Working, Resume, Done, Work, DoneInv
<1>2. CASE fb' = "unlock" /\ dropped'
  BY <1>2, Answered
<1>3. CASE fb' = "work" /\ job' = [kind |-> "bct", writes |-> writes] /\ answer' = answer
  <2>1. n \in Nat \ {0} /\ start \in Nat /\ CopyUnits(1) \subseteq Units
    BY CopyFacts DEF Units
  <2>2. old \in [1 .. n -> Int]
    <3>1. \A i \in 1 .. n : start + i - 1 \in CopyUnits(1)
      BY <2>1 DEF CopyUnits
    <3>2. disk \in [Units -> Int]
      BY DEF Inv, CmdOK
    <3> QED BY <2>1, <3>1, <3>2 DEF BctAt
  <2> HIDE DEF old
  <2>3. bct \in Seq(Int) /\ Len(bct) = n
    BY <1>1, <2>1, <2>2, WithOdmFacts
  <2>4. old[1] \in Int /\ bct[1] = SetOdm(old[1], unlocked')
    BY <2>1, <2>2 DEF WithOdm
  <2>5. bct[1] \in Int /\ SetOdm(bct[1], unlocked') = bct[1]
    BY <1>1, <2>4, SetOdmTwice
  <2> HIDE DEF bct
  <2>6. Carries(writes, OdmUnits, bct[1]) /\ Remaining(writes, disk', "BCT", OdmUnits, bct[1])
    BY <2>3, BctWritesLeave
  <2> HIDE DEF writes
  <2>7. job'.kind = "bct" /\ job'.writes = writes
    BY <1>3
  <2>8. OdmLeft'
    BY <2>5, <2>6, <2>7 DEF OdmLeft
  <2> QED BY <1>1, <1>3, <2>7, <2>8 DEF DoneInv, Early
<1> QED BY <1>1, <1>2, <1>3

LEMMA OdmWriteAnswers ==
  ASSUME Inv, DoneInv, OdmWrite
  PROVE  DoneInv'
<1> DEFINE ws == job.writes
           w == Head(ws)
<1>1. /\ fb = "work" /\ job.kind = "bct" /\ UNCHANGED <<cmd, unlocked>>
      /\ answer # "OKAY" /\ disk \in [Units -> Int]
  BY DEF OdmWrite, Working, AtOdm, DoneInv, Inv, CmdOK
<1>2. /\ cmd.op = "flashing" /\ Wiped
      /\ job = [kind |-> "bct", writes |-> ws]
      /\ ws \in Seq(WritesIn(BctUnits))
  BY <1>1 DEF Inv, JobOK
<1>3. ~dropped => OdmLeft
  BY <1>1 DEF DoneInv
<1>4. CASE ws = <<>>
  <2>1. disk' = disk /\ dropped' = dropped /\ fb' = "unlock"
    BY <1>4 DEF OdmWrite, Resume, Done
  <2>2. ASSUME ~dropped PROVE Fulfilled'
    <3>1. PICK v \in Int : SetOdm(v, unlocked) = v /\ Remaining(ws, disk, "BCT", OdmUnits, v)
      BY <1>3, <2>2 DEF OdmLeft
    <3> DEFINE n == Len(ws)
    <3>2. n = 0 /\ \A j \in 1 .. n : FALSE
      BY <1>4, EmptySeq
    <3> HIDE DEF n
    <3>3. \A u \in OdmUnits : disk[u] = v
      BY <3>1, <3>2 DEF Remaining, n
    <3>4. BctStarts[1] \in OdmUnits
      BY BctStartsFacts DEF OdmUnits
    <3>5. \A u \in OdmUnits : disk'[u] = SetOdm(disk'[BctStarts[1]], unlocked')
      BY <1>1, <2>1, <3>1, <3>3, <3>4
    <3>6. Wiped'
      BY <1>2, <2>1 DEF Wiped
    <3> QED BY <1>1, <1>2, <3>5, <3>6 DEF Fulfilled, FlashesData, Updates
  <2> QED BY <2>1, <2>2, Answered
<1>5. CASE ws # <<>>
  <2>1. PICK o \in partition_write(disk, w.part, w.offset, w.data, Faulty) :
          /\ disk' = o.disk /\ dropped' = (dropped \/ o.dropped \/ o.err)
          /\ \/ o.err /\ fb' = "unlock"
             \/ ~o.err /\ job' = [job EXCEPT !.writes = Tail(ws)] /\ fb' = fb /\ answer' = answer
    <3>1. \E o \in partition_write(disk, w.part, w.offset, w.data, Faulty) :
            /\ Takes(o)
            /\ dropped' = (dropped \/ o.dropped \/ o.err)
            /\ IF o.err THEN Resume("OKAY")
               ELSE /\ job' = [job EXCEPT !.writes = Tail(@)]
                    /\ UNCHANGED <<fb, answer, state, status>>
      BY <1>5 DEF OdmWrite
    <3> QED BY <3>1 DEF Takes, Resume, Done
  <2>2. CASE o.err /\ fb' = "unlock"
    BY <2>1, <2>2, Answered
  <2>3. CASE ~o.err /\ job' = [job EXCEPT !.writes = Tail(ws)] /\ fb' = fb /\ answer' = answer
    <3>1. job' = [kind |-> "bct", writes |-> Tail(ws)]
      <4> HIDE DEF ws
      <4> QED BY <1>2, <2>3
    <3>2. job'.kind = "bct" /\ job'.writes = Tail(ws)
      BY <3>1
    <3>3. ASSUME ~dropped' PROVE OdmLeft'
      <4>1. ~dropped /\ ~o.dropped /\ ~o.err
        BY <2>1, <3>3
      <4>2. PICK v \in Int : /\ SetOdm(v, unlocked) = v /\ Carries(ws, OdmUnits, v)
                             /\ Remaining(ws, disk, "BCT", OdmUnits, v)
        BY <1>3, <4>1 DEF OdmLeft
      <4> HIDE DEF ws
      <4>3. Carries(Tail(ws), OdmUnits, v) /\ Remaining(Tail(ws), o.disk, "BCT", OdmUnits, v)
        BY <1>1, <1>2, <1>5, <2>1, <4>1, <4>2, FaultyType, WriteGoesOn
      <4> QED BY <1>1, <2>1, <3>2, <4>2, <4>3 DEF OdmLeft
    <3> QED BY <1>1, <2>3, <3>2, <3>3 DEF DoneInv, Early
  <2> QED BY <2>1, <2>2, <2>3
<1> QED BY <1>4, <1>5

LEMMA OtherStep ==
  ASSUME Inv, DoneInv, UpdateInv,
         \/ HostGone \/ LockForCommand \/ RelockAfterMenu \/ Unlock \/ Download
         \/ Answering \/ Reboot \/ ConfirmTry \/ ConfirmIdle \/ ConfirmEnter \/ ConfirmFails
         \/ MenuStep \/ MenuJoin \/ SelectFails \/ Select \/ BootKernel \/ PowerCut \/ PowerOn
         \/ UNCHANGED vars
  PROVE  DoneInv' /\ UpdateInv'
<1>1. CASE HostGone \/ Unlock
  <2>1. /\ UNCHANGED <<disk, cmd, was, unlocked, dropped>> /\ fb' \in {"recv", "exit"}
        /\ answer' \in {answer, "FAIL"}
    BY <1>1 DEF HostGone, Unlock, Exit, Ack
  <2> QED BY <2>1, DoneSteady, UpdateSteady DEF Early
<1>2. CASE LockForCommand \/ RelockAfterMenu
  <2>1. /\ UNCHANGED <<disk, cmd, was, unlocked, dropped, answer>>
        /\ fb \in {"lock", "relock"} /\ fb' \in {fb, "start", "chosen", "panic"}
    BY <1>2 DEF LockForCommand, RelockAfterMenu, MenuLock
  <2> QED BY <2>1, DoneSteady, UpdateSteady DEF Early
<1>3. CASE Download \/ Answering
  <2>1. /\ UNCHANGED <<disk, cmd, was>> /\ fb' \in {"unlock", "panic"}
        /\ cmd.op \in {"download", "continue", "getvar"}
    BY <1>3 DEF Download, Answering, Handling, Done
  <2>2. Fulfilled'
    BY <2>1, NothingAsked
  <2> QED BY <2>1, <2>2, Answered, UpdateSteady
<1>4. CASE ConfirmTry \/ ConfirmIdle \/ ConfirmEnter \/ ConfirmFails
  <2>1. /\ fb \in {"confirm", "confirm_keys"} /\ fb' \in {"confirm", "confirm_keys", "relock"}
        /\ UNCHANGED <<disk, cmd, was, unlocked, dropped, answer>>
    BY <1>4 DEF ConfirmTry, ConfirmIdle, ConfirmEnter, ConfirmFails, AtConfirm
  <2> QED BY <2>1, DoneSteady, UpdateSteady DEF Early
<1>5. CASE MenuStep \/ MenuJoin \/ SelectFails \/ UNCHANGED vars
  <2>1. UNCHANGED <<disk, cmd, was, unlocked, dropped, answer, fb, job>>
    <3>1. CASE MenuStep
      BY <3>1 DEF MenuStep, MenuDraw, MenuLoop, MenuTry, MenuIdle, MenuEnter, MenuFails,
                  AtMenu, ram
    <3>2. CASE MenuJoin \/ SelectFails
      BY <3>2 DEF MenuJoin, SelectFails, AtMenu, ram
    <3>3. CASE UNCHANGED vars
      BY <3>3 DEF vars
    <3> QED BY <1>5, <3>1, <3>2, <3>3
  <2> QED BY <2>1, DoneSteady, UpdateSteady
<1>6. CASE Select \/ BootKernel \/ PowerCut \/ Reboot
  <2>1. /\ UNCHANGED <<disk, cmd, was, unlocked, dropped>> /\ fb' = "off" /\ answer' = "none"
    BY <1>6 DEF Select, BootKernel, PowerCut, Reboot, Off
  <2> QED BY <2>1, DoneSteady, UpdateSteady DEF Early
<1>7. CASE PowerOn
  <2>1. /\ fb = "off" /\ UNCHANGED <<disk, cmd, was, answer>> /\ fb' = "recv"
    BY <1>7 DEF PowerOn
  <2>2. answer' # "OKAY"
    BY <2>1 DEF DoneInv
  <2> QED BY <2>1, <2>2, Answered, UpdateSteady
<1> QED BY <1>1, <1>2, <1>3, <1>4, <1>5, <1>6, <1>7

\* Steps of handlers that have no payload
LEMMA NoUpdateStep ==
  ASSUME Inv, UpdateInv, Flashing \/ Erase \/ RawStep \/ SparseStep \/ EraseStep
                           \/ ChangeState \/ OdmRead \/ OdmWrite
  PROVE  UpdateInv'
<1>1. CASE Flashing \/ Erase \/ EraseStep
  <2>1. cmd' = cmd /\ cmd.op \in {"flashing", "erase"}
    BY <1>1 DEF Flashing, Erase, EraseStep, Handling, Working, AtWork, Inv, JobOK
  <2> QED BY <2>1, NoUpdate DEF Updates
<1>2. CASE RawStep \/ SparseStep
  <2>1. cmd' = cmd /\ cmd.arg = "data"
    BY <1>2 DEF RawStep, SparseStep, Working, AtWork, Inv, JobOK, FlashesData
  <2> QED BY <2>1, NoUpdate DEF Updates
<1>3. CASE ChangeState \/ OdmRead \/ OdmWrite
  <2>1. cmd' = cmd /\ cmd.op = "flashing"
    BY <1>3 DEF ChangeState, OdmRead, OdmWrite, Working, AtOdm, Inv, JobOK, CmdOK
  <2> QED BY <2>1, NoUpdate DEF Updates
<1> QED BY <1>1, <1>2, <1>3

LEMMA DoneInvStep ==
  ASSUME Inv, UpdateInv, DoneInv, [Next]_vars
  PROVE  UpdateInv' /\ DoneInv'
<1>1. CASE Receive \/ Flash \/ UpdateStep
  BY <1>1, ReceiveOrders, FlashOrders, UpdateOrders, ReceiveDone, FlashDone, UpdateAnswers
<1>2. CASE Flashing \/ Erase \/ RawStep \/ SparseStep \/ EraseStep
  BY <1>2, NoUpdateStep, FlashingAnswers, EraseAnswers, RawDone, SparseAnswers, EraseDone
<1>3. CASE ChangeState \/ OdmRead \/ OdmWrite
  BY <1>3, NoUpdateStep, ChangeAnswers, OdmReadAnswers, OdmWriteAnswers
<1>4. \/ Receive \/ Flash \/ UpdateStep
      \/ Flashing \/ Erase \/ RawStep \/ SparseStep \/ EraseStep
      \/ ChangeState \/ OdmRead \/ OdmWrite
      \/ HostGone \/ LockForCommand \/ RelockAfterMenu \/ Unlock \/ Download
      \/ Answering \/ Reboot \/ ConfirmTry \/ ConfirmIdle \/ ConfirmEnter \/ ConfirmFails
      \/ MenuStep \/ MenuJoin \/ SelectFails \/ Select \/ BootKernel \/ PowerCut \/ PowerOn
      \/ UNCHANGED vars
  BY DEF Next, ServerStep
<1> QED BY <1>1, <1>2, <1>3, <1>4, OtherStep

LEMMA DoneInvInit == Init => Inv /\ UpdateInv /\ DoneInv
<1> SUFFICES ASSUME Init PROVE Inv /\ UpdateInv /\ DoneInv
  OBVIOUS
<1>1. Inv
  BY TypeInit, InvInit DEF Inv
<1>2. UpdateInv
  BY DEF Init, UpdateInv, Updates
<1>3. DoneInv
  BY DEF Init, RamInit, DoneInv, Early
<1> QED BY <1>1, <1>2, <1>3

\* "BCT is dependent on mb2", "MB1 is dependent on BRBCT" (bootloader_update.c:50-55):
\* wherever an update stops, after whatever fails, what a new image needs is in its
\* partitions in full before any of that image is in its own, if the payload has an entry
\* for it that is for this board.  For every layout of the partitions, every board, every
\* payload with its entries in any order, and every slot.
THEOREM UpdateOrderedTheorem == Spec => []UpdateOrdered
<1>1. Inv /\ UpdateInv /\ DoneInv /\ [Next]_vars => Inv' /\ UpdateInv' /\ DoneInv'
  BY InvStep, DoneInvStep
<1>2. UpdateInv => UpdateOrdered
  <2>1. \A name : There(name) => Installed(name, SlotOf(cmd.arg), cmd.all)
    BY DEF There, Installed
  <2> QED BY <2>1 DEF UpdateInv, NeedsThere, UpdateOrdered
<1> QED BY <1>1, <1>2, DoneInvInit, PTL DEF Spec

\* What the host asked for is on the disk when the answer is OKAY: the image as it
\* expands, the partition erased, user data wiped with the lock bit in every copy of the
\* BCT, and of a payload the first entry of each name for this board, in each slot that it
\* is for.  Excepted are the errors that the code drops: of a raw image
\* (tegrabl_fastboot_protocol.c:549), of a partial block (tegrabl_blockdev.c:202), of the
\* lock bit (fastboot.c:606), of the platform spec, without which nothing of a payload is
\* written (tegrabl_bootloader_update.c:348), and of the ratchet check (:145-150).
THEOREM OkayMeansDoneTheorem == Spec => []OkayMeansDone
<1>1. Inv /\ UpdateInv /\ DoneInv /\ [Next]_vars => Inv' /\ UpdateInv' /\ DoneInv'
  BY InvStep, DoneInvStep
<1> QED BY <1>1, DoneInvInit, DoneIsOkay, PTL DEF Spec
=============================================================================
