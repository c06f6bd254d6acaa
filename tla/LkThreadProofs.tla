--------------------------- MODULE LkThreadProofs ---------------------------
(***************************************************************************)
(* Safety of the scheduler and the wait queues for every set of threads,   *)
(* of wait queues, of priorities, and length of a time slice.              *)
(***************************************************************************)
EXTENDS LkThread, SequenceTheorems, InductionFacts, TLAPS

(***************************************************************************)
(* The inductive invariant.  Good(s) is what QueuesMatchStates says of the *)
(* run queues, of a scheduler state s as a value; Waiting is what it says  *)
(* of the wait queues, and where a thread that is in one will resume.      *)
(***************************************************************************)
SchedType ==
  [rq : [Priorities -> Seq(Threads)], bm : SUBSET Priorities,
   ts : [Threads -> ThreadStates]]

Good(s) ==
  /\ s \in SchedType
  /\ \A p \in Priorities, t \in Threads :
       IsIn(t, s.rq[p]) <=> s.ts[t] = "ready" /\ priority[t] = p
  /\ \A p \in Priorities : NoRepeat(s.rq[p])
  /\ \A p \in Priorities : p \in s.bm <=> s.rq[p] # <<>>

Waiting ==
  /\ \A t \in Threads :
       tstate[t] = "blocked" <=> \E q \in Queues : IsIn(t, waitq[q])
  /\ \A q \in Queues, t \in Threads : IsIn(t, waitq[q]) => pc[t] = q
  /\ \A q \in Queues : NoRepeat(waitq[q])
  /\ \A t \in Threads :
       pc[t] # "run" => tstate[t] \in {"blocked", "ready", "running"}

\* the idle thread is always there to be switched to
IdleReady ==
  /\ tstate[Idle] \in {"ready", "running"}
  /\ priority[Idle] = 0
  /\ pc[Idle] = "run"

OneRuns == \A t \in Threads : tstate[t] = "running" <=> t = current

KernelInv ==
  /\ TypeOK
  /\ Good(Sched)
  /\ OneRuns
  /\ Waiting
  /\ IdleReady
  /\ TimerOnLiveStack

-----------------------------------------------------------------------------
(***************************************************************************)
(* Lists: who is in them, and that nobody is in them twice.                *)
(***************************************************************************)
LEMMA EmptyFacts ==
  ASSUME NEW T
  PROVE  /\ <<>> \in Seq(T)
         /\ NoRepeat(<<>>)
         /\ \A u : ~IsIn(u, <<>>)
         /\ \A s \in Seq(T) : s # <<>> <=> \E u \in T : IsIn(u, s)
<1>1. \A s \in Seq(T) : s # <<>> => \E u \in T : IsIn(u, s)
  <2> SUFFICES ASSUME NEW s \in Seq(T), s # <<>>
               PROVE  \E u \in T : IsIn(u, s)
    OBVIOUS
  <2>1. Len(s) \in Nat \ {0} /\ DOMAIN s = 1 .. Len(s)
    BY EmptySeq, LenProperties
  <2>2. 1 \in DOMAIN s /\ s[1] \in T
    BY <2>1, ElementOfSeq
  <2> QED BY <2>2 DEF IsIn
<1> QED BY <1>1 DEF NoRepeat, IsIn

LEMMA AppendFacts ==
  ASSUME NEW T, NEW s \in Seq(T), NEW t \in T
  PROVE  /\ Append(s, t) \in Seq(T)
         /\ \A u : IsIn(u, Append(s, t)) <=> IsIn(u, s) \/ u = t
         /\ NoRepeat(s) /\ ~IsIn(t, s) => NoRepeat(Append(s, t))
<1>1. /\ Append(s, t) \in Seq(T)
      /\ Len(Append(s, t)) = Len(s) + 1
      /\ \A i \in 1 .. Len(s) : Append(s, t)[i] = s[i]
      /\ Append(s, t)[Len(s) + 1] = t
  BY AppendProperties
<1>2. /\ Len(s) \in Nat
      /\ DOMAIN s = 1 .. Len(s)
      /\ DOMAIN Append(s, t) = 1 .. Len(s) + 1
  BY <1>1, LenProperties
<1>3. \A u : IsIn(u, Append(s, t)) <=> IsIn(u, s) \/ u = t
  BY <1>1, <1>2 DEF IsIn
<1>4. NoRepeat(s) /\ ~IsIn(t, s) => NoRepeat(Append(s, t))
  BY <1>1, <1>2 DEF IsIn, NoRepeat
<1> QED BY <1>1, <1>3, <1>4

LEMMA PushFacts ==
  ASSUME NEW T, NEW s \in Seq(T), NEW t \in T
  PROVE  /\ <<t>> \o s \in Seq(T)
         /\ \A u : IsIn(u, <<t>> \o s) <=> IsIn(u, s) \/ u = t
         /\ NoRepeat(s) /\ ~IsIn(t, s) => NoRepeat(<<t>> \o s)
<1>0. <<t>> \in Seq(T) /\ Len(<<t>>) = 1 /\ <<t>>[1] = t
  OBVIOUS
<1>1. /\ <<t>> \o s \in Seq(T)
      /\ Len(<<t>> \o s) = 1 + Len(s)
      /\ \A i \in 1 .. 1 + Len(s) :
           (<<t>> \o s)[i] = IF i <= 1 THEN t ELSE s[i - 1]
  BY <1>0, ConcatProperties
<1>2. /\ Len(s) \in Nat
      /\ DOMAIN s = 1 .. Len(s)
      /\ DOMAIN (<<t>> \o s) = 1 .. 1 + Len(s)
  BY <1>1, LenProperties
<1>3. \A u : IsIn(u, <<t>> \o s) <=> IsIn(u, s) \/ u = t
  <2>1. ASSUME NEW u, IsIn(u, s) \/ u = t PROVE IsIn(u, <<t>> \o s)
    <3>1. CASE u = t
      BY <1>1, <1>2, <3>1 DEF IsIn
    <3>2. CASE IsIn(u, s)
      <4>1. PICK i \in 1 .. Len(s) : s[i] = u
        BY <1>2, <3>2 DEF IsIn
      <4>2. i + 1 \in 1 .. 1 + Len(s) /\ (<<t>> \o s)[i + 1] = u
        BY <1>1, <1>2, <4>1
      <4> QED BY <1>2, <4>2 DEF IsIn
    <3> QED BY <2>1, <3>1, <3>2
  <2>2. ASSUME NEW u, IsIn(u, <<t>> \o s) PROVE IsIn(u, s) \/ u = t
    <3>1. PICK i \in 1 .. 1 + Len(s) : (<<t>> \o s)[i] = u
      BY <1>2, <2>2 DEF IsIn
    <3> QED BY <1>1, <1>2, <3>1 DEF IsIn
  <2> QED BY <2>1, <2>2
<1>4. ASSUME NoRepeat(s), ~IsIn(t, s) PROVE NoRepeat(<<t>> \o s)
  <2> SUFFICES ASSUME NEW i \in 1 .. 1 + Len(s), NEW j \in 1 .. 1 + Len(s),
                      (<<t>> \o s)[i] = (<<t>> \o s)[j]
               PROVE  i = j
    BY <1>2 DEF NoRepeat
  <2>1. \A k \in 2 .. 1 + Len(s) : k - 1 \in DOMAIN s /\ s[k - 1] # t
    BY <1>2, <1>4 DEF IsIn
  <2>2. \A k \in 2 .. 1 + Len(s) : (<<t>> \o s)[k] = s[k - 1]
    BY <1>1, <1>2
  <2>3. (<<t>> \o s)[1] = t
    BY <1>1, <1>2
  <2> QED BY SMTT(30), <1>2, <1>4, <2>1, <2>2, <2>3 DEF NoRepeat
<1> QED BY <1>1, <1>3, <1>4

LEMMA TailFacts ==
  ASSUME NEW T, NEW s \in Seq(T), s # <<>>
  PROVE  /\ Head(s) \in T /\ IsIn(Head(s), s)
         /\ Tail(s) \in Seq(T)
         /\ NoRepeat(s) => NoRepeat(Tail(s))
         /\ NoRepeat(s) =>
              \A u : IsIn(u, Tail(s)) <=> IsIn(u, s) /\ u # Head(s)
<1>1. /\ Head(s) \in T
      /\ Tail(s) \in Seq(T)
      /\ Len(Tail(s)) = Len(s) - 1
      /\ \A i \in 1 .. Len(Tail(s)) : Tail(s)[i] = s[i + 1]
  BY HeadTailProperties
<1>2. /\ Len(s) \in Nat \ {0}
      /\ DOMAIN s = 1 .. Len(s)
      /\ DOMAIN Tail(s) = 1 .. Len(s) - 1
      /\ Head(s) = s[1]
  BY <1>1, EmptySeq, LenProperties
<1>3. IsIn(Head(s), s)
  BY <1>2 DEF IsIn
<1>4. NoRepeat(s) => NoRepeat(Tail(s))
  BY <1>1, <1>2 DEF NoRepeat
<1>5. ASSUME NoRepeat(s), NEW u
      PROVE  IsIn(u, Tail(s)) <=> IsIn(u, s) /\ u # Head(s)
  <2>1. ASSUME IsIn(u, Tail(s)) PROVE IsIn(u, s) /\ u # Head(s)
    <3>1. PICK i \in 1 .. Len(s) - 1 : Tail(s)[i] = u
      BY <1>2, <2>1 DEF IsIn
    <3>2. i + 1 \in DOMAIN s /\ 1 \in DOMAIN s /\ s[i + 1] = u /\ i + 1 # 1
      BY <1>1, <1>2, <3>1
    <3> QED BY <1>2, <1>5, <3>2 DEF IsIn, NoRepeat
  <2>2. ASSUME IsIn(u, s), u # Head(s) PROVE IsIn(u, Tail(s))
    <3>1. PICK i \in 1 .. Len(s) : s[i] = u
      BY <1>2, <2>2 DEF IsIn
    <3>2. i - 1 \in 1 .. Len(s) - 1
      BY <1>2, <2>2, <3>1
    <3>3. Tail(s)[i - 1] = u
      BY <1>1, <1>2, <3>1, <3>2
    <3> QED BY <1>2, <3>2, <3>3 DEF IsIn
  <2> QED BY <2>1, <2>2
<1> QED BY <1>1, <1>3, <1>4, <1>5

LEMMA RemoveFacts ==
  ASSUME NEW T, NEW s \in Seq(T), NEW t, NoRepeat(s)
  PROVE  /\ Remove(s, t) \in Seq(T)
         /\ NoRepeat(Remove(s, t))
         /\ \A u : IsIn(u, Remove(s, t)) <=> IsIn(u, s) /\ u # t
<1>0. Len(s) \in Nat /\ DOMAIN s = 1 .. Len(s)
  BY LenProperties
<1>1. CASE ~IsIn(t, s)
  BY <1>1 DEF Remove
<1>2. CASE IsIn(t, s)
  <2> DEFINE k == CHOOSE i \in DOMAIN s : s[i] = t
             l == SubSeq(s, 1, k - 1)
             r == SubSeq(s, k + 1, Len(s))
  <2>1. k \in 1 .. Len(s) /\ s[k] = t
    BY <1>0, <1>2 DEF IsIn
  <2>2. \A i \in 1 .. Len(s) : s[i] \in T
    BY ElementOfSeq
  <2> HIDE DEF k
  <2>3. /\ l \in Seq(T)
        /\ Len(l) = k - 1
        /\ \A i \in 1 .. k - 1 : l[i] = s[i]
    BY <1>0, <2>1, <2>2, SubSeqProperties
  <2>4. /\ r \in Seq(T)
        /\ Len(r) = Len(s) - k
        /\ \A i \in 1 .. Len(s) - k : r[i] = s[k + i]
    <3>1. /\ k + 1 \in Int /\ Len(s) \in Int
          /\ \A i \in k + 1 .. Len(s) : s[i] \in T
      BY <1>0, <2>1, <2>2
    <3>2. /\ r \in Seq(T)
          /\ Len(r) = IF k + 1 <= Len(s) THEN Len(s) - (k + 1) + 1 ELSE 0
          /\ \A i \in 1 .. Len(s) - (k + 1) + 1 : r[i] = s[(k + 1) + i - 1]
      BY <3>1, SubSeqProperties
    <3> HIDE DEF r
    <3>3. Len(r) = Len(s) - k
      <4>1. k \in Int /\ Len(s) \in Int /\ k <= Len(s)
        BY <1>0, <2>1
      <4>2. k + 1 <= Len(s) => Len(s) - (k + 1) + 1 = Len(s) - k
        BY <4>1
      <4>3. ~(k + 1 <= Len(s)) => 0 = Len(s) - k
        BY <4>1
      <4> QED BY <3>2, <4>2, <4>3
    <3>4. ASSUME NEW i \in 1 .. Len(s) - k PROVE r[i] = s[k + i]
      <4>1. i \in 1 .. Len(s) - (k + 1) + 1 /\ (k + 1) + i - 1 = k + i
        BY <1>0, <2>1
      <4> QED BY <3>2, <4>1
    <3> QED BY <3>2, <3>3, <3>4
  <2>5. Remove(s, t) = l \o r
    BY <1>2 DEF Remove, k
  <2> HIDE DEF l, r
  <2>6. /\ l \o r \in Seq(T)
        /\ Len(l \o r) = Len(s) - 1
        /\ \A i \in 1 .. Len(s) - 1 : (l \o r)[i] = IF i < k THEN s[i] ELSE s[i + 1]
    <3>1. /\ l \o r \in Seq(T)
          /\ Len(l \o r) = Len(l) + Len(r)
          /\ \A i \in 1 .. Len(l) + Len(r) :
               (l \o r)[i] = IF i <= Len(l) THEN l[i] ELSE r[i - Len(l)]
      BY <2>3, <2>4, ConcatProperties
    <3>2. ASSUME NEW i \in 1 .. Len(s) - 1
          PROVE  (l \o r)[i] = IF i < k THEN s[i] ELSE s[i + 1]
      <4>1. CASE i < k
        BY <1>0, <2>1, <2>3, <2>4, <3>1, <4>1
      <4>2. CASE i >= k
        <5>1. i - Len(l) \in 1 .. Len(s) - k
          BY <1>0, <2>1, <2>3, <4>2
        <5>2. k + (i - Len(l)) = i + 1
          BY <1>0, <2>1, <2>3
        <5>3. i \in 1 .. Len(l) + Len(r) /\ ~(i <= Len(l)) /\ ~(i < k)
          BY <1>0, <2>1, <2>3, <2>4, <4>2
        <5>4. (l \o r)[i] = r[i - Len(l)]
          BY <3>1, <5>3
        <5>5. r[i - Len(l)] = s[i + 1]
          BY <2>4, <5>1, <5>2
        <5> QED BY <5>3, <5>4, <5>5
      <4>3. i < k \/ i >= k
        BY <1>0, <2>1
      <4> QED BY <4>1, <4>2, <4>3
    <3> QED BY <1>0, <2>1, <2>3, <2>4, <3>1, <3>2
  <2>7. DOMAIN (l \o r) = 1 .. Len(s) - 1
    BY <2>6, LenProperties
  <2>8. NoRepeat(l \o r)
    <3> SUFFICES ASSUME NEW i \in 1 .. Len(s) - 1, NEW j \in 1 .. Len(s) - 1,
                        (l \o r)[i] = (l \o r)[j]
                 PROVE  i = j
      BY <2>7 DEF NoRepeat
    <3>1. \A a, b \in 1 .. Len(s) : s[a] = s[b] => a = b
      BY <1>0 DEF NoRepeat
    <3> DEFINE At(n) == IF n < k THEN n ELSE n + 1
    <3>2. \A n \in 1 .. Len(s) - 1 :
            At(n) \in 1 .. Len(s) /\ (l \o r)[n] = s[At(n)]
      BY <1>0, <2>1, <2>6
    <3>3. At(i) = At(j)
      <4> HIDE DEF At
      <4> QED BY <3>1, <3>2
    <3> QED BY <1>0, <2>1, <3>3
  <2>9. ASSUME NEW u PROVE IsIn(u, l \o r) <=> IsIn(u, s) /\ u # t
    <3>1. ASSUME IsIn(u, l \o r) PROVE IsIn(u, s) /\ u # t
      <4>1. PICK i \in 1 .. Len(s) - 1 : (l \o r)[i] = u
        BY <2>7, <3>1 DEF IsIn
      <4>2. PICK j \in 1 .. Len(s) : j # k /\ s[j] = u
        BY <1>0, <2>1, <2>6, <4>1
      <4> QED BY <1>0, <2>1, <4>2 DEF IsIn, NoRepeat
    <3>2. ASSUME IsIn(u, s), u # t PROVE IsIn(u, l \o r)
      <4>1. PICK j \in 1 .. Len(s) : s[j] = u
        BY <1>0, <3>2 DEF IsIn
      <4>2. PICK i \in 1 .. Len(s) - 1 : (l \o r)[i] = u
        <5>1. CASE j < k
          <6>1. j \in 1 .. Len(s) - 1
            BY <1>0, <2>1, <5>1
          <6> QED BY <2>6, <4>1, <5>1, <6>1
        <5>2. CASE j > k
          <6>1. j - 1 \in 1 .. Len(s) - 1 /\ ~(j - 1 < k) /\ (j - 1) + 1 = j
            BY <1>0, <2>1, <5>2
          <6>2. (l \o r)[j - 1] = s[j]
            BY <2>6, <6>1
          <6> QED BY <4>1, <6>1, <6>2
        <5>3. j # k
          BY <2>1, <3>2, <4>1
        <5>4. j < k \/ j = k \/ j > k
          BY <1>0, <2>1
        <5> QED BY <5>1, <5>2, <5>3, <5>4
      <4> QED BY <2>7, <4>2 DEF IsIn
    <3> QED BY <3>1, <3>2
  <2> QED BY <2>5, <2>6, <2>8, <2>9
<1> QED BY <1>1, <1>2

-----------------------------------------------------------------------------
(***************************************************************************)
(* Scheduler states as values: linking a thread that is in no run queue    *)
(* into the one of its priority, changing the state of one, switching.     *)
(***************************************************************************)
LEMMA PriorityFacts ==
  /\ MaxPriority \in Nat \ {0}
  /\ Priorities = 0 .. MaxPriority
  /\ 0 \in Priorities
  BY PriorityAssumption DEF Priorities

\* A list in place of the one at priority[t], which differs from it by t.
LEMMA LinkGood ==
  ASSUME priority \in [Threads -> Priorities],
         NEW s, Good(s), NEW t \in Threads, s.ts[t] # "ready",
         NEW l \in Seq(Threads), NoRepeat(l),
         \A u \in Threads : IsIn(u, l) <=> IsIn(u, s.rq[priority[t]]) \/ u = t,
         NEW r, r = [rq |-> [s.rq EXCEPT ![priority[t]] = l],
                     bm |-> s.bm \cup {priority[t]},
                     ts |-> [s.ts EXCEPT ![t] = "ready"]]
  PROVE  Good(r)
<1>0. /\ s.rq \in [Priorities -> Seq(Threads)]
      /\ s.bm \in SUBSET Priorities
      /\ s.ts \in [Threads -> ThreadStates]
      /\ priority[t] \in Priorities
  BY DEF Good, SchedType
<1>1. r \in SchedType
  BY <1>0 DEF SchedType, ThreadStates
<1>2. r.ts[t] = "ready" /\ \A u \in Threads : u # t => r.ts[u] = s.ts[u]
  BY <1>0
<1>3. /\ r.rq[priority[t]] = l
      /\ \A p \in Priorities : p # priority[t] => r.rq[p] = s.rq[p]
  BY <1>0
<1>4. ASSUME NEW p \in Priorities, NEW u \in Threads
      PROVE  IsIn(u, r.rq[p]) <=> r.ts[u] = "ready" /\ priority[u] = p
  BY <1>2, <1>3 DEF Good
<1>5. \A p \in Priorities : NoRepeat(r.rq[p])
  BY <1>3 DEF Good
<1>6. l # <<>>
  BY EmptyFacts
<1>7. \A p \in Priorities : p \in r.bm <=> r.rq[p] # <<>>
  BY <1>0, <1>3, <1>6 DEF Good
<1> QED BY <1>1, <1>4, <1>5, <1>7 DEF Good

LEMMA InsertHeadGood ==
  ASSUME priority \in [Threads -> Priorities],
         NEW s, Good(s), NEW t \in Threads, s.ts[t] # "ready"
  PROVE  /\ Good(InsertHead(s, t))
         /\ InsertHead(s, t).ts = [s.ts EXCEPT ![t] = "ready"]
<1> DEFINE old == s.rq[priority[t]]
<1>1. priority[t] \in Priorities /\ old \in Seq(Threads)
  BY DEF Good, SchedType
<1>2. ~IsIn(t, old) /\ NoRepeat(old)
  BY <1>1 DEF Good
<1>3. /\ <<t>> \o old \in Seq(Threads)
      /\ NoRepeat(<<t>> \o old)
      /\ \A u \in Threads : IsIn(u, <<t>> \o old) <=> IsIn(u, old) \/ u = t
  BY <1>1, <1>2, PushFacts
<1>4. InsertHead(s, t) = [rq |-> [s.rq EXCEPT ![priority[t]] = <<t>> \o old],
                          bm |-> s.bm \cup {priority[t]},
                          ts |-> [s.ts EXCEPT ![t] = "ready"]]
  BY DEF InsertHead
<1> DEFINE l == <<t>> \o old
<1> HIDE DEF l, old
<1>5. Good(InsertHead(s, t))
  BY <1>3, <1>4, LinkGood DEF l, old
<1> QED BY <1>4, <1>5

LEMMA InsertTailGood ==
  ASSUME priority \in [Threads -> Priorities],
         NEW s, Good(s), NEW t \in Threads, s.ts[t] # "ready"
  PROVE  /\ Good(InsertTail(s, t))
         /\ InsertTail(s, t).ts = [s.ts EXCEPT ![t] = "ready"]
<1> DEFINE old == s.rq[priority[t]]
<1>1. priority[t] \in Priorities /\ old \in Seq(Threads)
  BY DEF Good, SchedType
<1>2. ~IsIn(t, old) /\ NoRepeat(old)
  BY <1>1 DEF Good
<1>3. /\ Append(old, t) \in Seq(Threads)
      /\ NoRepeat(Append(old, t))
      /\ \A u \in Threads : IsIn(u, Append(old, t)) <=> IsIn(u, old) \/ u = t
  BY <1>1, <1>2, AppendFacts
<1>4. InsertTail(s, t) = [rq |-> [s.rq EXCEPT ![priority[t]] = Append(old, t)],
                          bm |-> s.bm \cup {priority[t]},
                          ts |-> [s.ts EXCEPT ![t] = "ready"]]
  BY DEF InsertTail
<1> DEFINE l == Append(old, t)
<1> HIDE DEF l, old
<1>5. Good(InsertTail(s, t))
  BY <1>3, <1>4, LinkGood DEF l, old
<1> QED BY <1>4, <1>5

LEMMA SetStateGood ==
  ASSUME NEW s, Good(s), NEW t \in Threads, s.ts[t] # "ready",
         NEW x \in ThreadStates, x # "ready"
  PROVE  /\ Good(SetState(s, t, x))
         /\ SetState(s, t, x).ts = [s.ts EXCEPT ![t] = x]
<1> DEFINE r == SetState(s, t, x)
<1>1. /\ s.rq \in [Priorities -> Seq(Threads)]
      /\ s.bm \in SUBSET Priorities
      /\ s.ts \in [Threads -> ThreadStates]
  BY DEF Good, SchedType
<1>2. r.rq = s.rq /\ r.bm = s.bm /\ r.ts = [s.ts EXCEPT ![t] = x]
  BY DEF Good, SchedType, SetState
<1>3. r \in SchedType
  BY <1>1 DEF Good, SchedType, SetState
<1>4. \A u \in Threads : r.ts[u] = "ready" <=> s.ts[u] = "ready"
  BY <1>1, <1>2
<1> HIDE DEF r
<1>5. Good(r)
  BY <1>2, <1>3, <1>4 DEF Good
<1> QED BY <1>2, <1>5 DEF r

\* thread_resched takes the head of the highest run queue that is not empty: a
\* thread none of those ready is above.
LEMMA ReschedGood ==
  ASSUME priority \in [Threads -> Priorities],
         quantum \in [Threads -> 0 .. Quantum],
         NEW s, Good(s), NEW v \in Threads, s.ts[v] = "ready",
         NEW q \in [Threads -> 0 .. Quantum],
         priority' = priority, Resched(s, q)
  PROVE  /\ Good(Sched)'
         /\ current' \in Threads
         /\ s.ts[current'] = "ready"
         /\ tstate' = [s.ts EXCEPT ![current'] = "running"]
         /\ \A u \in Threads :
              s.ts[u] = "ready" => priority[u] <= priority[current']
         /\ quantum' \in [Threads -> 0 .. Quantum]
<1> DEFINE p == CHOOSE x \in s.bm : \A y \in s.bm : y <= x
           n == Head(s.rq[p])
<1>0. /\ s.rq \in [Priorities -> Seq(Threads)]
      /\ s.bm \in SUBSET Priorities
      /\ s.ts \in [Threads -> ThreadStates]
  BY DEF Good, SchedType
<1>1. \A u \in Threads : s.ts[u] = "ready" => priority[u] \in s.bm
  <2> SUFFICES ASSUME NEW u \in Threads, s.ts[u] = "ready"
               PROVE  priority[u] \in s.bm
    OBVIOUS
  <2>1. priority[u] \in Priorities /\ IsIn(u, s.rq[priority[u]])
    BY DEF Good
  <2>2. s.rq[priority[u]] # <<>>
    BY <2>1, EmptyFacts
  <2> QED BY <2>1, <2>2 DEF Good
<1>2. \E x \in s.bm : \A y \in s.bm : y <= x
  BY <1>0, <1>1, PriorityFacts, GreatestOf
<1>3. p \in s.bm /\ \A y \in s.bm : y <= p
  BY <1>2
<1> HIDE DEF p
<1>4. p \in Priorities /\ s.rq[p] # <<>> /\ s.rq[p] \in Seq(Threads) /\ NoRepeat(s.rq[p])
  BY <1>0, <1>3 DEF Good
<1>5. /\ n \in Threads /\ IsIn(n, s.rq[p])
      /\ Tail(s.rq[p]) \in Seq(Threads)
      /\ NoRepeat(Tail(s.rq[p]))
      /\ \A u : IsIn(u, Tail(s.rq[p])) <=> IsIn(u, s.rq[p]) /\ u # n
  BY <1>4, TailFacts
<1> HIDE DEF n
<1>6. s.ts[n] = "ready" /\ priority[n] = p
  BY <1>4, <1>5 DEF Good
<1>7. /\ runq' = [s.rq EXCEPT ![p] = Tail(s.rq[p])]
      /\ bitmap' = IF Tail(s.rq[p]) = <<>> THEN s.bm \ {p} ELSE s.bm
      /\ tstate' = [s.ts EXCEPT ![n] = "running"]
      /\ current' = n
      /\ quantum' = IF n # current /\ q[n] = 0 THEN [q EXCEPT ![n] = Quantum] ELSE q
  BY DEF Resched, n, p
<1>8. quantum' \in [Threads -> 0 .. Quantum]
  <2>1. Quantum \in 0 .. Quantum
    BY QuantumAssumption
  <2>2. [q EXCEPT ![n] = Quantum] \in [Threads -> 0 .. Quantum]
    BY <2>1
  <2> QED BY <1>7, <2>2
<1>9. Good(Sched)'
  <2> DEFINE r == [rq |-> runq', bm |-> bitmap', ts |-> tstate']
  <2>1. r \in SchedType
    BY <1>0, <1>5, <1>7 DEF SchedType, ThreadStates
  <2>2. /\ runq'[p] = Tail(s.rq[p])
        /\ \A x \in Priorities : x # p => runq'[x] = s.rq[x]
    BY <1>0, <1>4, <1>7
  <2>3. tstate'[n] = "running" /\ \A u \in Threads : u # n => tstate'[u] = s.ts[u]
    BY <1>0, <1>5, <1>7
  <2>4. ASSUME NEW x \in Priorities, NEW u \in Threads
        PROVE  IsIn(u, runq'[x]) <=> tstate'[u] = "ready" /\ priority[u] = x
    <3>1. IsIn(u, s.rq[x]) <=> s.ts[u] = "ready" /\ priority[u] = x
      BY DEF Good
    <3>2. CASE x = p
      BY <1>5, <1>6, <2>2, <2>3, <3>1, <3>2
    <3>3. CASE x # p
      BY <1>6, <2>2, <2>3, <3>1, <3>3
    <3> QED BY <3>2, <3>3
  <2>5. \A x \in Priorities : NoRepeat(runq'[x])
    <3>1. \A x \in Priorities : NoRepeat(s.rq[x])
      BY DEF Good
    <3> QED BY <1>5, <2>2, <3>1
  <2>6. \A x \in Priorities : x \in bitmap' <=> runq'[x] # <<>>
    BY <1>3, <1>7, <2>2 DEF Good
  <2>7. Sched' = r
    BY DEF Sched
  <2> QED BY <2>1, <2>4, <2>5, <2>6, <2>7 DEF Good
<1> QED BY <1>1, <1>3, <1>5, <1>6, <1>7, <1>8, <1>9

\* A list of threads that are in no run queue, one after the other.
LEMMA InsertHeadsGood ==
  ASSUME priority \in [Threads -> Priorities],
         NEW s, Good(s), NEW l \in Seq(Threads), NoRepeat(l),
         \A u \in Threads : IsIn(u, l) => s.ts[u] # "ready"
  PROVE  /\ Good(InsertHeads(s, l))
         /\ InsertHeads(s, l).ts =
              [u \in Threads |-> IF IsIn(u, l) THEN "ready" ELSE s.ts[u]]
<1> DEFINE upto[i \in 0 .. Len(l)] ==
             IF i = 0 THEN s ELSE InsertHead(upto[i - 1], l[i])
<1>0. /\ Len(l) \in Nat
      /\ DOMAIN l = 1 .. Len(l)
      /\ \A i \in 1 .. Len(l) : l[i] \in Threads
  BY LenProperties, ElementOfSeq
<1>1. InsertHeads(s, l) = upto[Len(l)]
  BY DEF InsertHeads
<1>2. upto = [i \in 0 .. Len(l) |->
                IF i = 0 THEN s ELSE InsertHead(upto[i - 1], l[i])]
  <2> DEFINE Sat(f, k) == f = [i \in 0 .. k |->
                                 IF i = 0 THEN s ELSE InsertHead(f[i - 1], l[i])]
             S == {k \in Nat : \E f : Sat(f, k)}
  <2>1. 0 \in S
    <3> DEFINE f == [i \in 0 .. 0 |-> s]
    <3>1. Sat(f, 0)
      OBVIOUS
    <3> QED BY <3>1
  <2>2. ASSUME NEW k \in Nat, k \in S PROVE k + 1 \in S
    <3>1. PICK f : Sat(f, k)
      BY <2>2
    <3> DEFINE g == [i \in 0 .. k + 1 |->
                       IF i <= k THEN f[i] ELSE InsertHead(f[k], l[k + 1])]
    <3>2. ASSUME NEW i \in 0 .. k + 1
          PROVE  g[i] = IF i = 0 THEN s ELSE InsertHead(g[i - 1], l[i])
      <4>1. CASE i = 0
        BY <3>1, <4>1
      <4>2. CASE i \in 1 .. k
        <5>1. i - 1 \in 0 .. k /\ i \in 0 .. k /\ i # 0
          BY <4>2
        <5>2. f[i] = InsertHead(f[i - 1], l[i])
          BY <3>1, <5>1
        <5>3. g[i] = f[i] /\ g[i - 1] = f[i - 1]
          BY <5>1
        <5> QED BY <5>1, <5>2, <5>3
      <4>3. CASE i = k + 1
        <5>1. g[i] = InsertHead(f[k], l[i])
          BY <4>3
        <5>2. g[i - 1] = f[k] /\ i # 0
          BY <4>3
        <5> QED BY <5>1, <5>2
      <4> QED BY <4>1, <4>2, <4>3
    <3>3. Sat(g, k + 1)
      BY <3>2
    <3> HIDE DEF g
    <3>4. \E h : Sat(h, k + 1)
      BY <3>3
    <3> QED BY <3>4
  <2>3. Len(l) \in S
    <3> HIDE DEF S
    <3> QED BY <1>0, <2>1, <2>2, NatSetInduction
  <2>4. \E f : Sat(f, Len(l))
    BY <2>3
  <2> QED BY <2>4
<1> HIDE DEF upto
<1> DEFINE In(u, k) == \E i \in 1 .. k : l[i] = u
           Claim(k) ==
             /\ Good(upto[k])
             /\ \A u \in Threads :
                  upto[k].ts[u] = IF In(u, k) THEN "ready" ELSE s.ts[u]
           S == {k \in Nat : k <= Len(l) => Claim(k)}
<1>3. 0 \in S
  <2>1. upto[0] = s
    BY <1>0, <1>2
  <2> QED BY <2>1
<1>4. ASSUME NEW k \in Nat, k \in S PROVE k + 1 \in S
  <2> SUFFICES ASSUME k + 1 <= Len(l) PROVE Claim(k + 1)
    OBVIOUS
  <2>1. Claim(k)
    BY <1>0, <1>4
  <2>2. k + 1 \in 0 .. Len(l) /\ k + 1 # 0 /\ (k + 1) - 1 = k
    BY <1>0
  <2>3. upto[k + 1] = InsertHead(upto[k], l[k + 1])
    BY <1>2, <2>2
  <2>4. l[k + 1] \in Threads /\ k + 1 \in 1 .. Len(l)
    BY <1>0, <2>2
  <2>5. ~In(l[k + 1], k)
    BY <1>0, <2>4 DEF NoRepeat
  <2>6. s.ts[l[k + 1]] # "ready"
    BY <1>0, <2>4 DEF IsIn
  <2>7. upto[k].ts[l[k + 1]] # "ready"
    BY <2>1, <2>4, <2>5, <2>6
  <2>8. /\ Good(upto[k + 1])
        /\ upto[k + 1].ts = [upto[k].ts EXCEPT ![l[k + 1]] = "ready"]
    <3> DEFINE r == upto[k]
               t == l[k + 1]
    <3>1. Good(r) /\ t \in Threads /\ r.ts[t] # "ready"
      BY <2>1, <2>4, <2>7
    <3> HIDE DEF r, t
    <3>2. /\ Good(InsertHead(r, t))
          /\ InsertHead(r, t).ts = [r.ts EXCEPT ![t] = "ready"]
      BY <3>1, InsertHeadGood
    <3>3. upto[k + 1] = InsertHead(r, t)
      BY <2>3 DEF r, t
    <3> QED BY <3>2, <3>3 DEF r, t
  <2>9. ASSUME NEW u \in Threads
        PROVE  upto[k + 1].ts[u] = IF In(u, k + 1) THEN "ready" ELSE s.ts[u]
    <3>1. In(u, k + 1) <=> In(u, k) \/ u = l[k + 1]
      OBVIOUS
    <3>2. upto[k].ts \in [Threads -> ThreadStates]
      BY <2>1 DEF Good, SchedType
    <3>3. CASE u = l[k + 1]
      BY <2>8, <3>1, <3>2, <3>3
    <3>4. CASE u # l[k + 1]
      BY <2>1, <2>8, <3>1, <3>2, <3>4
    <3> QED BY <3>3, <3>4
  <2> QED BY <2>8, <2>9
<1>5. Claim(Len(l))
  <2>1. Len(l) \in S
    <3> HIDE DEF S
    <3> QED BY <1>0, <1>3, <1>4, NatSetInduction
  <2> QED BY <1>0, <2>1
<1>6. \A u : In(u, Len(l)) <=> IsIn(u, l)
  BY <1>0 DEF IsIn
<1>7. InsertHeads(s, l).ts \in [Threads -> ThreadStates]
  BY <1>1, <1>5 DEF Good, SchedType
<1>8. \A u \in Threads :
        InsertHeads(s, l).ts[u] = IF IsIn(u, l) THEN "ready" ELSE s.ts[u]
  BY <1>1, <1>5, <1>6
<1> QED BY <1>1, <1>5, <1>7, <1>8

-----------------------------------------------------------------------------
(***************************************************************************)
(* Steps of the kernel.                                                    *)
(***************************************************************************)
SchedTypeOK ==
  /\ tstate \in [Threads -> ThreadStates]
  /\ runq \in [Priorities -> Seq(Threads)]
  /\ bitmap \in SUBSET Priorities
  /\ current \in Threads
  /\ quantum \in [Threads -> 0 .. Quantum]

LEMMA SchedFacts ==
  /\ Sched.rq = runq /\ Sched.bm = bitmap /\ Sched.ts = tstate
  /\ Good(Sched) => /\ tstate \in [Threads -> ThreadStates]
                    /\ runq \in [Priorities -> Seq(Threads)]
                    /\ bitmap \in SUBSET Priorities
<1>1. Sched.rq = runq /\ Sched.bm = bitmap /\ Sched.ts = tstate
  BY DEF Sched
<1> QED BY <1>1 DEF Good, SchedType

\* no thread has the CPU and the idle thread can be given it
Vacant(s) ==
  /\ \A u \in Threads : s.ts[u] # "running"
  /\ s.ts[Idle] = "ready"

\* no thread that is ready is above the one that runs
Elected ==
  \A u \in Threads : tstate[u] = "ready" => priority[u] <= priority[current]

LEMMA SwitchFacts ==
  ASSUME KernelInv, NEW s, Good(s), Vacant(s),
         NEW q \in [Threads -> 0 .. Quantum], Resched(s, q), priority' = priority
  PROVE  /\ Good(Sched)' /\ OneRuns' /\ SchedTypeOK' /\ Elected'
         /\ s.ts[current'] = "ready"
         /\ \A u \in Threads :
              tstate'[u] = IF u = current' THEN "running" ELSE s.ts[u]
<1>1. Idle \in Threads /\ s.ts[Idle] = "ready"
  BY ThreadsAssumption DEF Vacant
<1>2. priority \in [Threads -> Priorities] /\ quantum \in [Threads -> 0 .. Quantum]
  BY DEF KernelInv, TypeOK
<1>3. /\ Good(Sched)'
      /\ current' \in Threads
      /\ s.ts[current'] = "ready"
      /\ tstate' = [s.ts EXCEPT ![current'] = "running"]
      /\ \A u \in Threads :
           s.ts[u] = "ready" => priority[u] <= priority[current']
      /\ quantum' \in [Threads -> 0 .. Quantum]
  BY <1>1, <1>2, ReschedGood
<1>4. s.ts \in [Threads -> ThreadStates]
  BY DEF Good, SchedType
<1>5. \A u \in Threads :
        tstate'[u] = IF u = current' THEN "running" ELSE s.ts[u]
  BY <1>3, <1>4
<1>6. OneRuns'
  BY <1>5 DEF OneRuns, Vacant
<1>7. SchedTypeOK'
  <2>1. Sched' = [rq |-> runq', bm |-> bitmap', ts |-> tstate']
    BY DEF Sched
  <2>2. Sched' \in SchedType
    BY <1>3 DEF Good
  <2>3. /\ tstate' \in [Threads -> ThreadStates]
        /\ runq' \in [Priorities -> Seq(Threads)]
        /\ bitmap' \in SUBSET Priorities
    BY <2>1, <2>2 DEF SchedType
  <2> QED BY <1>3, <2>3 DEF SchedTypeOK
<1>8. Elected'
  BY <1>3, <1>5 DEF Elected
<1> QED BY <1>3, <1>5, <1>6, <1>7, <1>8

LEMMA StayFacts ==
  ASSUME KernelInv, NEW s, Good(s), Stay(s), priority' = priority,
         \A u \in Threads : s.ts[u] = "running" <=> u = current
  PROVE  Good(Sched)' /\ OneRuns' /\ SchedTypeOK' /\ tstate' = s.ts
<1>1. runq' = s.rq /\ bitmap' = s.bm /\ tstate' = s.ts
      /\ current' = current /\ quantum' = quantum
  BY DEF Stay
<1>2. s.rq \in [Priorities -> Seq(Threads)] /\ s.bm \in SUBSET Priorities
      /\ s.ts \in [Threads -> ThreadStates]
  BY DEF Good, SchedType
<1>3. SchedTypeOK'
  BY <1>1, <1>2 DEF SchedTypeOK, KernelInv, TypeOK
<1>4. OneRuns'
  BY <1>1 DEF OneRuns
<1>5. Sched' = [rq |-> s.rq, bm |-> s.bm, ts |-> s.ts]
  BY <1>1 DEF Sched
<1>6. Good(Sched)'
  <2> DEFINE r == [rq |-> s.rq, bm |-> s.bm, ts |-> s.ts]
  <2>1. r \in SchedType
    BY <1>2 DEF SchedType
  <2>2. r.rq = s.rq /\ r.bm = s.bm /\ r.ts = s.ts
    OBVIOUS
  <2> HIDE DEF r
  <2> QED BY <1>5, <2>1, <2>2 DEF Good, r
<1> QED BY <1>1, <1>3, <1>4, <1>6

\* The current thread gives up the CPU, for state x.
LEMMA LeaveFacts ==
  ASSUME KernelInv, current # Idle,
         NEW x \in {"blocked", "sleeping", "death"}
  PROVE  /\ Good(SetState(Sched, current, x)) /\ Vacant(SetState(Sched, current, x))
         /\ SetState(Sched, current, x).ts = [tstate EXCEPT ![current] = x]
<1>1. current \in Threads /\ tstate \in [Threads -> ThreadStates]
  BY DEF KernelInv, TypeOK
<1>2. Good(Sched) /\ Sched.ts = tstate /\ tstate[current] = "running"
  BY <1>1, SchedFacts DEF KernelInv, OneRuns
<1>3. x \in ThreadStates /\ x # "ready"
  BY DEF ThreadStates
<1>4. /\ Good(SetState(Sched, current, x))
      /\ SetState(Sched, current, x).ts = [tstate EXCEPT ![current] = x]
  <2>1. Sched.ts[current] # "ready"
    BY <1>2
  <2> DEFINE r == Sched
             c == current
  <2>2. Good(r) /\ c \in Threads /\ r.ts[c] # "ready"
    BY <1>1, <1>2, <2>1
  <2> HIDE DEF r, c
  <2>3. Good(SetState(r, c, x)) /\ SetState(r, c, x).ts = [r.ts EXCEPT ![c] = x]
    BY <1>3, <2>2, SetStateGood
  <2> QED BY <1>2, <2>3 DEF r, c
<1>5. tstate[Idle] = "ready" /\ Idle \in Threads
  BY <1>1, ThreadsAssumption DEF KernelInv, OneRuns, IdleReady
<1>6. Vacant(SetState(Sched, current, x))
  BY <1>1, <1>4, <1>5 DEF Vacant, KernelInv, OneRuns
<1> QED BY <1>4, <1>6

\* The current thread goes back to its run queue.
LEMMA YieldFacts ==
  ASSUME KernelInv,
         NEW s \in {InsertHead(Sched, current), InsertTail(Sched, current)}
  PROVE  /\ Good(s) /\ Vacant(s)
         /\ s.ts = [tstate EXCEPT ![current] = "ready"]
<1>1. current \in Threads /\ tstate \in [Threads -> ThreadStates]
      /\ priority \in [Threads -> Priorities]
  BY DEF KernelInv, TypeOK
<1>2. Good(Sched) /\ Sched.ts = tstate /\ tstate[current] = "running"
  BY <1>1, SchedFacts DEF KernelInv, OneRuns
<1>3. Good(s) /\ s.ts = [tstate EXCEPT ![current] = "ready"]
  <2>1. CASE s = InsertHead(Sched, current)
    BY <1>1, <1>2, <2>1, InsertHeadGood
  <2>2. CASE s = InsertTail(Sched, current)
    BY <1>1, <1>2, <2>2, InsertTailGood
  <2> QED BY <2>1, <2>2
<1>4. Vacant(s)
  BY <1>1, <1>3, ThreadsAssumption DEF Vacant, KernelInv, OneRuns, IdleReady
<1> QED BY <1>3, <1>4

\* A thread that waits, sleeps or is suspended is made ready beside the others.
LEMMA ReadyFacts ==
  ASSUME KernelInv, NEW s, Good(s), NEW u \in Threads,
         s.ts[u] \in {"blocked", "sleeping", "suspended"}
  PROVE  /\ Good(InsertHead(s, u))
         /\ InsertHead(s, u).ts = [s.ts EXCEPT ![u] = "ready"]
         /\ Vacant(s) => Vacant(InsertHead(s, u))
<1>1. priority \in [Threads -> Priorities] /\ s.ts \in [Threads -> ThreadStates]
  BY DEF KernelInv, TypeOK, Good, SchedType
<1>2. /\ Good(InsertHead(s, u))
      /\ InsertHead(s, u).ts = [s.ts EXCEPT ![u] = "ready"]
  BY <1>1, InsertHeadGood
<1>3. Vacant(s) => Vacant(InsertHead(s, u))
  BY <1>1, <1>2, ThreadsAssumption DEF Vacant
<1> QED BY <1>2, <1>3

\* What is left of the type invariant once the scheduler's part is settled.
LEMMA KernelTypeOK ==
  ASSUME SchedTypeOK', priority' \in [Threads -> Priorities],
         waitq' \in [Queues -> Seq(Threads)],
         waitret' \in [Threads -> Status],
         timer' \in [Threads -> Timers],
         pc' \in [Threads -> {"run"} \cup Queues],
         irq' \in {"none", "tick", "resched"}
  PROVE  TypeOK'
  BY DEF TypeOK, SchedTypeOK

LEMMA BlockOnStep ==
  ASSUME KernelInv, NEW t \in Threads, NEW q \in Queues, NEW timed \in BOOLEAN,
         Calls(t), BlockOn(t, q, timed)
  PROVE  /\ KernelInv' /\ Elected'
         /\ tstate'[t] = "blocked"
         /\ \A u \in Threads : u # t => (tstate'[u] = "blocked" <=> tstate[u] = "blocked")
<1> DEFINE s == SetState(Sched, t, "blocked")
<1>0. /\ t = current /\ t # Idle /\ pc[t] = "run" /\ tstate[t] = "running"
      /\ tstate \in [Threads -> ThreadStates] /\ Idle \in Threads
      /\ waitq \in [Queues -> Seq(Threads)] /\ pc \in [Threads -> {"run"} \cup Queues]
      /\ timer \in [Threads -> Timers] /\ timer[t] = "off"
      /\ q # "run"
  BY ThreadsAssumption, QueuesAssumption
     DEF Calls, KernelInv, TypeOK, OneRuns, TimerOnLiveStack, Timers
<1>1. Good(s) /\ Vacant(s) /\ s.ts = [tstate EXCEPT ![t] = "blocked"]
  BY <1>0, LeaveFacts
<1> HIDE DEF s
<1>2. Resched(s, quantum) /\ priority' = priority /\ irq' = irq
      /\ quantum \in [Threads -> 0 .. Quantum]
  BY DEF BlockOn, s, KernelInv, TypeOK
<1>3. /\ Good(Sched)' /\ OneRuns' /\ SchedTypeOK' /\ Elected'
      /\ s.ts[current'] = "ready"
      /\ \A u \in Threads :
           tstate'[u] = IF u = current' THEN "running" ELSE s.ts[u]
  BY <1>1, <1>2, SwitchFacts
<1>4. /\ current' \in Threads /\ current' # t
      /\ tstate[current'] = "ready"
  BY <1>0, <1>1, <1>3 DEF SchedTypeOK
<1>5. \A u \in Threads :
        tstate'[u] = IF u = t THEN "blocked"
                     ELSE IF u = current' THEN "running" ELSE tstate[u]
  BY <1>0, <1>1, <1>3, <1>4
<1>6. /\ waitq' = [waitq EXCEPT ![q] = Append(waitq[q], t)]
      /\ waitret' = [waitret EXCEPT ![t] = NoError]
      /\ timer' = IF timed THEN [timer EXCEPT ![t] = "wait"] ELSE timer
      /\ pc' = [pc EXCEPT ![t] = q]
  BY DEF BlockOn
<1>7. /\ Append(waitq[q], t) \in Seq(Threads)
      /\ \A u : IsIn(u, Append(waitq[q], t)) <=> IsIn(u, waitq[q]) \/ u = t
      /\ NoRepeat(waitq[q]) /\ ~IsIn(t, waitq[q]) => NoRepeat(Append(waitq[q], t))
  BY <1>0, AppendFacts
<1>8. TypeOK'
  <2>1. /\ waitq' \in [Queues -> Seq(Threads)]
        /\ waitret' \in [Threads -> Status]
        /\ timer' \in [Threads -> Timers]
        /\ pc' \in [Threads -> {"run"} \cup Queues]
    BY <1>0, <1>6, <1>7 DEF KernelInv, TypeOK, Status, Timers
  <2> QED BY <1>2, <1>3, <2>1, KernelTypeOK DEF KernelInv, TypeOK
<1>9. Waiting'
  <2>1. \A u \in Threads, r \in Queues :
          IsIn(u, waitq'[r]) <=> IsIn(u, waitq[r]) \/ (u = t /\ r = q)
    BY <1>0, <1>6, <1>7
  <2>2. ~ \E r \in Queues : IsIn(t, waitq[r])
    BY <1>0 DEF KernelInv, Waiting
  <2>3. \A u \in Threads :
          tstate'[u] = "blocked" <=> \E r \in Queues : IsIn(u, waitq'[r])
    BY <1>4, <1>5, <2>1, <2>2 DEF KernelInv, Waiting
  <2>4. \A r \in Queues, u \in Threads : IsIn(u, waitq'[r]) => pc'[u] = r
    BY <1>0, <1>6, <2>1, <2>2 DEF KernelInv, Waiting
  <2>5. \A r \in Queues : NoRepeat(waitq'[r])
    BY <1>0, <1>6, <1>7, <2>2 DEF KernelInv, Waiting
  <2>6. \A u \in Threads :
          pc'[u] # "run" => tstate'[u] \in {"blocked", "ready", "running"}
    BY <1>0, <1>5, <1>6 DEF KernelInv, Waiting
  <2> QED BY <2>3, <2>4, <2>5, <2>6 DEF Waiting
<1>10. IdleReady'
  BY <1>0, <1>2, <1>5, <1>6 DEF KernelInv, IdleReady
<1>11. TimerOnLiveStack'
  BY <1>0, <1>4, <1>5, <1>6 DEF KernelInv, TimerOnLiveStack, ThreadStates
<1> QED BY <1>3, <1>4, <1>5, <1>8, <1>9, <1>10, <1>11 DEF KernelInv

LEMMA BlockReturnStep ==
  ASSUME KernelInv, NEW t \in Threads, NEW q \in Queues,
         Resumes(t, q), BlockReturn(t)
  PROVE  KernelInv'
<1>0. /\ t = current /\ pc[t] = q /\ tstate[t] = "running" /\ q # "run"
      /\ pc \in [Threads -> {"run"} \cup Queues] /\ timer \in [Threads -> Timers]
  BY QueuesAssumption DEF Resumes, KernelInv, TypeOK, OneRuns
<1>1. /\ timer' = [timer EXCEPT ![t] = "off"]
      /\ pc' = [pc EXCEPT ![t] = "run"]
      /\ UNCHANGED <<schedvars, priority, waitq, waitret, irq>>
  BY DEF BlockReturn
<1>2. TypeOK'
  BY <1>0, <1>1 DEF KernelInv, TypeOK, Timers, schedvars
<1>3. Good(Sched)' /\ OneRuns'
  BY <1>1 DEF KernelInv, Good, SchedType, Sched, OneRuns, schedvars
<1>4. Waiting'
  <2>1. ~ \E r \in Queues : IsIn(t, waitq[r])
    BY <1>0 DEF KernelInv, Waiting
  <2> QED BY <1>0, <1>1, <2>1 DEF KernelInv, Waiting, schedvars
<1>5. IdleReady'
  BY <1>0, <1>1, ThreadsAssumption DEF KernelInv, IdleReady, schedvars
<1>6. TimerOnLiveStack'
  BY <1>0, <1>1 DEF KernelInv, TimerOnLiveStack, schedvars
<1> QED BY <1>2, <1>3, <1>4, <1>5, <1>6 DEF KernelInv

(***************************************************************************)
(* The steps that make the threads of W ready and otherwise only pass the  *)
(* CPU around among threads that are ready or running.                     *)
(***************************************************************************)
Wakes(W) ==
  /\ Good(Sched)' /\ OneRuns' /\ SchedTypeOK'
  /\ Elected' \/ current' = current
  /\ \A u \in W : tstate[u] \in {"blocked", "sleeping", "suspended"}
  /\ \A u \in Threads :
       IF u \in W \/ tstate[u] \in {"ready", "running"}
         THEN tstate'[u] \in {"ready", "running"}
         ELSE tstate'[u] = tstate[u]
  /\ UNCHANGED <<priority, pc>>
  /\ timer' \in [Threads -> Timers]
  /\ \A u \in Threads : timer'[u] \in {timer[u], "off"}
  /\ \A u \in W : timer'[u] # "sleep"
  /\ waitq' \in [Queues -> Seq(Threads)]
  /\ \A q \in Queues :
       /\ NoRepeat(waitq'[q])
       /\ \A u \in Threads : IsIn(u, waitq'[q]) <=> IsIn(u, waitq[q]) /\ u \notin W
  /\ waitret' \in [Threads -> Status]
  /\ irq' \in {"none", "tick", "resched"}

LEMMA WakesInv ==
  ASSUME KernelInv, NEW W \in SUBSET Threads, Wakes(W)
  PROVE  KernelInv'
<1>1. TypeOK'
  BY KernelTypeOK DEF Wakes, KernelInv, TypeOK
<1>2. Good(Sched)' /\ OneRuns'
  BY DEF Wakes
<1>3. Waiting'
  <2>1. ASSUME NEW u \in Threads
        PROVE  tstate'[u] = "blocked" <=> \E q \in Queues : IsIn(u, waitq'[q])
    <3>1. tstate'[u] = "blocked" <=> tstate[u] = "blocked" /\ u \notin W
      BY DEF Wakes
    <3> QED BY <3>1 DEF Wakes, KernelInv, Waiting
  <2>2. \A q \in Queues, u \in Threads : IsIn(u, waitq'[q]) => pc'[u] = q
    BY DEF Wakes, KernelInv, Waiting
  <2>3. \A q \in Queues : NoRepeat(waitq'[q])
    BY DEF Wakes
  <2>4. \A u \in Threads :
          pc'[u] # "run" => tstate'[u] \in {"blocked", "ready", "running"}
    BY DEF Wakes, KernelInv, Waiting
  <2> QED BY <2>1, <2>2, <2>3, <2>4 DEF Waiting
<1>4. IdleReady'
  BY ThreadsAssumption DEF Wakes, KernelInv, IdleReady
<1>5. TimerOnLiveStack'
  <2> SUFFICES ASSUME NEW u \in Threads
               PROVE  /\ timer'[u] = "wait" =>
                           pc'[u] # "run" /\ tstate'[u] \notin {"suspended", "death"}
                      /\ timer'[u] = "sleep" => tstate'[u] = "sleeping"
    BY DEF TimerOnLiveStack
  <2>1. ASSUME timer'[u] = "wait"
        PROVE  pc'[u] # "run" /\ tstate'[u] \notin {"suspended", "death"}
    BY <2>1 DEF Wakes, KernelInv, TimerOnLiveStack
  <2>2. ASSUME timer'[u] = "sleep" PROVE tstate'[u] = "sleeping"
    BY <2>2 DEF Wakes, KernelInv, TimerOnLiveStack
  <2> QED BY <2>1, <2>2
<1> QED BY <1>1, <1>2, <1>3, <1>4, <1>5 DEF KernelInv

\* What a switch or a stay does, after the threads of W were made ready.
LEMMA PassCPU ==
  ASSUME KernelInv, NEW W \in SUBSET Threads,
         \A u \in W : tstate[u] \in {"blocked", "sleeping", "suspended"},
         NEW s, Good(s), priority' = priority,
         \A u \in Threads :
           s.ts[u] = IF u \in W THEN "ready" ELSE
                     IF u = current /\ Vacant(s) THEN "ready" ELSE tstate[u],
         \/ Vacant(s) /\ \E q \in [Threads -> 0 .. Quantum] : Resched(s, q)
         \/ ~Vacant(s) /\ Stay(s)
  PROVE  /\ Good(Sched)' /\ OneRuns' /\ SchedTypeOK'
         /\ IF Vacant(s) THEN Elected' ELSE current' = current
         /\ \A u \in Threads :
              IF u \in W \/ tstate[u] \in {"ready", "running"}
                THEN tstate'[u] \in {"ready", "running"}
                ELSE tstate'[u] = tstate[u]
<1>0. /\ \A u \in Threads : tstate[u] = "running" <=> u = current
      /\ current \in Threads
  BY DEF KernelInv, OneRuns, TypeOK
<1>1. CASE Vacant(s)
  <2>1. PICK q \in [Threads -> 0 .. Quantum] : Resched(s, q)
    BY <1>1
  <2>2. /\ Good(Sched)' /\ OneRuns' /\ SchedTypeOK' /\ Elected'
        /\ s.ts[current'] = "ready"
        /\ \A u \in Threads :
             tstate'[u] = IF u = current' THEN "running" ELSE s.ts[u]
    BY <1>1, <2>1, SwitchFacts
  <2>3. current' \in Threads
    BY <2>2 DEF SchedTypeOK
  <2> QED BY <1>0, <1>1, <2>2, <2>3
<1>2. CASE ~Vacant(s)
  <2>1. \A u \in Threads : s.ts[u] = "running" <=> u = current
    BY <1>0, <1>2
  <2>2. Good(Sched)' /\ OneRuns' /\ SchedTypeOK' /\ tstate' = s.ts
        /\ current' = current
    BY <1>2, <2>1, StayFacts DEF Stay
  <2> QED BY <1>0, <1>2, <2>2
<1> QED BY <1>1, <1>2

\* the scheduler a wake starts from
LEMMA WakeFrom ==
  ASSUME KernelInv, NEW r \in BOOLEAN,
         NEW s, s = IF r THEN InsertHead(Sched, current) ELSE Sched
  PROVE  /\ Good(s)
         /\ Vacant(s) <=> r
         /\ \A u \in Threads :
              s.ts[u] = IF r /\ u = current THEN "ready" ELSE tstate[u]
<1>0. current \in Threads /\ tstate \in [Threads -> ThreadStates]
      /\ tstate[current] = "running"
  BY DEF KernelInv, TypeOK, OneRuns
<1>1. CASE r
  <2>1. Good(s) /\ Vacant(s) /\ s.ts = [tstate EXCEPT ![current] = "ready"]
    BY <1>1, YieldFacts
  <2> QED BY <1>0, <1>1, <2>1
<1>2. CASE ~r
  <2>1. s = Sched /\ s.ts = tstate /\ Good(s)
    BY <1>2, SchedFacts DEF KernelInv
  <2> QED BY <1>0, <1>2, <2>1 DEF Vacant
<1> QED BY <1>1, <1>2

LEMMA WakeOneStep ==
  ASSUME KernelInv, NEW q \in Queues, waitq[q] # <<>>,
         NEW r \in BOOLEAN, NEW err \in Status, WakeOne(q, r, err)
  PROVE  /\ Head(waitq[q]) \in Threads
         /\ tstate[Head(waitq[q])] = "blocked" /\ pc[Head(waitq[q])] = q
         /\ Wakes({Head(waitq[q])})
<1> DEFINE h == Head(waitq[q])
           s0 == IF r THEN InsertHead(Sched, current) ELSE Sched
           s == InsertHead(s0, h)
<1>0. /\ waitq \in [Queues -> Seq(Threads)] /\ waitq[q] \in Seq(Threads)
      /\ NoRepeat(waitq[q])
      /\ waitret \in [Threads -> Status] /\ timer \in [Threads -> Timers]
      /\ irq \in {"none", "tick", "resched"}
      /\ quantum \in [Threads -> 0 .. Quantum] /\ current \in Threads
  BY DEF KernelInv, TypeOK, Waiting
<1>1. /\ h \in Threads /\ IsIn(h, waitq[q])
      /\ Tail(waitq[q]) \in Seq(Threads)
      /\ NoRepeat(Tail(waitq[q]))
      /\ \A u : IsIn(u, Tail(waitq[q])) <=> IsIn(u, waitq[q]) /\ u # h
  BY <1>0, TailFacts
<1>2. /\ waitq' = [waitq EXCEPT ![q] = Tail(waitq[q])]
      /\ waitret' = [waitret EXCEPT ![h] = err]
      /\ IF r THEN Resched(s, quantum) ELSE Stay(s)
      /\ UNCHANGED <<priority, timer, pc, irq>>
  BY DEF WakeOne
<1> HIDE DEF h
<1>3. tstate[h] = "blocked" /\ pc[h] = q
  BY <1>1 DEF KernelInv, Waiting
<1>4. h # current
  BY <1>1, <1>3 DEF KernelInv, OneRuns
<1>5. /\ Good(s0) /\ (Vacant(s0) <=> r)
      /\ \A u \in Threads :
           s0.ts[u] = IF r /\ u = current THEN "ready" ELSE tstate[u]
  BY WakeFrom
<1> HIDE DEF s0
<1>6. /\ Good(s) /\ s.ts = [s0.ts EXCEPT ![h] = "ready"]
      /\ Vacant(s0) => Vacant(s)
  BY <1>1, <1>3, <1>4, <1>5, ReadyFacts
<1> HIDE DEF s
<1>7. s0.ts \in [Threads -> ThreadStates]
  BY <1>5 DEF Good, SchedType
<1>8. \A u \in Threads :
        s.ts[u] = IF u = h \/ (r /\ u = current) THEN "ready" ELSE tstate[u]
  BY <1>1, <1>5, <1>6, <1>7
<1>9. Vacant(s) <=> r
  <2>1. tstate[current] = "running"
    BY <1>0 DEF KernelInv, OneRuns
  <2> QED BY <1>0, <1>4, <1>5, <1>6, <1>8, <2>1 DEF Vacant
<1>10. /\ Good(Sched)' /\ OneRuns' /\ SchedTypeOK'
       /\ Elected' \/ current' = current
       /\ \A u \in Threads :
            IF u \in {h} \/ tstate[u] \in {"ready", "running"}
              THEN tstate'[u] \in {"ready", "running"}
              ELSE tstate'[u] = tstate[u]
  <2>1. \A u \in {h} : tstate[u] \in {"blocked", "sleeping", "suspended"}
    BY <1>3
  <2>2. \A u \in Threads :
          s.ts[u] = IF u \in {h} THEN "ready" ELSE
                    IF u = current /\ Vacant(s) THEN "ready" ELSE tstate[u]
    BY <1>8, <1>9
  <2>3. \/ Vacant(s) /\ \E x \in [Threads -> 0 .. Quantum] : Resched(s, x)
        \/ ~Vacant(s) /\ Stay(s)
    BY <1>0, <1>2, <1>9
  <2>4. {h} \in SUBSET Threads
    BY <1>1
  <2> QED BY <1>2, <1>6, <2>1, <2>2, <2>3, <2>4, PassCPU
<1>11. timer[h] # "sleep"
  BY <1>1, <1>3 DEF KernelInv, TimerOnLiveStack
<1>12. ASSUME NEW p \in Queues
       PROVE  /\ NoRepeat(waitq'[p])
              /\ \A u \in Threads :
                   IsIn(u, waitq'[p]) <=> IsIn(u, waitq[p]) /\ u \notin {h}
  <2>1. CASE p = q
    BY <1>0, <1>1, <1>2, <2>1
  <2>2. CASE p # q
    <3>1. waitq'[p] = waitq[p]
      BY <1>0, <1>2, <2>2
    <3>2. ~IsIn(h, waitq[p])
      BY <1>1, <1>3, <2>2 DEF KernelInv, Waiting
    <3> QED BY <3>1, <3>2 DEF KernelInv, Waiting
  <2> QED BY <2>1, <2>2
<1>13. waitq' \in [Queues -> Seq(Threads)] /\ waitret' \in [Threads -> Status]
  BY <1>0, <1>1, <1>2
<1>14. Wakes({h})
  BY <1>0, <1>2, <1>3, <1>10, <1>11, <1>12, <1>13 DEF Wakes
<1> QED BY <1>1, <1>3, <1>14 DEF h

LEMMA WakeAllStep ==
  ASSUME KernelInv, NEW q \in Queues,
         NEW r \in BOOLEAN, NEW err \in Status, WakeAll(q, r, err)
  PROVE  /\ \A u \in Threads : IsIn(u, waitq[q]) => tstate[u] = "blocked" /\ pc[u] = q
         /\ Wakes({u \in Threads : IsIn(u, waitq[q])})
<1> DEFINE W == {u \in Threads : IsIn(u, waitq[q])}
           s0 == IF r THEN InsertHead(Sched, current) ELSE Sched
           s == InsertHeads(s0, waitq[q])
<1>0. /\ waitq \in [Queues -> Seq(Threads)] /\ waitq[q] \in Seq(Threads)
      /\ NoRepeat(waitq[q])
      /\ waitret \in [Threads -> Status] /\ timer \in [Threads -> Timers]
      /\ irq \in {"none", "tick", "resched"}
      /\ quantum \in [Threads -> 0 .. Quantum] /\ current \in Threads
      /\ priority \in [Threads -> Priorities]
  BY DEF KernelInv, TypeOK, Waiting
<1>2. /\ waitq' = [waitq EXCEPT ![q] = <<>>]
      /\ waitret' = [u \in Threads |-> IF IsIn(u, waitq[q]) THEN err ELSE waitret[u]]
      /\ IF r THEN Resched(s, quantum) ELSE Stay(s)
      /\ UNCHANGED <<priority, timer, pc, irq>>
  BY DEF WakeAll
<1>3. \A u \in Threads : IsIn(u, waitq[q]) => tstate[u] = "blocked" /\ pc[u] = q
  BY DEF KernelInv, Waiting
<1>4. current \notin W
  BY <1>0, <1>3 DEF KernelInv, OneRuns
<1>5. /\ Good(s0) /\ (Vacant(s0) <=> r)
      /\ \A u \in Threads :
           s0.ts[u] = IF r /\ u = current THEN "ready" ELSE tstate[u]
  BY WakeFrom
<1> HIDE DEF s0
<1>6. /\ Good(s)
      /\ s.ts = [u \in Threads |-> IF IsIn(u, waitq[q]) THEN "ready" ELSE s0.ts[u]]
  <2>1. \A u \in Threads : IsIn(u, waitq[q]) => s0.ts[u] # "ready"
    BY <1>3, <1>4, <1>5
  <2> QED BY <1>0, <1>5, <2>1, InsertHeadsGood
<1> HIDE DEF s
<1>8. \A u \in Threads :
        s.ts[u] = IF u \in W \/ (r /\ u = current) THEN "ready" ELSE tstate[u]
  BY <1>5, <1>6
<1>9. Vacant(s) <=> r
  <2>1. tstate[current] = "running"
    BY <1>0 DEF KernelInv, OneRuns
  <2>2. r => Vacant(s)
    BY <1>5, <1>6, ThreadsAssumption DEF Vacant
  <2> QED BY <1>0, <1>4, <1>8, <2>1, <2>2 DEF Vacant
<1>10. /\ Good(Sched)' /\ OneRuns' /\ SchedTypeOK'
       /\ Elected' \/ current' = current
       /\ \A u \in Threads :
            IF u \in W \/ tstate[u] \in {"ready", "running"}
              THEN tstate'[u] \in {"ready", "running"}
              ELSE tstate'[u] = tstate[u]
  <2>1. \A u \in W : tstate[u] \in {"blocked", "sleeping", "suspended"}
    BY <1>3
  <2>2. \A u \in Threads :
          s.ts[u] = IF u \in W THEN "ready" ELSE
                    IF u = current /\ Vacant(s) THEN "ready" ELSE tstate[u]
    BY <1>8, <1>9
  <2>3. \/ Vacant(s) /\ \E x \in [Threads -> 0 .. Quantum] : Resched(s, x)
        \/ ~Vacant(s) /\ Stay(s)
    BY <1>0, <1>2, <1>9
  <2>4. W \in SUBSET Threads
    OBVIOUS
  <2> HIDE DEF W
  <2> QED BY <1>2, <1>6, <2>1, <2>2, <2>3, <2>4, PassCPU
<1>11. \A u \in W : timer[u] # "sleep"
  BY <1>3 DEF KernelInv, TimerOnLiveStack
<1>12. ASSUME NEW p \in Queues
       PROVE  /\ NoRepeat(waitq'[p])
              /\ \A u \in Threads :
                   IsIn(u, waitq'[p]) <=> IsIn(u, waitq[p]) /\ u \notin W
  <2>1. CASE p = q
    BY <1>0, <1>2, <2>1, EmptyFacts
  <2>2. CASE p # q
    <3>1. waitq'[p] = waitq[p]
      BY <1>0, <1>2, <2>2
    <3>2. \A u \in W : ~IsIn(u, waitq[p])
      BY <1>3, <2>2 DEF KernelInv, Waiting
    <3> QED BY <3>1, <3>2 DEF KernelInv, Waiting
  <2> QED BY <2>1, <2>2
<1>13. waitq' \in [Queues -> Seq(Threads)] /\ waitret' \in [Threads -> Status]
  BY <1>0, <1>2, EmptyFacts
<1>14. \A u \in W : tstate[u] \in {"blocked", "sleeping", "suspended"}
  BY <1>3
<1>15. Wakes(W)
  <2> HIDE DEF W
  <2> QED BY <1>0, <1>2, <1>10, <1>11, <1>12, <1>13, <1>14 DEF Wakes
<1> QED BY <1>3, <1>15

LEMMA TickBeginStep ==
  ASSUME KernelInv, TickBegin
  PROVE  Wakes({}) /\ UNCHANGED waitret
<1>1. irq' = "tick" /\ UNCHANGED <<schedvars, priority, waitq, waitret, timer, pc>>
  BY DEF TickBegin
<1>2. Good(Sched)' /\ OneRuns' /\ SchedTypeOK'
  BY <1>1 DEF KernelInv, TypeOK, Good, SchedType, Sched, OneRuns, SchedTypeOK, schedvars
<1> QED BY <1>1, <1>2 DEF Wakes, KernelInv, TypeOK, Waiting, schedvars

\* A step of the current thread or of the interrupt that wakes nobody and leaves
\* the wait queues alone.
LEMMA YieldStep ==
  ASSUME KernelInv, NEW s \in {InsertHead(Sched, current), InsertTail(Sched, current)},
         NEW q \in [Threads -> 0 .. Quantum], Resched(s, q),
         UNCHANGED <<priority, waitq, waitret, timer, pc>>,
         irq' \in {"none", "tick", "resched"}
  PROVE  Wakes({}) /\ UNCHANGED waitret /\ Elected'
<1>1. Good(s) /\ Vacant(s) /\ s.ts = [tstate EXCEPT ![current] = "ready"]
  BY YieldFacts
<1>2. \A u \in Threads :
        s.ts[u] = IF u \in {} THEN "ready" ELSE
                  IF u = current /\ Vacant(s) THEN "ready" ELSE tstate[u]
  BY <1>1 DEF KernelInv, TypeOK
<1>3. /\ Good(Sched)' /\ OneRuns' /\ SchedTypeOK' /\ Elected'
      /\ \A u \in Threads :
           IF u \in {} \/ tstate[u] \in {"ready", "running"}
             THEN tstate'[u] \in {"ready", "running"}
             ELSE tstate'[u] = tstate[u]
  <2> HIDE DEF Vacant
  <2> DEFINE W == {}
  <2>1. /\ W \in SUBSET Threads
        /\ \A u \in W : tstate[u] \in {"blocked", "sleeping", "suspended"}
    OBVIOUS
  <2>2. \A u \in Threads :
          s.ts[u] = IF u \in W THEN "ready" ELSE
                    IF u = current /\ Vacant(s) THEN "ready" ELSE tstate[u]
    BY <1>2
  <2> HIDE DEF W
  <2>3. /\ Good(Sched)' /\ OneRuns' /\ SchedTypeOK' /\ Elected'
        /\ \A u \in Threads :
             IF u \in W \/ tstate[u] \in {"ready", "running"}
               THEN tstate'[u] \in {"ready", "running"}
               ELSE tstate'[u] = tstate[u]
    BY <1>1, <2>1, <2>2, PassCPU
  <2> QED BY <2>3 DEF W
<1> QED BY <1>3 DEF Wakes, KernelInv, TypeOK, Waiting

LEMMA TickEndStep ==
  ASSUME KernelInv, TickEnd
  PROVE  /\ Wakes({}) /\ UNCHANGED waitret
         /\ Elected' \/ (irq # "resched" /\ UNCHANGED <<tstate, current>>)
<1> DEFINE q == IF current = Idle \/ quantum[current] = 0 THEN quantum
                ELSE [quantum EXCEPT ![current] = @ - 1]
           expired == current # Idle /\ q[current] = 0
           s == IF q[current] > 0 THEN InsertHead(Sched, current)
                                  ELSE InsertTail(Sched, current)
<1>0. quantum \in [Threads -> 0 .. Quantum] /\ current \in Threads
  BY DEF KernelInv, TypeOK
<1>1. q \in [Threads -> 0 .. Quantum]
  <2>1. quantum[current] # 0 => quantum[current] - 1 \in 0 .. Quantum
    BY <1>0, QuantumAssumption
  <2> QED BY <1>0, <2>1
<1>2. /\ IF irq = "resched" \/ expired
           THEN Resched(s, q)
           ELSE quantum' = q /\ UNCHANGED <<tstate, runq, bitmap, current>>
      /\ irq' = "none"
      /\ UNCHANGED <<priority, waitq, waitret, timer, pc>>
  BY DEF TickEnd
<1>3. s \in {InsertHead(Sched, current), InsertTail(Sched, current)}
  OBVIOUS
<1>4. CASE irq = "resched" \/ expired
  <2> HIDE DEF q, s, expired
  <2> QED BY <1>1, <1>2, <1>3, <1>4, YieldStep
<1>5. CASE ~(irq = "resched" \/ expired)
  <2> HIDE DEF q, s, expired
  <2>1. quantum' = q /\ UNCHANGED <<tstate, runq, bitmap, current>>
    BY <1>2, <1>5
  <2>2. Good(Sched)' /\ OneRuns' /\ SchedTypeOK'
    BY <1>1, <1>2, <2>1
       DEF KernelInv, TypeOK, Good, SchedType, Sched, OneRuns, SchedTypeOK
  <2>3. Wakes({})
    BY <1>2, <2>1, <2>2 DEF Wakes, KernelInv, TypeOK, Waiting
  <2> QED BY <1>2, <1>5, <2>1, <2>3
<1> HIDE DEF q, s, expired
<1> QED BY <1>4, <1>5

LEMMA YieldCallStep ==
  ASSUME KernelInv, NEW t \in Threads, thread_yield(t)
  PROVE  Wakes({}) /\ UNCHANGED waitret
<1> DEFINE q == [quantum EXCEPT ![t] = 0]
           s == InsertTail(Sched, current)
<1>1. q \in [Threads -> 0 .. Quantum]
  BY QuantumAssumption DEF KernelInv, TypeOK
<1>2. t = current /\ Resched(s, q)
      /\ UNCHANGED <<priority, waitq, waitret, timer, pc, irq>>
  BY DEF thread_yield, Calls
<1>3. irq' \in {"none", "tick", "resched"}
  BY <1>2 DEF KernelInv, TypeOK
<1>4. s \in {InsertHead(Sched, current), InsertTail(Sched, current)}
  OBVIOUS
<1> HIDE DEF q, s
<1> QED BY <1>1, <1>2, <1>3, <1>4, YieldStep

\* One thread is made ready by an interrupt, and the current one stays.
LEMMA ExpireStep ==
  ASSUME KernelInv, NEW t \in Threads, tstate[t] \in {"blocked", "sleeping"},
         Stay(InsertHead(Sched, t)), UNCHANGED <<priority, pc>>,
         timer' = [timer EXCEPT ![t] = "off"],
         \A q \in Queues : waitq'[q] = Remove(waitq[q], t),
         waitq' = [q \in Queues |-> waitq'[q]],
         waitret' \in [Threads -> Status], irq' \in {"none", "tick", "resched"}
  PROVE  Wakes({t})
<1> DEFINE s == InsertHead(Sched, t)
<1>0. /\ timer \in [Threads -> Timers] /\ waitq \in [Queues -> Seq(Threads)]
      /\ tstate \in [Threads -> ThreadStates]
      /\ tstate[current] = "running" /\ current \in Threads
      /\ \A q \in Queues : NoRepeat(waitq[q])
  BY DEF KernelInv, TypeOK, OneRuns, Waiting
<1>1. Good(s) /\ s.ts = [tstate EXCEPT ![t] = "ready"]
  BY SchedFacts, ReadyFacts DEF KernelInv
<1>2. ~Vacant(s)
  BY <1>0, <1>1 DEF Vacant
<1> HIDE DEF s
<1>3. /\ Good(Sched)' /\ OneRuns' /\ SchedTypeOK' /\ current' = current
      /\ \A u \in Threads :
           IF u \in {t} \/ tstate[u] \in {"ready", "running"}
             THEN tstate'[u] \in {"ready", "running"}
             ELSE tstate'[u] = tstate[u]
  <2>1. \A u \in Threads :
          s.ts[u] = IF u \in {t} THEN "ready" ELSE
                    IF u = current /\ Vacant(s) THEN "ready" ELSE tstate[u]
    BY <1>0, <1>1, <1>2
  <2>2. ~Vacant(s) /\ Stay(s)
    BY <1>2 DEF s
  <2>3. /\ {t} \in SUBSET Threads
        /\ \A u \in {t} : tstate[u] \in {"blocked", "sleeping", "suspended"}
    OBVIOUS
  <2>4. priority' = priority
    OBVIOUS
  <2> QED BY <1>1, <2>1, <2>2, <2>3, <2>4, PassCPU
<1>4. \A q \in Queues : /\ waitq'[q] \in Seq(Threads)
                        /\ NoRepeat(waitq'[q])
                        /\ \A u \in Threads :
                             IsIn(u, waitq'[q]) <=> IsIn(u, waitq[q]) /\ u \notin {t}
  BY <1>0, RemoveFacts
<1>5. waitq' \in [Queues -> Seq(Threads)]
  BY <1>4
<1>6. /\ timer' \in [Threads -> Timers]
      /\ \A u \in Threads : timer'[u] \in {timer[u], "off"}
      /\ timer'[t] # "sleep"
  BY <1>0 DEF Timers
<1> QED BY <1>3, <1>4, <1>5, <1>6 DEF Wakes

LEMMA SleepExpiresStep ==
  ASSUME KernelInv, NEW t \in Threads, SleepExpires(t)
  PROVE  Wakes({t}) /\ tstate[t] = "sleeping" /\ UNCHANGED waitret
<1>1. /\ tstate[t] = "sleeping"
      /\ waitq \in [Queues -> Seq(Threads)] /\ waitret \in [Threads -> Status]
      /\ \A q \in Queues : ~IsIn(t, waitq[q])
  BY DEF SleepExpires, KernelInv, TimerOnLiveStack, TypeOK, Waiting
<1>2. /\ timer' = [timer EXCEPT ![t] = "off"]
      /\ Stay(InsertHead(Sched, t))
      /\ irq' = "resched"
      /\ UNCHANGED <<priority, waitq, waitret, pc>>
  BY DEF SleepExpires
<1>3. \A q \in Queues : waitq'[q] = Remove(waitq[q], t)
  BY <1>1, <1>2 DEF Remove
<1> QED BY <1>1, <1>2, <1>3, ExpireStep

LEMMA WaitExpiresStep ==
  ASSUME KernelInv, NEW t \in Threads, WaitExpires(t)
  PROVE  \/ Wakes({}) /\ UNCHANGED waitret
         \/ /\ Wakes({t}) /\ tstate[t] = "blocked"
            /\ waitret' = [waitret EXCEPT ![t] = TimedOut]
<1>0. /\ waitq \in [Queues -> Seq(Threads)] /\ waitret \in [Threads -> Status]
      /\ timer \in [Threads -> Timers]
  BY DEF KernelInv, TypeOK
<1>1. timer' = [timer EXCEPT ![t] = "off"] /\ UNCHANGED <<priority, pc>>
  BY DEF WaitExpires
<1>2. CASE tstate[t] = "blocked"
  <2>1. /\ waitq' = [q \in Queues |-> Remove(waitq[q], t)]
        /\ waitret' = [waitret EXCEPT ![t] = TimedOut]
        /\ Stay(InsertHead(Sched, t))
        /\ irq' = "resched"
    BY <1>2 DEF WaitExpires
  <2>2. waitret' \in [Threads -> Status]
    BY <1>0, <2>1 DEF Status
  <2> QED BY <1>1, <1>2, <2>1, <2>2, ExpireStep
<1>3. CASE tstate[t] # "blocked"
  <2>1. UNCHANGED <<schedvars, waitq, waitret, irq>>
    BY <1>3 DEF WaitExpires
  <2>2. Good(Sched)' /\ OneRuns' /\ SchedTypeOK'
    BY <1>1, <2>1
       DEF KernelInv, TypeOK, Good, SchedType, Sched, OneRuns, SchedTypeOK, schedvars
  <2>3. /\ timer' \in [Threads -> Timers]
        /\ \A u \in Threads : timer'[u] \in {timer[u], "off"}
    BY <1>0, <1>1 DEF Timers
  <2> QED BY <1>1, <2>1, <2>2, <2>3 DEF Wakes, KernelInv, TypeOK, Waiting, schedvars
<1> QED BY <1>2, <1>3

LEMMA ResumeStep ==
  ASSUME KernelInv, NEW t \in Threads, NEW u \in Threads, thread_resume(t, u)
  PROVE  Wakes({u}) /\ tstate[u] = "suspended" /\ UNCHANGED waitret
<1> DEFINE q == [quantum EXCEPT ![t] = 0]
           s0 == InsertHead(Sched, u)
           s == InsertTail(s0, t)
<1>0. /\ t = current /\ tstate[u] = "suspended" /\ tstate[t] = "running" /\ u # t
      /\ tstate \in [Threads -> ThreadStates] /\ priority \in [Threads -> Priorities]
      /\ timer \in [Threads -> Timers] /\ waitret \in [Threads -> Status]
      /\ waitq \in [Queues -> Seq(Threads)] /\ irq \in {"none", "tick", "resched"}
  BY DEF thread_resume, Calls, KernelInv, TypeOK, OneRuns
<1>1. q \in [Threads -> 0 .. Quantum]
  BY QuantumAssumption DEF KernelInv, TypeOK
<1>2. Resched(s, q) /\ UNCHANGED <<priority, waitq, waitret, timer, pc, irq>>
  BY DEF thread_resume
<1>3. Good(s0) /\ s0.ts = [tstate EXCEPT ![u] = "ready"]
  BY <1>0, SchedFacts, ReadyFacts DEF KernelInv
<1> HIDE DEF s0, q
<1>4. Good(s) /\ s.ts = [s0.ts EXCEPT ![t] = "ready"]
  BY <1>0, <1>3, InsertTailGood
<1>5. \A v \in Threads : s.ts[v] = IF v = u \/ v = t THEN "ready" ELSE tstate[v]
  BY <1>0, <1>3, <1>4
<1> HIDE DEF s
<1>6. Vacant(s)
  BY <1>0, <1>5, ThreadsAssumption DEF Vacant, KernelInv, OneRuns, IdleReady
<1>7. /\ Good(Sched)' /\ OneRuns' /\ SchedTypeOK' /\ Elected'
      /\ \A v \in Threads :
           IF v \in {u} \/ tstate[v] \in {"ready", "running"}
             THEN tstate'[v] \in {"ready", "running"}
             ELSE tstate'[v] = tstate[v]
  <2>1. \A v \in Threads :
          s.ts[v] = IF v \in {u} THEN "ready" ELSE
                    IF v = current /\ Vacant(s) THEN "ready" ELSE tstate[v]
    BY <1>0, <1>5, <1>6
  <2>2. /\ {u} \in SUBSET Threads
        /\ \A v \in {u} : tstate[v] \in {"blocked", "sleeping", "suspended"}
    BY <1>0
  <2> QED BY <1>1, <1>2, <1>4, <1>6, <2>1, <2>2, PassCPU
<1>8. /\ \A r \in Queues : ~IsIn(u, waitq[r])
      /\ timer[u] # "sleep"
  BY <1>0 DEF KernelInv, Waiting, TimerOnLiveStack
<1>9. Wakes({u})
  BY <1>0, <1>2, <1>7, <1>8 DEF Wakes, KernelInv, Waiting
<1> QED BY <1>0, <1>2, <1>9

\* The current thread goes to sleep or dies.
LEMMA LeaveStep ==
  ASSUME KernelInv, NEW t \in Threads, Calls(t),
         NEW x \in {"sleeping", "death"}, Resched(SetState(Sched, t, x), quantum),
         timer' = IF x = "sleeping" THEN [timer EXCEPT ![t] = "sleep"] ELSE timer,
         UNCHANGED <<priority, waitq, waitret, pc, irq>>
  PROVE  /\ KernelInv' /\ Elected'
         /\ \A u \in Threads : tstate'[u] = "blocked" <=> tstate[u] = "blocked"
<1> DEFINE s == SetState(Sched, t, x)
<1>0. /\ t = current /\ t # Idle /\ pc[t] = "run" /\ tstate[t] = "running"
      /\ tstate \in [Threads -> ThreadStates] /\ Idle \in Threads
      /\ timer \in [Threads -> Timers] /\ timer[t] = "off"
      /\ quantum \in [Threads -> 0 .. Quantum]
  BY ThreadsAssumption
     DEF Calls, KernelInv, TypeOK, OneRuns, TimerOnLiveStack, Timers
<1>1. Good(s) /\ Vacant(s) /\ s.ts = [tstate EXCEPT ![t] = x]
  BY <1>0, LeaveFacts
<1>2. Resched(s, quantum) /\ priority' = priority
  OBVIOUS
<1> HIDE DEF s
<1>3. /\ Good(Sched)' /\ OneRuns' /\ SchedTypeOK' /\ Elected'
      /\ s.ts[current'] = "ready"
      /\ \A u \in Threads :
           tstate'[u] = IF u = current' THEN "running" ELSE s.ts[u]
  BY <1>0, <1>1, <1>2, SwitchFacts
<1>4. current' \in Threads /\ current' # t /\ tstate[current'] = "ready"
  BY <1>0, <1>1, <1>3 DEF SchedTypeOK
<1>5. \A u \in Threads :
        tstate'[u] = IF u = t THEN x
                     ELSE IF u = current' THEN "running" ELSE tstate[u]
  BY <1>0, <1>1, <1>3, <1>4
<1>6. TypeOK'
  <2>1. timer' \in [Threads -> Timers]
    BY <1>0 DEF Timers
  <2> QED BY <1>3, <2>1, KernelTypeOK DEF KernelInv, TypeOK
<1>7. Waiting'
  <2>1. \A u \in Threads : tstate'[u] = "blocked" <=> tstate[u] = "blocked"
    BY <1>0, <1>4, <1>5
  <2>2. \A u \in Threads :
          pc[u] # "run" => tstate'[u] \in {"blocked", "ready", "running"}
    BY <1>0, <1>5 DEF KernelInv, Waiting
  <2> QED BY <2>1, <2>2 DEF KernelInv, Waiting
<1>8. IdleReady'
  BY <1>0, <1>5 DEF KernelInv, IdleReady
<1>9. TimerOnLiveStack'
  BY <1>0, <1>4, <1>5 DEF KernelInv, TimerOnLiveStack
<1>10. \A u \in Threads : tstate'[u] = "blocked" <=> tstate[u] = "blocked"
  BY <1>0, <1>4, <1>5
<1> QED BY <1>3, <1>6, <1>7, <1>8, <1>9, <1>10 DEF KernelInv

LEMMA SetPriorityStep ==
  ASSUME KernelInv, NEW t \in Threads, NEW p \in NewPriorities,
         thread_set_priority(t, p)
  PROVE  KernelInv' /\ UNCHANGED <<tstate, waitret, pc, waitq>>
<1>0. /\ t = current /\ t # Idle /\ tstate[t] = "running" /\ p \in Priorities
      /\ priority \in [Threads -> Priorities]
  BY PriorityAssumption
     DEF thread_set_priority, Calls, KernelInv, TypeOK, OneRuns, Priorities
<1>1. /\ priority' = [priority EXCEPT ![t] = p]
      /\ UNCHANGED <<tstate, runq, bitmap, current, quantum>>
      /\ UNCHANGED <<waitq, waitret, timer, pc, irq>>
  BY DEF thread_set_priority, schedvars
<1>2. TypeOK'
  BY <1>0, <1>1 DEF KernelInv, TypeOK
<1>3. Good(Sched)'
  <2>1. \A u \in Threads : u # t => priority'[u] = priority[u]
    BY <1>0, <1>1
  <2>2. Sched' = Sched
    BY <1>1 DEF Sched
  <2>3. Sched.ts = tstate
    BY SchedFacts
  <2>4. Good(Sched)
    BY DEF KernelInv
  <2>5. Sched.ts[t] # "ready"
    BY <1>0, <2>3
  <2> HIDE DEF Sched
  <2>6. \A x \in Priorities, u \in Threads :
          IsIn(u, Sched.rq[x]) <=> Sched.ts[u] = "ready" /\ priority'[u] = x
    BY <2>1, <2>4, <2>5 DEF Good
  <2> QED BY <2>2, <2>4, <2>6 DEF Good, SchedType
<1>4. OneRuns' /\ Waiting' /\ TimerOnLiveStack'
  BY <1>1 DEF KernelInv, OneRuns, Waiting, TimerOnLiveStack
<1>5. IdleReady'
  BY <1>0, <1>1, ThreadsAssumption DEF KernelInv, IdleReady
<1> QED BY <1>1, <1>2, <1>3, <1>4, <1>5 DEF KernelInv

\* What a step of the kernel alone means to those who wait: nothing, or one of
\* them times out.
Quiet ==
  /\ UNCHANGED <<pc, waitret>>
  /\ \A u \in Threads : tstate'[u] = "blocked" <=> tstate[u] = "blocked"

TimesOut(t) ==
  /\ tstate[t] = "blocked"
  /\ UNCHANGED pc
  /\ waitret' = [waitret EXCEPT ![t] = TimedOut]
  /\ \A u \in Threads :
       tstate'[u] = "blocked" <=> tstate[u] = "blocked" /\ u # t

LEMMA WakesBlocked ==
  ASSUME KernelInv, NEW W, Wakes(W)
  PROVE  \A u \in Threads :
           tstate'[u] = "blocked" <=> tstate[u] = "blocked" /\ u \notin W
  BY DEF Wakes

LEMMA ThreadStep ==
  ASSUME KernelInv, ThreadNext
  PROVE  KernelInv' /\ (Quiet \/ \E t \in Threads : TimesOut(t))
<1>1. ASSUME Wakes({}), UNCHANGED waitret PROVE KernelInv' /\ Quiet
  <2> DEFINE W == {}
  <2>1. W \in SUBSET Threads /\ Wakes(W)
    BY <1>1
  <2>2. \A u : u \notin W
    OBVIOUS
  <2> HIDE DEF W
  <2>3. KernelInv'
    BY <2>1, WakesInv
  <2>4. \A u \in Threads : tstate'[u] = "blocked" <=> tstate[u] = "blocked"
    BY <2>1, <2>2, WakesBlocked
  <2>5. UNCHANGED <<pc, waitret>>
    BY <1>1, <2>1 DEF Wakes
  <2> QED BY <2>3, <2>4, <2>5 DEF Quiet
<1>2. ASSUME NEW u \in Threads, Wakes({u}) PROVE KernelInv'
  <2>1. {u} \in SUBSET Threads
    OBVIOUS
  <2> QED BY <1>2, <2>1, WakesInv
<1>3. ASSUME NEW u \in Threads, Wakes({u}), tstate[u] # "blocked", UNCHANGED waitret
      PROVE  KernelInv' /\ Quiet
  <2>1. \A v \in Threads : tstate'[v] = "blocked" <=> tstate[v] = "blocked"
    BY <1>3, WakesBlocked
  <2>2. UNCHANGED <<pc, waitret>>
    BY <1>3 DEF Wakes
  <2> QED BY <1>2, <1>3, <2>1, <2>2 DEF Quiet
<1>4. CASE TickBegin
  BY <1>1, <1>4, TickBeginStep
<1>5. CASE TickEnd
  BY <1>1, <1>5, TickEndStep
<1>6. ASSUME NEW t \in Threads, SleepExpires(t) PROVE KernelInv' /\ Quiet
  BY <1>3, <1>6, SleepExpiresStep
<1>7. ASSUME NEW t \in Threads, WaitExpires(t)
      PROVE  KernelInv' /\ (Quiet \/ TimesOut(t))
  <2>1. CASE Wakes({}) /\ UNCHANGED waitret
    BY <1>1, <2>1
  <2>2. CASE /\ Wakes({t}) /\ tstate[t] = "blocked"
             /\ waitret' = [waitret EXCEPT ![t] = TimedOut]
    <3>1. \A v \in Threads :
            tstate'[v] = "blocked" <=> tstate[v] = "blocked" /\ v # t
      BY <2>2, WakesBlocked
    <3>2. UNCHANGED pc
      BY <2>2 DEF Wakes
    <3> QED BY <1>2, <2>2, <3>1, <3>2 DEF TimesOut
  <2> QED BY <1>7, <2>1, <2>2, WaitExpiresStep
<1>8. ASSUME NEW t \in Threads, thread_yield(t) PROVE KernelInv' /\ Quiet
  BY <1>1, <1>8, YieldCallStep
<1>9. ASSUME NEW t \in Threads, thread_sleep(t) \/ thread_exit(t)
      PROVE  KernelInv' /\ Quiet
  <2>1. Calls(t) /\ UNCHANGED <<priority, waitq, waitret, pc, irq>>
    BY <1>9 DEF thread_sleep, thread_exit
  <2>2. \E x \in {"sleeping", "death"} :
          /\ Resched(SetState(Sched, t, x), quantum)
          /\ timer' = IF x = "sleeping" THEN [timer EXCEPT ![t] = "sleep"] ELSE timer
    BY <1>9 DEF thread_sleep, thread_exit
  <2>3. /\ KernelInv'
        /\ \A u \in Threads : tstate'[u] = "blocked" <=> tstate[u] = "blocked"
    BY <2>1, <2>2, LeaveStep
  <2> QED BY <2>1, <2>3 DEF Quiet
<1>10. ASSUME NEW t \in Threads, NEW u \in Threads, thread_resume(t, u)
       PROVE  KernelInv' /\ Quiet
  BY <1>3, <1>10, ResumeStep
<1>11. ASSUME NEW t \in Threads, NEW p \in NewPriorities, thread_set_priority(t, p)
       PROVE  KernelInv' /\ Quiet
  BY <1>11, SetPriorityStep DEF Quiet
<1> QED BY <1>4, <1>5, <1>6, <1>7, <1>8, <1>9, <1>10, <1>11 DEF ThreadNext

LEMMA KernelInit == Init => KernelInv
<1> SUFFICES ASSUME Init PROVE KernelInv
  OBVIOUS
<1>0. /\ Idle \in Threads /\ Root \in Threads /\ Root # Idle
      /\ Priority0 \in [Threads -> Priorities]
      /\ \A t \in Threads : Priority0[t] = 0 <=> t = Idle
      /\ 0 \in Priorities /\ Quantum \in 0 .. Quantum /\ 0 \in 0 .. Quantum
      /\ "run" \notin Queues
  BY ThreadsAssumption, PriorityAssumption, PriorityFacts, QuantumAssumption,
     QueuesAssumption DEF Priorities
<1>1. TypeOK
  <2>1. <<Idle>> \in Seq(Threads) /\ <<>> \in Seq(Threads)
    BY <1>0
  <2> QED BY <1>0, <2>1 DEF Init, TypeOK, ThreadStates, Status, Timers
<1>2. \A t : IsIn(t, <<Idle>>) <=> t = Idle
  BY DEF IsIn
<1>3. NoRepeat(<<Idle>>) /\ NoRepeat(<<>>) /\ \A t : ~IsIn(t, <<>>)
  BY DEF NoRepeat, IsIn
<1>4. Good(Sched)
  <2>1. Sched \in SchedType
    BY <1>1 DEF TypeOK, Sched, SchedType
  <2>2. \A p \in Priorities : runq[p] = IF p = 0 THEN <<Idle>> ELSE <<>>
    BY DEF Init
  <2>3. \A t \in Threads : tstate[t] = "ready" <=> t = Idle
    BY <1>0 DEF Init
  <2>4. \A p \in Priorities, t \in Threads :
          IsIn(t, runq[p]) <=> tstate[t] = "ready" /\ priority[t] = p
    BY <1>0, <1>2, <1>3, <2>2, <2>3 DEF Init
  <2>5. \A p \in Priorities : NoRepeat(runq[p])
    BY <1>3, <2>2
  <2>6. \A p \in Priorities : p \in bitmap <=> runq[p] # <<>>
    BY <2>2 DEF Init
  <2> QED BY <2>1, <2>4, <2>5, <2>6, SchedFacts DEF Good
<1>5. OneRuns
  BY <1>0 DEF Init, OneRuns
<1>6. Waiting
  BY <1>0, <1>3 DEF Init, Waiting
<1>7. IdleReady
  BY <1>0 DEF Init, IdleReady
<1>8. TimerOnLiveStack
  BY DEF Init, TimerOnLiveStack
<1> QED BY <1>1, <1>4, <1>5, <1>6, <1>7, <1>8 DEF KernelInv

-----------------------------------------------------------------------------
(***************************************************************************)
(* The theorems.                                                           *)
(***************************************************************************)
LEMMA WakeSteps ==
  ASSUME KernelInv, NEW q \in Queues, waitq[q] # <<>>,
         NEW r \in BOOLEAN, NEW err \in Status,
         WakeOne(q, r, err) \/ WakeAll(q, r, err)
  PROVE  /\ KernelInv' /\ (Elected' \/ current' = current) /\ UNCHANGED pc
         /\ \A u \in Threads :
              waitret'[u] # waitret[u] => tstate[u] = "blocked" /\ pc[u] = q
<1>0. waitret \in [Threads -> Status]
  BY DEF KernelInv, TypeOK
<1>1. CASE WakeOne(q, r, err)
  <2> DEFINE h == Head(waitq[q])
  <2>1. h \in Threads /\ tstate[h] = "blocked" /\ pc[h] = q /\ Wakes({h})
    BY <1>1, WakeOneStep
  <2>2. waitret' = [waitret EXCEPT ![h] = err]
    BY <1>1 DEF WakeOne
  <2> HIDE DEF h
  <2>3. {h} \in SUBSET Threads
    BY <2>1
  <2>4. KernelInv'
    BY <2>1, <2>3, WakesInv
  <2> QED BY <1>0, <2>1, <2>2, <2>4 DEF Wakes
<1>2. CASE WakeAll(q, r, err)
  <2> DEFINE W == {u \in Threads : IsIn(u, waitq[q])}
  <2>1. /\ \A u \in Threads : IsIn(u, waitq[q]) => tstate[u] = "blocked" /\ pc[u] = q
        /\ Wakes(W)
    BY <1>2, WakeAllStep
  <2>2. waitret' = [u \in Threads |-> IF IsIn(u, waitq[q]) THEN err ELSE waitret[u]]
    BY <1>2 DEF WakeAll
  <2>3. W \in SUBSET Threads
    OBVIOUS
  <2> HIDE DEF W
  <2>4. KernelInv'
    BY <2>1, <2>3, WakesInv
  <2> QED BY <1>0, <2>1, <2>2, <2>4 DEF Wakes
<1> QED BY <1>1, <1>2

LEMMA KernelStutter ==
  ASSUME KernelInv, UNCHANGED kernelvars
  PROVE  KernelInv'
  BY DEF KernelInv, TypeOK, Good, SchedType, Sched, OneRuns, Waiting, IdleReady,
         TimerOnLiveStack, kernelvars

LEMMA KernelNext ==
  ASSUME KernelInv, [Next]_kernelvars
  PROVE  KernelInv'
<1>1. CASE ThreadNext
  BY <1>1, ThreadStep
<1>2. CASE QueueNext
  <2>1. PICK t \in Threads, q \in Queues :
          \/ /\ Calls(t)
             /\ \/ \E timed \in BOOLEAN : BlockOn(t, q, timed)
                \/ /\ waitq[q] # <<>>
                   /\ \E r \in BOOLEAN, err \in {NoError, Destroyed} :
                        WakeOne(q, r, err) \/ WakeAll(q, r, err)
          \/ Resumes(t, q) /\ BlockReturn(t)
    BY <1>2 DEF QueueNext
  <2>2. ASSUME Calls(t), NEW timed \in BOOLEAN, BlockOn(t, q, timed)
        PROVE  KernelInv'
    BY <2>2, BlockOnStep
  <2>3. ASSUME waitq[q] # <<>>, NEW r \in BOOLEAN, NEW err \in {NoError, Destroyed},
               WakeOne(q, r, err) \/ WakeAll(q, r, err)
        PROVE  KernelInv'
    BY <2>3, WakeSteps DEF Status
  <2>4. ASSUME Resumes(t, q), BlockReturn(t) PROVE KernelInv'
    BY <2>4, BlockReturnStep
  <2> QED BY <2>1, <2>2, <2>3, <2>4
<1>3. CASE UNCHANGED kernelvars
  BY <1>3, KernelStutter
<1> QED BY <1>1, <1>2, <1>3 DEF Next

\* The scheduler and the wait queues keep their invariant whatever calls the
\* threads make and whenever the timer interrupt comes.
THEOREM KernelInvariant == Spec => []KernelInv
<1>1. Init => KernelInv
  BY KernelInit
<1>2. KernelInv /\ [Next]_kernelvars => KernelInv'
  BY KernelNext
<1> QED BY <1>1, <1>2, PTL DEF Spec

\* Every variable of the scheduler has its type: run queues and wait queues are
\* lists of threads, the one that runs is a thread, a slice is never longer than
\* a full one.
THEOREM TypeCorrect == Spec => []TypeOK
<1>1. KernelInv => TypeOK
  BY DEF KernelInv
<1> QED BY <1>1, KernelInvariant, PTL

\* A queue_node links a thread into the one list that its state and priority
\* call for, once, and the bitmap thread_resched trusts is exact.
THEOREM QueuesMatchStatesTheorem == Spec => []QueuesMatchStates
<1>1. KernelInv => QueuesMatchStates
  <2> SUFFICES ASSUME KernelInv PROVE QueuesMatchStates
    OBVIOUS
  <2>1. /\ \A p \in Priorities, t \in Threads :
             IsIn(t, runq[p]) <=> tstate[t] = "ready" /\ priority[t] = p
        /\ \A p \in Priorities : NoRepeat(runq[p])
        /\ \A p \in Priorities : p \in bitmap <=> runq[p] # <<>>
    BY SchedFacts DEF KernelInv, Good
  <2>2. /\ \A t \in Threads :
             tstate[t] = "blocked" <=> \E q \in Queues : IsIn(t, waitq[q])
        /\ \A q, r \in Queues, t \in Threads :
             IsIn(t, waitq[q]) /\ IsIn(t, waitq[r]) => q = r
        /\ \A q \in Queues : NoRepeat(waitq[q])
    BY DEF KernelInv, Waiting
  <2>3. current # Idle => bitmap # {}
    <3> SUFFICES ASSUME current # Idle PROVE 0 \in bitmap
      OBVIOUS
    <3>1. tstate[Idle] = "ready" /\ priority[Idle] = 0 /\ Idle \in Threads
      BY ThreadsAssumption DEF KernelInv, IdleReady, OneRuns
    <3>2. 0 \in Priorities /\ runq[0] \in Seq(Threads)
      BY PriorityFacts DEF KernelInv, TypeOK
    <3>3. runq[0] # <<>>
      BY <2>1, <3>1, <3>2, EmptyFacts
    <3> QED BY <2>1, <3>2, <3>3
  <2> QED BY <2>1, <2>2, <2>3
          DEF QueuesMatchStates, BitmapExact, KernelInv, OneRuns
<1> QED BY <1>1, KernelInvariant, PTL

\* A timeout timer can fire only while the call whose stack it is on is not
\* over: wait_queue_block cancels it before it returns.
THEOREM TimerOnLiveStackTheorem == Spec => []TimerOnLiveStack
<1>1. KernelInv => TimerOnLiveStack
  BY DEF KernelInv
<1> QED BY <1>1, KernelInvariant, PTL

\* A thread that was woken returns the status it was woken with: neither its
\* timeout, which may fire before it runs again, nor another wake changes it.
THEOREM WakeSticksTheorem == Spec => WakeSticks
<1> DEFINE Keeps == \A t \in Threads :
             (pc[t] # "run" /\ tstate[t] # "blocked" /\ pc'[t] # "run")
                => waitret'[t] = waitret[t]
<1>1. KernelInv /\ [Next]_kernelvars => [Keeps]_kernelvars
  <2> SUFFICES ASSUME KernelInv, Next, NEW t \in Threads,
                      pc[t] # "run", tstate[t] # "blocked", pc'[t] # "run"
               PROVE  waitret'[t] = waitret[t]
    OBVIOUS
  <2>0. waitret \in [Threads -> Status]
    BY DEF KernelInv, TypeOK
  <2>1. CASE ThreadNext
    BY <2>0, <2>1, ThreadStep DEF Quiet, TimesOut
  <2>2. CASE QueueNext
    <3>1. PICK c \in Threads, q \in Queues :
            \/ /\ Calls(c)
               /\ \/ \E timed \in BOOLEAN : BlockOn(c, q, timed)
                  \/ /\ waitq[q] # <<>>
                     /\ \E r \in BOOLEAN, err \in {NoError, Destroyed} :
                          WakeOne(q, r, err) \/ WakeAll(q, r, err)
            \/ Resumes(c, q) /\ BlockReturn(c)
      BY <2>2 DEF QueueNext
    <3>2. ASSUME Calls(c), NEW timed \in BOOLEAN, BlockOn(c, q, timed)
          PROVE  waitret'[t] = waitret[t]
      BY <2>0, <3>2 DEF Calls, BlockOn
    <3>3. ASSUME waitq[q] # <<>>, NEW r \in BOOLEAN, NEW err \in {NoError, Destroyed},
                 WakeOne(q, r, err) \/ WakeAll(q, r, err)
          PROVE  waitret'[t] = waitret[t]
      BY <3>3, WakeSteps DEF Status
    <3>4. ASSUME Resumes(c, q), BlockReturn(c) PROVE waitret'[t] = waitret[t]
      BY <3>4 DEF BlockReturn
    <3> QED BY <3>1, <3>2, <3>3, <3>4
  <2> QED BY <2>1, <2>2 DEF Next
<1> QED BY <1>1, KernelInvariant, PTL DEF Spec, WakeSticks

(***************************************************************************)
(* The idle thread.  It runs last where no thread but the idle one has its *)
(* priority; thread_set_priority lets a thread give itself priority 0, and *)
(* then the two take turns, so that the theorem asks for callers that do   *)
(* not.                                                                    *)
(***************************************************************************)
IdleAlone == \A t \in Threads : priority[t] = 0 <=> t = Idle

IdleRests ==
  (current = Idle /\ irq # "resched") => \A t \in Threads : tstate[t] # "ready"

LEMMA ElectedRests ==
  ASSUME KernelInv', IdleAlone', Elected'
  PROVE  IdleRests'
<1> SUFFICES ASSUME current' = Idle, NEW t \in Threads, tstate'[t] = "ready"
             PROVE  FALSE
  BY DEF IdleRests
<1>1. priority'[t] <= 0
  BY ThreadsAssumption DEF Elected, IdleAlone
<1>2. priority'[t] \in Nat
  BY PriorityFacts DEF KernelInv, TypeOK
<1>3. t = Idle
  BY <1>1, <1>2 DEF IdleAlone
<1>4. tstate'[Idle] = "running"
  BY <1>3 DEF KernelInv, OneRuns
<1> QED BY <1>3, <1>4

LEMMA IdleAloneKept ==
  ASSUME 0 \notin NewPriorities, KernelInv, IdleAlone, [Next]_kernelvars
  PROVE  IdleAlone'
<1>1. UNCHANGED priority \/ \E t \in Threads, p \in NewPriorities : thread_set_priority(t, p)
  BY DEF Next, ThreadNext, QueueNext, kernelvars, TickBegin, TickEnd, SleepExpires,
         WaitExpires, thread_yield, thread_sleep, thread_exit, thread_resume,
         BlockOn, BlockReturn, WakeOne, WakeAll
<1>2. ASSUME NEW t \in Threads, NEW p \in NewPriorities, thread_set_priority(t, p)
      PROVE  IdleAlone'
  <2>1. t # Idle /\ p # 0 /\ priority \in [Threads -> Priorities]
        /\ priority' = [priority EXCEPT ![t] = p]
    BY <1>2 DEF thread_set_priority, Calls, KernelInv, TypeOK
  <2> QED BY <2>1 DEF IdleAlone
<1> QED BY <1>1, <1>2 DEF IdleAlone

\* Where Idle has the CPU after a step, the step elected it, or left it there.
LEMMA IdleRestsKept ==
  ASSUME 0 \notin NewPriorities, KernelInv, IdleAlone, IdleRests, [Next]_kernelvars
  PROVE  IdleRests'
<1>0. KernelInv' /\ IdleAlone'
  BY KernelNext, IdleAloneKept
<1>1. ASSUME Elected' \/ (current' = current /\ current # Idle) PROVE IdleRests'
  BY <1>0, <1>1, ElectedRests DEF IdleRests
<1>2. ASSUME irq' = "resched" PROVE IdleRests'
  BY <1>2 DEF IdleRests
<1>3. ASSUME UNCHANGED <<tstate, current>>, irq # "resched" PROVE IdleRests'
  BY <1>3 DEF IdleRests
<1>4. CASE ThreadNext
  <2>1. CASE TickBegin
    BY <1>3, <2>1 DEF TickBegin, schedvars
  <2>2. CASE TickEnd
    BY <1>1, <1>3, <2>2, TickEndStep
  <2>3. ASSUME NEW t \in Threads, SleepExpires(t) PROVE IdleRests'
    BY <1>2, <2>3 DEF SleepExpires
  <2>4. ASSUME NEW t \in Threads, WaitExpires(t) PROVE IdleRests'
    <3>1. irq' = "resched" \/ UNCHANGED <<tstate, current, irq>>
      BY <2>4 DEF WaitExpires, schedvars
    <3> QED BY <1>2, <3>1 DEF IdleRests
  <2>5. ASSUME NEW t \in Threads,
               thread_yield(t) \/ \E u \in Threads : thread_resume(t, u)
        PROVE  IdleRests'
    <3>1. \E W : Wakes(W)
      BY <2>5, YieldCallStep, ResumeStep
    <3>2. current # Idle
      BY <2>5 DEF thread_yield, thread_resume, Calls
    <3> QED BY <1>1, <3>1, <3>2 DEF Wakes
  <2>6. ASSUME NEW t \in Threads, thread_sleep(t) \/ thread_exit(t) PROVE IdleRests'
    <3>1. Calls(t) /\ UNCHANGED <<priority, waitq, waitret, pc, irq>>
      BY <2>6 DEF thread_sleep, thread_exit
    <3>2. \E x \in {"sleeping", "death"} :
            /\ Resched(SetState(Sched, t, x), quantum)
            /\ timer' = IF x = "sleeping" THEN [timer EXCEPT ![t] = "sleep"] ELSE timer
      BY <2>6 DEF thread_sleep, thread_exit
    <3>3. Elected'
      BY <3>1, <3>2, LeaveStep
    <3> QED BY <1>1, <3>3
  <2>7. ASSUME NEW t \in Threads, NEW p \in NewPriorities, thread_set_priority(t, p)
        PROVE  IdleRests'
    BY <1>1, <2>7 DEF thread_set_priority, Calls, schedvars
  <2> QED BY <1>4, <2>1, <2>2, <2>3, <2>4, <2>5, <2>6, <2>7 DEF ThreadNext
<1>5. CASE QueueNext
  <2>1. PICK t \in Threads, q \in Queues :
          \/ /\ Calls(t)
             /\ \/ \E timed \in BOOLEAN : BlockOn(t, q, timed)
                \/ /\ waitq[q] # <<>>
                   /\ \E r \in BOOLEAN, err \in {NoError, Destroyed} :
                        WakeOne(q, r, err) \/ WakeAll(q, r, err)
          \/ Resumes(t, q) /\ BlockReturn(t)
    BY <1>5 DEF QueueNext
  <2>2. ASSUME Calls(t), NEW timed \in BOOLEAN, BlockOn(t, q, timed)
        PROVE  IdleRests'
    BY <1>1, <2>2, BlockOnStep
  <2>3. ASSUME Calls(t), waitq[q] # <<>>,
               NEW r \in BOOLEAN, NEW err \in {NoError, Destroyed},
               WakeOne(q, r, err) \/ WakeAll(q, r, err)
        PROVE  IdleRests'
    <3>1. current # Idle
      BY <2>3 DEF Calls
    <3> QED BY <1>1, <2>3, <3>1, WakeSteps DEF Status
  <2>4. ASSUME Resumes(t, q), BlockReturn(t) PROVE IdleRests'
    BY <2>4 DEF BlockReturn, schedvars, IdleRests
  <2> QED BY <2>1, <2>2, <2>3, <2>4
<1>6. CASE UNCHANGED kernelvars
  BY <1>6 DEF kernelvars, IdleRests
<1> QED BY <1>4, <1>5, <1>6 DEF Next

\* The idle thread executes when there is nothing else to do: outside an
\* interrupt it does not run while another thread is ready, if no thread gives
\* itself the idle thread's priority.
THEOREM IdleLastTheorem ==
  ASSUME 0 \notin NewPriorities
  PROVE  Spec => []IdleLast
<1>1. Init => IdleAlone /\ IdleRests
  BY ThreadsAssumption, PriorityAssumption DEF Init, IdleAlone, IdleRests
<1>2. KernelInv /\ IdleAlone /\ IdleRests /\ [Next]_kernelvars
        => (IdleAlone /\ IdleRests)'
  BY IdleAloneKept, IdleRestsKept
<1>3. IdleRests => IdleLast
  BY DEF IdleRests, IdleLast
<1> QED BY <1>1, <1>2, <1>3, KernelInvariant, PTL DEF Spec
=============================================================================
