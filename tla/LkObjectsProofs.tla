--------------------------- MODULE LkObjectsProofs --------------------------
(***************************************************************************)
(* Safety of the mutex, the semaphore and the event on the scheduler, for  *)
(* every set of threads and every bound.                                   *)
(***************************************************************************)
EXTENDS LkObjects, LkThreadProofs, FiniteSetTheorems

(***************************************************************************)
(* An object's module has the scheduler's operators under its own name.    *)
(***************************************************************************)
LEMMA MutexKernel ==
  ASSUME NEW t, NEW q, NEW x, NEW r
  PROVE  /\ M!Calls(t) <=> Calls(t)
         /\ M!Resumes(t, q) <=> Resumes(t, q)
         /\ M!BlockOn(t, q, x) <=> BlockOn(t, q, x)
         /\ M!BlockReturn(t) <=> BlockReturn(t)
         /\ M!WakeOne(q, r, x) <=> WakeOne(q, r, x)
         /\ M!WakeAll(q, r, x) <=> WakeAll(q, r, x)
         /\ M!kernelvars = kernelvars
         /\ M!NoError = NoError /\ M!TimedOut = TimedOut
         /\ M!Destroyed = Destroyed
<1>1. /\ M!Calls(t) <=> Calls(t)
      /\ M!Resumes(t, q) <=> Resumes(t, q)
      /\ M!BlockReturn(t) <=> BlockReturn(t)
      /\ M!kernelvars = kernelvars
  BY DEF M!Calls, Calls, M!Resumes, Resumes, M!BlockReturn, BlockReturn,
         M!schedvars, schedvars, M!kernelvars, kernelvars
<1>2. M!NoError = NoError /\ M!TimedOut = TimedOut /\ M!Destroyed = Destroyed
  BY DEF M!NoError, NoError, M!TimedOut, TimedOut, M!Destroyed, Destroyed
<1>3. M!BlockOn(t, q, x) <=> BlockOn(t, q, x)
  BY <1>2 DEF M!BlockOn, BlockOn, M!Resched, Resched, M!SetState, SetState,
              M!Sched, Sched
<1>4. M!WakeOne(q, r, x) <=> WakeOne(q, r, x)
  BY DEF M!WakeOne, WakeOne, M!Resched, Resched, M!Stay, Stay, M!Sched, Sched,
         M!InsertHead, InsertHead
<1>5. M!WakeAll(q, r, x) <=> WakeAll(q, r, x)
  BY DEF M!WakeAll, WakeAll, M!Resched, Resched, M!Stay, Stay, M!Sched, Sched,
         M!InsertHead, InsertHead, M!InsertHeads, InsertHeads, M!IsIn, IsIn
<1> QED BY <1>1, <1>2, <1>3, <1>4, <1>5

LEMMA SemKernel ==
  ASSUME NEW t, NEW q, NEW x, NEW r
  PROVE  /\ S!Calls(t) <=> Calls(t)
         /\ S!Resumes(t, q) <=> Resumes(t, q)
         /\ S!BlockOn(t, q, x) <=> BlockOn(t, q, x)
         /\ S!BlockReturn(t) <=> BlockReturn(t)
         /\ S!WakeOne(q, r, x) <=> WakeOne(q, r, x)
         /\ S!WakeAll(q, r, x) <=> WakeAll(q, r, x)
         /\ S!kernelvars = kernelvars
         /\ S!NoError = NoError /\ S!TimedOut = TimedOut
         /\ S!Destroyed = Destroyed
<1>1. /\ S!Calls(t) <=> Calls(t)
      /\ S!Resumes(t, q) <=> Resumes(t, q)
      /\ S!BlockReturn(t) <=> BlockReturn(t)
      /\ S!kernelvars = kernelvars
  BY DEF S!Calls, Calls, S!Resumes, Resumes, S!BlockReturn, BlockReturn,
         S!schedvars, schedvars, S!kernelvars, kernelvars
<1>2. S!NoError = NoError /\ S!TimedOut = TimedOut /\ S!Destroyed = Destroyed
  BY DEF S!NoError, NoError, S!TimedOut, TimedOut, S!Destroyed, Destroyed
<1>3. S!BlockOn(t, q, x) <=> BlockOn(t, q, x)
  BY <1>2 DEF S!BlockOn, BlockOn, S!Resched, Resched, S!SetState, SetState,
              S!Sched, Sched
<1>4. S!WakeOne(q, r, x) <=> WakeOne(q, r, x)
  BY DEF S!WakeOne, WakeOne, S!Resched, Resched, S!Stay, Stay, S!Sched, Sched,
         S!InsertHead, InsertHead
<1>5. S!WakeAll(q, r, x) <=> WakeAll(q, r, x)
  BY DEF S!WakeAll, WakeAll, S!Resched, Resched, S!Stay, Stay, S!Sched, Sched,
         S!InsertHead, InsertHead, S!InsertHeads, InsertHeads, S!IsIn, IsIn
<1> QED BY <1>1, <1>2, <1>3, <1>4, <1>5

LEMMA EventKernel ==
  ASSUME NEW t, NEW q, NEW x, NEW r
  PROVE  /\ E!Calls(t) <=> Calls(t)
         /\ E!Resumes(t, q) <=> Resumes(t, q)
         /\ E!BlockOn(t, q, x) <=> BlockOn(t, q, x)
         /\ E!BlockReturn(t) <=> BlockReturn(t)
         /\ E!WakeOne(q, r, x) <=> WakeOne(q, r, x)
         /\ E!WakeAll(q, r, x) <=> WakeAll(q, r, x)
         /\ E!kernelvars = kernelvars
         /\ E!NoError = NoError /\ E!TimedOut = TimedOut
         /\ E!Destroyed = Destroyed
<1>1. /\ E!Calls(t) <=> Calls(t)
      /\ E!Resumes(t, q) <=> Resumes(t, q)
      /\ E!BlockReturn(t) <=> BlockReturn(t)
      /\ E!kernelvars = kernelvars
  BY DEF E!Calls, Calls, E!Resumes, Resumes, E!BlockReturn, BlockReturn,
         E!schedvars, schedvars, E!kernelvars, kernelvars
<1>2. E!NoError = NoError /\ E!TimedOut = TimedOut /\ E!Destroyed = Destroyed
  BY DEF E!NoError, NoError, E!TimedOut, TimedOut, E!Destroyed, Destroyed
<1>3. E!BlockOn(t, q, x) <=> BlockOn(t, q, x)
  BY <1>2 DEF E!BlockOn, BlockOn, E!Resched, Resched, E!SetState, SetState,
              E!Sched, Sched
<1>4. E!WakeOne(q, r, x) <=> WakeOne(q, r, x)
  BY DEF E!WakeOne, WakeOne, E!Resched, Resched, E!Stay, Stay, E!Sched, Sched,
         E!InsertHead, InsertHead
<1>5. E!WakeAll(q, r, x) <=> WakeAll(q, r, x)
  BY DEF E!WakeAll, WakeAll, E!Resched, Resched, E!Stay, Stay, E!Sched, Sched,
         E!InsertHead, InsertHead, E!InsertHeads, InsertHeads, E!IsIn, IsIn
<1> QED BY <1>1, <1>2, <1>3, <1>4, <1>5

-----------------------------------------------------------------------------
(***************************************************************************)
(* Who is in wait_queue_block for queue q: those that wait, and those that *)
(* were woken with status r and have yet to return.                        *)
(***************************************************************************)
Blocked(q) == {t \in Threads : pc[t] = q /\ tstate[t] = "blocked"}

Woken(q, r) ==
  {t \in Threads : pc[t] = q /\ tstate[t] # "blocked" /\ waitret[t] = r}

B(q) == Cardinality(Blocked(q))
R(q, r) == Cardinality(Woken(q, r))

LEMMA ListCount ==
  ASSUME NEW T, NEW s \in Seq(T), NoRepeat(s)
  PROVE  /\ IsFiniteSet({t \in T : IsIn(t, s)})
         /\ Cardinality({t \in T : IsIn(t, s)}) = Len(s)
<1> DEFINE W == {t \in T : IsIn(t, s)}
           f == [i \in 1 .. Len(s) |-> s[i]]
<1>1. Len(s) \in Nat /\ DOMAIN s = 1 .. Len(s)
  BY LenProperties
<1>2. \A i \in 1 .. Len(s) : s[i] \in W
  BY <1>1, ElementOfSeq DEF IsIn
<1>3. f \in Bijection(1 .. Len(s), W)
  <2>1. f \in Injection(1 .. Len(s), W)
    BY <1>1, <1>2 DEF Injection, IsInjective, NoRepeat
  <2>2. f \in Surjection(1 .. Len(s), W)
    BY <1>1, <1>2 DEF Surjection, IsIn
  <2> QED BY <2>1, <2>2 DEF Bijection
<1>4. ExistsBijection(1 .. Len(s), W)
  BY <1>3 DEF ExistsBijection
<1> HIDE DEF W
<1>5. IsFiniteSet(W) /\ Cardinality(W) = Len(s)
  BY <1>1, <1>4, FS_NatBijection, FS_CountingElements
<1> QED BY <1>5 DEF W

LEMMA CountFacts ==
  ASSUME KernelInv, NEW q \in Queues
  PROVE  /\ Blocked(q) \subseteq Threads /\ IsFiniteSet(Blocked(q)) /\ B(q) \in Nat
         /\ B(q) = Len(waitq[q])
         /\ B(q) = 0 <=> waitq[q] = <<>>
         /\ \A r : /\ Woken(q, r) \subseteq Threads /\ IsFiniteSet(Woken(q, r))
                   /\ R(q, r) \in Nat
                   /\ R(q, r) = 0 <=> Woken(q, r) = {}
<1>1. waitq[q] \in Seq(Threads) /\ NoRepeat(waitq[q])
  BY DEF KernelInv, TypeOK, Waiting
<1>2. Blocked(q) = {t \in Threads : IsIn(t, waitq[q])}
  <2>1. \A t \in Threads : IsIn(t, waitq[q]) => pc[t] = q /\ tstate[t] = "blocked"
    BY DEF KernelInv, Waiting
  <2>2. ASSUME NEW t \in Threads, pc[t] = q, tstate[t] = "blocked"
        PROVE  IsIn(t, waitq[q])
    BY <2>2 DEF KernelInv, Waiting
  <2> QED BY <2>1, <2>2 DEF Blocked
<1>3. /\ IsFiniteSet(Blocked(q))
      /\ B(q) = Len(waitq[q])
  BY <1>1, <1>2, ListCount DEF B
<1>4. Len(waitq[q]) \in Nat /\ (Len(waitq[q]) = 0 <=> waitq[q] = <<>>)
  BY <1>1, LenProperties, EmptySeq
<1>5. \A r : /\ Woken(q, r) \subseteq Threads /\ IsFiniteSet(Woken(q, r))
             /\ R(q, r) \in Nat
             /\ R(q, r) = 0 <=> Woken(q, r) = {}
  <2> SUFFICES ASSUME NEW r
               PROVE  /\ Woken(q, r) \subseteq Threads /\ IsFiniteSet(Woken(q, r))
                      /\ R(q, r) \in Nat
                      /\ R(q, r) = 0 <=> Woken(q, r) = {}
    OBVIOUS
  <2>1. Woken(q, r) \subseteq Threads
    BY DEF Woken
  <2>2. IsFiniteSet(Woken(q, r))
    BY <2>1, ThreadsAssumption, FS_Subset
  <2> QED BY <2>1, <2>2, FS_CardinalityType, FS_EmptySet DEF R
<1> QED BY <1>3, <1>4, <1>5 DEF Blocked

\* a finite set and what it becomes by one element more or less
LEMMA SetNext ==
  ASSUME NEW X, IsFiniteSet(X), NEW Y, NEW t
  PROVE  /\ Y = X => Cardinality(Y) = Cardinality(X)
         /\ Y = X \cup {t} /\ t \notin X => Cardinality(Y) = Cardinality(X) + 1
         /\ Y = X \ {t} /\ t \in X => Cardinality(Y) = Cardinality(X) - 1
         /\ Y = {} => Cardinality(Y) = 0
  BY FS_EmptySet, FS_AddElement, FS_RemoveElement

\* The same in the next state, and one thread more or less.
LEMMA CountNext ==
  ASSUME KernelInv, NEW q \in Queues, NEW t
  PROVE  /\ Blocked(q)' = Blocked(q) => B(q)' = B(q)
         /\ Blocked(q)' = Blocked(q) \cup {t} /\ t \notin Blocked(q)
              => B(q)' = B(q) + 1
         /\ Blocked(q)' = Blocked(q) \ {t} /\ t \in Blocked(q)
              => B(q)' = B(q) - 1
         /\ Blocked(q)' = {} => B(q)' = 0
         /\ \A r :
              /\ Woken(q, r)' = Woken(q, r) => R(q, r)' = R(q, r)
              /\ Woken(q, r)' = Woken(q, r) \cup {t} /\ t \notin Woken(q, r)
                   => R(q, r)' = R(q, r) + 1
              /\ Woken(q, r)' = Woken(q, r) \ {t} /\ t \in Woken(q, r)
                   => R(q, r)' = R(q, r) - 1
<1>1. IsFiniteSet(Blocked(q)) /\ \A r : IsFiniteSet(Woken(q, r))
  BY CountFacts
<1>2. B(q)' = Cardinality(Blocked(q)') /\ \A r : R(q, r)' = Cardinality(Woken(q, r)')
  BY DEF B, R
<1>3. \A r : /\ Woken(q, r)' = Woken(q, r) => R(q, r)' = R(q, r)
             /\ Woken(q, r)' = Woken(q, r) \cup {t} /\ t \notin Woken(q, r)
                  => R(q, r)' = R(q, r) + 1
             /\ Woken(q, r)' = Woken(q, r) \ {t} /\ t \in Woken(q, r)
                  => R(q, r)' = R(q, r) - 1
  <2> TAKE r
  <2>1. R(q, r) = Cardinality(Woken(q, r))
    BY DEF R
  <2> QED BY <1>1, <1>2, <2>1, SetNext
<1>4. B(q) = Cardinality(Blocked(q))
  BY DEF B
<1> QED BY <1>1, <1>2, <1>3, <1>4, SetNext

\* queue p has no part in the step
Unmoved(p) ==
  /\ Blocked(p)' = Blocked(p)
  /\ \A r : Woken(p, r)' = Woken(p, r)

\* t joins queue q
LEMMA Joins ==
  ASSUME KernelInv, NEW t \in Threads, NEW q \in Queues, NEW x \in BOOLEAN,
         Calls(t), BlockOn(t, q, x)
  PROVE  /\ KernelInv'
         /\ pc' = [pc EXCEPT ![t] = q]
         /\ B(q)' = B(q) + 1
         /\ \A r : Woken(q, r)' = Woken(q, r) /\ R(q, r)' = R(q, r)
         /\ \A p \in Queues : p # q => Unmoved(p)
<1>0. /\ pc[t] = "run" /\ t = current /\ pc \in [Threads -> {"run"} \cup Queues]
      /\ waitret \in [Threads -> Status] /\ "run" \notin Queues
  BY QueuesAssumption DEF Calls, KernelInv, TypeOK
<1>1. /\ pc' = [pc EXCEPT ![t] = q]
      /\ waitret' = [waitret EXCEPT ![t] = NoError]
  BY DEF BlockOn
<1>2. /\ KernelInv' /\ tstate'[t] = "blocked"
      /\ \A u \in Threads : u # t => (tstate'[u] = "blocked" <=> tstate[u] = "blocked")
  BY BlockOnStep
<1>3. Blocked(q)' = Blocked(q) \cup {t} /\ t \notin Blocked(q)
  BY <1>0, <1>1, <1>2 DEF Blocked
<1>4. \A p \in Queues : \A r : Woken(p, r)' = Woken(p, r)
  BY <1>0, <1>1, <1>2 DEF Woken
<1>5. \A p \in Queues : p # q => Blocked(p)' = Blocked(p)
  BY <1>0, <1>1, <1>2 DEF Blocked
<1>6. B(q)' = B(q) + 1 /\ \A r : R(q, r)' = R(q, r)
  BY <1>3, <1>4, CountNext
<1> QED BY <1>1, <1>2, <1>4, <1>5, <1>6 DEF Unmoved

\* t returns from its wait in queue q
LEMMA Comes ==
  ASSUME KernelInv, NEW t \in Threads, NEW q \in Queues,
         NEW r, r = waitret[t], Resumes(t, q), BlockReturn(t)
  PROVE  /\ KernelInv'
         /\ pc' = [pc EXCEPT ![t] = "run"]
         /\ r \in Status
         /\ B(q)' = B(q)
         /\ t \in Woken(q, r)
         /\ Woken(q, r)' = Woken(q, r) \ {t}
         /\ R(q, r)' = R(q, r) - 1
         /\ \A s : s # r =>
              Woken(q, s)' = Woken(q, s) /\ R(q, s)' = R(q, s)
         /\ \A p \in Queues : p # q => Unmoved(p)
<1>0. /\ pc[t] = q /\ tstate[t] = "running" /\ pc \in [Threads -> {"run"} \cup Queues]
      /\ waitret \in [Threads -> Status] /\ "run" \notin Queues
  BY QueuesAssumption DEF Resumes, KernelInv, TypeOK, OneRuns
<1>1. pc' = [pc EXCEPT ![t] = "run"] /\ UNCHANGED <<tstate, waitret>>
  BY DEF BlockReturn, schedvars
<1>2. KernelInv'
  BY BlockReturnStep
<1>3. \A p \in Queues : Blocked(p)' = Blocked(p)
  BY <1>0, <1>1 DEF Blocked
<1>4. /\ t \in Woken(q, r)
      /\ Woken(q, r)' = Woken(q, r) \ {t}
  BY <1>0, <1>1 DEF Woken
<1>5. \A s : s # r => Woken(q, s)' = Woken(q, s)
  BY <1>0, <1>1 DEF Woken
<1>6. \A p \in Queues : p # q => \A v : Woken(p, v)' = Woken(p, v)
  BY <1>0, <1>1 DEF Woken
<1>7. /\ B(q)' = B(q)
      /\ R(q, r)' = R(q, r) - 1
      /\ \A s : s # r => R(q, s)' = R(q, s)
  BY <1>3, <1>4, <1>5, CountNext
<1> QED BY <1>0, <1>1, <1>2, <1>3, <1>4, <1>5, <1>6, <1>7 DEF Unmoved

\* the head of queue q is woken
LEMMA WakesHead ==
  ASSUME KernelInv, NEW q \in Queues, waitq[q] # <<>>, NEW x \in BOOLEAN,
         NEW r \in Status, WakeOne(q, x, r)
  PROVE  /\ KernelInv' /\ UNCHANGED pc
         /\ Head(waitq[q]) \in Blocked(q)
         /\ B(q)' = B(q) - 1
         /\ Woken(q, r)' = Woken(q, r) \cup {Head(waitq[q])}
         /\ R(q, r)' = R(q, r) + 1
         /\ \A s : s # r => Woken(q, s)' = Woken(q, s) /\ R(q, s)' = R(q, s)
         /\ \A p \in Queues : p # q => Unmoved(p)
<1> DEFINE h == Head(waitq[q])
<1>0. waitret \in [Threads -> Status]
  BY DEF KernelInv, TypeOK
<1>1. h \in Threads /\ tstate[h] = "blocked" /\ pc[h] = q /\ Wakes({h})
  BY WakeOneStep
<1>2. waitret' = [waitret EXCEPT ![h] = r]
  BY DEF WakeOne
<1> HIDE DEF h
<1>3. {h} \in SUBSET Threads
  BY <1>1
<1>4. KernelInv' /\ UNCHANGED pc
  BY <1>1, <1>3, WakesInv DEF Wakes
<1>5. \A u \in Threads :
        tstate'[u] = "blocked" <=> tstate[u] = "blocked" /\ u # h
  BY <1>1, WakesBlocked
<1>6. h \in Blocked(q) /\ Blocked(q)' = Blocked(q) \ {h}
  BY <1>1, <1>4, <1>5 DEF Blocked
<1>7. h \notin Woken(q, r) /\ Woken(q, r)' = Woken(q, r) \cup {h}
  BY <1>0, <1>1, <1>2, <1>4, <1>5 DEF Woken
<1>8. \A s : s # r => Woken(q, s)' = Woken(q, s)
  BY <1>0, <1>1, <1>2, <1>4, <1>5 DEF Woken
<1>9. \A p \in Queues : p # q => Unmoved(p)
  BY <1>0, <1>1, <1>2, <1>4, <1>5 DEF Unmoved, Blocked, Woken
<1>10. /\ B(q)' = B(q) - 1
       /\ R(q, r)' = R(q, r) + 1
       /\ \A s : s # r => R(q, s)' = R(q, s)
  BY <1>6, <1>7, <1>8, CountNext
<1> QED BY <1>4, <1>6, <1>7, <1>8, <1>9, <1>10 DEF h

\* everyone in queue q is woken
LEMMA WakesEveryone ==
  ASSUME KernelInv, NEW q \in Queues, NEW x \in BOOLEAN, NEW r \in Status,
         WakeAll(q, x, r)
  PROVE  /\ KernelInv' /\ UNCHANGED pc
         /\ Blocked(q)' = {} /\ B(q)' = 0
         /\ \A s : s # r => Woken(q, s)' = Woken(q, s) /\ R(q, s)' = R(q, s)
         /\ \A p \in Queues : p # q => Unmoved(p)
<1> DEFINE W == {u \in Threads : IsIn(u, waitq[q])}
<1>0. waitret \in [Threads -> Status] /\ W \in SUBSET Threads
  BY DEF KernelInv, TypeOK
<1>1. /\ \A u \in Threads : IsIn(u, waitq[q]) => tstate[u] = "blocked" /\ pc[u] = q
      /\ Wakes(W)
  BY WakeAllStep
<1>2. \A u \in Threads : u \in W <=> tstate[u] = "blocked" /\ pc[u] = q
  BY <1>1 DEF KernelInv, Waiting
<1>3. \A u \in Threads : waitret'[u] = IF u \in W THEN r ELSE waitret[u]
  BY DEF WakeAll
<1> HIDE DEF W
<1>4. KernelInv' /\ UNCHANGED pc
  BY <1>0, <1>1, WakesInv DEF Wakes
<1>5. \A u \in Threads :
        tstate'[u] = "blocked" <=> tstate[u] = "blocked" /\ pc[u] # q
  BY <1>1, <1>2, WakesBlocked
<1>6. Blocked(q)' = {}
  BY <1>4, <1>5 DEF Blocked
<1>7. \A s : s # r => Woken(q, s)' = Woken(q, s)
  BY <1>2, <1>3, <1>4, <1>5 DEF Woken
<1>8. \A p \in Queues : p # q => Unmoved(p)
  BY <1>2, <1>3, <1>4, <1>5 DEF Unmoved, Blocked, Woken
<1>9. B(q)' = 0 /\ \A s : s # r => R(q, s)' = R(q, s)
  BY <1>6, <1>7, CountNext
<1> QED BY <1>4, <1>6, <1>7, <1>8, <1>9

\* the kernel alone: at most, a waiter times out
LEMMA Alone ==
  ASSUME KernelInv, ThreadNext, NEW q \in Queues
  PROVE  /\ KernelInv' /\ UNCHANGED pc
         /\ B(q)' + R(q, TimedOut)' = B(q) + R(q, TimedOut)
         /\ B(q)' <= B(q)
         /\ \A r : r # TimedOut => Woken(q, r)' = Woken(q, r) /\ R(q, r)' = R(q, r)
<1>0. /\ waitret \in [Threads -> Status] /\ B(q) \in Nat /\ R(q, TimedOut) \in Nat
  BY CountFacts DEF KernelInv, TypeOK
<1>1. KernelInv' /\ (Quiet \/ \E t \in Threads : TimesOut(t))
  BY ThreadStep
<1>2. CASE Quiet
  <2>1. Unmoved(q) /\ UNCHANGED pc
    BY <1>2 DEF Quiet, Unmoved, Blocked, Woken
  <2>2. B(q)' = B(q) /\ \A r : R(q, r)' = R(q, r)
    BY <2>1, CountNext DEF Unmoved
  <2> QED BY <1>0, <1>1, <2>1, <2>2 DEF Unmoved
<1>3. ASSUME NEW t \in Threads, TimesOut(t)
      PROVE  /\ UNCHANGED pc
             /\ B(q)' + R(q, TimedOut)' = B(q) + R(q, TimedOut)
             /\ B(q)' <= B(q)
             /\ \A r : r # TimedOut => Woken(q, r)' = Woken(q, r) /\ R(q, r)' = R(q, r)
  <2>0. /\ tstate[t] = "blocked" /\ UNCHANGED pc
        /\ waitret' = [waitret EXCEPT ![t] = TimedOut]
        /\ \A u \in Threads :
             tstate'[u] = "blocked" <=> tstate[u] = "blocked" /\ u # t
    BY <1>3 DEF TimesOut
  <2>1. \A r : r # TimedOut => Woken(q, r)' = Woken(q, r)
    BY <1>0, <2>0 DEF Woken
  <2>2. \A r : r # TimedOut => R(q, r)' = R(q, r)
    BY <2>1, CountNext
  <2>3. CASE pc[t] = q
    <3>1. t \in Blocked(q) /\ Blocked(q)' = Blocked(q) \ {t}
      BY <2>0, <2>3 DEF Blocked
    <3>2. t \notin Woken(q, TimedOut) /\ Woken(q, TimedOut)' = Woken(q, TimedOut) \cup {t}
      BY <1>0, <2>0, <2>3 DEF Woken
    <3>3. B(q)' = B(q) - 1 /\ R(q, TimedOut)' = R(q, TimedOut) + 1
      BY <3>1, <3>2, CountNext
    <3> QED BY <1>0, <2>0, <2>1, <2>2, <3>3
  <2>4. CASE pc[t] # q
    <3>1. Unmoved(q)
      BY <1>0, <2>0, <2>4 DEF Unmoved, Blocked, Woken
    <3>2. B(q)' = B(q) /\ \A r : R(q, r)' = R(q, r)
      BY <3>1, CountNext DEF Unmoved
    <3> QED BY <1>0, <2>0, <2>1, <2>2, <3>2
  <2> QED BY <2>3, <2>4
<1> QED BY <1>1, <1>2, <1>3

LEMMA Still ==
  ASSUME KernelInv, UNCHANGED kernelvars
  PROVE  /\ KernelInv' /\ UNCHANGED pc
         /\ \A q \in Queues : Unmoved(q)
<1>1. UNCHANGED <<pc, tstate, waitret>>
  BY DEF kernelvars
<1>2. \A q \in Queues : Unmoved(q)
  BY <1>1 DEF Unmoved, Blocked, Woken
<1> QED BY <1>1, <1>2, KernelStutter

LEMMA UnmovedCounts ==
  ASSUME KernelInv, NEW q \in Queues, Unmoved(q)
  PROVE  B(q)' = B(q) /\ \A r : R(q, r)' = R(q, r)
  BY CountNext DEF Unmoved

\* in any state whatever
LEMMA CountNat ==
  ASSUME NEW q
  PROVE  B(q)' \in Nat /\ \A r : R(q, r)' \in Nat
<1>1. IsFiniteSet(Blocked(q)') /\ \A r : IsFiniteSet(Woken(q, r)')
  BY ThreadsAssumption, FS_Subset DEF Blocked, Woken
<1> QED BY <1>1, FS_CardinalityType DEF B, R

\* whoever is in wait_queue_block for p was there before
LEMMA UnmovedPlaces ==
  ASSUME NEW p, Unmoved(p), NEW u \in Threads
  PROVE  pc'[u] = p <=> pc[u] = p
<1>1. ASSUME pc'[u] = p PROVE pc[u] = p
  <2>1. u \in Blocked(p)' \/ \E r : u \in Woken(p, r)'
    BY <1>1 DEF Blocked, Woken
  <2> QED BY <2>1 DEF Unmoved, Blocked, Woken
<1>2. ASSUME pc[u] = p PROVE pc'[u] = p
  <2>1. u \in Blocked(p) \/ \E r : u \in Woken(p, r)
    BY <1>2 DEF Blocked, Woken
  <2>2. u \in Blocked(p)' \/ \E r : u \in Woken(p, r)'
    BY <2>1 DEF Unmoved
  <2> QED BY <2>2 DEF Blocked, Woken
<1> QED BY <1>1, <1>2

LEMMA Distinct ==
  /\ Queues = {Mutex, Sem, Event}
  /\ Mutex # Sem /\ Sem # Event /\ Mutex # Event
<1>1. \A a, b : IsFiniteSet({a, b}) /\ Cardinality({a, b}) <= 2
  <2> TAKE a, b
  <2>1. IsFiniteSet({a}) /\ Cardinality({a}) = 1
    BY FS_Singleton
  <2>2. {a, b} = {a} \cup {b}
    OBVIOUS
  <2> QED BY <2>1, <2>2, FS_AddElement
<1>2. ASSUME Mutex = Sem \/ Sem = Event \/ Mutex = Event PROVE FALSE
  <2>1. \E a, b : {Mutex, Sem, Event} = {a, b}
    BY <1>2
  <2>2. Cardinality({Mutex, Sem, Event}) <= 2
    BY <1>1, <2>1
  <2>3. Cardinality({Mutex, Sem, Event}) = 3
    BY ObjectsAssumption
  <2> QED BY <2>2, <2>3
<1> QED BY <1>2, ObjectsAssumption

-----------------------------------------------------------------------------
(***************************************************************************)
(* The mutex.  count stands for the owner, the thread the mutex is handed  *)
(* to, the waiters, and those that timed out and have yet to back out; the *)
(* owner and the thread it is handed to are never two.                     *)
(***************************************************************************)
Served == owners \cup Woken(Mutex, NoError)

MutexInv ==
  /\ owners \subseteq Threads /\ m_count \in Int
  /\ \A t \in Threads : pc[t] = Mutex => t \notin owners
  /\ \A t, u \in Served : t = u
  /\ m_magic => \A t \in owners : holder = t
  /\ m_magic => m_count = Cardinality(owners) + R(Mutex, NoError)
                            + R(Mutex, TimedOut) + B(Mutex)

\* nobody waits for a mutex that is free; kept while no wait times out
FreeUnwanted == (m_magic /\ Served = {}) => B(Mutex) = 0

FreeKept == R(Mutex, TimedOut) = 0 /\ FreeUnwanted => FreeUnwanted'

\* who comes to be served waited first, or nobody did
ServedInOrder ==
  \A t \in Served' \ Served : waitq[Mutex] = <<>> \/ t = Head(waitq[Mutex])

LEMMA MutexFacts ==
  ASSUME KernelInv, MutexInv
  PROVE  /\ Mutex \in Queues
         /\ IsFiniteSet(owners) /\ Cardinality(owners) \in Nat
         /\ Cardinality(owners) = 0 <=> owners = {}
         /\ B(Mutex) \in Nat /\ (B(Mutex) = 0 <=> waitq[Mutex] = <<>>)
         /\ R(Mutex, NoError) \in Nat /\ R(Mutex, TimedOut) \in Nat
         /\ R(Mutex, NoError) = 0 <=> Woken(Mutex, NoError) = {}
         /\ NoError # TimedOut /\ NoError # Destroyed /\ TimedOut # Destroyed
<1>1. Mutex \in Queues
  BY Distinct
<1>2. owners \subseteq Threads /\ IsFiniteSet(owners)
  BY ThreadsAssumption, FS_Subset DEF MutexInv
<1> QED BY <1>1, <1>2, CountFacts, FS_CardinalityType, FS_EmptySet
        DEF NoError, TimedOut, Destroyed

LEMMA OwnersNext ==
  ASSUME IsFiniteSet(owners), NEW t
  PROVE  /\ owners' = owners => Cardinality(owners)' = Cardinality(owners)
         /\ owners' = owners \cup {t} /\ t \notin owners
              => Cardinality(owners)' = Cardinality(owners) + 1
         /\ owners' = owners \ {t} /\ t \in owners
              => Cardinality(owners)' = Cardinality(owners) - 1
  BY SetNext

LEMMA AcquireFreeStep ==
  ASSUME KernelInv, MutexInv, NEW t \in Threads, M!acquire_free(t)
  PROVE  KernelInv' /\ MutexInv' /\ ServedInOrder /\ FreeKept
<1>1. /\ Calls(t) /\ m_magic /\ t \notin owners /\ m_count = 0
      /\ m_count' = 1 /\ holder' = t /\ owners' = owners \cup {t}
      /\ m_magic' = m_magic /\ UNCHANGED kernelvars
  BY DEF M!acquire_free, M!Asks, M!Calls, Calls, M!kernelvars, kernelvars
<1>2. KernelInv' /\ UNCHANGED pc /\ Unmoved(Mutex)
  BY <1>1, Still, Distinct
<1>3. /\ Cardinality(owners) = 0 /\ owners = {} /\ Woken(Mutex, NoError) = {}
      /\ R(Mutex, NoError) = 0 /\ R(Mutex, TimedOut) = 0 /\ B(Mutex) = 0
      /\ waitq[Mutex] = <<>>
  BY <1>1, MutexFacts DEF MutexInv
<1>4. B(Mutex)' = B(Mutex) /\ \A r : R(Mutex, r)' = R(Mutex, r)
  BY <1>2, UnmovedCounts, Distinct
<1>5. Cardinality(owners)' = 1
  <2>1. owners' = {t}
    BY <1>1, <1>3
  <2> QED BY <2>1, FS_Singleton
<1>6. Served' = {t}
  BY <1>1, <1>2, <1>3 DEF Served, Unmoved
<1>7. pc[t] # Mutex
  BY <1>1, QueuesAssumption, Distinct DEF Calls
<1>8. MutexInv'
  BY <1>1, <1>2, <1>3, <1>4, <1>5, <1>6, <1>7 DEF MutexInv
<1> QED BY <1>2, <1>3, <1>6, <1>8 DEF ServedInOrder, FreeKept, FreeUnwanted

LEMMA AcquireWaitStep ==
  ASSUME KernelInv, MutexInv, NEW t \in Threads, NEW x \in BOOLEAN,
         M!acquire_wait(t, x)
  PROVE  KernelInv' /\ MutexInv' /\ ServedInOrder /\ FreeKept
<1>1. /\ Calls(t) /\ m_magic /\ t \notin owners /\ BlockOn(t, Mutex, x)
      /\ m_count > 0 /\ m_count' = m_count + 1 /\ UNCHANGED <<holder, m_magic, owners>>
  BY MutexKernel DEF M!acquire_wait, M!Asks
<1>2. /\ KernelInv'
      /\ pc' = [pc EXCEPT ![t] = Mutex]
      /\ B(Mutex)' = B(Mutex) + 1
      /\ \A r : Woken(Mutex, r)' = Woken(Mutex, r) /\ R(Mutex, r)' = R(Mutex, r)
  BY <1>1, Joins, Distinct
<1>3. Served' = Served
  BY <1>1, <1>2 DEF Served
<1>4. Cardinality(owners)' = Cardinality(owners)
  BY <1>1
<1>5. \A u \in Threads : pc'[u] = Mutex => u \notin owners'
  BY <1>1, <1>2 DEF MutexInv, KernelInv, TypeOK
<1>6. m_magic' => m_count' = Cardinality(owners)' + R(Mutex, NoError)'
                               + R(Mutex, TimedOut)' + B(Mutex)'
  BY <1>1, <1>2, <1>4, MutexFacts DEF MutexInv
<1>7. MutexInv'
  BY <1>1, <1>3, <1>5, <1>6 DEF MutexInv
<1>8. FreeKept
  <2> SUFFICES ASSUME R(Mutex, TimedOut) = 0, FreeUnwanted, Served = {} PROVE FALSE
    BY <1>3 DEF FreeKept, FreeUnwanted
  <2>1. owners = {} /\ Woken(Mutex, NoError) = {}
    BY DEF Served
  <2>2. Cardinality(owners) = 0 /\ R(Mutex, NoError) = 0 /\ B(Mutex) = 0
    BY <1>1, <2>1, MutexFacts DEF FreeUnwanted
  <2> QED BY <1>1, <2>2 DEF MutexInv
<1> QED BY <1>2, <1>3, <1>7, <1>8 DEF ServedInOrder

LEMMA AcquireReturnStep ==
  ASSUME KernelInv, MutexInv, NEW t \in Threads, M!acquire_return(t)
  PROVE  KernelInv' /\ MutexInv' /\ ServedInOrder /\ FreeKept
<1>1. /\ Resumes(t, Mutex) /\ BlockReturn(t)
      /\ IF waitret[t] = NoError
           THEN holder' = t /\ owners' = owners \cup {t} /\ UNCHANGED m_count
           ELSE /\ m_count' = IF waitret[t] = TimedOut THEN m_count - 1 ELSE m_count
                /\ UNCHANGED <<holder, owners>>
      /\ m_magic' = m_magic
  BY MutexKernel DEF M!acquire_return
<1>2. PICK r : r = waitret[t]
  OBVIOUS
<1>3. /\ KernelInv'
      /\ pc' = [pc EXCEPT ![t] = "run"]
      /\ r \in Status
      /\ B(Mutex)' = B(Mutex)
      /\ t \in Woken(Mutex, r)
      /\ Woken(Mutex, r)' = Woken(Mutex, r) \ {t}
      /\ R(Mutex, r)' = R(Mutex, r) - 1
      /\ \A s : s # r => Woken(Mutex, s)' = Woken(Mutex, s) /\ R(Mutex, s)' = R(Mutex, s)
  BY <1>1, <1>2, Comes, Distinct
<1>4. pc[t] = Mutex /\ t \notin owners /\ Mutex # "run"
  BY <1>1, QueuesAssumption, Distinct DEF Resumes, MutexInv
<1>5. \A u \in Threads : pc'[u] = Mutex => pc[u] = Mutex /\ u # t
  BY <1>3, <1>4 DEF KernelInv, TypeOK
<1>6. CASE r = NoError
  <2>1. holder' = t /\ owners' = owners \cup {t} /\ m_count' = m_count
    BY <1>1, <1>2, <1>6
  <2>2. Served' = Served /\ t \in Served
    BY <1>3, <1>6, <2>1 DEF Served
  <2>3. owners' = {t}
    BY <2>1, <2>2 DEF MutexInv, Served
  <2>4. Cardinality(owners)' = Cardinality(owners) + 1
    BY <1>4, <2>1, MutexFacts, OwnersNext
  <2>5. /\ R(Mutex, NoError)' = R(Mutex, NoError) - 1
        /\ R(Mutex, TimedOut)' = R(Mutex, TimedOut)
    BY <1>3, <1>6, MutexFacts
  <2>6. m_magic' => m_count' = Cardinality(owners)' + R(Mutex, NoError)'
                                 + R(Mutex, TimedOut)' + B(Mutex)'
    BY <1>1, <1>3, <2>1, <2>4, <2>5, MutexFacts DEF MutexInv
  <2>7. MutexInv'
    BY <1>5, <2>1, <2>2, <2>3, <2>6 DEF MutexInv
  <2> QED BY <1>3, <2>2, <2>7 DEF ServedInOrder, FreeKept, FreeUnwanted
<1>7. CASE r # NoError
  <2>1. /\ m_count' = IF r = TimedOut THEN m_count - 1 ELSE m_count
        /\ UNCHANGED <<holder, owners>>
    BY <1>1, <1>2, <1>7
  <2>2. Served' = Served
    BY <1>3, <1>7, <2>1 DEF Served
  <2>3. Cardinality(owners)' = Cardinality(owners)
    BY <2>1
  <2>4. /\ R(Mutex, NoError)' = R(Mutex, NoError)
        /\ R(Mutex, TimedOut)' = IF r = TimedOut THEN R(Mutex, TimedOut) - 1
                                                 ELSE R(Mutex, TimedOut)
    BY <1>3, <1>7
  <2>5. m_magic' => m_count' = Cardinality(owners)' + R(Mutex, NoError)'
                                 + R(Mutex, TimedOut)' + B(Mutex)'
    BY <1>1, <1>3, <2>1, <2>3, <2>4, MutexFacts DEF MutexInv
  <2>6. m_count' \in Int
    BY <2>1 DEF MutexInv
  <2>7. MutexInv'
    BY <1>1, <1>5, <2>1, <2>2, <2>5, <2>6 DEF MutexInv
  <2> QED BY <1>1, <1>3, <2>2, <2>7 DEF ServedInOrder, FreeKept, FreeUnwanted
<1> QED BY <1>6, <1>7

LEMMA ReleaseStep ==
  ASSUME KernelInv, MutexInv, NEW t \in Threads, M!mutex_release(t)
  PROVE  KernelInv' /\ MutexInv' /\ ServedInOrder /\ FreeKept
<1>1. /\ t \in owners /\ m_magic /\ m_magic' = m_magic
      /\ m_count' = m_count - 1 /\ owners' = owners \ {t}
      /\ IF m_count' >= 1 /\ waitq[Mutex] # <<>>
           THEN WakeOne(Mutex, TRUE, NoError)
           ELSE UNCHANGED kernelvars
  BY MutexKernel DEF M!mutex_release, M!kernelvars, kernelvars, M!NoError, NoError
<1>2. /\ owners = {t} /\ owners' = {} /\ Woken(Mutex, NoError) \subseteq {t}
      /\ t \notin Woken(Mutex, NoError)
  BY <1>1 DEF MutexInv, Served, Woken
<1>3. Woken(Mutex, NoError) = {} /\ R(Mutex, NoError) = 0
  BY <1>2, MutexFacts
<1>4. Cardinality(owners) = 1 /\ Cardinality(owners)' = 0
  BY <1>1, <1>2, MutexFacts, OwnersNext, FS_Singleton, FS_EmptySet
<1>5. CASE waitq[Mutex] # <<>>
  <2>1. m_count' >= 1
    BY <1>1, <1>4, <1>5, MutexFacts DEF MutexInv
  <2>2. WakeOne(Mutex, TRUE, NoError)
    BY <1>1, <1>5, <2>1
  <2>3. NoError \in Status
    BY DEF Status
  <2>4. /\ KernelInv' /\ UNCHANGED pc
        /\ B(Mutex)' = B(Mutex) - 1
        /\ Woken(Mutex, NoError)' = Woken(Mutex, NoError) \cup {Head(waitq[Mutex])}
        /\ R(Mutex, NoError)' = R(Mutex, NoError) + 1
        /\ \A s : s # NoError => R(Mutex, s)' = R(Mutex, s)
    BY ZenonT(30), <1>5, <2>2, <2>3, WakesHead, Distinct
  <2>5. R(Mutex, TimedOut)' = R(Mutex, TimedOut)
    BY <2>4, MutexFacts
  <2>6. Served' = {Head(waitq[Mutex])}
    BY <1>2, <1>3, <2>4 DEF Served
  <2>7. m_magic' => m_count' = Cardinality(owners)' + R(Mutex, NoError)'
                                 + R(Mutex, TimedOut)' + B(Mutex)'
    BY <1>1, <1>3, <1>4, <2>4, <2>5, MutexFacts DEF MutexInv
  <2>8. m_count' \in Int
    BY <1>1 DEF MutexInv
  <2>9. MutexInv'
    BY <1>2, <2>4, <2>6, <2>7, <2>8 DEF MutexInv
  <2> QED BY <2>4, <2>6, <2>9 DEF ServedInOrder, FreeKept, FreeUnwanted
<1>6. CASE waitq[Mutex] = <<>>
  <2>1. KernelInv' /\ UNCHANGED pc /\ Unmoved(Mutex)
    BY <1>1, <1>6, Still, Distinct
  <2>2. B(Mutex)' = B(Mutex) /\ \A r : R(Mutex, r)' = R(Mutex, r)
    BY <2>1, UnmovedCounts, Distinct
  <2>3. Served' = {}
    BY <1>2, <1>3, <2>1 DEF Served, Unmoved
  <2>4. m_magic' => m_count' = Cardinality(owners)' + R(Mutex, NoError)'
                                 + R(Mutex, TimedOut)' + B(Mutex)'
    BY <1>1, <1>4, <2>2, MutexFacts DEF MutexInv
  <2>5. m_count' \in Int
    BY <1>1 DEF MutexInv
  <2>6. MutexInv'
    BY <1>2, <2>1, <2>3, <2>4, <2>5 DEF MutexInv
  <2>7. FreeKept
    BY <1>6, <2>2, MutexFacts DEF FreeKept, FreeUnwanted
  <2> QED BY <2>1, <2>3, <2>6, <2>7 DEF ServedInOrder
<1> QED BY <1>5, <1>6

LEMMA MutexDestroyStep ==
  ASSUME KernelInv, MutexInv, NEW t \in Threads, M!mutex_destroy(t)
  PROVE  KernelInv' /\ MutexInv' /\ ServedInOrder /\ FreeKept
<1>1. /\ m_magic' = FALSE /\ m_count' = 0 /\ owners' = owners \ {t}
      /\ IF waitq[Mutex] # <<>> THEN WakeAll(Mutex, TRUE, Destroyed)
                                ELSE UNCHANGED kernelvars
  BY MutexKernel DEF M!mutex_destroy, M!kernelvars, kernelvars, M!Destroyed, Destroyed
<1>2. KernelInv' /\ UNCHANGED pc /\ Woken(Mutex, NoError)' = Woken(Mutex, NoError)
  <2>1. CASE waitq[Mutex] # <<>>
    <3>1. Destroyed \in Status /\ NoError # Destroyed
      BY DEF Status, NoError, Destroyed
    <3>2. WakeAll(Mutex, TRUE, Destroyed)
      BY <1>1, <2>1
    <3> QED BY <3>1, <3>2, WakesEveryone, Distinct
  <2>2. CASE waitq[Mutex] = <<>>
    BY <1>1, <2>2, Still, Distinct DEF Unmoved
  <2> QED BY <2>1, <2>2
<1>3. Served' \subseteq Served
  BY <1>1, <1>2 DEF Served
<1>4. MutexInv'
  BY <1>1, <1>2, <1>3 DEF MutexInv
<1> QED BY <1>1, <1>2, <1>3, <1>4 DEF ServedInOrder, FreeKept, FreeUnwanted

LEMMA MutexStep ==
  ASSUME KernelInv, MutexInv, NEW waits \in SUBSET BOOLEAN, M!MutexNext(waits)
  PROVE  KernelInv' /\ MutexInv' /\ ServedInOrder /\ FreeKept
  BY AcquireFreeStep, AcquireReturnStep, ReleaseStep,
     MutexDestroyStep, AcquireWaitStep DEF M!MutexNext

\* The mutex in a step that is not one of its own.
LEMMA MutexOther ==
  ASSUME KernelInv, KernelInv', MutexInv, UNCHANGED mutexvars,
         \/ Unmoved(Mutex)
         \/ ThreadNext
  PROVE  MutexInv' /\ ServedInOrder /\ FreeKept
<1>0. UNCHANGED <<m_count, holder, m_magic, owners>>
  BY DEF mutexvars
<1>1. /\ \A u \in Threads : pc'[u] = Mutex => pc[u] = Mutex
      /\ Woken(Mutex, NoError)' = Woken(Mutex, NoError)
      /\ R(Mutex, NoError)' = R(Mutex, NoError)
      /\ B(Mutex)' + R(Mutex, TimedOut)' = B(Mutex) + R(Mutex, TimedOut)
      /\ B(Mutex)' <= B(Mutex)
  <2>1. CASE Unmoved(Mutex)
    BY <2>1, MutexFacts, UnmovedPlaces, UnmovedCounts, Distinct DEF Unmoved
  <2>2. CASE ThreadNext
    BY <2>2, Alone, Distinct, MutexFacts
  <2> QED BY <2>1, <2>2
<1>2. Served' = Served
  BY <1>0, <1>1 DEF Served
<1>3. Cardinality(owners)' = Cardinality(owners)
  BY <1>0
<1>4. /\ B(Mutex) \in Nat /\ R(Mutex, TimedOut) \in Nat
      /\ B(Mutex)' \in Nat /\ R(Mutex, TimedOut)' \in Nat
      /\ R(Mutex, NoError) \in Nat /\ Cardinality(owners) \in Nat
  BY MutexFacts, CountNat
<1>5. m_magic' => m_count' = Cardinality(owners)' + R(Mutex, NoError)'
                               + R(Mutex, TimedOut)' + B(Mutex)'
  BY <1>0, <1>1, <1>3, <1>4 DEF MutexInv
<1>6. MutexInv'
  BY <1>0, <1>1, <1>2, <1>5 DEF MutexInv
<1>7. FreeKept
  BY <1>0, <1>1, <1>2, <1>4 DEF FreeKept, FreeUnwanted
<1> QED BY <1>2, <1>6, <1>7 DEF ServedInOrder

-----------------------------------------------------------------------------
(***************************************************************************)
(* The semaphore.  Every unit posted was taken, is on its way to a thread  *)
(* that was woken, or is spare; count is what is spare, less one for every *)
(* thread that waits or has yet to back out.                               *)
(***************************************************************************)
SpareUnits == posts - taken - R(Sem, NoError)

SemInv ==
  /\ s_count \in Int /\ posts \in Int /\ taken \in Int
  /\ SpareUnits >= 0
  /\ live => s_count = SpareUnits - B(Sem) - R(Sem, TimedOut)

\* nobody waits while a unit is spare; kept while no wait times out
SpareUnwanted == (SpareUnits > 0 \/ ~live) => B(Sem) = 0

SpareKept == R(Sem, TimedOut) = 0 /\ SpareUnwanted => SpareUnwanted'

LEMMA SemFacts ==
  ASSUME KernelInv
  PROVE  /\ Sem \in Queues
         /\ B(Sem) \in Nat /\ (B(Sem) = 0 <=> waitq[Sem] = <<>>)
         /\ R(Sem, NoError) \in Nat /\ R(Sem, TimedOut) \in Nat
         /\ NoError # TimedOut /\ NoError # Destroyed /\ TimedOut # Destroyed
<1>1. Sem \in Queues
  BY Distinct
<1> QED BY <1>1, CountFacts DEF NoError, TimedOut, Destroyed

\* the sums of SemInv from the counts of the step
LEMMA SemSums ==
  ASSUME s_count' \in Int, posts' \in Int, taken' \in Int,
         R(Sem, NoError)' \in Nat,
         posts' - taken' - R(Sem, NoError)' >= 0,
         live' => s_count' = posts' - taken' - R(Sem, NoError)'
                               - B(Sem)' - R(Sem, TimedOut)'
  PROVE  SemInv'
  BY DEF SemInv, SpareUnits

LEMMA PostStep ==
  ASSUME KernelInv, SemInv, NEW t \in Threads, S!sem_post(t)
  PROVE  KernelInv' /\ SemInv' /\ SpareKept
<1>1. /\ live /\ live' = live /\ taken' = taken
      /\ posts' = posts + 1 /\ s_count' = s_count + 1
      /\ IF s_count' <= 0 /\ waitq[Sem] # <<>>
           THEN WakeOne(Sem, TRUE, NoError)
           ELSE UNCHANGED kernelvars
  BY SemKernel DEF S!sem_post, S!kernelvars, kernelvars, S!NoError, NoError
<1>2. CASE s_count' <= 0 /\ waitq[Sem] # <<>>
  <2>1. WakeOne(Sem, TRUE, NoError) /\ NoError \in Status
    BY <1>1, <1>2 DEF Status
  <2>2. /\ KernelInv'
        /\ B(Sem)' = B(Sem) - 1
        /\ R(Sem, NoError)' = R(Sem, NoError) + 1
        /\ \A s : s # NoError => R(Sem, s)' = R(Sem, s)
    <3>1. Sem \in Queues /\ waitq[Sem] # <<>> /\ TRUE \in BOOLEAN
      BY <1>2, Distinct
    <3> QED BY <2>1, <3>1, WakesHead
  <2>3. R(Sem, TimedOut)' = R(Sem, TimedOut)
    BY <2>2, SemFacts
  <2>4. SemInv'
    <3>1. /\ s_count \in Int /\ posts \in Int /\ taken \in Int
          /\ B(Sem) \in Nat /\ R(Sem, NoError) \in Nat /\ R(Sem, TimedOut) \in Nat
          /\ posts - taken - R(Sem, NoError) >= 0
          /\ s_count = posts - taken - R(Sem, NoError) - B(Sem) - R(Sem, TimedOut)
      BY <1>1, SemFacts DEF SemInv, SpareUnits
    <3>2. /\ s_count' = s_count + 1 /\ posts' = posts + 1 /\ taken' = taken
          /\ B(Sem)' = B(Sem) - 1 /\ R(Sem, NoError)' = R(Sem, NoError) + 1
          /\ R(Sem, TimedOut)' = R(Sem, TimedOut)
      BY <1>1, <2>2, <2>3
    <3>3. posts' - taken' - R(Sem, NoError)' >= 0
      BY <3>1, <3>2
    <3>4. s_count' = posts' - taken' - R(Sem, NoError)' - B(Sem)' - R(Sem, TimedOut)'
      BY <3>1, <3>2
    <3>5. /\ s_count' \in Int /\ posts' \in Int /\ taken' \in Int
          /\ R(Sem, NoError)' \in Nat
      BY <3>1, <3>2
    <3> QED BY <3>3, <3>4, <3>5, SemSums
  <2>5. SpareKept
    BY <1>1, <1>2, <2>2, SemFacts DEF SpareKept, SpareUnwanted, SemInv, SpareUnits
  <2> QED BY <2>2, <2>4, <2>5
<1>3. CASE ~(s_count' <= 0 /\ waitq[Sem] # <<>>)
  <2>1. KernelInv' /\ Unmoved(Sem)
    BY <1>1, <1>3, Still, Distinct
  <2>2. B(Sem)' = B(Sem) /\ \A r : R(Sem, r)' = R(Sem, r)
    BY <2>1, UnmovedCounts, Distinct
  <2>3. SemInv'
    BY <1>1, <2>2, SemFacts, SemSums DEF SemInv, SpareUnits
  <2>4. SpareKept
    BY <1>1, <1>3, <2>2, SemFacts DEF SpareKept, SpareUnwanted, SemInv, SpareUnits
  <2> QED BY <2>1, <2>3, <2>4
<1> QED BY <1>2, <1>3

LEMMA TakeNowStep ==
  ASSUME KernelInv, SemInv, NEW t \in Threads, S!take_now(t)
  PROVE  KernelInv' /\ SemInv' /\ SpareKept
<1>1. /\ live /\ live' = live /\ s_count > 0 /\ posts' = posts
      /\ taken' = taken + 1 /\ s_count' = s_count - 1 /\ UNCHANGED kernelvars
  BY DEF S!take_now, S!kernelvars, kernelvars
<1>2. KernelInv' /\ Unmoved(Sem)
  BY <1>1, Still, Distinct
<1>3. B(Sem)' = B(Sem) /\ \A r : R(Sem, r)' = R(Sem, r)
  BY <1>2, UnmovedCounts, Distinct
<1>4. SemInv'
  BY <1>1, <1>3, SemFacts, SemSums DEF SemInv, SpareUnits
<1>5. SpareKept
  BY <1>1, <1>3, SemFacts DEF SpareKept, SpareUnwanted, SemInv, SpareUnits
<1> QED BY <1>2, <1>4, <1>5

LEMMA TakeWaitStep ==
  ASSUME KernelInv, SemInv, NEW t \in Threads, NEW x \in BOOLEAN, S!take_wait(t, x)
  PROVE  KernelInv' /\ SemInv' /\ SpareKept
<1>1. /\ Calls(t) /\ BlockOn(t, Sem, x) /\ live
      /\ s_count <= 0 /\ s_count' = s_count - 1
      /\ UNCHANGED <<live, posts, taken>>
  BY SemKernel DEF S!take_wait
<1>2. /\ KernelInv'
      /\ B(Sem)' = B(Sem) + 1
      /\ \A r : R(Sem, r)' = R(Sem, r)
  BY <1>1, Joins, Distinct
<1>3. SemInv'
  BY <1>1, <1>2, SemFacts, SemSums DEF SemInv, SpareUnits
<1>4. SpareKept
  BY <1>1, <1>2, SemFacts DEF SpareKept, SpareUnwanted, SemInv, SpareUnits
<1> QED BY <1>2, <1>3, <1>4

LEMMA TakeReturnStep ==
  ASSUME KernelInv, SemInv, NEW t \in Threads, S!take_return(t)
  PROVE  KernelInv' /\ SemInv' /\ SpareKept
<1>1. /\ Resumes(t, Sem) /\ BlockReturn(t)
      /\ s_count' = IF waitret[t] = TimedOut THEN s_count + 1 ELSE s_count
      /\ taken' = IF waitret[t] = NoError THEN taken + 1 ELSE taken
      /\ UNCHANGED <<live, posts>>
  BY SemKernel DEF S!take_return
<1>2. PICK r : r = waitret[t]
  OBVIOUS
<1>3. /\ KernelInv'
      /\ B(Sem)' = B(Sem)
      /\ R(Sem, r)' = R(Sem, r) - 1
      /\ \A s : s # r => R(Sem, s)' = R(Sem, s)
  BY <1>1, <1>2, Comes, Distinct
<1>4. CASE r = NoError
  <2>1. /\ s_count' = s_count /\ taken' = taken + 1
        /\ R(Sem, NoError)' = R(Sem, NoError) - 1
        /\ R(Sem, TimedOut)' = R(Sem, TimedOut)
    BY <1>1, <1>2, <1>3, <1>4, SemFacts
  <2>2. R(Sem, NoError)' \in Nat
    BY CountNat
  <2>3. SpareKept
    BY <1>1, <1>3, <2>1, SemFacts DEF SpareKept, SpareUnwanted, SemInv, SpareUnits
  <2>4. SemInv'
    BY <1>1, <1>3, <2>1, <2>2, SemFacts, SemSums DEF SemInv, SpareUnits
  <2> QED BY <1>3, <2>3, <2>4
<1>5. CASE r # NoError
  <2>1. /\ taken' = taken
        /\ s_count' = IF r = TimedOut THEN s_count + 1 ELSE s_count
        /\ R(Sem, NoError)' = R(Sem, NoError)
        /\ R(Sem, TimedOut)' = IF r = TimedOut THEN R(Sem, TimedOut) - 1
                                               ELSE R(Sem, TimedOut)
    BY <1>1, <1>2, <1>3, <1>5, SemFacts
  <2>3. SpareKept
    BY <1>1, <1>3, <2>1, SemFacts DEF SpareKept, SpareUnwanted, SemInv, SpareUnits
  <2>4. SemInv'
    BY <1>1, <1>3, <2>1, SemFacts, SemSums DEF SemInv, SpareUnits
  <2> QED BY <1>3, <2>3, <2>4
<1> QED BY <1>4, <1>5

LEMMA SemDestroyStep ==
  ASSUME KernelInv, SemInv, NEW t \in Threads, S!sem_destroy(t)
  PROVE  KernelInv' /\ SemInv' /\ SpareKept
<1>1. /\ live' = FALSE /\ s_count' = 0 /\ UNCHANGED <<posts, taken>>
      /\ IF waitq[Sem] # <<>> THEN WakeAll(Sem, TRUE, Destroyed)
                              ELSE UNCHANGED kernelvars
  BY SemKernel DEF S!sem_destroy, S!kernelvars, kernelvars, S!Destroyed, Destroyed
<1>2. KernelInv' /\ R(Sem, NoError)' = R(Sem, NoError) /\ B(Sem)' = 0
  <2>1. CASE waitq[Sem] # <<>>
    <3>1. WakeAll(Sem, TRUE, Destroyed) /\ Destroyed \in Status
      BY <1>1, <2>1 DEF Status
    <3> QED BY <3>1, WakesEveryone, Distinct, SemFacts
  <2>2. CASE waitq[Sem] = <<>>
    BY <1>1, <2>2, Still, UnmovedCounts, SemFacts
  <2> QED BY <2>1, <2>2
<1>3. SemInv'
  BY <1>1, <1>2, SemFacts, SemSums DEF SemInv, SpareUnits
<1> QED BY <1>2, <1>3 DEF SpareKept, SpareUnwanted

LEMMA SemStep ==
  ASSUME KernelInv, SemInv, NEW waits \in SUBSET BOOLEAN, S!SemNext(waits)
  PROVE  KernelInv' /\ SemInv' /\ SpareKept
  BY PostStep, TakeNowStep, TakeReturnStep, SemDestroyStep, TakeWaitStep
     DEF S!SemNext

\* The semaphore in a step that is not one of its own.
LEMMA SemOther ==
  ASSUME KernelInv, KernelInv', SemInv, UNCHANGED semvars,
         \/ Unmoved(Sem)
         \/ ThreadNext
  PROVE  SemInv' /\ SpareKept
<1>0. UNCHANGED <<s_count, live, posts, taken>>
  BY DEF semvars
<1>1. /\ R(Sem, NoError)' = R(Sem, NoError)
      /\ B(Sem)' + R(Sem, TimedOut)' = B(Sem) + R(Sem, TimedOut)
      /\ B(Sem)' <= B(Sem)
  <2>1. CASE Unmoved(Sem)
    BY <2>1, UnmovedCounts, SemFacts
  <2>2. CASE ThreadNext
    BY <2>2, Alone, Distinct, SemFacts
  <2> QED BY <2>1, <2>2
<1>2. B(Sem)' \in Nat /\ R(Sem, TimedOut)' \in Nat
  BY CountNat
<1>3. SemInv'
  BY SMTT(30), <1>0, <1>1, <1>2, SemFacts, SemSums DEF SemInv, SpareUnits
<1>4. SpareKept
  BY <1>0, <1>1, <1>2, SemFacts DEF SpareKept, SpareUnwanted, SemInv, SpareUnits
<1> QED BY <1>3, <1>4

-----------------------------------------------------------------------------
(***************************************************************************)
(* The event.                                                              *)
(***************************************************************************)
EventInv ==
  /\ signalled \in BOOLEAN /\ auto \in BOOLEAN
  /\ signals \in Int /\ passed \in Int
  /\ signalled => B(Event) = 0
  /\ auto /\ e_magic =>
       signals = passed + R(Event, NoError) + (IF signalled THEN 1 ELSE 0)

LEMMA EventFacts ==
  ASSUME KernelInv
  PROVE  /\ Event \in Queues
         /\ B(Event) \in Nat /\ (B(Event) = 0 <=> waitq[Event] = <<>>)
         /\ R(Event, NoError) \in Nat
         /\ NoError # TimedOut /\ NoError # Destroyed /\ TimedOut # Destroyed
<1>1. Event \in Queues
  BY Distinct
<1> QED BY <1>1, CountFacts DEF NoError, TimedOut, Destroyed

LEMMA WaitPassStep ==
  ASSUME KernelInv, EventInv, NEW t \in Threads,
         E!wait_pass(t) \/ E!event_unsignal(t)
  PROVE  KernelInv' /\ EventInv'
<1>1. /\ UNCHANGED <<auto, e_magic>> /\ UNCHANGED kernelvars
      /\ \/ /\ signalled /\ signalled' = ~auto /\ signals' = signals
            /\ passed' = IF auto THEN passed + 1 ELSE passed
         \/ /\ signalled' = FALSE /\ passed' = passed
            /\ signals' = IF signalled THEN signals - 1 ELSE signals
  BY DEF E!wait_pass, E!event_unsignal, E!kernelvars, kernelvars
<1>2. KernelInv' /\ Unmoved(Event)
  BY <1>1, Still, Distinct
<1>3. B(Event)' = B(Event) /\ \A r : R(Event, r)' = R(Event, r)
  BY <1>2, UnmovedCounts, Distinct
<1>4. /\ signalled' \in BOOLEAN /\ auto' \in BOOLEAN
      /\ signals' \in Int /\ passed' \in Int
      /\ signalled' => B(Event)' = 0
  <2>1. /\ signalled \in BOOLEAN /\ auto \in BOOLEAN /\ signals \in Int /\ passed \in Int
        /\ signalled => B(Event) = 0
    BY DEF EventInv
  <2>2. signals' \in Int /\ passed' \in Int
    BY <1>1, <2>1
  <2>3. signalled' \in BOOLEAN /\ auto' \in BOOLEAN /\ (signalled' => signalled)
    BY <1>1, <2>1, Zenon
  <2> QED BY <1>3, <2>1, <2>2, <2>3
<1>5. ASSUME auto', e_magic'
      PROVE  signals' = passed' + R(Event, NoError)' + (IF signalled' THEN 1 ELSE 0)
  <2>1. signals = passed + R(Event, NoError) + (IF signalled THEN 1 ELSE 0)
    BY <1>1, <1>5 DEF EventInv
  <2>2. /\ signalled' = FALSE /\ signalled \in BOOLEAN
        /\ \/ signalled /\ signals' = signals /\ passed' = passed + 1
           \/ signals' = (IF signalled THEN signals - 1 ELSE signals) /\ passed' = passed
    BY <1>1, <1>5 DEF EventInv
  <2>3. passed \in Int /\ signals \in Int /\ R(Event, NoError) \in Nat
    BY EventFacts DEF EventInv
  <2>4. R(Event, NoError)' = R(Event, NoError)
    BY <1>3
  <2> QED BY <2>1, <2>2, <2>3, <2>4
<1> QED BY <1>2, <1>4, <1>5 DEF EventInv

LEMMA WaitBlockStep ==
  ASSUME KernelInv, EventInv, NEW t \in Threads, NEW x \in BOOLEAN, E!wait_block(t, x)
  PROVE  KernelInv' /\ EventInv'
<1>1. /\ Calls(t) /\ BlockOn(t, Event, x) /\ ~signalled
      /\ UNCHANGED <<signalled, auto, e_magic, signals, passed>>
  BY EventKernel DEF E!wait_block, E!eventvars
<1>2. KernelInv' /\ \A r : R(Event, r)' = R(Event, r)
  BY <1>1, Joins, Distinct
<1> QED BY <1>1, <1>2 DEF EventInv

LEMMA WaitReturnStep ==
  ASSUME KernelInv, EventInv, NEW t \in Threads, E!wait_return(t)
  PROVE  KernelInv' /\ EventInv'
<1>1. /\ Resumes(t, Event) /\ BlockReturn(t)
      /\ passed' = IF auto /\ waitret[t] = NoError THEN passed + 1 ELSE passed
      /\ UNCHANGED <<signalled, auto, e_magic, signals>>
  BY EventKernel DEF E!wait_return
<1>2. PICK r : r = waitret[t]
  OBVIOUS
<1>3. /\ KernelInv'
      /\ B(Event)' = B(Event)
      /\ R(Event, r)' = R(Event, r) - 1
      /\ \A s : s # r => R(Event, s)' = R(Event, s)
  BY <1>1, <1>2, Comes, Distinct
<1>4. R(Event, NoError)' = IF r = NoError THEN R(Event, NoError) - 1
                                          ELSE R(Event, NoError)
  BY <1>3
<1>5. EventInv'
  BY <1>1, <1>2, <1>3, <1>4, EventFacts DEF EventInv
<1> QED BY <1>3, <1>5

LEMMA SignalStep ==
  ASSUME KernelInv, EventInv, NEW t \in Threads, NEW x \in BOOLEAN,
         E!event_signal(t, x)
  PROVE  KernelInv' /\ EventInv'
<1>1. /\ ~signalled /\ signals' = signals + 1
      /\ IF waitq[Event] = <<>> THEN UNCHANGED kernelvars
         ELSE IF auto THEN WakeOne(Event, x, NoError)
                      ELSE WakeAll(Event, x, NoError)
      /\ signalled' = (~auto \/ waitq[Event] = <<>>)
      /\ UNCHANGED <<auto, e_magic, passed>>
  BY EventKernel DEF E!event_signal, E!kernelvars, kernelvars, E!NoError, NoError
<1>2. NoError \in Status
  BY DEF Status
<1>3. CASE waitq[Event] = <<>>
  <2>1. KernelInv' /\ Unmoved(Event)
    BY <1>1, <1>3, Still, Distinct
  <2>2. B(Event)' = 0 /\ R(Event, NoError)' = R(Event, NoError)
    BY <1>3, <2>1, UnmovedCounts, EventFacts
  <2> QED BY <1>1, <1>3, <2>1, <2>2, EventFacts DEF EventInv
<1>4. CASE waitq[Event] # <<>> /\ auto
  <2>1. WakeOne(Event, x, NoError)
    BY <1>1, <1>4
  <2>2. KernelInv' /\ R(Event, NoError)' = R(Event, NoError) + 1
    BY <1>2, <1>4, <2>1, WakesHead, Distinct
  <2>3. signalled' = FALSE
    BY <1>1, <1>4 DEF EventInv
  <2> QED BY <1>1, <2>2, <2>3, EventFacts DEF EventInv
<1>5. CASE waitq[Event] # <<>> /\ ~auto
  <2>1. WakeAll(Event, x, NoError)
    BY <1>1, <1>5
  <2>2. KernelInv' /\ B(Event)' = 0
    BY <1>2, <2>1, WakesEveryone, Distinct
  <2>3. signalled' = TRUE
    BY <1>1, <1>5 DEF EventInv
  <2> QED BY <1>1, <1>5, <2>2, <2>3 DEF EventInv
<1> QED BY <1>3, <1>4, <1>5

LEMMA EventDestroyStep ==
  ASSUME KernelInv, EventInv, NEW t \in Threads, E!event_destroy(t)
  PROVE  KernelInv' /\ EventInv'
<1>1. /\ e_magic' = FALSE /\ signalled' = FALSE /\ UNCHANGED <<auto, signals, passed>>
      /\ IF waitq[Event] # <<>> THEN WakeAll(Event, TRUE, Destroyed)
                                ELSE UNCHANGED kernelvars
  BY EventKernel DEF E!event_destroy, E!kernelvars, kernelvars, E!Destroyed, Destroyed
<1>2. KernelInv'
  <2>1. CASE waitq[Event] # <<>>
    <3>1. WakeAll(Event, TRUE, Destroyed) /\ Destroyed \in Status
      BY <1>1, <2>1 DEF Status
    <3> QED BY <3>1, WakesEveryone, Distinct
  <2>2. CASE waitq[Event] = <<>>
    BY <1>1, <2>2, Still
  <2> QED BY <2>1, <2>2
<1> QED BY <1>1, <1>2 DEF EventInv

LEMMA EventStep ==
  ASSUME KernelInv, EventInv, NEW waits \in SUBSET BOOLEAN, E!EventNext(waits)
  PROVE  KernelInv' /\ EventInv'
  BY WaitPassStep, WaitReturnStep, EventDestroyStep, WaitBlockStep, SignalStep
     DEF E!EventNext

\* The event in a step that is not one of its own: a waiter that times out takes
\* no signal with it.
LEMMA EventOther ==
  ASSUME KernelInv, KernelInv', EventInv, UNCHANGED eventvars,
         \/ Unmoved(Event)
         \/ ThreadNext
  PROVE  EventInv'
<1>0. UNCHANGED <<signalled, auto, e_magic, signals, passed>>
  BY DEF eventvars
<1>1. R(Event, NoError)' = R(Event, NoError) /\ B(Event)' <= B(Event)
  <2>1. CASE Unmoved(Event)
    BY <2>1, UnmovedCounts, EventFacts
  <2>2. CASE ThreadNext
    BY <2>2, Alone, EventFacts
  <2> QED BY <2>1, <2>2
<1>2. B(Event)' \in Nat
  BY CountNat
<1> QED BY <1>0, <1>1, <1>2, EventFacts DEF EventInv

-----------------------------------------------------------------------------
(***************************************************************************)
(* The three together.                                                     *)
(***************************************************************************)
ObjectsInv ==
  /\ KernelInv /\ MutexInv /\ SemInv /\ EventInv
  /\ timed \in BOOLEAN

\* where no finite timeout is used, none fires
NoTimeouts == \A t \in Threads : timer[t] # "wait" /\ waitret[t] # TimedOut

UntimedInv == ~timed => NoTimeouts /\ FreeUnwanted /\ SpareUnwanted

LEMMA ObjectsInitially ==
  ASSUME ObjectsInit
  PROVE  ObjectsInv /\ UntimedInv
<1>0. /\ Init /\ timed \in Timed
      /\ \E q \in Queues :
           M!MutexInit(q = Mutex) /\ S!SemInit(q = Sem) /\ E!EventInit(q = Event)
  BY DEF ObjectsInit
<1>1. PICK q \in Queues :
        M!MutexInit(q = Mutex) /\ S!SemInit(q = Sem) /\ E!EventInit(q = Event)
  BY <1>0
<1>2. KernelInv /\ timed \in BOOLEAN
  BY <1>0, KernelInit, ObjectsAssumption
<1>3. \A p \in Queues : Blocked(p) = {} /\ \A r : Woken(p, r) = {}
  BY <1>0, QueuesAssumption DEF Init, Blocked, Woken
<1>4. \A p \in Queues : B(p) = 0 /\ \A r : R(p, r) = 0
  BY <1>3, FS_EmptySet DEF B, R
<1>5. MutexInv
  <2>1. /\ m_count = 0 /\ owners = {} /\ Served = {}
    BY <1>1, <1>3, Distinct DEF M!MutexInit, Served
  <2>2. Cardinality(owners) = 0
    BY <2>1, FS_EmptySet
  <2> QED BY <1>4, <2>1, <2>2, Distinct DEF MutexInv
<1>6. /\ s_count \in Nat /\ posts = s_count /\ taken = 0
  BY <1>1, ObjectsAssumption DEF S!SemInit
<1>7. SemInv
  BY <1>4, <1>6, Distinct DEF SemInv, SpareUnits
<1>8. EventInv
  <2>1. /\ signalled \in BOOLEAN /\ auto \in BOOLEAN
        /\ passed = 0 /\ signals = IF signalled THEN 1 ELSE 0
    BY <1>1 DEF E!EventInit
  <2> QED BY <1>4, <2>1, Distinct DEF EventInv
<1>9. UntimedInv
  <2>1. NoTimeouts
    BY <1>0 DEF Init, NoTimeouts, NoError, TimedOut
  <2> QED BY <1>4, <2>1, Distinct DEF UntimedInv, FreeUnwanted, SpareUnwanted
<1> QED BY <1>2, <1>5, <1>7, <1>8, <1>9 DEF ObjectsInv

\* What a call of an object does to the scheduler: one of its parts, or nothing.
KernelPart(q, waits) ==
  \/ UNCHANGED kernelvars
  \/ \E t \in Threads :
       \/ Calls(t) /\ \E x \in waits : BlockOn(t, q, x)
       \/ Resumes(t, q) /\ BlockReturn(t)
  \/ /\ waitq[q] # <<>>
     /\ \E x \in BOOLEAN, r \in {NoError, Destroyed} : WakeOne(q, x, r) \/ WakeAll(q, x, r)

LEMMA MutexPart ==
  ASSUME NEW waits, M!MutexNext(waits)
  PROVE  KernelPart(Mutex, waits)
  BY MutexKernel
     DEF M!MutexNext, M!acquire_free, M!Asks, M!acquire_return, M!mutex_release,
         M!mutex_destroy, M!acquire_wait, KernelPart, M!kernelvars, kernelvars,
         M!NoError, NoError, M!Destroyed, Destroyed

LEMMA SemPart ==
  ASSUME NEW waits, S!SemNext(waits)
  PROVE  KernelPart(Sem, waits)
  BY SemKernel
     DEF S!SemNext, S!sem_post, S!take_now, S!take_return, S!sem_destroy,
         S!take_wait, KernelPart, S!kernelvars, kernelvars,
         S!NoError, NoError, S!Destroyed, Destroyed

LEMMA EventPart ==
  ASSUME NEW waits, E!EventNext(waits)
  PROVE  KernelPart(Event, waits)
  BY EventKernel
     DEF E!EventNext, E!wait_pass, E!wait_return, E!event_unsignal, E!event_destroy,
         E!wait_block, E!event_signal, KernelPart, E!kernelvars, kernelvars,
         E!NoError, NoError, E!Destroyed, Destroyed

\* It moves no other queue, and without timeouts arms none.
LEMMA PartStep ==
  ASSUME KernelInv, NEW q \in Queues, NEW waits \in SUBSET BOOLEAN,
         KernelPart(q, waits)
  PROVE  /\ KernelInv'
         /\ \A p \in Queues : p # q => Unmoved(p)
         /\ NoTimeouts /\ waits = {FALSE} => NoTimeouts'
<1>0. timer \in [Threads -> Timers] /\ waitret \in [Threads -> Status]
  BY DEF KernelInv, TypeOK
<1>1. CASE UNCHANGED kernelvars
  BY <1>1, Still DEF NoTimeouts, kernelvars
<1>2. ASSUME NEW t \in Threads, Calls(t), NEW x \in waits, BlockOn(t, q, x)
      PROVE  /\ KernelInv'
             /\ \A p \in Queues : p # q => Unmoved(p)
             /\ NoTimeouts /\ waits = {FALSE} => NoTimeouts'
  <2>1. KernelInv' /\ \A p \in Queues : p # q => Unmoved(p)
    BY <1>2, Joins
  <2>2. ASSUME NoTimeouts, waits = {FALSE} PROVE NoTimeouts'
    <3>1. timer' = timer /\ waitret' = [waitret EXCEPT ![t] = NoError]
      BY <1>2, <2>2 DEF BlockOn
    <3> QED BY <1>0, <2>2, <3>1 DEF NoTimeouts, NoError, TimedOut
  <2> QED BY <2>1, <2>2
<1>3. ASSUME NEW t \in Threads, Resumes(t, q), BlockReturn(t)
      PROVE  /\ KernelInv'
             /\ \A p \in Queues : p # q => Unmoved(p)
             /\ NoTimeouts => NoTimeouts'
  <2>1. PICK r : r = waitret[t]
    OBVIOUS
  <2>2. KernelInv' /\ \A p \in Queues : p # q => Unmoved(p)
    BY <1>3, <2>1, Comes
  <2>3. timer' = [timer EXCEPT ![t] = "off"] /\ waitret' = waitret
    BY <1>3 DEF BlockReturn
  <2> QED BY <1>0, <2>2, <2>3 DEF NoTimeouts
<1>4. ASSUME waitq[q] # <<>>, NEW x \in BOOLEAN, NEW r \in {NoError, Destroyed},
             WakeOne(q, x, r) \/ WakeAll(q, x, r)
      PROVE  /\ KernelInv'
             /\ \A p \in Queues : p # q => Unmoved(p)
             /\ NoTimeouts => NoTimeouts'
  <2>1. r \in Status /\ r # TimedOut
    BY DEF Status, NoError, Destroyed, TimedOut
  <2>2. KernelInv' /\ \A p \in Queues : p # q => Unmoved(p)
    BY <1>4, <2>1, WakesHead, WakesEveryone
  <2>3. timer' = timer /\ \A u \in Threads : waitret'[u] \in {r, waitret[u]}
    BY <1>0, <1>4 DEF WakeOne, WakeAll
  <2> QED BY <2>1, <2>2, <2>3 DEF NoTimeouts
<1> QED BY <1>1, <1>2, <1>3, <1>4 DEF KernelPart

LEMMA AloneUntimed ==
  ASSUME KernelInv, ThreadNext, NoTimeouts
  PROVE  NoTimeouts'
<1>0. timer \in [Threads -> Timers] /\ waitret \in [Threads -> Status]
  BY DEF KernelInv, TypeOK
<1>1. ~ \E t \in Threads : WaitExpires(t)
  BY DEF WaitExpires, NoTimeouts
<1>2. /\ waitret' = waitret
      /\ timer' = timer \/ \E t \in Threads, x \in {"off", "sleep"} :
                             timer' = [timer EXCEPT ![t] = x]
  BY <1>1 DEF ThreadNext, TickBegin, TickEnd, SleepExpires, thread_yield, thread_sleep,
              thread_exit, thread_resume, thread_set_priority
<1> QED BY <1>0, <1>2 DEF NoTimeouts

\* Every step keeps the invariants and serves the mutex in order.
LEMMA ObjectsStep ==
  ASSUME ObjectsInv, [ObjectsNext]_vars
  PROVE  /\ ObjectsInv' /\ ServedInOrder
         /\ FreeKept /\ SpareKept
         /\ ~timed => (NoTimeouts => NoTimeouts')
         /\ UNCHANGED timed
<1>0. KernelInv /\ MutexInv /\ SemInv /\ EventInv /\ timed \in BOOLEAN
  BY DEF ObjectsInv
<1>1. Waits \in SUBSET BOOLEAN /\ (~timed => Waits = {FALSE})
  BY <1>0 DEF Waits
<1>2. CASE ThreadNext /\ UNCHANGED <<mutexvars, semvars, eventvars, timed>>
  <2>1. KernelInv'
    BY <1>0, <1>2, ThreadStep
  <2> QED BY <1>0, <1>2, <2>1, MutexOther, SemOther, EventOther, AloneUntimed
          DEF ObjectsInv
<1>3. CASE M!MutexNext(Waits) /\ UNCHANGED <<semvars, eventvars, timed>>
  <2>1. KernelInv' /\ MutexInv' /\ ServedInOrder /\ FreeKept
    BY <1>0, <1>1, <1>3, MutexStep
  <2>2. /\ Unmoved(Sem) /\ Unmoved(Event)
        /\ ~timed => (NoTimeouts => NoTimeouts')
    BY <1>0, <1>1, <1>3, MutexPart, PartStep, Distinct
  <2> QED BY <1>0, <1>3, <2>1, <2>2, SemOther, EventOther DEF ObjectsInv
<1>4. CASE S!SemNext(Waits) /\ UNCHANGED <<mutexvars, eventvars, timed>>
  <2>1. KernelInv' /\ SemInv' /\ SpareKept
    BY <1>0, <1>1, <1>4, SemStep
  <2>2. /\ Unmoved(Mutex) /\ Unmoved(Event)
        /\ ~timed => (NoTimeouts => NoTimeouts')
    BY <1>0, <1>1, <1>4, SemPart, PartStep, Distinct
  <2> QED BY <1>0, <1>4, <2>1, <2>2, MutexOther, EventOther DEF ObjectsInv
<1>5. CASE E!EventNext(Waits) /\ UNCHANGED <<mutexvars, semvars, timed>>
  <2>1. KernelInv' /\ EventInv'
    BY <1>0, <1>1, <1>5, EventStep
  <2>2. /\ Unmoved(Mutex) /\ Unmoved(Sem)
        /\ ~timed => (NoTimeouts => NoTimeouts')
    BY <1>0, <1>1, <1>5, EventPart, PartStep, Distinct
  <2> QED BY <1>0, <1>5, <2>1, <2>2, MutexOther, SemOther DEF ObjectsInv
<1>6. CASE UNCHANGED vars
  <2>1. UNCHANGED <<kernelvars, mutexvars, semvars, eventvars, timed>>
    BY <1>6 DEF vars
  <2>2. KernelInv' /\ Unmoved(Mutex) /\ Unmoved(Sem) /\ Unmoved(Event)
    BY <1>0, <2>1, Still, Distinct
  <2>3. NoTimeouts => NoTimeouts'
    BY <2>1 DEF NoTimeouts, kernelvars
  <2> QED BY <1>0, <2>1, <2>2, <2>3, MutexOther, SemOther, EventOther DEF ObjectsInv
<1> QED BY <1>2, <1>3, <1>4, <1>5, <1>6 DEF ObjectsNext

LEMMA UntimedStep ==
  ASSUME ObjectsInv, UntimedInv, [ObjectsNext]_vars
  PROVE  UntimedInv'
<1> SUFFICES ASSUME ~timed PROVE UntimedInv'
  BY ObjectsStep DEF UntimedInv
<1>1. NoTimeouts /\ FreeUnwanted /\ SpareUnwanted
  BY DEF UntimedInv
<1>2. \A p \in Queues : R(p, TimedOut) = 0
  <2>1. \A p \in Queues : Woken(p, TimedOut) = {}
    BY <1>1 DEF NoTimeouts, Woken
  <2> QED BY <2>1, FS_EmptySet DEF R
<1>3. R(Mutex, TimedOut) = 0 /\ R(Sem, TimedOut) = 0
  BY <1>2, Distinct
<1>4. NoTimeouts' /\ FreeUnwanted' /\ SpareUnwanted'
  BY <1>1, <1>3, ObjectsStep DEF FreeKept, SpareKept
<1> QED BY <1>4 DEF UntimedInv

-----------------------------------------------------------------------------
(***************************************************************************)
(* The theorems.                                                           *)
(***************************************************************************)

LEMMA SameCardinality ==
  \A X : M!Cardinality(X) = Cardinality(X) /\ S!Cardinality(X) = Cardinality(X)
         /\ E!Cardinality(X) = Cardinality(X)
  BY DEF Cardinality, M!Cardinality, S!Cardinality, E!Cardinality

\* The scheduler and the three objects keep their invariants whatever calls the
\* threads make and whenever the timer interrupt comes.
THEOREM ObjectsInvariant == ObjectsSpec => []ObjectsInv
<1>1. ObjectsInit => ObjectsInv
  BY ObjectsInitially
<1>2. ObjectsInv /\ [ObjectsNext]_vars => ObjectsInv'
  BY ObjectsStep
<1> QED BY <1>1, <1>2, PTL DEF ObjectsSpec

\* One thread at a time has the mutex, counting the one that mutex_release is
\* handing it to.
THEOREM MutualExclusionTheorem == ObjectsSpec => []MutualExclusion
<1>1. ObjectsInv => MutualExclusion
  <2> SUFFICES ASSUME KernelInv, MutexInv PROVE MutualExclusion
    BY DEF ObjectsInv
  <2>1. Served = {} \/ \E t : Served = {t}
    BY DEF MutexInv
  <2>2. Cardinality(Served) <= 1
    BY <2>1, FS_EmptySet, FS_Singleton
  <2>3. Served = owners \cup M!Returning(M!NoError)
    BY DEF Served, Woken, M!Returning, M!NoError, NoError
  <2> QED BY <2>2, <2>3, SameCardinality
          DEF MutualExclusion, M!MutualExclusion, MutexInv
<1> QED BY <1>1, ObjectsInvariant, PTL

\* The count of a mutex is the owner or the thread it is handed to, the waiters,
\* and those whose timeout fired and that have yet to back out.
THEOREM CountExactTheorem == ObjectsSpec => []CountExact
<1>1. ObjectsInv => CountExact
  <2> SUFFICES ASSUME KernelInv, MutexInv PROVE CountExact
    BY DEF ObjectsInv
  <2>1. /\ R(Mutex, NoError) = Cardinality(M!Returning(M!NoError))
        /\ R(Mutex, TimedOut) = Cardinality(M!Returning(M!TimedOut))
    BY DEF R, Woken, M!Returning, M!NoError, NoError, M!TimedOut, TimedOut
  <2>2. B(Mutex) = Len(waitq[Mutex])
    BY CountFacts, Distinct
  <2> QED BY <2>1, <2>2, SameCardinality DEF CountExact, M!CountExact, MutexInv
<1> QED BY <1>1, ObjectsInvariant, PTL

\* mutex_release serves the waiters in the order they came, whatever their
\* priorities, and nobody takes the mutex past them.
THEOREM FirstComeFirstServedTheorem == ObjectsSpec => FirstComeFirstServed
<1> DEFINE Ordered == \A t \in Threads :
             (t \notin M!Served /\ t \in M!Served') =>
                waitq[Mutex] = <<>> \/ t = Head(waitq[Mutex])
<1>1. Served = M!Served /\ Served' = M!Served'
  BY DEF Served, Woken, M!Served, M!Returning, M!NoError, NoError
<1>2. ObjectsInv /\ [ObjectsNext]_vars => [Ordered]_(M!vars)
  BY <1>1, ObjectsStep DEF ServedInOrder
<1> QED BY <1>2, ObjectsInvariant, PTL DEF ObjectsSpec, FirstComeFirstServed,
           M!FirstComeFirstServed

\* sem_post and sem_timedwait hand out no unit twice, and lose none.
THEOREM UnitsConservedTheorem == ObjectsSpec => []UnitsConserved
<1>1. ObjectsInv => UnitsConserved
  <2> SUFFICES ASSUME KernelInv, SemInv PROVE UnitsConserved
    BY DEF ObjectsInv
  <2>1. /\ R(Sem, NoError) = Cardinality(S!Returning(S!NoError))
        /\ R(Sem, TimedOut) = Cardinality(S!Returning(S!TimedOut))
    BY DEF R, Woken, S!Returning, S!NoError, NoError, S!TimedOut, TimedOut
  <2>2. B(Sem) = Len(waitq[Sem])
    BY CountFacts, Distinct
  <2> QED BY <2>1, <2>2, SameCardinality
          DEF UnitsConserved, S!UnitsConserved, S!Spare, SemInv, SpareUnits
<1> QED BY <1>1, ObjectsInvariant, PTL

\* event_signal wakes every waiter, or the one that takes the signal, before the
\* flag is seen set.
THEOREM NoWaitOnSignalledTheorem == ObjectsSpec => []NoWaitOnSignalled
<1>1. ObjectsInv => NoWaitOnSignalled
  BY EventFacts DEF ObjectsInv, EventInv, NoWaitOnSignalled, E!NoWaitOnSignalled
<1> QED BY <1>1, ObjectsInvariant, PTL

\* With EVENT_FLAG_AUTOUNSIGNAL every event_signal that is not taken back lets one
\* thread pass, also when a waiter times out just then.
THEOREM SignalsConservedTheorem == ObjectsSpec => []SignalsConserved
<1>1. ObjectsInv => SignalsConserved
  <2>1. R(Event, NoError) = Cardinality(E!Returning(E!NoError))
    BY DEF R, Woken, E!Returning, E!NoError, NoError
  <2> QED BY <2>1, SameCardinality
          DEF ObjectsInv, EventInv, SignalsConserved, E!SignalsConserved
<1> QED BY <1>1, ObjectsInvariant, PTL

\* Where no finite timeout is used, no thread waits for a mutex or a unit that is
\* there to take: mutex_release and sem_post never wake too few.
THEOREM NoWaitUntimedTheorem == ObjectsSpec => []NoWaitUntimed
<1>1. ObjectsInv /\ UntimedInv => NoWaitUntimed
  <2> SUFFICES ASSUME KernelInv, UntimedInv, ~timed
               PROVE  NoWaitOnFree /\ NoWaitOnSpare
    BY DEF ObjectsInv, NoWaitUntimed
  <2>1. /\ (m_magic /\ Served = {}) => waitq[Mutex] = <<>>
        /\ SpareUnits > 0 => waitq[Sem] = <<>>
    BY CountFacts, Distinct DEF UntimedInv, FreeUnwanted, SpareUnwanted
  <2>2. Served = owners \cup M!Returning(M!NoError)
    BY DEF Served, Woken, M!Returning, M!NoError, NoError
  <2>3. R(Sem, NoError) = Cardinality(S!Returning(S!NoError))
    BY DEF R, Woken, S!Returning, S!NoError, NoError
  <2> QED BY <2>1, <2>2, <2>3, SameCardinality
          DEF NoWaitOnFree, M!NoWaitOnFree, NoWaitOnSpare, S!NoWaitOnSpare, S!Spare,
              SpareUnits
<1>2. ObjectsInit => UntimedInv
  BY ObjectsInitially
<1>3. ObjectsInv /\ UntimedInv /\ [ObjectsNext]_vars => UntimedInv'
  BY UntimedStep
<1> QED BY <1>1, <1>2, <1>3, ObjectsInvariant, PTL DEF ObjectsSpec
=============================================================================
