---------------------------- MODULE LkSemaphore ----------------------------
(***************************************************************************)
(* kernel/semaphore.c over the wait queues of LkThread.  A negative count  *)
(* stands for threads that asked and have not come back from their wait.   *)
(***************************************************************************)
EXTENDS LkThread

CONSTANTS Sem,        \* the wait queue of the semaphore, a member of Queues
          Values0,    \* initial values
          MaxPosts    \* bound on the posts of a behaviour

VARIABLES count,
          live,       \* initialized and not destroyed
          posts,      \* units so far: the initial value, and one per sem_post
          taken       \* waits that succeeded

semvars == <<count, live, posts, taken>>

\* a semaphore that is not used is never initialized
SemInit(used) ==
  /\ count \in IF used THEN Values0 ELSE {0}
  /\ live = used /\ posts = count /\ taken = 0

\* mutant: a lone waiter is not woken
sem_post_late(t) ==
  /\ Calls(t) /\ live /\ posts < MaxPosts
  /\ posts' = posts + 1
  /\ count' = count + 1
  /\ IF count' < 0 /\ waitq[Sem] # <<>>
       THEN WakeOne(Sem, TRUE, NoError)
       ELSE UNCHANGED kernelvars
  /\ UNCHANGED <<live, taken>>

sem_post(t) ==
  /\ Calls(t) /\ live /\ posts < MaxPosts
  /\ posts' = posts + 1
  /\ count' = count + 1
  /\ IF count' <= 0 /\ waitq[Sem] # <<>>
       THEN WakeOne(Sem, TRUE, NoError)
       ELSE UNCHANGED kernelvars
  /\ UNCHANGED <<live, taken>>

\* sem_wait, sem_timedwait and sem_trywait where a unit is there.  A trywait,
\* or a wait with timeout zero, that finds none changes nothing.
take_now(t) ==
  /\ Calls(t) /\ live /\ count > 0
  /\ count' = count - 1
  /\ taken' = taken + 1
  /\ UNCHANGED <<kernelvars, live, posts>>

take_wait(t, timed) ==
  /\ Calls(t) /\ live /\ count <= 0
  /\ count' = count - 1
  /\ BlockOn(t, Sem, timed)
  /\ UNCHANGED <<live, posts, taken>>

\* mutant: a timeout does not back out
take_return_kept(t) ==
  /\ Resumes(t, Sem) /\ BlockReturn(t)
  /\ taken' = IF waitret[t] = NoError THEN taken + 1 ELSE taken
  /\ UNCHANGED <<count, live, posts>>

take_return(t) ==
  /\ Resumes(t, Sem) /\ BlockReturn(t)
  /\ count' = IF waitret[t] = TimedOut THEN count + 1 ELSE count
  /\ taken' = IF waitret[t] = NoError THEN taken + 1 ELSE taken
  /\ UNCHANGED <<live, posts>>

\* the waiters come back with an error and count is not theirs to settle
sem_destroy(t) ==
  /\ Calls(t) /\ live
  /\ live' = FALSE
  /\ count' = 0
  /\ IF waitq[Sem] # <<>> THEN WakeAll(Sem, TRUE, Destroyed)
                          ELSE UNCHANGED kernelvars
  /\ UNCHANGED <<posts, taken>>

\* waits: with a finite timeout, without, or both
SemNext(waits) ==
  \E t \in Threads :
    \/ sem_post(t) \/ take_now(t) \/ take_return(t) \/ sem_destroy(t)
    \/ \E timed \in waits : take_wait(t, timed)

-----------------------------------------------------------------------------
Returning(r) ==
  {t \in Threads : pc[t] = Sem /\ tstate[t] # "blocked" /\ waitret[t] = r}

\* units posted that no thread has taken or is about to take
Spare == posts - taken - Cardinality(Returning(NoError))

\* No unit is handed out twice, and count tells the spare units from those who
\* wait or have yet to back out of a wait that timed out.
UnitsConserved ==
  /\ Spare >= 0
  /\ live => count = Spare - Len(waitq[Sem]) - Cardinality(Returning(TimedOut))

\* "If the count is or was negative then a thread is waiting for a resource,
\* otherwise it's safe to just increase the count available with no downsides"
\* (semaphore.c:40-41): a thread never waits while a unit is spare.
NoWaitOnSpare == Spare > 0 => waitq[Sem] = <<>>
=============================================================================
