----------------------------- MODULE LkObjects ------------------------------
(***************************************************************************)
(* The synchronization objects of the LK kernel on its scheduler: threads  *)
(* that use a mutex, a semaphore and an event, whichever were initialized. *)
(* The objects share nothing but the scheduler, so a behaviour has one of  *)
(* them in use.                                                            *)
(***************************************************************************)
EXTENDS LkThread

CONSTANTS Mutex, Sem, Event,     \* their wait queues
          Values0,               \* initial values of the semaphore
          MaxPosts, MaxSignals,  \* bounds on posts and signals
          Timed                  \* whether threads wait with finite timeouts

ASSUME ObjectsAssumption ==
  /\ Queues = {Mutex, Sem, Event} /\ Cardinality(Queues) = 3
  /\ Values0 \subseteq Nat /\ MaxPosts \in Nat /\ MaxSignals \in Nat
  /\ Timed \subseteq BOOLEAN

VARIABLES m_count, holder, m_magic, owners,
          s_count, live, posts, taken,
          signalled, auto, e_magic, signals, passed,
          timed  \* finite timeouts are used in this behaviour

M == INSTANCE LkMutex WITH count <- m_count, magic <- m_magic
S == INSTANCE LkSemaphore WITH count <- s_count
E == INSTANCE LkEvent WITH magic <- e_magic

mutexvars == <<m_count, holder, m_magic, owners>>
semvars == <<s_count, live, posts, taken>>
eventvars == <<signalled, auto, e_magic, signals, passed>>
vars == <<kernelvars, mutexvars, semvars, eventvars, timed>>

ObjectsInit ==
  /\ Init
  /\ \E q \in Queues :
       M!MutexInit(q = Mutex) /\ S!SemInit(q = Sem) /\ E!EventInit(q = Event)
  /\ timed \in Timed

Waits == {FALSE, timed}

ObjectsNext ==
  \/ ThreadNext /\ UNCHANGED <<mutexvars, semvars, eventvars, timed>>
  \/ M!MutexNext(Waits) /\ UNCHANGED <<semvars, eventvars, timed>>
  \/ S!SemNext(Waits) /\ UNCHANGED <<mutexvars, eventvars, timed>>
  \/ E!EventNext(Waits) /\ UNCHANGED <<mutexvars, semvars, timed>>

ObjectsSpec == ObjectsInit /\ [][ObjectsNext]_vars

-----------------------------------------------------------------------------
\* One thread at a time has the mutex, counting the one that mutex_release is
\* handing it to.
MutualExclusion == M!MutualExclusion

\* What count of a mutex means: the holder or the thread it is handed to, the
\* waiters, and the threads whose timeout fired and that have yet to back out.
CountExact == M!CountExact

\* mutex_release serves waiters in the order they came.
FirstComeFirstServed == M!FirstComeFirstServed

\* sem_post and sem_timedwait hand out no unit twice, and lose none.
UnitsConserved == S!UnitsConserved

\* No thread waits on an event that is signalled.
NoWaitOnSignalled == E!NoWaitOnSignalled

\* With EVENT_FLAG_AUTOUNSIGNAL every event_signal that is not
\* taken back by event_unsignal lets one thread pass.
SignalsConserved == E!SignalsConserved

\* No thread waits for a mutex that is free ("waits up to \a timeout ms for the
\* mutex to become available", mutex.c:73).
NoWaitOnFree == M!NoWaitOnFree

\* No thread waits for a unit that is there ("it's safe to just increase the
\* count available with no downsides", semaphore.c:40-41).
NoWaitOnSpare == S!NoWaitOnSpare

\* Where no finite timeouts are used, no thread waits for a mutex or a unit that
\* is there to take: mutex_release and sem_post never wake too few.
NoWaitUntimed == ~timed => NoWaitOnFree /\ NoWaitOnSpare
=============================================================================
