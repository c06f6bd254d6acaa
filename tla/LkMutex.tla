------------------------------ MODULE LkMutex ------------------------------
(***************************************************************************)
(* kernel/mutex.c over the wait queues of LkThread.  count is one for the  *)
(* holder plus one for every thread that asked for the mutex and has not   *)
(* come back from its wait.                                                *)
(***************************************************************************)
EXTENDS LkThread

CONSTANT Mutex  \* the wait queue of the mutex, a member of Queues

VARIABLES count, holder,
          magic,      \* initialized and not destroyed
          owners      \* threads between a successful acquire and its release

mutexvars == <<count, holder, magic, owners>>
vars == <<kernelvars, mutexvars>>

None == "none"

\* a mutex that is not used is never initialized
MutexInit(used) ==
  count = 0 /\ holder = None /\ magic = used /\ owners = {}

\* t may ask for the mutex: mutexes are not recursive
Asks(t) == Calls(t) /\ magic /\ t \notin owners

acquire_free(t) ==
  /\ Asks(t)
  /\ count = 0
  /\ count' = 1
  /\ holder' = t
  /\ owners' = owners \cup {t}
  /\ UNCHANGED <<kernelvars, magic>>

\* A zero timeout on a mutex that is taken changes nothing.
acquire_wait(t, timed) ==
  /\ Asks(t)
  /\ count > 0
  /\ count' = count + 1
  /\ BlockOn(t, Mutex, timed)
  /\ UNCHANGED <<holder, magic, owners>>

\* mutant: a timeout does not back out
acquire_return_kept(t) ==
  /\ Resumes(t, Mutex) /\ BlockReturn(t)
  /\ IF waitret[t] = NoError
       THEN holder' = t /\ owners' = owners \cup {t}
       ELSE UNCHANGED <<holder, owners>>
  /\ UNCHANGED <<count, magic>>

\* back from the wait: a timeout backs out, an error leaves everything alone
acquire_return(t) ==
  /\ Resumes(t, Mutex) /\ BlockReturn(t)
  /\ IF waitret[t] = NoError
       THEN holder' = t /\ owners' = owners \cup {t} /\ UNCHANGED count
       ELSE /\ count' = IF waitret[t] = TimedOut THEN count - 1 ELSE count
            /\ UNCHANGED <<holder, owners>>
  /\ UNCHANGED magic

\* mutant: the mutex is free while it is handed over
mutex_release_open(t) ==
  /\ Calls(t) /\ magic /\ t \in owners
  /\ holder' = None
  /\ count' = 0
  /\ owners' = owners \ {t}
  /\ IF waitq[Mutex] # <<>> THEN WakeOne(Mutex, TRUE, NoError)
                            ELSE UNCHANGED kernelvars
  /\ UNCHANGED magic

mutex_release(t) ==
  /\ Calls(t) /\ magic /\ t \in owners
  /\ holder' = None
  /\ count' = count - 1
  /\ owners' = owners \ {t}
  /\ IF count' >= 1 /\ waitq[Mutex] # <<>>
       THEN WakeOne(Mutex, TRUE, NoError)
       ELSE UNCHANGED kernelvars
  /\ UNCHANGED magic

\* by the holder, or by anyone while it is free
mutex_destroy(t) ==
  /\ Calls(t) /\ magic /\ holder \in {None, t}
  /\ magic' = FALSE
  /\ count' = 0
  /\ owners' = owners \ {t}
  /\ IF waitq[Mutex] # <<>> THEN WakeAll(Mutex, TRUE, Destroyed)
                            ELSE UNCHANGED kernelvars
  /\ UNCHANGED holder

\* waits: with a finite timeout, without, or both
MutexNext(waits) ==
  \E t \in Threads :
    \/ acquire_free(t) \/ acquire_return(t)
    \/ mutex_release(t) \/ mutex_destroy(t)
    \/ \E timed \in waits : acquire_wait(t, timed)

-----------------------------------------------------------------------------
\* threads out of the wait queue that have not yet run the rest of their call
Returning(r) ==
  {t \in Threads : pc[t] = Mutex /\ tstate[t] # "blocked" /\ waitret[t] = r}

\* One thread at a time has the mutex, counting the one it is being handed to:
\* between a release that wakes a waiter and that waiter's return nobody can
\* take it, for the count is kept above zero.
MutualExclusion ==
  /\ Cardinality(owners \cup Returning(NoError)) <= 1
  /\ magic => \A t \in owners : holder = t

\* What count means: the holder or the thread it is handed to, the waiters, and
\* the threads whose timeout fired and that have yet to back out.
CountExact ==
  magic => count = Cardinality(owners) + Cardinality(Returning(NoError))
                   + Cardinality(Returning(TimedOut)) + Len(waitq[Mutex])

\* mutex_acquire_timeout "waits up to \a timeout ms for the mutex to become
\* available" (mutex.c:73): no thread waits for a mutex that nobody holds or
\* is being handed.
NoWaitOnFree ==
  (magic /\ owners = {} /\ Returning(NoError) = {}) => waitq[Mutex] = <<>>

\* the threads that have the mutex, or are woken to find that they do
Served == owners \cup Returning(NoError)

\* Waiters are served first come, first served, whatever their priorities: the
\* next to have the mutex is the head of its queue, and nobody who did not wait
\* while there is one (mutex_release hands it over through wait_queue_wake_one).
FirstComeFirstServed ==
  [][\A t \in Threads :
       (t \notin Served /\ t \in Served') =>
          waitq[Mutex] = <<>> \/ t = Head(waitq[Mutex])]_vars
=============================================================================
