------------------------------ MODULE LkThread ------------------------------
(***************************************************************************)
(* The scheduler of the LK kernel in cboot (kernel/thread.c) on the one    *)
(* CPU it runs on: run queues by priority with their bitmap, wait queues   *)
(* with timeouts, sleeping threads, and the timer interrupt of             *)
(* kernel/timer.c that fires timeouts and preempts.                        *)
(*                                                                         *)
(* A kernel call runs in a critical section (interrupts off), so it is one *)
(* step up to the point where it switches to another thread.  What is left *)
(* of a call that blocked is a second step, taken when its thread runs     *)
(* again.  pc[t] says which of the two thread t will do next.   The code    *)
(* that calls the kernel is free to make any call at any time.             *)
(***************************************************************************)
EXTENDS Integers, Sequences, FiniteSets

CONSTANTS Threads,      \* thread_t structures
          Idle,         \* the idle thread, the only one at IDLE_PRIORITY
          Root,         \* the thread that boots (bootstrap2)
          MaxPriority,  \* HIGHEST_PRIORITY
          Priority0,    \* priority each thread is created with
          NewPriorities,\* priorities threads give themselves
          Queues,       \* wait queues
          Quantum       \* ticks of a full time slice (5 in the code)

ASSUME ThreadsAssumption ==
  /\ IsFiniteSet(Threads)
  /\ Idle \in Threads /\ Root \in Threads /\ Root # Idle
ASSUME PriorityAssumption ==
  /\ MaxPriority \in Nat \ {0}
  /\ Priority0 \in [Threads -> 0 .. MaxPriority]
  /\ \A t \in Threads : Priority0[t] = 0 <=> t = Idle
  /\ NewPriorities \subseteq 0 .. MaxPriority
ASSUME QueuesAssumption == "run" \notin Queues
ASSUME QuantumAssumption == Quantum \in Nat \ {0}

Priorities == 0 .. MaxPriority

VARIABLES
  tstate,     \* tstate[t]: state of t
  priority,
  runq,       \* runq[p]: run_queue[p], the head first
  bitmap,     \* run_queue_bitmap: priorities marked as having a ready thread
  current,    \* current_thread
  quantum,    \* remaining_quantum; 0 stands for every value <= 0
  waitq,      \* waitq[q]: list of the wait queue q, the head first
  waitret,    \* wait_queue_block_ret
  timer,      \* timer[t]: the timeout or sleep timer on t's stack
  pc,         \* "run" in its own code, else the queue it is in wait_queue_block for
  irq         \* the timer interrupt: "none", "tick", or "resched"

schedvars == <<tstate, runq, bitmap, current, quantum>>
kernelvars == <<tstate, priority, runq, bitmap, current, quantum, waitq,
                waitret, timer, pc, irq>>

ThreadStates == {"suspended", "ready", "running", "blocked", "sleeping", "death"}

\* status_t of a wait
NoError == "NO_ERROR"
TimedOut == "ERR_TIMED_OUT"
Destroyed == "ERR_OBJECT_DESTROYED"
Status == {NoError, TimedOut, Destroyed}

Timers == {"off", "wait", "sleep"}

IsIn(t, s) == \E i \in DOMAIN s : s[i] = t

\* list_delete of the one node that links t into s, if it is in s at all
Remove(s, t) ==
  LET i == CHOOSE i \in DOMAIN s : s[i] = t
  IN  IF IsIn(t, s) THEN SubSeq(s, 1, i - 1) \o SubSeq(s, i + 1, Len(s)) ELSE s

(***************************************************************************)
(* The run queues as a value: rq, bm and ts stand for runq, bitmap and     *)
(* tstate while a call that ends in a reschedule computes them.            *)
(***************************************************************************)
Sched == [rq |-> runq, bm |-> bitmap, ts |-> tstate]

InsertHead(s, t) ==
  [rq |-> [s.rq EXCEPT ![priority[t]] = <<t>> \o @],
   bm |-> s.bm \cup {priority[t]},
   ts |-> [s.ts EXCEPT ![t] = "ready"]]

InsertTail(s, t) ==
  [rq |-> [s.rq EXCEPT ![priority[t]] = Append(@, t)],
   bm |-> s.bm \cup {priority[t]},
   ts |-> [s.ts EXCEPT ![t] = "ready"]]

SetState(s, t, x) == [s EXCEPT !.ts = [@ EXCEPT ![t] = x]]

\* the threads of list l, one after the other, at the head of their queues
InsertHeads(s, l) ==
  LET upto[i \in 0 .. Len(l)] ==
        IF i = 0 THEN s ELSE InsertHead(upto[i - 1], l[i])
  IN  upto[Len(l)]

\* back to the caller without a switch
Stay(s) ==
  /\ runq' = s.rq /\ bitmap' = s.bm /\ tstate' = s.ts
  /\ UNCHANGED <<current, quantum>>

\* mutant: a slice is added to what is left
ReschedAdds(s, q) ==
  LET p == CHOOSE x \in s.bm : \A y \in s.bm : y <= x
      n == Head(s.rq[p])
  IN  /\ runq' = [s.rq EXCEPT ![p] = Tail(@)]
      /\ bitmap' = IF Tail(s.rq[p]) = <<>> THEN s.bm \ {p} ELSE s.bm
      /\ tstate' = [s.ts EXCEPT ![n] = "running"]
      /\ current' = n
      /\ quantum' = IF n # current THEN [q EXCEPT ![n] = @ + Quantum] ELSE q

\* thread_resched: the head of the highest queue the bitmap shows; a thread
\* other than the current one whose slice is used up gets a new one
Resched(s, q) ==
  LET p == CHOOSE x \in s.bm : \A y \in s.bm : y <= x
      n == Head(s.rq[p])
  IN  /\ runq' = [s.rq EXCEPT ![p] = Tail(@)]
      /\ bitmap' = IF Tail(s.rq[p]) = <<>> THEN s.bm \ {p} ELSE s.bm
      /\ tstate' = [s.ts EXCEPT ![n] = "running"]
      /\ current' = n
      /\ quantum' = IF n # current /\ q[n] = 0 THEN [q EXCEPT ![n] = Quantum]
                                               ELSE q

Init ==
  /\ tstate = [t \in Threads |-> IF t = Root THEN "running"
                                 ELSE IF t = Idle THEN "ready"
                                 ELSE "suspended"]
  /\ priority = Priority0
  /\ runq = [p \in Priorities |-> IF p = 0 THEN <<Idle>> ELSE <<>>]
  /\ bitmap = {0}
  /\ current = Root
  /\ quantum = [t \in Threads |-> IF t = Root THEN Quantum ELSE 0]
  /\ waitq = [q \in Queues |-> <<>>]
  /\ waitret = [t \in Threads |-> NoError]
  /\ timer = [t \in Threads |-> "off"]
  /\ pc = [t \in Threads |-> "run"]
  /\ irq = "none"

\* t runs its own code and can call the kernel
Calls(t) == t = current /\ t # Idle /\ pc[t] = "run" /\ irq = "none"

\* t has been switched to inside wait_queue_block(q)
Resumes(t, q) == t = current /\ pc[t] = q /\ irq = "none"

(***************************************************************************)
(* Parts of calls, used by the objects built on wait queues.  Each says    *)
(* what becomes of the scheduler; they leave priority and irq alone.       *)
(***************************************************************************)

\* wait_queue_block up to the switch, with a timeout that is not zero
BlockOn(t, q, timed) ==
  /\ waitq' = [waitq EXCEPT ![q] = Append(@, t)]
  /\ waitret' = [waitret EXCEPT ![t] = NoError]
  /\ timer' = IF timed THEN [timer EXCEPT ![t] = "wait"] ELSE timer
  /\ pc' = [pc EXCEPT ![t] = q]
  /\ Resched(SetState(Sched, t, "blocked"), quantum)
  /\ UNCHANGED <<priority, irq>>

\* mutant: the timer stays armed
BlockReturnArmed(t) ==
  /\ pc' = [pc EXCEPT ![t] = "run"]
  /\ UNCHANGED <<schedvars, priority, waitq, waitret, timer, irq>>

\* the rest of wait_queue_block: timer_cancel and return
BlockReturn(t) ==
  /\ timer' = [timer EXCEPT ![t] = "off"]
  /\ pc' = [pc EXCEPT ![t] = "run"]
  /\ UNCHANGED <<schedvars, priority, waitq, waitret, irq>>

\* mutants: the thread woken is left in the wait queue; the last comer is woken
WakeOneLinked(q, reschedule, err) ==
  LET t == Head(waitq[q])
      s == IF reschedule THEN InsertHead(Sched, current) ELSE Sched
  IN  /\ waitret' = [waitret EXCEPT ![t] = err]
      /\ IF reschedule THEN Resched(InsertHead(s, t), quantum)
                       ELSE Stay(InsertHead(s, t))
      /\ UNCHANGED <<priority, waitq, timer, pc, irq>>

WakeOneLast(q, reschedule, err) ==
  LET t == waitq[q][Len(waitq[q])]
      s == IF reschedule THEN InsertHead(Sched, current) ELSE Sched
  IN  /\ waitq' = [waitq EXCEPT ![q] = Remove(@, t)]
      /\ waitret' = [waitret EXCEPT ![t] = err]
      /\ IF reschedule THEN Resched(InsertHead(s, t), quantum)
                       ELSE Stay(InsertHead(s, t))
      /\ UNCHANGED <<priority, timer, pc, irq>>

\* wait_queue_wake_one on a queue that is not empty: the head is made ready;
\* with reschedule, in front of the caller, and both are scheduled again
WakeOne(q, reschedule, err) ==
  LET t == Head(waitq[q])
      s == IF reschedule THEN InsertHead(Sched, current) ELSE Sched
  IN  /\ waitq' = [waitq EXCEPT ![q] = Tail(@)]
      /\ waitret' = [waitret EXCEPT ![t] = err]
      /\ IF reschedule THEN Resched(InsertHead(s, t), quantum)
                       ELSE Stay(InsertHead(s, t))
      /\ UNCHANGED <<priority, timer, pc, irq>>

\* wait_queue_wake_all on a queue that is not empty
WakeAll(q, reschedule, err) ==
  LET s == IF reschedule THEN InsertHead(Sched, current) ELSE Sched
  IN  /\ waitq' = [waitq EXCEPT ![q] = <<>>]
      /\ waitret' = [t \in Threads |->
                       IF IsIn(t, waitq[q]) THEN err ELSE waitret[t]]
      /\ IF reschedule THEN Resched(InsertHeads(s, waitq[q]), quantum)
                       ELSE Stay(InsertHeads(s, waitq[q]))
      /\ UNCHANGED <<priority, timer, pc, irq>>

(***************************************************************************)
(* Calls.                                                                  *)
(***************************************************************************)
thread_yield(t) ==
  LET q == [quantum EXCEPT ![t] = 0]
  IN  /\ Calls(t)
      /\ Resched(InsertTail(Sched, t), q)
      /\ UNCHANGED <<priority, waitq, waitret, timer, pc, irq>>

thread_sleep(t) ==
  /\ Calls(t)
  /\ timer' = [timer EXCEPT ![t] = "sleep"]
  /\ Resched(SetState(Sched, t, "sleeping"), quantum)
  /\ UNCHANGED <<priority, waitq, waitret, pc, irq>>

\* only a suspended thread is resumed; the caller then yields
thread_resume(t, u) ==
  LET q == [quantum EXCEPT ![t] = 0]
  IN  /\ Calls(t)
      /\ tstate[u] = "suspended"
      /\ Resched(InsertTail(InsertHead(Sched, u), t), q)
      /\ UNCHANGED <<priority, waitq, waitret, timer, pc, irq>>

\* of the current thread only, whatever is ready by then; a value out of range
\* is brought into it
thread_set_priority(t, p) ==
  /\ Calls(t)
  /\ priority' = [priority EXCEPT ![t] = p]
  /\ UNCHANGED <<schedvars, waitq, waitret, timer, pc, irq>>

thread_exit(t) ==
  /\ Calls(t)
  /\ Resched(SetState(Sched, t, "death"), quantum)
  /\ UNCHANGED <<priority, waitq, waitret, timer, pc, irq>>

(***************************************************************************)
(* The timer interrupt, every 10 ms, in any thread's own code: first the   *)
(* timers that expired, each at any time, then the slice of the current    *)
(* thread, then thread_preempt if anything asked for it.                   *)
(***************************************************************************)
TickBegin ==
  /\ irq = "none" /\ pc[current] = "run"
  /\ irq' = "tick"
  /\ UNCHANGED <<schedvars, priority, waitq, waitret, timer, pc>>

\* thread_sleep_handler
SleepExpires(t) ==
  /\ irq # "none" /\ timer[t] = "sleep"
  /\ timer' = [timer EXCEPT ![t] = "off"]
  /\ Stay(InsertHead(Sched, t))
  /\ irq' = "resched"
  /\ UNCHANGED <<priority, waitq, waitret, pc>>

\* mutant: does not ask whether the thread still waits
WaitExpiresBlind(t) ==
  /\ irq # "none" /\ timer[t] = "wait"
  /\ timer' = [timer EXCEPT ![t] = "off"]
  /\ waitq' = [q \in Queues |-> Remove(waitq[q], t)]
  /\ waitret' = [waitret EXCEPT ![t] = TimedOut]
  /\ irq' = "resched"
  /\ UNCHANGED <<schedvars, priority, pc>>

\* wait_queue_timeout_handler: a thread woken already is left alone
WaitExpires(t) ==
  /\ irq # "none" /\ timer[t] = "wait"
  /\ timer' = [timer EXCEPT ![t] = "off"]
  /\ IF tstate[t] = "blocked"
       THEN /\ waitq' = [q \in Queues |-> Remove(waitq[q], t)]
            /\ waitret' = [waitret EXCEPT ![t] = TimedOut]
            /\ Stay(InsertHead(Sched, t))
            /\ irq' = "resched"
       ELSE UNCHANGED <<schedvars, waitq, waitret, irq>>
  /\ UNCHANGED <<priority, pc>>

\* mutants: only the end of a slice preempts; a thread preempted always goes
\* to the head of its queue
TickEndSliceOnly ==
  LET q == IF current = Idle \/ quantum[current] = 0 THEN quantum
           ELSE [quantum EXCEPT ![current] = @ - 1]
  IN  /\ irq # "none"
      /\ IF current # Idle /\ q[current] = 0
           THEN Resched(InsertTail(Sched, current), q)
           ELSE quantum' = q /\ UNCHANGED <<tstate, runq, bitmap, current>>
      /\ irq' = "none"
      /\ UNCHANGED <<priority, waitq, waitret, timer, pc>>

TickEndToHead ==
  LET q == IF current = Idle \/ quantum[current] = 0 THEN quantum
           ELSE [quantum EXCEPT ![current] = @ - 1]
  IN  /\ irq # "none"
      /\ IF irq = "resched" \/ (current # Idle /\ q[current] = 0)
           THEN Resched(InsertHead(Sched, current), q)
           ELSE quantum' = q /\ UNCHANGED <<tstate, runq, bitmap, current>>
      /\ irq' = "none"
      /\ UNCHANGED <<priority, waitq, waitret, timer, pc>>

\* thread_timer_tick, then thread_preempt: to the head of its queue with
\* some slice left, to the tail with none
TickEnd ==
  LET q == IF current = Idle \/ quantum[current] = 0 THEN quantum
           ELSE [quantum EXCEPT ![current] = @ - 1]
      expired == current # Idle /\ q[current] = 0
      s == IF q[current] > 0 THEN InsertHead(Sched, current)
                             ELSE InsertTail(Sched, current)
  IN  /\ irq # "none"
      /\ IF irq = "resched" \/ expired
           THEN Resched(s, q)
           ELSE quantum' = q /\ UNCHANGED <<tstate, runq, bitmap, current>>
      /\ irq' = "none"
      /\ UNCHANGED <<priority, waitq, waitret, timer, pc>>

\* the steps of the kernel that no object is involved in
ThreadNext ==
  \/ TickBegin \/ TickEnd
  \/ \E t \in Threads :
       \/ SleepExpires(t) \/ WaitExpires(t)
       \/ thread_yield(t) \/ thread_sleep(t) \/ thread_exit(t)
       \/ \E u \in Threads : thread_resume(t, u)
       \/ \E p \in NewPriorities : thread_set_priority(t, p)

\* wait queues used by clients that block, wake and destroy at will
QueueNext ==
  \E t \in Threads, q \in Queues :
    \/ /\ Calls(t)
       /\ \/ \E timed \in BOOLEAN : BlockOn(t, q, timed)
          \/ /\ waitq[q] # <<>>
             /\ \E r \in BOOLEAN, err \in {NoError, Destroyed} :
                  WakeOne(q, r, err) \/ WakeAll(q, r, err)
    \/ Resumes(t, q) /\ BlockReturn(t)

Next == ThreadNext \/ QueueNext

Spec == Init /\ [][Next]_kernelvars

(***************************************************************************)
(* The timer interrupt keeps coming: it is level-triggered and pending     *)
(* while interrupts are off, every thread has them on in its own code, and *)
(* every call of the kernel ends.  Nothing is assumed of the threads.      *)
(***************************************************************************)
FairSpec ==
  /\ Spec
  /\ SF_kernelvars(TickBegin) /\ WF_kernelvars(TickEnd)
  /\ \A t \in Threads : WF_kernelvars(\E q \in Queues : Resumes(t, q) /\ BlockReturn(t))

-----------------------------------------------------------------------------
TypeOK ==
  /\ tstate \in [Threads -> ThreadStates]
  /\ priority \in [Threads -> Priorities]
  /\ runq \in [Priorities -> Seq(Threads)]
  /\ bitmap \in SUBSET Priorities
  /\ current \in Threads
  /\ quantum \in [Threads -> 0 .. Quantum]
  /\ waitq \in [Queues -> Seq(Threads)]
  /\ waitret \in [Threads -> Status]
  /\ timer \in [Threads -> Timers]
  /\ pc \in [Threads -> {"run"} \cup Queues]
  /\ irq \in {"none", "tick", "resched"}

NoRepeat(s) == \A i, j \in DOMAIN s : s[i] = s[j] => i = j

\* run_queue_bitmap, which thread_resched trusts, marks exactly the run queues that
\* are not empty, and there is always a thread to switch to (the idle thread at the
\* least)
BitmapExact ==
  /\ \A p \in Priorities : p \in bitmap <=> runq[p] # <<>>
  /\ current # Idle => bitmap # {}

\* One queue_node links a thread into at most one list at a time, the one its
\* state and priority call for: a ready thread waits its turn in the run queue
\* of its present priority, once; a blocked one sits in one wait queue, once;
\* the one that runs, and one that sleeps, is suspended or died, is in none.  And
\* the bitmap says which run queues to look in.
QueuesMatchStates ==
  /\ \A p \in Priorities, t \in Threads :
       IsIn(t, runq[p]) <=> tstate[t] = "ready" /\ priority[t] = p
  /\ \A t \in Threads :
       tstate[t] = "blocked" <=> \E q \in Queues : IsIn(t, waitq[q])
  /\ \A q, r \in Queues, t \in Threads :
       IsIn(t, waitq[q]) /\ IsIn(t, waitq[r]) => q = r
  /\ \A t \in Threads : tstate[t] = "running" <=> t = current
  /\ \A p \in Priorities : NoRepeat(runq[p])
  /\ \A q \in Queues : NoRepeat(waitq[q])
  /\ BitmapExact

\* The idle thread is "the one which executes when there is nothing else to
\* do" (thread_become_idle, thread.c:696-697): outside an interrupt it does not
\* run while another thread is ready.
IdleLast ==
  (current = Idle /\ irq = "none") => \A t \in Threads : tstate[t] # "ready"

\* The timeout timer lives on the stack of the blocked thread: whenever it can
\* fire, that thread is still inside the call that owns it.
TimerOnLiveStack ==
  \A t \in Threads :
    /\ timer[t] = "wait" => pc[t] # "run" /\ tstate[t] \notin {"suspended", "death"}
    /\ timer[t] = "sleep" => tstate[t] = "sleeping"

\* The status a waiter is woken with is the one it returns: a timeout that
\* fires after the wake, or a wake after the timeout, does not change it.
WakeSticks ==
  [][\A t \in Threads :
       (pc[t] # "run" /\ tstate[t] # "blocked" /\ pc'[t] # "run")
          => waitret'[t] = waitret[t]]_kernelvars

\* Round robin: while no other thread has a higher priority a ready thread gets
\* the CPU whatever the others do, even where every wake puts another one in
\* front of it (insert_in_run_queue_head), for a slice that is used up sends its
\* thread to the tail.
Topmost(t) == \A u \in Threads : priority[u] <= priority[t]

NoStarvation ==
  \A t \in Threads \ {Idle} :
    tstate[t] = "ready" /\ Topmost(t) ~> tstate[t] = "running" \/ ~Topmost(t)
=============================================================================
