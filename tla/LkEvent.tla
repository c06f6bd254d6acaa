------------------------------ MODULE LkEvent ------------------------------
(***************************************************************************)
(* kernel/event.c over the wait queues of LkThread.                        *)
(***************************************************************************)
EXTENDS LkThread

CONSTANTS Event,      \* the wait queue of the event, a member of Queues
          MaxSignals  \* bound on the signals of a behaviour

VARIABLES signalled,
          auto,       \* EVENT_FLAG_AUTOUNSIGNAL
          magic,      \* initialized and not destroyed
          signals,    \* calls of event_signal that found it unsignalled, less those taken back
          passed      \* waits that succeeded

eventvars == <<signalled, auto, magic, signals, passed>>

\* an event that is not used is never initialized
EventInit(used) ==
  /\ signalled \in {FALSE, used} /\ auto \in {FALSE, used} /\ magic = used
  /\ passed = 0
  /\ signals = IF signalled THEN 1 ELSE 0

\* mutant: the signal stays
wait_pass_kept(t) ==
  /\ Calls(t) /\ magic /\ signalled
  /\ passed' = IF auto THEN passed + 1 ELSE passed
  /\ UNCHANGED <<kernelvars, signalled, auto, magic, signals>>

\* with auto one thread falls through before it is unsignalled
wait_pass(t) ==
  /\ Calls(t) /\ magic /\ signalled
  /\ signalled' = ~auto
  /\ passed' = IF auto THEN passed + 1 ELSE passed
  /\ UNCHANGED <<kernelvars, auto, magic, signals>>

wait_block(t, timed) ==
  /\ Calls(t) /\ magic /\ ~signalled
  /\ BlockOn(t, Event, timed)
  /\ UNCHANGED eventvars

wait_return(t) ==
  /\ Resumes(t, Event) /\ BlockReturn(t)
  /\ passed' = IF auto /\ waitret[t] = NoError THEN passed + 1 ELSE passed
  /\ UNCHANGED <<signalled, auto, magic, signals>>

\* mutant: signalled also when a waiter took the signal
event_signal_set(t, reschedule) ==
  /\ Calls(t) /\ magic /\ ~signalled /\ signals < MaxSignals
  /\ signals' = signals + 1
  /\ IF waitq[Event] = <<>> THEN UNCHANGED kernelvars
     ELSE IF auto THEN WakeOne(Event, reschedule, NoError)
                          ELSE WakeAll(Event, reschedule, NoError)
  /\ signalled' = TRUE
  /\ UNCHANGED <<auto, magic, passed>>

event_signal(t, reschedule) ==
  /\ Calls(t) /\ magic /\ ~signalled /\ signals < MaxSignals
  /\ signals' = signals + 1
  /\ IF waitq[Event] = <<>> THEN UNCHANGED kernelvars
     ELSE IF auto THEN WakeOne(Event, reschedule, NoError)
                          ELSE WakeAll(Event, reschedule, NoError)
  /\ signalled' = (~auto \/ waitq[Event] = <<>>)
  /\ UNCHANGED <<auto, magic, passed>>

\* a signal that nobody has used is taken back
event_unsignal(t) ==
  /\ Calls(t) /\ magic
  /\ signalled' = FALSE
  /\ signals' = IF signalled THEN signals - 1 ELSE signals
  /\ UNCHANGED <<kernelvars, auto, magic, passed>>

event_destroy(t) ==
  /\ Calls(t) /\ magic
  /\ magic' = FALSE
  /\ signalled' = FALSE
  /\ IF waitq[Event] # <<>> THEN WakeAll(Event, TRUE, Destroyed)
                            ELSE UNCHANGED kernelvars
  /\ UNCHANGED <<auto, signals, passed>>

\* waits: with a finite timeout, without, or both
EventNext(waits) ==
  \E t \in Threads :
    \/ wait_pass(t) \/ wait_return(t) \/ event_unsignal(t) \/ event_destroy(t)
    \/ \E timed \in waits : wait_block(t, timed)
    \/ \E reschedule \in BOOLEAN : event_signal(t, reschedule)

-----------------------------------------------------------------------------
Returning(r) ==
  {t \in Threads : pc[t] = Event /\ tstate[t] # "blocked" /\ waitret[t] = r}

\* A thread blocks on an event only while it is unsignalled: event_signal wakes
\* every waiter, or the one that stands for it, before the flag is seen set.
NoWaitOnSignalled == signalled => waitq[Event] = <<>>

\* With auto every signal that is not taken back lets exactly one thread pass, also
\* when the only waiter timed out just before: it is either still pending in the flag,
\* on its way to a woken thread, or spent on one.
SignalsConserved ==
  auto /\ magic =>
    signals = passed + Cardinality(Returning(NoError)) + (IF signalled THEN 1 ELSE 0)
=============================================================================
