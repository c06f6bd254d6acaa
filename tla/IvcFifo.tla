------------------------------ MODULE IvcFifo ------------------------------
(***************************************************************************)
(* What an IVC channel promises: in each direction a FIFO of at most       *)
(* NFrames frames.  A frame is staged by the writer, then sent; the reader *)
(* looks at the head, then removes it.  Frames are lost only by a reset,   *)
(* all those of a direction at once, and a direction comes back empty.     *)
(***************************************************************************)
EXTENDS Integers, Sequences

CONSTANTS NFrames, Msg, NoMsg, Endpoints

VARIABLES queue,   \* queue[e]: frames sent by e and not yet removed
          staged,  \* staged[e]: the frame e is about to send
          seen,    \* seen[e]: the last frame e looked at
          alive,   \* alive[e]: queue[e] carries frames
          syncing  \* endpoints that asked for a reset not yet answered

vars == <<queue, staged, seen, alive, syncing>>

CONSTANT Peer(_)

Init ==
  /\ queue   = [e \in Endpoints |-> <<>>]
  /\ staged  = [e \in Endpoints |-> NoMsg]
  /\ seen    = [e \in Endpoints |-> NoMsg]
  /\ alive   = [e \in Endpoints |-> TRUE]
  /\ syncing = {}

Stage(e, m) ==
  /\ staged[e] = NoMsg
  /\ staged' = [staged EXCEPT ![e] = m]
  /\ UNCHANGED <<queue, seen, alive, syncing>>

Send(e) ==
  /\ staged[e] # NoMsg
  /\ alive[e] => Len(queue[e]) < NFrames
  /\ queue' = IF alive[e] THEN [queue EXCEPT ![e] = Append(@, staged[e])]
                          ELSE queue
  /\ staged' = [staged EXCEPT ![e] = NoMsg]
  /\ UNCHANGED <<seen, alive, syncing>>

Look(e) ==
  /\ alive[Peer(e)]
  /\ queue[Peer(e)] # <<>>
  /\ seen' = [seen EXCEPT ![e] = Head(queue[Peer(e)])]
  /\ UNCHANGED <<queue, staged, alive, syncing>>

\* the frame removed is the one looked at
Remove(e) ==
  /\ alive[Peer(e)]
  /\ queue[Peer(e)] # <<>>
  /\ seen[e] = Head(queue[Peer(e)])
  /\ queue' = [queue EXCEPT ![Peer(e)] = Tail(@)]
  /\ UNCHANGED <<staged, seen, alive, syncing>>

\* A reset begins or ends, or kills or revives directions: a direction dies,
\* and stays dead, only while an endpoint is resynchronising.
Resync ==
  /\ syncing' \in SUBSET Endpoints
  /\ alive' \in [Endpoints -> BOOLEAN]
  /\ queue' = [e \in Endpoints |->
                 IF alive[e] /\ alive'[e] THEN queue[e] ELSE <<>>]
  /\ alive' # alive => (syncing \cup syncing') # {}
  /\ UNCHANGED <<staged, seen>>

Next ==
  \/ Resync
  \/ \E e \in Endpoints :
       \/ \E m \in Msg : Stage(e, m)
       \/ Send(e) \/ Look(e) \/ Remove(e)

Spec == Init /\ [][Next]_vars
=============================================================================
