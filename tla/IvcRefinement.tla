--------------------------- MODULE IvcRefinement ---------------------------
(***************************************************************************)
(* The channel of Ivc implements the two bounded FIFOs of IvcFifo.         *)
(***************************************************************************)
EXTENDS Ivc, Sequences

(***************************************************************************)
(* Ring e is dead while what it holds will never be read: its reader has   *)
(* asked for a reset, or its writer has and the reader began to comply.    *)
(***************************************************************************)
Dead(e) ==
  \/ state[Peer(e)] = "sync"
  \/ /\ state[e] = "sync"
     /\ state[Peer(e)] = "ack" \/ pc[Peer(e)] \in Clearing

Content(e) ==
  [i \in 1 .. Avail(e) |-> frame[e][(r_pos[Peer(e)] + i - 1) % NFrames]]

Fifo == INSTANCE IvcFifo WITH
  queue   <- [e \in Endpoints |-> IF Dead(e) THEN <<>> ELSE Content(e)],
  staged  <- [e \in Endpoints |->
                IF pc[e] = "w_advance" THEN frame[e][w_pos[e]] ELSE NoMsg],
  seen    <- buf,
  alive   <- [e \in Endpoints |-> ~Dead(e)],
  syncing <- {e \in Endpoints : state[e] = "sync"}

\* Every behaviour of the channel is one of two bounded FIFOs: frames arrive
\* complete, once and in the order sent, and none is lost without a reset
\* (tegra_ivc_write, tegra_ivc_read, tegra_ivc_channel_notified together).
ImplementsFifo == Fifo!Spec
=============================================================================
