-------------------------------- MODULE Ivc --------------------------------
(***************************************************************************)
(* Inter-VM communication channel of common/lib/ipc/tegra-ivc.c: two       *)
(* endpoints, each the writer of one ring of frames and the reader of the  *)
(* other, over shared memory without locks.  Ring e is the ring that       *)
(* endpoint e writes (its tx_channel) and Peer(e) reads (its rx_channel).  *)
(*                                                                         *)
(* Every access to a word the other endpoint may see is a step of its own. *)
(* The barriers of the code (ivc_rmb, ivc_wmb, ivc_mb) stand between each  *)
(* two of these steps, so that their interleavings are the behaviours.     *)
(* notify() rings the doorbell of the other endpoint, which stays pending  *)
(* until its owner takes it.                                               *)
(***************************************************************************)
EXTENDS Integers, FiniteSets

CONSTANTS NFrames,    \* frames of a ring (nframes)
          CountMod,   \* the counters are CountMod-valued (2^32 in the code)
          Msg,        \* contents of a frame
          NoMsg,      \* a frame, or a buffer, never written
          Senders,    \* endpoints whose client writes
          MaxResets,  \* bound on the resets of a behaviour
          OverlapResets \* an endpoint may ask for a reset at any time

ASSUME NFramesAssumption  == NFrames \in Nat \ {0}
ASSUME CountModAssumption == CountMod \in Nat /\ CountMod > NFrames
ASSUME MsgAssumption      == NoMsg \notin Msg
ASSUME ResetsAssumption   == MaxResets \in Nat /\ OverlapResets \in BOOLEAN

Endpoints == {"ccplex", "bpmp"}

Peer(e) == IF e = "ccplex" THEN "bpmp" ELSE "ccplex"

States == {"established", "sync", "ack"}

Frames == 0 .. NFrames - 1

Counts == 0 .. CountMod - 1

VARIABLES
  \* shared memory
  w_count,   \* w_count[e]: frames written to ring e, owned by e
  r_count,   \* r_count[e]: frames read from ring e, owned by Peer(e)
  state,     \* state[e]: tx_channel->state of e
  frame,     \* frame[e][i]: frame i of ring e
  bell,      \* bell[e]: a doorbell for e is pending
  \* local to an endpoint (struct ivc and the stack of the running call)
  w_pos, r_pos,
  pc,        \* where the running call of tegra-ivc.c stands
  peer,      \* peer_state as sampled by tegra_ivc_channel_notified
  buf,       \* what the client copied from the last frame it read
  waiting,   \* directions the client found closed and waits on, until a bell
  resets     \* resets so far (bound only)

shared == <<w_count, r_count, state, frame>>
vars == <<w_count, r_count, state, frame, bell, w_pos, r_pos, pc, peer, buf,
          waiting, resets>>

PCs == {"idle", "w_frame", "w_advance", "w_notify",
        "r_frame", "r_advance", "r_notify",
        "n_sample", "n_clear_w", "n_clear_r", "n_state", "notify"}

\* inside channel_notified, between the sample and the new state
Clearing == {"n_clear_w", "n_clear_r", "n_state"}

(***************************************************************************)
(* uint32_t arithmetic on the counters.                                    *)
(***************************************************************************)
CountInc(a) == IF a = CountMod - 1 THEN 0 ELSE a + 1

CountSub(a, b) == IF a >= b THEN a - b ELSE a - b + CountMod

\* w_count - r_count of ring e, as the code computes it in 32 bits
Avail(e) == CountSub(w_count[e], r_count[e])

\* more frames than the ring has: an over-full ring reads as empty
Empty(e) == Avail(e) > NFrames \/ Avail(e) = 0

\* mutant: a full ring takes one frame more
FullOffByOne(e) == Avail(e) > NFrames

Full(e) == Avail(e) >= NFrames

\* mutant: wraps one frame too late
PosIncLate(i) == IF i = NFrames THEN 0 ELSE i + 1

PosInc(i) == IF i = NFrames - 1 THEN 0 ELSE i + 1

CheckWrite(e) == state[e] = "established" /\ ~Full(e)

\* mutant: an empty ring is not noticed
CheckReadStateOnly(e) == state[e] = "established"

CheckRead(e) == state[e] = "established" /\ ~Empty(Peer(e))

Init ==
  /\ w_count = [e \in Endpoints |-> 0]
  /\ r_count = [e \in Endpoints |-> 0]
  /\ state   = [e \in Endpoints |-> "established"]
  /\ frame   = [e \in Endpoints |-> [i \in Frames |-> NoMsg]]
  /\ bell    = [e \in Endpoints |-> FALSE]
  /\ w_pos   = [e \in Endpoints |-> 0]
  /\ r_pos   = [e \in Endpoints |-> 0]
  /\ pc      = [e \in Endpoints |-> "idle"]
  /\ peer    = [e \in Endpoints |-> "established"]
  /\ buf     = [e \in Endpoints |-> NoMsg]
  /\ waiting = [e \in Endpoints |-> {}]
  /\ resets  = 0

Goto(e, from, to) ==
  /\ pc[e] = from
  /\ pc' = [pc EXCEPT ![e] = to]

\* ivc->notify when cond holds: the end of the call
Notify(e, cond) ==
  bell' = IF cond THEN [bell EXCEPT ![Peer(e)] = TRUE] ELSE bell

(***************************************************************************)
(* tegra_ivc_write, and write_get_next_frame / poke / write_advance.       *)
(***************************************************************************)
WriteCheck(e) ==
  /\ e \in Senders
  /\ CheckWrite(e)
  /\ Goto(e, "idle", "w_frame")
  /\ UNCHANGED <<shared, bell, w_pos, r_pos, peer, buf, waiting, resets>>

\* -ECONNRESET or -ENOMEM: the client waits for a notification
WriteRefused(e) ==
  /\ e \in Senders
  /\ pc[e] = "idle"
  /\ ~CheckWrite(e)
  /\ waiting' = [waiting EXCEPT ![e] = @ \cup {"write"}]
  /\ UNCHANGED <<shared, bell, w_pos, r_pos, pc, peer, buf, resets>>

WriteFrame(e, m) ==
  /\ Goto(e, "w_frame", "w_advance")
  /\ frame' = [frame EXCEPT ![e][w_pos[e]] = m]
  /\ UNCHANGED <<w_count, r_count, state, bell, w_pos, r_pos, peer, buf,
                 waiting, resets>>

WriteAdvance(e) ==
  /\ Goto(e, "w_advance", "w_notify")
  /\ w_count' = [w_count EXCEPT ![e] = CountInc(@)]
  /\ w_pos' = [w_pos EXCEPT ![e] = PosInc(@)]
  /\ UNCHANGED <<r_count, state, frame, bell, r_pos, peer, buf, waiting,
                 resets>>

\* mutant: compares with the level before the frame was added
WriteNotifyOld(e) ==
  /\ Goto(e, "w_notify", "idle")
  /\ Notify(e, Avail(e) = 0)
  /\ UNCHANGED <<shared, w_pos, r_pos, peer, buf, waiting, resets>>

\* only upon transition from empty to non-empty
WriteNotify(e) ==
  /\ Goto(e, "w_notify", "idle")
  /\ Notify(e, Avail(e) = 1)
  /\ UNCHANGED <<shared, w_pos, r_pos, peer, buf, waiting, resets>>

(***************************************************************************)
(* tegra_ivc_read, and read_get_next_frame / peek / read_advance.          *)
(***************************************************************************)
ReadCheck(e) ==
  /\ CheckRead(e)
  /\ Goto(e, "idle", "r_frame")
  /\ UNCHANGED <<shared, bell, w_pos, r_pos, peer, buf, waiting, resets>>

ReadRefused(e) ==
  /\ pc[e] = "idle"
  /\ ~CheckRead(e)
  /\ waiting' = [waiting EXCEPT ![e] = @ \cup {"read"}]
  /\ UNCHANGED <<shared, bell, w_pos, r_pos, pc, peer, buf, resets>>

ReadFrame(e) ==
  /\ Goto(e, "r_frame", "r_advance")
  /\ buf' = [buf EXCEPT ![e] = frame[Peer(e)][r_pos[e]]]
  /\ UNCHANGED <<shared, bell, w_pos, r_pos, peer, waiting, resets>>

ReadAdvance(e) ==
  /\ Goto(e, "r_advance", "r_notify")
  /\ r_count' = [r_count EXCEPT ![Peer(e)] = CountInc(@)]
  /\ r_pos' = [r_pos EXCEPT ![e] = PosInc(@)]
  /\ UNCHANGED <<w_count, state, frame, bell, w_pos, peer, buf, waiting,
                 resets>>

\* mutant: compares with the level before the frame was removed
ReadNotifyOld(e) ==
  /\ Goto(e, "r_notify", "idle")
  /\ Notify(e, Avail(Peer(e)) = NFrames)
  /\ UNCHANGED <<shared, w_pos, r_pos, peer, buf, waiting, resets>>

\* only upon transition from full to non-full
ReadNotify(e) ==
  /\ Goto(e, "r_notify", "idle")
  /\ Notify(e, Avail(Peer(e)) = NFrames - 1)
  /\ UNCHANGED <<shared, w_pos, r_pos, peer, buf, waiting, resets>>

(***************************************************************************)
(* tegra_ivc_channel_reset, alone or after tegra_ivc_init (a client that   *)
(* connects anew, as tegrabl_connect_bpmp does).  Unless OverlapResets, no *)
(* reset begins while the other endpoint is inside the part of             *)
(* channel_notified that has decided, on our old state, to establish: the  *)
(* assumption that the protocol needs and that the code states nowhere.    *)
(***************************************************************************)
Establishing(e) == pc[e] \in Clearing /\ peer[e] # "sync"

Reset(e) ==
  /\ resets < MaxResets
  /\ OverlapResets \/ ~Establishing(Peer(e))
  /\ Goto(e, "idle", "notify")
  /\ state' = [state EXCEPT ![e] = "sync"]
  /\ resets' = resets + 1
  /\ UNCHANGED <<w_count, r_count, frame, bell, peer, buf>>

ChannelReset(e) ==
  /\ Reset(e)
  /\ UNCHANGED <<w_pos, r_pos, waiting>>

Connect(e) ==
  /\ Reset(e)
  /\ w_pos' = [w_pos EXCEPT ![e] = 0]
  /\ r_pos' = [r_pos EXCEPT ![e] = 0]
  /\ waiting' = [waiting EXCEPT ![e] = {}]

(***************************************************************************)
(* tegra_ivc_channel_notified, called on a doorbell or by polling.  Its    *)
(* caller tries again what it waited for once the call returns.            *)
(***************************************************************************)
TakeBell(e) ==
  /\ bell[e]
  /\ Goto(e, "idle", "n_sample")
  /\ bell' = [bell EXCEPT ![e] = FALSE]
  /\ waiting' = [waiting EXCEPT ![e] = {}]
  /\ UNCHANGED <<shared, w_pos, r_pos, peer, buf, resets>>

Poll(e) ==
  /\ Goto(e, "idle", "n_sample")
  /\ waiting' = [waiting EXCEPT ![e] = {}]
  /\ UNCHANGED <<shared, bell, w_pos, r_pos, peer, buf, resets>>

\* mutants of the transition table: we, in sync, do not wait for the peer's
\* ack; the row of ack is missing
GotoAnyPeer(e, p) ==
  IF p = "sync" \/ state[e] = "sync" THEN "n_clear_w"
  ELSE IF state[e] = "ack" THEN "n_state" ELSE "idle"

GotoNoAckRow(e, p) ==
  IF p = "sync" \/ (state[e] = "sync" /\ p = "ack") THEN "n_clear_w" ELSE "idle"

\* the row of the transition table that applies
NotifiedGoto(e, p) ==
  IF p = "sync" \/ (state[e] = "sync" /\ p = "ack") THEN "n_clear_w"
  ELSE IF state[e] = "ack" THEN "n_state"
  ELSE "idle"

NotifiedSample(e) ==
  /\ Goto(e, "n_sample", NotifiedGoto(e, state[Peer(e)]))
  /\ peer' = [peer EXCEPT ![e] = state[Peer(e)]]
  /\ UNCHANGED <<shared, bell, w_pos, r_pos, buf, waiting, resets>>

NotifiedClearW(e) ==
  /\ Goto(e, "n_clear_w", "n_clear_r")
  /\ w_count' = [w_count EXCEPT ![e] = 0]
  /\ UNCHANGED <<r_count, state, frame, bell, w_pos, r_pos, peer, buf,
                 waiting, resets>>

NotifiedClearR(e) ==
  /\ Goto(e, "n_clear_r", "n_state")
  /\ r_count' = [r_count EXCEPT ![Peer(e)] = 0]
  /\ w_pos' = [w_pos EXCEPT ![e] = 0]
  /\ r_pos' = [r_pos EXCEPT ![e] = 0]
  /\ UNCHANGED <<w_count, state, frame, bell, peer, buf, waiting, resets>>

NotifiedState(e) ==
  /\ Goto(e, "n_state", "notify")
  /\ state' = [state EXCEPT ![e] = IF peer[e] = "sync" THEN "ack"
                                                      ELSE "established"]
  /\ UNCHANGED <<w_count, r_count, frame, bell, w_pos, r_pos, peer, buf,
                 waiting, resets>>

StateNotify(e) ==
  /\ Goto(e, "notify", "idle")
  /\ Notify(e, TRUE)
  /\ UNCHANGED <<shared, w_pos, r_pos, peer, buf, waiting, resets>>

(***************************************************************************)
(* tegra_ivc_init followed by tegra_ivc_channel_sync: a client that starts *)
(* over and takes its positions from the counters it left behind.          *)
(***************************************************************************)
\* mutant: the counters are mixed up
ChannelSyncSwapped(e) ==
  /\ pc[e] = "idle"
  /\ w_pos' = [w_pos EXCEPT ![e] = r_count[e] % NFrames]
  /\ r_pos' = [r_pos EXCEPT ![e] = w_count[Peer(e)] % NFrames]
  /\ UNCHANGED <<shared, bell, pc, peer, buf, waiting, resets>>

ChannelSync(e) ==
  /\ pc[e] = "idle"
  /\ w_pos' = [w_pos EXCEPT ![e] = w_count[e] % NFrames]
  /\ r_pos' = [r_pos EXCEPT ![e] = r_count[Peer(e)] % NFrames]
  /\ UNCHANGED <<shared, bell, pc, peer, buf, waiting, resets>>

Write(e) ==
  \/ WriteCheck(e) \/ WriteRefused(e)
  \/ \E m \in Msg : WriteFrame(e, m)
  \/ WriteAdvance(e) \/ WriteNotify(e)

Read(e) ==
  \/ ReadCheck(e) \/ ReadRefused(e) \/ ReadFrame(e)
  \/ ReadAdvance(e) \/ ReadNotify(e)

\* the steps of tegra_ivc_channel_notified after it is called, up to its
\* return, and the doorbell at the end of a reset
Notified(e) ==
  \/ NotifiedSample(e) \/ NotifiedClearW(e) \/ NotifiedClearR(e)
  \/ NotifiedState(e) \/ StateNotify(e)

Next ==
  \E e \in Endpoints :
    \/ Write(e) \/ Read(e) \/ Notified(e)
    \/ ChannelReset(e) \/ Connect(e) \/ TakeBell(e) \/ Poll(e)

Spec == Init /\ [][Next]_vars

(***************************************************************************)
(* A call that has begun is run to its end (the CPU executes it), a        *)
(* pending doorbell is taken, and a client that is not waiting reads until *)
(* it is refused: the receive loop of a client driven by the doorbell.     *)
(***************************************************************************)
Running(e) ==
  \/ \E m \in Msg : WriteFrame(e, m)
  \/ WriteAdvance(e) \/ WriteNotify(e)
  \/ ReadFrame(e) \/ ReadAdvance(e) \/ ReadNotify(e)
  \/ Notified(e)

Fairness ==
  \A e \in Endpoints :
    /\ WF_vars(Running(e))
    /\ SF_vars(TakeBell(e))
    /\ SF_vars("read" \notin waiting[e] /\ ReadCheck(e))

FairSpec == Spec /\ Fairness

\* the same system where a client may also start over with channel_sync
SyncSpec == Init /\ [][Next \/ \E e \in Endpoints : ChannelSync(e)]_vars

-----------------------------------------------------------------------------
(***************************************************************************)
(* Properties.                                                             *)
(***************************************************************************)
TypeOK ==
  /\ w_count \in [Endpoints -> Counts]
  /\ r_count \in [Endpoints -> Counts]
  /\ state   \in [Endpoints -> States]
  /\ frame   \in [Endpoints -> [Frames -> Msg \cup {NoMsg}]]
  /\ bell    \in [Endpoints -> BOOLEAN]
  /\ w_pos   \in [Endpoints -> Frames]
  /\ r_pos   \in [Endpoints -> Frames]
  /\ pc      \in [Endpoints -> PCs]
  /\ peer    \in [Endpoints -> States]
  /\ buf     \in [Endpoints -> Msg \cup {NoMsg}]
  /\ waiting \in [Endpoints -> SUBSET {"read", "write"}]
  /\ resets  \in 0 .. MaxResets

\* No frame is stored and copied at the same time: while the writer of a ring
\* fills its frame (tegra_ivc_write's memcpy, or write_poke) the reader of that
\* ring is not copying the same frame (tegra_ivc_read's memcpy, or read_peek),
\* whatever resets are under way.
NoFrameRace ==
  \A e \in Endpoints :
    (pc[e] = "w_frame" /\ pc[Peer(e)] = "r_frame") => w_pos[e] # r_pos[Peer(e)]

\* A reader or writer that passed its check keeps passing it until it
\* advances ("the caller is expected to have already observed the channel
\* non-empty": tegra_ivc_read_advance): the other endpoint, even one that
\* resets the channel, cannot take the frame away in between.
CheckStable ==
  \A e \in Endpoints :
    /\ pc[e] \in {"w_frame", "w_advance"} => CheckWrite(e)
    /\ pc[e] \in {"r_frame", "r_advance"} => CheckRead(e)

\* The over-full test of ivc_channel_empty, meant for a corrupt peer, never
\* fires between two endpoints that follow the protocol: a ring that one of
\* its ends may use holds at most NFrames frames.
NeverOverFull ==
  \A e \in Endpoints :
    (CheckWrite(e) \/ state[Peer(e)] = "established") =>
       \/ Avail(e) <= NFrames
       \/ pc[e] \in Clearing
       \/ pc[Peer(e)] \in Clearing

\* Notifications are sent only on the transitions empty -> non-empty and
\* full -> non-full, and yet none is missed: a client that waits to read
\* (write) while a frame (room) is there has a doorbell pending, or the
\* other endpoint is about to ring it.
NoLostWakeup ==
  \A e \in Endpoints :
    /\ ("read" \in waiting[e] /\ CheckRead(e)) =>
         bell[e] \/ pc[Peer(e)] \in {"w_notify", "notify"}
    /\ ("write" \in waiting[e] /\ CheckWrite(e)) =>
         bell[e] \/ pc[Peer(e)] \in {"r_notify", "notify"}

InFrame == {"w_frame", "w_advance", "r_frame", "r_advance"}

\* Counters are never cleared under a user: at the step that clears a
\* counter, the other endpoint is not inside a read or a write
\* ("so the counters are not in use at this time", lines 521-523 and 562-564),
\* unless the step changes nothing.
ClearedUnused ==
  [][\A e \in Endpoints :
       (NotifiedClearW(e) \/ NotifiedClearR(e)) =>
          \/ pc[Peer(e)] \notin InFrame
          \/ UNCHANGED <<w_count, r_count, w_pos, r_pos>>]_vars

\* After a reset the two endpoints reach the established state again
\* (the loop "while (tegra_ivc_channel_notified())" of tegrabl_connect_bpmp
\* ends): the transition table has no row in which both wait for the other.
ResetCompletes ==
  \A e \in Endpoints : state[e] # "established" ~> state[e] = "established"

\* The receive loop driven by doorbells reads every frame: while the channel
\* stays established, the head of a ring that is not empty is removed.
HeadRead ==
  \A e \in Senders, c \in Counts :
    (\A p \in Endpoints : state[p] = "established") /\ ~Empty(e) /\ r_count[e] = c
      ~> r_count[e] # c \/ \E p \in Endpoints : state[p] # "established"
=============================================================================
