----------------------------- MODULE IvcProofs -----------------------------
(***************************************************************************)
(* Safety of the channel for every number of frames, width of the counters *)
(* and number of resets, when no reset begins while the other endpoint is  *)
(* establishing on the state it saw before (~OverlapResets).               *)
(***************************************************************************)
EXTENDS IvcRefinement, SequenceTheorems, TLAPS

\* the counters and positions that e owns are those of a fresh channel
Cleared(e) ==
  /\ w_count[e] = 0
  /\ r_count[Peer(e)] = 0
  /\ w_pos[e] = 0
  /\ r_pos[e] = 0

PosAdd(i, k) == IF i + k < NFrames THEN i + k ELSE i + k - NFrames

EstClearing(e) == state[e] = "established" /\ pc[e] \in Clearing

(***************************************************************************)
(* The inductive invariant.  Handshake(e) bounds what the other endpoint   *)
(* can have become since e sampled its state; Counters(e) says when the    *)
(* counters that e owns are cleared; RingOK(e) says when those of ring e   *)
(* can be trusted, and by whom.                                            *)
(***************************************************************************)
Handshake(e) ==
  /\ pc[e] \in InFrame => state[e] = "established"
  /\ EstClearing(e) => peer[e] = "sync" /\ state[Peer(e)] = "sync"
  /\ (pc[e] \in Clearing /\ state[e] = "sync") =>
        state[Peer(e)] \in {"sync", "ack"}
  /\ Establishing(e) =>
        /\ state[Peer(e)] # "sync"
        /\ state[e] = "sync" => state[Peer(e)] = "ack"

Counters(e) ==
  /\ (state[e] = "ack" \/ pc[e] = "n_state") => Cleared(e)
  /\ pc[e] = "n_clear_r" => w_count[e] = 0

RingOK(e) ==
  /\ /\ "established" \in {state[e], state[Peer(e)]}
     /\ ~EstClearing(e) /\ ~EstClearing(Peer(e))
     => Avail(e) <= NFrames
  /\ "sync" \notin {state[e], state[Peer(e)]} =>
        w_pos[e] = PosAdd(r_pos[Peer(e)], Avail(e))
  /\ pc[e] \in {"w_frame", "w_advance"} => Avail(e) < NFrames
  /\ pc[Peer(e)] \in {"r_frame", "r_advance"} => Avail(e) > 0

Inv ==
  /\ TypeOK
  /\ \A e \in Endpoints : Handshake(e) /\ Counters(e) /\ RingOK(e)

-----------------------------------------------------------------------------
LEMMA PeerFacts ==
  ASSUME NEW e \in Endpoints
  PROVE  /\ Peer(e) \in Endpoints
         /\ Peer(e) # e
         /\ Peer(Peer(e)) = e
         /\ \A x \in Endpoints : x = e \/ x = Peer(e)
  BY DEF Endpoints, Peer

\* The 32-bit arithmetic: one more frame written is one more available, one
\* more frame read one less, even where a counter wraps.
LEMMA CountFacts ==
  ASSUME NEW u \in Counts, NEW v \in Counts
  PROVE  /\ CountInc(u) \in Counts
         /\ CountSub(u, v) \in Counts
         /\ CountSub(u, v) < CountMod - 1 =>
              CountSub(CountInc(u), v) = CountSub(u, v) + 1
         /\ CountSub(u, v) > 0 =>
              CountSub(u, CountInc(v)) = CountSub(u, v) - 1
         /\ CountSub(0, 0) = 0
  BY CountModAssumption, NFramesAssumption DEF Counts, CountInc, CountSub

LEMMA PosFacts ==
  ASSUME NEW i \in Frames, NEW k \in 0 .. NFrames
  PROVE  /\ PosInc(i) \in Frames
         /\ PosAdd(i, k) \in Frames
         /\ k < NFrames => PosAdd(i, k + 1) = PosInc(PosAdd(i, k))
         /\ k > 0 => PosAdd(PosInc(i), k - 1) = PosAdd(i, k)
         /\ 0 < k /\ k < NFrames => PosAdd(i, k) # i
         /\ 0 \in Frames /\ 0 \in Counts /\ PosAdd(0, 0) = 0
  BY NFramesAssumption, CountModAssumption
     DEF Frames, Counts, PosInc, PosAdd

LEMMA TypeInit == Init => TypeOK
  BY PosFacts, NFramesAssumption, ResetsAssumption, CountModAssumption
     DEF Init, TypeOK, Frames, Counts, States, PCs

LEMMA TypeStep ==
  ASSUME TypeOK, NEW e \in Endpoints,
         \/ Write(e) \/ Read(e) \/ Notified(e)
         \/ ChannelReset(e) \/ Connect(e) \/ TakeBell(e) \/ Poll(e)
  PROVE  TypeOK'
<1> USE DEF TypeOK, shared
<1>p. Peer(e) \in Endpoints
  BY PeerFacts
<1>0. /\ \A u \in Counts : CountInc(u) \in Counts
      /\ \A i \in Frames : PosInc(i) \in Frames
      /\ 0 \in Counts /\ 0 \in Frames
  BY NFramesAssumption, CountModAssumption
     DEF Counts, Frames, CountInc, PosInc
<1>1. CASE Write(e)
  <2>1. CASE WriteCheck(e)
    BY <2>1 DEF WriteCheck, Goto, PCs
  <2>5. CASE WriteRefused(e)
    <3>1. waiting[e] \cup {"write"} \in SUBSET {"read", "write"}
      OBVIOUS
    <3> QED BY <2>5, <3>1 DEF WriteRefused
  <2>2. CASE \E m \in Msg : WriteFrame(e, m)
    BY <2>2 DEF WriteFrame, Goto, PCs
  <2>3. CASE WriteAdvance(e)
    BY <1>0, <2>3 DEF WriteAdvance, Goto, PCs
  <2>4. CASE WriteNotify(e)
    BY <1>p, <2>4 DEF WriteNotify, Goto, Notify, PCs
  <2> QED BY <1>1, <2>1, <2>2, <2>3, <2>4, <2>5 DEF Write
<1>2. CASE Read(e)
  <2>1. CASE ReadCheck(e)
    BY <2>1 DEF ReadCheck, Goto, PCs
  <2>5. CASE ReadRefused(e)
    <3>1. waiting[e] \cup {"read"} \in SUBSET {"read", "write"}
      OBVIOUS
    <3> QED BY <2>5, <3>1 DEF ReadRefused
  <2>2. CASE ReadFrame(e)
    BY <1>p, <2>2 DEF ReadFrame, Goto, PCs
  <2>3. CASE ReadAdvance(e)
    BY <1>0, <1>p, <2>3 DEF ReadAdvance, Goto, PCs
  <2>4. CASE ReadNotify(e)
    BY <1>p, <2>4 DEF ReadNotify, Goto, Notify, PCs
  <2> QED BY <1>2, <2>1, <2>2, <2>3, <2>4, <2>5 DEF Read
<1>3. CASE Notified(e)
  <2>1. CASE NotifiedSample(e)
    BY <1>p, <2>1 DEF NotifiedSample, NotifiedGoto, Goto, PCs
  <2>2. CASE NotifiedClearW(e)
    BY <1>0, <2>2 DEF NotifiedClearW, Goto, PCs
  <2>5. CASE NotifiedClearR(e)
    BY <1>0, <1>p, <2>5 DEF NotifiedClearR, Goto, PCs
  <2>3. CASE NotifiedState(e)
    BY <2>3 DEF NotifiedState, Goto, PCs, States
  <2>4. CASE StateNotify(e)
    BY <1>p, <2>4 DEF StateNotify, Goto, Notify, PCs
  <2> QED BY <1>3, <2>1, <2>2, <2>3, <2>4, <2>5 DEF Notified
<1>4. CASE ChannelReset(e) \/ Connect(e)
  <2>1. CASE ChannelReset(e)
    BY <2>1, ResetsAssumption DEF ChannelReset, Reset, Goto, PCs, States
  <2>2. CASE Connect(e)
    BY <1>0, <2>2, ResetsAssumption DEF Connect, Reset, Goto, PCs, States
  <2> QED BY <1>4, <2>1, <2>2
<1>5. CASE TakeBell(e) \/ Poll(e)
  <2>1. CASE TakeBell(e)
    BY <2>1 DEF TakeBell, Goto, PCs
  <2>2. CASE Poll(e)
    BY <2>2 DEF Poll, Goto, PCs
  <2> QED BY <1>5, <2>1, <2>2
<1> QED BY <1>1, <1>2, <1>3, <1>4, <1>5

\* Every variable of the channel keeps to its type (struct ivc and
\* struct ivc_channel_header).
THEOREM TypeCorrect == Spec => []TypeOK
<1>1. TypeOK /\ UNCHANGED vars => TypeOK'
  BY DEF TypeOK, vars
<1>2. TypeOK /\ [Next]_vars => TypeOK'
  BY <1>1, TypeStep DEF Next
<1> QED BY TypeInit, <1>2, PTL DEF Spec

-----------------------------------------------------------------------------
LEMMA InvInit == Init => Inv
<1> SUFFICES ASSUME Init PROVE Inv
  OBVIOUS
<1>1. TypeOK
  BY TypeInit
<1>2. ASSUME NEW e \in Endpoints
      PROVE  Handshake(e) /\ Counters(e) /\ RingOK(e)
  <2>1. /\ Avail(e) = 0
        /\ PosAdd(0, 0) = 0
    BY CountFacts, PosFacts, PeerFacts, NFramesAssumption DEF Init, Avail, CountSub, PosAdd
  <2> QED BY <2>1, PeerFacts, NFramesAssumption
          DEF Init, Handshake, Counters, RingOK, Cleared, EstClearing,
              Establishing, Clearing, InFrame
<1> QED BY <1>1, <1>2 DEF Inv

\* what the invariant says of the two endpoints that a step of e involves
Pair(e) ==
  /\ Handshake(e) /\ Counters(e) /\ RingOK(e)
  /\ Handshake(Peer(e)) /\ Counters(Peer(e)) /\ RingOK(Peer(e))

LEMMA PairSuffices ==
  ASSUME Inv, TypeOK', NEW e \in Endpoints, Pair(e)'
  PROVE  Inv'
  BY PeerFacts DEF Inv, Pair

LEMMA HandshakeStep ==
  ASSUME Inv, ~OverlapResets, NEW e \in Endpoints,
         \/ Write(e) \/ Read(e) \/ Notified(e)
         \/ ChannelReset(e) \/ Connect(e) \/ TakeBell(e) \/ Poll(e)
  PROVE  Handshake(e)' /\ Handshake(Peer(e))'
<1> DEFINE p == Peer(e)
<1>p. /\ p \in Endpoints /\ p # e
      /\ Peer(e) = p /\ Peer(p) = e
  BY PeerFacts
<1>t. /\ pc \in [Endpoints -> PCs] /\ state \in [Endpoints -> States]
      /\ peer \in [Endpoints -> States]
  BY DEF Inv, TypeOK
<1>i. Handshake(e) /\ Handshake(p)
  BY <1>p DEF Inv
<1> HIDE DEF p
<1> USE <1>p, <1>t, <1>i
    DEF Handshake, EstClearing, Establishing, Clearing, InFrame, Goto
<1> SUFFICES Handshake(e)' /\ Handshake(p)'
  OBVIOUS
<1>1. CASE Write(e)
  BY <1>1 DEF Write, WriteCheck, WriteRefused, WriteFrame, WriteAdvance,
              WriteNotify, CheckWrite, shared
<1>2. CASE Read(e)
  BY <1>2 DEF Read, ReadCheck, ReadRefused, ReadFrame, ReadAdvance,
              ReadNotify, CheckRead, shared
<1>3. CASE NotifiedSample(e)
  BY <1>3 DEF NotifiedSample, NotifiedGoto, shared, States
<1>4. CASE NotifiedClearW(e) \/ NotifiedClearR(e)
  BY <1>4 DEF NotifiedClearW, NotifiedClearR
<1>5. CASE NotifiedState(e)
  BY <1>5 DEF NotifiedState, States
<1>6. CASE StateNotify(e) \/ TakeBell(e) \/ Poll(e)
  BY <1>6 DEF StateNotify, TakeBell, Poll, shared
<1>7. CASE ChannelReset(e) \/ Connect(e)
  BY <1>7 DEF ChannelReset, Connect, Reset
<1> QED BY <1>1, <1>2, <1>3, <1>4, <1>5, <1>6, <1>7 DEF Notified

LEMMA CountersStep ==
  ASSUME Inv, ~OverlapResets, NEW e \in Endpoints,
         \/ Write(e) \/ Read(e) \/ Notified(e)
         \/ ChannelReset(e) \/ Connect(e) \/ TakeBell(e) \/ Poll(e)
  PROVE  Counters(e)' /\ Counters(Peer(e))'
<1> DEFINE p == Peer(e)
<1>p. /\ p \in Endpoints /\ p # e
      /\ Peer(e) = p /\ Peer(p) = e
  BY PeerFacts
<1>t. /\ pc \in [Endpoints -> PCs] /\ state \in [Endpoints -> States]
      /\ w_count \in [Endpoints -> Counts] /\ r_count \in [Endpoints -> Counts]
      /\ w_pos \in [Endpoints -> Frames] /\ r_pos \in [Endpoints -> Frames]
  BY DEF Inv, TypeOK
<1>i. Counters(e) /\ Counters(p) /\ Handshake(e)
  BY <1>p DEF Inv
<1> HIDE DEF p
<1> USE <1>p, <1>t, <1>i DEF Counters, Cleared, Goto
<1> SUFFICES Counters(e)' /\ Counters(p)'
  OBVIOUS
<1>1. CASE Write(e)
  BY <1>1 DEF Write, WriteCheck, WriteRefused, WriteFrame, WriteAdvance,
              WriteNotify, CheckWrite, shared, Handshake, InFrame
<1>2. CASE Read(e)
  BY <1>2 DEF Read, ReadCheck, ReadRefused, ReadFrame, ReadAdvance,
              ReadNotify, CheckRead, shared, Handshake, InFrame
<1>3. CASE NotifiedSample(e)
  BY <1>3 DEF NotifiedSample, NotifiedGoto, shared
<1>4. CASE NotifiedClearW(e) \/ NotifiedClearR(e)
  BY <1>4 DEF NotifiedClearW, NotifiedClearR
<1>5. CASE NotifiedState(e)
  BY <1>5 DEF NotifiedState
<1>6. CASE StateNotify(e) \/ TakeBell(e) \/ Poll(e)
  BY <1>6 DEF StateNotify, TakeBell, Poll, shared
<1>7. CASE ChannelReset(e) \/ Connect(e)
  BY <1>7 DEF ChannelReset, Connect, Reset
<1> QED BY <1>1, <1>2, <1>3, <1>4, <1>5, <1>6, <1>7 DEF Notified

LEMMA RingStep ==
  ASSUME Inv, ~OverlapResets, NEW e \in Endpoints,
         \/ Write(e) \/ Read(e) \/ Notified(e)
         \/ ChannelReset(e) \/ Connect(e) \/ TakeBell(e) \/ Poll(e)
  PROVE  RingOK(e)' /\ RingOK(Peer(e))'
<1> DEFINE p == Peer(e)
<1>p. /\ p \in Endpoints /\ p # e
      /\ Peer(e) = p /\ Peer(p) = e
  BY PeerFacts
<1>t. /\ pc \in [Endpoints -> PCs] /\ state \in [Endpoints -> States]
      /\ peer \in [Endpoints -> States]
      /\ w_count \in [Endpoints -> Counts] /\ r_count \in [Endpoints -> Counts]
      /\ w_pos \in [Endpoints -> Frames] /\ r_pos \in [Endpoints -> Frames]
  BY DEF Inv, TypeOK
<1>i. /\ Handshake(e) /\ Handshake(p) /\ Counters(e) /\ Counters(p)
      /\ RingOK(e) /\ RingOK(p)
  BY <1>p DEF Inv
<1>a. Avail(e) \in Nat /\ Avail(p) \in Nat /\ NFrames \in Nat /\ NFrames > 0
      /\ NFrames < CountMod /\ CountMod \in Nat
  BY <1>p, <1>t, CountFacts, CountModAssumption, NFramesAssumption DEF Avail, Counts
<1>0. CountSub(0, 0) = 0 /\ PosAdd(0, 0) = 0
  BY CountModAssumption, NFramesAssumption DEF CountSub, PosAdd
<1> HIDE DEF p
<1> SUFFICES RingOK(e)' /\ RingOK(p)'
  BY <1>p
<1>q. ASSUME UNCHANGED <<w_count, r_count, w_pos, r_pos, state>>,
             pc'[p] = pc[p],
             pc'[e] \notin InFrame \/ pc'[e] = pc[e],
             EstClearing(e) => EstClearing(e)'
      PROVE  RingOK(e)' /\ RingOK(p)'
  BY <1>p, <1>i, <1>q DEF RingOK, Avail, EstClearing, InFrame
<1>1. CASE WriteCheck(e)
  BY <1>1, <1>p, <1>t, <1>i, <1>a
     DEF WriteCheck, Goto, shared, CheckWrite, Full, RingOK, Avail, EstClearing, Clearing
<1>2. CASE WriteAdvance(e)
  <2>1. Avail(e) < NFrames /\ state[e] = "established" /\ pc[e] = "w_advance"
    BY <1>2, <1>i DEF RingOK, Handshake, WriteAdvance, InFrame, Goto
  <2>2. Avail(e)' = Avail(e) + 1 /\ Avail(p)' = Avail(p)
    BY <2>1, <1>2, <1>p, <1>t, <1>a, CountFacts DEF WriteAdvance, Avail
  <2>3. "sync" \notin {state[e], state[p]} =>
          w_pos[e]' = PosAdd(r_pos[p], Avail(e) + 1)
    <3> SUFFICES ASSUME "sync" \notin {state[e], state[p]}
                 PROVE  PosInc(w_pos[e]) = PosAdd(r_pos[p], Avail(e) + 1)
      BY <1>2, <1>t DEF WriteAdvance
    <3>1. w_pos[e] = PosAdd(r_pos[p], Avail(e))
      BY <1>p, <1>i DEF RingOK
    <3>2. Avail(e) \in 0 .. NFrames /\ r_pos[p] \in Frames
      BY <2>1, <1>p, <1>t, <1>a
    <3> QED BY <3>1, <3>2, <2>1, PosFacts
  <2> QED BY <2>1, <2>2, <2>3, <1>2, <1>p, <1>t, <1>i, <1>a
          DEF RingOK, WriteAdvance, Goto, EstClearing, Clearing
<1>3. CASE ReadCheck(e)
  BY <1>3, <1>p, <1>t, <1>i, <1>a
     DEF ReadCheck, Goto, shared, CheckRead, Empty, RingOK, Avail, EstClearing, Clearing
<1>4. CASE ReadAdvance(e)
  <2>1. Avail(p) > 0 /\ state[e] = "established" /\ pc[e] = "r_advance"
    BY <1>4, <1>i, <1>p DEF RingOK, Handshake, ReadAdvance, InFrame, Goto
  <2>2. Avail(p)' = Avail(p) - 1 /\ Avail(e)' = Avail(e)
    BY <2>1, <1>4, <1>p, <1>t, <1>a, CountFacts DEF ReadAdvance, Avail
  <2>3. "sync" \notin {state[e], state[p]} =>
          w_pos[p] = PosAdd(r_pos[e]', Avail(p) - 1)
    <3> SUFFICES ASSUME "sync" \notin {state[e], state[p]}
                 PROVE  w_pos[p] = PosAdd(PosInc(r_pos[e]), Avail(p) - 1)
      BY <1>4, <1>t DEF ReadAdvance
    <3>1. Avail(p) <= NFrames /\ w_pos[p] = PosAdd(r_pos[e], Avail(p))
      BY <2>1, <1>p, <1>i, <1>a DEF RingOK, Handshake, EstClearing
    <3> QED BY <3>1, <2>1, <1>t, <1>a, PosFacts
  <2> QED BY <2>1, <2>2, <2>3, <1>4, <1>p, <1>t, <1>i, <1>a
          DEF RingOK, ReadAdvance, Goto, EstClearing, Clearing
<1>5. CASE NotifiedClearW(e) \/ NotifiedClearR(e)
  <2>1. pc[e] \in Clearing /\ pc'[e] \in Clearing
        /\ pc'[p] = pc[p] /\ UNCHANGED state
    BY <1>5, <1>p, <1>t DEF NotifiedClearW, NotifiedClearR, Goto, Clearing
  <2>2. CASE state[e] = "ack"
    BY <2>1, <2>2, <1>5, <1>p, <1>t, <1>i
       DEF NotifiedClearW, NotifiedClearR, Counters, Cleared, RingOK, Avail,
           Goto, EstClearing, Clearing
  <2>3. CASE state[e] = "sync"
    BY <2>1, <2>3, <1>p, <1>i, <1>t
       DEF Handshake, RingOK, InFrame, Clearing
  <2>4. CASE state[e] = "established"
    BY <2>1, <2>4, <1>p, <1>i, <1>t
       DEF Handshake, RingOK, EstClearing, InFrame, Clearing
  <2> QED BY <2>2, <2>3, <2>4, <1>t DEF States
<1>6. CASE NotifiedState(e)
  <2>1. /\ pc[e] = "n_state" /\ pc'[e] = "notify" /\ pc'[p] = pc[p]
        /\ state'[p] = state[p]
        /\ state'[e] = IF peer[e] = "sync" THEN "ack" ELSE "established"
        /\ UNCHANGED <<w_count, r_count, w_pos, r_pos>>
    BY <1>6, <1>p, <1>t DEF NotifiedState, Goto
  <2>2. Cleared(e)
    BY <2>1, <1>i DEF Counters
  <2>3. UNCHANGED <<Avail(e), Avail(p)>>
    BY <2>1 DEF Avail
  <2>4. state[p] # "established" =>
          /\ state[p] = "ack" => Avail(e) = 0 /\ Avail(p) = 0
                                 /\ w_pos[p] = 0 /\ r_pos[p] = 0
          /\ state'[e] = "established" => state[p] = "ack"
    BY <2>1, <2>2, <1>0, <1>i, <1>p, <1>t
       DEF Counters, Cleared, Avail, Handshake, Establishing, Clearing, States
  <2>5. state[p] = "established" => state[e] = "ack"
    BY <2>1, <1>i, <1>p, <1>t
       DEF Handshake, EstClearing, Establishing, Clearing, States
  <2>6. CASE state[p] = "established"
    BY <2>1, <2>3, <2>5, <2>6, <1>i, <1>p, <1>t, <1>a
       DEF RingOK, EstClearing, Clearing, Handshake
  <2>7. CASE state[p] # "established"
    BY <2>1, <2>2, <2>3, <2>4, <2>7, <1>0, <1>i, <1>p, <1>t, <1>a
       DEF RingOK, EstClearing, Clearing, Handshake, InFrame, Cleared
  <2> QED BY <2>6, <2>7
<1>7. CASE ChannelReset(e) \/ Connect(e)
  <2>1. /\ pc'[e] = "notify" /\ pc'[p] = pc[p] /\ pc[e] = "idle"
        /\ state'[e] = "sync" /\ state'[p] = state[p]
        /\ UNCHANGED <<w_count, r_count>>
    BY <1>7, <1>p, <1>t DEF ChannelReset, Connect, Reset, Goto
  <2>2. UNCHANGED <<Avail(e), Avail(p)>>
    BY <2>1 DEF Avail
  <2> QED BY <2>1, <2>2, <1>i, <1>p, <1>t, <1>a
          DEF RingOK, EstClearing, Clearing, Handshake, Counters, Cleared, Avail
<1>8. CASE NotifiedSample(e)
  BY <1>8, <1>q, <1>p, <1>t
     DEF NotifiedSample, Goto, shared, NotifiedGoto, InFrame, EstClearing, Clearing
<1>9. CASE \/ WriteRefused(e) \/ ReadRefused(e)
           \/ WriteNotify(e) \/ ReadNotify(e) \/ StateNotify(e)
           \/ TakeBell(e) \/ Poll(e)
  BY <1>9, <1>q, <1>p, <1>t
     DEF WriteRefused, ReadRefused, WriteNotify, ReadNotify, StateNotify,
         TakeBell, Poll, Goto, shared, InFrame, EstClearing, Clearing
<1>10. CASE ReadFrame(e) \/ \E m \in Msg : WriteFrame(e, m)
  BY <1>10, <1>p, <1>t, <1>i
     DEF ReadFrame, WriteFrame, Goto, shared, RingOK, Avail, EstClearing, Clearing
<1> QED BY <1>1, <1>2, <1>3, <1>4, <1>5, <1>6, <1>7, <1>8, <1>9, <1>10
        DEF Write, Read, Notified

LEMMA InvStep ==
  ASSUME Inv, ~OverlapResets, [Next]_vars
  PROVE  Inv'
<1>1. CASE UNCHANGED vars
  BY <1>1 DEF vars, Inv, TypeOK, Handshake, Counters, RingOK, Cleared, Avail,
              EstClearing, Establishing
<1>2. ASSUME NEW e \in Endpoints,
             \/ Write(e) \/ Read(e) \/ Notified(e)
             \/ ChannelReset(e) \/ Connect(e) \/ TakeBell(e) \/ Poll(e)
      PROVE  Inv'
  <2>1. TypeOK'
    BY <1>2, TypeStep DEF Inv
  <2>2. Pair(e)'
    BY <1>2, HandshakeStep, CountersStep, RingStep DEF Pair
  <2> QED BY <2>1, <2>2, PairSuffices
<1> QED BY <1>1, <1>2 DEF Next

LEMMA InvAlways == ASSUME ~OverlapResets PROVE Spec => []Inv
<1> QED BY InvInit, InvStep, PTL DEF Spec

LEMMA InvImpliesSafety == Inv => NoFrameRace /\ CheckStable /\ NeverOverFull
<1> SUFFICES ASSUME Inv, NEW e \in Endpoints
             PROVE  /\ (pc[e] = "w_frame" /\ pc[Peer(e)] = "r_frame")
                         => w_pos[e] # r_pos[Peer(e)]
                    /\ pc[e] \in {"w_frame", "w_advance"} => CheckWrite(e)
                    /\ pc[e] \in {"r_frame", "r_advance"} => CheckRead(e)
                    /\ (CheckWrite(e) \/ state[Peer(e)] = "established") =>
                         \/ Avail(e) <= NFrames
                         \/ pc[e] \in Clearing
                         \/ pc[Peer(e)] \in Clearing
  BY DEF NoFrameRace, CheckStable, NeverOverFull
<1> DEFINE p == Peer(e)
<1>p. /\ p \in Endpoints /\ p # e
      /\ Peer(e) = p /\ Peer(p) = e
  BY PeerFacts
<1>i. /\ Handshake(e) /\ Handshake(p) /\ RingOK(e) /\ RingOK(p)
  BY <1>p DEF Inv
<1>a. /\ Avail(e) \in Nat /\ Avail(p) \in Nat
      /\ r_pos[p] \in Frames
      /\ NFrames \in Nat
  BY <1>p, CountFacts, NFramesAssumption DEF Inv, TypeOK, Avail, Counts
<1> HIDE DEF p
<1>1. (pc[e] = "w_frame" /\ pc[p] = "r_frame") => w_pos[e] # r_pos[p]
  BY <1>p, <1>i, <1>a, PosFacts DEF Handshake, RingOK, InFrame
<1>2. pc[e] \in {"w_frame", "w_advance"} => CheckWrite(e)
  BY <1>i, <1>a DEF Handshake, RingOK, InFrame, CheckWrite, Full
<1>3. pc[e] \in {"r_frame", "r_advance"} => CheckRead(e)
  BY <1>p, <1>i, <1>a
     DEF Handshake, RingOK, InFrame, CheckRead, Empty, EstClearing, Clearing
<1>4. (CheckWrite(e) \/ state[p] = "established") =>
        \/ Avail(e) <= NFrames
        \/ pc[e] \in Clearing
        \/ pc[p] \in Clearing
  BY <1>p, <1>i, <1>a DEF RingOK, CheckWrite, Full, EstClearing
<1> QED BY <1>p, <1>1, <1>2, <1>3, <1>4

\* However many frames the ring has and however often its ends reset it, the
\* writer never fills the frame the reader copies (tegra_ivc_write against
\* tegra_ivc_read), if no reset overlaps the end of another.
THEOREM NoFrameRaceTheorem ==
  ASSUME ~OverlapResets PROVE Spec => []NoFrameRace
<1> QED BY InvAlways, InvImpliesSafety, PTL

\* A check that passed stays passed until the call advances, so the second
\* check in tegra_ivc_write_advance and tegra_ivc_read_advance cannot fail.
THEOREM CheckStableTheorem ==
  ASSUME ~OverlapResets PROVE Spec => []CheckStable
<1> QED BY InvAlways, InvImpliesSafety, PTL

\* A ring in use never holds more than NFrames frames, even where its 32-bit
\* counters wrap (ivc_channel_empty's over-full test).
THEOREM NeverOverFullTheorem ==
  ASSUME ~OverlapResets PROVE Spec => []NeverOverFull
<1> QED BY InvAlways, InvImpliesSafety, PTL

LEMMA ClearedUnusedStep ==
  ASSUME Inv
  PROVE  [\A e \in Endpoints :
            (NotifiedClearW(e) \/ NotifiedClearR(e)) =>
               \/ pc[Peer(e)] \notin InFrame
               \/ UNCHANGED <<w_count, r_count, w_pos, r_pos>>]_vars
<1>1. ASSUME Inv, NEW e \in Endpoints, NotifiedClearW(e) \/ NotifiedClearR(e)
      PROVE  \/ pc[Peer(e)] \notin InFrame
             \/ UNCHANGED <<w_count, r_count, w_pos, r_pos>>
  <2>1. /\ Handshake(e) /\ Handshake(Peer(e)) /\ Counters(e)
        /\ pc[e] \in Clearing /\ state[e] \in States
    BY <1>1, PeerFacts
       DEF Inv, TypeOK, NotifiedClearW, NotifiedClearR, Goto, Clearing
  <2>2. CASE state[e] = "ack"
    <3>1. Cleared(e)
      BY <2>1, <2>2 DEF Counters
    <3> QED BY <1>1, <3>1, PeerFacts
            DEF Inv, TypeOK, Cleared, NotifiedClearW, NotifiedClearR
  <2>3. CASE state[e] # "ack"
    BY <2>1, <2>3, PeerFacts DEF Handshake, EstClearing, States
  <2> QED BY <2>2, <2>3
<1> QED BY <1>1

\* channel_notified never clears a counter that the other endpoint is using.
THEOREM ClearedUnusedTheorem ==
  ASSUME ~OverlapResets PROVE Spec => ClearedUnused
<1> QED BY ClearedUnusedStep, InvAlways, PTL DEF ClearedUnused

-----------------------------------------------------------------------------
(***************************************************************************)
(* Doorbells.  A client that waits and need not has a bell pending, or the *)
(* other endpoint is about to ring it: at the end of a reset it always     *)
(* does, at the end of a write or a read if it finds the level that says   *)
(* it made the difference, so that level has to hold until it looks.  A    *)
(* client inside channel_notified waits for nothing.                       *)
(***************************************************************************)
WakeOK(e) ==
  /\ pc[e] \in {"n_sample"} \cup Clearing => waiting[e] = {}
  /\ ("read" \in waiting[e] /\ CheckRead(e)) =>
        \/ bell[e] \/ pc[Peer(e)] = "notify"
        \/ pc[Peer(e)] = "w_notify" /\ Avail(Peer(e)) = 1
  /\ ("write" \in waiting[e] /\ CheckWrite(e)) =>
        \/ bell[e] \/ pc[Peer(e)] = "notify"
        \/ pc[Peer(e)] = "r_notify" /\ Avail(e) = NFrames - 1

WakeInv == Inv /\ \A e \in Endpoints : WakeOK(e)

LEMMA WakeStep ==
  ASSUME Inv, ~OverlapResets, NEW e \in Endpoints,
         WakeOK(e), WakeOK(Peer(e)),
         \/ Write(e) \/ Read(e) \/ Notified(e)
         \/ ChannelReset(e) \/ Connect(e) \/ TakeBell(e) \/ Poll(e)
  PROVE  WakeOK(e)' /\ WakeOK(Peer(e))'
<1> DEFINE p == Peer(e)
<1>p. /\ p \in Endpoints /\ p # e
      /\ Peer(e) = p /\ Peer(p) = e
  BY PeerFacts
<1>t. /\ pc \in [Endpoints -> PCs] /\ state \in [Endpoints -> States]
      /\ bell \in [Endpoints -> BOOLEAN]
      /\ w_count \in [Endpoints -> Counts] /\ r_count \in [Endpoints -> Counts]
      /\ waiting \in [Endpoints -> SUBSET {"read", "write"}]
  BY DEF Inv, TypeOK
<1>i. /\ Handshake(e) /\ Handshake(p) /\ Counters(e) /\ Counters(p)
      /\ RingOK(e) /\ RingOK(p)
  BY <1>p DEF Inv
<1>a. Avail(e) \in Nat /\ Avail(p) \in Nat /\ NFrames \in Nat /\ NFrames > 0
      /\ NFrames < CountMod /\ CountMod \in Nat
  BY <1>p, <1>t, CountFacts, CountModAssumption, NFramesAssumption DEF Avail, Counts
<1>w. WakeOK(e) /\ WakeOK(p)
  OBVIOUS
<1> HIDE DEF p
<1> SUFFICES WakeOK(e)' /\ WakeOK(p)'
  BY <1>p
\* the counters and the states rest, no bell is taken back, no client joins
\* the waiting but one that has to wait, and nobody forgets to ring
<1>q. ASSUME UNCHANGED <<w_count, r_count, state, waiting>>,
             pc'[p] = pc[p],
             pc[e] \notin {"w_notify", "r_notify", "notify"},
             pc[e] = "idle" => waiting[e] = {} \/ pc'[e] \notin {"n_sample"} \cup Clearing,
             pc[e] \in InFrame => pc'[e] \notin {"n_sample"} \cup Clearing,
             UNCHANGED bell
      PROVE  WakeOK(e)' /\ WakeOK(p)'
  BY <1>p, <1>w, <1>q, <1>t DEF WakeOK, CheckRead, CheckWrite, Empty, Full, Avail, PCs, InFrame, Clearing
<1>1. CASE WriteCheck(e) \/ ReadCheck(e) \/ ReadFrame(e) \/ \E m \in Msg : WriteFrame(e, m)
  BY <1>1, <1>q, <1>p, <1>t
     DEF WriteCheck, ReadCheck, ReadFrame, WriteFrame, Goto, shared, InFrame, Clearing
<1>2. CASE NotifiedSample(e)
  BY <1>2, <1>p, <1>t, <1>w
     DEF NotifiedSample, Goto, shared, NotifiedGoto, WakeOK, CheckRead,
         CheckWrite, Empty, Full, Avail, Clearing
<1>3. CASE WriteRefused(e) \/ ReadRefused(e)
  BY <1>3, <1>p, <1>t, <1>w
     DEF WriteRefused, ReadRefused, shared, WakeOK, CheckRead,
         CheckWrite, Empty, Full, Avail, Clearing
<1>4. CASE TakeBell(e) \/ Poll(e)
  BY <1>4, <1>p, <1>t, <1>w
     DEF TakeBell, Poll, Goto, shared, WakeOK, CheckRead,
         CheckWrite, Empty, Full, Avail, Clearing
<1>5. CASE ChannelReset(e) \/ Connect(e)
  BY <1>5, <1>p, <1>t, <1>w
     DEF ChannelReset, Connect, Reset, Goto, shared, WakeOK, CheckRead,
         CheckWrite, Empty, Full, Avail, Clearing
<1>6. CASE StateNotify(e) \/ WriteNotify(e) \/ ReadNotify(e)
  <2>1. /\ UNCHANGED <<w_count, r_count, state, waiting>>
        /\ pc'[p] = pc[p] /\ pc'[e] = "idle" /\ bell'[e] = bell[e]
        /\ pc[e] = "notify" => bell'[p]
        /\ pc[e] = "w_notify" /\ Avail(e) = 1 => bell'[p]
        /\ pc[e] = "r_notify" /\ Avail(p) = NFrames - 1 => bell'[p]
        /\ bell[p] => bell'[p]
    BY <1>6, <1>p, <1>t
       DEF StateNotify, WriteNotify, ReadNotify, Notify, Goto, shared
  <2> QED BY <2>1, <1>p, <1>w
          DEF WakeOK, CheckRead, CheckWrite, Empty, Full, Avail, Clearing
<1>7. CASE WriteAdvance(e)
  <2>1. Avail(e) < NFrames /\ state[e] = "established" /\ pc[e] = "w_advance"
        /\ CheckWrite(e)
    BY <1>7, <1>i, <1>a
       DEF RingOK, Handshake, WriteAdvance, InFrame, Goto, CheckWrite, Full
  <2>2. Avail(e)' = Avail(e) + 1 /\ Avail(p)' = Avail(p)
    BY <2>1, <1>7, <1>p, <1>t, <1>a, CountFacts DEF WriteAdvance, Avail
  <2>3. /\ UNCHANGED <<state, bell, waiting>>
        /\ pc'[p] = pc[p] /\ pc'[e] = "w_notify"
    BY <1>7, <1>p, <1>t DEF WriteAdvance, Goto
  <2>4. WakeOK(e)'
    BY <2>1, <2>2, <2>3, <1>p, <1>w, <1>a
       DEF WakeOK, CheckRead, CheckWrite, Empty, Full, Clearing
  <2>5. WakeOK(p)'
    <3>1. Avail(e) = 0 \/ ~Empty(e)
      BY <2>1, <1>a DEF Empty
    <3> QED BY <3>1, <2>1, <2>2, <2>3, <1>p, <1>w, <1>a
            DEF WakeOK, CheckRead, CheckWrite, Empty, Full, Clearing
  <2> QED BY <2>4, <2>5
<1>8. CASE ReadAdvance(e)
  <2>1. /\ Avail(p) > 0 /\ state[e] = "established" /\ pc[e] = "r_advance"
        /\ Avail(p) <= NFrames /\ CheckRead(e)
    <3>1. Avail(p) > 0 /\ state[e] = "established" /\ pc[e] = "r_advance"
      BY <1>8, <1>i, <1>p DEF RingOK, Handshake, ReadAdvance, InFrame, Goto
    <3>2. ~EstClearing(e) /\ ~EstClearing(p)
      BY <3>1, <1>i, <1>p DEF Handshake, EstClearing, Clearing
    <3>3. Avail(p) <= NFrames
      BY <3>1, <3>2, <1>i, <1>p DEF RingOK
    <3> QED BY <3>1, <3>3, <1>p, <1>a DEF CheckRead, Empty
  <2>2. Avail(p)' = Avail(p) - 1 /\ Avail(e)' = Avail(e)
    BY <2>1, <1>8, <1>p, <1>t, <1>a, CountFacts DEF ReadAdvance, Avail
  <2>3. /\ UNCHANGED <<state, bell, waiting>>
        /\ pc'[p] = pc[p] /\ pc'[e] = "r_notify"
    BY <1>8, <1>p, <1>t DEF ReadAdvance, Goto
  <2>4. WakeOK(e)'
    BY <2>1, <2>2, <2>3, <1>p, <1>w, <1>a
       DEF WakeOK, CheckRead, CheckWrite, Empty, Full, Clearing
  <2>5. WakeOK(p)'
    BY <2>1, <2>2, <2>3, <1>p, <1>w, <1>a
       DEF WakeOK, CheckRead, CheckWrite, Empty, Full, Clearing
  <2> QED BY <2>4, <2>5
<1>9. CASE NotifiedClearW(e) \/ NotifiedClearR(e)
  <2>1. /\ pc[e] \in Clearing /\ pc'[e] \in Clearing
        /\ pc'[p] = pc[p] /\ UNCHANGED <<state, bell, waiting>>
        /\ waiting[e] = {}
    BY <1>9, <1>p, <1>t, <1>w DEF NotifiedClearW, NotifiedClearR, Goto, Clearing, WakeOK
  <2>2. WakeOK(e)'
    BY <2>1 DEF WakeOK
  <2>3. state[p] = "established" => state[e] = "ack"
    BY <2>1, <1>i, <1>p, <1>t DEF Handshake, EstClearing, States
  <2>4. state[e] = "ack" => UNCHANGED <<w_count, r_count>>
    BY <1>9, <1>i, <1>p, <1>t DEF Counters, Cleared, NotifiedClearW, NotifiedClearR
  <2>5. WakeOK(p)'
    <3>1. CASE state[p] = "established"
      BY <3>1, <2>1, <2>3, <2>4, <1>p, <1>w
         DEF WakeOK, CheckRead, CheckWrite, Empty, Full, Avail, Clearing
    <3>2. CASE state[p] # "established"
      BY <3>2, <2>1, <1>p, <1>w DEF WakeOK, CheckRead, CheckWrite
    <3> QED BY <3>1, <3>2
  <2> QED BY <2>2, <2>5
<1>10. CASE NotifiedState(e)
  BY <1>10, <1>p, <1>t, <1>w
     DEF NotifiedState, Goto, WakeOK, CheckRead, CheckWrite, Empty, Full, Avail, Clearing
<1> QED BY <1>1, <1>2, <1>3, <1>4, <1>5, <1>6, <1>7, <1>8, <1>9, <1>10
        DEF Write, Read, Notified

LEMMA WakeInit == Init => WakeInv
  BY InvInit, PeerFacts DEF Init, WakeInv, WakeOK, Clearing

LEMMA WakeInvStep ==
  ASSUME WakeInv, ~OverlapResets, [Next]_vars
  PROVE  WakeInv'
<1>1. CASE UNCHANGED vars
  BY <1>1, InvStep
     DEF vars, WakeInv, WakeOK, CheckRead, CheckWrite, Empty, Full, Avail
<1>2. ASSUME NEW e \in Endpoints,
             \/ Write(e) \/ Read(e) \/ Notified(e)
             \/ ChannelReset(e) \/ Connect(e) \/ TakeBell(e) \/ Poll(e)
      PROVE  WakeInv'
  <2>1. WakeOK(e)' /\ WakeOK(Peer(e))'
    BY <1>2, WakeStep, PeerFacts DEF WakeInv
  <2>2. Inv'
    BY <1>2, InvStep DEF WakeInv, Next
  <2> QED BY <2>1, <2>2, PeerFacts DEF WakeInv
<1> QED BY <1>1, <1>2 DEF Next

LEMMA WakeImplies == WakeInv => NoLostWakeup
  BY PeerFacts DEF WakeInv, WakeOK, NoLostWakeup

\* Doorbells are rung only on the transitions empty to non-empty and full to
\* non-full (tegra_ivc_read_advance, tegra_ivc_write_advance), each decided on
\* counters read after the advance, and no wake-up is missed for it.
THEOREM NoLostWakeupTheorem ==
  ASSUME ~OverlapResets PROVE Spec => []NoLostWakeup
<1> QED BY WakeInit, WakeInvStep, WakeImplies, PTL DEF Spec

-----------------------------------------------------------------------------
(***************************************************************************)
(* Starting over with channel_sync.  An endpoint that is not in sync has   *)
(* its positions where its counters say, so that taking them from the      *)
(* counters changes nothing; one that is in sync has no say over a ring    *)
(* that is in use.  A counter that wraps keeps its frame only if the       *)
(* number of frames divides 2^32.                                          *)
(***************************************************************************)
Aligned(e) ==
  (state[e] # "sync" /\ pc[e] # "n_clear_r") =>
     /\ w_pos[e] = w_count[e] % NFrames
     /\ r_pos[e] = r_count[Peer(e)] % NFrames

SyncInv == WakeInv /\ \A e \in Endpoints : Aligned(e)

LEMMA ModFacts ==
  ASSUME NEW n \in Nat \ {0}
  PROVE  /\ \A i \in 0 .. n - 1 : i % n = i
         /\ \A i \in n .. 2 * n - 1 : i % n = i - n
         /\ \A c \in Nat :
              /\ c % n \in 0 .. n - 1
              /\ (c + 1) % n = IF c % n = n - 1 THEN 0 ELSE (c % n) + 1
<1>1. ASSUME NEW i \in 0 .. n - 1 PROVE i % n = i
  BY SMTT(20)
<1>2. ASSUME NEW i \in n .. 2 * n - 1 PROVE i % n = i - n
  BY SMTT(20)
<1>3. ASSUME NEW c \in Nat
      PROVE  /\ c % n \in 0 .. n - 1
             /\ (c + 1) % n = IF c % n = n - 1 THEN 0 ELSE (c % n) + 1
  <2>1. c % n \in 0 .. n - 1 /\ c \div n \in Nat
    BY SMTT(20)
  <2>2. c = n * (c \div n) + (c % n)
    BY SMTT(20)
  <2>3. ASSUME NEW q \in Nat, NEW r \in 0 .. n - 1 PROVE (n * q + r) % n = r
    BY SMTT(20)
  <2>4. CASE c % n = n - 1
    <3>1. c + 1 = n * (c \div n + 1) + 0
      BY <2>1, <2>2, <2>4
    <3>2. c \div n + 1 \in Nat /\ 0 \in 0 .. n - 1
      BY <2>1
    <3>3. (n * (c \div n + 1) + 0) % n = 0
      BY <2>3, <3>2
    <3> QED BY <2>1, <2>4, <3>1, <3>3
  <2>5. CASE c % n # n - 1
    <3>1. c + 1 = (n * (c \div n)) + ((c % n) + 1)
      BY <2>1, <2>2
    <3>2. (c % n) + 1 \in 0 .. n - 1
      BY <2>1, <2>5
    <3>3. (n * (c \div n) + ((c % n) + 1)) % n = (c % n) + 1
      BY <2>1, <2>3, <3>2
    <3> QED BY <2>1, <2>5, <3>1, <3>3
  <2> QED BY <2>4, <2>5
<1> QED BY <1>1, <1>2, <1>3

\* the position that goes with a counter moves with it, even where it wraps
LEMMA PosOfCount ==
  ASSUME CountMod % NFrames = 0, NEW c \in Counts
  PROVE  /\ CountInc(c) % NFrames = PosInc(c % NFrames)
         /\ 0 % NFrames = 0
         /\ c % NFrames \in Frames
<1>1. /\ NFrames \in Nat \ {0} /\ c \in Nat
      /\ CountMod \in Nat /\ CountMod > 0
  BY NFramesAssumption, CountModAssumption DEF Counts
<1> DEFINE mod(x) == x % NFrames
<1>2. /\ mod(0) = 0 /\ mod(c) \in 0 .. NFrames - 1
      /\ mod(c + 1) = IF mod(c) = NFrames - 1 THEN 0 ELSE mod(c) + 1
  <2>1. 0 \in 0 .. NFrames - 1
    BY <1>1
  <2>2. 0 % NFrames = 0
    BY <1>1, <2>1, ModFacts
  <2>3. /\ c % NFrames \in 0 .. NFrames - 1
        /\ (c + 1) % NFrames =
             IF c % NFrames = NFrames - 1 THEN 0 ELSE (c % NFrames) + 1
    BY <1>1, ModFacts
  <2> QED BY <2>2, <2>3
<1>3. mod(CountMod) = 0
  OBVIOUS
<1> HIDE DEF mod
<1>4. mod(CountInc(c)) = PosInc(mod(c))
  BY <1>1, <1>2, <1>3 DEF CountInc, PosInc
<1> QED BY <1>2, <1>4 DEF mod, Frames

LEMMA AlignedStep ==
  ASSUME Inv, ~OverlapResets, CountMod % NFrames = 0, NEW e \in Endpoints,
         Aligned(e), Aligned(Peer(e)),
         \/ Write(e) \/ Read(e) \/ Notified(e)
         \/ ChannelReset(e) \/ Connect(e) \/ TakeBell(e) \/ Poll(e)
  PROVE  Aligned(e)' /\ Aligned(Peer(e))'
<1> DEFINE p == Peer(e)
<1>p. /\ p \in Endpoints /\ p # e
      /\ Peer(e) = p /\ Peer(p) = e
  BY PeerFacts
<1>t. /\ pc \in [Endpoints -> PCs] /\ state \in [Endpoints -> States]
      /\ w_count \in [Endpoints -> Counts] /\ r_count \in [Endpoints -> Counts]
      /\ w_pos \in [Endpoints -> Frames] /\ r_pos \in [Endpoints -> Frames]
  BY DEF Inv, TypeOK
<1>i. /\ Handshake(e) /\ Counters(e) /\ Aligned(e) /\ Aligned(p)
  BY <1>p DEF Inv
<1> DEFINE mod(x) == x % NFrames
<1>m. /\ mod(0) = 0
      /\ mod(CountInc(w_count[e])) = PosInc(mod(w_count[e]))
      /\ mod(CountInc(r_count[p])) = PosInc(mod(r_count[p]))
  BY PosOfCount, <1>t, <1>p
<1>d. \A x \in Endpoints :
        /\ Aligned(x) <=>
             ((state[x] # "sync" /\ pc[x] # "n_clear_r") =>
                w_pos[x] = mod(w_count[x]) /\ r_pos[x] = mod(r_count[Peer(x)]))
        /\ Aligned(x)' <=>
             ((state'[x] # "sync" /\ pc'[x] # "n_clear_r") =>
                w_pos'[x] = mod(w_count'[x]) /\ r_pos'[x] = mod(r_count'[Peer(x)]))
  BY DEF Aligned
<1> HIDE DEF p, mod
<1> SUFFICES Aligned(e)' /\ Aligned(p)'
  BY <1>p
<1>1. CASE WriteAdvance(e)
  BY <1>1, <1>d, <1>m, <1>p, <1>t, <1>i DEF WriteAdvance, Goto
<1>2. CASE ReadAdvance(e)
  BY <1>2, <1>d, <1>m, <1>p, <1>t, <1>i DEF ReadAdvance, Goto
<1>3. CASE NotifiedClearW(e)
  BY <1>3, <1>d, <1>m, <1>p, <1>t, <1>i DEF NotifiedClearW, Goto
<1>4. CASE NotifiedClearR(e)
  BY <1>4, <1>d, <1>m, <1>p, <1>t, <1>i DEF NotifiedClearR, Goto, Counters
<1>5. CASE NotifiedState(e)
  BY <1>5, <1>d, <1>m, <1>p, <1>t, <1>i DEF NotifiedState, Goto, Counters, Cleared
<1>6. CASE ChannelReset(e) \/ Connect(e)
  BY <1>6, <1>d, <1>p, <1>t, <1>i DEF ChannelReset, Connect, Reset, Goto
<1>7. CASE \/ WriteCheck(e) \/ WriteRefused(e) \/ WriteNotify(e)
           \/ \E m \in Msg : WriteFrame(e, m)
           \/ ReadCheck(e) \/ ReadRefused(e) \/ ReadFrame(e) \/ ReadNotify(e)
           \/ NotifiedSample(e) \/ StateNotify(e) \/ TakeBell(e) \/ Poll(e)
  <2>1. /\ UNCHANGED <<w_count, r_count, w_pos, r_pos, state>>
        /\ pc'[p] = pc[p]
        /\ pc[e] # "n_clear_r"
    BY <1>7, <1>p, <1>t
       DEF WriteCheck, WriteRefused, WriteNotify, WriteFrame, ReadCheck,
           ReadRefused, ReadFrame, ReadNotify, NotifiedSample, StateNotify,
           TakeBell, Poll, Goto, shared
  <2> QED BY <2>1, <1>d, <1>p, <1>i
<1> QED BY <1>1, <1>2, <1>3, <1>4, <1>5, <1>6, <1>7 DEF Write, Read, Notified

\* taking the positions anew changes nothing, or nothing that matters yet
LEMMA ChannelSyncStep ==
  ASSUME SyncInv, NEW e \in Endpoints, ChannelSync(e)
  PROVE  SyncInv'
<1> DEFINE p == Peer(e)
<1>p. /\ p \in Endpoints /\ p # e
      /\ Peer(e) = p /\ Peer(p) = e
      /\ \A x \in Endpoints : x = e \/ x = p
  BY PeerFacts
<1>t. /\ TypeOK
      /\ w_count \in [Endpoints -> Counts] /\ r_count \in [Endpoints -> Counts]
      /\ w_pos \in [Endpoints -> Frames] /\ r_pos \in [Endpoints -> Frames]
      /\ Aligned(e) /\ Aligned(p)
      /\ Handshake(e) /\ Counters(e) /\ RingOK(e) /\ WakeOK(e)
      /\ Handshake(p) /\ Counters(p) /\ RingOK(p) /\ WakeOK(p)
  BY <1>p DEF SyncInv, WakeInv, Inv, TypeOK
<1>u. /\ pc[e] = "idle"
      /\ UNCHANGED <<w_count, r_count, state, frame, bell, pc, peer, buf, waiting, resets>>
      /\ w_pos'[p] = w_pos[p] /\ r_pos'[p] = r_pos[p]
  BY <1>p, <1>t DEF ChannelSync, shared
<1>m. w_count[e] % NFrames \in Frames /\ r_count[p] % NFrames \in Frames
  <2>1. w_count[e] \in Nat /\ r_count[p] \in Nat
    BY <1>p, <1>t, CountModAssumption DEF Counts
  <2> QED BY <2>1, ModFacts, NFramesAssumption DEF Frames
<1>1. CASE state[e] # "sync"
  <2>1. w_pos' = w_pos /\ r_pos' = r_pos
    BY <1>1, <1>p, <1>t, <1>u DEF ChannelSync, Aligned
  <2> QED BY <2>1, <1>u
          DEF SyncInv, WakeInv, Inv, TypeOK, Handshake, Counters, RingOK, WakeOK,
              Aligned, Cleared, EstClearing, Establishing, Avail, CheckRead,
              CheckWrite, Empty, Full
<1>2. CASE state[e] = "sync"
  <2>1. TypeOK'
    BY <1>p, <1>t, <1>u, <1>m DEF TypeOK, ChannelSync
  <2>2. /\ Handshake(e)' /\ Counters(e)' /\ RingOK(e)' /\ WakeOK(e)' /\ Aligned(e)'
    BY <1>2, <1>u, <1>p, <1>t
       DEF Handshake, Counters, RingOK, WakeOK, Aligned, Cleared, EstClearing,
           Establishing, Avail, CheckRead, CheckWrite, Empty, Full
  <2>3. /\ Handshake(p)' /\ Counters(p)' /\ RingOK(p)' /\ WakeOK(p)' /\ Aligned(p)'
    BY <1>2, <1>u, <1>p, <1>t
       DEF Handshake, Counters, RingOK, WakeOK, Aligned, Cleared, EstClearing,
           Establishing, Avail, CheckRead, CheckWrite, Empty, Full
  <2> QED BY <2>1, <2>2, <2>3, <1>p DEF SyncInv, WakeInv, Inv
<1> QED BY <1>1, <1>2

LEMMA SyncInvAlways ==
  ASSUME ~OverlapResets, CountMod % NFrames = 0
  PROVE  SyncSpec => []SyncInv
<1>1. Init => SyncInv
  <2> SUFFICES ASSUME Init, NEW e \in Endpoints PROVE Aligned(e)
    BY WakeInit DEF SyncInv
  <2>1. 0 % NFrames = 0
    BY ModFacts, NFramesAssumption
  <2> QED BY <2>1, PeerFacts DEF Init, Aligned
<1>2. SyncInv /\ [Next]_vars => SyncInv'
  <2>1. CASE UNCHANGED vars
    BY <2>1, WakeInvStep DEF vars, SyncInv, Aligned
  <2>2. ASSUME SyncInv, NEW e \in Endpoints,
               \/ Write(e) \/ Read(e) \/ Notified(e)
               \/ ChannelReset(e) \/ Connect(e) \/ TakeBell(e) \/ Poll(e)
        PROVE  SyncInv'
    <3>1. Aligned(e)' /\ Aligned(Peer(e))'
      BY <2>2, AlignedStep, PeerFacts DEF SyncInv, WakeInv
    <3>2. WakeInv'
      BY <2>2, WakeInvStep DEF SyncInv, Next
    <3> QED BY <3>1, <3>2, PeerFacts DEF SyncInv
  <2> QED BY <2>1, <2>2 DEF Next
<1>3. SyncInv /\ [Next \/ \E e \in Endpoints : ChannelSync(e)]_vars => SyncInv'
  BY <1>2, ChannelSyncStep
<1> QED BY <1>1, <1>3, PTL DEF SyncSpec

\* All of it holds as well where a client may start over at any time from the
\* counters it left behind (tegra_ivc_init and tegra_ivc_channel_sync), as
\* long as the number of frames divides the range of the counters, which
\* tegra_ivc_init does not check.
THEOREM StartingOverTheorem ==
  ASSUME ~OverlapResets, CountMod % NFrames = 0
  PROVE  SyncSpec => /\ [](/\ TypeOK /\ NoFrameRace /\ CheckStable
                           /\ NeverOverFull /\ NoLostWakeup)
                     /\ ClearedUnused
<1>1. SyncInv => Inv /\ TypeOK /\ NoLostWakeup
  BY WakeImplies DEF SyncInv, WakeInv, Inv
<1> QED BY <1>1, SyncInvAlways, InvImpliesSafety, ClearedUnusedStep, PTL
        DEF ClearedUnused

-----------------------------------------------------------------------------
(***************************************************************************)
(* The channel implements the bounded FIFOs of IvcFifo.  FrameSeq is what  *)
(* n frames from position r on hold; FrameOK(e) says what the frame that e *)
(* is inside of holds.                                                     *)
(***************************************************************************)
FrameSeq(f, r, n) == [i \in 1 .. n |-> f[(r + i - 1) % NFrames]]

Frame == Msg \cup {NoMsg}

FrameOK(e) ==
  /\ pc[e] = "w_advance" => frame[e][w_pos[e]] \in Msg
  /\ pc[e] = "r_advance" => buf[e] = frame[Peer(e)][r_pos[e]]

FrameInv == Inv /\ \A e \in Endpoints : FrameOK(e)

LEMMA SeqOfFrames ==
  ASSUME NEW f \in [Frames -> Frame], NEW r \in Frames, NEW n \in 0 .. NFrames
  PROVE  /\ FrameSeq(f, r, n) \in Seq(Frame)
         /\ Len(FrameSeq(f, r, n)) = n
         /\ \A i \in 1 .. n : FrameSeq(f, r, n)[i] = f[PosAdd(r, i - 1)]
<1>1. ASSUME NEW i \in 1 .. n
      PROVE  (r + i - 1) % NFrames = PosAdd(r, i - 1)
  <2> DEFINE k == r + i - 1
  <2>1. k \in 0 .. NFrames - 1 \/ k \in NFrames .. 2 * NFrames - 1
    BY NFramesAssumption DEF Frames
  <2>2. k % NFrames = IF k < NFrames THEN k ELSE k - NFrames
    <3>1. CASE k \in 0 .. NFrames - 1
      <4>1. k % NFrames = k
        BY <3>1, ModFacts, NFramesAssumption
      <4> QED BY <3>1, <4>1, NFramesAssumption
    <3>2. CASE k \in NFrames .. 2 * NFrames - 1
      <4>1. k % NFrames = k - NFrames
        BY <3>2, ModFacts, NFramesAssumption
      <4> QED BY <3>2, <4>1, NFramesAssumption
    <3> QED BY <2>1, <3>1, <3>2
  <2>3. PosAdd(r, i - 1) = IF k < NFrames THEN k ELSE k - NFrames
    BY NFramesAssumption DEF PosAdd, Frames
  <2> QED BY <2>2, <2>3
<1>2. ASSUME NEW i \in 1 .. n PROVE f[PosAdd(r, i - 1)] \in Frame
  BY PosFacts, NFramesAssumption
<1>3. /\ DOMAIN FrameSeq(f, r, n) = 1 .. n
      /\ \A i \in 1 .. n : FrameSeq(f, r, n)[i] = f[PosAdd(r, i - 1)]
  BY <1>1 DEF FrameSeq
<1>4. FrameSeq(f, r, n) \in [1 .. n -> Frame]
  BY <1>1, <1>2 DEF FrameSeq
<1>5. n \in Nat
  BY NFramesAssumption
<1> QED BY <1>3, <1>4, <1>5

LEMMA NoFrames ==
  ASSUME NEW f \in [Frames -> Frame], NEW r \in Frames
  PROVE  FrameSeq(f, r, 0) = <<>>
<1>1. FrameSeq(f, r, 0) \in Seq(Frame) /\ Len(FrameSeq(f, r, 0)) = 0
  BY SeqOfFrames, NFramesAssumption
<1> QED BY <1>1, EmptySeq

\* a frame more at the end
LEMMA FrameAppend ==
  ASSUME NEW f \in [Frames -> Frame], NEW r \in Frames, NEW n \in 0 .. NFrames - 1
  PROVE  FrameSeq(f, r, n + 1) = Append(FrameSeq(f, r, n), f[PosAdd(r, n)])
<1> DEFINE s == FrameSeq(f, r, n)
           t == FrameSeq(f, r, n + 1)
           x == f[PosAdd(r, n)]
<1>0. /\ NFrames \in Nat /\ n \in 0 .. NFrames /\ n + 1 \in 0 .. NFrames
      /\ n \in Nat
  BY NFramesAssumption
<1>1. /\ s \in Seq(Frame) /\ Len(s) = n
      /\ \A i \in 1 .. n : s[i] = f[PosAdd(r, i - 1)]
  BY <1>0, SeqOfFrames
<1>2. /\ t \in Seq(Frame) /\ Len(t) = n + 1
      /\ \A i \in 1 .. n + 1 : t[i] = f[PosAdd(r, i - 1)]
  BY <1>0, SeqOfFrames
<1>3. x \in Frame
  BY <1>0, PosFacts
<1>4. n + 1 \in 1 .. n + 1 /\ (n + 1) - 1 = n
  BY <1>0
<1>5. t[n + 1] = x
  BY <1>2, <1>4
<1> HIDE DEF s, t, x
<1>6. /\ Append(s, x) \in Seq(Frame) /\ Len(Append(s, x)) = n + 1
      /\ \A i \in 1 .. n + 1 :
           Append(s, x)[i] = IF i = n + 1 THEN x ELSE s[i]
  BY <1>0, <1>1, <1>3
<1>7. \A i \in 1 .. n + 1 : Append(s, x)[i] = t[i]
  BY <1>0, <1>1, <1>2, <1>5, <1>6
<1>8. Append(s, x) = t
  BY <1>2, <1>6, <1>7, SeqEqual
<1> QED BY <1>8 DEF s, t, x

\* a frame less at the front
LEMMA FrameTail ==
  ASSUME NEW f \in [Frames -> Frame], NEW r \in Frames, NEW n \in 1 .. NFrames
  PROVE  /\ FrameSeq(f, r, n) # <<>>
         /\ Head(FrameSeq(f, r, n)) = f[r]
         /\ Tail(FrameSeq(f, r, n)) = FrameSeq(f, PosInc(r), n - 1)
<1> DEFINE s == FrameSeq(f, r, n)
           t == FrameSeq(f, PosInc(r), n - 1)
<1>0. /\ NFrames \in Nat /\ n \in 0 .. NFrames /\ n - 1 \in 0 .. NFrames
      /\ n \in Nat /\ PosInc(r) \in Frames /\ PosAdd(r, 0) = r
  BY NFramesAssumption DEF PosAdd, PosInc, Frames
<1>1. /\ s \in Seq(Frame) /\ Len(s) = n
      /\ \A i \in 1 .. n : s[i] = f[PosAdd(r, i - 1)]
  BY <1>0, SeqOfFrames
<1>2. /\ t \in Seq(Frame) /\ Len(t) = n - 1
      /\ \A i \in 1 .. n - 1 : t[i] = f[PosAdd(PosInc(r), i - 1)]
  BY <1>0, SeqOfFrames
<1>3. ASSUME NEW i \in 1 .. n - 1
      PROVE  PosAdd(PosInc(r), i - 1) = PosAdd(r, (i + 1) - 1)
  <2>1. i \in 0 .. NFrames /\ i > 0 /\ (i + 1) - 1 = i
    BY <1>0
  <2> QED BY <2>1, PosFacts
<1>4. s[1] = f[r]
  <2>1. 1 \in 1 .. n /\ 1 - 1 = 0
    BY <1>0
  <2> QED BY <1>0, <1>1, <2>1
<1>5. \A i \in 1 .. n - 1 : s[i + 1] = t[i]
  <2> SUFFICES ASSUME NEW i \in 1 .. n - 1 PROVE s[i + 1] = t[i]
    OBVIOUS
  <2>1. i + 1 \in 1 .. n
    BY <1>0
  <2> QED BY <2>1, <1>1, <1>2, <1>3
<1> HIDE DEF s, t
<1>6. s # <<>> /\ Head(s) = s[1]
  BY <1>0, <1>1
<1>7. /\ Tail(s) \in Seq(Frame) /\ Len(Tail(s)) = n - 1
      /\ \A i \in 1 .. n - 1 : Tail(s)[i] = s[i + 1]
  BY <1>0, <1>1, <1>6, HeadTailProperties
<1>8. Tail(s) = t
  BY <1>2, <1>5, <1>7, SeqEqual
<1> QED BY <1>4, <1>6, <1>8 DEF s, t

\* the frame after the last is not one of them
LEMMA FrameStore ==
  ASSUME NEW f \in [Frames -> Frame], NEW r \in Frames, NEW n \in 0 .. NFrames - 1,
         NEW m \in Frame
  PROVE  FrameSeq([f EXCEPT ![PosAdd(r, n)] = m], r, n) = FrameSeq(f, r, n)
<1> DEFINE g == [f EXCEPT ![PosAdd(r, n)] = m]
<1>0. n \in 0 .. NFrames /\ n \in Nat /\ NFrames \in Nat
  BY NFramesAssumption
<1>1. g \in [Frames -> Frame]
  OBVIOUS
<1>2. ASSUME NEW i \in 1 .. n PROVE g[PosAdd(r, i - 1)] = f[PosAdd(r, i - 1)]
  <2>1. PosAdd(r, i - 1) # PosAdd(r, n) /\ PosAdd(r, i - 1) \in Frames
    BY <1>0 DEF PosAdd, Frames
  <2> QED BY <2>1
<1> HIDE DEF g
<1>3. /\ FrameSeq(g, r, n) \in Seq(Frame) /\ Len(FrameSeq(g, r, n)) = n
      /\ \A i \in 1 .. n : FrameSeq(g, r, n)[i] = g[PosAdd(r, i - 1)]
  BY <1>0, <1>1, SeqOfFrames
<1>4. /\ FrameSeq(f, r, n) \in Seq(Frame) /\ Len(FrameSeq(f, r, n)) = n
      /\ \A i \in 1 .. n : FrameSeq(f, r, n)[i] = f[PosAdd(r, i - 1)]
  BY <1>0, SeqOfFrames
<1>5. FrameSeq(g, r, n) = FrameSeq(f, r, n)
  BY <1>2, <1>3, <1>4, SeqEqual
<1> QED BY <1>5 DEF g

LEMMA FrameStep ==
  ASSUME FrameInv, ~OverlapResets, NEW e \in Endpoints,
         \/ Write(e) \/ Read(e) \/ Notified(e)
         \/ ChannelReset(e) \/ Connect(e) \/ TakeBell(e) \/ Poll(e)
         \/ ChannelSync(e)
  PROVE  FrameOK(e)' /\ FrameOK(Peer(e))'
<1> DEFINE p == Peer(e)
<1>p. /\ p \in Endpoints /\ p # e
      /\ Peer(e) = p /\ Peer(p) = e
  BY PeerFacts
<1>t. /\ pc \in [Endpoints -> PCs] /\ state \in [Endpoints -> States]
      /\ frame \in [Endpoints -> [Frames -> Frame]]
      /\ buf \in [Endpoints -> Frame]
      /\ w_pos \in [Endpoints -> Frames] /\ r_pos \in [Endpoints -> Frames]
  BY DEF FrameInv, Inv, TypeOK, Frame
<1>i. /\ Handshake(e) /\ Handshake(p) /\ RingOK(e)
      /\ FrameOK(e) /\ FrameOK(p)
  BY <1>p DEF FrameInv, Inv
<1> HIDE DEF p
<1> SUFFICES FrameOK(e)' /\ FrameOK(p)'
  BY <1>p
<1>q. ASSUME UNCHANGED <<frame, buf>>, pc'[p] = pc[p], UNCHANGED <<w_pos[p], r_pos[p]>>,
             pc'[e] \notin {"w_advance", "r_advance"}
      PROVE  FrameOK(e)' /\ FrameOK(p)'
  BY <1>q, <1>p, <1>i DEF FrameOK
<1>1. CASE \E m \in Msg : WriteFrame(e, m)
  <2>1. PICK m \in Msg : WriteFrame(e, m)
    BY <1>1
  <2>2. /\ pc[e] = "w_frame" /\ pc'[e] = "w_advance" /\ pc'[p] = pc[p]
        /\ frame'[e] = [frame[e] EXCEPT ![w_pos[e]] = m] /\ frame'[p] = frame[p]
        /\ UNCHANGED <<w_pos, r_pos, buf>>
    BY <2>1, <1>p, <1>t DEF WriteFrame, Goto
  <2>3. frame'[e][w_pos[e]] = m
    BY <2>2, <1>t
  <2>4. FrameOK(e)'
    BY <2>2, <2>3 DEF FrameOK
  <2>5. FrameOK(p)'
    <3> SUFFICES ASSUME pc[p] = "r_advance"
                 PROVE  frame'[e][r_pos[p]] = frame[e][r_pos[p]]
      BY <2>2, <1>p, <1>i, <1>t DEF FrameOK
    <3>1. /\ state[e] = "established" /\ state[p] = "established"
          /\ 0 < Avail(e) /\ Avail(e) < NFrames
          /\ w_pos[e] = PosAdd(r_pos[p], Avail(e))
      BY <2>2, <1>p, <1>i DEF Handshake, RingOK, InFrame
    <3>2. Avail(e) \in 0 .. NFrames /\ r_pos[p] \in Frames
      BY <3>1, <1>p, <1>t, CountFacts, NFramesAssumption
         DEF FrameInv, Inv, TypeOK, Avail, Counts
    <3>3. w_pos[e] # r_pos[p]
      BY <3>1, <3>2, PosFacts
    <3> QED BY <2>2, <3>2, <3>3, <1>t
  <2> QED BY <2>4, <2>5
<1>2. CASE ReadFrame(e)
  BY <1>2, <1>p, <1>i, <1>t DEF ReadFrame, Goto, shared, FrameOK
<1>3. CASE WriteCheck(e) \/ WriteRefused(e) \/ WriteAdvance(e) \/ WriteNotify(e)
  BY <1>3, <1>q, <1>p, <1>t
     DEF WriteCheck, WriteRefused, WriteAdvance, WriteNotify, Goto, shared
<1>4. CASE ReadCheck(e) \/ ReadRefused(e) \/ ReadAdvance(e) \/ ReadNotify(e)
  BY <1>4, <1>q, <1>p, <1>t
     DEF ReadCheck, ReadRefused, ReadAdvance, ReadNotify, Goto, shared
<1>5. CASE Notified(e)
  BY <1>5, <1>q, <1>p, <1>t
     DEF Notified, NotifiedSample, NotifiedGoto, NotifiedClearW, NotifiedClearR,
         NotifiedState, StateNotify, Goto, shared
<1>6. CASE ChannelReset(e) \/ Connect(e) \/ TakeBell(e) \/ Poll(e) \/ ChannelSync(e)
  BY <1>6, <1>q, <1>p, <1>t
     DEF ChannelReset, Connect, Reset, TakeBell, Poll, ChannelSync, Goto, shared
<1> QED BY <1>1, <1>2, <1>3, <1>4, <1>5, <1>6 DEF Write, Read

-----------------------------------------------------------------------------
\* the state of IvcFifo that stands for a state of the channel
FifoQueue   == [e \in Endpoints |-> IF Dead(e) THEN <<>> ELSE Content(e)]
FifoStaged  == [e \in Endpoints |->
                  IF pc[e] = "w_advance" THEN frame[e][w_pos[e]] ELSE NoMsg]
FifoAlive   == [e \in Endpoints |-> ~Dead(e)]
FifoSyncing == {e \in Endpoints : state[e] = "sync"}

LEMMA ContentFacts ==
  ASSUME NEW e \in Endpoints
  PROVE  /\ Content(e) = FrameSeq(frame[e], r_pos[Peer(e)], Avail(e))
         /\ Content(e)' = FrameSeq(frame'[e], r_pos'[Peer(e)], Avail(e)')
  BY DEF Content, FrameSeq

\* a ring that is not dead, or that an endpoint is inside of, is in order
LEMMA AliveFacts ==
  ASSUME Inv, NEW e \in Endpoints
  PROVE  /\ ~Dead(e) => Avail(e) \in 0 .. NFrames
         /\ Avail(e) \in Nat
         /\ frame[e] \in [Frames -> Frame]
         /\ r_pos[Peer(e)] \in Frames /\ w_pos[e] \in Frames
<1> DEFINE p == Peer(e)
<1>p. /\ p \in Endpoints /\ p # e
      /\ Peer(e) = p /\ Peer(p) = e
  BY PeerFacts
<1>t. /\ pc \in [Endpoints -> PCs] /\ state \in [Endpoints -> States]
      /\ frame[e] \in [Frames -> Frame]
      /\ r_pos[p] \in Frames /\ w_pos[e] \in Frames
  BY <1>p DEF Inv, TypeOK, Frame
<1>n. Avail(e) \in Nat
  <2>1. w_count[e] \in Counts /\ r_count[e] \in Counts
    BY DEF Inv, TypeOK
  <2>2. Avail(e) \in Counts
    BY <2>1, CountFacts DEF Avail
  <2> QED BY <2>2, CountModAssumption DEF Counts
<1>i. /\ Handshake(e) /\ Handshake(p) /\ Counters(e) /\ Counters(p) /\ RingOK(e)
  BY <1>p DEF Inv
<1> HIDE DEF p
<1>1. ASSUME ~Dead(e) PROVE Avail(e) <= NFrames
  <2>1. state[p] # "sync" /\ ~(state[e] = "sync" /\ (state[p] = "ack" \/ pc[p] \in Clearing))
    BY <1>1, <1>p DEF Dead
  <2>2. CASE "established" \in {state[e], state[p]}
    <3>1. ~EstClearing(e) /\ ~EstClearing(p)
      BY <2>1, <1>i, <1>p DEF Handshake, EstClearing
    <3> QED BY <2>2, <3>1, <1>i, <1>p DEF RingOK
  <2>3. CASE "established" \notin {state[e], state[p]}
    <3>1. state[e] = "ack" /\ state[p] = "ack"
      BY <2>1, <2>3, <1>t, <1>p DEF States
    <3>2. w_count[e] = 0 /\ r_count[e] = 0
      BY <3>1, <1>i, <1>p DEF Counters, Cleared
    <3>3. Avail(e) = 0
      BY <3>2, CountModAssumption DEF Avail, CountSub
    <3> QED BY <3>3, NFramesAssumption
  <2> QED BY <2>2, <2>3
<1> QED BY <1>p, <1>t, <1>n, <1>1, NFramesAssumption

\* a step that neither sends, looks nor removes: frames are lost only where a
\* ring dies, and a ring that comes back is empty
LEMMA ResyncStep ==
  ASSUME UNCHANGED <<buf, FifoStaged>>,
         \A x \in Endpoints : ~Dead(x) /\ ~Dead(x)' => Content(x)' = Content(x),
         \A x \in Endpoints : Dead(x) /\ ~Dead(x)' => Content(x)' = <<>>,
         (\A x \in Endpoints : Dead(x)' <=> Dead(x))
            \/ \E x \in Endpoints : state[x] = "sync" \/ state'[x] = "sync"
  PROVE  Fifo!Resync
<1>1. /\ FifoSyncing' \in SUBSET Endpoints
      /\ FifoAlive' \in [Endpoints -> BOOLEAN]
  BY DEF FifoSyncing, FifoAlive
<1>2. FifoQueue' = [x \in Endpoints |->
                      IF FifoAlive[x] /\ FifoAlive'[x] THEN FifoQueue[x] ELSE <<>>]
  BY DEF FifoQueue, FifoAlive
<1>3. FifoAlive' # FifoAlive => (FifoSyncing \cup FifoSyncing') # {}
  BY DEF FifoAlive, FifoSyncing
<1> QED BY <1>1, <1>2, <1>3
        DEF Fifo!Resync, FifoQueue, FifoAlive, FifoStaged, FifoSyncing

LEMMA StageStep ==
  ASSUME FrameInv, NEW e \in Endpoints, NEW m \in Msg, WriteFrame(e, m)
  PROVE  Fifo!Stage(e, m)
<1> DEFINE p == Peer(e)
<1>p. /\ p \in Endpoints /\ p # e
      /\ Peer(e) = p /\ Peer(p) = e
      /\ \A x \in Endpoints : x = e \/ x = p
  BY PeerFacts
<1>t. /\ pc \in [Endpoints -> PCs] /\ w_pos \in [Endpoints -> Frames]
      /\ frame \in [Endpoints -> [Frames -> Frame]]
      /\ Handshake(e) /\ RingOK(e)
  BY DEF FrameInv, Inv, TypeOK, Frame
<1> HIDE DEF p
<1>1. /\ pc[e] = "w_frame" /\ pc'[e] = "w_advance" /\ pc'[p] = pc[p]
      /\ frame'[e] = [frame[e] EXCEPT ![w_pos[e]] = m] /\ frame'[p] = frame[p]
      /\ UNCHANGED <<w_count, r_count, state, w_pos, r_pos, buf>>
  BY <1>p, <1>t DEF WriteFrame, Goto
<1>2. \A x \in Endpoints : Dead(x)' <=> Dead(x)
  BY <1>1, <1>p DEF Dead, Clearing
<1>3. Content(p)' = Content(p)
  BY <1>1, <1>p DEF Content, Avail
<1>4. ASSUME ~Dead(e) PROVE Content(e)' = Content(e)
  <2>1. /\ state[e] = "established" /\ state[p] # "sync"
        /\ Avail(e) < NFrames /\ w_pos[e] = PosAdd(r_pos[p], Avail(e))
    BY <1>1, <1>4, <1>p, <1>t DEF Dead, Handshake, RingOK, InFrame
  <2>2. /\ Avail(e) \in 0 .. NFrames - 1 /\ r_pos[p] \in Frames
        /\ frame[e] \in [Frames -> Frame] /\ m \in Frame
    BY <2>1, <1>p, AliveFacts, NFramesAssumption DEF FrameInv, Frame
  <2>3. FrameSeq(frame'[e], r_pos[p], Avail(e)) = FrameSeq(frame[e], r_pos[p], Avail(e))
    BY <1>1, <2>1, <2>2, FrameStore
  <2>4. Avail(e)' = Avail(e)
    BY <1>1 DEF Avail
  <2> QED BY <1>1, <1>p, <2>3, <2>4, ContentFacts
<1>5. FifoQueue' = FifoQueue /\ FifoAlive' = FifoAlive /\ FifoSyncing' = FifoSyncing
  BY <1>1, <1>2, <1>3, <1>4, <1>p DEF FifoQueue, FifoAlive, FifoSyncing
<1>6. frame'[e][w_pos[e]] = m
  BY <1>1, <1>t
<1>7. FifoStaged[e] = NoMsg /\ FifoStaged' = [FifoStaged EXCEPT ![e] = m]
  <2>1. pc[p] = "w_advance" => frame'[p][w_pos'[p]] = frame[p][w_pos[p]]
    BY <1>1
  <2>2. \A x \in Endpoints :
          FifoStaged'[x] = IF x = e THEN m ELSE FifoStaged[x]
    <3>1. FifoStaged'[e] = m
      BY <1>1, <1>6 DEF FifoStaged
    <3>2. FifoStaged'[p] = FifoStaged[p]
      BY <1>1, <2>1, <1>p DEF FifoStaged
    <3> QED BY <3>1, <3>2, <1>p
  <2> QED BY <1>1, <2>2 DEF FifoStaged
<1> QED BY <1>1, <1>5, <1>7
        DEF Fifo!Stage, FifoQueue, FifoAlive, FifoStaged, FifoSyncing

LEMMA SendStep ==
  ASSUME FrameInv, NEW e \in Endpoints, WriteAdvance(e)
  PROVE  Fifo!Send(e)
<1> DEFINE p == Peer(e)
<1>p. /\ p \in Endpoints /\ p # e
      /\ Peer(e) = p /\ Peer(p) = e
      /\ \A x \in Endpoints : x = e \/ x = p
  BY PeerFacts
<1>t. /\ pc \in [Endpoints -> PCs] /\ w_pos \in [Endpoints -> Frames]
      /\ w_count \in [Endpoints -> Counts] /\ r_count \in [Endpoints -> Counts]
      /\ Handshake(e) /\ RingOK(e) /\ FrameOK(e)
  BY DEF FrameInv, Inv, TypeOK
<1> HIDE DEF p
<1>1. /\ pc[e] = "w_advance" /\ pc'[e] = "w_notify" /\ pc'[p] = pc[p]
      /\ w_count'[e] = CountInc(w_count[e]) /\ w_count'[p] = w_count[p]
      /\ w_pos'[p] = w_pos[p]
      /\ UNCHANGED <<frame, r_count, state, r_pos, buf>>
  BY <1>p, <1>t DEF WriteAdvance, Goto
<1>2. \A x \in Endpoints : Dead(x)' <=> Dead(x)
  BY <1>1, <1>p DEF Dead, Clearing
<1>3. Content(p)' = Content(p)
  BY <1>1, <1>p DEF Content, Avail
<1>4. frame[e][w_pos[e]] \in Msg
  BY <1>1, <1>t DEF FrameOK
<1>5. ASSUME ~Dead(e)
      PROVE  /\ Content(e)' = Append(Content(e), frame[e][w_pos[e]])
             /\ Len(Content(e)) < NFrames
  <2>1. /\ state[e] = "established" /\ state[p] # "sync"
        /\ Avail(e) < NFrames /\ w_pos[e] = PosAdd(r_pos[p], Avail(e))
    BY <1>1, <1>5, <1>p, <1>t DEF Dead, Handshake, RingOK, InFrame
  <2>2. /\ Avail(e) \in 0 .. NFrames - 1 /\ r_pos[p] \in Frames
        /\ frame[e] \in [Frames -> Frame]
    BY <2>1, <1>p, AliveFacts, NFramesAssumption DEF FrameInv
  <2>3. Avail(e)' = Avail(e) + 1
    <3>1. Avail(e) < CountMod - 1
      BY <2>2, CountModAssumption, NFramesAssumption
    <3> QED BY <3>1, <1>1, <1>t, CountFacts DEF Avail
  <2>4. /\ FrameSeq(frame[e], r_pos[p], Avail(e) + 1)
            = Append(FrameSeq(frame[e], r_pos[p], Avail(e)), frame[e][w_pos[e]])
    BY <2>1, <2>2, FrameAppend
  <2>5. Len(FrameSeq(frame[e], r_pos[p], Avail(e))) = Avail(e)
    <3>1. Avail(e) \in 0 .. NFrames
      BY <2>2, NFramesAssumption
    <3> QED BY <3>1, <2>2, SeqOfFrames
  <2> QED BY <1>1, <1>p, <2>1, <2>3, <2>4, <2>5, ContentFacts
<1>6. /\ FifoAlive' = FifoAlive /\ FifoSyncing' = FifoSyncing
  BY <1>1, <1>2 DEF FifoAlive, FifoSyncing
<1>7. /\ FifoStaged[e] = frame[e][w_pos[e]] /\ FifoStaged[e] # NoMsg
      /\ FifoStaged' = [FifoStaged EXCEPT ![e] = NoMsg]
  <2>1. FifoStaged[e] = frame[e][w_pos[e]] /\ FifoStaged[e] # NoMsg
    BY <1>1, <1>4, MsgAssumption DEF FifoStaged
  <2>2. \A x \in Endpoints :
          FifoStaged'[x] = IF x = e THEN NoMsg ELSE FifoStaged[x]
    BY <1>1, <1>p DEF FifoStaged
  <2> QED BY <2>1, <2>2 DEF FifoStaged
<1>8. FifoAlive[e] => Len(FifoQueue[e]) < NFrames
  BY <1>5 DEF FifoAlive, FifoQueue
<1>9. FifoQueue' = IF FifoAlive[e]
                   THEN [FifoQueue EXCEPT ![e] = Append(@, FifoStaged[e])]
                   ELSE FifoQueue
  <2>1. CASE Dead(e)
    BY <2>1, <1>2, <1>3, <1>p DEF FifoQueue, FifoAlive
  <2>2. CASE ~Dead(e)
    <3>1. \A x \in Endpoints :
            FifoQueue'[x] = IF x = e THEN Append(FifoQueue[e], FifoStaged[e])
                            ELSE FifoQueue[x]
      BY <2>2, <1>2, <1>3, <1>5, <1>7, <1>p DEF FifoQueue
    <3> QED BY <2>2, <3>1 DEF FifoQueue, FifoAlive
  <2> QED BY <2>1, <2>2
<1> QED BY <1>1, <1>6, <1>7, <1>8, <1>9
        DEF Fifo!Send, FifoQueue, FifoAlive, FifoStaged, FifoSyncing

\* the reader that is inside a frame has it at the head of a ring in order
LEMMA HeadFacts ==
  ASSUME FrameInv, NEW e \in Endpoints, pc[e] \in {"r_frame", "r_advance"}
  PROVE  /\ ~Dead(Peer(e))
         /\ Avail(Peer(e)) \in 1 .. NFrames
         /\ Content(Peer(e)) # <<>>
         /\ Head(Content(Peer(e))) = frame[Peer(e)][r_pos[e]]
         /\ Tail(Content(Peer(e)))
              = FrameSeq(frame[Peer(e)], PosInc(r_pos[e]), Avail(Peer(e)) - 1)
<1> DEFINE p == Peer(e)
<1>p. /\ p \in Endpoints /\ p # e
      /\ Peer(e) = p /\ Peer(p) = e
  BY PeerFacts
<1>i. Handshake(e) /\ RingOK(p) /\ Inv
  BY <1>p DEF FrameInv, Inv
<1>1. state[e] = "established" /\ pc[e] \notin Clearing /\ Avail(p) > 0
  BY <1>i, <1>p DEF Handshake, RingOK, InFrame, Clearing
<1>2. ~Dead(p)
  BY <1>1, <1>p DEF Dead
<1>3. /\ Avail(p) \in 1 .. NFrames /\ r_pos[e] \in Frames
      /\ frame[p] \in [Frames -> Frame]
  BY <1>1, <1>2, <1>p, <1>i, AliveFacts, NFramesAssumption
<1>4. Content(p) = FrameSeq(frame[p], r_pos[e], Avail(p))
  BY <1>p, ContentFacts
<1> HIDE DEF p
<1>5. /\ Content(p) # <<>> /\ Head(Content(p)) = frame[p][r_pos[e]]
      /\ Tail(Content(p)) = FrameSeq(frame[p], PosInc(r_pos[e]), Avail(p) - 1)
  BY <1>3, <1>4, FrameTail
<1> QED BY <1>2, <1>3, <1>5 DEF p

LEMMA LookStep ==
  ASSUME FrameInv, NEW e \in Endpoints, ReadFrame(e)
  PROVE  Fifo!Look(e)
<1> DEFINE p == Peer(e)
<1>p. /\ p \in Endpoints /\ p # e
      /\ Peer(e) = p /\ Peer(p) = e
      /\ \A x \in Endpoints : x = e \/ x = p
  BY PeerFacts
<1>t. pc \in [Endpoints -> PCs] /\ buf \in [Endpoints -> Frame]
  BY DEF FrameInv, Inv, TypeOK, Frame
<1>1. /\ pc[e] = "r_frame" /\ pc'[e] = "r_advance" /\ pc'[p] = pc[p]
      /\ buf' = [buf EXCEPT ![e] = frame[p][r_pos[e]]]
      /\ UNCHANGED <<w_count, r_count, frame, state, r_pos, w_pos>>
  BY <1>p, <1>t DEF ReadFrame, Goto, shared
<1>2. /\ ~Dead(p) /\ Content(p) # <<>>
      /\ Head(Content(p)) = frame[p][r_pos[e]]
  BY <1>1, HeadFacts
<1> HIDE DEF p
<1>3. \A x \in Endpoints : (Dead(x)' <=> Dead(x)) /\ Content(x)' = Content(x)
  BY <1>1, <1>p DEF Dead, Clearing, Content, Avail
<1>4. /\ FifoQueue' = FifoQueue /\ FifoAlive' = FifoAlive
      /\ FifoSyncing' = FifoSyncing /\ FifoStaged' = FifoStaged
  BY <1>1, <1>3, <1>p DEF FifoQueue, FifoAlive, FifoSyncing, FifoStaged
<1>5. /\ FifoAlive[p] /\ FifoQueue[p] # <<>>
      /\ buf' = [buf EXCEPT ![e] = Head(FifoQueue[p])]
  BY <1>1, <1>2, <1>p DEF FifoAlive, FifoQueue
<1> QED BY <1>4, <1>5, <1>p
        DEF Fifo!Look, FifoQueue, FifoAlive, FifoStaged, FifoSyncing

LEMMA RemoveStep ==
  ASSUME FrameInv, NEW e \in Endpoints, ReadAdvance(e)
  PROVE  Fifo!Remove(e)
<1> DEFINE p == Peer(e)
<1>p. /\ p \in Endpoints /\ p # e
      /\ Peer(e) = p /\ Peer(p) = e
      /\ \A x \in Endpoints : x = e \/ x = p
  BY PeerFacts
<1>t. /\ pc \in [Endpoints -> PCs] /\ r_pos \in [Endpoints -> Frames]
      /\ w_count \in [Endpoints -> Counts] /\ r_count \in [Endpoints -> Counts]
      /\ FrameOK(e)
  BY DEF FrameInv, Inv, TypeOK
<1>1. /\ pc[e] = "r_advance" /\ pc'[e] = "r_notify" /\ pc'[p] = pc[p]
      /\ r_count'[p] = CountInc(r_count[p]) /\ r_count'[e] = r_count[e]
      /\ r_pos'[e] = PosInc(r_pos[e]) /\ r_pos'[p] = r_pos[p]
      /\ UNCHANGED <<frame, w_count, state, w_pos, buf>>
  BY <1>p, <1>t DEF ReadAdvance, Goto
<1>2. /\ ~Dead(p) /\ Content(p) # <<>>
      /\ Avail(p) \in 1 .. NFrames
      /\ Head(Content(p)) = frame[p][r_pos[e]]
      /\ Tail(Content(p)) = FrameSeq(frame[p], PosInc(r_pos[e]), Avail(p) - 1)
  BY <1>1, HeadFacts
<1>3. buf[e] = frame[p][r_pos[e]]
  BY <1>1, <1>t DEF FrameOK
<1> HIDE DEF p
<1>4. Avail(p)' = Avail(p) - 1
  <2>1. Avail(p) > 0
    BY <1>2, NFramesAssumption
  <2> QED BY <2>1, <1>1, <1>p, <1>t, CountFacts DEF Avail
<1>5. Content(p)' = Tail(Content(p))
  BY <1>1, <1>2, <1>4, <1>p, ContentFacts
<1>6. Content(e)' = Content(e)
  BY <1>1, <1>p DEF Content, Avail
<1>7. \A x \in Endpoints : Dead(x)' <=> Dead(x)
  BY <1>1, <1>p DEF Dead, Clearing
<1>8. /\ FifoAlive' = FifoAlive /\ FifoSyncing' = FifoSyncing
      /\ FifoStaged' = FifoStaged
  BY <1>1, <1>7, <1>p DEF FifoAlive, FifoSyncing, FifoStaged
<1>9. FifoAlive[p] /\ FifoQueue[p] # <<>> /\ buf[e] = Head(FifoQueue[p])
  BY <1>2, <1>3, <1>p DEF FifoAlive, FifoQueue
<1>10. FifoQueue' = [FifoQueue EXCEPT ![p] = Tail(@)]
  <2>1. \A x \in Endpoints :
          FifoQueue'[x] = IF x = p THEN Tail(FifoQueue[p]) ELSE FifoQueue[x]
    BY <1>2, <1>5, <1>6, <1>7, <1>p DEF FifoQueue
  <2> QED BY <2>1 DEF FifoQueue
<1> QED BY <1>1, <1>8, <1>9, <1>10, <1>p
        DEF Fifo!Remove, FifoQueue, FifoAlive, FifoStaged, FifoSyncing

\* Every other step of an endpoint begins, continues or ends a reset, or is
\* invisible to the FIFOs.
LEMMA OtherStep ==
  ASSUME Inv, ~OverlapResets, NEW e \in Endpoints,
         \/ WriteCheck(e) \/ WriteRefused(e) \/ WriteNotify(e)
         \/ ReadCheck(e) \/ ReadRefused(e) \/ ReadNotify(e)
         \/ Notified(e)
         \/ ChannelReset(e) \/ Connect(e) \/ TakeBell(e) \/ Poll(e)
         \/ ChannelSync(e) /\ (state[e] = "sync" \/ UNCHANGED <<w_pos, r_pos>>)
  PROVE  Fifo!Resync
<1> DEFINE p == Peer(e)
<1>p. /\ p \in Endpoints /\ p # e
      /\ Peer(e) = p /\ Peer(p) = e
      /\ \A x \in Endpoints : x = e \/ x = p
  BY PeerFacts
<1>t. /\ pc \in [Endpoints -> PCs] /\ state \in [Endpoints -> States]
      /\ w_count \in [Endpoints -> Counts] /\ r_count \in [Endpoints -> Counts]
      /\ w_pos \in [Endpoints -> Frames] /\ r_pos \in [Endpoints -> Frames]
      /\ frame \in [Endpoints -> [Frames -> Frame]]
  BY DEF Inv, TypeOK, Frame
<1>i. /\ Handshake(e) /\ Handshake(p) /\ Counters(e) /\ Counters(p)
  BY <1>p DEF Inv
<1> HIDE DEF p
\* no step of these writes a frame or looks at one
<1>0. /\ frame' = frame /\ buf' = buf /\ pc'[p] = pc[p] /\ pc'[e] # "w_advance"
      /\ pc[e] # "w_advance"
      /\ w_pos'[p] = w_pos[p] /\ r_pos'[p] = r_pos[p] /\ state'[p] = state[p]
  <2>1. CASE WriteCheck(e) \/ WriteRefused(e) \/ WriteNotify(e)
    BY <2>1, <1>p, <1>t DEF WriteCheck, WriteRefused, WriteNotify, Goto, shared
  <2>2. CASE ReadCheck(e) \/ ReadRefused(e) \/ ReadNotify(e)
    BY <2>2, <1>p, <1>t DEF ReadCheck, ReadRefused, ReadNotify, Goto, shared
  <2>3. CASE Notified(e)
    BY <2>3, <1>p, <1>t
       DEF Notified, NotifiedSample, NotifiedGoto, NotifiedClearW,
           NotifiedClearR, NotifiedState, StateNotify, Goto, shared
  <2>4. CASE ChannelReset(e) \/ Connect(e) \/ TakeBell(e) \/ Poll(e) \/ ChannelSync(e)
    BY <2>4, <1>p, <1>t
       DEF ChannelReset, Connect, Reset, TakeBell, Poll, ChannelSync, Goto, shared
  <2> QED BY <2>1, <2>2, <2>3, <2>4
<1>s. UNCHANGED <<buf, FifoStaged>>
  <2>1. FifoStaged'[e] = FifoStaged[e] /\ FifoStaged'[p] = FifoStaged[p]
    BY <1>0, <1>p DEF FifoStaged
  <2> QED BY <1>0, <2>1, <1>p DEF FifoStaged
<1>d. /\ Dead(p) <=> \/ state[e] = "sync"
                     \/ state[p] = "sync" /\ (state[e] = "ack" \/ pc[e] \in Clearing)
      /\ Dead(e) <=> \/ state[p] = "sync"
                     \/ state[e] = "sync" /\ (state[p] = "ack" \/ pc[p] \in Clearing)
      /\ Dead(p)' <=> \/ state'[e] = "sync"
                      \/ state[p] = "sync" /\ (state'[e] = "ack" \/ pc'[e] \in Clearing)
      /\ Dead(e)' <=> \/ state[p] = "sync"
                      \/ state'[e] = "sync" /\ (state[p] = "ack" \/ pc[p] \in Clearing)
  BY <1>0, <1>p DEF Dead
<1>c. \A x \in Endpoints :
        (w_count'[x] = w_count[x] /\ r_count'[x] = r_count[x]
           /\ r_pos'[Peer(x)] = r_pos[Peer(x)]) => Content(x)' = Content(x)
  BY <1>0 DEF Content, Avail
\* it is enough to say so of either ring
<1>r. ASSUME ~Dead(e) /\ ~Dead(e)' => Content(e)' = Content(e),
             ~Dead(p) /\ ~Dead(p)' => Content(p)' = Content(p),
             Dead(e) /\ ~Dead(e)' => Content(e)' = <<>>,
             Dead(p) /\ ~Dead(p)' => Content(p)' = <<>>,
             \/ (Dead(e)' <=> Dead(e)) /\ (Dead(p)' <=> Dead(p))
             \/ "sync" \in {state[e], state[p], state'[e]}
      PROVE  Fifo!Resync
  BY <1>r, <1>s, <1>p, ResyncStep
<1>1. CASE \/ WriteCheck(e) \/ WriteRefused(e) \/ WriteNotify(e)
           \/ ReadCheck(e) \/ ReadRefused(e) \/ ReadNotify(e)
           \/ StateNotify(e) \/ TakeBell(e) \/ Poll(e)
  <2>1. /\ UNCHANGED <<w_count, r_count, r_pos, state>>
        /\ pc[e] \notin Clearing /\ pc'[e] \notin Clearing
    BY <1>1, <1>t
       DEF WriteCheck, WriteRefused, WriteNotify, ReadCheck, ReadRefused,
           ReadNotify, StateNotify, TakeBell, Poll, Goto, shared, Clearing
  <2> QED BY <2>1, <1>r, <1>d, <1>c, <1>p
<1>2. CASE NotifiedSample(e)
  <2>1. /\ UNCHANGED <<w_count, r_count, r_pos, state>>
        /\ pc[e] \notin Clearing
    BY <1>2, <1>t DEF NotifiedSample, Goto, shared, Clearing
  <2> QED BY <2>1, <1>r, <1>d, <1>c, <1>p
<1>3. CASE NotifiedClearW(e) \/ NotifiedClearR(e)
  <2>1. /\ UNCHANGED state /\ pc[e] \in Clearing /\ pc'[e] \in Clearing
        /\ w_count'[p] = w_count[p] /\ r_count'[e] = r_count[e]
    BY <1>3, <1>p, <1>t DEF NotifiedClearW, NotifiedClearR, Goto, Clearing
  <2>2. CASE state[e] = "ack"
    <3>1. UNCHANGED <<w_count, r_count, r_pos>>
      BY <1>3, <2>2, <1>i, <1>t, <1>p
         DEF Counters, Cleared, NotifiedClearW, NotifiedClearR
    <3> QED BY <2>1, <3>1, <1>r, <1>d, <1>c, <1>p
  <2>3. CASE state[e] # "ack"
    <3>1. Dead(e) /\ Dead(p)
      BY <2>1, <2>3, <1>d, <1>i, <1>p, <1>t DEF Handshake, EstClearing, States
    <3> QED BY <2>1, <3>1, <1>r, <1>d
  <2> QED BY <2>2, <2>3
<1>4. CASE NotifiedState(e)
  <2>1. /\ pc[e] = "n_state" /\ pc'[e] \notin Clearing
        /\ state'[e] = IF peer[e] = "sync" THEN "ack" ELSE "established"
        /\ UNCHANGED <<w_count, r_count, r_pos, w_pos>>
    BY <1>4, <1>t DEF NotifiedState, Goto, Clearing
  <2>2. /\ w_count[e] = 0 /\ r_count[p] = 0
        /\ state[p] = "ack" => w_count[p] = 0 /\ r_count[e] = 0
    BY <2>1, <1>i, <1>p DEF Counters, Cleared
  <2>3. state[p] = "ack" => Content(e)' = <<>> /\ Content(p)' = <<>>
    <3> SUFFICES ASSUME state[p] = "ack"
                 PROVE  Content(e)' = <<>> /\ Content(p)' = <<>>
      OBVIOUS
    <3>1. Avail(e)' = 0 /\ Avail(p)' = 0
      BY <2>1, <2>2, CountModAssumption DEF Avail, CountSub
    <3>2. /\ FrameSeq(frame[e], r_pos[p], 0) = <<>>
          /\ FrameSeq(frame[p], r_pos[e], 0) = <<>>
      BY <1>t, <1>p, NoFrames
    <3> QED BY <3>1, <3>2, <2>1, <1>0, <1>p, ContentFacts
  <2>4. peer[e] # "sync" => /\ state[p] # "sync"
                            /\ state[e] = "sync" => state[p] = "ack"
    BY <2>1, <1>i, <1>p DEF Handshake, Establishing, Clearing
  <2>5. state[e] = "sync" => state[p] \in {"sync", "ack"}
    BY <2>1, <1>i, <1>p DEF Handshake, Clearing
  <2>6. state[e] = "established" => state[p] = "sync" /\ peer[e] = "sync"
    BY <2>1, <1>i, <1>p DEF Handshake, EstClearing, Clearing
  <2>7. CASE state[e] = "sync"
    <3>1. CASE state[p] = "sync"
      BY <2>1, <2>4, <2>7, <3>1, <1>r, <1>d
    <3>2. CASE state[p] = "ack"
      BY <2>1, <2>3, <2>7, <3>2, <1>r, <1>d
    <3> QED BY <3>1, <3>2, <2>5, <2>7
  <2>8. CASE state[e] # "sync"
    <3>1. (Dead(e)' <=> Dead(e)) /\ (Dead(p)' <=> Dead(p))
      BY <2>1, <2>4, <2>6, <2>8, <1>d, <1>t, <1>p DEF States, Clearing
    <3> QED BY <3>1, <2>1, <1>r, <1>c, <1>p
  <2> QED BY <2>7, <2>8
<1>5. CASE ChannelReset(e) \/ Connect(e)
  <2>1. /\ UNCHANGED <<w_count, r_count>> /\ state'[e] = "sync"
    BY <1>5, <1>t DEF ChannelReset, Connect, Reset
  <2>2. Dead(p)' /\ (Dead(e) => Dead(e)')
    BY <2>1, <1>d
  <2>3. Content(e)' = Content(e)
    BY <2>1, <1>0, <1>c, <1>p
  <2> QED BY <2>1, <2>2, <2>3, <1>r
<1>6. CASE ChannelSync(e) /\ (state[e] = "sync" \/ UNCHANGED <<w_pos, r_pos>>)
  <2>1. /\ UNCHANGED <<w_count, r_count, state, pc>>
    BY <1>6 DEF ChannelSync, shared
  <2>2. CASE UNCHANGED r_pos
    BY <2>1, <2>2, <1>r, <1>d, <1>c, <1>p
  <2>3. CASE state[e] = "sync"
    <3>1. Content(e)' = Content(e)
      BY <2>1, <1>0, <1>c, <1>p
    <3>2. Dead(p) /\ Dead(p)' /\ (Dead(e)' <=> Dead(e))
      BY <2>1, <2>3, <1>d
    <3> QED BY <3>1, <3>2, <1>r
  <2> QED BY <1>6, <2>2, <2>3
<1> QED BY <1>1, <1>2, <1>3, <1>4, <1>5, <1>6 DEF Notified

LEMMA FifoInit == Init => Fifo!Init
<1> SUFFICES ASSUME Init PROVE Fifo!Init
  OBVIOUS
<1>1. ASSUME NEW e \in Endpoints PROVE ~Dead(e) /\ Content(e) = <<>>
  <2>1. Avail(e) = 0 /\ ~Dead(e)
    BY PeerFacts, CountModAssumption DEF Init, Avail, CountSub, Dead
  <2>2. frame[e] \in [Frames -> Frame] /\ r_pos[Peer(e)] \in Frames
    BY TypeInit, PeerFacts DEF TypeOK, Frame
  <2> QED BY <2>1, <2>2, ContentFacts, NoFrames
<1> QED BY <1>1 DEF Fifo!Init, Init

LEMMA FifoStep ==
  ASSUME FrameInv, ~OverlapResets, [Next]_vars
  PROVE  [Fifo!Next]_(Fifo!vars)
<1>1. CASE UNCHANGED vars
  BY <1>1 DEF vars, Fifo!vars, Dead, Content, Avail
<1>2. ASSUME NEW e \in Endpoints,
             \/ Write(e) \/ Read(e) \/ Notified(e)
             \/ ChannelReset(e) \/ Connect(e) \/ TakeBell(e) \/ Poll(e)
      PROVE  Fifo!Next
  <2>1. CASE \E m \in Msg : WriteFrame(e, m)
    BY <2>1, StageStep DEF Fifo!Next
  <2>2. CASE WriteAdvance(e)
    BY <2>2, SendStep DEF Fifo!Next
  <2>3. CASE ReadFrame(e)
    BY <2>3, LookStep DEF Fifo!Next
  <2>4. CASE ReadAdvance(e)
    BY <2>4, RemoveStep DEF Fifo!Next
  <2>5. CASE \/ WriteCheck(e) \/ WriteRefused(e) \/ WriteNotify(e)
             \/ ReadCheck(e) \/ ReadRefused(e) \/ ReadNotify(e)
             \/ Notified(e)
             \/ ChannelReset(e) \/ Connect(e) \/ TakeBell(e) \/ Poll(e)
    BY <2>5, OtherStep DEF Fifo!Next, FrameInv
  <2> QED BY <1>2, <2>1, <2>2, <2>3, <2>4, <2>5 DEF Write, Read
<1> QED BY <1>1, <1>2 DEF Next

LEMMA FrameInvInit == Init => FrameInv
  BY InvInit DEF Init, FrameInv, FrameOK

LEMMA FrameInvStep ==
  ASSUME FrameInv, ~OverlapResets, [Next]_vars
  PROVE  FrameInv'
<1>1. CASE UNCHANGED vars
  BY <1>1, InvStep DEF vars, FrameInv, FrameOK
<1>2. ASSUME NEW e \in Endpoints,
             \/ Write(e) \/ Read(e) \/ Notified(e)
             \/ ChannelReset(e) \/ Connect(e) \/ TakeBell(e) \/ Poll(e)
      PROVE  FrameInv'
  <2>1. FrameOK(e)' /\ FrameOK(Peer(e))'
    BY <1>2, FrameStep
  <2>2. Inv'
    BY <1>2, InvStep DEF FrameInv, Next
  <2> QED BY <2>1, <2>2, PeerFacts DEF FrameInv
<1> QED BY <1>1, <1>2 DEF Next

\* Whatever the two ends do, step by step and interleaved, and however often
\* they reset the channel, each direction is a FIFO of NFrames frames: no
\* frame is lost, repeated, torn or overtaken but by a reset, which takes all
\* of them (tegra_ivc_write, tegra_ivc_read, tegra_ivc_channel_notified).
THEOREM ImplementsFifoTheorem ==
  ASSUME ~OverlapResets PROVE Spec => ImplementsFifo
<1>1. Init => Fifo!Init
  BY FifoInit
<1>2. FrameInv /\ [Next]_vars => FrameInv' /\ [Fifo!Next]_(Fifo!vars)
  BY FrameInvStep, FifoStep
<1> QED BY <1>1, <1>2, FrameInvInit, PTL DEF Spec, ImplementsFifo, Fifo!Spec

\* The same with clients that start over from the counters.
THEOREM StartingOverImplementsFifo ==
  ASSUME ~OverlapResets, CountMod % NFrames = 0
  PROVE  SyncSpec => ImplementsFifo
<1> DEFINE I == SyncInv /\ FrameInv
           N == Next \/ \E e \in Endpoints : ChannelSync(e)
<1>1. Init => FrameInv /\ Fifo!Init
  BY FifoInit, FrameInvInit
<1>2. ASSUME SyncInv, FrameInv, SyncInv', [N]_vars
      PROVE  FrameInv' /\ [Fifo!Next]_(Fifo!vars)
  <2>1. CASE [Next]_vars
    BY <1>2, <2>1, FrameInvStep, FifoStep
  <2>2. ASSUME NEW e \in Endpoints, ChannelSync(e)
        PROVE  FrameInv' /\ Fifo!Next
    <3>1. FrameOK(e)' /\ FrameOK(Peer(e))'
      BY <1>2, <2>2, FrameStep
    <3>2. FrameInv'
      BY <1>2, <3>1, PeerFacts DEF FrameInv, SyncInv, WakeInv
    <3>3. state[e] = "sync" \/ UNCHANGED <<w_pos, r_pos>>
      <4> SUFFICES ASSUME state[e] # "sync" PROVE UNCHANGED <<w_pos, r_pos>>
        OBVIOUS
      <4>1. Aligned(e) /\ pc[e] = "idle"
        BY <1>2, <2>2 DEF SyncInv, ChannelSync
      <4>2. /\ w_pos \in [Endpoints -> Frames] /\ r_pos \in [Endpoints -> Frames]
        BY <1>2 DEF FrameInv, Inv, TypeOK
      <4> QED BY <2>2, <4>1, <4>2 DEF Aligned, ChannelSync
    <3>4. Fifo!Resync
      BY <1>2, <2>2, <3>3, OtherStep DEF FrameInv
    <3> QED BY <3>2, <3>4 DEF Fifo!Next
  <2> QED BY <1>2, <2>1, <2>2
<1>3. SyncSpec => []SyncInv
  BY SyncInvAlways
<1> QED BY <1>1, <1>2, <1>3, PTL DEF SyncSpec, ImplementsFifo, Fifo!Spec
=============================================================================
