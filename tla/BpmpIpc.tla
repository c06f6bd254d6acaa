------------------------------ MODULE BpmpIpc ------------------------------
(***************************************************************************)
(* Requests of the CPU to the BPMP firmware: tegrabl_ccplex_bpmp_xfer of   *)
(* tegrabl_bpmp_fw_interface.c over one IVC channel of one frame each way. *)
(* The channel is the pair of FIFOs that Ivc was shown to implement; the   *)
(* firmware (not in this repository) takes a request, works on it and      *)
(* answers it once, in its own time.  A request is known by its number.    *)
(***************************************************************************)
EXTENDS Integers, SequencesExt, FiniteSets

CONSTANTS MaxXfers,  \* calls of tegrabl_ccplex_bpmp_xfer in a behaviour
          MaxPolls   \* polls before a call gives up (10^6 in the code)

ASSUME XfersAssumption == MaxXfers \in Nat
ASSUME PollsAssumption == MaxPolls \in Nat \ {0}

NFrames == 1

Xfers == 1 .. MaxXfers

VARIABLES out,      \* ring from CPU to BPMP: requests not yet taken
          in,       \* ring from BPMP to CPU: answers not yet freed
          serving,  \* the request the firmware works on, 0 when none
          pc,       \* the caller: "idle", "poll" or "copy"
          xfers,    \* number of the current (or last) call
          timeout,  \* polls left to it
          result    \* result[n]: what call n returned

vars == <<out, in, serving, pc, xfers, timeout, result>>

\* the call has not returned, has had no answer in time, or found no frame to
\* write its request to
Pending == 0
TimedOut == -1
NoFrame == -2

TypeOK ==
  /\ out \in SeqOf(Xfers, NFrames)
  /\ in \in SeqOf(Xfers, NFrames)
  /\ serving \in 0 .. MaxXfers
  /\ pc \in {"idle", "poll", "copy"}
  /\ xfers \in 0 .. MaxXfers
  /\ timeout \in 0 .. MaxPolls
  /\ result \in [Xfers -> Xfers \cup {Pending, TimedOut, NoFrame}]

Init ==
  /\ out = <<>> /\ in = <<>> /\ serving = 0
  /\ pc = "idle" /\ xfers = 0 /\ timeout = 0
  /\ result = [n \in Xfers |-> Pending]

Return(n, r) == result' = [result EXCEPT ![n] = r]

(***************************************************************************)
(* The CPU: get_next_out_frame and signal_slave, then the polls of         *)
(* wait_for_slave_ack, then get_cur_in_frame and free_master.              *)
(***************************************************************************)
XferRefused ==
  /\ pc = "idle" /\ xfers < MaxXfers
  /\ Len(out) = NFrames
  /\ xfers' = xfers + 1
  /\ Return(xfers + 1, NoFrame)
  /\ UNCHANGED <<out, in, serving, pc, timeout>>

\* mutant: does not ask for room in the ring
XferSendBlind ==
  /\ pc = "idle" /\ xfers < MaxXfers
  /\ xfers' = xfers + 1
  /\ out' = Append(out, xfers + 1)
  /\ timeout' = MaxPolls
  /\ pc' = "poll"
  /\ UNCHANGED <<in, serving, result>>

XferSend ==
  /\ pc = "idle" /\ xfers < MaxXfers
  /\ Len(out) < NFrames
  /\ xfers' = xfers + 1
  /\ out' = Append(out, xfers + 1)
  /\ timeout' = MaxPolls
  /\ pc' = "poll"
  /\ UNCHANGED <<in, serving, result>>

SlaveAcked ==
  /\ pc = "poll"
  /\ in # <<>>
  /\ pc' = "copy"
  /\ UNCHANGED <<out, in, serving, xfers, timeout, result>>

\* mutant: gives up and takes the request back out of the ring
PollEmptyRecall ==
  /\ pc = "poll"
  /\ in = <<>>
  /\ timeout' = timeout - 1
  /\ IF timeout = 1
       THEN pc' = "idle" /\ Return(xfers, TimedOut) /\ out' = <<>>
       ELSE UNCHANGED <<pc, result, out>>
  /\ UNCHANGED <<in, serving, xfers>>

\* mutant: the polls are not counted
PollEmptyForever ==
  /\ pc = "poll"
  /\ in = <<>>
  /\ UNCHANGED vars

\* one empty poll; the last one gives up and leaves the channel as it is
PollEmpty ==
  /\ pc = "poll"
  /\ in = <<>>
  /\ timeout' = timeout - 1
  /\ IF timeout = 1
       THEN pc' = "idle" /\ Return(xfers, TimedOut)
       ELSE UNCHANGED <<pc, result>>
  /\ UNCHANGED <<out, in, serving, xfers>>

\* mutant: the answer is not freed
CopyAnswerKept ==
  /\ pc = "copy"
  /\ Return(xfers, Head(in))
  /\ pc' = "idle"
  /\ UNCHANGED <<out, in, serving, xfers, timeout>>

CopyAnswer ==
  /\ pc = "copy"
  /\ Return(xfers, Head(in))
  /\ in' = Tail(in)
  /\ pc' = "idle"
  /\ UNCHANGED <<out, serving, xfers, timeout>>

(***************************************************************************)
(* The firmware.                                                           *)
(***************************************************************************)
BpmpTake ==
  /\ serving = 0
  /\ out # <<>>
  /\ serving' = Head(out)
  /\ out' = Tail(out)
  /\ UNCHANGED <<in, pc, xfers, timeout, result>>

BpmpAnswer ==
  /\ serving # 0
  /\ Len(in) < NFrames
  /\ in' = Append(in, serving)
  /\ serving' = 0
  /\ UNCHANGED <<out, pc, xfers, timeout, result>>

Next ==
  \/ XferRefused \/ XferSend \/ SlaveAcked \/ PollEmpty \/ CopyAnswer
  \/ BpmpTake \/ BpmpAnswer

Spec == Init /\ [][Next]_vars

\* the caller runs on; nothing is assumed of the firmware
FairSpec == Spec /\ WF_vars(SlaveAcked \/ PollEmpty \/ CopyAnswer)

-----------------------------------------------------------------------------
\* tegrabl_ccplex_bpmp_xfer is an "Atomic send/receive API, which means it
\* waits until slave acks" (lines 380-382): the answer a successful call hands
\* to its caller is the answer to that call's own request.
OwnAnswer == \A n \in Xfers : result[n] \in Xfers => result[n] = n

\* Whatever times out, an answer is handed out once, in the order the requests
\* were made, and never before its request; until a call times out it is the
\* answer to the caller's own request.
AnswersInOrder ==
  \A m, n \in Xfers :
    /\ result[n] \in Xfers => result[n] <= n
    /\ (m < n /\ result[m] \in Xfers /\ result[n] \in Xfers) =>
          result[m] < result[n]
    /\ (result[n] \in Xfers /\ \A k \in 1 .. n : result[k] # TimedOut) =>
          result[n] = n

\* Answers owed or waiting in the channel when no call is under way
Backlog == Len(out) + Len(in) + (IF serving = 0 THEN 0 ELSE 1)

\* The channel never forgets: every call that timed out leaves one request or
\* answer behind, which only the answer of another call can make up for.
BacklogIsTimeouts ==
  Backlog = Cardinality({n \in Xfers : result[n] = TimedOut})
            + (IF pc = "idle" THEN 0 ELSE 1)

\* Every call of tegrabl_ccplex_bpmp_xfer returns: firmware that never answers
\* does not hang it (the bounded polls of tegrabl_ivc_wait_for_slave_ack).
EveryXferReturns ==
  \A n \in Xfers : xfers = n ~> result[n] # Pending
=============================================================================
