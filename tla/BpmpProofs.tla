---------------------------- MODULE BpmpProofs -----------------------------
(***************************************************************************)
(* Safety of the transfers to the BPMP for every number of calls and every *)
(* bound on the polls of a call.                                           *)
(***************************************************************************)
EXTENDS BpmpIpc, FiniteSetTheorems, SequenceTheorems, TLAPS

(***************************************************************************)
(* The inductive invariant.  Numbered: what is in the channel was asked    *)
(* for, and the calls from the present one on have no result yet.          *)
(* Ordered: answers handed out are older than an answer waiting, which is  *)
(* older than the request being served, which is older than the request    *)
(* not taken.  Untimed: while no call timed out, the channel holds at most *)
(* the request or answer of the present call.                              *)
(***************************************************************************)
Numbered ==
  /\ in # <<>> => in[1] <= xfers
  /\ out # <<>> => out[1] <= xfers
  /\ serving <= xfers
  /\ \A n \in Xfers : n > xfers => result[n] = Pending
  /\ pc # "idle" => xfers \in Xfers /\ result[xfers] = Pending
  /\ pc = "poll" => timeout > 0
  /\ pc = "copy" => in # <<>>

HandedOut == {n \in Xfers : result[n] \in Xfers}

Ordered ==
  /\ in # <<>> =>
       /\ \A n \in HandedOut : result[n] < in[1]
       /\ serving # 0 => in[1] < serving
       /\ out # <<>> => in[1] < out[1]
  /\ serving # 0 =>
       /\ \A n \in HandedOut : result[n] < serving
       /\ out # <<>> => serving < out[1]
  /\ out # <<>> => \A n \in HandedOut : result[n] < out[1]

Untimed ==
  (\A k \in 1 .. xfers : result[k] # TimedOut) =>
    /\ in # <<>> => pc # "idle" /\ in[1] = xfers
    /\ out # <<>> => pc # "idle" /\ out[1] = xfers
    /\ serving # 0 => pc # "idle" /\ serving = xfers

Inv == TypeOK /\ Numbered /\ Ordered /\ Untimed /\ AnswersInOrder /\ BacklogIsTimeouts


-----------------------------------------------------------------------------
\* A ring of one frame: what it holds, and what Append, Head and Tail do to it.
LEMMA RingFacts ==
  ASSUME NEW s \in SeqOf(Xfers, NFrames)
  PROVE  /\ s \in Seq(Xfers)
         /\ s = <<>> <=> Len(s) = 0
         /\ s # <<>> => /\ Len(s) = 1
                        /\ s[1] \in Xfers
                        /\ Head(s) = s[1]
                        /\ Tail(s) = <<>>
         /\ Len(s) < NFrames => s = <<>>
         /\ \A x \in Xfers : /\ Append(<<>>, x) \in SeqOf(Xfers, NFrames)
                             /\ Append(<<>>, x) = <<x>>
         /\ <<>> \in SeqOf(Xfers, NFrames)
<1>1. PICK m \in 0 .. NFrames : s \in [1 .. m -> Xfers]
  BY DEF SeqOf
<1>2. s \in Seq(Xfers) /\ Len(s) = m
  BY <1>1 DEF NFrames
<1>3. s = <<>> <=> Len(s) = 0
  BY <1>2
<1>4. ASSUME s # <<>>
      PROVE  Len(s) = 1 /\ s[1] \in Xfers /\ Head(s) = s[1] /\ Tail(s) = <<>>
  <2>1. Len(s) = 1
    BY <1>1, <1>2, <1>3, <1>4 DEF NFrames
  <2>2. Tail(s) \in Seq(Xfers) /\ Len(Tail(s)) = 0
    BY <1>2, <1>4, <2>1, HeadTailProperties
  <2>3. s[1] \in Xfers
    BY <1>1, <1>2, <2>1
  <2>4. Head(s) = s[1]
    BY <1>2, <1>4
  <2>5. Tail(s) = <<>>
    BY <2>2, EmptySeq
  <2> QED BY <2>1, <2>3, <2>4, <2>5
<1>5. \A x \in Xfers : <<x>> \in [1 .. 1 -> Xfers] /\ Append(<<>>, x) = <<x>>
  OBVIOUS
<1>6. <<>> \in [1 .. 0 -> Xfers]
  OBVIOUS
<1> QED BY <1>2, <1>3, <1>4, <1>5, <1>6 DEF SeqOf, NFrames

LEMMA XfersFacts ==
  /\ Xfers \subseteq Nat \ {0}
  /\ 0 .. MaxXfers \subseteq Nat
  /\ Pending \notin Xfers /\ TimedOut \notin Xfers /\ NoFrame \notin Xfers
  /\ Pending # TimedOut /\ NoFrame # TimedOut
  BY XfersAssumption DEF Xfers, Pending, TimedOut, NoFrame

\* the calls that timed out
Late == {n \in Xfers : result[n] = TimedOut}

LEMMA LateFinite == IsFiniteSet(Late) /\ Cardinality(Late) \in Nat
<1>1. IsFiniteSet(Xfers)
  BY XfersAssumption, FS_Interval DEF Xfers
<1>2. Late \subseteq Xfers
  BY DEF Late
<1> QED BY <1>1, <1>2, FS_Subset, FS_CardinalityType

LEMMA InitInv == Init => Inv
<1> SUFFICES ASSUME Init PROVE Inv
  OBVIOUS
<1>1. <<>> \in SeqOf(Xfers, NFrames) /\ Len(<<>>) = 0
  BY DEF SeqOf, NFrames
<1>2. TypeOK
  BY <1>1, XfersAssumption, PollsAssumption DEF Init, TypeOK
<1>3. Numbered /\ Ordered /\ Untimed /\ AnswersInOrder
  BY XfersFacts DEF Init, Numbered, Ordered, Untimed, AnswersInOrder, HandedOut
<1>4. Late = {}
  BY XfersFacts DEF Init, Late
<1>5. Cardinality(Late) = 0
  BY <1>4, FS_EmptySet
<1>6. BacklogIsTimeouts
  BY <1>1, <1>5 DEF Init, BacklogIsTimeouts, Backlog, Late
<1> QED BY <1>2, <1>3, <1>6 DEF Inv

LEMMA NumberFacts ==
  ASSUME TypeOK
  PROVE  /\ xfers \in Nat /\ serving \in Nat /\ timeout \in Nat
         /\ \A n \in Xfers : n \in Nat
         /\ in # <<>> => in[1] \in Xfers /\ in[1] \in Nat
         /\ out # <<>> => out[1] \in Xfers /\ out[1] \in Nat
         /\ serving # 0 => serving \in Xfers
         /\ DOMAIN result = Xfers
<1>1. \A n \in Xfers : n \in Nat
  BY XfersAssumption DEF Xfers
<1>2. /\ in # <<>> => in[1] \in Xfers
      /\ out # <<>> => out[1] \in Xfers
  BY RingFacts DEF TypeOK
<1>3. xfers \in Nat /\ serving \in Nat /\ timeout \in Nat
  BY XfersAssumption, PollsAssumption DEF TypeOK
<1>4. serving # 0 => serving \in Xfers
  BY XfersAssumption DEF TypeOK, Xfers
<1> QED BY <1>1, <1>2, <1>3, <1>4 DEF TypeOK

-----------------------------------------------------------------------------
\* What the steps do to rings of one frame each.
LEMMA Effects ==
  ASSUME TypeOK, Numbered, Next
  PROVE  /\ XferRefused => Len(out) = 1
         /\ XferSend => out = <<>> /\ out' = <<xfers + 1>> /\ xfers + 1 \in Xfers
         /\ CopyAnswer => /\ in # <<>> /\ in' = <<>> /\ xfers \in Xfers
                          /\ result' = [result EXCEPT ![xfers] = in[1]]
         /\ BpmpTake => out # <<>> /\ out' = <<>> /\ serving' = out[1]
         /\ BpmpAnswer => in = <<>> /\ in' = <<serving>>
<1>1. /\ out \in SeqOf(Xfers, NFrames)
      /\ in \in SeqOf(Xfers, NFrames)
  BY DEF TypeOK
<1>2. ASSUME XferRefused PROVE Len(out) = 1
  BY <1>2 DEF XferRefused, NFrames
<1>3. ASSUME XferSend
      PROVE  out = <<>> /\ out' = <<xfers + 1>> /\ xfers + 1 \in Xfers
  <2>1. xfers + 1 \in Xfers
    BY <1>3, XfersAssumption DEF XferSend, TypeOK, Xfers
  <2> QED BY <1>1, <1>3, <2>1, RingFacts DEF XferSend
<1>4. ASSUME CopyAnswer
      PROVE  /\ in # <<>> /\ in' = <<>> /\ xfers \in Xfers
             /\ result' = [result EXCEPT ![xfers] = in[1]]
  BY <1>1, <1>4, RingFacts DEF CopyAnswer, Return, Numbered
<1>5. ASSUME BpmpTake PROVE out # <<>> /\ out' = <<>> /\ serving' = out[1]
  BY <1>1, <1>5, RingFacts DEF BpmpTake
<1>6. ASSUME BpmpAnswer PROVE in = <<>> /\ in' = <<serving>>
  <2>1. serving \in Xfers
    BY <1>6, XfersAssumption DEF BpmpAnswer, TypeOK, Xfers
  <2> QED BY <1>1, <1>6, <2>1, RingFacts DEF BpmpAnswer
<1> QED BY <1>2, <1>3, <1>4, <1>5, <1>6

LEMMA TypeStep ==
  ASSUME TypeOK, Numbered, Next
  PROVE  TypeOK'
<1>0. /\ \A x \in Xfers : <<x>> \in SeqOf(Xfers, NFrames)
      /\ <<>> \in SeqOf(Xfers, NFrames)
      /\ in # <<>> => in[1] \in Xfers
      /\ out # <<>> => out[1] \in Xfers
  BY RingFacts DEF TypeOK
<1> USE DEF TypeOK
<1>1. CASE XferRefused
  <2>1. xfers + 1 \in Xfers
    BY <1>1, XfersAssumption DEF XferRefused, Xfers
  <2> QED BY <1>1, <2>1, XfersAssumption DEF XferRefused, Return, Xfers
<1>2. CASE XferSend
  <2>1. xfers + 1 \in Xfers /\ out' = <<xfers + 1>>
    BY <1>2, Effects
  <2>2. xfers + 1 \in 0 .. MaxXfers /\ MaxPolls \in 0 .. MaxPolls
    BY <2>1, PollsAssumption DEF Xfers
  <2> QED BY <1>0, <1>2, <2>1, <2>2 DEF XferSend
<1>3. CASE SlaveAcked
  BY <1>3 DEF SlaveAcked
<1>4. CASE PollEmpty
  <2>1. timeout - 1 \in 0 .. MaxPolls
    BY <1>4, PollsAssumption DEF PollEmpty, Numbered
  <2> QED BY <1>4, <2>1 DEF PollEmpty, Return
<1>5. CASE CopyAnswer
  BY <1>0, <1>5, Effects DEF CopyAnswer
<1>6. CASE BpmpTake
  <2>1. out # <<>> /\ out' = <<>> /\ serving' = out[1]
    BY <1>6, Effects
  <2>2. serving' \in 0 .. MaxXfers
    BY <1>0, <2>1 DEF Xfers
  <2> QED BY <1>0, <1>6, <2>1, <2>2 DEF BpmpTake
<1>7. CASE BpmpAnswer
  <2>1. serving \in Xfers
    BY <1>7, XfersAssumption DEF BpmpAnswer, Xfers
  <2>2. in' = <<serving>> /\ 0 \in 0 .. MaxXfers
    BY <1>7, Effects, XfersAssumption
  <2> QED BY <1>0, <1>7, <2>1, <2>2 DEF BpmpAnswer
<1> QED BY <1>1, <1>2, <1>3, <1>4, <1>5, <1>6, <1>7 DEF Next

LEMMA NumberedStep ==
  ASSUME TypeOK, Numbered, Next
  PROVE  Numbered'
<1> USE DEF Numbered
<1>0. /\ xfers \in Nat /\ serving \in Nat /\ timeout \in Nat
      /\ \A n \in Xfers : n \in Nat
      /\ in # <<>> => in[1] \in Nat
      /\ out # <<>> => out[1] \in Nat
      /\ DOMAIN result = Xfers
  BY NumberFacts
<1>1. CASE XferRefused
  BY <1>0, <1>1 DEF XferRefused, Return
<1>2. CASE XferSend
  <2>1. out' = <<xfers + 1>> /\ xfers + 1 \in Xfers
    BY <1>2, Effects
  <2>2. result[xfers + 1] = Pending
    BY <1>0, <2>1
  <2> QED BY <1>0, <1>2, <2>1, <2>2, PollsAssumption DEF XferSend
<1>3. CASE SlaveAcked
  BY <1>3 DEF SlaveAcked
<1>4. CASE PollEmpty
  BY <1>0, <1>4 DEF PollEmpty, Return
<1>5. CASE CopyAnswer
  BY <1>0, <1>5, Effects DEF CopyAnswer
<1>6. CASE BpmpTake
  BY <1>0, <1>6, Effects DEF BpmpTake
<1>7. CASE BpmpAnswer
  BY <1>0, <1>7, Effects DEF BpmpAnswer
<1> QED BY <1>1, <1>2, <1>3, <1>4, <1>5, <1>6, <1>7 DEF Next

LEMMA OrderedStep ==
  ASSUME TypeOK, Numbered, Ordered, AnswersInOrder, Next
  PROVE  Ordered'
<1> USE DEF Ordered, HandedOut
<1>0. /\ xfers \in Nat /\ serving \in Nat
      /\ \A n \in Xfers : n \in Nat
      /\ in # <<>> => in[1] \in Xfers
      /\ out # <<>> => out[1] \in Xfers
      /\ serving # 0 => serving \in Xfers
      /\ DOMAIN result = Xfers
      /\ NoFrame \notin Xfers /\ TimedOut \notin Xfers
  BY NumberFacts, XfersFacts
<1>1. CASE XferRefused
  BY <1>0, <1>1 DEF XferRefused, Return
<1>2. CASE XferSend
  <2>1. out = <<>> /\ out' = <<xfers + 1>> /\ xfers + 1 \in Xfers
    BY <1>2, Effects
  <2>2. \A n \in HandedOut : n <= xfers
    BY <1>0, XfersFacts DEF Numbered
  <2>3. \A n \in HandedOut : result[n] <= n
    BY DEF AnswersInOrder
  <2>4. \A n \in HandedOut : result[n] < xfers + 1
    BY <1>0, <2>2, <2>3
  <2>5. /\ serving < xfers + 1
        /\ in # <<>> => in[1] < xfers + 1
    BY <1>0, NumberFacts DEF Numbered
  <2> QED BY <1>0, <1>2, <2>1, <2>4, <2>5 DEF XferSend
<1>3. CASE SlaveAcked
  BY <1>3 DEF SlaveAcked
<1>4. CASE PollEmpty
  BY <1>0, <1>4 DEF PollEmpty, Return
<1>5. CASE CopyAnswer
  BY <1>0, <1>5, Effects DEF CopyAnswer
<1>6. CASE BpmpTake
  BY <1>0, <1>6, Effects DEF BpmpTake
<1>7. CASE BpmpAnswer
  BY <1>0, <1>7, Effects DEF BpmpAnswer
<1> QED BY <1>1, <1>2, <1>3, <1>4, <1>5, <1>6, <1>7 DEF Next

LEMMA UntimedStep ==
  ASSUME TypeOK, Numbered, Ordered, Untimed, Next
  PROVE  Untimed'
<1> DEFINE Quiet == \A k \in 1 .. xfers : result[k] # TimedOut
<1> USE DEF Untimed
<1>0. /\ xfers \in Nat
      /\ \A n \in Xfers : n \in Nat \ {0}
      /\ \A n \in 1 .. MaxXfers : n \in Xfers
      /\ in # <<>> => in[1] \in Xfers
      /\ out # <<>> => out[1] \in Xfers
      /\ DOMAIN result = Xfers
      /\ TimedOut \notin Xfers /\ NoFrame # TimedOut
  BY NumberFacts, XfersFacts DEF Xfers
<1>1. CASE XferRefused
  <2>1. Quiet' => Quiet
    BY <1>0, <1>1 DEF XferRefused, Return
  <2>2. out # <<>>
    BY SMTT(30), <1>1, RingFacts DEF XferRefused, NFrames, TypeOK
  <2> QED BY <1>1, <2>1, <2>2 DEF XferRefused
<1>2. CASE XferSend
  <2>1. Quiet' => Quiet
    BY <1>0, <1>2 DEF XferSend
  <2>2. out' = <<xfers + 1>>
    BY <1>2, Effects
  <2> QED BY <1>0, <1>2, <2>1, <2>2 DEF XferSend
<1>3. CASE SlaveAcked
  BY <1>3 DEF SlaveAcked
<1>4. CASE PollEmpty
  <2>1. CASE timeout = 1
    <3>1. xfers \in Xfers /\ xfers \in 1 .. xfers
      BY <1>0, <1>4 DEF PollEmpty, Numbered
    <3>2. ~Quiet'
      BY <1>0, <1>4, <2>1, <3>1 DEF PollEmpty, Return
    <3> QED BY <3>2
  <2>2. CASE timeout # 1
    BY <1>4, <2>2 DEF PollEmpty
  <2> QED BY <2>1, <2>2
<1>5. CASE CopyAnswer
  <2>1. /\ in # <<>> /\ in' = <<>> /\ xfers \in Xfers
        /\ result' = [result EXCEPT ![xfers] = in[1]]
    BY <1>5, Effects
  <2>2. Quiet' => Quiet
    BY <1>0, <1>5, <2>1, XfersFacts DEF CopyAnswer, Numbered
  <2>3. Quiet => out = <<>> /\ serving = 0
    BY <1>0, <2>1 DEF Ordered
  <2> QED BY <1>5, <2>1, <2>2, <2>3 DEF CopyAnswer
<1>6. CASE BpmpTake
  BY <1>0, <1>6, Effects DEF BpmpTake
<1>7. CASE BpmpAnswer
  BY <1>0, <1>7, Effects DEF BpmpAnswer
<1> QED BY <1>1, <1>2, <1>3, <1>4, <1>5, <1>6, <1>7 DEF Next

LEMMA AnswersStep ==
  ASSUME TypeOK, Numbered, Ordered, Untimed, AnswersInOrder, Next
  PROVE  AnswersInOrder'
<1>0. /\ xfers \in Nat
      /\ \A n \in Xfers : n \in Nat \ {0}
      /\ \A n \in Xfers : \A k \in 1 .. n : k \in Xfers
      /\ DOMAIN result = Xfers
      /\ TimedOut \notin Xfers /\ NoFrame \notin Xfers /\ Pending \notin Xfers
  <2>1. \A n \in Xfers : \A k \in 1 .. n : k \in Xfers
    BY XfersAssumption DEF Xfers
  <2> QED BY <2>1, NumberFacts, XfersFacts
\* where nothing is handed out, a call at most leaves without an answer
<1>1. ASSUME NEW n0 \in Xfers, NEW r \in {TimedOut, NoFrame},
             result[n0] = Pending,
             result' = [result EXCEPT ![n0] = r]
      PROVE  AnswersInOrder'
  <2>1. \A n \in Xfers : result'[n] \in Xfers => n # n0 /\ result'[n] = result[n]
    BY <1>0, <1>1
  <2>2. \A n \in Xfers : result'[n] # TimedOut => result[n] # TimedOut
    BY <1>0, <1>1 DEF Pending, TimedOut
  <2> QED BY <1>0, <2>1, <2>2 DEF AnswersInOrder
<1>2. CASE result' = result
  BY <1>2 DEF AnswersInOrder
<1>3. CASE XferRefused
  <2>1. xfers + 1 \in Xfers
    BY <1>0, <1>3, XfersAssumption DEF XferRefused, Xfers
  <2>2. result[xfers + 1] = Pending
    BY <1>0, <2>1 DEF Numbered
  <2> QED BY <1>1, <1>3, <2>1, <2>2 DEF XferRefused, Return
<1>4. CASE PollEmpty
  <2>1. CASE timeout = 1
    BY <1>1, <1>4, <2>1 DEF PollEmpty, Return, Numbered
  <2>2. CASE timeout # 1
    BY <1>2, <1>4, <2>2 DEF PollEmpty
  <2> QED BY <2>1, <2>2
<1>5. CASE CopyAnswer
  <2>1. /\ in # <<>> /\ xfers \in Xfers /\ in[1] \in Xfers
        /\ result' = [result EXCEPT ![xfers] = in[1]]
    BY <1>5, Effects, NumberFacts
  <2>2. \A n \in HandedOut : n < xfers /\ result[n] < in[1]
    BY <1>0, <1>5, <2>1 DEF HandedOut, Ordered, Numbered, CopyAnswer
  <2>3. in[1] <= xfers
    BY <2>1 DEF Numbered
  <2>4. \A n \in Xfers : n # xfers => result'[n] = result[n]
    BY <2>1
  <2>5. result'[xfers] = in[1]
    BY <1>0, <2>1
  <2>6. ASSUME NEW n \in Xfers, result'[n] \in Xfers
        PROVE  result'[n] <= n
    BY <2>3, <2>4, <2>5, <2>6 DEF AnswersInOrder
  <2>7. ASSUME NEW m \in Xfers, NEW n \in Xfers, m < n,
               result'[m] \in Xfers, result'[n] \in Xfers
        PROVE  result'[m] < result'[n]
    <3>1. CASE n = xfers
      BY <1>0, <2>2, <2>4, <2>5, <2>7, <3>1 DEF HandedOut
    <3>2. CASE m = xfers
      BY <1>0, <2>1, <2>2, <2>4, <2>7, <3>2 DEF HandedOut
    <3>3. CASE n # xfers /\ m # xfers
      BY <2>4, <2>7, <3>3 DEF AnswersInOrder
    <3> QED BY <3>1, <3>2, <3>3
  <2>8. ASSUME NEW n \in Xfers, result'[n] \in Xfers,
               \A k \in 1 .. n : result'[k] # TimedOut
        PROVE  result'[n] = n
    <3>1. CASE n = xfers
      <4>1. \A k \in 1 .. xfers : result[k] # TimedOut
        BY <1>0, <1>5, <2>1, <2>4, <2>8, <3>1
           DEF Numbered, CopyAnswer, Pending, TimedOut
      <4> QED BY <2>1, <2>5, <3>1, <4>1 DEF Untimed
    <3>2. CASE n # xfers
      <4>1. n < xfers
        BY <2>2, <2>4, <2>8, <3>2 DEF HandedOut
      <4>2. \A k \in 1 .. n : result[k] # TimedOut
        BY <1>0, <2>4, <2>8, <4>1
      <4> QED BY <2>4, <2>8, <3>2, <4>2 DEF AnswersInOrder
    <3> QED BY <3>1, <3>2
  <2> QED BY <2>6, <2>7, <2>8 DEF AnswersInOrder
<1> QED BY <1>2, <1>3, <1>4, <1>5
       DEF Next, XferSend, SlaveAcked, BpmpTake, BpmpAnswer

\* A call that ends without an answer is, or is not, one more that timed out.
LEMMA LateSteps ==
  ASSUME TypeOK, NEW n \in Xfers, result[n] = Pending
  PROVE  /\ result' = [result EXCEPT ![n] = TimedOut] =>
              Cardinality(Late') = Cardinality(Late) + 1
         /\ \A r : result' = [result EXCEPT ![n] = r] /\ r # TimedOut =>
              Late' = Late
<1>1. n \notin Late /\ DOMAIN result = Xfers
  BY XfersFacts DEF Late, TypeOK
<1>2. ASSUME result' = [result EXCEPT ![n] = TimedOut]
      PROVE  Cardinality(Late') = Cardinality(Late) + 1
  <2>1. Late' = Late \cup {n}
    BY <1>1, <1>2 DEF Late
  <2> QED BY <1>1, <2>1, LateFinite, FS_AddElement
<1>3. ASSUME NEW r, result' = [result EXCEPT ![n] = r], r # TimedOut
      PROVE  Late' = Late
  BY <1>1, <1>3 DEF Late
<1> QED BY <1>2, <1>3

LEMMA BacklogStep ==
  ASSUME TypeOK, Numbered, BacklogIsTimeouts, Next
  PROVE  BacklogIsTimeouts'
<1> DEFINE Under == IF pc = "idle" THEN 0 ELSE 1
<1>0. BacklogIsTimeouts <=> Backlog = Cardinality(Late) + Under
  BY DEF BacklogIsTimeouts, Late
<1>p. BacklogIsTimeouts' <=> Backlog' = Cardinality(Late') + Under'
  BY DEF BacklogIsTimeouts, Late
<1>n. /\ Cardinality(Late) \in Nat
      /\ Len(<<>>) = 0
      /\ in # <<>> => Len(in) = 1
      /\ out # <<>> => Len(out) = 1
      /\ \A x : Len(<<x>>) = 1
  BY LateFinite, RingFacts DEF TypeOK
<1>f. ASSUME NEW n \in Xfers, result[n] = Pending,
             NEW r, result' = [result EXCEPT ![n] = r], r # TimedOut
      PROVE  Late' = Late
  BY <1>f, LateSteps
<1>s. result' = result => Late' = Late
  BY DEF Late
<1> USE DEF Backlog
<1>1. CASE XferRefused
  <2>1. xfers + 1 \in Xfers /\ result[xfers + 1] = Pending
    BY <1>1, XfersAssumption, NumberFacts DEF XferRefused, Numbered, Xfers
  <2>2. Late' = Late
    BY <1>1, <1>f, <2>1, XfersFacts DEF XferRefused, Return
  <2> QED BY <1>0, <1>p, <1>1, <2>2 DEF XferRefused
<1>2. CASE XferSend
  <2>1. Backlog' = Backlog + 1
    BY <1>n, <1>2, Effects, NumberFacts DEF XferSend
  <2>2. Under' = Under + 1 /\ Late' = Late
    BY <1>2, <1>s DEF XferSend
  <2> QED BY <1>0, <1>p, <1>n, <2>1, <2>2
<1>3. CASE SlaveAcked
  BY <1>0, <1>p, <1>s, <1>3 DEF SlaveAcked
<1>4. CASE PollEmpty
  <2>1. CASE timeout = 1
    <3>1. Cardinality(Late') = Cardinality(Late) + 1
      BY <1>4, <2>1, LateSteps DEF PollEmpty, Return, Numbered
    <3> QED BY <1>0, <1>p, <1>n, <1>4, <2>1, <3>1 DEF PollEmpty
  <2>2. CASE timeout # 1
    BY <1>0, <1>p, <1>s, <1>4, <2>2 DEF PollEmpty
  <2> QED BY <2>1, <2>2
<1>5. CASE CopyAnswer
  <2>1. /\ in # <<>> /\ in' = <<>> /\ xfers \in Xfers /\ in[1] \in Xfers
        /\ result' = [result EXCEPT ![xfers] = in[1]]
    BY <1>5, Effects, NumberFacts
  <2>2. Late' = Late
    BY <1>5, <1>f, <2>1, XfersFacts DEF CopyAnswer, Numbered
  <2>3. Backlog' = Backlog - 1
    BY <1>n, <1>5, <2>1 DEF CopyAnswer
  <2>4. Under = 1 /\ Under' = 0
    BY <1>5 DEF CopyAnswer
  <2> HIDE DEF Backlog, Under
  <2> QED BY <1>0, <1>p, <1>n, <2>2, <2>3, <2>4
<1>6. CASE BpmpTake
  <2>1. serving' # 0 /\ out # <<>> /\ out' = <<>>
    BY <1>6, Effects, NumberFacts, XfersFacts
  <2>2. Backlog' = Backlog
    BY <1>n, <1>6, <2>1 DEF BpmpTake
  <2> QED BY <1>0, <1>p, <1>s, <1>6, <2>2 DEF BpmpTake
<1>7. CASE BpmpAnswer
  <2>1. Backlog' = Backlog
    BY <1>n, <1>7, Effects DEF BpmpAnswer
  <2> QED BY <1>0, <1>p, <1>s, <1>7, <2>1 DEF BpmpAnswer
<1> QED BY <1>1, <1>2, <1>3, <1>4, <1>5, <1>6, <1>7 DEF Next

LEMMA InvAlways == Spec => []Inv
<1>1. Inv /\ [Next]_vars => Inv'
  <2> SUFFICES ASSUME Inv, [Next]_vars PROVE Inv'
    OBVIOUS
  <2>1. CASE Next
    BY <2>1, TypeStep, NumberedStep, OrderedStep, UntimedStep, AnswersStep,
       BacklogStep DEF Inv
  <2>2. CASE UNCHANGED vars
    BY <2>2 DEF vars, Inv, TypeOK, Numbered, Ordered, HandedOut, Untimed,
                AnswersInOrder, BacklogIsTimeouts, Backlog
  <2> QED BY <2>1, <2>2
<1> QED BY <1>1, InitInv, PTL DEF Spec

-----------------------------------------------------------------------------
\* The rings never hold more than their one frame, requests are numbered in the
\* order they are made, and the polls left never pass below zero.
THEOREM TypeCorrect == Spec => []TypeOK
  BY InvAlways, PTL DEF Inv

\* However many calls time out and however late the firmware is, answers reach
\* callers once each and in the order of the requests, never one that was not asked
\* for yet; and the own answer as long as no call timed out (tegrabl_ccplex_bpmp_xfer).
THEOREM AnswersInOrderTheorem == Spec => []AnswersInOrder
  BY InvAlways, PTL DEF Inv

\* Requests and answers in the channel are one for each call that timed out and
\* one for the call under way: tegrabl_ivc_wait_for_slave_ack gives up and leaves
\* what it waited for behind.
THEOREM BacklogIsTimeoutsTheorem == Spec => []BacklogIsTimeouts
  BY InvAlways, PTL DEF Inv
=============================================================================
