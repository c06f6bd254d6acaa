---------------------------- MODULE AbBootProofs ----------------------------
(***************************************************************************)
(* The accounting of tries and priorities for every kind of device, retry  *)
(* count and top priority, and any number of faults and requests.          *)
(***************************************************************************)
EXTENDS AbBoot, TLAPS

\* an SMD whose retry counts do not exceed the full count
LowSmds == [pri : [Slots -> 0 .. MaxPriority], retry : [Slots -> 0 .. MaxRetry],
            succ : [Slots -> BOOLEAN]]

LowRegs == [magic : BOOLEAN, slot : Slots, retry : [Slots -> 0 .. MaxRetry],
            flag : Flags]

Flushing == pc \in {"flush_a", "flush_b"}

ByRedundancyFlag == reg.flag = "redundancy" /\ Redundant

(***************************************************************************)
(* The inductive invariant.  Low is the types, with retry counts in range. *)
(* Taken: while cboot runs on a slot booted for redundancy, MB1's try is   *)
(* missing from the count, so that giving it back stays in range.  Fresh   *)
(* and Unproven: a changed buffer means that fastboot made a slot active,  *)
(* which puts it on trial.  Picked: MB1's choice is still the best of the  *)
(* SMD that cboot reads.                                                   *)
(***************************************************************************)
Low ==
  /\ dev \in Device
  /\ copy \in [{"a", "b"} -> [ok : BOOLEAN, smd : LowSmds]]
  /\ reg \in LowRegs
  /\ pc \in {"off", "bl", "flush_a", "flush_b", "kernel", "up", "dead"}
  /\ smd \in [loaded : BOOLEAN, val : LowSmds]
  /\ job \in Slots \cup {Handoff}
  /\ booted \in Slots
  /\ tries \in [Slots -> 0 .. MaxRetry + 1] /\ ktries \in 0 .. 3
  /\ durable \in LowSmds /\ exact \in BOOLEAN
  /\ faults \in 0 .. MaxFaults /\ actives \in 0 .. MaxActive

Taken ==
  (pc = "bl" \/ (Flushing /\ job # Handoff)) /\ ByRedundancyFlag =>
    reg.retry[reg.slot] < MaxRetry

Unproven == Flushing /\ job # Handoff => ~smd.val.succ[job]

Fresh == pc = "off" => ~smd.loaded

Picked ==
  pc = "bl" /\ ~dev.writeErrors /\ ByRedundancyFlag =>
    /\ ~smd.loaded
    /\ reg.retry[Other(reg.slot)] > 0 /\ Stored.pri[Other(reg.slot)] > 0 =>
         Stored.pri[reg.slot] >= Stored.pri[Other(reg.slot)]

Inv == Low /\ Taken /\ Unproven /\ Fresh /\ Picked

-----------------------------------------------------------------------------
LEMMA Bounds == /\ MaxRetry \in Nat /\ MaxRetry > 0 /\ MaxRetry <= 15
                /\ MaxPriority \in Nat /\ MaxPriority >= 3 /\ MaxPriority <= 15
                /\ MaxFaults \in Nat /\ MaxActive \in Nat
                /\ Handoff \notin Slots
  BY RetryAssumption, MaxPriorityAssumption, BoundsAssumption DEF Handoff, Slots

\* tegrabl_a_b_get_active_slot returns a bootable slot that none tops.
LEMMA ActiveFacts ==
  ASSUME NEW m \in LowSmds, Bootable(m) # {}
  PROVE  /\ ActiveSlot(m) \in Bootable(m)
         /\ \A o \in Bootable(m) : m.pri[ActiveSlot(m)] >= m.pri[o]
<1> DEFINE P(s) == \A o \in Bootable(m) : m.pri[s] > m.pri[o]
                                       \/ (m.pri[s] = m.pri[o] /\ s <= o)
<1>1. \A s \in Slots : m.pri[s] \in Nat
  BY Bounds DEF LowSmds
<1>2. Bootable(m) \subseteq Slots
  BY DEF Bootable
<1>3. \E s \in Bootable(m) : P(s)
  <2>1. CASE Bootable(m) = {0}
    BY <1>1, <2>1 DEF Slots
  <2>2. CASE Bootable(m) = {1}
    BY <1>1, <2>2 DEF Slots
  <2>3. CASE Bootable(m) = {0, 1}
    BY <1>1, <2>3 DEF Slots
  <2> QED BY <1>2, <2>1, <2>2, <2>3 DEF Slots
<1>4. ActiveSlot(m) \in Bootable(m) /\ P(ActiveSlot(m))
  BY <1>3 DEF ActiveSlot
<1> QED BY <1>1, <1>2, <1>4

\* rotate_slots_priority keeps both priorities in their range.
LEMMA RotateFacts ==
  ASSUME NEW pr \in [Slots -> 0 .. MaxPriority], NEW c \in Slots
  PROVE  Rotate(pr, c) \in [Slots -> 0 .. MaxPriority]
  BY Bounds DEF Rotate, Other, Slots

\* tegrabl_a_b_set_active_slot, and the user space that marks a slot good, write
\* an SMD in range; the first puts the slot on trial.
LEMMA SmdFacts ==
  ASSUME NEW m \in LowSmds, NEW s \in Slots
  PROVE  /\ SetActive(m, s) \in LowSmds
         /\ ~SetActive(m, s).succ[s]
         /\ Mark(m, s) \in LowSmds
  BY Bounds DEF SetActive, Mark, LowSmds, Slots

LEMMA FirstFacts == /\ FirstSmd \in LowSmds
                    /\ Unloaded \in [loaded : BOOLEAN, val : LowSmds]
                    /\ ~Unloaded.loaded
                    /\ Corrupt \in [ok : BOOLEAN, smd : LowSmds]
                    /\ NoReg \in LowRegs
  BY Bounds DEF FirstSmd, Unloaded, Corrupt, NoReg, LowSmds, LowRegs, Slots, Flags

LEMMA StoredFacts ==
  ASSUME Low
  PROVE  Stored \in LowSmds /\ Buffer \in LowSmds
  BY DEF Low, Stored, Buffer

LEMMA InitInv == Init => Inv
<1> SUFFICES ASSUME Init PROVE Inv
  OBVIOUS
<1>1. Low
  BY Bounds, FirstFacts, DevicesAssumption DEF Init, Low, Good, Slots, Handoff
<1> QED BY <1>1, FirstFacts DEF Init, Inv, Taken, Unproven, Fresh, Picked, Flushing

(***************************************************************************)
(* A step that ends the boot: whatever the register, nothing is left to    *)
(* take back.                                                              *)
(***************************************************************************)
LEMMA ResetFacts ==
  ASSUME Low, NEW r \in LowRegs, ResetTo(r),
         UNCHANGED <<dev, booted, ktries>>,
         copy' \in [{"a", "b"} -> [ok : BOOLEAN, smd : LowSmds]],
         tries' \in [Slots -> 0 .. MaxRetry + 1],
         durable' \in LowSmds, exact' \in BOOLEAN,
         faults' \in 0 .. MaxFaults, actives' \in 0 .. MaxActive
  PROVE  Inv'
  BY FirstFacts DEF ResetTo, Low, Inv, Taken, Unproven, Fresh, Picked, Flushing

LEMMA ReadsSame ==
  ASSUME UNCHANGED <<copy, smd>>
  PROVE  Stored' = Stored /\ Buffer' = Buffer
  BY DEF Stored, Buffer

LEMMA OtherFacts ==
  ASSUME NEW s \in Slots
  PROVE  Other(s) \in Slots /\ Other(s) # s
  BY DEF Slots, Other

LEMMA Mb1Inv ==
  ASSUME Inv, UNCHANGED dev, NEW m, Mb1(m)
  PROVE  Inv'
<1> DEFINE s == ActiveSlot(m)
           n == CheckRetryCount(m, s)
           flag == IF reg.magic THEN reg.flag ELSE "off"
<1> USE DEF Inv
<1>1. m \in LowSmds /\ m.pri = Stored.pri
  BY StoredFacts DEF Mb1, Low, LowSmds, LowRegs
<1>2. /\ s \in Slots /\ m.retry[s] > 0
      /\ \A o \in Bootable(m) : m.pri[s] >= m.pri[o]
  BY <1>1, ActiveFacts DEF Mb1, Bootable
<1>3. /\ n \in LowSmds
      /\ n.retry[Other(s)] = m.retry[Other(s)]
      /\ Redundant => n.retry[s] < MaxRetry
  BY <1>1, <1>2, Bounds, OtherFacts DEF CheckRetryCount, LowSmds
<1>4. flag \in Flags
  BY DEF Low, LowRegs, Flags
<1>5. reg' = SaveReg(n, s, flag)
  BY DEF Mb1
<1>6. reg' \in LowRegs /\ reg'.slot = s /\ reg'.retry = n.retry
  BY <1>2, <1>3, <1>4, <1>5 DEF SaveReg, LowRegs, LowSmds, Flags
<1>7. Low'
  <2>1. tries' \in [Slots -> 0 .. MaxRetry + 1]
    BY <1>2, Bounds DEF Mb1, Low
  <2> QED BY <1>6, <2>1 DEF Mb1, Low, disk
<1>8. Redundant' = Redundant
  BY DEF Redundant
<1>9. Taken'
  BY <1>3, <1>6, <1>8 DEF Taken, ByRedundancyFlag, Flushing, Mb1
<1>10. Picked'
  <2>1. Stored' = Stored /\ smd' = smd /\ ~smd.loaded
    BY ReadsSame DEF Mb1, disk, Fresh
  <2>2. (n.retry[Other(s)] > 0 /\ m.pri[Other(s)] > 0) => m.pri[s] >= m.pri[Other(s)]
    BY <1>2, <1>3, OtherFacts DEF Bootable
  <2> QED BY <1>1, <1>6, <2>1, <2>2 DEF Picked
<1> QED BY <1>7, <1>9, <1>10 DEF Unproven, Fresh, Flushing, Mb1

\* the boot ends, or stays off
LEMMA EndsInv ==
  ASSUME Inv, UNCHANGED dev,
         \/ Mb1Stuck \/ BlFails \/ PowerCycle \/ KernelFails
         \/ UserReboots
  PROVE  Inv'
<1> USE DEF Inv
<1>1. CASE Mb1Stuck
  BY <1>1 DEF Mb1Stuck, Low, Taken, Unproven, Fresh, Picked, Flushing, disk
<1>2. CASE BlFails
  <2>1. reg \in LowRegs /\ ResetTo(reg)
    BY <1>2 DEF BlFails, Low
  <2> QED BY <1>2, <2>1, ResetFacts DEF BlFails, Low, disk
<1>3. CASE PowerCycle
  <2>1. NoReg \in LowRegs /\ ResetTo(NoReg) /\ faults' \in 0 .. MaxFaults
    BY <1>3, FirstFacts, Bounds DEF PowerCycle, Low
  <2> QED BY <1>3, <2>1, ResetFacts DEF PowerCycle, Low, disk
<1>4. CASE KernelFails \/ UserReboots
  <2>1. NoReg \in LowRegs /\ ResetTo(NoReg)
    BY <1>4, FirstFacts DEF KernelFails, UserReboots
  <2> QED BY <1>4, <2>1, ResetFacts DEF KernelFails, UserReboots, Low, disk
<1> QED BY <1>1, <1>2, <1>3, <1>4

LEMMA UserInv ==
  ASSUME Inv, UNCHANGED dev,
         UserUp \/ \E s \in Slots : UserUpdates(s)
  PROVE  Inv'
<1> USE DEF Inv
<1>0. ASSUME NEW m \in LowSmds, UserWrites(m)
      PROVE  /\ copy' \in [{"a", "b"} -> [ok : BOOLEAN, smd : LowSmds]]
             /\ tries' \in [Slots -> 0 .. MaxRetry + 1] /\ ktries' \in 0 .. 3
             /\ durable' \in LowSmds /\ exact' \in BOOLEAN
  BY <1>0, Bounds DEF UserWrites, Good
<1>1. CASE UserUp
  <2>1. Mark(Stored, booted) \in LowSmds
    BY StoredFacts, SmdFacts DEF Low
  <2>2. UserWrites(Mark(Stored, booted))
    BY <1>1 DEF UserUp
  <2>3. Low'
    BY <1>0, <1>1, <2>1, <2>2 DEF UserUp, Low
  <2> QED BY <1>1, <2>3 DEF UserUp, Taken, Unproven, Fresh, Picked, Flushing
<1>2. ASSUME NEW s \in Slots, UserUpdates(s)
      PROVE  Inv'
  <2>1. SetActive(Stored, s) \in LowSmds
    BY StoredFacts, SmdFacts
  <2>2. UserWrites(SetActive(Stored, s)) /\ ResetTo(NoReg)
    BY <1>2 DEF UserUpdates
  <2>3. NoReg \in LowRegs /\ actives' \in 0 .. MaxActive
    BY <1>2, FirstFacts, Bounds DEF UserUpdates, Low
  <2>4. Low'
    BY <1>0, <1>2, <2>1, <2>2, <2>3, FirstFacts DEF UserUpdates, Low, ResetTo
  <2> QED BY <2>2, <2>4, FirstFacts
          DEF ResetTo, Taken, Unproven, Fresh, Picked, Flushing
<1> QED BY <1>1, <1>2

LEMMA SetActiveInv ==
  ASSUME Inv, UNCHANGED dev, NEW s \in Slots, slot_set_active(s)
  PROVE  Inv'
<1> USE DEF Inv
<1>1. SetActive(Buffer, s) \in LowSmds /\ ~SetActive(Buffer, s).succ[s]
  BY StoredFacts, SmdFacts
<1>2. Low'
  BY <1>1, Bounds DEF slot_set_active, Low, disk
<1>3. Taken' /\ Unproven'
  BY <1>1 DEF slot_set_active, Taken, Unproven, Flushing, ByRedundancyFlag,
              Redundant, Handoff, Slots
<1> QED BY <1>2, <1>3 DEF slot_set_active, Fresh, Picked

\* cboot settles the accounts and begins to flush
LEMMA UpdateFacts ==
  ASSUME Inv, UNCHANGED dev, NEW r \in LowRegs,
         NEW pr \in [Slots -> 0 .. MaxPriority], Update(r, pr)
  PROVE  Inv'
<1> USE DEF Inv
<1>1. [Buffer EXCEPT !.pri = pr, !.retry = r.retry] \in LowSmds
  BY StoredFacts DEF LowSmds, LowRegs
<1>2. tries' \in [Slots -> 0 .. MaxRetry + 1]
  BY Bounds DEF Update, Settle, Low, LowRegs
<1>3. Low'
  BY <1>1, <1>2 DEF Update, Low, disk
<1> QED BY <1>3 DEF Update, Taken, Unproven, Fresh, Picked, Flushing

LEMMA UpdateInv ==
  ASSUME Inv, UNCHANGED dev,
         UpdateOta \/ UpdateSwitched \/ UpdateRotate
  PROVE  Inv'
<1> USE DEF Inv
<1>1. Buffer.pri \in [Slots -> 0 .. MaxPriority] /\ reg \in LowRegs
  BY StoredFacts DEF LowSmds, Low
<1>2. pc = "bl" /\ ByRedundancy => Restored \in LowRegs
  <2>1. pc = "bl" /\ ByRedundancy => reg.retry[reg.slot] + 1 \in 0 .. MaxRetry
    BY <1>1, Bounds DEF Taken, ByRedundancy, ByRedundancyFlag, LowRegs
  <2> QED BY <1>1, <2>1 DEF Restored, LowRegs
<1>3. CASE UpdateOta
  BY <1>1, <1>3, UpdateFacts DEF UpdateOta
<1>4. CASE UpdateSwitched
  BY <1>1, <1>2, <1>4, UpdateFacts DEF UpdateSwitched, Reaches
<1>5. CASE UpdateRotate
  <2>1. Rotate(Buffer.pri, reg.slot) \in [Slots -> 0 .. MaxPriority]
    BY <1>1, RotateFacts DEF LowRegs
  <2> QED BY <1>1, <1>2, <1>5, <2>1, UpdateFacts DEF UpdateRotate, Reaches
<1> QED BY <1>3, <1>4, <1>5

LEMMA EnterFacts ==
  ASSUME Inv, Enter
  PROVE  /\ pc' = "kernel" /\ reg' \in LowRegs /\ booted' \in Slots
         /\ ktries' \in 0 .. 3
  BY FirstFacts DEF Enter, Inv, Low, LowRegs

LEMMA NothingInv ==
  ASSUME Inv, UNCHANGED dev, UpdateNothing
  PROVE  Inv'
<1> USE DEF Inv
<1>1. tries' \in [Slots -> 0 .. MaxRetry + 1]
  BY Bounds DEF UpdateNothing, Settle, Low, LowRegs
<1>2. Low'
  BY <1>1, EnterFacts DEF UpdateNothing, Low, disk
<1>3. pc' = "kernel"
  BY EnterFacts DEF UpdateNothing
<1> QED BY <1>2, <1>3 DEF Taken, Unproven, Fresh, Picked, Flushing

LEMMA TornFacts ==
  ASSUME Low, NEW c \in {"a", "b"}, Torn(c)
  PROVE  copy' \in [{"a", "b"} -> [ok : BOOLEAN, smd : LowSmds]]
  BY FirstFacts DEF Torn, Low

LEMMA FlushInv ==
  ASSUME Inv, UNCHANGED dev,
         \/ WritePrimary \/ PrimaryError \/ WriteSecondary
         \/ SecondaryError \/ ResetInFlush
  PROVE  Inv'
<1> USE DEF Inv
<1>g. Good(smd.val) \in [ok : BOOLEAN, smd : LowSmds]
  BY DEF Low, Good
<1>1. CASE WritePrimary
  <2>1. Low'
    BY <1>1, <1>g DEF WritePrimary, Low
  <2> QED BY <1>1, <2>1
          DEF WritePrimary, Taken, Unproven, Fresh, Picked, Flushing,
              ByRedundancyFlag, Redundant
<1>2. CASE PrimaryError
  <2>1. Low'
    BY <1>2, TornFacts, Bounds DEF PrimaryError, Low
  <2> QED BY <1>2, <2>1
          DEF PrimaryError, Taken, Unproven, Fresh, Picked, Flushing,
              ByRedundancyFlag, Redundant
<1>3. CASE WriteSecondary
  <2>1. CASE job = Handoff
    <3>1. Low'
      BY <1>3, <2>1, <1>g, EnterFacts DEF WriteSecondary, Low
    <3>2. pc' = "kernel"
      BY <1>3, <2>1, EnterFacts DEF WriteSecondary
    <3> QED BY <3>1, <3>2 DEF Taken, Unproven, Fresh, Picked, Flushing
  <2>2. CASE job # Handoff
    <3>1. ~smd.val.succ[job]
      BY <1>3, <2>2 DEF WriteSecondary, Unproven, Flushing
    <3>2. /\ pc' = "bl" /\ reg' = SaveReg(smd.val, job, reg.flag)
          /\ tries' = [s \in Slots |-> 0] /\ ktries' = 0 /\ booted' = booted
      BY <1>3, <2>2 DEF WriteSecondary
    <3>3. reg'.flag = "ota" /\ reg' \in LowRegs
      BY <2>2, <3>1, <3>2 DEF SaveReg, Low, LowSmds, LowRegs, Flags
    <3>4. Low'
      BY <1>3, <1>g, <3>2, <3>3, Bounds DEF WriteSecondary, Low
    <3> QED BY <3>2, <3>3, <3>4
            DEF Taken, Unproven, Fresh, Picked, Flushing, ByRedundancyFlag
  <2> QED BY <2>1, <2>2
<1>4. CASE SecondaryError
  <2>0. /\ copy' \in [{"a", "b"} -> [ok : BOOLEAN, smd : LowSmds]]
        /\ faults' \in 0 .. MaxFaults
    BY <1>4, TornFacts, Bounds DEF SecondaryError, Low
  <2>1. CASE job = Handoff
    <3>1. Low'
      BY <1>4, <2>0, <2>1, EnterFacts DEF SecondaryError, Low
    <3>2. pc' = "kernel"
      BY <1>4, <2>1, EnterFacts DEF SecondaryError
    <3> QED BY <3>1, <3>2 DEF Taken, Unproven, Fresh, Picked, Flushing
  <2>2. CASE job # Handoff
    <3>1. Low'
      BY <1>4, <2>0, <2>2 DEF SecondaryError, Low
    <3> QED BY <1>4, <2>2, <3>1
            DEF SecondaryError, Taken, Unproven, Fresh, Picked, Flushing,
                ByRedundancyFlag, Redundant
  <2> QED BY <2>1, <2>2
<1>5. CASE ResetInFlush
  <2>1. PICK r \in {reg, NoReg} : ResetTo(r)
    BY <1>5 DEF ResetInFlush
  <2>2. r \in LowRegs
    BY FirstFacts DEF Low
  <2>3. /\ copy' \in [{"a", "b"} -> [ok : BOOLEAN, smd : LowSmds]]
        /\ faults' \in 0 .. MaxFaults
    BY <1>5, TornFacts, Bounds DEF ResetInFlush, Low
  <2> QED BY <1>5, <2>1, <2>2, <2>3, ResetFacts DEF ResetInFlush, Low
<1> QED BY <1>1, <1>2, <1>3, <1>4, <1>5

\* No step changes the device.
LEMMA Constant == Next => UNCHANGED dev
  BY DEF Next, BootNext, FaultNext, UserNext, Mb1, Mb1Stuck, BlFails, PowerCycle,
         slot_set_active, UpdateOta, UpdateSwitched, UpdateRotate, Update,
         UpdateNothing, WritePrimary, PrimaryError, WriteSecondary,
         SecondaryError, ResetInFlush, KernelFails, UserUp, UserReboots,
         UserUpdates

LEMMA StepInv == Inv /\ [Next]_vars => Inv'
<1> SUFFICES ASSUME Inv, [Next]_vars PROVE Inv'
  OBVIOUS
<1>1. CASE UNCHANGED vars
  BY <1>1 DEF vars, disk, Inv, Low, Taken, Unproven, Fresh, Picked, Flushing,
              ByRedundancyFlag, Redundant, Stored
<1>2. CASE Next
  <2>1. UNCHANGED dev
    BY <1>2, Constant
  <2>2. CASE BootNext
    BY <2>1, <2>2, Mb1Inv, EndsInv, UserInv, UpdateInv, NothingInv, FlushInv
       DEF BootNext
  <2>3. CASE FaultNext
    BY <2>1, <2>3, EndsInv, FlushInv DEF FaultNext
  <2>4. CASE UserNext
    BY <2>1, <2>4, EndsInv, UserInv, SetActiveInv DEF UserNext
  <2> QED BY <1>2, <2>2, <2>3, <2>4 DEF Next
<1> QED BY <1>1, <1>2

THEOREM InvHolds == Spec => []Inv
  BY InitInv, StepInv, PTL DEF Spec

\* Every variable keeps its type, the 4-bit retry counts of the register
\* and the priorities of the SMD included, on every device.
THEOREM TypeCorrect == Spec => []TypeOK
<1>1. LowSmds \subseteq Smds /\ LowRegs \subseteq Regs
  BY Bounds DEF LowSmds, Smds, LowRegs, Regs
<1>2. Inv => TypeOK
  BY <1>1 DEF Inv, Low, TypeOK
<1> QED BY <1>2, InvHolds, PTL

\* No retry count ever exceeds the full count: cboot restores a try only in a
\* boot for which MB1 took one.
THEOREM RetryInRangeTheorem == Spec => []RetryInRange
<1>1. Inv => RetryInRange
  BY Bounds DEF Inv, Low, LowSmds, LowRegs, RetryInRange
<1> QED BY <1>1, InvHolds, PTL

\* The assertion of check_user_redundancy_status holds in every boot of a device
\* whose writes do not fail.
THEOREM CurrentHighestTheorem == Spec => []CurrentHighest
<1>1. ASSUME Inv, Reaches, ~dev.writeErrors, ByRedundancy, OtherBootable
      PROVE  Buffer.pri[reg.slot] >= Buffer.pri[Other(reg.slot)]
  <2>1. ~smd.loaded /\ Buffer = Stored
    BY <1>1 DEF Inv, Picked, Reaches, ByRedundancy, ByRedundancyFlag, Buffer
  <2>2. /\ reg.retry[Other(reg.slot)] > 0
        /\ Stored.pri[Other(reg.slot)] > 0
    BY <1>1, <2>1, OtherFacts DEF OtherBootable, Inv, Low, LowRegs
  <2> QED BY <1>1, <2>1, <2>2
          DEF Inv, Picked, Reaches, ByRedundancy, ByRedundancyFlag
<1>2. Inv => CurrentHighest
  BY <1>1 DEF CurrentHighest
<1> QED BY <1>2, InvHolds, PTL

-----------------------------------------------------------------------------
(***************************************************************************)
(* Tries.  Left(s) is what MB1 has left of s: with tries[s] it stays       *)
(* within the full count as long as the register, where tries are taken    *)
(* while power stays on, and the SMD, where they are made permanent, agree *)
(* wherever one is dropped for the other.  Sound: the SMD reads and what   *)
(* is flushed is what the register says.  Tried: until a boot gets to its  *)
(* end only the active slot of the SMD loses tries, all of them before the *)
(* other is tried; so a boot that ends without a flush leaves behind a     *)
(* slot that is good, and one that was never tried.                        *)
(***************************************************************************)
Left(s) == IF reg.magic THEN reg.retry[s] ELSE Stored.retry[s]

Sound ==
  /\ copy["a"].ok
  /\ pc \in {"bl", "flush_a", "flush_b"} => reg.magic
  /\ pc \in {"kernel", "up"} => ~reg.magic
  /\ pc = "flush_b" => copy["a"] = Good(smd.val)
  /\ Flushing /\ job = Handoff => smd.val.retry = reg.retry
  /\ Flushing /\ job # Handoff =>
       /\ smd.val.retry[job] > 0
       /\ smd.val.pri[job] > smd.val.pri[Other(job)]

Tried ==
  reg.magic /\ pc \in {"off", "bl"} =>
    /\ \A s \in Slots : reg.retry[s] <= Stored.retry[s]
    /\ reg.slot \in Bootable(Stored)
    /\ IF reg.slot = ActiveSlot(Stored)
         THEN reg.retry[Other(reg.slot)] = Stored.retry[Other(reg.slot)]
         ELSE reg.retry[ActiveSlot(Stored)] = 0
    /\ reg.flag = "off" => reg.retry = Stored.retry
    /\ ByRedundancyFlag => Stored.succ[reg.slot]
    /\ pc = "bl" /\ ByRedundancyFlag => ~smd.loaded

Tallied ==
  faults = 0 =>
    /\ Sound
    /\ Tried
    /\ \A s \in Slots : tries[s] + Left(s) <= MaxRetry

(***************************************************************************)
(* Turns.  Phase says where the priorities stand in the cycle of           *)
(* rotate_slots_priority after k kernels of slot b: two of slot 0, two of  *)
(* slot 1.  It need not once a slot has no try left.                       *)
(***************************************************************************)
Phase(pr, k, b) ==
  \/ pr[0] = MaxPriority /\ pr[1] = MaxPriority - 1 /\ (b = 0 => k = 0)
  \/ pr[0] = MaxPriority - 1 /\ pr[1] = MaxPriority - 1 /\ (b = 0 => k <= 1)
  \/ pr[0] = MaxPriority - 1 /\ pr[1] = MaxPriority /\ (b = 1 => k = 0)
  \/ pr[0] = MaxPriority - 2 /\ pr[1] = MaxPriority /\ (b = 1 => k <= 1)

\* ktries after the kernel of slot s is entered
Kernels(s) == IF s = booted THEN ktries + 1 ELSE 1

Turning ==
  /\ ktries <= 2
  /\ \A s \in Slots : Stored.succ[s] /\ Stored.pri[s] > 0
  /\ pc = "bl" => ByRedundancyFlag /\ ~smd.loaded
  /\ pc \in {"off", "kernel", "up", "dead"} =>
       (\E s \in Slots : Left(s) = 0) \/ Phase(Stored.pri, ktries, booted)
  /\ pc = "bl" =>
       reg.retry[Other(reg.slot)] = 0 \/
         /\ Phase(Stored.pri, ktries, booted)
         /\ Stored.pri[reg.slot] >= Stored.pri[Other(reg.slot)]
         /\ Stored.pri[0] = Stored.pri[1] => reg.slot = 0
  /\ Flushing =>
       /\ job = Handoff
       /\ \A s \in Slots : smd.val.succ[s] /\ smd.val.pri[s] > 0
       /\ reg.retry[Other(reg.slot)] = 0 \/ (Phase(smd.val.pri, Kernels(reg.slot), reg.slot) /\ Kernels(reg.slot) <= 2)

Turns ==
  dev.mode = "user" /\ faults = 0 /\ actives = 0 => Turning

Tally == Inv /\ Tallied

\* the slot that tegrabl_a_b_get_active_slot returns is the only best one
Best(m, s) ==
  /\ s \in Bootable(m)
  /\ \A o \in Bootable(m) : m.pri[s] > m.pri[o] \/ (m.pri[s] = m.pri[o] /\ s <= o)

LEMMA BestFacts ==
  ASSUME NEW m \in LowSmds, Bootable(m) # {}
  PROVE  /\ Best(m, ActiveSlot(m))
         /\ \A s : Best(m, s) => s = ActiveSlot(m)
<1>1. \A s \in Slots : m.pri[s] \in Nat
  BY Bounds DEF LowSmds
<1>2. Bootable(m) \subseteq Slots
  BY DEF Bootable
<1>3. \E s \in Bootable(m) : Best(m, s)
  <2>1. CASE Bootable(m) = {0}
    BY <1>1, <2>1 DEF Slots, Best
  <2>2. CASE Bootable(m) = {1}
    BY <1>1, <2>2 DEF Slots, Best
  <2>3. CASE Bootable(m) = {0, 1}
    BY <1>1, <2>3 DEF Slots, Best
  <2> QED BY <1>2, <2>1, <2>2, <2>3 DEF Slots
<1>4. Best(m, ActiveSlot(m))
  BY <1>3 DEF ActiveSlot, Best
<1>5. ASSUME NEW s, NEW t, Best(m, s), Best(m, t)
      PROVE  s = t
  <2>1. s \in Slots /\ t \in Slots
    BY <1>2, <1>5 DEF Best
  <2> QED BY <1>1, <1>5, <2>1 DEF Best, Slots
<1> QED BY <1>4, <1>5

LEMMA SlotFacts ==
  ASSUME NEW s \in Slots
  PROVE  /\ Other(s) \in Slots /\ Other(s) # s /\ Other(Other(s)) = s
         /\ \A o \in Slots : o = s \/ o = Other(s)
  BY DEF Slots, Other

\* what the counts are, whatever became of them
LEMMA CountsFacts ==
  ASSUME Low
  PROVE  /\ \A s \in Slots : tries[s] \in Nat /\ Left(s) \in Nat
         /\ \A s \in Slots : Left(s) <= MaxRetry
         /\ Stored \in LowSmds
  BY StoredFacts, Bounds DEF Low, Left, LowRegs, LowSmds

LEMMA TallyInit == Init => Tally
<1> SUFFICES ASSUME Init PROVE Tallied
  BY InitInv DEF Tally
<1>1. Sound
  BY DEF Init, Sound, Good, Flushing
<1>2. Tried
  BY DEF Init, Tried, NoReg
<1>3. ASSUME NEW s \in Slots PROVE tries[s] + Left(s) <= MaxRetry
  <2>1. tries[s] = 0 /\ Left(s) <= MaxRetry /\ Left(s) \in Nat
    BY InitInv, CountsFacts DEF Inv, Init
  <2> QED BY <2>1, Bounds
<1> QED BY <1>1, <1>2, <1>3 DEF Tallied

LEMMA Mb1Tally ==
  ASSUME Tally, UNCHANGED dev, NEW m, Mb1(m), faults = 0
  PROVE  Sound' /\ Tried' /\ \A s \in Slots : tries'[s] + Left(s)' <= MaxRetry
<1> DEFINE s == ActiveSlot(m)
           n == CheckRetryCount(m, s)
<1>0. Low /\ Sound /\ Tried /\ ~smd.loaded /\ pc = "off"
      /\ \A x \in Slots : tries[x] + Left(x) <= MaxRetry
  BY DEF Tally, Inv, Tallied, Fresh, Mb1
<1>1. /\ m \in LowSmds /\ m.pri = Stored.pri /\ m.succ = Stored.succ
      /\ \A x \in Slots : m.retry[x] = Left(x)
      /\ Stored \in LowSmds
  BY <1>0, StoredFacts DEF Mb1, Low, LowSmds, LowRegs, Left
<1>2. /\ Best(m, s) /\ s \in Slots /\ m.retry[s] > 0
      /\ Bootable(m) # {}
  BY <1>1, BestFacts DEF Mb1, Best, Bootable
<1>r. m.retry \in [Slots -> 0 .. MaxRetry]
  BY <1>1 DEF LowSmds
<1>3. /\ n \in LowSmds /\ n.succ = m.succ
      /\ n.retry[Other(s)] = m.retry[Other(s)]
      /\ \/ n = m /\ ~Redundant /\ m.succ[s]
         \/ n # m /\ n.retry[s] = m.retry[s] - 1 /\ (Redundant \/ ~m.succ[s])
  <2>1. CASE Redundant \/ ~m.succ[s]
    <3>1. n.retry = [m.retry EXCEPT ![s] = @ - 1] /\ n.succ = m.succ /\ n.pri = m.pri
      BY <2>1, <1>1 DEF CheckRetryCount, LowSmds
    <3>2. n.retry[s] = m.retry[s] - 1 /\ n.retry[s] # m.retry[s]
      BY <3>1, <1>2, <1>r, Bounds
    <3>3. n \in LowSmds
      BY <2>1, <1>1, <1>2, Bounds DEF CheckRetryCount, LowSmds
    <3> QED BY <2>1, <3>1, <3>2, <3>3, <1>2, <1>r, SlotFacts
  <2>2. CASE ~(Redundant \/ ~m.succ[s])
    BY <2>2, <1>1 DEF CheckRetryCount
  <2> QED BY <2>1, <2>2
<1>s. reg' = SaveReg(n, s, IF reg.magic THEN reg.flag ELSE "off")
  BY DEF Mb1
<1>4. /\ reg'.magic /\ reg'.slot = s /\ reg'.retry = n.retry /\ pc' = "bl"
      /\ UNCHANGED <<copy, smd, faults, job>> /\ Stored' = Stored
      /\ reg'.flag = IF ~m.succ[s] THEN "ota"
                     ELSE IF Redundant THEN "redundancy"
                     ELSE IF reg.magic THEN reg.flag ELSE "off"
  <2>1. pc' = "bl" /\ UNCHANGED <<copy, smd, faults, job>>
    BY DEF Mb1, disk
  <2>2. Stored' = Stored
    BY <2>1 DEF Stored
  <2> QED BY <1>s, <1>3, <2>1, <2>2 DEF SaveReg
<1>t. /\ tries'[Other(s)] = tries[Other(s)]
      /\ n = m => tries'[s] = tries[s]
      /\ n # m /\ tries[s] <= MaxRetry => tries'[s] = tries[s] + 1
  BY <1>2, SlotFacts DEF Mb1, Tally, Inv, Low
<1> HIDE DEF s, n
<1>5. Sound'
  BY <1>0, <1>4 DEF Sound, Flushing
<1>6. \A x \in Slots : tries'[x] + Left(x)' <= MaxRetry
  <2>1. \A x \in Slots : Left(x)' = n.retry[x]
    BY <1>4 DEF Left
  <2>2. tries'[Other(s)] + Left(Other(s))' <= MaxRetry
    BY <1>0, <1>1, <1>2, <1>3, <1>t, <2>1, SlotFacts
  <2>3. /\ tries[s] \in Nat /\ m.retry[s] \in Nat /\ tries[s] + m.retry[s] <= MaxRetry
        /\ MaxRetry \in Nat
    BY <1>0, <1>1, <1>2, CountsFacts, Bounds
  <2>4. tries'[s] + n.retry[s] <= MaxRetry
    <3>1. CASE n = m
      BY <3>1, <2>3, <1>t
    <3>2. CASE n # m
      <4>1. tries'[s] = tries[s] + 1 /\ n.retry[s] = m.retry[s] - 1
        BY <3>2, <2>3, <1>t, <1>3
      <4> QED BY <4>1, <2>3
    <3> QED BY <3>1, <3>2
  <2> QED BY <2>1, <2>2, <2>4, <1>2, SlotFacts
\* only the active slot of the SMD has lost any
<1>7. /\ \A x \in Slots : n.retry[x] <= m.retry[x] /\ m.retry[x] <= Stored.retry[x]
      /\ \A x \in Slots : n.retry[x] \in Nat /\ m.retry[x] \in Nat /\ Stored.retry[x] \in Nat
  <2>1. \A x \in Slots : n.retry[x] \in Nat /\ m.retry[x] \in Nat /\ Stored.retry[x] \in Nat
    BY <1>1, <1>3, Bounds DEF LowSmds
  <2>2. \A x \in Slots : m.retry[x] <= Stored.retry[x]
    BY <1>0, <1>1, <2>1 DEF Left, Tried
  <2>3. n.retry[s] <= m.retry[s] /\ n.retry[Other(s)] <= m.retry[Other(s)]
    BY <2>1, <1>2, <1>3, SlotFacts
  <2> QED BY <2>1, <2>2, <2>3, <1>2, SlotFacts
<1>8. s \in Bootable(Stored)
  <2>1. Stored.retry[s] > 0
    BY <1>2, <1>7
  <2> QED BY <2>1, <1>1, <1>2 DEF Best, Bootable
<1>9. IF s = ActiveSlot(Stored)
        THEN n.retry[Other(s)] = Stored.retry[Other(s)]
        ELSE n.retry[ActiveSlot(Stored)] = 0
  <2> DEFINE a == ActiveSlot(Stored)
  <2>0. /\ Best(Stored, a) /\ a \in Slots
        /\ \A x : Best(Stored, x) => x = a
    BY <1>1, <1>8, BestFacts DEF Best, Bootable
  <2> HIDE DEF a
  <2>1. s # a => a = Other(s)
    BY <2>0, <1>2, SlotFacts
  <2>2. CASE ~reg.magic
    <3>1. \A x \in Slots : m.retry[x] = Stored.retry[x]
      BY <2>2, <1>1 DEF Left
    <3>2. Best(Stored, s)
      BY <3>1, <1>1, <1>2 DEF Best, Bootable
    <3>3. s = a
      BY <3>2, <2>0
    <3> QED BY <3>1, <3>3, <1>2, <1>3, SlotFacts DEF a
  <2>3. CASE reg.magic /\ reg.slot = a
    <3>1. m.retry[Other(a)] = Stored.retry[Other(a)]
      BY <2>3, <2>0, <1>0, <1>1, SlotFacts DEF Tried, Left, a
    <3>2. CASE s = a
      BY <3>1, <3>2, <1>3 DEF a
    <3>3. CASE s # a
      <4>1. m.retry[a] = 0
        <5> SUFFICES ASSUME m.retry[a] # 0 PROVE s = a
          BY <3>3
        <5>1. a \in Bootable(m)
          BY <2>0, <1>1, <1>7 DEF Best, Bootable
        <5>2. Bootable(m) \subseteq Bootable(Stored)
          <6>1. ASSUME NEW x \in Slots, m.retry[x] > 0 PROVE Stored.retry[x] > 0
            BY <6>1, <1>7
          <6> QED BY <6>1, <1>1 DEF Bootable
        <5>3. Best(m, a)
          BY <5>1, <5>2, <2>0, <1>1 DEF Best
        <5> QED BY <5>3, <1>1, <1>2, BestFacts DEF s
      <4> QED BY <4>1, <3>3, <2>1, <1>3 DEF a
    <3> QED BY <3>2, <3>3
  <2>4. CASE reg.magic /\ reg.slot # a
    <3>1. m.retry[a] = 0
      BY <2>4, <2>0, <1>0, <1>1 DEF Tried, Left, a
    <3>2. s # a
      BY <3>1, <1>2
    <3> QED BY <3>1, <3>2, <2>1, <1>3 DEF a
  <2> QED BY <2>2, <2>3, <2>4
<1>10. reg'.flag = "off" => n.retry = Stored.retry
  <2> SUFFICES ASSUME reg'.flag = "off" PROVE n.retry = Stored.retry
    OBVIOUS
  <2>1. n = m /\ (reg.magic => reg.flag = "off")
    BY <1>3, <1>4
  <2>2. m.retry = Stored.retry
    BY <1>0, <2>1 DEF Mb1, Tried
  <2> QED BY <2>1, <2>2
<1>11. ByRedundancyFlag' => m.succ[s]
  BY <1>4 DEF ByRedundancyFlag
<1>12. Tried'
  <2>1. /\ \A x \in Slots : reg'.retry[x] <= Stored'.retry[x]
        /\ reg'.slot \in Bootable(Stored)'
    BY <1>4, <1>7, <1>8 DEF Bootable
  <2>2. ActiveSlot(Stored)' = ActiveSlot(Stored)
    BY <1>4 DEF ActiveSlot, Bootable
  <2> QED BY <2>1, <2>2, <1>0, <1>1, <1>4, <1>9, <1>10, <1>11 DEF Tried
<1> QED BY <1>5, <1>6, <1>12

\* nothing of the accounts changes, and what was checked of them is not
\* checked anew
LEMMA RestTally ==
  ASSUME Tally, UNCHANGED <<dev, copy, reg, tries>>, faults = 0,
         \/ pc \in {"kernel", "up"} /\ pc' = "off"
         \/ pc \in {"off", "bl"} /\ pc' = "off" /\ ~smd'.loaded
         \/ pc' = "dead"
  PROVE  Sound' /\ Tried' /\ \A s \in Slots : tries'[s] + Left(s)' <= MaxRetry
<1>0. /\ Sound /\ Tried
      /\ \A s \in Slots : tries[s] + Left(s) <= MaxRetry
  BY DEF Tally, Tallied
<1>1. Stored' = Stored /\ Bootable(Stored)' = Bootable(Stored)
      /\ ActiveSlot(Stored)' = ActiveSlot(Stored)
  BY DEF Stored, Bootable, ActiveSlot
<1>2. Sound'
  BY <1>0 DEF Sound, Flushing
<1>3. Tried'
  BY <1>0, <1>1 DEF Tried, Sound, ByRedundancyFlag, Redundant
<1> QED BY <1>0, <1>1, <1>2, <1>3 DEF Left

\* the accounts begin anew
LEMMA AnewTally ==
  ASSUME Inv', UNCHANGED dev, NEW m \in LowSmds, Stored' = m, copy'["a"].ok,
         \A s \in Slots : tries'[s] = 0, ~Flushing',
         \/ ~reg'.magic /\ pc' # "bl"
         \/ /\ reg'.magic /\ pc' = "bl" /\ reg'.retry = m.retry
            /\ Best(m, reg'.slot) /\ reg'.flag = "ota"
  PROVE  Sound' /\ Tried' /\ \A s \in Slots : tries'[s] + Left(s)' <= MaxRetry
<1>1. ASSUME NEW s \in Slots PROVE tries'[s] + Left(s)' <= MaxRetry
  <2>1. Left(s)' = m.retry[s]
    BY DEF Left
  <2>2. m.retry[s] \in 0 .. MaxRetry
    BY DEF LowSmds
  <2> QED BY <2>1, <2>2, Bounds
<1>2. Sound'
  BY DEF Sound, Flushing
<1>3. Tried'
  <2>1. CASE ~reg'.magic
    BY <2>1 DEF Tried
  <2>2. CASE reg'.magic
    <3>1. reg'.slot \in Bootable(m) /\ reg'.slot = ActiveSlot(m)
      BY <2>2, BestFacts DEF Best
    <3>2. /\ reg'.slot \in Bootable(Stored)' /\ reg'.slot = ActiveSlot(Stored)'
      BY <3>1 DEF Bootable, ActiveSlot
    <3>3. reg'.slot \in Slots
      BY DEF Inv, Low, LowRegs
    <3>4. \A s \in Slots : reg'.retry[s] <= m.retry[s]
      <4>1. \A s \in Slots : m.retry[s] \in Nat
        BY Bounds DEF LowSmds
      <4> QED BY <2>2, <4>1
    <3> QED BY <2>2, <3>2, <3>3, <3>4 DEF Tried, ByRedundancyFlag
  <2> QED BY <2>1, <2>2
<1> QED BY <1>1, <1>2, <1>3

LEMMA UserTally ==
  ASSUME Tally, Inv', UNCHANGED dev,
         UserUp \/ \E s \in Slots : UserUpdates(s), faults = 0
  PROVE  Sound' /\ Tried' /\ \A s \in Slots : tries'[s] + Left(s)' <= MaxRetry
<1>1. ASSUME NEW m \in LowSmds, UserWrites(m)
      PROVE  Stored' = m /\ copy'["a"].ok /\ \A s \in Slots : tries'[s] = 0
  BY <1>1 DEF UserWrites, Stored, Good
<1>2. CASE UserUp
  <2>1. Mark(Stored, booted) \in LowSmds
    BY StoredFacts, SmdFacts DEF Tally, Inv, Low
  <2>2. ~reg'.magic /\ pc' = "up"
    BY <1>2 DEF UserUp, Tally, Tallied, Sound
  <2> QED BY <1>1, <1>2, <2>1, <2>2, AnewTally DEF UserUp, Flushing
<1>3. ASSUME NEW s \in Slots, UserUpdates(s)
      PROVE  Sound' /\ Tried' /\ \A x \in Slots : tries'[x] + Left(x)' <= MaxRetry
  <2>1. SetActive(Stored, s) \in LowSmds
    BY StoredFacts, SmdFacts DEF Tally, Inv, Low
  <2>2. ~reg'.magic /\ pc' = "off"
    BY <1>3 DEF UserUpdates, ResetTo, NoReg
  <2>3. UserWrites(SetActive(Stored, s))
    BY <1>3 DEF UserUpdates
  <2>4. ~Flushing' /\ pc' # "bl"
    BY <2>2 DEF Flushing
  <2> QED BY <1>1, <2>1, <2>2, <2>3, <2>4, AnewTally
<1> QED BY <1>2, <1>3

\* the slot made active is bootable and tops the other
LEMMA SetActiveFacts ==
  ASSUME NEW m \in LowSmds, NEW s \in Slots
  PROVE  /\ SetActive(m, s).retry[s] > 0
         /\ SetActive(m, s).pri[s] > SetActive(m, s).pri[Other(s)]
<1>1. m.pri[Other(s)] \in 0 .. MaxPriority /\ Other(s) \in Slots /\ Other(s) # s
  BY SlotFacts DEF LowSmds
<1>2. /\ SetActive(m, s).pri[s] = MaxPriority
      /\ SetActive(m, s).pri[Other(s)] =
           IF m.pri[Other(s)] > 1 THEN m.pri[Other(s)] - 1 ELSE m.pri[Other(s)]
  BY <1>1 DEF SetActive
<1>3. SetActive(m, s).retry[s] = MaxRetry
  BY DEF SetActive, LowSmds
<1> QED BY <1>1, <1>2, <1>3, Bounds

LEMMA SetActiveTally ==
  ASSUME Tally, UNCHANGED dev, NEW s \in Slots, slot_set_active(s), faults = 0
  PROVE  Sound' /\ Tried' /\ \A x \in Slots : tries'[x] + Left(x)' <= MaxRetry
<1>0. /\ Sound /\ \A x \in Slots : tries[x] + Left(x) <= MaxRetry
  BY DEF Tally, Tallied
<1>1. /\ pc = "bl" /\ pc' = "flush_a" /\ job' = s /\ s # Handoff
      /\ smd'.val = SetActive(Buffer, s)
      /\ UNCHANGED <<copy, reg, tries>>
  BY Bounds DEF slot_set_active, disk
<1>2. /\ smd'.val.retry[s] > 0 /\ smd'.val.pri[s] > smd'.val.pri[Other(s)]
  <2>1. Buffer \in LowSmds
    BY StoredFacts DEF Tally, Inv
  <2> QED BY <1>1, <2>1, SetActiveFacts
<1>3. Sound'
  BY <1>0, <1>1, <1>2 DEF Sound, Flushing
<1>4. Tried'
  BY <1>1 DEF Tried
<1>5. Stored' = Stored
  BY <1>1 DEF Stored
<1> QED BY <1>0, <1>1, <1>3, <1>4, <1>5 DEF Left

\* cboot takes the count of the register for its own, once it got back the try
\* of a slot that is good
LEMMA UpdateTally ==
  ASSUME Tally, UNCHANGED dev,
         UpdateOta \/ UpdateSwitched \/ UpdateRotate, faults = 0
  PROVE  Sound' /\ Tried' /\ \A s \in Slots : tries'[s] + Left(s)' <= MaxRetry
<1>0. /\ Sound /\ Tried /\ pc = "bl" /\ reg.magic /\ Low
      /\ reg \in LowRegs /\ tries \in [Slots -> 0 .. MaxRetry + 1]
      /\ \A s \in Slots : tries[s] + reg.retry[s] <= MaxRetry
      /\ \A s \in Slots : tries[s] \in Nat /\ reg.retry[s] \in Nat
      /\ MaxRetry \in Nat
  <2>1. /\ Sound /\ Tried /\ pc = "bl" /\ Low
        /\ \A s \in Slots : tries[s] + Left(s) <= MaxRetry
    BY DEF Tally, Inv, Tallied, UpdateOta, UpdateSwitched, UpdateRotate, Reaches
  <2>2. reg.magic
    BY <2>1 DEF Sound
  <2>3. \A s \in Slots : reg.retry[s] \in Nat /\ tries[s] \in Nat
    BY <2>1, Bounds DEF Low, LowRegs
  <2> QED BY <2>1, <2>2, <2>3, Bounds DEF Left, Low
<1>1. ASSUME NEW r, NEW pr, Update(r, pr), r.magic,
             \A s \in Slots : tries'[s] + r.retry[s] <= MaxRetry
      PROVE  Sound' /\ Tried' /\ \A s \in Slots : tries'[s] + Left(s)' <= MaxRetry
  <2>1. /\ pc' = "flush_a" /\ reg' = r /\ job' = Handoff /\ copy' = copy
        /\ smd'.val.retry = r.retry
    BY <1>1, StoredFacts, <1>0 DEF Update, disk, LowSmds
  <2> QED BY <2>1, <1>0, <1>1 DEF Sound, Tried, Left, Flushing
<1>2. ASSUME Settle = tries' PROVE \A s \in Slots : tries'[s] + reg.retry[s] <= MaxRetry
  <2>1. \A s \in Slots : tries'[s] = 0 \/ tries'[s] = tries[s]
    BY <1>0, <1>2 DEF Settle, LowRegs
  <2>2. \A s \in Slots : reg.retry[s] <= MaxRetry
    BY <1>0 DEF LowRegs
  <2> QED BY <2>1, <2>2, <1>0
<1>3. CASE UpdateOta
  BY <1>3, <1>0, <1>1, <1>2 DEF UpdateOta, Update
<1>4. CASE UpdateSwitched \/ UpdateRotate
  <2>1. ByRedundancy /\ \E pr : Update(Restored, pr)
    BY <1>4 DEF UpdateSwitched, UpdateRotate
  <2>2. ByRedundancyFlag /\ ~smd.loaded /\ Stored.succ[reg.slot]
    BY <2>1, <1>0 DEF ByRedundancy, ByRedundancyFlag, Tried
  <2>3. reg.retry[reg.slot] < MaxRetry
    BY <2>2, <1>0 DEF Tally, Inv, Taken
  <2>4. tries' = [tries EXCEPT ![reg.slot] = 0]
    BY <2>1, <2>2 DEF Update, Settle, Buffer
  <2>5. Restored.magic /\ Restored.retry = [reg.retry EXCEPT ![reg.slot] = @ + 1]
    BY <1>0 DEF Restored, LowRegs
  <2>6. \A s \in Slots : tries'[s] + Restored.retry[s] <= MaxRetry
    <3> SUFFICES ASSUME NEW s \in Slots
                 PROVE  tries'[s] + Restored.retry[s] <= MaxRetry
      OBVIOUS
    <3>1. CASE s = reg.slot
      <4>1. tries'[s] = 0 /\ Restored.retry[s] = reg.retry[s] + 1
        BY <3>1, <2>4, <2>5, <1>0 DEF LowRegs
      <4> QED BY <4>1, <3>1, <2>3, <1>0
    <3>2. CASE s # reg.slot
      <4>1. tries'[s] = tries[s] /\ Restored.retry[s] = reg.retry[s]
        BY <3>2, <2>4, <2>5, <1>0 DEF LowRegs
      <4> QED BY <4>1, <1>0
    <3> QED BY <3>1, <3>2
  <2> QED BY <2>1, <2>5, <2>6, <1>1
<1> QED BY <1>3, <1>4

LEMMA EnterDrops ==
  ASSUME Enter PROVE pc' = "kernel" /\ reg' = NoReg /\ ~NoReg.magic
  BY DEF Enter, NoReg

\* cboot enters the kernel without a flush: no count was taken, or only from
\* the active slot, which is good
LEMMA NothingTally ==
  ASSUME Tally, UNCHANGED dev, UpdateNothing, faults = 0
  PROVE  Sound' /\ Tried' /\ \A s \in Slots : tries'[s] + Left(s)' <= MaxRetry
<1>0. /\ Sound /\ Tried /\ pc = "bl" /\ reg.magic /\ Low
      /\ reg.slot \in Slots /\ Stored \in LowSmds
      /\ tries \in [Slots -> 0 .. MaxRetry + 1]
      /\ \A s \in Slots : tries[s] + reg.retry[s] <= MaxRetry
  <2>1. /\ Sound /\ Tried /\ pc = "bl" /\ Low
        /\ \A s \in Slots : tries[s] + Left(s) <= MaxRetry
    BY DEF Tally, Inv, Tallied, UpdateNothing, Reaches
  <2>2. reg.magic
    BY <2>1 DEF Sound
  <2> QED BY <2>1, <2>2, StoredFacts DEF Left, Low, LowRegs
<1>1. /\ pc' = "kernel" /\ ~reg'.magic /\ copy' = copy
      /\ tries' = Settle
  <2>1. CanLoad
    BY <1>0 DEF Sound, CanLoad, Readable
  <2> QED BY <2>1, EnterDrops DEF UpdateNothing, disk
<1>2. Stored' = Stored
  BY <1>1 DEF Stored
<1>3. Sound' /\ Tried'
  BY <1>0, <1>1 DEF Sound, Tried, Flushing
<1>n. /\ MaxRetry \in Nat
      /\ \A s \in Slots : tries[s] \in Nat /\ Stored.retry[s] \in Nat
                          /\ Stored.retry[s] <= MaxRetry
  BY <1>0, Bounds DEF LowSmds
<1>t. \A s \in Slots : tries'[s] = 0 \/ tries'[s] = tries[s]
  BY <1>0, <1>1 DEF Settle
<1>4. ASSUME NEW s \in Slots PROVE tries'[s] + Stored.retry[s] <= MaxRetry
  <2>1. CASE reg.flag = "off"
    <3>1. reg.retry = Stored.retry
      BY <2>1, <1>0 DEF Tried
    <3> QED BY <3>1, <1>0, <1>n, <1>t
  <2>2. CASE reg.flag # "off"
    <3>1. CanLoad
      BY <1>0 DEF Sound, CanLoad, Readable
    <3>2. /\ ByRedundancy /\ dev.mode = "bl"
          /\ Bootable(Buffer) = {} \/ ActiveSlot(Buffer) = reg.slot
      BY <2>2, <3>1, <1>0 DEF UpdateNothing, Accounts
    <3>3. ByRedundancyFlag /\ ~smd.loaded /\ Stored.succ[reg.slot]
      BY <3>2, <1>0 DEF ByRedundancy, ByRedundancyFlag, Tried
    <3>4. Buffer = Stored
      BY <3>3 DEF Buffer
    <3>5. ActiveSlot(Stored) = reg.slot
      BY <3>2, <3>4, <1>0 DEF Tried
    <3>6. reg.retry[Other(reg.slot)] = Stored.retry[Other(reg.slot)]
      BY <3>5, <1>0 DEF Tried
    <3>7. tries'[reg.slot] = 0
      BY <1>0, <1>1, <3>3, <3>4 DEF Settle
    <3>8. CASE s = reg.slot
      BY <3>7, <3>8, <1>n
    <3>9. CASE s # reg.slot
      <4>1. reg.retry[s] = Stored.retry[s]
        BY <3>6, <3>9, <1>0, SlotFacts
      <4> QED BY <4>1, <1>0, <1>n, <1>t
    <3> QED BY <3>8, <3>9
  <2> QED BY <2>1, <2>2
<1> QED BY <1>1, <1>2, <1>3, <1>4 DEF Left

LEMMA FlushTally ==
  ASSUME Tally, Inv', UNCHANGED dev, WritePrimary \/ WriteSecondary, faults = 0
  PROVE  Sound' /\ Tried' /\ \A s \in Slots : tries'[s] + Left(s)' <= MaxRetry
<1>0. /\ Sound /\ reg.magic /\ Flushing /\ Low
      /\ \A s \in Slots : tries[s] + Left(s) <= MaxRetry
  <2>1. Sound /\ Flushing /\ Low
    BY DEF Tally, Inv, Tallied, WritePrimary, WriteSecondary, Flushing
  <2> QED BY <2>1 DEF Tally, Tallied, Sound, Flushing
<1>1. CASE WritePrimary
  <2>1. /\ pc' = "flush_b" /\ copy'["a"] = Good(smd.val) /\ Good(smd.val).ok
        /\ UNCHANGED <<reg, smd, job, tries>>
    BY <1>1, <1>0 DEF WritePrimary, Low, Good
  <2> QED BY <2>1, <1>0 DEF Sound, Tried, Left, Flushing
<1>2. CASE WriteSecondary
  <2>1. /\ pc = "flush_b" /\ copy["a"] = Good(smd.val)
        /\ copy'["a"] = copy["a"] /\ smd' = smd /\ job' = job
    BY <1>2, <1>0 DEF WriteSecondary, Sound, Low
  <2>2. /\ Stored = smd.val /\ Stored' = smd.val /\ copy'["a"].ok
        /\ smd.val \in LowSmds
    BY <2>1, <1>0 DEF Stored, Good, Low
  <2>3. CASE job = Handoff
    <3>1. pc' = "kernel" /\ ~reg'.magic /\ tries' = tries
      BY <1>2, <2>3, EnterDrops DEF WriteSecondary
    <3>2. smd.val.retry = reg.retry
      BY <2>3, <1>0 DEF Sound
    <3>3. \A s \in Slots : Left(s)' = Left(s)
      BY <3>1, <3>2, <2>2, <1>0 DEF Left
    <3> QED BY <3>1, <3>3, <2>2, <1>0 DEF Sound, Tried, Flushing
  <2>4. CASE job # Handoff
    <3>0. job \in Slots
      BY <2>4, <1>0 DEF Low
    <3>1. /\ pc' = "bl" /\ reg' = SaveReg(smd.val, job, reg.flag)
          /\ \A s \in Slots : tries'[s] = 0
      BY <1>2, <2>4 DEF WriteSecondary
    <3>2. ~smd.val.succ[job]
      BY <2>4, <1>0 DEF Tally, Inv, Unproven
    <3>3. /\ reg'.magic /\ reg'.slot = job /\ reg'.retry = smd.val.retry
          /\ reg'.flag = "ota"
      BY <3>1, <3>2 DEF SaveReg
    <3>4. /\ smd.val.retry[job] > 0
          /\ smd.val.pri[job] > smd.val.pri[Other(job)]
      BY <2>4, <1>0 DEF Sound
    <3>5. Best(smd.val, job)
      <4>1. smd.val.pri[job] \in Nat /\ smd.val.pri[Other(job)] \in Nat
        BY <3>0, <2>2, SlotFacts, Bounds DEF LowSmds
      <4>2. job \in Bootable(smd.val)
        BY <3>0, <3>4, <4>1 DEF Bootable
      <4>3. \A o \in Bootable(smd.val) : o = job \/ o = Other(job)
        BY <3>0, SlotFacts DEF Bootable
      <4>4. job <= job
        BY <3>0 DEF Slots
      <4> QED BY <3>4, <4>1, <4>2, <4>3, <4>4 DEF Best
    <3>6. ~Flushing'
      BY <3>1 DEF Flushing
    <3> QED BY <3>1, <3>3, <3>5, <3>6, <2>2, AnewTally
  <2> QED BY <2>3, <2>4
<1> QED BY <1>1, <1>2

LEMMA TallyStep == Tally /\ [Next]_vars => Tally'
<1> SUFFICES ASSUME Tally, [Next]_vars PROVE Tallied'
  BY StepInv DEF Tally
<1>0. Inv'
  BY StepInv DEF Tally
<1>1. CASE UNCHANGED vars
  <2>1. UNCHANGED <<copy, reg, pc, smd, job, tries, faults, dev>>
    BY <1>1 DEF vars, disk
  <2>2. /\ Stored' = Stored /\ Bootable(Stored)' = Bootable(Stored)
        /\ ActiveSlot(Stored)' = ActiveSlot(Stored)
    BY <2>1 DEF Stored, Bootable, ActiveSlot
  <2>3. Sound => Sound'
    BY <2>1 DEF Sound, Flushing
  <2>4. Tried => Tried'
    BY <2>1, <2>2 DEF Tried, ByRedundancyFlag, Redundant
  <2>5. \A s \in Slots : Left(s)' = Left(s)
    BY <2>1, <2>2 DEF Left
  <2> QED BY <2>1, <2>3, <2>4, <2>5 DEF Tally, Tallied
<1>2. CASE FaultNext
  <2>1. faults' = faults + 1 /\ faults \in Nat
    BY <1>2, Bounds
       DEF FaultNext, PowerCycle, PrimaryError, SecondaryError, ResetInFlush,
           Tally, Inv, Low
  <2> QED BY <2>1 DEF Tallied
<1>3. CASE BootNext \/ UserNext
  <2>1. UNCHANGED <<dev, faults>>
    BY <1>3 DEF BootNext, UserNext, Mb1, Mb1Stuck, BlFails, slot_set_active,
               UpdateOta, UpdateSwitched, UpdateRotate, Update, UpdateNothing,
               WritePrimary, WriteSecondary, KernelFails, UserUp, UserReboots,
               UserUpdates
  <2> SUFFICES ASSUME faults = 0
               PROVE  Sound' /\ Tried'
                      /\ \A s \in Slots : tries'[s] + Left(s)' <= MaxRetry
    BY <2>1 DEF Tallied
  <2>2. CASE \E m \in {Stored, [Stored EXCEPT !.retry = reg.retry]} : Mb1(m)
    BY <2>1, <2>2, Mb1Tally
  <2>3. CASE Mb1Stuck \/ BlFails
    BY <2>1, <2>3, RestTally DEF Mb1Stuck, BlFails, ResetTo, Unloaded, disk
  <2>4. CASE KernelFails \/ UserReboots
    <3>1. /\ pc \in {"kernel", "up"} /\ pc' = "off" /\ reg' = NoReg
          /\ UNCHANGED <<copy, tries>>
      BY <2>4 DEF KernelFails, UserReboots, ResetTo, disk
    <3>2. /\ Sound /\ ~reg.magic /\ ~reg'.magic
          /\ \A s \in Slots : tries[s] + Left(s) <= MaxRetry
      BY <3>1 DEF Tally, Tallied, Sound, NoReg
    <3>3. Stored' = Stored
      BY <3>1 DEF Stored
    <3> QED BY <3>1, <3>2, <3>3 DEF Sound, Tried, Left, Flushing
  <2>5. CASE UserUp \/ \E s \in Slots : UserUpdates(s)
    BY <1>0, <2>1, <2>5, UserTally
  <2>6. CASE UpdateOta \/ UpdateSwitched \/ UpdateRotate
    BY <2>1, <2>6, UpdateTally
  <2>7. CASE UpdateNothing
    BY <2>1, <2>7, NothingTally
  <2>8. CASE WritePrimary \/ WriteSecondary
    BY <1>0, <2>1, <2>8, FlushTally
  <2>9. CASE \E s \in Slots : slot_set_active(s)
    BY <2>1, <2>9, SetActiveTally
  <2> QED BY <1>3, <2>2, <2>3, <2>4, <2>5, <2>6, <2>7, <2>8, <2>9
          DEF BootNext, UserNext
<1> QED BY <1>1, <1>2, <1>3 DEF Next

\* A slot that never works is given up after MaxRetry tries, on every device,
\* whatever mixture of hanging boot loaders, kernels that never come up and
\* requests to change the slot, as long as power stays on and no write fails.
THEOREM TriesBoundedTheorem == Spec => []TriesBounded
<1>1. ASSUME Tally, faults = 0, NEW s \in Slots PROVE tries[s] <= MaxRetry
  <2>1. tries[s] + Left(s) <= MaxRetry
    BY <1>1 DEF Tally, Tallied
  <2>2. tries[s] \in Nat /\ Left(s) \in Nat
    BY CountsFacts, <1>1 DEF Tally, Inv
  <2> QED BY <2>1, <2>2, Bounds
<1>2. Tally => TriesBounded
  BY <1>1 DEF TriesBounded
<1> QED BY <1>2, TallyInit, TallyStep, PTL DEF Spec

-----------------------------------------------------------------------------
Turned == Tally /\ Turns

\* rotate_slots_priority goes round the cycle of Phase
LEMMA RotatePhase ==
  ASSUME NEW pr \in [Slots -> 0 .. MaxPriority], NEW k \in Nat, NEW b \in Slots,
         NEW s \in Slots, Phase(pr, k, b), k <= 2,
         pr[s] >= pr[Other(s)], pr[0] = pr[1] => s = 0
  PROVE  LET n == IF s = b THEN k + 1 ELSE 1
         IN  /\ Phase(Rotate(pr, s), n, s) /\ n <= 2
             /\ \A x \in Slots : Rotate(pr, s)[x] > 0
<1> DEFINE n == IF s = b THEN k + 1 ELSE 1
           ro == Rotate(pr, s)
<1>m. MaxPriority \in Nat /\ MaxPriority >= 3
  BY Bounds
<1>d. DOMAIN pr = {0, 1}
  BY DEF Slots
<1>1. CASE pr[0] = MaxPriority /\ pr[1] = MaxPriority - 1 /\ (b = 0 => k = 0)
  <2>1. s = 0
    BY <1>1, <1>m DEF Slots, Other
  <2>2. ro[0] = MaxPriority - 1 /\ ro[1] = MaxPriority - 1
    BY <1>1, <1>m, <1>d, <2>1 DEF Rotate, Other
  <2>3. n <= 1
    BY <1>1, <2>1
  <2> QED BY <2>1, <2>2, <2>3, <1>m DEF Phase, Slots
<1>2. CASE pr[0] = MaxPriority - 1 /\ pr[1] = MaxPriority - 1 /\ (b = 0 => k <= 1)
  <2>1. s = 0
    BY <1>2
  <2>2. ro[0] = MaxPriority - 1 /\ ro[1] = MaxPriority
    BY <1>2, <1>m, <1>d, <2>1 DEF Rotate, Other
  <2>3. n <= 2
    BY <1>2, <2>1
  <2> QED BY <2>1, <2>2, <2>3, <1>m DEF Phase, Slots
<1>3. CASE pr[0] = MaxPriority - 1 /\ pr[1] = MaxPriority /\ (b = 1 => k = 0)
  <2>1. s = 1
    BY <1>3, <1>m DEF Slots, Other
  <2>2. ro[0] = MaxPriority - 2 /\ ro[1] = MaxPriority
    BY <1>3, <1>m, <1>d, <2>1 DEF Rotate, Other
  <2>3. n <= 1
    BY <1>3, <2>1
  <2> QED BY <2>1, <2>2, <2>3, <1>m DEF Phase, Slots
<1>4. CASE pr[0] = MaxPriority - 2 /\ pr[1] = MaxPriority /\ (b = 1 => k <= 1)
  <2>1. s = 1
    BY <1>4, <1>m DEF Slots, Other
  <2>2. ro[0] = MaxPriority /\ ro[1] = MaxPriority - 1
    BY <1>4, <1>m, <2>1 DEF Rotate, Other, Slots
  <2>3. n <= 2
    BY <1>4, <2>1
  <2> QED BY <2>1, <2>2, <2>3, <1>m DEF Phase, Slots
<1> QED BY <1>1, <1>2, <1>3, <1>4 DEF Phase

LEMMA TurnedInit == Init => Turned
<1> SUFFICES ASSUME Init, dev.mode = "user" PROVE Turning
  BY TallyInit DEF Turned, Turns
<1>1. /\ Stored.succ = [s \in Slots |-> TRUE]
      /\ Stored.pri = [s \in Slots |-> MaxPriority - s]
  BY DEF Init, Stored, Good, FirstSmd
<1>2. Phase(Stored.pri, ktries, booted)
  BY <1>1, Bounds DEF Init, Phase, Slots
<1>3. \A s \in Slots : Stored.succ[s] /\ Stored.pri[s] > 0
  BY <1>1, Bounds DEF Slots
<1> QED BY <1>2, <1>3 DEF Init, Turning, Flushing

LEMMA Mb1Turns ==
  ASSUME Turned, Turning, UNCHANGED dev, NEW m, Mb1(m), faults = 0, dev.mode = "user"
  PROVE  Turning'
<1> DEFINE s == ActiveSlot(m)
<1>0. Low /\ pc = "off" /\ ~smd.loaded /\ Redundant
  BY DEF Turned, Tally, Inv, Fresh, Mb1, Redundant
<1>1. /\ m \in LowSmds /\ m.pri = Stored.pri /\ m.succ = Stored.succ
      /\ \A x \in Slots : m.retry[x] = Left(x)
      /\ Stored \in LowSmds
  BY <1>0, StoredFacts DEF Mb1, Low, LowSmds, LowRegs, Left
<1>2. /\ Best(m, s) /\ s \in Slots /\ Left(s) > 0
  BY <1>1, BestFacts DEF Mb1, Best, Bootable
<1>3. /\ pc' = "bl" /\ UNCHANGED <<copy, smd, ktries, booted>>
      /\ reg' = SaveReg(CheckRetryCount(m, s), s, IF reg.magic THEN reg.flag ELSE "off")
  BY DEF Mb1, disk
<1>4. /\ CheckRetryCount(m, s).succ = m.succ
      /\ CheckRetryCount(m, s).retry[Other(s)] = m.retry[Other(s)]
  BY <1>1, <1>2, SlotFacts DEF CheckRetryCount, LowSmds
<1>5. m.succ[s]
  BY <1>1, <1>2 DEF Turning
<1>6. /\ reg'.slot = s /\ reg'.flag = "redundancy"
      /\ reg'.retry[Other(s)] = Left(Other(s))
  BY <1>0, <1>1, <1>2, <1>3, <1>4, <1>5, SlotFacts DEF SaveReg
<1>7. Stored' = Stored /\ Redundant'
  BY <1>0, <1>3 DEF Stored, Redundant
<1> HIDE DEF s
<1>8. ASSUME Left(Other(s)) # 0
      PROVE  /\ Phase(Stored.pri, ktries, booted)
             /\ Stored.pri[s] >= Stored.pri[Other(s)]
             /\ Stored.pri[0] = Stored.pri[1] => s = 0
  <2>1. \A x \in Slots : Left(x) # 0
    BY <1>2, <1>8, SlotFacts
  <2>2. Phase(Stored.pri, ktries, booted)
    BY <2>1, <1>0 DEF Turning
  <2>3. Other(s) \in Bootable(m)
    <3>1. Left(Other(s)) > 0 /\ Stored.pri[Other(s)] > 0 /\ Other(s) \in Slots
      BY <1>0, <1>2, <1>8, CountsFacts, SlotFacts DEF Turning
    <3> QED BY <3>1, <1>1 DEF Bootable
  <2>4. \/ Stored.pri[s] > Stored.pri[Other(s)]
        \/ Stored.pri[s] = Stored.pri[Other(s)] /\ s <= Other(s)
    BY <2>3, <1>1, <1>2 DEF Best
  <2>5. Stored.pri[0] \in Nat /\ Stored.pri[1] \in Nat
    BY <1>1, Bounds DEF LowSmds, Slots
  <2> QED BY <2>2, <2>4, <2>5, <1>2 DEF Slots, Other
<1>9. /\ ktries' <= 2 /\ \A x \in Slots : Stored'.succ[x] /\ Stored'.pri[x] > 0
  BY <1>3, <1>7 DEF Turning
<1>10. ByRedundancyFlag' /\ ~smd'.loaded /\ ~Flushing'
  BY <1>0, <1>3, <1>6, <1>7 DEF ByRedundancyFlag, Flushing
<1> QED BY <1>3, <1>6, <1>7, <1>8, <1>9, <1>10 DEF Turning

\* whatever ends a boot, and starts none
LEMMA EndsTurns ==
  ASSUME Turned, Turning, UNCHANGED dev, faults = 0,
         Mb1Stuck \/ BlFails \/ KernelFails \/ UserReboots
  PROVE  Turning'
<1>0. Sound
  BY DEF Turned, Tally, Tallied
<1>1. /\ UNCHANGED <<copy, ktries, booted>>
      /\ pc \in {"off", "bl", "kernel", "up"} /\ pc' \in {"off", "dead"}
      /\ reg' = reg \/ (reg' = NoReg /\ pc \in {"kernel", "up"})
  BY DEF Mb1Stuck, BlFails, KernelFails, UserReboots, ResetTo, disk
<1>2. Stored' = Stored
  BY <1>1 DEF Stored
<1>3. \A s \in Slots : Left(s)' = Left(s)
  BY <1>0, <1>1, <1>2 DEF Left, Sound, NoReg
<1>4. (\E s \in Slots : Left(s) = 0) \/ Phase(Stored.pri, ktries, booted)
  <2>1. CASE pc = "bl"
    <3>1. reg.magic /\ reg.slot \in Slots
      BY <1>0, <2>1 DEF Sound, Turned, Tally, Inv, Low, LowRegs
    <3>2. Left(Other(reg.slot)) = reg.retry[Other(reg.slot)] /\ Other(reg.slot) \in Slots
      BY <3>1, SlotFacts DEF Left
    <3> QED BY <2>1, <3>2 DEF Turning
  <2>2. CASE pc # "bl"
    BY <2>2, <1>1 DEF Turning
  <2> QED BY <2>1, <2>2
<1>5. (\E s \in Slots : Left(s)' = 0) \/ Phase(Stored'.pri, ktries', booted')
  BY <1>1, <1>2, <1>3, <1>4
<1> QED BY <1>1, <1>2, <1>5 DEF Turning, Flushing

LEMMA UserTurns ==
  ASSUME Turned, Turning, UNCHANGED dev, faults = 0, UserUp
  PROVE  Turning'
<1>0. /\ Stored \in LowSmds /\ booted \in Slots
  BY StoredFacts DEF Turned, Tally, Inv, Low
<1>1. /\ Stored' = Mark(Stored, booted) /\ pc' = "up"
      /\ ktries' = 0 /\ booted' = booted
  BY DEF UserUp, UserWrites, Stored, Good
<1>2. \A s \in Slots :
        /\ Mark(Stored, booted).succ[s]
        /\ Mark(Stored, booted).pri[s] = IF s = booted THEN MaxPriority ELSE MaxPriority - 1
  BY <1>0 DEF Mark, Turning, LowSmds
<1>3. Phase(Stored'.pri, ktries', booted')
  BY <1>0, <1>1, <1>2, Bounds DEF Phase, Slots
<1>4. \A s \in Slots : Stored'.succ[s] /\ Stored'.pri[s] > 0
  BY <1>1, <1>2, Bounds
<1> QED BY <1>1, <1>3, <1>4 DEF Turning, Flushing

\* with redundancy of everything each boot that gets to the kernel turns the
\* priorities, if both slots can be booted
LEMMA UpdateTurns ==
  ASSUME Turned, Turning, UNCHANGED dev, faults = 0, dev.mode = "user",
         UpdateOta \/ UpdateSwitched \/ UpdateRotate \/ UpdateNothing
  PROVE  Turning'
<1>0. /\ Sound /\ pc = "bl" /\ reg.magic /\ Low /\ Redundant
      /\ reg \in LowRegs /\ Stored \in LowSmds /\ Buffer = Stored
      /\ ByRedundancyFlag
  <2>1. pc = "bl" /\ Sound /\ Low
    BY DEF UpdateOta, UpdateSwitched, UpdateRotate, UpdateNothing, Reaches,
           Turned, Tally, Tallied, Inv
  <2> QED BY <2>1, StoredFacts DEF Sound, Redundant, Turning, Buffer, Low
<1>1. Accounts /\ ByRedundancy
  BY <1>0 DEF Accounts, ByRedundancy, ByRedundancyFlag, CanLoad, Sound, Readable
<1>2. UpdateRotate
  BY <1>1 DEF UpdateOta, UpdateSwitched, UpdateNothing
<1> DEFINE s  == reg.slot
           pr == IF OtherBootable THEN Rotate(Stored.pri, s) ELSE Stored.pri
<1>3. Update(Restored, pr)
  BY <1>0, <1>2 DEF UpdateRotate
<1>4. /\ pc' = "flush_a" /\ job' = Handoff /\ UNCHANGED <<copy, ktries, booted>>
      /\ reg' = Restored
      /\ smd'.val.succ = Stored.succ /\ smd'.val.pri = pr
  BY <1>0, <1>3 DEF Update, disk, LowSmds
<1>5. /\ reg'.slot = s /\ reg'.retry[Other(s)] = reg.retry[Other(s)] /\ s \in Slots
  BY <1>0, <1>4, SlotFacts DEF Restored, LowRegs
<1>6. OtherBootable <=> reg.retry[Other(s)] > 0
  BY <1>0 DEF OtherBootable, Turning
<1>7. CASE reg.retry[Other(s)] = 0
  <2>1. \A x \in Slots : smd'.val.succ[x] /\ smd'.val.pri[x] > 0
    BY <1>4, <1>6, <1>7 DEF Turning
  <2> QED BY <1>4, <1>5, <1>7, <2>1 DEF Turning, Flushing, Stored
<1>8. CASE reg.retry[Other(s)] # 0
  <2>1. reg.retry[Other(s)] > 0
    BY <1>0, <1>5, <1>8, SlotFacts, Bounds DEF LowRegs
  <2>2. pr = Rotate(Stored.pri, s)
    BY <2>1, <1>6
  <2>3. /\ Phase(Stored.pri, ktries, booted)
        /\ Stored.pri[s] >= Stored.pri[Other(s)]
        /\ Stored.pri[0] = Stored.pri[1] => s = 0
        /\ ktries <= 2
    BY <1>0, <1>8 DEF Turning
  <2>4. /\ ktries \in Nat /\ booted \in Slots
        /\ Stored.pri \in [Slots -> 0 .. MaxPriority]
    BY <1>0 DEF Low, LowSmds
  <2> HIDE DEF s, pr
  <2>5. /\ Phase(Rotate(Stored.pri, s), Kernels(s), s) /\ Kernels(s) <= 2
        /\ \A x \in Slots : Rotate(Stored.pri, s)[x] > 0
    BY <2>3, <2>4, <1>5, RotatePhase DEF Kernels
  <2>6. /\ Phase(smd'.val.pri, Kernels(reg.slot)', reg'.slot) /\ Kernels(reg.slot)' <= 2
        /\ \A x \in Slots : smd'.val.succ[x] /\ smd'.val.pri[x] > 0
    BY <1>4, <1>5, <2>2, <2>5 DEF Kernels, Turning
  <2>7. Stored' = Stored
    BY <1>4 DEF Stored
  <2> QED BY <1>4, <2>3, <2>6, <2>7 DEF Turning, Flushing
<1> QED BY <1>7, <1>8

LEMMA FlushTurns ==
  ASSUME Turned, Turning, UNCHANGED dev, faults = 0, WritePrimary \/ WriteSecondary
  PROVE  Turning'
<1>0. /\ Sound /\ reg.magic /\ Flushing /\ Low /\ job = Handoff
      /\ reg \in LowRegs /\ booted \in Slots /\ ktries \in Nat
      /\ smd.val.retry = reg.retry
  <2>1. Sound /\ Flushing /\ Low
    BY DEF Turned, Tally, Inv, Tallied, WritePrimary, WriteSecondary, Flushing
  <2> QED BY <2>1 DEF Sound, Flushing, Turning, Low
<1>1. CASE WritePrimary
  <2>1. /\ pc' = "flush_b" /\ copy'["a"] = Good(smd.val)
        /\ UNCHANGED <<reg, smd, job, ktries, booted>>
    BY <1>1, <1>0 DEF WritePrimary, Low
  <2>2. Stored' = smd.val
    BY <2>1 DEF Stored, Good
  <2> QED BY <2>1, <2>2, <1>0 DEF Turning, Flushing, Kernels
<1>2. CASE WriteSecondary
  <2>1. /\ copy["a"] = Good(smd.val) /\ copy'["a"] = copy["a"]
        /\ pc' = "kernel" /\ reg' = NoReg /\ booted' = reg.slot /\ Enter
    BY <1>2, <1>0 DEF WriteSecondary, Sound, Low, Enter
  <2>2. Stored = smd.val /\ Stored' = smd.val
    BY <2>1 DEF Stored, Good
  <2>3. \A s \in Slots : Left(s)' = reg.retry[s]
    BY <2>1, <2>2, <1>0 DEF Left, NoReg
  <2>4. \A s \in Slots : Stored.pri[s] > 0 /\ Stored.pri[s] # 0
    BY DEF Turning
  <2>5. CASE \E s \in Slots : reg.retry[s] = 0
    <3>1. ktries' = 0
      BY <2>1, <2>5 DEF Enter
    <3> QED BY <2>1, <2>2, <2>3, <2>5, <3>1, <1>0 DEF Turning, Flushing
  <2>6. CASE ~\E s \in Slots : reg.retry[s] = 0
    <3>0. ktries <= 2
      BY DEF Turning
    <3>1. ktries' = Kernels(reg.slot)
      BY <2>1, <2>4, <2>6, <3>0, <1>0 DEF Enter, Kernels
    <3>2. Other(reg.slot) \in Slots
      BY <1>0, SlotFacts DEF LowRegs
    <3>3. Phase(smd.val.pri, Kernels(reg.slot), reg.slot) /\ Kernels(reg.slot) <= 2
      BY <2>6, <3>2, <1>0 DEF Turning
    <3> QED BY <2>1, <2>2, <3>1, <3>3, <1>0 DEF Turning, Flushing
  <2> QED BY <2>5, <2>6
<1> QED BY <1>1, <1>2

LEMMA TurnedStep == Turned /\ [Next]_vars => Turned'
<1> SUFFICES ASSUME Turned, [Next]_vars PROVE Turns'
  BY TallyStep DEF Turned
<1>n. faults \in Nat /\ actives \in Nat
  BY Bounds DEF Turned, Tally, Inv, Low
<1>1. CASE UNCHANGED vars
  <2>1. UNCHANGED <<copy, reg, pc, smd, job, booted, ktries, faults, actives, dev>>
    BY <1>1 DEF vars, disk
  <2>2. Stored' = Stored
    BY <2>1 DEF Stored
  <2>3. \A s \in Slots : Left(s)' = Left(s)
    BY <2>1, <2>2 DEF Left
  <2> QED BY <2>1, <2>2, <2>3
          DEF Turned, Turns, Turning, Flushing, ByRedundancyFlag, Redundant, Kernels
<1>2. CASE FaultNext \/ \E s \in Slots : slot_set_active(s) \/ UserUpdates(s)
  <2>1. faults' = faults + 1 \/ actives' = actives + 1
    BY <1>2 DEF FaultNext, PowerCycle, PrimaryError, SecondaryError, ResetInFlush,
                slot_set_active, UserUpdates
  <2> QED BY <2>1, <1>n DEF Turns
<1>3. CASE BootNext \/ UserReboots
  <2>1. UNCHANGED <<dev, faults, actives>>
    BY <1>3 DEF BootNext, Mb1, Mb1Stuck, BlFails, UpdateOta, UpdateSwitched,
               UpdateRotate, Update, UpdateNothing, WritePrimary,
               WriteSecondary, KernelFails, UserUp, UserReboots
  <2> SUFFICES ASSUME dev.mode = "user", faults = 0, actives = 0
               PROVE  Turning'
    BY <2>1 DEF Turns
  <2>2. Turning
    BY DEF Turned, Turns
  <2> QED BY <1>3, <2>1, <2>2, Mb1Turns, EndsTurns, UserTurns, UpdateTurns, FlushTurns
          DEF BootNext
<1> QED BY <1>1, <1>2, <1>3 DEF Next, UserNext

\* While both slots can be booted, no kernel is entered a third time in a row,
\* for every retry count and top priority, whatever fails: the policy that
\* check_user_redundancy_status states for rotate_slots_priority.
THEOREM TwoKernelTriesTheorem == Spec => []TwoKernelTries
<1>1. Turned => TwoKernelTries
  BY DEF Turned, Turns, Turning, TwoKernelTries
<1> QED BY <1>1, TurnedInit, TurnedStep, PTL DEF Spec
=============================================================================
