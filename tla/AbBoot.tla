------------------------------- MODULE AbBoot -------------------------------
(***************************************************************************)
(* The choice of the boot slot and its bookkeeping:                        *)
(* tegrabl_a_b_boot_control.c with its callers in cboot, over many boots.  *)
(*                                                                         *)
(* Slot meta data (SMD) is kept in two partitions, SMD_a and SMD_b, and,   *)
(* for the boot under way, in a scratch register that a warm reset keeps   *)
(* and a power cycle loses.  MB1 (not in this repository; it is the other  *)
(* caller of this library) picks a slot; cboot may be told over fastboot   *)
(* to change it, and settles the accounts before it enters the kernel;     *)
(* user space marks the slot good.                                         *)
(***************************************************************************)
EXTENDS Integers, FiniteSets

CONSTANTS Devices,     \* the devices looked at, members of Device
          MaxRetry,    \* SLOT_RETRY_COUNT_DEFAULT (7)
          MaxPriority, \* SLOT_PRIORITY_DEFAULT (15)
          MaxFaults,   \* bound on power cycles, resets in a write, write errors
          MaxActive    \* bound on requests to change the slot

Slots == {0, 1}

\* mode: redundancy asked for by the SMD version; slots whose boot loader never
\* reaches cboot, or whose kernel never comes up; whether good ones fail as well,
\* and whether a write of an SMD partition may be reported to fail
Device == [mode : {"none", "bl", "user"}, badBl : SUBSET Slots,
           badKernel : SUBSET Slots, flaky : BOOLEAN, writeErrors : BOOLEAN]

ASSUME DevicesAssumption == Devices \subseteq Device
ASSUME RetryAssumption == MaxRetry \in 1 .. 15
ASSUME MaxPriorityAssumption == MaxPriority \in 3 .. 15
ASSUME BoundsAssumption == MaxFaults \in Nat /\ MaxActive \in Nat

VARIABLES
  dev,     \* the device, which no step changes
  copy,    \* copy[c]: partition SMD_c: its content, and whether its crc fits
  reg,     \* the scratch register
  pc,      \* "off", "bl", "flush_a", "flush_b", "kernel", "up" or "dead"
  smd,     \* cboot's buffer: loaded, and its content
  job,     \* who flushes: a slot set active by fastboot, or Handoff
  booted,  \* slot of the kernel that was entered
  tries,   \* tries[s]: tries MB1 took from s since s was last settled, MaxRetry + 1
           \* standing for more
  ktries,  \* kernels of slot booted entered in a row with both slots bootable
  durable, \* the SMD last reported as written
  exact,   \* no write was interrupted or reported to fail since
  faults, actives  \* bounds

disk == <<copy, durable, exact>>
vars == <<dev, copy, reg, pc, smd, job, booted, tries, ktries, durable, exact,
          faults, actives>>

Other(s) == 1 - s

Handoff == 2

Smds == [pri : [Slots -> 0 .. MaxPriority], retry : [Slots -> 0 .. 15],
         succ : [Slots -> BOOLEAN]]

Flags == {"off", "redundancy", "ota"}

Redundant == dev.mode # "none"

(***************************************************************************)
(* Pure parts of the library; m is an SMD.                                 *)
(***************************************************************************)
Bootable(m) == {s \in Slots : m.retry[s] > 0 /\ m.pri[s] > 0}

\* mutant: the first bootable slot, whatever its priority
FirstSlot(m) == CHOOSE s \in Bootable(m) : \A o \in Bootable(m) : s <= o

\* the bootable slot of highest priority, the first of them
ActiveSlot(m) ==
  CHOOSE s \in Bootable(m) :
    \A o \in Bootable(m) : m.pri[s] > m.pri[o] \/ (m.pri[s] = m.pri[o] /\ s <= o)

SetActive(m, s) ==
  [pri   |-> [o \in Slots |-> IF o = s THEN MaxPriority
                              ELSE IF m.pri[o] > 1 THEN m.pri[o] - 1
                              ELSE m.pri[o]],
   retry |-> [m.retry EXCEPT ![s] = MaxRetry],
   succ  |-> [m.succ EXCEPT ![s] = FALSE]]

\* mutant: redundancy takes no tries
CheckUnproven(m, s) == IF ~m.succ[s] THEN [m EXCEPT !.retry[s] = @ - 1] ELSE m

\* a slot that is not known to be good, or may go bad, loses one try
CheckRetryCount(m, s) ==
  IF Redundant \/ ~m.succ[s] THEN [m EXCEPT !.retry[s] = @ - 1] ELSE m

\* mutant: the register gets the counts from before the try was taken
SaveRegEarly(m, s, flag) ==
  [magic |-> TRUE, slot |-> s, retry |-> [m.retry EXCEPT ![s] = @ + 1],
   flag |-> IF ~m.succ[s] THEN "ota" ELSE IF Redundant THEN "redundancy" ELSE flag]

\* the flag is left as it was for a good slot without redundancy
SaveReg(m, s, flag) ==
  [magic |-> TRUE, slot |-> s, retry |-> m.retry,
   flag |-> IF ~m.succ[s] THEN "ota" ELSE IF Redundant THEN "redundancy" ELSE flag]

NoReg == [magic |-> FALSE, slot |-> 0, retry |-> [s \in Slots |-> 0], flag |-> "off"]

\* mutants: priorities are reversed from where they are; the gap keeps growing
RotateReversed(pr, c) ==
  IF c = 0 THEN IF pr[0] > pr[1] THEN [pr EXCEPT ![0] = @ - 1]
                                 ELSE [pr EXCEPT ![1] = @ + 1]
  ELSE IF pr[1] = pr[0] + 1 THEN [pr EXCEPT ![0] = @ - 1]
  ELSE [s \in Slots |-> IF s = 0 THEN pr[1] + 1 ELSE pr[1]]

RotateGap(pr, c) ==
  IF c = 0 THEN IF pr[0] > pr[1] THEN [pr EXCEPT ![0] = @ - 1]
                                 ELSE [pr EXCEPT ![1] = @ + 1]
  ELSE IF pr[0] > 1 THEN [pr EXCEPT ![0] = @ - 1]
  ELSE [s \in Slots |-> IF s = 0 THEN MaxPriority ELSE MaxPriority - 1]

\* the priorities pr after a boot of slot c that got as far as the kernel
Rotate(pr, c) ==
  LET o == Other(c)
  IN  IF c = 0
        THEN IF pr[c] > pr[o] THEN [pr EXCEPT ![c] = @ - 1]
             ELSE IF pr[o] < MaxPriority THEN [pr EXCEPT ![o] = @ + 1]
             ELSE [pr EXCEPT ![c] = pr[o] - 1]
        ELSE IF pr[c] = pr[o] + 1
               THEN IF pr[o] > 1 THEN [pr EXCEPT ![o] = @ - 1]
                                 ELSE [pr EXCEPT ![c] = @ + 1]
               ELSE [s \in Slots |-> IF s = c THEN MaxPriority - 1 ELSE MaxPriority]

(***************************************************************************)
(* tegrabl_a_b_get_smd: the primary copy, or else the secondary.           *)
(***************************************************************************)
\* mutant: the secondary copy is never looked at
ReadablePrimary == {c \in {"a"} : copy[c].ok}

Readable == {c \in {"a", "b"} : copy[c].ok}

Stored == IF copy["a"].ok THEN copy["a"].smd ELSE copy["b"].smd

\* the SMD that cboot works on
Buffer == IF smd.loaded THEN smd.val ELSE Stored

CanLoad == smd.loaded \/ Readable # {}

FirstSmd == [pri   |-> [s \in Slots |-> MaxPriority - s],
             retry |-> [s \in Slots |-> MaxRetry],
             succ  |-> [s \in Slots |-> TRUE]]

Unloaded == [loaded |-> FALSE, val |-> FirstSmd]

Corrupt == [ok |-> FALSE, smd |-> FirstSmd]

Good(m) == [ok |-> TRUE, smd |-> m]

Init ==
  /\ dev \in Devices
  /\ copy = [c \in {"a", "b"} |-> Good(FirstSmd)]
  /\ reg = NoReg
  /\ pc = "off"
  /\ smd = Unloaded
  /\ job = Handoff
  /\ booted = 0
  /\ tries = [s \in Slots |-> 0] /\ ktries = 0
  /\ durable = FirstSmd /\ exact = TRUE
  /\ faults = 0 /\ actives = 0

(***************************************************************************)
(* MB1, as the library is made for it: the retry counts of a boot that a   *)
(* warm reset cut short are those of the register.                         *)
(***************************************************************************)
Mb1(m) ==
  LET s == ActiveSlot(m)
  IN  /\ pc = "off"
      /\ Readable # {}
      /\ m = IF reg.magic THEN [Stored EXCEPT !.retry = reg.retry] ELSE Stored
      /\ Bootable(m) # {}
      /\ reg' = SaveReg(CheckRetryCount(m, s), s,
                        IF reg.magic THEN reg.flag ELSE "off")
      /\ pc' = "bl"
      /\ tries' = IF CheckRetryCount(m, s) # m /\ tries[s] <= MaxRetry
                   THEN [tries EXCEPT ![s] = @ + 1] ELSE tries
      /\ UNCHANGED <<dev, disk, smd, job, booted, ktries, faults, actives>>

\* no SMD, or no bootable slot: recovery mode
Mb1Stuck ==
  /\ pc = "off"
  /\ Readable = {} \/
       Bootable(IF reg.magic THEN [Stored EXCEPT !.retry = reg.retry]
                             ELSE Stored) = {}
  /\ pc' = "dead"
  /\ UNCHANGED <<dev, disk, reg, smd, job, booted, tries, ktries, faults, actives>>

\* back to MB1; cboot's memory is gone, the register only if power was cut
ResetTo(r) ==
  /\ pc' = "off"
  /\ smd' = Unloaded
  /\ job' = Handoff
  /\ reg' = r

\* the boot loader of the slot hangs or crashes; a watchdog resets
BlFails ==
  /\ pc = "bl"
  /\ dev.flaky \/ reg.slot \in dev.badBl
  /\ ResetTo(reg)
  /\ UNCHANGED <<dev, disk, booted, tries, ktries, faults, actives>>

PowerCycle ==
  /\ pc = "bl" /\ faults < MaxFaults
  /\ ResetTo(NoReg)
  /\ faults' = faults + 1
  /\ UNCHANGED <<dev, disk, booted, tries, ktries, actives>>

(***************************************************************************)
(* fastboot_a_b_slot_set_active.                                           *)
(***************************************************************************)
slot_set_active(s) ==
  /\ pc = "bl" /\ reg.slot \notin dev.badBl
  /\ actives < MaxActive
  /\ CanLoad
  /\ smd' = [loaded |-> TRUE, val |-> SetActive(Buffer, s)]
  /\ job' = s
  /\ pc' = "flush_a"
  /\ actives' = actives + 1
  /\ UNCHANGED <<dev, disk, reg, booted, tries, ktries, faults>>

(***************************************************************************)
(* tegrabl_a_b_update_smd, just before the kernel.                         *)
(***************************************************************************)
Accounts == reg.magic /\ reg.flag # "off" /\ CanLoad

\* enter the kernel with the register cleared
Enter ==
  /\ pc' = "kernel"
  /\ reg' = NoReg
  /\ booted' = reg.slot
  /\ ktries' = IF \E s \in Slots : reg.retry[s] = 0 \/ Stored.pri[s] = 0 THEN 0
               ELSE IF reg.slot # booted THEN 1
               ELSE IF ktries > 2 THEN 3 ELSE ktries + 1

\* a try is over for a slot that is good and got this far
Settle == IF Buffer.succ[reg.slot] THEN [tries EXCEPT ![reg.slot] = 0] ELSE tries

\* the register after the current slot got back the try it used
Restored == [reg EXCEPT !.retry[reg.slot] = @ + 1]

Update(r, pr) ==
  /\ reg' = r
  /\ smd' = [loaded |-> TRUE, val |-> [Buffer EXCEPT !.pri = pr, !.retry = r.retry]]
  /\ job' = Handoff
  /\ pc' = "flush_a"
  /\ tries' = Settle
  /\ UNCHANGED <<dev, disk, booted, ktries, faults, actives>>

Reaches == pc = "bl" /\ reg.slot \notin dev.badBl

ByRedundancy == Accounts /\ reg.flag = "redundancy" /\ Redundant

OtherBootable ==
  reg.retry[Other(reg.slot)] > 0 /\ \A s \in Slots : Buffer.pri[s] > 0

\* an update is under way: the used try is made permanent
UpdateOta ==
  /\ Reaches /\ Accounts /\ ~ByRedundancy
  /\ Update(reg, Buffer.pri)

\* redundancy of the boot loader only: when this boot switched slots
UpdateSwitched ==
  /\ Reaches /\ ByRedundancy /\ dev.mode = "bl"
  /\ Bootable(Buffer) # {}
  /\ ActiveSlot(Buffer) # reg.slot
  /\ Update(Restored, Buffer.pri)

\* redundancy of everything: priorities turn, if both slots can be booted (the
\* assertion on their order is compiled out: no build file here turns it on)
UpdateRotate ==
  /\ Reaches /\ ByRedundancy /\ dev.mode = "user"
  /\ Update(Restored, IF OtherBootable THEN Rotate(Buffer.pri, reg.slot)
                                      ELSE Buffer.pri)

UpdateNothing ==
  /\ Reaches
  /\ \/ ~Accounts
     \/ ByRedundancy /\ dev.mode = "bl"
        /\ (Bootable(Buffer) = {} \/ ActiveSlot(Buffer) = reg.slot)
  /\ Enter
  /\ tries' = IF CanLoad THEN Settle ELSE tries
  /\ UNCHANGED <<dev, disk, smd, job, faults, actives>>

(***************************************************************************)
(* tegrabl_a_b_flush_smd: the primary copy, then, whatever became of it,   *)
(* the secondary, whose error alone is returned.                           *)
(***************************************************************************)
Torn(c) == \E x \in {copy[c], Corrupt} : copy' = [copy EXCEPT ![c] = x]

WritePrimary ==
  /\ pc = "flush_a"
  /\ copy' = [copy EXCEPT !["a"] = Good(smd.val)]
  /\ pc' = "flush_b"
  /\ UNCHANGED <<dev, reg, smd, job, booted, tries, ktries, durable, exact,
                 faults, actives>>

PrimaryError ==
  /\ pc = "flush_a" /\ dev.writeErrors /\ faults < MaxFaults
  /\ Torn("a")
  /\ pc' = "flush_b"
  /\ faults' = faults + 1
  /\ UNCHANGED <<dev, reg, smd, job, booted, tries, ktries, durable, exact, actives>>

\* the caller goes on: fastboot moves the register to the slot it set active
WriteSecondary ==
  /\ pc = "flush_b"
  /\ copy' = [copy EXCEPT !["b"] = Good(smd.val)]
  /\ durable' = smd.val /\ exact' = TRUE
  /\ IF job = Handoff
       THEN Enter /\ UNCHANGED tries
       ELSE /\ pc' = "bl"
            /\ reg' = SaveReg(smd.val, job, reg.flag)
            /\ tries' = [s \in Slots |-> 0] /\ ktries' = 0
            /\ UNCHANGED booted
  /\ UNCHANGED <<dev, smd, job, faults, actives>>

\* fastboot reports the error; the way to the kernel ignores it
SecondaryError ==
  /\ pc = "flush_b" /\ dev.writeErrors /\ faults < MaxFaults
  /\ Torn("b")
  /\ exact' = FALSE
  /\ faults' = faults + 1
  /\ IF job = Handoff THEN Enter
                      ELSE pc' = "bl" /\ UNCHANGED <<reg, booted, ktries>>
  /\ UNCHANGED <<dev, smd, job, tries, durable, actives>>

\* a warm reset or a power cut in the middle of a write
ResetInFlush ==
  /\ pc \in {"flush_a", "flush_b"} /\ faults < MaxFaults
  /\ Torn(IF pc = "flush_a" THEN "a" ELSE "b")
  /\ \E r \in {reg, NoReg} : ResetTo(r)
  /\ exact' = FALSE
  /\ faults' = faults + 1
  /\ UNCHANGED <<dev, booted, tries, ktries, durable, actives>>

(***************************************************************************)
(* The kernel and user space (not in this repository).  Kernels of a boot  *)
(* loader with its own redundancy all come from slot 0.                    *)
(***************************************************************************)
KernelSlot == IF dev.mode = "bl" THEN 0 ELSE booted

KernelFails ==
  /\ pc = "kernel"
  /\ dev.flaky \/ KernelSlot \in dev.badKernel
  /\ ResetTo(NoReg)
  /\ UNCHANGED <<dev, disk, booted, tries, ktries, faults, actives>>

\* user space writes both copies
UserWrites(m) ==
  /\ copy' = [c \in {"a", "b"} |-> Good(m)]
  /\ durable' = m /\ exact' = TRUE
  /\ tries' = [s \in Slots |-> 0] /\ ktries' = 0

\* "UE restores slots priorities", and marks the slot good
Mark(m, s) ==
  [pri   |-> [o \in Slots |-> IF o = s THEN MaxPriority
                              ELSE IF m.pri[o] > 0 THEN MaxPriority - 1 ELSE 0],
   retry |-> [m.retry EXCEPT ![s] = MaxRetry],
   succ  |-> [m.succ EXCEPT ![s] = TRUE]]

UserUp ==
  /\ pc = "kernel" /\ KernelSlot \notin dev.badKernel
  /\ Readable # {}
  /\ UserWrites(Mark(Stored, booted))
  /\ pc' = "up"
  /\ UNCHANGED <<dev, reg, smd, job, booted, faults, actives>>

UserReboots ==
  /\ pc = "up"
  /\ ResetTo(NoReg)
  /\ UNCHANGED <<dev, disk, booted, tries, ktries, faults, actives>>

\* an update was installed in slot s
UserUpdates(s) ==
  /\ pc = "up" /\ actives < MaxActive
  /\ UserWrites(SetActive(Stored, s))
  /\ ResetTo(NoReg)
  /\ actives' = actives + 1
  /\ UNCHANGED <<dev, booted, faults>>

\* MB1, the boot loader and cboot left to themselves
BootNext ==
  \/ \E m \in {Stored, [Stored EXCEPT !.retry = reg.retry]} : Mb1(m)
  \/ Mb1Stuck \/ BlFails \/ KernelFails \/ UserUp
  \/ UpdateOta \/ UpdateSwitched \/ UpdateRotate \/ UpdateNothing
  \/ WritePrimary \/ WriteSecondary

FaultNext == PowerCycle \/ PrimaryError \/ SecondaryError \/ ResetInFlush

UserNext ==
  UserReboots \/ \E s \in Slots : slot_set_active(s) \/ UserUpdates(s)

Next == BootNext \/ FaultNext \/ UserNext

Spec == Init /\ [][Next]_vars

\* A boot goes on by itself (reset or watchdog).  No user is needed.
FairSpec == Spec /\ WF_vars(BootNext)

-----------------------------------------------------------------------------
Regs == [magic : BOOLEAN, slot : Slots, retry : [Slots -> 0 .. 15], flag : Flags]

TypeOK ==
  /\ dev \in Device
  /\ copy \in [{"a", "b"} -> [ok : BOOLEAN, smd : Smds]]
  /\ reg \in Regs
  /\ pc \in {"off", "bl", "flush_a", "flush_b", "kernel", "up", "dead"}
  /\ smd \in [loaded : BOOLEAN, val : Smds]
  /\ job \in Slots \cup {Handoff}
  /\ booted \in Slots
  /\ tries \in [Slots -> 0 .. MaxRetry + 1] /\ ktries \in 0 .. 3
  /\ durable \in Smds /\ exact \in BOOLEAN
  /\ faults \in 0 .. MaxFaults /\ actives \in 0 .. MaxActive

\* Tries are given back only where they were taken: over any number of boots,
\* resets and failures no retry count, in the SMD, cboot's buffer or the 4 bits
\* of the register, exceeds the full count ("range [0:7]",
\* tegrabl_a_b_boot_control.h), for MB1 takes a try before cboot restores it.
RetryInRange ==
  \A s \in Slots :
    /\ \A c \in {"a", "b"} : copy[c].smd.retry[s] <= MaxRetry
    /\ smd.val.retry[s] <= MaxRetry
    /\ reg.retry[s] <= MaxRetry

\* "current slot priority must be greater or equal than non-current slot": the
\* assertion of check_user_redundancy_status.  (A set_active whose flush reports
\* an error leaves its change in cboot's buffer, and then it fails.)
CurrentHighest ==
  (/\ Reaches /\ ByRedundancy /\ dev.mode = "user" /\ OtherBootable
   /\ ~dev.writeErrors) =>
    Buffer.pri[reg.slot] >= Buffer.pri[Other(reg.slot)]

\* A slot that never works is given up: while power stays on MB1 picks it at
\* most MaxRetry times, whether its boot loader fails (tries are counted in the
\* register) or its kernel (they are counted in the SMD), in any order.
TriesBounded ==
  faults = 0 => \A s \in Slots : tries[s] <= MaxRetry

\* "the policy is to try up to two times on a slot by changing slot's priority.
\* When expired, switch slot and try again" (check_user_redundancy_status):
\* with two bootable slots no kernel is entered a third time in a row.
TwoKernelTries ==
  (dev.mode = "user" /\ faults = 0 /\ actives = 0) => ktries <= 2

\* A flush that reports success has made the SMD durable: it is what the next
\* boot reads ("@return TEGRABL_NO_ERROR if writing was successful",
\* tegrabl_a_b_flush_smd).
FlushDurable == (exact /\ pc \notin {"flush_a", "flush_b"}) => Stored = durable

\* With a good slot to fall back on, a device whose other slot is bad in boot
\* loader or kernel comes up in the end, also when one flush was cut short and
\* left a torn copy (tegrabl_a_b_get_smd then takes the other).
FallsBack == pc = "off" /\ ~dev.flaky ~> pc = "up"
=============================================================================
