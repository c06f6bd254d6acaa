------------------------------- MODULE Fastboot -------------------------------
(***************************************************************************)
(* Fastboot mode: the thread that serves the host's commands               *)
(* (tegrabl_fastboot_protocol.c, fastboot.c), the main thread that draws   *)
(* the menu meanwhile (menu.c, fastboot.c), the mutex between them, and    *)
(* the storage that flashing, erasing, unlocking and updating write.       *)
(*                                                                         *)
(* The host, the user at the keys, the power supply and the storage device *)
(* may each do what they like; what they do to hinder is counted in faults.*)
(***************************************************************************)
EXTENDS Unsparse, BootUpdate

CONSTANTS Images,      \* images that the host may send
          MaxDownload, \* MAX_DOWNLOAD_SIZE
          MaxCmds,     \* bound on commands
          MaxFaults    \* bound on faults

ASSUME FastbootAssumption == MaxCmds \in Nat /\ MaxFaults \in Nat /\ MaxDownload \in Nat

\* the BCT has no slots, and there is room for a block as the boot ROM counts; a slot of
\* it is rounded up to blocks of the device, and each name has partitions of its own
ASSUME LayoutAssumption ==
  /\ {"data", "BCT"} \subseteq DOMAIN Start /\ BootBlock <= Size["BCT"]
  /\ SlotParts \in [DOMAIN Dependency -> [{0, 1} -> DOMAIN Start]]
  /\ \A name \in DOMAIN Dependency, slot \in {0, 1} :
       SlotParts[name][slot] = "BCT" <=> name = "BCT"
  /\ \A m, n \in DOMAIN Dependency, s, t \in {0, 1} :
       SlotParts[m][s] = SlotParts[n][t] => m = n
  /\ BctSlot % BlockUnits = 0

\* what a download may hold
ASSUME ImagesAssumption ==
  \A img \in Images :
    \/ img.kind = "raw" /\ img.data \in Seq(Int)
    \/ img.kind = "sparse" /\ img.units \in Nat /\ IsSparse(img)
    \/ img.kind = "payload" /\ img.data \in Seq(Int) /\ IsPayload(img)

VARIABLES
  disk,    \* units of the storage device
  unlocked, \* the lock bit of the ODM data in memory, the other way around
  fb,      \* where the fastboot thread is
  state,   \* fastboot_state
  cmd,     \* the command, with the image and the lock state when it came, and whether an
           \* update is for all slots
  job,     \* what its handler has yet to do
  buf,     \* what download_base holds, None after a download that failed
  cap,     \* size that download_base was allocated with, -1 while it is not
  bup,     \* is_new_bup_checked, is_required of the last check, global_nct_spec
  main,    \* where the main thread is
  status,  \* thread_state: RUNNING, PAUSED or TERMINATED
  holder,  \* who holds menu_mutex
  queued,  \* the fastboot thread is in the wait queue of menu_mutex
  answer,  \* the answer that the host got to cmd
  was,     \* the disk when cmd came
  dropped, \* an error was dropped while cmd was served
  cmds, faults

ram == <<state, job, buf, cap, bup, queued>>
vars == <<disk, unlocked, fb, state, cmd, job, buf, cap, bup, main, status, holder,
          queued, answer, was, dropped, cmds, faults>>

None == [kind |-> "none"]
Idle == [kind |-> "idle"]

Commands ==
  [op : {"download"}, arg : Images]
    \cup [op : {"flash"}, arg : {"data", "bootloader_a", "bootloader_b"}]
    \cup [op : {"erase"}, arg : {"data"}]
    \cup [op : {"flashing"}, arg : {"lock", "unlock"}]
    \cup [op : {"continue", "reboot", "getvar", "unknown"}, arg : {""}]

\* the slot of a partition name's suffix
SlotOf(arg) == IF arg = "bootloader_b" THEN 1 ELSE 0

\* the statics of tegrabl_bootloader_update.c
BupStart == [checked |-> FALSE, required |-> FALSE, spec |-> "unread"]

RamInit ==
  /\ fb = "recv" /\ state = "OFFLINE" /\ job = Idle /\ buf = None /\ cap = -1
  /\ bup = BupStart
  /\ main = "draw" /\ status = "RUNNING" /\ holder = "none" /\ queued = FALSE

\* where the copies of the BCT start, and what is in one
BctStarts == [i \in DOMAIN BctCopies(Size["BCT"]) |->
                Start["BCT"] + BctCopies(Size["BCT"])[i]]

OdmUnits == {BctStarts[i] : i \in DOMAIN BctStarts}

BctAt(d, start) == [i \in 1 .. ImageUnits["BCT"] |-> d[start + i - 1]]

\* a copy that was written in full; its signature leaves the ODM data out
WholeBct(d, start) ==
  \A i \in 2 .. ImageUnits["BCT"] : BctAt(d, start)[i] = d[start] % LockBit

Init ==
  /\ RamInit
  /\ unlocked \in BOOLEAN
  /\ disk = [u \in UNION {UnitsOf(p) : p \in DOMAIN Start} |->
               IF u \in OdmUnits THEN SetOdm(0, unlocked) ELSE 0]
  /\ cmd = [op |-> "", arg |-> "", img |-> None, open |-> FALSE, stale |-> FALSE,
            all |-> FALSE]
  /\ answer = "none" /\ was = disk /\ dropped = FALSE /\ cmds = 0 /\ faults = 0

Fault == faults < MaxFaults /\ faults' = faults + 1

-------------------------------------------------------------------------------
(***************************************************************************)
(* The fastboot thread.                                                    *)
(***************************************************************************)

\* fastboot_ack(): only the first answer to a command goes out
Ack(a) ==
  /\ answer' = IF state = "COMMAND" THEN a ELSE answer
  /\ state' = IF state = "COMMAND" THEN "COMPLETE" ELSE state

\* the handler comes back, with the mutex still held
Done(a) == Ack(a) /\ fb' = "unlock" /\ job' = Idle

\* tegrabl_fastboot_command_handler() receives a command and finds its handler
Receive ==
  \E c \in Commands :
    /\ fb = "recv" /\ cmds < MaxCmds
    /\ cmds' = cmds + 1
    /\ cmd' = [op |-> c.op, arg |-> c.arg, img |-> buf, open |-> unlocked,
               stale |-> bup.checked, all |-> FALSE]
    /\ was' = disk
    /\ dropped' = FALSE
    /\ IF c.op = "unknown"
         THEN answer' = "FAIL" /\ state' = "COMPLETE" /\ UNCHANGED fb
         ELSE answer' = "none" /\ state' = "COMMAND" /\ fb' = "lock"
    /\ UNCHANGED <<disk, unlocked, job, buf, cap, bup, main, status, holder, queued, faults>>

\* fastboot_server() ends
Exit == fb' = "exit" /\ status' = "TERMINATED"

\* the host is gone: usbf_receive() fails
HostGone ==
  /\ fb = "recv"
  /\ Fault
  /\ Exit
  /\ state' = "OFFLINE"
  /\ UNCHANGED <<disk, unlocked, cmd, job, buf, cap, bup, main, holder, queued, answer, was,
                 dropped, cmds>>

\* menu_lock(): wait for a holder that is somebody else, panic for oneself; a release
\* hands the mutex to the thread that waits
MenuLock(from, to) ==
  /\ fb = from
  /\ \/ /\ holder = "none"
        /\ holder' = "server" /\ fb' = to /\ UNCHANGED queued
     \/ /\ holder = "main" /\ ~queued
        /\ queued' = TRUE /\ UNCHANGED <<holder, fb>>
     \/ /\ holder = "server" /\ queued
        /\ queued' = FALSE /\ fb' = to /\ UNCHANGED holder
     \/ /\ holder = "server" /\ ~queued
        /\ fb' = "panic" /\ UNCHANGED <<holder, queued>>
  /\ UNCHANGED <<disk, unlocked, state, cmd, job, buf, cap, bup, main, status, answer, was,
                 dropped, cmds, faults>>

LockForCommand == MenuLock("lock", "start")

\* mutant: the mutex is not taken again after the menu
RelockMissing == fb = "relock" /\ fb' = "chosen" /\ UNCHANGED
  <<disk, unlocked, state, cmd, job, buf, cap, bup, main, status, holder, queued, answer,
    was, dropped, cmds, faults>>

RelockAfterMenu == MenuLock("relock", "chosen")

\* menu_unlock() by this thread: the main thread never waits for the mutex
Unlock ==
  /\ fb = "unlock"
  /\ holder' = "none"
  /\ CASE cmd.op = "continue" -> Exit /\ UNCHANGED <<state, answer>>
       [] state = "ERROR" -> Exit /\ state' = "OFFLINE" /\ UNCHANGED answer
       [] OTHER -> Ack("FAIL") /\ fb' = "recv" /\ UNCHANGED status
  /\ UNCHANGED <<disk, unlocked, cmd, job, buf, cap, bup, main, queued, was, dropped, cmds,
                 faults>>

Handling(op) == fb = "start" /\ cmd.op = op

\* cmd_download(): the buffer is allocated once, with the size of the first download
Download ==
  /\ Handling("download")
  /\ IF ~unlocked THEN Done("FAIL") /\ UNCHANGED <<buf, cap, faults>>
     ELSE IF cmd.arg.len > MaxDownload
       THEN Done("FAIL") /\ buf' = None /\ UNCHANGED <<cap, faults>>
     ELSE \/ \* the host is not told of the data to send
             /\ Fault /\ buf' = None /\ fb' = "unlock"
             /\ UNCHANGED <<answer, state, job, cap>>
          \/ \* there is no memory for the buffer, now and ever after
             /\ (cap = -1 /\ Fault) \/ (cap = 0 /\ UNCHANGED faults)
             /\ cap' = 0 /\ buf' = None /\ Done("FAIL")
          \/ /\ cap # 0
             /\ cap' = IF cap = -1 THEN cmd.arg.len ELSE cap
             /\ \/ \* the host does not send it all
                   /\ Fault /\ buf' = None /\ fb' = "unlock"
                   /\ answer' = "FAIL" /\ state' = "ERROR" /\ UNCHANGED job
                \/ /\ IF cmd.arg.len > cap'
                        THEN fb' = "panic" /\ buf' = None /\ UNCHANGED <<answer, state, job>>
                        ELSE buf' = cmd.arg /\ Done("OKAY")
                   /\ UNCHANGED faults
  /\ UNCHANGED <<disk, unlocked, cmd, bup, main, status, holder, queued, was, dropped, cmds>>

Work(j) == fb' = "work" /\ job' = j /\ UNCHANGED <<answer, state>>

\* is_update_all_slots_required(): asked once, and again only after an update that
\* succeeded; a check that fails counts as one, for the slot asked for
BupCheck(payload, fails) ==
  IF bup.checked THEN bup
  ELSE [bup EXCEPT !.checked = TRUE, !.required = payload.ratchet /\ ~fails]

\* get_spec_info(): read from the NCT once; what it lacks, it lacks until the next boot
SpecInfo(missing) ==
  IF bup.spec # "unread" THEN bup.spec ELSE IF missing THEN "missing" ELSE "read"

AtFlash == <<cmd, bup, dropped, faults>>

\* cmd_flash() for the boot loader: what is no update payload is taken for done.
\* Without the platform spec every entry is passed over.
FlashBootloader ==
  IF buf.kind # "payload" THEN Done("OKAY") /\ UNCHANGED AtFlash
  ELSE \E fails, missing \in BOOLEAN :
    LET empty == buf.entries = <<>>
        check == BupCheck(buf, fails)
        spec == IF empty THEN bup.spec ELSE SpecInfo(missing)
    IN  /\ fails => ~bup.checked
        /\ missing => ~empty /\ bup.spec = "unread"
        /\ bup' = [check EXCEPT !.spec = spec]
        /\ cmd' = [cmd EXCEPT !.all = check.required]
        /\ dropped' = (dropped \/ fails \/ spec = "missing")
        /\ faults' = faults + (IF fails THEN 1 ELSE 0) + (IF missing THEN 1 ELSE 0)
        /\ faults' <= MaxFaults
        /\ IF empty THEN Done("FAIL")
           ELSE Work([kind |-> "update",
                      writes |-> IF spec = "missing" THEN <<>>
                        ELSE UpdatePlan(buf, SlotOf(cmd.arg), check.required, unlocked)])

\* cmd_flash() for a partition
FlashPartition ==
  /\ CASE buf.kind = "sparse" /\ ~HeaderFits("data", buf) -> Done("FAIL")
       [] buf.kind = "sparse" /\ HeaderFits("data", buf) ->
            Work([kind |-> "sparse", img |-> buf, at |-> SparseStart(buf)])
       [] OTHER -> Work([kind |-> "raw", data |-> buf.data])
  /\ UNCHANGED AtFlash

\* cmd_flash(): without an image it returns and answers nothing
Flash ==
  /\ Handling("flash")
  /\ IF ~unlocked THEN Done("FAIL") /\ UNCHANGED AtFlash
     ELSE IF buf = None
       THEN fb' = "unlock" /\ UNCHANGED <<answer, state, job>> /\ UNCHANGED AtFlash
     ELSE IF cmd.arg = "data" THEN FlashPartition ELSE FlashBootloader
  /\ UNCHANGED <<disk, unlocked, buf, cap, main, status, holder, queued, was, cmds>>

\* cmd_erase()
Erase ==
  /\ Handling("erase")
  /\ IF ~unlocked THEN Done("FAIL") ELSE Work([kind |-> "erase"])
  /\ UNCHANGED <<disk, unlocked, cmd, buf, cap, bup, main, status, holder, queued, was,
                 dropped, cmds, faults>>

\* cmd_flashing() with change_device_state(): the user is asked in a menu, for which
\* the mutex is let go; factory reset protection forbids to unlock
Flashing ==
  /\ Handling("flashing")
  /\ \/ /\ unlocked = (cmd.arg = "unlock")
        /\ Done("OKAY") /\ UNCHANGED <<status, holder>>
     \/ /\ unlocked # (cmd.arg = "unlock")
        /\ cmd.arg = "unlock" /\ Done("FAIL") /\ UNCHANGED <<status, holder>>
     \/ /\ unlocked # (cmd.arg = "unlock")
        /\ status' = "PAUSED" /\ holder' = "none" /\ fb' = "confirm"
        /\ UNCHANGED <<answer, state, job>>
  /\ UNCHANGED <<disk, unlocked, cmd, buf, cap, bup, main, queued, was, dropped, cmds, faults>>

\* the handlers that only answer: continue, and others that change no state here
Answering ==
  /\ Handling("continue") \/ Handling("getvar")
  /\ Done("OKAY")
  /\ UNCHANGED <<disk, unlocked, cmd, buf, cap, bup, main, status, holder, queued, was,
                 dropped, cmds, faults>>

-------------------------------------------------------------------------------
(***************************************************************************)
(* The handlers' work, one request to the storage at a time.               *)
(***************************************************************************)
Faulty == faults < MaxFaults

\* o, one of the outcomes of a storage operation, is the one
Takes(o) ==
  /\ disk' = o.disk
  /\ faults' = IF o.fault THEN faults + 1 ELSE faults

Working(kind) == fb = "work" /\ job.kind = kind

AtWork == <<unlocked, cmd, buf, cap, main, status, holder, queued, was, cmds>>

\* a raw image; nobody looks at the result
RawStep ==
  /\ Working("raw")
  /\ \E o \in partition_write(disk, "data", 0, job.data, Faulty) :
       /\ Takes(o)
       /\ dropped' = (dropped \/ o.dropped \/ o.err)
  /\ Done("OKAY")
  /\ UNCHANGED AtWork /\ UNCHANGED bup

Proceed(at) == job' = [job EXCEPT !.at = at] /\ UNCHANGED <<fb, answer, state>>

\* tegrabl_sparse_unsparse(): one chunk, or one piece of a fill chunk.  A checksum
\* chunk is never got past.
SparseStep ==
  /\ Working("sparse")
  /\ LET at == job.at
         c == NextChunk(at)
         data == NextData(at)
     IN  CASE Finished(at, job.img) -> Done("OKAY") /\ UNCHANGED <<disk, dropped, faults>>
           [] ~Finished(at, job.img) /\ ~Accepted(at, job.img) ->
                Done("FAIL") /\ UNCHANGED <<disk, dropped, faults>>
           [] ~Finished(at, job.img) /\ Accepted(at, job.img) /\ c.type = "crc" ->
                fb' = "spin" /\ UNCHANGED <<disk, dropped, faults, answer, state, job>>
           [] ~Finished(at, job.img) /\ Accepted(at, job.img) /\ c.type = "skip" ->
                /\ IF CanSeek("data", at.offset, c.n) THEN Proceed(After(at, c.n))
                   ELSE Done("FAIL")
                /\ UNCHANGED <<disk, dropped, faults>>
           [] OTHER ->
                \E o \in partition_write(disk, "data", at.offset, data, Faulty) :
                  /\ Takes(o)
                  /\ dropped' = (dropped \/ o.dropped)
                  /\ IF o.err THEN Done("FAIL") ELSE Proceed(After(at, Len(data)))
  /\ UNCHANGED AtWork /\ UNCHANGED bup

\* a payload: the next partition; at its end the devices are flushed
UpdateStep ==
  /\ Working("update")
  /\ IF job.writes = <<>>
       THEN /\ bup' = [bup EXCEPT !.checked = FALSE]
            /\ Done("OKAY") /\ UNCHANGED <<disk, faults, dropped>>
       ELSE LET w == Head(job.writes)
            IN  \E o \in partition_write(disk, w.part, w.offset, w.data, Faulty) :
                  /\ Takes(o)
                  /\ dropped' = (dropped \/ o.dropped)
                  /\ IF o.err THEN Done("FAIL")
                     ELSE /\ job' = [job EXCEPT !.writes = Tail(@)]
                          /\ UNCHANGED <<fb, answer, state>>
                  /\ UNCHANGED bup
  /\ UNCHANGED AtWork

\* cmd_erase()
EraseStep ==
  /\ Working("erase")
  /\ \E o \in partition_erase(disk, "data", Faulty) :
       /\ Takes(o)
       /\ IF o.err THEN Done("FAIL") ELSE Done("OKAY")
  /\ UNCHANGED AtWork /\ UNCHANGED <<bup, dropped>>

-------------------------------------------------------------------------------
(***************************************************************************)
(* The menu that asks the user to confirm, drawn by the fastboot thread.   *)
(***************************************************************************)
AtConfirm == <<disk, unlocked, state, cmd, buf, cap, bup, main, status, queued, answer, was,
               dropped, cmds>>

\* menu_draw(confirm_menu): the mutex is tried, and the menu shows busy when it is taken
ConfirmTry ==
  /\ fb = "confirm" /\ holder = "none"
  /\ fb' = "confirm_keys" /\ holder' = "server"
  /\ UNCHANGED AtConfirm /\ UNCHANGED <<job, faults>>

\* no key, or one that moves to another entry
ConfirmIdle ==
  /\ fb = "confirm_keys"
  /\ fb' = "confirm" /\ holder' = "none"
  /\ UNCHANGED AtConfirm /\ UNCHANGED <<job, faults>>

ConfirmEnter ==
  /\ fb = "confirm_keys"
  /\ fb' = "relock" /\ holder' = "none"
  /\ job' \in {[kind |-> "change"], [kind |-> "back"]}
  /\ UNCHANGED AtConfirm /\ UNCHANGED faults

\* the display or the keyboard fails, before the loop or in it
ConfirmFails ==
  /\ fb \in {"confirm", "confirm_keys"}
  /\ Fault
  /\ fb' = "relock" /\ job' = [kind |-> "failed"]
  /\ UNCHANGED AtConfirm /\ UNCHANGED holder

\* change_device_state() ends
Resume(a) == Done(a) /\ status' = "RUNNING"

\* change_device_state() after the menu: user data go first
ChangeState ==
  /\ fb = "chosen"
  /\ CASE job.kind = "failed" -> Resume("FAIL") /\ UNCHANGED <<disk, faults>>
       [] job.kind = "back" -> Resume("OKAY") /\ UNCHANGED <<disk, faults>>
       [] OTHER ->
            \E o \in partition_erase(disk, "data", Faulty) :
              /\ Takes(o)
              /\ IF o.err THEN Resume("FAIL")
                 ELSE Work([kind |-> "odm"]) /\ UNCHANGED status
  /\ UNCHANGED <<unlocked, cmd, buf, cap, bup, main, holder, queued, was, dropped, cmds>>

AtOdm == <<cmd, buf, cap, bup, main, holder, queued, was, cmds>>

\* mutant: the error of the read is not looked at
OdmReadBlind ==
  /\ Working("odm")
  /\ unlocked' = ~unlocked
  /\ \/ Work([kind |-> "bct", writes |->
               BctWrites(WithOdm(BctAt(disk, BctStarts[1]), unlocked'), Size["BCT"])])
          /\ UNCHANGED <<status, dropped, faults>>
     \/ Fault /\ Work([kind |-> "bct", writes |->
               BctWrites(WithOdm([i \in 1 .. ImageUnits["BCT"] |-> Erased], unlocked'),
                         Size["BCT"])])
          /\ UNCHANGED <<status, dropped>>
  /\ UNCHANGED disk /\ UNCHANGED AtOdm

\* tegrabl_odmdata_set(): the word in memory, then the first copy of the BCT is read from
\* storage to be changed; nobody looks at the result
OdmRead ==
  /\ Working("odm")
  /\ unlocked' = ~unlocked
  /\ \/ Work([kind |-> "bct", writes |->
               BctWrites(WithOdm(BctAt(disk, BctStarts[1]), unlocked'), Size["BCT"])])
          /\ UNCHANGED <<status, dropped, faults>>
     \/ Fault /\ dropped' = TRUE /\ Resume("OKAY")
  /\ UNCHANGED disk /\ UNCHANGED AtOdm

\* and written to each place
OdmWrite ==
  /\ Working("bct")
  /\ IF job.writes = <<>>
       THEN Resume("OKAY") /\ UNCHANGED <<disk, dropped, faults>>
       ELSE LET w == Head(job.writes)
            IN  \E o \in partition_write(disk, w.part, w.offset, w.data, Faulty) :
                  /\ Takes(o)
                  /\ dropped' = (dropped \/ o.dropped \/ o.err)
                  /\ IF o.err THEN Resume("OKAY")
                     ELSE /\ job' = [job EXCEPT !.writes = Tail(@)]
                          /\ UNCHANGED <<fb, answer, state, status>>
  /\ UNCHANGED unlocked /\ UNCHANGED AtOdm

-------------------------------------------------------------------------------
(***************************************************************************)
(* The main thread: fastboot_init() from menu_draw(&fastboot_menu) on.     *)
(***************************************************************************)
AtMenu == <<disk, unlocked, fb, cmd, answer, was, dropped, cmds, status>>

\* the menu is shown and the keyboard set up, or not
MenuDraw ==
  /\ main = "draw"
  /\ \/ main' = "loop" /\ UNCHANGED faults
     \/ main' = "join" /\ Fault
  /\ UNCHANGED AtMenu /\ UNCHANGED ram /\ UNCHANGED holder

\* the top of the loop of menu_draw(), which spins while the other thread has a menu
MenuLoop ==
  /\ main = "loop" /\ status # "PAUSED"
  /\ main' = IF status = "TERMINATED" THEN "join" ELSE "try"
  /\ UNCHANGED AtMenu /\ UNCHANGED ram /\ UNCHANGED <<holder, faults>>

\* mutex_acquire_timeout(&menu_mutex, 0)
MenuTry ==
  /\ main = "try"
  /\ IF holder = "none" THEN holder' = "main" /\ main' = "keys"
     ELSE main' = "loop" /\ UNCHANGED holder
  /\ UNCHANGED AtMenu /\ UNCHANGED ram /\ UNCHANGED faults

\* mutex_release(): to the thread that waits
Release == holder' = IF queued THEN "server" ELSE "none"

\* mutant: without a key the loop goes on and the mutex stays taken
MenuIdleHolding ==
  /\ main = "keys"
  /\ main' = "loop"
  /\ UNCHANGED AtMenu /\ UNCHANGED ram /\ UNCHANGED <<faults, holder>>

\* no key, or one that moves to another entry
MenuIdle ==
  /\ main = "keys"
  /\ main' = "loop" /\ Release
  /\ UNCHANGED AtMenu /\ UNCHANGED ram /\ UNCHANGED faults

MenuEnter ==
  /\ main = "keys"
  /\ main' = "select" /\ Release
  /\ UNCHANGED AtMenu /\ UNCHANGED ram /\ UNCHANGED faults

\* reading the keys or drawing the entries fails: the mutex stays taken
MenuFails ==
  /\ main = "keys"
  /\ Fault
  /\ main' = "join"
  /\ UNCHANGED AtMenu /\ UNCHANGED ram /\ UNCHANGED holder

\* thread_join()
MenuJoin ==
  /\ main = "join" /\ fb = "exit"
  /\ main' = "out"
  /\ UNCHANGED AtMenu /\ UNCHANGED ram /\ UNCHANGED <<holder, faults>>

\* menu_handle_on_select(): a kernel that cannot be loaded
SelectFails ==
  /\ main = "select"
  /\ IF status = "TERMINATED" THEN main' = "join" /\ UNCHANGED faults
     ELSE main' = "out" /\ Fault
  /\ UNCHANGED AtMenu /\ UNCHANGED ram /\ UNCHANGED <<holder>>

-------------------------------------------------------------------------------
(***************************************************************************)
(* The end of it: memory is lost, and the device may come up again in      *)
(* fastboot mode.                                                          *)
(***************************************************************************)
Off ==
  /\ fb' = "off" /\ state' = "OFFLINE" /\ job' = Idle /\ buf' = None /\ cap' = -1
  /\ bup' = BupStart
  /\ main' = "off" /\ status' = "TERMINATED" /\ holder' = "none" /\ queued' = FALSE
  /\ answer' = "none"
  /\ UNCHANGED <<disk, unlocked, cmd, was, dropped, cmds>>

\* an entry of the menu is carried out, whatever the other thread is doing
Select == main = "select" /\ status # "TERMINATED" /\ Off /\ UNCHANGED faults

\* android_boot() goes on to boot a kernel after fastboot_init(), however it ended
BootKernel == main = "out" /\ Off /\ UNCHANGED faults

\* cmd_reboot() and its kind
Reboot == Handling("reboot") /\ Off /\ UNCHANGED faults

PowerCut == fb # "off" /\ Fault /\ Off

\* the boot ROM takes the first copy of the BCT that is whole
PowerOn ==
  /\ fb = "off" /\ cmds < MaxCmds
  /\ LET Usable(start) == WholeBct(disk, start)
         found == SelectSeq(BctStarts, Usable)
     IN  found # <<>> /\ unlocked' = (disk[Head(found)] < LockBit)
  /\ fb' = "recv" /\ main' = "draw" /\ status' = "RUNNING"
  /\ UNCHANGED ram
  /\ UNCHANGED <<disk, cmd, holder, answer, was, dropped, cmds, faults>>

ServerStep ==
  \/ LockForCommand \/ RelockAfterMenu \/ Unlock
  \/ Download \/ Flash \/ Erase \/ Flashing \/ Answering \/ Reboot
  \/ RawStep \/ SparseStep \/ UpdateStep \/ EraseStep
  \/ ChangeState \/ OdmRead \/ OdmWrite

MenuStep == MenuDraw \/ MenuLoop \/ MenuTry \/ MenuIdle \/ MenuEnter \/ MenuFails

Next ==
  \/ Receive \/ HostGone \/ ServerStep
  \/ ConfirmTry \/ ConfirmIdle \/ ConfirmEnter \/ ConfirmFails
  \/ MenuStep \/ MenuJoin \/ SelectFails
  \/ Select \/ BootKernel \/ PowerCut \/ PowerOn

\* two threads of one priority on a preemptive kernel: each goes on running.  Neither
\* the user nor the host has to do anything.
Spec == Init /\ [][Next]_vars /\ WF_vars(ServerStep) /\ WF_vars(MenuStep)
===============================================================================
