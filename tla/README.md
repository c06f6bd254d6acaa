# TLA+ models of cboot (Tegra T186)

cboot is the last boot loader of a T186 board: a small preemptive kernel (LK), drivers, a
fastboot server and an Android boot flow, linked with the libraries that MB1 and MB2 share.
This directory models the parts of it whose correctness depends on interleaving, failure and
history, checks them with TLC, and proves what matters most about the core with TLAPS.

Paths below are relative to `src/bootloader/partner/`. `PROJECT.json` maps every definition to the
lines it translates, lists the runs with their mutants, the findings, and the hazards that the
properties were written for.

## 1. The system

| Component | Source | State | Operations | What is hard |
|---|---|---|---|---|
| IVC channel | `t18x/common/lib/ipc/tegra-ivc.c` | two shared headers (count, state), frames, private positions | write, read (peek, poke, get next frame, advance), reset, notified, sync | two CPUs without locks; wrapping counters; reset in mid-transfer; lost doorbells |
| BPMP transfers | `t18x/common/lib/ipc/tegrabl_bpmp_fw_interface.c` | the caller's frame pointers over IVC | connect, xfer | time-out racing a late answer |
| LK scheduler | `t18x/cboot/kernel/thread.c`, `timer.c` | run queues and bitmap, wait queues, quantum, timers on stacks | yield, sleep, resume, exit, set_priority, block, wake one or all, tick, time-outs | preemption, time-out against wake, duplicated state |
| mutex, semaphore, event | `t18x/cboot/kernel/{mutex,semaphore,event}.c` | a count or flag, and a wait queue | acquire/release, wait/post, wait/signal, destroy | hand-over, time-outs that back out late |
| A/B boot control | `t18x/common/lib/a_b_boot_control/`, `t18x/cboot/app/android_boot/fastboot_a_b.c` | SMD in two partitions, a cached copy, a scratch register | choose slot, take and return tries, rotate priorities, set active, flush | crashes between the two writes, write errors, accounting over many boots |
| Android boot flow | `t18x/cboot/app/android_boot/android_boot.c` | boot mode, loaded images | load, verify, hand over | errors on the way, order |
| Fastboot | `t18x/cboot/app/android_boot/fastboot*.c`, `common/lib/tegrabl_fastboot/` | protocol state, download buffer, lock bit | getvar, download, flash, erase, flashing, set_active, boot, oem, continue, reboot | OKAY against what is on the disk, state left by failures |
| Menus | `t18x/cboot/lib/menu/`, `*_menu.c` | menu mutex, thread state | draw, key press, select | two threads and a mutex held over error paths |
| Verified boot, FRP, rollback | `t18x/cboot/app/android_boot/verified_boot/`, `common/lib/tegrabl_frp/`, `t18x/common/lib/rollback_prevention/` | lock state, keys, rollback index | verify, lock, unlock | decision table, one-way counters |
| Boot loader update, BCT | `common/lib/tegrabl_bootloader_update/`, `t18x/common/lib/tegrabl_brbct/`, `odmdata/` | "blob already checked" flag, partitions, copies of the BCT | check and write a payload, change the ODM data | order of dependent partitions, crashes |
| Partition loader and manager, GPT, block devices | `t18x/common/lib/partitionloader/`, `common/lib/tegrabl_partition_manager/`, `tegrabl_gpt/`, `common/drivers/blockdev/` | partition table, cursors, device reference counts | open, seek, read, write, load with fall-back | unaligned writes, partial failures |
| Sparse images | `common/lib/tegrabl_sparse/` | parser state | unsparse | chunks and pieces that straddle blocks, images cut off |
| Heap | `common/lib/tegrabl_malloc/` (`t18x/cboot/lib/heap/` has no caller) | free list inside the free memory | allocate, allocate aligned, free | splitting, coalescing |
| Fuses and ratchets | `t18x/cboot/platform/t186/ratchet_update.c`, `t18x/common/drivers/fuse/` | one-time fuses | compare, burn | two irreversible steps |
| Drivers | `common/drivers/`, `t18x/common/drivers/` | hardware | transfer, configure | polling with time-outs, rings (xusbf) |
| Everything else | arm64, display, console, device tree, board information, decompression, vendored libraries | none, or a straight sequence | | |

How they interact. The kernel runs every other part. The power, clock and I2C drivers send
requests to the BPMP over `tegrabl_ccplex_bpmp_xfer`, which sits on an IVC channel. fastboot runs
in a thread of its own beside the menu thread and shares the menu mutex with it. fastboot and the
Android boot flow share the cached SMD. MB1 and cboot share the scratch register and, with
user space, the SMD partitions. Storage is layered: sparse, fastboot and boot flow over the partition
manager, that over block devices, those over the controllers.

What makes each component correct is stated with its properties in section 3; the hazards that
led to them, and the few that no property covers yet, are in `PROJECT.json`.

## 2. Modules

| Module | Models | Built on |
|---|---|---|
| `Ivc` | both ends of one channel | |
| `IvcFifo` | what a channel promises: two bounded FIFOs emptied by a reset (abstract) | |
| `IvcRefinement` | the mapping from `Ivc` to `IvcFifo` | `Ivc`, `IvcFifo` |
| `IvcProofs` | theorems about `Ivc`, and that it implements `IvcFifo` | `IvcRefinement` |
| `BpmpIpc` | transfers of one caller over a channel as `IvcFifo` describes it | |
| `BpmpProofs` | theorems about `BpmpIpc` | `BpmpIpc` |
| `LkThread` | the scheduler, wait queues and the tick | |
| `LkThreadProofs` | theorems about `LkThread` | `LkThread`, `InductionFacts` |
| `LkMutex`, `LkSemaphore`, `LkEvent` | one object each: its state and the calls on it, written with the parts of calls of `LkThread` | `LkThread` |
| `LkObjects` | threads that use the objects, on the scheduler | `LkThread`; instances of the three |
| `LkObjectsProofs` | theorems about the mutex, the semaphore and the event | `LkObjects`, `LkThreadProofs` |
| `AbBoot` | slots over many boots | |
| `AbBootProofs` | theorems about `AbBoot` | `AbBoot` |
| `Blockdev` | writes and erasure of a disk in units smaller than a block, under the bounds of a partition; what fails and what is told | |
| `Unsparse` | the chunk parser, and what a sparse image stands for | `Blockdev` |
| `BootUpdate` | which partitions a payload writes, in which order, and the copies of the BCT | |
| `Fastboot` | fastboot mode: server thread, menu thread, mutex, storage, power | `Unsparse`, `BootUpdate` |
| `FastbootProofs` | theorems about `Fastboot`, lemmas about `Blockdev`, `Unsparse` and `BootUpdate` | `MCFastboot`, `InductionFacts` |
| `Heap` | the allocator | |
| `HeapProofs` | theorems about `Heap` | `Heap`, `InductionFacts` |
| `InductionFacts` | induction over numbers, and functions defined by recursion, for the proofs | |
| `MCIvc`, `MCLkThread`, `MCLkObjects`, `MCAbBoot`, `MCFastboot` | values for the constants; `MCFastboot` also states the properties of `Fastboot` | |

### Ivc

State. `w_count[e]` is the transmit count in e's header and `r_count[e]` the receive count of
the ring e *writes* (the peer stores it); `state[e]` is e's half of the handshake; `frame[e]` is the
ring e writes; `bell[e]` is a doorbell pending at e. `w_pos`, `r_pos`, `peer`, `buf` and `pc` are private to
an endpoint, `waiting[e]` holds the calls that were refused and that the endpoint makes again when it is
notified.

Steps. A read or a write is check, frame access, advance (store of the count and the position), and
notify; `tegra_ivc_channel_notified` is sample, clear of each counter, store of the state, notify.
Between any two of them the other endpoint may take steps, which is what a reviewer can
not test. Inside a step at most one shared word is stored; the loads of a check are one step, since the
checks are on the difference of two words of which one is the endpoint's own.
Memory barriers in the code order these stores, and the model takes them in that order.

Counters wrap at `CountMod` (2^32 in the code), and differences are taken modulo it. `CountMod >
NFrames` is an assumption; runs use the smallest values for which counters wrap often. `ChannelSync`
also needs `CountMod % NFrames = 0` (`SyncSpec` is only run with such values): positions taken modulo
`NFrames` from a counter that wrapped would otherwise jump. With 2^32 this asks
for a power of two; the channels in this tree have one frame.

`OverlapResets`. `tegra_ivc_channel_reset` may be called at any time, and nothing in it asks whether
the other side has finished the previous handshake. With `OverlapResets = FALSE`, as in the runs and the theorems, no reset begins while
the other endpoint is between sampling our old state and establishing on it. The client in this repository resets once, while connecting. With
`TRUE` the protocol breaks (observation 1 in section 4).

### BpmpIpc

`out` and `in` are the FIFOs of the channel, one frame each, `serving` is the request inside the
firmware. A call sends (or is refused when the previous request still occupies the ring), polls
up to `MaxPolls` times, and copies whatever answer is there. The firmware answers each request once, in order, in
its own time, or never.

### LkThread and the objects

One CPU; a kernel call runs with interrupts off (`enter_critical_section`), so it is one step up to a
context switch. `BlockOn` is `wait_queue_block` up to the switch and `BlockReturn` what follows when
the thread runs again: a whole history can lie between the two, which is where the findings in mutex and
semaphore come from. `Resched` is `thread_resched`; the functions `InsertHead`, `InsertTail`, `InsertHeads`
compute queue, bitmap and state together, as the code does, so that a call that inserts twice and then reschedules is
still one action. `TickBegin`, `SleepExpires`, `WaitExpires`, `TickEnd` are the timer interrupt: any armed timer may
fire in it (time is abstracted: a finite time-out can expire at any tick), then the slice
is counted, then `thread_preempt` runs if a handler or the slice asked for it. `remaining_quantum` is cut off at 0: the
code compares it with 0 only.

`LkObjects` has one object in use per behaviour, chosen in its initial state, since objects share nothing but the scheduler;
`timed` says whether finite time-outs are used at all. A thread makes any call it may legally make: mutexes are
released by their holder, objects are destroyed once, nobody waits for himself.

Not in the model: `thread_create`, `thread_join`, `thread_detach` and the freeing of threads; periodic timers, which nothing uses.

### AbBoot

`copy` is the two SMD partitions, each with or without a valid CRC. `reg` is the scratch register: slot,
retry counts in 4 bits, update flag. A warm reset keeps it, a power cycle does not. `smd` is the buffer cboot caches. `dev` is the device, chosen at the start: which
slots are bad, whether writes may fail, and `dev.mode`, the redundancy that the SMD version asks for: `"none"` (tries are only taken from an update not yet proven), `"bl"` (boot loader)
or `"user"` (everything, with rotating priorities). One cycle of the model is one boot: `Mb1` picks a slot with
`ActiveSlot`, takes a try and saves the register; the boot loader hangs (`BlFails`), or reaches fastboot
(`slot_set_active`), or `tegrabl_a_b_update_smd` (`UpdateOta`, `UpdateSwitched`, `UpdateRotate`, `UpdateNothing`), which flushes both copies
(`WritePrimary`, `WriteSecondary`, with their errors and with a reset in between) and enters the kernel; the kernel fails, or comes up and user space
writes the SMD. A reboot out of fastboot costs a try, since the accounts are settled only at the hand-over.

MB1, the kernel and user space are not in this tree. MB1 is modelled from the functions of this library
that only it calls; user space from the comment that it "restores slots priorities" and from what
`tegrabl_a_b_set_active_slot` does for an update. User space is marked external. SMD images without a CRC (older versions) are not modelled.

`tries`, `ktries`, `durable` and `exact` are history variables: they record what happened for the properties
and guard nothing.

### Blockdev, Unsparse, BootUpdate and Fastboot

The disk is one array of units, a unit being what all sizes in play are multiples of (1 KiB, a piece of a fill chunk), a block two of them.
`partition_write` is `tegrabl_partition_write` down to the block device: `default_write` reads, patches and writes back a first and a last block
that are not covered whole, and writes the middle in one request. It yields the set of its outcomes, so that a device that fails does so at each place where
the code asks something of it: the read (nothing written), the middle after any number of blocks, a partial block. `err` says whether the caller is told,
`dropped` whether an error was swallowed on the way. A write of whole blocks by the device may stop after any block; one block is written or not.

`Unsparse` advances one call of the writer or seeker at a time (`After`), since between two of them the power may go. What the image *means* is
written apart from the parser (`SparseUnits`, `SparseValue`), by summing the chunks before.

`BootUpdate` computes the list of writes that `tegrabl_check_and_update_bl_payload` makes (`UpdatePlan`); `Fastboot` carries them out one by one. Of the entries of a payload
`update_partition` passes over those for another board or other fuses (`IsFor`), and writes the first that is left of each name (`EntryFor`); a name with none is passed over without an error (`NamesOf` are the others). The platform
spec is read from the NCT for the first entry: when that fails nothing is written and the payload is answered OKAY (`SpecInfo`, `dropped`). The ratchet check may fail too, which counts as a check that asks for one slot (`BupCheck`);
`cmd.all` says which it was. An entry of a payload that was accepted can be read: the blob was validated, so that `tegrabl_bootloader_update.c:532-534` has nothing to skip. A BCT is written
in two places for an update, in every block of the boot ROM for a change of the lock bit. A unit of it holds its version and the lock bit, as a number.

The constants are what a device brings: where partitions are, the slots of each name, the sizes of blocks and images, what a host may send, the board's spec and the mode of its fuses (`PlatformSpec`, `ProductionMode`). What is assumed of them is in
`BlockAssumption` (partitions are whole blocks), `PartitionAssumption` (they do not overlap), `LayoutAssumption` (there are user data and a BCT without slots, which has room for a block as
the boot ROM counts; no two names of a payload share a partition; a slot of the BCT is whole blocks), `BctAssumption` (a BCT fits its slot, two slots the block) and `ImagesAssumption` (an image is what the parser of the download can meet; its chunks may claim anything but
a raw chunk holds what it says, unless it is the last, and a fill chunk is not empty; the version of a payload is below `LockBit`, since a unit of the BCT holds both in one number, and its entries are told apart by theirs: the first of a name for this board has the payload's own) and `BoardAssumption`.

`Fastboot` has two threads. `fb` is where the server is: `recv` (waiting for a command), `lock` (`menu_lock`), `start` (the handler), `work` (its requests to the storage,
`job` says which are left), `confirm`, `confirm_keys`, `relock`, `chosen` (a menu drawn for `flashing lock` or `unlock`), `unlock`, `exit`; `spin`, `panic` and `off` are ends. `main` is where
the main thread is in `fastboot_init` and `menu_draw`. `holder` and `queued` are `menu_mutex` with its wait queue of at most one, as `LkMutex` has it: a release
hands over to the waiter, the menu only ever tries. `unlocked` is the ODM word in memory. `PowerCut`, a reset or a boot lose all of memory and keep the disk;
`PowerOn` starts from the first copy of the BCT that is whole. `was`, `cmd.open`, `cmd.stale` and `cmd.img` record, for the properties, how things stood when the command came, `cmd.all` whether an update goes to all slots, and `dropped` that an error was dropped.
The host may send any command at any time; images stand for what is in a download.

### Heap

Addresses count words of 8 bytes. `heap` is what lies in memory for the free list: the head and, by address, size and links. An allocated block keeps its
size there, which is what a free reads; `live` is what the callers hold, with the true extent, and is what a free must give back. `lost` collects the
tail that an aligned allocation with a long skip drops when the split had given it the whole block (`tegrabl_malloc.c:451` overwrites the size). A call is one step.
The two searches of the list, for a block that fits and for the place of a block that is freed, are stated by index into the list as it stands before the call: the first index that fits, and how many blocks the data lies behind.

## 3. Runs

Each subsystem has one safety run with all its properties, so that a reader sees them hold of the same behaviours. Deadlock is checked in the runs
of `Ivc`, `LkThread` and `LkObjects`. It is off for `BpmpIpc`, where a behaviour ends after `MaxXfers` calls, and `AbBoot`, where a device without a
bootable slot is in recovery and one that is up may stay up, and in `Fastboot` and `Heap` for the reasons given there.

**`Ivc`** (one endpoint writes, 2 frames, 2 messages, counters modulo 4, 2 resets, `channel_sync` at any time). A frame is never read while it is written
(`NoFrameRace`); what a check allowed stays allowed until it is used (`CheckStable`); counters never differ by more than
the ring holds (`NeverOverFull`); an endpoint that was refused and could go on has its doorbell pending or about to
ring (`NoLostWakeup`); counters are cleared only while nobody uses them (`ClearedUnused`); and the channel implements `IvcFifo`: order, no loss, no
duplicate, capacity (`ImplementsFifo`). The mapping shows a direction as empty while it is dead, that is while what it holds will never be read.
2 frames are the least for which full, empty and in between differ, modulo 4 lets the counters wrap, and 2 resets let one begin on each side at once, or one
interrupt the handshake of another. Only one ring is written here, for the size of the run; the theorems are about both in use.

**`IvcLive`** (1 frame, counters modulo 2, 2 resets). A reset is completed by both (`ResetCompletes`) and the head of a ring is read (`HeadRead`).
Fairness: a call once begun is run to its end (weak); a pending doorbell is taken, and a client that is not waiting for the
doorbell reads (strong, since an endpoint can be busy with other calls whenever it might do these, and yet always returns to its loop).
Nothing is assumed of writers or of resets. While it connects, the client of this repository polls: a poll does what the doorbell asks, whether it rang or not.

**`Bpmp`** (5 calls of 3 polls; they fill both rings and the firmware and leave two to see the lag). Answers are
delivered once and in order, each transfer getting its own until one times out (`AnswersInOrder`); from then on the channel lags by exactly the number of transfers
that timed out (`BacklogIsTimeouts`); every call returns (`EveryXferReturns`; weak fairness of the caller alone, none of the firmware).
**`BpmpStale`** (violation): finding 1.

**`LkThread`** (idle, boot thread and two more, priorities 0 to 2, one wait queue, a slice of one tick). One list per thread, the one its state
calls for (`QueuesMatchStates`); the bitmap is exact (the last conjunct of the same); idle runs last (`IdleLast`); a timer can only fire while the call whose stack it
is on is active (`TimerOnLiveStack`); the status of a wait is settled once (`WakeSticks`); a ready thread that stays of top priority runs in the end
(`NoStarvation`; lower ones may starve by design). `NewPriorities` is `{1}`: see observation 2.
Fairness: the tick keeps coming (strong, as calls disable interrupts for a while) and ends; a thread switched to
inside `wait_queue_block` returns from it. A slice of 1 is the smallest that expires; a longer one only repeats `TickEnd`.

**`LkObjects`** (the same threads, 2 posts, 2 signals, both kinds of event, with and without finite time-outs). `MutualExclusion`, also over the hand-over;
`CountExact` (what the count of a mutex stands for); `FirstComeFirstServed`; `UnitsConserved` (no unit of a semaphore lost or handed out twice);
`NoWaitOnSignalled`; `SignalsConserved` (an automatic event passes one thread per signal that is not taken back); and, where no finite time-outs are used, nobody waits for a free
mutex or a spare unit (`NoWaitUntimed`). **`LkLostWakeup`** (violation): with them somebody may, finding 2.

**`AbBoot`** (retry count 3 for 7, priorities up to 4 for 15: the rotation needs the top two and one below, and the counts only have to reach 0).
Under each kind of redundancy, with boots that fail at any stage: no count exceeds its range (`RetryInRange`), the assertion of
`check_user_redundancy_status` holds (`CurrentHighest`), no kernel is entered a third time in a row while the other slot can be booted (`TwoKernelTries`), and no slot is
tried more than `MaxRetry` times beyond the tries that were given back to it (`TriesBounded`, while nothing failed). With one slot bad in boot loader or kernel, and one write error, torn write or power cycle at any point, the device comes up on the other slot
(`FallsBack`). Fairness: a boot goes on by itself (the watchdog or the user resets a device that hangs), and nobody has to do anything else. Faults are bounded by
`MaxFaults` (1: two torn flushes in a row can lose both copies by design of the two-copy scheme), requests by `MaxActive`.
**`AbFlushLost`** (violation): finding 3.

**`Fastboot`** (blocks of 2 units, pieces of 1; a data partition of 3 blocks, two copies of mb2 and mb1, a BCT partition of two blocks of the boot ROM; 3 commands, 1 fault). A command
answered OKAY is done (`OkayMeansDone`): of a payload, the first entry of each name that is for this board is in each slot it is for. The property names what it excepts: five errors that the code drops (of a raw image, a partial first block, the lock bit, the
platform spec, the ratchet check), and the slot not asked for when the ratchet of an earlier payload still counts; at any moment everything on the disk that the command is not
about is as it was (`RestKept`): the rest of a block, the gaps of an image, neighbours, the other slot, and all of it while the device is locked; wherever an update stops, what is new has what it
needs, if the payload has that for this board (`UpdateOrdered`); a copy of the BCT is whole at any moment if both were (`BctSurvives`); a command is answered unless one of the ends named in `Beyond` was reached (`CommandAnswered`).
Why the bounds are enough: 3 commands are download, flash and one that meets what these left (a failed update's flag, a changed lock state, a smaller buffer); after a power cut they go on counting. Each property is about one command
and the state before it. One fault at each point in turn shows every error path; two in a row would only combine a failed write with a failure elsewhere. The data partition is the
smallest with a partial first, a whole and a partial last block; the images are one of each shape that the parser treats apart (all chunk types, too long for the header or the partition, more chunks than
claimed, cut off, ending in a checksum), and payloads in both orders, with and without a ratchet, with entries for other boards and fuses before and between those for this one, with a name twice, with names that have no entry for this board, and empty.
Fairness: weak, of the server's steps and of the menu's: two threads of equal priority on a preemptive kernel (`NoStarvation`). Nothing is assumed of host or user. Deadlock is off: a device that is off, panics or
spins stays so.

**`Heap`** (32 words, sizes of 1 and 3 words, alignment of 8 words): `ListSorted` (sorted, linked both ways, merged, nothing smaller than a header) and `BlocksTile` (free blocks, live blocks and lost words partition
the heap). 32 words hold enough blocks for a free to meet neighbours on neither side, either and both, and for an alignment to skip
less than a header, just one and more. Allocation may simply fail, so deadlock is off. Behaviours end where a skip of one word has overwritten a size and the block was freed: that is **`HeapClobber`** (violation), finding 4.

Every property of a passing run has a mutant: a plausible bug in one mapped definition, under which TLC finds the property violated. The
mutants stand before their originals in the modules.

## 4. Findings and observations

Findings, each with the run that shows it:

1. `BpmpStale`: a transfer after one that timed out returns the answer to the earlier request; nothing matches answers with requests.
2. `LkLostWakeup`: a waiter that has timed out is out of the wait queue but in the count until it runs. A release in this window wakes nobody, and a
   thread that asks in it waits on a mutex nobody holds, for ever if it asked without a time-out and nobody takes the mutex again. `sem_post` and
   `sem_timedwait` have the same window (`NoWaitOnSpare` in `LkObjects`).
3. `AbFlushLost`: `tegrabl_a_b_flush_smd` overwrites the error of the primary copy with the result of the secondary, so a primary that kept its old
   content is what the next boot reads.

4. `HeapClobber`: `tegrabl_memalign` writes the header of the aligned block before it looks at how far in that is. With a skip of one word its magic lands on
   the size in the first header, the skip is too short to be split off, and free trusts the size: the free list then has a block of 0xDEADBEEE bytes. (An alignment of 4 or 8, as in
   `tegrabl_bootloader_update.c:391`, skips so little always.)

Met while modelling fastboot and storage; the properties of the `Fastboot` run name each as an exception, or the model as an end:

- The result of writing a raw image is ignored (`tegrabl_fastboot_protocol.c:549`), that of a partial first block too (`tegrabl_blockdev.c:202`), and that of storing the lock bit (`fastboot.c:606`, `:623`): OKAY is sent.
- Without a platform spec (the NCT is not there, or lacks it) `update_partition` ends with no error (`tegrabl_bootloader_update.c:348-349`): each partition is reported as updated, the payload is answered OKAY, and nothing is written. A payload without an entry for this board is answered OKAY in the same way, or
  a name of it passed over (`:366-376`, `:417-418`).
- When the check of the ratchet fails, the update goes to one slot only, and OKAY is sent (`tegrabl_bootloader_update.c:145-150`).
- What is not an update payload is flashed to `bootloader` with OKAY and no write (`tegrabl_bootloader_update.c:487`, `:509`), and "Back" in the confirm menu is answered OKAY. A sparse image that was cut off is too, if the header it ends in is one that would be accepted.
- A checksum chunk is never got past (`tegrabl_unsparse.c:356`, as no build file enables the check): the server spins with the menu mutex held.
- The download buffer has the size of the first download (`tegrabl_fastboot_protocol.c:421`); a larger one goes past its end.
- A menu that fails while it holds the mutex keeps it (`menu.c:398-409`), and the server waits for ever, where `fastboot.c:409` means to "keep the fastboot cmd thread"; in the confirm menu the server meets itself as the holder and panics.
- After a failed update the next payload is not asked whether it raises a ratchet (`tegrabl_bootloader_update.c:129`).
- The comment at `tegrabl_brbct.c:161` has slot 0 written last; the code writes it first. An update passes 0 for the size of the partition, so that the BCTs of later blocks stay the old ones.
- A change of the lock bit copies the first BCT over all others without looking whether it is whole (`odmdata.c:214`): after an update that was cut off in slot 0, the device that came up from slot 1 loses its last good copy. `BctSurvives` has this as its premise.

Observations, which other values of the constants show and which are kept out of the passing runs by a condition that names them:

1. `OverlapResets = TRUE`: "The remote end is in the ACK state and won't make progress until we change our state" (`tegra-ivc.c:562-564`) does not
   hold if an endpoint, established and already sending, resets again while its peer is between
   sampling that state and storing its own: the peer's old ACK is taken for a new one, and `ClearedUnused` fails.
2. `0 \in NewPriorities`: `thread_set_priority` admits `LOWEST_PRIORITY`, which is `IDLE_PRIORITY`; the idle thread then takes turns with a ready thread, and `IdleLast` fails.
3. `writeErrors` with `"user"`: a `set_active` whose flush failed leaves the changed SMD in the cache and the register where it was; booting on in that session meets the
   assertion of `check_user_redundancy_status` with the priorities reversed, and `CurrentHighest` fails without its condition on write errors. No build file here sets
   `CONFIG_ENABLE_ASSERTS`, so that the boot goes on, as it does in the model.

## 5. Proofs

A run shows a property on one small instance; the theorems below hold for every value of the constants that the `ASSUME`s of the modules admit. Each property is
proved from an inductive invariant, which was checked by TLC on the run's instance first: initial states satisfy it, every
step preserves it, it implies the property, and `PTL` puts the three together. The proof that a step preserves it is one lemma per action or group of actions.

### IVC (`IvcProofs`)

For every ring size, counter range, message set and number of resets:

| Theorem | Property | Assumes |
|---|---|---|
| `TypeCorrect` | `TypeOK` | |
| `NoFrameRaceTheorem` | `NoFrameRace` | `~OverlapResets` |
| `CheckStableTheorem` | `CheckStable` | `~OverlapResets` |
| `NeverOverFullTheorem` | `NeverOverFull` | `~OverlapResets` |
| `ClearedUnusedTheorem` | `ClearedUnused` (an action property) | `~OverlapResets` |
| `NoLostWakeupTheorem` | `NoLostWakeup` | `~OverlapResets` |
| `ImplementsFifoTheorem` | `ImplementsFifo` (refinement) | `~OverlapResets` |
| `StartingOverTheorem` | all of the above but the refinement, of `SyncSpec` | `~OverlapResets`, `CountMod % NFrames = 0` |
| `StartingOverImplementsFifo` | `ImplementsFifo`, of `SyncSpec` | the same |

None but the first is inductive. `Inv` adds three parts, one per kind of fact the code relies on and nowhere states:

- `Handshake(e)`: what the peer can have become since e sampled its state. In particular an endpoint that is about to establish
  has a peer that is not in SYNC: this is where the assumption on resets is used, and what overlapping resets break.
- `Counters(e)`: an endpoint in ACK, or about to leave the clearing steps, owns cleared counters and positions.
- `RingOK(e)`: while one end of ring e may use it, its counters differ by at most `NFrames`; unless one end is in SYNC, the position of the writer is
  that of the reader plus the frames available; a check that was passed still holds.

`CountFacts` and `PosFacts` are the arithmetic of wrapping counters and positions that the steps cite. `RingStep` is the main
lemma: one case per action, for the ring the acting endpoint writes and for the one it reads.

Wake-ups. A doorbell is rung only when the ring was empty or full, so that a refused call relies on the peer seeing exactly that level when it decides. `WakeOK(e)` says
which doorbell is coming: it is pending, or the peer is about to ring it, or the peer has stored its counter, has yet to look, and will find
the one frame (or the one gap) that makes it ring.

Starting over. `tegra_ivc_init` leaves the counters alone and `tegra_ivc_channel_sync` takes the positions from them, so that `SyncSpec` needs `Aligned(e)`: a position is its counter
modulo the number of frames. A counter that wraps keeps that only if the number of frames divides 2^32, which nothing checks: hence the premise.

The refinement maps ring e to the sequence of frames from the reader's position on, as many as the counters say (`FrameSeq`); `FrameOK(e)` adds to the invariant what the frame holds that e is inside of.
Each step of the channel is a step of `IvcFifo` or leaves it unchanged (`FifoStep`): the store of a count is the send, the other store the receipt, clearing the counters the loss by reset. Lemmas on `FrameSeq`
(`SeqOfFrames` and those after it) say what appending a frame and dropping one do to it across the wrap.

### BPMP transfers (`BpmpProofs`)

`TypeCorrect`, `AnswersInOrderTheorem` and `BacklogIsTimeoutsTheorem`, for any number of calls and of polls in each. The two properties are their own invariant once the numbers in the channel
are ordered (`Ordered`: handed out < answer waiting < request served < request waiting), none is ahead of the calls made (`Numbered`), and while no call timed out the channel holds nothing but the present
call's (`Untimed`). The backlog is a cardinality; `LateFinite` and the library's facts on finite sets carry it over a step.

### Scheduler and wait queues (`LkThreadProofs`)

For any threads, priorities, wait queues and length of a slice:

| Theorem | Property | Assumes |
|---|---|---|
| `TypeCorrect` | `TypeOK` | |
| `QueuesMatchStatesTheorem` | `QueuesMatchStates` | |
| `TimerOnLiveStackTheorem` | `TimerOnLiveStack` | |
| `WakeSticksTheorem` | `WakeSticks` (an action property) | |
| `IdleLastTheorem` | `IdleLast` | `0 \notin NewPriorities` (observation 2) |

`KernelInv` states the matching of queues, bitmap and states of a scheduler state as a value (`Good(s)`), since one step composes several insertions and a `Resched`; the lemmas
about `InsertHead`, `InsertTail`, `InsertHeads` and `Remove` say that they keep `Good`, and `SwitchFacts` what `Resched` makes of a state in which nobody runs and the idle thread is ready. `Waiting`
does the same for wait queues and ties a blocked thread to the call it will return from; `IdleReady` guarantees that there is always a thread to switch to. `WakesInv` then covers every step
that makes some threads ready and passes the CPU around. `InsertHeads` is a loop over a list: what it does is shown by the induction of `InductionFacts`.

### Mutex, semaphore and event (`LkObjectsProofs`)

For any threads and bounds, over `KernelInv`: `MutualExclusionTheorem`, `CountExactTheorem`, `FirstComeFirstServedTheorem` (an action property), `UnitsConservedTheorem`,
`NoWaitOnSignalledTheorem`, `SignalsConservedTheorem`, and `NoWaitUntimedTheorem`, whose premise `~timed` is part of the property (finding 2 is its failure with time-outs).

The invariants count who is inside `wait_queue_block` for a queue: `Blocked(q)`, who waits, and `Woken(q, r)`, who was woken with status r and has yet to run. The count of a mutex is owner, woken, timed out and blocked
(`MutexInv`); the units of a semaphore are taken, on their way to a thread that was woken, or spare (`SemInv`); so are the signals of an automatic event (`EventInv`). `Joins`, `WakeOne`, `WakeAll`, time-outs and returns each move threads
between these sets, which is proved once per part of a call on the scheduler and used for all three objects. `UntimedInv` adds that nobody waits for what is there to take.

### A/B boot control (`AbBootProofs`)

For every set of devices, retry count up to 15, top priority from 3 to 15, and bounds on faults and requests:

| Theorem | Property | Assumes |
|---|---|---|
| `TypeCorrect` | `TypeOK` | |
| `RetryInRangeTheorem` | `RetryInRange` | |
| `CurrentHighestTheorem` | `CurrentHighest` | the device's writes do not fail (part of the property) |
| `TriesBoundedTheorem` | `TriesBounded` | |
| `TwoKernelTriesTheorem` | `TwoKernelTries` | |

`RetryInRange` is not inductive, since cboot adds one to a count. The invariant says where the room for it comes from: `Taken` (in a boot for redundancy,
and through a flush on behalf of fastboot, the count of the running slot is below the full one), which in turn needs `Unproven` (what fastboot is
writing puts its slot on trial, so that the register is not marked for redundancy afterwards). `Picked` says that MB1's choice is still the best one of the SMD that
cboot will read, which needs `Fresh`: a buffer loaded in an earlier boot is gone. The proof has a lemma per group of actions, and lemmas about the library's
functions: `ActiveFacts` (the slot chosen is bootable and none tops it), `RotateFacts` (priorities stay in range, which uses that the top priority is at least 3), `SmdFacts`.

`TriesBounded` follows from `Tallied`: while nothing failed, tries made and tries left of a slot add up to no more than the full count, wherever the count is kept just then (register, buffer, copies).
`TwoKernelTries` follows from `Turns`, which names the phases that `rotate_slots_priority` goes through (equal, ahead by the rotation, behind after it) and how often the kernel of the running slot can have been entered in each.

### Fastboot and storage (`FastbootProofs`)

For every partition table, size of blocks, set of images and number of commands and faults:

| Theorem | Property | Assumes |
|---|---|---|
| `TypeCorrect` | `TypeOK`, with who holds `menu_mutex` | |
| `RestKeptTheorem` | `RestKept` | |
| `BctSurvivesTheorem` | `BctSurvives` | |
| `UpdateOrderedTheorem` | `UpdateOrdered` | of the entries for this board (part of the property) |
| `OkayMeansDoneTheorem` | `OkayMeansDone` | none of the five errors named in section 4 was dropped (`~dropped`), and for the slot not asked for, that the payload was checked (`~cmd.stale`); both part of the property |

`TypeOK` is inductive with `QueueOK`: the mutex has a waiter only while it is held and the server is in `menu_lock`. `RestKept` needs three layers of lemmas.

- A write of a device in blocks. `PatchIsOverlay`: a block that is read, changed in part and written back has changed in that part. `WriteParts` and `OverlayPart` put a partial first block, whole blocks and a partial
  last block together, so that `WriteOutcomes` can say of every outcome, faults included, that the disk is as before but for some of the units written to, which have the data. `PartitionWrite` and `PartitionErase` add the bounds of a partition.
- What a handler has to write. `SparseStepFacts`: the parser's next write lies in the units of the chunk it is at, and the cursor stays in step with the chunks that are left, pieces of a fill chunk
  included (`SparseAt`), against `SparseUnits`, the meaning of the image by sums (`BeforeFacts`). `UpdatePlanFacts`: all writes of a payload lie in the images of its entries, for the slots that it may go to. `BctStartsFacts`: the copies of a BCT are in its partition.
- The protocol. `CmdOK` ties what was in force when the command came (image, lock bit, the flag of an earlier update, the disk) to what its handler reads; `JobOK` says that the writes left to a handler lie where the command may write, and that user data are gone before the lock bit is written. One lemma per handler step follows.

`BctSurvives` rests on `BctInv`, about the writes that a handler has left. `InOrder` says that they meet the first copy of the BCT and at once afterwards the second, each in one request, and no copy again: that is the order of `BctCopies`, and holds for an update because `UpdateOrder` names no entry
twice. `SafeFor` says which copies must still be whole for a list of writes: both before the first copy is met, the first while the second is next, one of them after that. As long as a handler has not planned its writes (`Early`), both are whole if they were when the command came. The
theorem needs that an error in the write of the first copy always ends the handler: the copy begins at the border of a block, so that `default_write` has no partial first block there, whose error it drops (`NothingDropped`).

`UpdateOrdered` is not inductive: that nothing of an image is on the disk before what it needs is there says nothing of what is written next. `UpdateInv` adds `PlanLeft`, about the writes that are left: they carry
the version of the payload, which that of the entry written for each name is (`EntryFacts`), to whole blocks (`Lays`), each goes to a partition of one name (`For`), no name comes before one that it depends on (`Ranked`, from the order of `UpdateOrder` by induction over the plan), and what is not
on the disk yet of an image is still to be written (`Remaining`). When the first write of a name is next, no write of what it needs can be left, so that all of that is there; a write that fails halfway changes only partitions of its own name. Without the platform spec there is no plan, and nothing is begun.

`OkayMeansDone` rests on `DoneInv`, which says how far each kind of handler is: of a sparse image, the units up to the parser's cursor read as the image means (`SparseDone`); of a change of the lock,
each copy of the BCT has the new bit or is still to get it, and user data are gone (`OdmLeft`); of an update, `PlanLeft`, and that it is for all slots when a ratchet that was checked calls for it. When nothing is left to write these give `Fulfilled`, and the handler answers. That a write without an
error has all of its data on the disk is `WriteOutcomes` again, but for the dropped errors, which the property excepts.

### Heap (`HeapProofs`)

For heaps of every size, and requests of every size and alignment:

| Theorem | Property | Assumes |
|---|---|---|
| `HeapInvariant` | | |
| `ListSortedTheorem` | `ListSorted` | no size was written over (`~Clobbered`, part of the property; finding 4) |
| `BlocksTileTheorem` | `BlocksTile` | as above |

The free list is what following `next` yields, a recursion that has a value only because `next` always leads upwards; and where the list is sorted and tiled now, nothing follows for the links after a step. `HeapInv` therefore
speaks of the *set* F of free blocks: `Linked` (each block of F is linked to the nearest of F below and above, and no other word has links), `HeadOf` (the head is the least), `Apart` (each has a header's size, ends in the heap and leaves
a word to the next), `Held` (an allocated block has room for header and data, and its header has its size, which is what a free relies on, or the magic written over it), and `Shared` (who has which word). `FromIs` and `FreeListFacts` show that the list then exists
and is F in order.

Inserting, removing, replacing and splitting are lemmas about F and the words it covers (`InsertList`, `RemoveList`, `ReplaceList`, `SplitFacts`); `MallocKeeps`, `MemalignKeeps` and `FreeKeeps` put them together. An aligned
allocation looks up the neighbours of the skipped words before the split and repairs them after it: `LeadFacts` shows that `NextAfterSplit` finds the right one in each of its cases. For a free, `Joining` is the invariant
while merging is under way: only the block put back may touch a neighbour. One round of `Merge` reaches `Settled`, a second changes nothing (`SettledStays`), so the loop in `tegrabl_generic_free` ends
(`MergeAllFacts`). A block whose size was written over may swallow what is below it in the process, and the proof shows that it is then `Clobbered`, the state in which the model stops.

### Induction

The library's induction theorems take an operator, which none of the provers here can instantiate. `InductionFacts` states induction about a set of numbers instead (`NatSetInduction`, from `NatLeast`), and `FunctionByRecursion`, that
a function defined by recursion on 0 .. n exists: with these, facts about the recursive functions of the models (`InsertHeads`, `Before`, `UpdateOrder`, `UpdatePlan`) are proved for every input.

### Only model-checked

- Liveness (`ResetCompletes`, `HeadRead`, `EveryXferReturns`, `NoStarvation`, `FallsBack`, `CommandAnswered`), which is out of the prover's reach.
- The findings: each of them is a counterexample, and stays TLC's.

Every invariant and every safety action property of a passing run is a theorem.

## 6. What is not modelled, and why

- Hardware sequences (storage and display controllers, security engine, clocks): their state is in registers whose
  behaviour this tree does not define.
- Register headers (`src/hwinc-t18x/`): most of the lines of the tree, constants only.
- Formatting and tree editing (device tree, command line, board information): no protocol, no concurrency.
- Vendored code (zlib, lz4, mbedtls, libufdt, mincrypt), and code without a caller (`t18x/cboot/lib/heap/`, resuming a sparse image in a further buffer, the boot menu).
- Weak memory: the barriers of `tegra-ivc.c` are trusted, and stores are taken in program order.
- `IvcFifo` and the runs on it are about one channel; channels share nothing.
- Thread lifetime (`thread_create`, `thread_join`, `thread_detach`): the one join in this tree is `MenuJoin` of `Fastboot`.
- Caches inside a storage device: a write that succeeded is on the disk. The only flush is at the end of an update.
- In fastboot: variables, `oem`, `boot` (a kernel out of memory), a cable that is pulled and put back, and the screen.
- In `Heap`: calls that are interleaved. Nothing in the allocator keeps the main thread and the fastboot thread apart; what they allocate is
  mostly, not always, under `menu_mutex`. Nor is the content of a block that a wrong size lets two owners share.

## 7. Plan

Done: IVC, BPMP transfers, scheduler, mutex, semaphore, event, A/B boot control, block device writes, sparse images, boot loader update, fastboot with its menus, the allocator, and the proofs of section 5.

Modules that would come next: `PartitionLoader` (loading with fall-back over copies, authentication failures), `VerifiedBoot` (the decision over lock state, key and
rollback index), `Ratchet` (two fuses, crash in between), allocator calls split over `LkThread`, and `XusbRing` (event and transfer rings with cycle bits).
