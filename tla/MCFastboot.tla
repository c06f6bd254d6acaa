------------------------------ MODULE MCFastboot ------------------------------
EXTENDS Fastboot

\* units are half blocks; a fill chunk is written half a block at a time
MCStart == [data |-> 0, BCT |-> 6, mb2 |-> 22, mb2_b |-> 26, mb1 |-> 30, mb1_b |-> 32]
MCSize == [data |-> 6, BCT |-> 16, mb2 |-> 4, mb2_b |-> 4, mb1 |-> 2, mb1_b |-> 2]

Slotted(a, b) == [s \in {0, 1} |-> IF s = 0 THEN a ELSE b]

MCSlotParts ==
  [BCT |-> Slotted("BCT", "BCT"), mb2 |-> Slotted("mb2", "mb2_b"),
   mb1 |-> Slotted("mb1", "mb1_b")]

MCImageUnits == [BCT |-> 3, mb2 |-> 3, mb1 |-> 1]

Raw(len) == [kind |-> "raw", len |-> len, data |-> [i \in 1 .. len |-> i]]

Sparse(units, count, chunks) ==
  [kind |-> "sparse", len |-> 3, units |-> units, chunkCount |-> count, chunks |-> chunks]

Payload(version, ratchet, entries) ==
  [kind |-> "payload", len |-> 3, version |-> version, ratchet |-> ratchet,
   entries |-> entries, data |-> [i \in 1 .. 3 |-> version]]

\* an entry for any board, for a board's spec, for a mode of the fuses
Entry(name, version) == [name |-> name, spec |-> "", mode |-> 0, version |-> version]
ForSpec(spec, entry) == [entry EXCEPT !.spec = spec]
ForMode(mode, entry) == [entry EXCEPT !.mode = mode]

Chunk(type, n, data) == [type |-> type, n |-> n, data |-> data]

MCSparse ==
  { \* all kinds of chunks, pieces that straddle blocks
    Sparse(6, 4, <<Chunk("raw", 1, <<1>>), Chunk("fill", 2, <<2>>), Chunk("skip", 1, <<>>),
                   Chunk("raw", 2, <<3, 4>>)>>),
    \* more in the chunks than the header claims, and than there is room for
    Sparse(5, 3, <<Chunk("skip", 1, <<>>), Chunk("raw", 4, <<1, 2, 3, 4>>),
                   Chunk("fill", 3, <<5>>)>>),
    \* more chunks than the header claims
    Sparse(4, 1, <<Chunk("raw", 3, <<1, 2, 3>>), Chunk("raw", 1, <<>>)>>),
    \* cut off
    Sparse(6, 2, <<Chunk("fill", 1, <<1>>), Chunk("raw", 5, <<2, 3>>)>>),
    \* ends with a checksum
    Sparse(1, 2, <<Chunk("raw", 1, <<1>>), Chunk("crc", 0, <<>>)>>),
    \* larger than the partition
    Sparse(7, 1, <<Chunk("raw", 7, <<1, 2, 3, 4, 5, 6, 7>>)>>) }

\* this board is "here" and its fuses are in production mode
MCPayloads ==
  { \* for other boards and modes besides
    Payload(11, FALSE, <<ForSpec("there", Entry("mb1", 21)), Entry("mb1", 11),
                         ForMode(1, Entry("mb2", 22)), ForMode(2, Entry("mb2", 11)),
                         ForSpec("here", Entry("BCT", 11))>>),
    \* with a second one for a name, and for all slots
    Payload(12, TRUE, <<Entry("BCT", 12), Entry("mb1", 12), Entry("mb2", 12),
                        Entry("mb2", 23)>>),
    \* not for this board, but for mb1
    Payload(13, FALSE, <<ForSpec("there", Entry("BCT", 24)), Entry("mb1", 13),
                         ForMode(1, Entry("mb2", 25))>>),
    Payload(14, FALSE, <<>>) }

MCImages == {Raw(3), Raw(7)} \cup MCSparse \cup MCPayloads

-------------------------------------------------------------------------------
\* Type correctness, and what the mutex is for: a handler runs with it held.
TypeOK ==
  /\ unlocked \in BOOLEAN
  /\ fb \in {"recv", "lock", "start", "work", "confirm", "confirm_keys", "relock",
             "chosen", "unlock", "exit", "panic", "spin", "off"}
  /\ state \in {"OFFLINE", "COMMAND", "COMPLETE", "ERROR"}
  /\ main \in {"draw", "loop", "try", "keys", "select", "join", "out", "off"}
  /\ status \in {"RUNNING", "PAUSED", "TERMINATED"}
  /\ holder \in {"none", "main", "server"}
  /\ answer \in {"none", "OKAY", "FAIL"}
  /\ fb \in {"start", "work", "confirm_keys", "chosen", "unlock", "spin"}
       => holder = "server" /\ ~queued
  /\ main = "keys" => holder = "main"

\* The partitions that an update is for: both slots when it is for all or for mb1, else
\* the slot asked for
Target(name, slot, all) ==
  IF name = "mb1" \/ all
    THEN {SlotParts[name][0], SlotParts[name][1]} ELSE {SlotParts[name][slot]}

\* units of partition p that carry an image of name, the BCT once and once more
ImageUnitsIn(p, name) ==
  LET at == IF name = "BCT" THEN {BctStarts[1], BctStarts[2]} ELSE {Start[p]}
  IN  UNION {start .. start + ImageUnits[name] - 1 : start \in at}

\* the value there: the version, and in a BCT the lock bit, which is clear while a
\* payload is flashed
Installed(name, slot, all) ==
  \A p \in Target(name, slot, all) :
    \A u \in ImageUnitsIn(p, name) : disk[u] = cmd.img.version

Wiped == \A u \in UnitsOf("data") : disk[u] = Erased

BctUnits == UNION {start .. start + ImageUnits["BCT"] - 1 : start \in OdmUnits}

FlashesData == cmd.op = "flash" /\ cmd.arg = "data" /\ cmd.img # None

Updates ==
  /\ cmd.op = "flash" /\ cmd.arg # "data"
  /\ cmd.img.kind = "payload"

\* units that the image for partition data covers, and their values
DataUnits(img) ==
  IF img.kind = "sparse" THEN SparseUnits(img) ELSE 0 .. Len(img.data) - 1

DataValue(img, u) == IF img.kind = "sparse" THEN SparseValue(img, u) ELSE img.data[u + 1]

\* OKAY means done.  What a command was for is on the disk when it is answered OKAY:
\* the expansion of the image, a partition erased, user data wiped when the lock
\* changed and the bit the same in every copy of the BCT, and of a payload the first
\* entry of each name for this board, in each slot that it is for, with the lock bit
\* kept.  Excepted are the errors that the code drops: of a raw image
\* (tegrabl_fastboot_protocol.c:549), of a partial first block (tegrabl_blockdev.c:202),
\* of the lock bit (fastboot.c:606), a platform spec that cannot be had
\* (tegrabl_bootloader_update.c:348) and a ratchet check that fails (:145-150); and, when
\* the ratchet of an earlier payload still counts (:134), the slot not asked for.
OkayMeansDone ==
  (answer = "OKAY" /\ ~dropped) =>
    /\ FlashesData =>
         \A u \in DataUnits(cmd.img) : disk[Start["data"] + u] = DataValue(cmd.img, u)
    /\ cmd.op = "erase" => Wiped
    /\ (cmd.op = "flashing" /\ unlocked # cmd.open) =>
         /\ Wiped
         /\ \A u \in OdmUnits : disk[u] = SetOdm(disk[BctStarts[1]], unlocked)
    /\ Updates =>
         \A name \in NamesOf(cmd.img) :
           Installed(name, SlotOf(cmd.arg), cmd.img.ratchet /\ ~cmd.stale)

\* where an image may go: after an update that failed, to either slot
MayTarget(name) ==
  IF cmd.stale THEN {SlotParts[name][0], SlotParts[name][1]}
  ELSE Target(name, SlotOf(cmd.arg), cmd.img.ratchet)

\* units that the command may change: the lock bit only when user data are gone
Covered ==
  IF cmd.op \in {"flash", "erase"} /\ ~cmd.open THEN {}
  ELSE IF cmd.op = "erase" THEN UnitsOf("data")
  ELSE IF cmd.op = "flashing" THEN UnitsOf("data") \cup (IF Wiped THEN BctUnits ELSE {})
  ELSE IF FlashesData
    THEN {Start["data"] + u : u \in DataUnits(cmd.img)} \cap UnitsOf("data")
  ELSE IF Updates
    THEN UNION {UNION {ImageUnitsIn(p, name) : p \in MayTarget(name)} :
                  name \in NamesOf(cmd.img)}
  ELSE {}

\* At any moment, whatever fails and wherever the power goes, all else on the disk is
\* as it was before the command: the rest of a block that is written in part, what a
\* sparse image leaves out, the neighbours of the partition, the other slot, and
\* everything while the device is locked.
RestKept == \A u \in DOMAIN disk \ Covered : disk[u] = was[u]

\* Both copies of the BCT in the first block were whole when the command came: then one
\* of them is at any moment, wherever an update or a change of the lock bit stops.  (A
\* change of the lock bit copies the first over the others, so one that was torn before
\* is the end of all, odmdata.c:214-232.)
BctSurvives ==
  (WholeBct(was, BctStarts[1]) /\ WholeBct(was, BctStarts[2])) =>
    \E i \in {1, 2} : WholeBct(disk, BctStarts[i])

\* Something of the payload is in partition p that was not there before
Begun(name) ==
  \E p \in {SlotParts[name][0], SlotParts[name][1]} :
    \E u \in ImageUnitsIn(p, name) \cap UnitsOf(p) :
      disk[u] = cmd.img.version /\ was[u] # cmd.img.version

\* "BCT is dependent on mb2", "MB1 is dependent on BRBCT" (bootloader_update.c:50-55):
\* wherever an update stops, what a new image needs is there in full before any of it,
\* in each slot that is updated, if the payload has it for this board.
UpdateOrdered ==
  Updates =>
    \A name \in NamesOf(cmd.img) :
      \A needs \in Dependency[name] \cap NamesOf(cmd.img) :
        Begun(name) => Installed(needs, SlotOf(cmd.arg), cmd.all)

\* A command is answered, or the thread is where nobody can help it: the mutex was
\* left taken by a menu that failed (menu.c:398), it waits for the user to confirm, it
\* spins over a checksum chunk (tegrabl_unsparse.c:360), it panicked, or the device
\* went off.
Beyond ==
  \/ main \in {"join", "out"} /\ holder = "main"
  \/ fb \in {"confirm", "spin", "panic", "off"}

CommandAnswered == (fb \in {"lock", "relock"}) ~> (answer # "none" \/ Beyond)
===============================================================================
