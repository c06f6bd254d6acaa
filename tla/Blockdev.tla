------------------------------- MODULE Blockdev -------------------------------
(***************************************************************************)
(* Writes to a block device that need not be aligned to its blocks:        *)
(* tegrabl_blockdev.c under the bounds of tegrabl_partition_manager.c.     *)
(*                                                                         *)
(* A disk is a function from units to values, a unit being what the sizes  *)
(* in play have in common (1 KiB: a piece of a fill chunk), and a block    *)
(* BlockUnits of them.  An operation gives the set of its outcomes:        *)
(* the disk, whether the caller is told of an error, whether an error was  *)
(* dropped on the way, and whether the device failed.                      *)
(***************************************************************************)
EXTENDS Integers, Sequences, FiniteSets

CONSTANTS BlockUnits, \* units of a block of the device
          Start,      \* Start[p]: first unit of partition p, at a block's border
          Size        \* Size[p]: units of partition p, whole blocks

ASSUME BlockAssumption ==
  /\ BlockUnits \in Nat \ {0}
  /\ DOMAIN Start = DOMAIN Size
  /\ \A p \in DOMAIN Start :
       /\ Start[p] \in Nat /\ Start[p] % BlockUnits = 0
       /\ Size[p] \in Nat /\ Size[p] % BlockUnits = 0

Erased == -1

Outcome(d, err, dropped, fault) ==
  [disk |-> d, err |-> err, dropped |-> dropped, fault |-> fault]

Clean(d) == Outcome(d, FALSE, FALSE, FALSE)
Refused(d) == Outcome(d, TRUE, FALSE, FALSE)
Failed(d) == Outcome(d, TRUE, FALSE, TRUE)
Unnoticed(d) == Outcome(d, FALSE, TRUE, TRUE)

Smaller(a, b) == IF a < b THEN a ELSE b

\* d with data from unit at on
Overlay(d, at, data) ==
  LET last == at + Len(data) - 1
  IN  [u \in DOMAIN d |-> IF at <= u /\ u <= last THEN data[u - at + 1] ELSE d[u]]

\* whole blocks from block on: what tegrabl_blockdev_write_block() does
WriteBlocks(d, block, data) == Overlay(d, block * BlockUnits, data)

ReadBlock(d, block) == [i \in 1 .. BlockUnits |-> d[block * BlockUnits + i - 1]]

\* mutant: the rest of the block is not read in first
PatchBlind(d, at, data) ==
  WriteBlocks(d, at \div BlockUnits,
              Overlay([i \in 1 .. BlockUnits |-> Erased], (at % BlockUnits) + 1, data))

\* part of a block: read it, copy data into the buffer, write the buffer back
Patch(d, at, data) ==
  LET block == at \div BlockUnits
      temp == Overlay(ReadBlock(d, block), (at % BlockUnits) + 1, data)
  IN  WriteBlocks(d, block, temp)

\* tegrabl_blockdev_default_write(): a partial first block, whole blocks, a partial
\* last block.  One request to the device may fail: a read, a write of whole blocks
\* after some of them, or the write of a partial block, whose error is dropped when
\* that block is the first.
default_write(d, at, data, faulty) ==
  LET len == Len(data)
      head == IF at % BlockUnits = 0 THEN 0 ELSE Smaller(BlockUnits - (at % BlockUnits), len)
      blocks == (len - head) \div BlockUnits
      tail == len - head - blocks * BlockUnits
      Part(i, n) == SubSeq(data, i + 1, i + n)
      First(e) == IF head = 0 THEN e ELSE Patch(e, at, Part(0, head))
      Middle(e, n) == Overlay(e, at + head, Part(head, n * BlockUnits))
      Last(e) == IF tail = 0 THEN e
                 ELSE Patch(e, at + len - tail, Part(len - tail, tail))
      Faults ==
        (IF head = 0 THEN {} ELSE {Failed(d), Unnoticed(Last(Middle(d, blocks)))})
        \cup {Failed(Middle(First(d), n)) : n \in 0 .. blocks - 1}
        \cup (IF tail = 0 THEN {} ELSE {Failed(Middle(First(d), blocks))})
  IN  {Clean(Last(Middle(First(d), blocks)))} \cup (IF faulty THEN Faults ELSE {})

\* what tegrabl_partition_write() accepts
Fits(p, offset, n) == n > 0 /\ offset + n <= Size[p]

\* tegrabl_partition_write() with the cursor at offset, over tegrabl_blockdev_write();
\* the cursor moves by Len(data) even when the device failed
partition_write(d, p, offset, data, faulty) ==
  IF Fits(p, offset, Len(data)) THEN default_write(d, Start[p] + offset, data, faulty)
  ELSE {Refused(d)}

\* tegrabl_partition_seek() from the cursor
CanSeek(p, offset, n) == offset + n <= Size[p]

UnitsOf(p) == Start[p] .. Start[p] + Size[p] - 1

\* what a partition table looks like
ASSUME PartitionAssumption ==
  \A p, q \in DOMAIN Start : p # q => UnitsOf(p) \cap UnitsOf(q) = {}

\* tegrabl_partition_erase(): the device may fail after some of the blocks
partition_erase(d, p, faulty) ==
  LET Upto(n) == [u \in DOMAIN d |-> IF u \in UnitsOf(p) /\ u < Start[p] + n * BlockUnits
                                       THEN Erased ELSE d[u]]
      blocks == Size[p] \div BlockUnits
  IN  {Clean(Upto(blocks))}
        \cup (IF faulty THEN {Failed(Upto(n)) : n \in 0 .. blocks - 1} ELSE {})
===============================================================================
