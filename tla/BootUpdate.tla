------------------------------ MODULE BootUpdate ------------------------------
(***************************************************************************)
(* tegrabl_bootloader_update.c: which partitions a bootloader update       *)
(* payload writes, in which order, and for which slots; and the copies of  *)
(* the boot configuration table, which hold the ODM data word with the     *)
(* lock bit (tegrabl_brbct.c, odmdata.c).                                  *)
(*                                                                         *)
(* A payload has a sequence of entries, each for a partition by name and   *)
(* for some boards, and says whether it raises a ratchet level.  The data  *)
(* of an entry is its version, ImageUnits[name] units of it.  The first    *)
(* unit of a BCT holds the ODM data besides, as a bit.                     *)
(***************************************************************************)
EXTENDS Integers, Sequences, FiniteSets

CONSTANTS SlotParts,  \* SlotParts[name]: the partitions of slots 0 and 1, one of them
                      \* twice for a partition that has no slots
          ImageUnits, \* units of data that a payload has for each name
          BctSlot,    \* units from one BCT to the next, whole blocks of the device
          BootBlock,  \* units of a block as the boot ROM counts
          PlatformSpec, \* the id and the configuration that the NCT has of this board
          ProductionMode \* fuse_is_nv_production_mode(), 0 or 1

\* update_sequence[]: name -> what must be updated before it
Dependency == [BCT |-> {"mb2"}, mb1 |-> {"BCT"}, mb2 |-> {}]

ASSUME SlotPartsAssumption == DOMAIN SlotParts = DOMAIN Dependency
ASSUME ImageUnitsAssumption == ImageUnits \in [DOMAIN Dependency -> Nat \ {0}]
ASSUME BctAssumption ==
  /\ BctSlot \in Nat /\ BootBlock \in Nat
  /\ ImageUnits["BCT"] <= BctSlot /\ 2 * BctSlot <= BootBlock

ASSUME BoardAssumption == PlatformSpec \in STRING /\ ProductionMode \in {0, 1}

\* fastboot_a_b_is_always_ab_partition()
AlwaysAb == {"mb1"}

\* A unit with the lock bit in its ODM data, set when the device is locked
LockBit == 100

\* what update_partition() does not pass over: an entry for any board or this one, for
\* any fuses or ours
IsFor(entry) ==
  entry.spec \in {"", PlatformSpec} /\ entry.mode \in {0, 1 + ProductionMode}

\* the entries of a name that are not passed over, by their places
PlacesFor(payload, name) ==
  {i \in DOMAIN payload.entries :
     payload.entries[i].name = name /\ IsFor(payload.entries[i])}

\* the names for which anything is written
NamesOf(payload) == {name \in DOMAIN Dependency : PlacesFor(payload, name) # {}}

\* mutant: the entry is taken by its name alone
EntryByName(payload, name) ==
  payload.entries[CHOOSE i \in DOMAIN payload.entries :
    /\ payload.entries[i].name = name
    /\ \A k \in DOMAIN payload.entries : payload.entries[k].name = name => i <= k]

\* the one that update_partition() writes: the first of them
EntryFor(payload, name) ==
  payload.entries[CHOOSE i \in PlacesFor(payload, name) :
    \A k \in PlacesFor(payload, name) : i <= k]

\* A payload, told from others by its version: that of each entry which is the first of
\* its name for this board.  Other entries may have any.
IsPayload(payload) ==
  /\ payload.version \in 0 .. LockBit - 1 /\ payload.ratchet \in BOOLEAN
  /\ payload.entries \in Seq([name : DOMAIN Dependency, spec : STRING, mode : Nat,
                              version : 0 .. LockBit - 1])
  /\ \A i \in DOMAIN payload.entries :
       \/ payload.entries[i].version = payload.version
       \/ ~IsFor(payload.entries[i])
       \/ \E k \in 1 .. i - 1 :
            payload.entries[k].name = payload.entries[i].name /\ IsFor(payload.entries[k])

\* mutant: an entry is written where it stands in the payload
UpdateFlat(name, done) == IF name \in done.names THEN done
  ELSE [names |-> done.names \cup {name}, order |-> Append(done.order, name)]

\* update_partition_recursive(): what name depends on first, and nothing twice
UpdateRecursive(name, done) ==
  LET f[n \in DOMAIN Dependency] ==
        LET before == IF Dependency[n] = {} THEN done
                      ELSE f[CHOOSE d \in Dependency[n] : TRUE]
        IN  IF n \in done.names THEN done
            ELSE [names |-> before.names \cup {n}, order |-> Append(before.order, n)]
  IN  f[name]

\* the names in the order of their updates, with those that there is no entry for
UpdateOrder(payload) ==
  LET upto[i \in 0 .. Len(payload.entries)] ==
        IF i = 0 THEN [names |-> {}, order |-> <<>>]
        ELSE UpdateRecursive(payload.entries[i].name, upto[i - 1])
  IN  upto[Len(payload.entries)].order

\* write_a_b_partition(): the slot asked for, then the other one when all slots are to
\* be updated
SlotOrder(name, slot, allSlots) ==
  IF SlotParts[name][0] = SlotParts[name][1] THEN <<SlotParts[name][0]>>
  ELSE IF allSlots \/ name \in AlwaysAb
    THEN <<SlotParts[name][slot], SlotParts[name][1 - slot]>>
  ELSE <<SlotParts[name][slot]>>

\* a write to come: the partition, the offset in it and the data
Write(p, offset, data) == [part |-> p, offset |-> offset, data |-> data]

ImageData(payload, name) ==
  [i \in 1 .. ImageUnits[name] |-> EntryFor(payload, name).version]

SetOdm(unit, unlocked) == (unit % LockBit) + (IF unlocked THEN 0 ELSE LockBit)

WithOdm(bct, unlocked) == [bct EXCEPT ![1] = SetOdm(@, unlocked)]

\* tegrabl_brbct_write_multiple() of a partition of so many units: slots 0 and 1 of the
\* first block, then slot 0 of the others, which is the order of the boot ROM's search
BctCopies(partUnits) ==
  LET blocks == partUnits \div BootBlock
  IN  <<0, BctSlot>> \o (IF blocks < 2 THEN <<>>
                         ELSE [i \in 1 .. blocks - 1 |-> i * BootBlock])

BctWrites(bct, partUnits) ==
  [i \in DOMAIN BctCopies(partUnits) |-> Write("BCT", BctCopies(partUnits)[i], bct)]

\* write_partition() for each partition of a name.  A BCT goes by
\* flush_brbct_to_storage(): it takes over the ODM data in memory, and its copies are
\* written with 0 for the size of the partition.
WritesOf(name, slot, payload, allSlots, unlocked) ==
  IF name = "BCT" THEN BctWrites(WithOdm(ImageData(payload, name), unlocked), 0)
  ELSE LET parts == SlotOrder(name, slot, allSlots)
       IN  [i \in DOMAIN parts |-> Write(parts[i], 0, ImageData(payload, name))]

\* tegrabl_check_and_update_bl_payload(): all writes of a payload in their order, when
\* the platform spec is known; a name without an entry for this board is passed over
UpdatePlan(payload, slot, allSlots, unlocked) ==
  LET order == UpdateOrder(payload)
      plan[i \in 0 .. Len(order)] ==
        IF i = 0 THEN <<>>
        ELSE IF order[i] \notin NamesOf(payload) THEN plan[i - 1]
        ELSE plan[i - 1] \o WritesOf(order[i], slot, payload, allSlots, unlocked)
  IN  plan[Len(order)]
===============================================================================
