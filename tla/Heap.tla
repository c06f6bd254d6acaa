--------------------------------- MODULE Heap ---------------------------------
(***************************************************************************)
(* tegrabl_malloc.c: first-fit allocation from one free list kept in the   *)
(* free blocks themselves, with alignment, splitting and coalescing.       *)
(*                                                                         *)
(* An address counts words of 8 bytes (uintptr_t) from the start of the    *)
(* heap.  Of the two heap types only TEGRABL_HEAP_DEFAULT is set up in     *)
(* cboot, so every call ends in its list.                                  *)
(***************************************************************************)
EXTENDS Integers, FiniteSets, Sequences

CONSTANTS HeapSize,   \* words of the heap
          Sizes,      \* sizes asked for, rounded up to words
          Alignments  \* alignments asked for, in words

ASSUME HeapSizeAssumption == HeapSize \in Nat /\ HeapSize >= 4
ASSUME SizesAssumption == Sizes \subseteq Nat \ {0}
ASSUME AlignmentsAssumption == Alignments \subseteq Nat \ {0}

VARIABLES
  heap, \* the free list: its head, and the headers size, prev and next by address
  live, \* blocks allocated: where the block starts, what the caller was given, and
        \* how many words the block really has
  lost  \* words that no block has any more

vars == <<heap, live, lost>>

Header == 3    \* words of tegrabl_heap_alloc_block_t: magic, size, start
MinSize == 4   \* words of tegrabl_heap_free_block_t: magic, size, prev, next
Null == -1
Addr == 0 .. HeapSize - 1

\* a size that ALLOC_MAGIC was written over: 0xDEADBEEE bytes, more than any heap
Huge == 2 * HeapSize

Words(start, n) == start .. start + n - 1

\* the blocks from b on, as next leads to them
From(h, b) ==
  LET f[a \in Addr \cup {Null}] == IF a = Null THEN <<>> ELSE <<a>> \o f[h.next[a]]
  IN  f[b]

FreeList(h) == From(h, h.head)
FreeSet(h) == {FreeList(h)[i] : i \in DOMAIN FreeList(h)}

SetNext(h, a, b) == IF a = Null THEN h ELSE [h EXCEPT !.next[a] = b]
SetPrev(h, a, b) == IF a = Null THEN h ELSE [h EXCEPT !.prev[a] = b]
Link(h, a, b) == SetPrev(SetNext(h, a, b), b, a)

\* the header at a is no free block's any more; its size is kept for an allocated one
Drop(h, a) == [h EXCEPT !.prev[a] = Null, !.next[a] = Null]
Forget(h, a) == [Drop(h, a) EXCEPT !.size[a] = 0]

\* mutant: the link back to the block before is not followed
UnlinkForward(h, b) ==
  Drop([SetPrev(h, h.next[b], h.prev[b])
          EXCEPT !.head = IF @ = b THEN h.next[b] ELSE @], b)

Unlink(h, b) ==
  Drop([Link(h, h.prev[b], h.next[b])
          EXCEPT !.head = IF @ = b THEN h.next[b] ELSE @], b)

\* tegrabl_heap_split_block(): n words from the start of b; the rest stays free, or
\* goes with b when a header would be all of it
Split(h, b, n) ==
  LET rest == b + n
      r == [h EXCEPT !.size[rest] = h.size[b] - n, !.size[b] = n,
                     !.head = IF @ = b THEN rest ELSE @]
  IN  IF h.size[b] - n <= MinSize THEN Unlink(h, b)
      ELSE Drop(Link(Link(r, h.prev[b], rest), rest, h.next[b]), b)

AllocSize(size) == IF size + Header < MinSize THEN MinSize ELSE size + Header

\* from the header of b to the first place for data that is aligned, never 0
AlignSize(b, alignment) == alignment - ((b + Header) % alignment)

\* the first block of the list that fits
FirstFit(h, Fits(_)) ==
  LET l == FreeList(h)
      fit == {i \in DOMAIN l : Fits(l[i])}
  IN  IF fit = {} THEN Null ELSE l[CHOOSE i \in fit : \A j \in fit : i <= j]

Init ==
  /\ heap = [head |-> 0, size |-> [a \in Addr |-> IF a = 0 THEN HeapSize ELSE 0],
             prev |-> [a \in Addr |-> Null], next |-> [a \in Addr |-> Null]]
  /\ live = {}
  /\ lost = {}

\* tegrabl_malloc(), tegrabl_calloc(), tegrabl_alloc()
Malloc(size) ==
  LET n == AllocSize(size)
      Fits(a) == heap.size[a] > n
      b == FirstFit(heap, Fits)
      h == Split(heap, b, n)
  IN  /\ b # Null
      /\ heap' = h
      /\ live' = live \cup {[start |-> b, ptr |-> b + Header, len |-> h.size[b]]}
      /\ UNCHANGED lost

\* the block to come after the words that alignment skips, looked up after the split
NextAfterSplit(h, before, after) ==
  IF before = Null /\ after = Null THEN h.head
  ELSE IF after = Null THEN h.next[before]
  ELSE IF h.prev[after] # before THEN h.prev[after]
  ELSE after

\* the words that alignment skips become a free block of their own
FreeLead(h, b, skip, before, after) ==
  LET nxt == NextAfterSplit(h, before, after)
      r == [h EXCEPT !.size[b] = skip, !.next[b] = nxt, !.prev[b] = before]
      s == SetPrev(SetNext(r, before, b), nxt, b)
  IN  [s EXCEPT !.head = IF @ = Null \/ @ > b THEN b ELSE @]

\* tegrabl_memalign(), tegrabl_alloc_align().  A short skip stays in the block, and a
\* second header is written skip words into it: with one word its magic lands on the
\* size in the first.  After a long skip the block has n words, even if Split gave it
\* more.
Memalign(alignment, size) ==
  LET n == AllocSize(size)
      Fits(a) == heap.size[a] >= n /\ AlignSize(a, alignment) + n <= heap.size[a]
      b == FirstFit(heap, Fits)
      skip == AlignSize(b, alignment)
      h == Split(heap, b, n + skip)
      got == h.size[b]
      ptr == b + Header + skip
  IN  /\ b # Null
      /\ IF skip < MinSize
           THEN /\ heap' = IF skip = 1 THEN [h EXCEPT !.size[b] = Huge] ELSE h
                /\ live' = live \cup {[start |-> b, ptr |-> ptr, len |-> got]}
                /\ UNCHANGED lost
           ELSE /\ heap' = [FreeLead(h, b, skip, heap.prev[b], heap.next[b])
                              EXCEPT !.size[b + skip] = n]
                /\ live' = live \cup {[start |-> b + skip, ptr |-> ptr, len |-> n]}
                /\ lost' = lost \cup Words(b + skip + n, got - (n + skip))

\* tegrabl_heap_merge_blocks(): b with the block after it, and with the one before
MergeNext(h, b) ==
  LET nxt == h.next[b]
  IN  IF nxt # Null /\ b + h.size[b] = nxt
        THEN Forget([Link(h, b, h.next[nxt]) EXCEPT !.size[b] = @ + h.size[nxt]], nxt)
        ELSE h

MergePrev(h, b) ==
  LET prv == h.prev[b]
  IN  IF prv # Null /\ prv + h.size[prv] = b
        THEN [h |-> Forget([Link(h, prv, h.next[b]) EXCEPT !.size[prv] = @ + h.size[b]], b),
              b |-> prv]
        ELSE [h |-> h, b |-> b]

\* mutant: only the block before is looked at
MergeBefore(h, b) == MergePrev(h, b)

Merge(h, b) == MergePrev(MergeNext(h, b), b)

\* until Merge gives back the block it was given
MergeAll(h, b) ==
  LET f[n \in Nat] ==
        LET last == f[n - 1]
            m == Merge(last.h, last.b)
        IN  IF n = 0 THEN [h |-> h, b |-> b, done |-> FALSE]
            ELSE IF last.done THEN last
            ELSE [h |-> m.h, b |-> m.b, done |-> m.b = last.b]
  IN  f[HeapSize \div MinSize]

\* tegrabl_free(), tegrabl_dealloc(): the block goes before the first free block that
\* lies behind the data
Free(blk) ==
  LET b == blk.start
      l == FreeList(heap)
      passed == CHOOSE k \in 0 .. Len(l) :
                  /\ \A i \in 1 .. k : blk.ptr > l[i]
                  /\ k < Len(l) => blk.ptr <= l[k + 1]
      before == IF passed = 0 THEN Null ELSE l[passed]
      after == IF passed = Len(l) THEN Null ELSE l[passed + 1]
      m == MergeAll(Link(Link(heap, before, b), b, after), b)
  IN  /\ heap' = [m.h EXCEPT !.head = IF @ = Null \/ @ > m.b THEN m.b ELSE @]
      /\ live' = live \ {blk}
      /\ UNCHANGED lost

\* A free block with a size that was written over: what it hands out is in use
Clobbered == \E b \in FreeSet(heap) : heap.size[b] >= Huge

Next ==
  /\ ~Clobbered
  /\ \/ \E size \in Sizes : Malloc(size)
     \/ \E size \in Sizes, alignment \in Alignments : Memalign(alignment, size)
     \/ \E blk \in live : Free(blk)

Spec == Init /\ [][Next]_vars

-------------------------------------------------------------------------------
LiveWords(blk) == Words(blk.start, blk.len)
FreeWords(b) == Words(b, heap.size[b])

\* Type correctness, and the free list as its comment promises it
\* (tegrabl_malloc.c:58-62): sorted by address, linked both ways, and no two
\* neighbours left apart that could be one block.  Merging after a free and the
\* links fixed up after an aligned allocation keep it so.
ListSorted ==
  ~Clobbered =>
    LET l == FreeList(heap)
    IN  /\ heap.head \in Addr \cup {Null}
        /\ l # <<>> => heap.prev[l[1]] = Null
        /\ \A i \in DOMAIN l : heap.size[l[i]] \in MinSize .. HeapSize
        /\ \A i \in 1 .. Len(l) - 1 :
             /\ heap.prev[l[i + 1]] = l[i]
             /\ l[i] + heap.size[l[i]] < l[i + 1]

\* Free blocks, live blocks and the words lost share the heap out between them: no
\* word is handed out twice or forgotten in splitting, aligning and merging, but
\* for the tails that an aligned allocation drops.
BlocksTile ==
  ~Clobbered =>
    /\ \A b \in FreeSet(heap), blk \in live : FreeWords(b) \cap LiveWords(blk) = {}
    /\ \A x, y \in live : x # y => LiveWords(x) \cap LiveWords(y) = {}
    /\ Addr = UNION ({FreeWords(b) : b \in FreeSet(heap)}
                       \cup {LiveWords(blk) : blk \in live} \cup {lost})
    /\ \A blk \in live : blk.ptr >= blk.start + Header

\* "size of the free block, this includes the header" (tegrabl_malloc.c:41): what a
\* free block claims is memory of the heap that nobody has allocated.
SizeIsBlock ==
  \A b \in FreeSet(heap) :
    /\ FreeWords(b) \subseteq Addr
    /\ \A blk \in live : FreeWords(b) \cap LiveWords(blk) = {}
===============================================================================
