------------------------------- MODULE Unsparse -------------------------------
(***************************************************************************)
(* tegrabl_unsparse.c as cboot uses it: the whole image is in memory and   *)
(* its chunks go to one partition, one call of the writer or the seeker    *)
(* at a time.                                                              *)
(*                                                                         *)
(* An image has the units its header claims, the number of chunks the      *)
(* header claims, and the chunks that are there:                           *)
(*   type "raw":  n units of which data is there (less only when the image *)
(*                was cut off in its last chunk)                           *)
(*   type "fill": n units of the value data[1], n > 0                      *)
(*   type "skip": DONT_CARE, n units                                       *)
(*   type "crc":  a checksum and its value; this build cannot check it     *)
(*   type "bad":  a chunk header that does not fit together                *)
(***************************************************************************)
EXTENDS Blockdev

CONSTANT LocalBuffer \* units of the buffer that fill chunks are written from

ASSUME LocalBufferAssumption == LocalBuffer \in Nat \ {0}

IsSparse(img) ==
  /\ img.chunks \in Seq([type : {"raw", "fill", "skip", "crc", "bad"}, n : Nat,
                         data : Seq(Int)])
  /\ \A i \in DOMAIN img.chunks :
       LET c == img.chunks[i]
       IN  /\ c.type = "raw" => Len(c.data) = c.n \/ (Len(c.data) < c.n /\ i = Len(img.chunks))
           /\ c.type = "fill" => c.n > 0 /\ Len(c.data) = 1

\* Where the parser is: chunks still to come, the rest of the fill chunk being
\* written, chunks seen, and the cursor of the partition
SparseStart(img) ==
  [chunks |-> img.chunks, fill |-> 0, seen |-> 0, offset |-> 0]

\* tegrabl_sparse_validate_header()
HeaderFits(p, img) == img.units <= Size[p]

\* what is written of n units of a fill chunk at once
Piece(n) == Smaller(n, LocalBuffer)

\* The chunk whose header comes next, and whether it is accepted
NextChunk(j) == Head(j.chunks)

Accepted(j, img) ==
  NextChunk(j).type # "bad" /\ (j.fill > 0 \/ j.seen < img.chunkCount)

\* nothing is left to parse: also when a raw chunk has a header, which is accepted, and
\* no data
Finished(j, img) ==
  \/ j.chunks = <<>>
  \/ /\ j.fill = 0 /\ Len(j.chunks) = 1
     /\ NextChunk(j).type = "raw" /\ NextChunk(j).data = <<>>
     /\ Accepted(j, img)

\* the data of the next call of the writer
NextData(j) ==
  LET c == NextChunk(j)
  IN  IF c.type = "raw" THEN c.data
      ELSE [i \in 1 .. Piece(IF j.fill > 0 THEN j.fill ELSE c.n) |-> c.data[1]]

\* the parser after n units were written or skipped
After(j, n) ==
  LET c == NextChunk(j)
      left == IF c.type = "fill" THEN (IF j.fill > 0 THEN j.fill ELSE c.n) - n ELSE 0
  IN  [chunks |-> IF left > 0 THEN j.chunks ELSE Tail(j.chunks), fill |-> left,
       seen |-> IF j.fill > 0 THEN j.seen ELSE j.seen + 1, offset |-> j.offset + n]

-------------------------------------------------------------------------------
(***************************************************************************)
(* What a sparse image stands for, whatever the parser does: the value at  *)
(* each unit that it covers.                                               *)
(***************************************************************************)
Before(img, i) ==
  LET sum[k \in 0 .. Len(img.chunks)] == IF k = 0 THEN 0 ELSE sum[k - 1] + img.chunks[k].n
  IN  sum[i - 1]

ChunkUnits(img, i) ==
  LET c == img.chunks[i]
  IN  IF c.type = "raw" THEN Before(img, i) .. Before(img, i) + Len(c.data) - 1
      ELSE IF c.type = "fill" THEN Before(img, i) .. Before(img, i) + c.n - 1
      ELSE {}

SparseUnits(img) == UNION {ChunkUnits(img, i) : i \in DOMAIN img.chunks}

SparseValue(img, u) ==
  LET i == CHOOSE k \in DOMAIN img.chunks : u \in ChunkUnits(img, k)
      c == img.chunks[i]
  IN  IF c.type = "fill" THEN c.data[1] ELSE c.data[u - Before(img, i) + 1]
===============================================================================
