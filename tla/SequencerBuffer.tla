--------------------------- MODULE SequencerBuffer ---------------------------
(***************************************************************************)
(* QuicStreamSequencerBuffer (src/sequencer/quic_stream_sequencer_buffer): *)
(* a ring of memory blocks with random-offset writes and in-order reads.   *)
(*                                                                         *)
(* A buffer is a record `b' and every method of the class is an operator   *)
(* from a buffer to its next value (and results), so that StreamSequencer  *)
(* can call several of them in one handler.  The specification at the end  *)
(* drives one buffer, the variable buf, by arbitrary calls.                *)
(*                                                                         *)
(* The interval set bytes_received_ is the set of offsets it covers; its   *)
(* Size() is the number of maximal runs of that set.                       *)
(***************************************************************************)
EXTENDS Integers, Sequences, FiniteSets, FiniteSetsExt, Functions

CONSTANTS
  MaxCapacity,   \* max_buffer_capacity_bytes_
  BlockSize,     \* kBlockSizeBytes
  MaxIntervals,  \* kMaxNumDataIntervalsAllowed
  Bytes,         \* byte values a sender may put in a frame
  NoByte,        \* what fresh or released memory holds
  Offsets,       \* offsets of the frames the sender may send
  Payloads       \* payloads of those frames

ASSUME BufferAssumption ==
  /\ MaxCapacity \in Nat \ {0}
  /\ BlockSize \in Nat \ {0}
  /\ MaxIntervals \in Nat \ {0}
  /\ NoByte \notin Bytes
  /\ Offsets \subseteq Nat
  /\ Payloads \subseteq Seq(Bytes)

-------------------------------------------------------------------------------
(* Geometry of the ring. *)

Cells == 0 .. (MaxCapacity - 1)
MaxBlocks == (MaxCapacity + BlockSize - 1) \div BlockSize   \* CalculateBlockCount

\* The memory cell of a stream offset, and the block it lies in.
CellWithoutWrap(o) == o
Cell(o) == o % MaxCapacity
BlockOfCell(c) == c \div BlockSize
BlockIndex(o) == BlockOfCell(Cell(o))                       \* GetBlockIndex
InBlockOffset(o) == Cell(o) % BlockSize                     \* GetInBlockOffset

\* Only the trailing block may be shorter than the others.
BlockCapacityAlwaysWhole(k) == BlockSize
BlockCapacity(k) ==
  IF k + 1 = MaxBlocks /\ MaxCapacity % BlockSize # 0
  THEN MaxCapacity % BlockSize
  ELSE BlockSize

-------------------------------------------------------------------------------
(* Buffers. *)

Buffer ==
  [ totalRead   : Nat,                          \* total_bytes_read_
    received    : SUBSET Nat,                   \* bytes_received_
    memory      : [Cells -> Bytes \cup {NoByte}],
    blocks      : SUBSET (0 .. (MaxBlocks - 1)),  \* indices of non-null blocks_
    numBuffered : Int ]                         \* num_bytes_buffered_

EmptyBuffer ==
  [ totalRead |-> 0, received |-> {}, memory |-> [c \in Cells |-> NoByte],
    blocks |-> {}, numBuffered |-> 0 ]

\* bytes_received_.Size(): an interval starts at each offset whose
\* predecessor is missing.
IntervalStarts(S) == {o \in S : o - 1 \notin S}
IntervalCount(S) == Cardinality(IntervalStarts(S))

\* End of the interval that starts at offset 0; 0 when there is none.
FirstMissingByte(b) ==
  CHOOSE n \in 0 .. Cardinality(b.received) :
    n \notin b.received /\ 0 .. (n - 1) \subseteq b.received

NextExpectedByte(b) == IF b.received = {} THEN 0 ELSE Max(b.received) + 1

ReadableBytes(b) == FirstMissingByte(b) - b.totalRead
HasBytesToRead(b) == ReadableBytes(b) > 0

\* Nothing but what was read already has been received.
IsEmpty(b) ==
  \/ b.received = {}
  \/ b.totalRead > 0 /\ b.received = 0 .. (b.totalRead - 1)

-------------------------------------------------------------------------------
(* Writing. *)

\* The frame must end inside the window.
WithinWindowByStart(b, offset, data) == offset <= b.totalRead + MaxCapacity
WithinWindow(b, offset, data) == offset + Len(data) <= b.totalRead + MaxCapacity

\* newly_received.Difference(bytes_received_)
NewlyReceivedWholeFrame(b, frame) == IF frame \subseteq b.received THEN {} ELSE frame
NewlyReceived(b, frame) == frame \ b.received

\* CopyStreamData for the offsets in new, all of them inside the window:
\* a block that is missing is created, and each cell takes its frame byte.
CopyStreamData(b, new, offset, data) ==
  LET source(c) == CHOOSE o \in new : Cell(o) = c
      target == {Cell(o) : o \in new}
  IN  [b EXCEPT
        !.memory = [c \in Cells |-> IF c \in target
                                    THEN data[source(c) - offset + 1]
                                    ELSE b.memory[c]],
        !.blocks = @ \cup {BlockOfCell(c) : c \in target},
        !.numBuffered = @ + Cardinality(new)]

\* OnStreamData: the buffer afterwards, the error code, and the offsets whose
\* bytes were stored.  The fast path of the code is the case new = frame.
\* When the interval limit is reached the intervals are already added but
\* nothing is copied.
OnStreamData(b, offset, data) ==
  LET frame == offset .. (offset + Len(data) - 1)
      new == NewlyReceived(b, frame)
      grown == [b EXCEPT !.received = @ \cup frame]
      result(buffer, code, stored) ==
        [buf |-> buffer, error |-> code, stored |-> stored]
  IN  IF Len(data) = 0
      THEN result(b, "EMPTY_STREAM_FRAME_NO_FIN", {})
      ELSE IF ~ WithinWindow(b, offset, data)
      THEN result(b, "INTERNAL_ERROR", {})
      ELSE IF new = {}
      THEN result(b, "NO_ERROR", {})
      ELSE IF IntervalCount(grown.received) >= MaxIntervals
      THEN result(grown, "TOO_MANY_STREAM_DATA_INTERVALS", {})
      ELSE result(CopyStreamData(grown, new, offset, data), "NO_ERROR", new)

-------------------------------------------------------------------------------
(* Reading. *)

\* Start of the first interval beyond the contiguous prefix lies in block k.
NextIntervalIgnored(b, k) == FALSE
NextIntervalInBlock(b, k) ==
  LET beyond == {o \in b.received : o > FirstMissingByte(b)}
  IN  beyond # {} /\ BlockIndex(Min(beyond)) = k

\* RetireBlockIfEmpty, called when every byte below p has been consumed and
\* p ends a block or the contiguous prefix: is the block of byte p - 1 freed?
RetiresAtIgnoringWrap(b, p) ==
  LET k == BlockIndex(p - 1) IN
  \/ IsEmpty([b EXCEPT !.totalRead = p])
  \/ BlockIndex(p) = k => ~ NextIntervalInBlock(b, k)
RetiresAt(b, p) ==
  LET k == BlockIndex(p - 1) IN
  \/ IsEmpty([b EXCEPT !.totalRead = p])
  \/ /\ BlockIndex(NextExpectedByte(b) - 1) # k
     /\ BlockIndex(p) = k => ~ NextIntervalInBlock(b, k)

\* The read loops of Readv and MarkConsumed advance to the end of a block or of
\* the readable bytes, whichever comes first, and try to retire the block there.
ChunkEndsAtBlocksOnly(b, n) ==
  {p \in (b.totalRead + 1) .. (b.totalRead + n) : InBlockOffset(p) = 0}
ChunkEnds(b, n) ==
  {p \in (b.totalRead + 1) .. (b.totalRead + n) :
     p = FirstMissingByte(b) \/ InBlockOffset(p) = 0}

Consume(b, n) ==
  LET retired == {BlockIndex(p - 1) : p \in {q \in ChunkEnds(b, n) : RetiresAt(b, q)}}
  IN  [b EXCEPT
        !.totalRead = @ + n,
        !.numBuffered = @ - n,
        !.blocks = @ \ retired,
        !.memory = [c \in Cells |-> IF BlockOfCell(c) \in retired
                                    THEN NoByte ELSE b.memory[c]]]

BytesAt(b, from, n) == [i \in 1 .. n |-> b.memory[Cell(from + i - 1)]]

\* Readv into space for n bytes.  It stops with an error at a byte whose block
\* does not exist.
Readv(b, n) ==
  LET wanted == Min({n, ReadableBytes(b)})
      count == Max({k \in 0 .. wanted :
                      \A o \in b.totalRead .. (b.totalRead + k - 1) :
                        BlockIndex(o) \in b.blocks})
  IN  [buf |-> Consume(b, count),
       data |-> BytesAt(b, b.totalRead, count),
       failed |-> count < wanted]

\* MarkConsumed refuses more than what is readable.
MarkConsumed(b, n) == IF n > ReadableBytes(b) THEN b ELSE Consume(b, n)

\* Clear frees every block and forgets what was received but not read.
Clear(b) ==
  [EmptyBuffer EXCEPT !.totalRead = b.totalRead,
                      !.received = 0 .. (b.totalRead - 1)]

FlushBufferedFrames(b) == Clear([b EXCEPT !.totalRead = NextExpectedByte(b)])

-------------------------------------------------------------------------------
(* The views handed out for zero-copy reads: sequences of [cell, len]. *)

\* The readable bytes lie in one block and do not wrap around into it.
ReadableInOneBlock(b) ==
  /\ BlockIndex(b.totalRead) = BlockIndex(FirstMissingByte(b) - 1)
  /\ InBlockOffset(b.totalRead) <= InBlockOffset(FirstMissingByte(b) - 1)

\* GetReadableRegions with room for iovLen regions.
GetReadableRegions(b, iovLen) ==
  LET last == FirstMissingByte(b) - 1
      startBlock == BlockIndex(b.totalRead)
      readOffset == InBlockOffset(b.totalRead)
      endBlock == BlockIndex(last)
      endOffset == InBlockOffset(last)
      between == (endBlock - startBlock - 1) % MaxBlocks   \* whole blocks
      blockAt(i) == (startBlock + i) % MaxBlocks
      region(i) ==
        CASE i = 1 ->
               [cell |-> startBlock * BlockSize + readOffset,
                len |-> BlockCapacity(startBlock) - readOffset]
          [] i \in 2 .. (between + 1) ->
               [cell |-> blockAt(i - 1) * BlockSize, len |-> BlockCapacity(blockAt(i - 1))]
          [] OTHER ->
               [cell |-> endBlock * BlockSize, len |-> endOffset + 1]
  IN  IF ~ HasBytesToRead(b) THEN <<>>
      ELSE IF ReadableInOneBlock(b)
      THEN <<[cell |-> startBlock * BlockSize + readOffset, len |-> ReadableBytes(b)]>>
      ELSE [i \in 1 .. Min({iovLen, between + 2}) |-> region(i)]

-------------------------------------------------------------------------------
(* One buffer under arbitrary calls. *)

VARIABLES
  buf,        \* the buffer
  accepted,   \* history: the byte each call stored at an offset
  delivered,  \* history: the bytes read so far
  limitHit    \* history: some OnStreamData hit the interval limit

bufVars == <<buf, accepted, delivered, limitHit>>

Keep(f, S) == [o \in (DOMAIN f) \cap S |-> f[o]]

\* f, and g where f says nothing.
Extended(f, g) ==
  [o \in DOMAIN f \cup DOMAIN g |-> IF o \in DOMAIN f THEN f[o] ELSE g[o]]

BufInit ==
  /\ buf = EmptyBuffer
  /\ accepted = <<>>
  /\ delivered = <<>>
  /\ limitHit = FALSE

\* The effect on the history of storing a frame with result r.
Recorded(r, offset, data) ==
  /\ accepted' = Extended(accepted, [o \in r.stored |-> data[o - offset + 1]])
  /\ limitHit' = (limitHit \/ r.error = "TOO_MANY_STREAM_DATA_INTERVALS")

BufOnStreamData(offset, data) ==
  LET r == OnStreamData(buf, offset, data) IN
  /\ buf' = r.buf
  /\ Recorded(r, offset, data)
  /\ UNCHANGED delivered

BufReadv(n) ==
  LET r == Readv(buf, n) IN
  /\ buf' = r.buf
  /\ delivered' = delivered \o r.data
  /\ UNCHANGED <<accepted, limitHit>>

\* A zero-copy reader uses n readable bytes in place and then consumes them.
BufMarkConsumed(n) ==
  /\ n <= ReadableBytes(buf)
  /\ buf' = MarkConsumed(buf, n)
  /\ delivered' = delivered \o BytesAt(buf, buf.totalRead, n)
  /\ UNCHANGED <<accepted, limitHit>>

\* Clear, and ReleaseWholeBuffer, which also frees the empty block table.
BufClear ==
  /\ buf' = Clear(buf)
  /\ accepted' = Keep(accepted, 0 .. (buf.totalRead - 1))
  /\ UNCHANGED <<delivered, limitHit>>

BufFlushBufferedFrames ==
  /\ buf' = FlushBufferedFrames(buf)
  /\ accepted' = Keep(accepted, 0 .. (NextExpectedByte(buf) - 1))
  /\ UNCHANGED <<delivered, limitHit>>

BufNext ==
  \/ \E offset \in Offsets, data \in Payloads : BufOnStreamData(offset, data)
  \/ \E n \in 1 .. MaxCapacity : BufReadv(n)
  \/ \E n \in 1 .. MaxCapacity : BufMarkConsumed(n)
  \/ BufClear
  \/ BufFlushBufferedFrames

BufSpec == BufInit /\ [][BufNext]_bufVars

-------------------------------------------------------------------------------
(* Properties. *)

\* Type invariant of the buffer and its history.
BufTypeOK ==
  /\ buf \in Buffer
  /\ delivered \in Seq(Bytes \cup {NoByte})
  /\ limitHit \in BOOLEAN

\* The window: everything read was received, and nothing is received beyond the
\* capacity, so that no two received unread bytes can share a cell.
WindowRespected ==
  /\ 0 .. (buf.totalRead - 1) \subseteq buf.received
  /\ buf.received \subseteq 0 .. (buf.totalRead + MaxCapacity - 1)

Unread(b) == {o \in b.received : o >= b.totalRead}

\* num_bytes_buffered_ counts exactly the received unread bytes, whatever
\* overlaps, duplicates, gaps, flushes and clears came before.
BufferedBytesCounted == ~ limitHit => buf.numBuffered = Cardinality(Unread(buf))

\* What every caller relies on: a well-formed buffer whose window never lets two
\* unread bytes share a cell and whose count of buffered bytes is exact.
BufferSafe == BufTypeOK /\ WindowRespected /\ BufferedBytesCounted

\* No received unread byte is ever lost or overwritten: its block has not been
\* retired and its cell holds the byte that was accepted first at its offset.
StoredBytesIntact ==
  ~ limitHit =>
    \A o \in Unread(buf) :
      /\ BlockIndex(o) \in buf.blocks
      /\ o \in DOMAIN accepted
      /\ buf.memory[Cell(o)] = accepted[o]

\* "the buffer shrinks as the data are consumed": a block is kept only while it
\* holds an unread byte.
BlocksHoldUnreadBytes ==
  ~ limitHit => buf.blocks = {BlockIndex(o) : o \in Unread(buf)}

\* The offset in the window whose byte lies at the start of a region, and the end.
FirstOffset(b, region) ==
  CHOOSE o \in b.totalRead .. (b.totalRead + MaxCapacity - 1) : Cell(o) = region.cell
EndOffset(b, region) == FirstOffset(b, region) + region.len

\* The regions are memory of the ring, the first starts at the first unread byte and
\* each one where the one before ends, and none goes on past the readable bytes.
\* They are all readable bytes unless the vector has no room for more regions.
RegionsExact(b, iovLen) ==
  LET regions == GetReadableRegions(b, iovLen)
      n == Len(regions)
  IN  /\ \A i \in 1 .. n : /\ regions[i].cell \in Cells /\ regions[i].len > 0
                           /\ regions[i].cell + regions[i].len <= MaxCapacity
                           /\ EndOffset(b, regions[i]) <= FirstMissingByte(b)
      /\ \A i \in 1 .. (n - 1) : FirstOffset(b, regions[i + 1]) = EndOffset(b, regions[i])
      /\ IF HasBytesToRead(b)
         THEN /\ n \in 1 .. iovLen
              /\ FirstOffset(b, regions[1]) = b.totalRead
              /\ n < iovLen \/ iovLen > MaxBlocks =>
                   EndOffset(b, regions[n]) = FirstMissingByte(b)
         ELSE n = 0

\* A zero-copy reader gets exactly the readable bytes, in order, also where they wrap
\* around the ring, into the block they start in, or past a short trailing block.
ReadableRegionsExact == \A iovLen \in 1 .. (MaxBlocks + 1) : RegionsExact(buf, iovLen)

Abstract == INSTANCE InOrderStream
              WITH Window <- MaxCapacity, arrived <- accepted, position <- buf.totalRead

\* The buffer implements the in-order stream (where the interval limit is out of
\* reach of the window: past it the code goes on without the dropped bytes).
ImplementsInOrderStream == Abstract!Spec
==============================================================================
