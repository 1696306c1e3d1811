-------------------------- MODULE SequencerProofs --------------------------
(***************************************************************************)
(* Proofs about SequencerBuffer and StreamSequencer, for every capacity,   *)
(* block size, interval limit, byte set, window and set of frames.         *)
(*                                                                         *)
(* First the state is well formed, the window is respected and the bytes   *)
(* are counted.  Then what was accepted and not read yet lies in a block   *)
(* that exists, unchanged.  Storing is sound because the offsets in the    *)
(* window have different cells.  Consuming is sound because a block is     *)
(* retired only when no unread byte lies in it: an unread offset o is less *)
(* than a capacity from the last byte consumed, so it is in the same lap   *)
(* around the ring or in the next one, and the two tests of                *)
(* RetireBlockIfEmpty exclude each.  Conversely both tests let the block   *)
(* go with its last unread byte, at which the read loops always stop.      *)
(*                                                                         *)
(* Last the regions of zero-copy reads.  The blocks are counted on from    *)
(* the lap of the first readable byte into the next lap (Unrolled): each   *)
(* then starts where the one before ends, and the regions are the first    *)
(* block cut off on the left, whole blocks, and the last one cut off on    *)
(* the right.                                                              *)
(***************************************************************************)
EXTENDS StreamSequencer, FiniteSetTheorems, SequenceTheorems, TLAPS

\* A non-empty set of naturals has a least element.
LEMMA LeastNatural ==
  ASSUME NEW S, S \subseteq Nat, S # {}
  PROVE  \E n \in S : \A m \in S : n <= m
<1> DEFINE T == {0 .. n : n \in S}
<1>1. T \subseteq FiniteSubsetsOf(Nat)
  <2> SUFFICES ASSUME NEW n \in S PROVE 0 .. n \in FiniteSubsetsOf(Nat)
    OBVIOUS
  <2>1. IsFiniteSet(0 .. n)
    BY FS_Interval
  <2> QED
    BY <2>1 DEF FiniteSubsetsOf
<1>2. T # {}
  OBVIOUS
<1>3. \E x \in T : \A y \in T : ~ (<<y, x>> \in StrictSubsetOrdering(Nat))
  <2> HIDE DEF T
  <2> QED
    BY <1>1, <1>2, FS_StrictSubsetOrderingWellFounded, WFMin
<1>4. PICK n \in S : \A y \in T : ~ (<<y, 0 .. n>> \in StrictSubsetOrdering(Nat))
  BY <1>3
<1>5. ASSUME NEW m \in S, m < n PROVE FALSE
  <2>1. 0 .. m \in T /\ 0 .. m \subseteq 0 .. n /\ n \in 0 .. n /\ n \notin 0 .. m
    BY <1>5
  <2>2. 0 .. m \subseteq Nat /\ 0 .. n \subseteq Nat
    OBVIOUS
  <2>3. <<0 .. m, 0 .. n>> \in StrictSubsetOrdering(Nat)
    BY <2>1, <2>2 DEF StrictSubsetOrdering
  <2> QED
    BY <2>1, <2>3, <1>4
<1> QED
  BY <1>5

-------------------------------------------------------------------------------
(* Extremal elements of sets of naturals. *)

\* Max and Min are what their names say on bounded sets of naturals.
LEMMA MaxNatural ==
  ASSUME NEW S, NEW m \in Nat, S \subseteq 0 .. m, S # {}
  PROVE  Max(S) \in S /\ \A x \in S : x <= Max(S)
<1> DEFINE U == {n \in Nat : \A x \in S : x <= n}
<1>1. PICK u \in U : \A v \in U : u <= v
  <2>1. m \in U /\ U \subseteq Nat
    OBVIOUS
  <2> QED
    BY <2>1, LeastNatural
<1>2. u \in S
  <2> SUFFICES ASSUME u \notin S PROVE FALSE
    OBVIOUS
  <2>1. PICK x \in S : TRUE
    OBVIOUS
  <2>2. u > 0
    BY <1>1, <2>1
  <2>3. u - 1 \in U
    BY <1>1, <2>2
  <2> QED
    BY <1>1, <2>3
<1>3. \E x \in S : \A y \in S : x >= y
  BY <1>1, <1>2
<1> QED
  BY <1>3 DEF Max

LEMMA MinNatural ==
  ASSUME NEW S, S \subseteq Nat, S # {}
  PROVE  Min(S) \in S /\ \A x \in S : Min(S) <= x
  BY LeastNatural DEF Min

-------------------------------------------------------------------------------
(* The geometry of the ring. *)

\* Quotient and remainder.
LEMMA DivMod ==
  ASSUME NEW n \in Nat \ {0}, NEW a \in Nat
  PROVE  /\ a = n * (a \div n) + (a % n)
         /\ a % n \in 0 .. (n - 1)
         /\ a \div n \in Nat
  OBVIOUS

LEMMA DivMonotone ==
  ASSUME NEW n \in Nat \ {0}, NEW a \in Nat, NEW b \in Nat, a <= b
  PROVE  a \div n <= b \div n
  OBVIOUS

\* Two different offsets less than a capacity apart never share a cell.
LEMMA CellInjective ==
  ASSUME NEW o \in Nat, NEW p \in Nat, o < p, p < o + MaxCapacity
  PROVE  Cell(o) # Cell(p)
<1> DEFINE q == o \div MaxCapacity
           r == o % MaxCapacity
           u == p \div MaxCapacity
           v == p % MaxCapacity
<1>1. MaxCapacity \in Nat \ {0}
  BY BufferAssumption
<1>2. /\ o = MaxCapacity * q + r /\ q \in Nat /\ r \in 0 .. (MaxCapacity - 1)
      /\ p = MaxCapacity * u + v /\ u \in Nat /\ v \in 0 .. (MaxCapacity - 1)
  BY <1>1, DivMod
<1>3. q <= u
  BY <1>1, DivMonotone
<1>4. r # v
  <2>1. CASE u = q
    BY <1>1, <1>2, <2>1
  <2>2. CASE u >= q + 1
    <3>1. MaxCapacity * u >= MaxCapacity * (q + 1)
      BY <1>1, <1>2, <2>2
    <3> QED
      BY <1>1, <1>2, <3>1
  <2> QED
    BY <1>2, <1>3, <2>1, <2>2
<1> QED
  BY <1>4 DEF Cell

\* Every cell and every block index is in range.
LEMMA CellType ==
  ASSUME NEW o \in Nat
  PROVE  Cell(o) \in Cells
  BY BufferAssumption, DivMod DEF Cell, Cells

LEMMA BlockOfCellType ==
  ASSUME NEW c \in Cells
  PROVE  BlockOfCell(c) \in 0 .. (MaxBlocks - 1)
<1>1. MaxCapacity \in Nat \ {0} /\ BlockSize \in Nat \ {0} /\ c \in Nat /\ c <= MaxCapacity - 1
  BY BufferAssumption DEF Cells
<1> DEFINE q == c \div BlockSize
           m == (MaxCapacity + BlockSize - 1) \div BlockSize
<1>2. c = BlockSize * q + (c % BlockSize) /\ q \in Nat /\ c % BlockSize \in 0 .. (BlockSize - 1)
  BY <1>1, DivMod
<1>3. (c + BlockSize) \div BlockSize <= m
  BY <1>1, DivMonotone
<1>4. (c + BlockSize) \div BlockSize = q + 1
  <2> DEFINE z == (c + BlockSize) \div BlockSize
             w == (c + BlockSize) % BlockSize
  <2> c + BlockSize \in Nat
    BY <1>1
  <2>1. c + BlockSize = BlockSize * z + w /\ z \in Nat /\ w \in 0 .. (BlockSize - 1)
    BY <1>1, DivMod
  <2>2. BlockSize * (q + 1) = BlockSize * q + BlockSize
    BY <1>1, <1>2
  <2>3. CASE z >= q + 2
    <3>1. BlockSize * z >= BlockSize * (q + 2) /\ BlockSize * (q + 2) = BlockSize * q + BlockSize + BlockSize
      BY <1>1, <1>2, <2>1, <2>3
    <3> QED
      BY <1>1, <1>2, <2>1, <3>1
  <2>4. CASE z <= q
    <3>1. BlockSize * z <= BlockSize * q
      BY <1>1, <1>2, <2>1, <2>4
    <3> QED
      BY <1>1, <1>2, <2>1, <3>1
  <2> QED
    BY <1>2, <2>1, <2>3, <2>4
<1>5. m \in Nat
  <2>1. MaxCapacity + BlockSize - 1 \in Nat
    BY <1>1
  <2> QED
    BY <1>1, <2>1, DivMod
<1> QED
  BY <1>2, <1>3, <1>4, <1>5 DEF BlockOfCell, MaxBlocks

LEMMA BlockIndexType ==
  ASSUME NEW o \in Nat
  PROVE  BlockIndex(o) \in 0 .. (MaxBlocks - 1)
  BY CellType, BlockOfCellType DEF BlockIndex

-------------------------------------------------------------------------------
(* Well-formed buffers. *)

\* The inductive core: types, and the window of what is received.
WellFormed(b) ==
  /\ b \in Buffer
  /\ 0 .. (b.totalRead - 1) \subseteq b.received
  /\ b.received \subseteq 0 .. (b.totalRead + MaxCapacity - 1)

LEMMA FirstMissingByteFacts ==
  ASSUME NEW b, WellFormed(b)
  PROVE  /\ FirstMissingByte(b) \in b.totalRead .. (b.totalRead + MaxCapacity)
         /\ FirstMissingByte(b) \notin b.received
         /\ 0 .. (FirstMissingByte(b) - 1) \subseteq b.received
<1> DEFINE R == b.received
           t == b.totalRead
           top == t + MaxCapacity
<1>1. t \in Nat /\ MaxCapacity \in Nat \ {0} /\ top \in Nat /\ R \subseteq 0 .. (top - 1)
      /\ 0 .. (t - 1) \subseteq R
  BY BufferAssumption DEF WellFormed, Buffer
<1>2. PICK n \in Nat \ R : \A m \in Nat \ R : n <= m
  <2>1. top \in Nat \ R
    BY <1>1
  <2> QED
    BY <2>1, LeastNatural
<1>3. 0 .. (n - 1) \subseteq R /\ n \in t .. top
  BY <1>1, <1>2
<1>4. n <= Cardinality(R) /\ Cardinality(R) \in Nat
  <2>1. IsFiniteSet(R) /\ Cardinality(R) \in Nat
    <3>1. IsFiniteSet(0 .. (top - 1))
      BY <1>1, FS_Interval, SMTT(30)
    <3>2. R \in SUBSET (0 .. (top - 1))
      BY <1>1
    <3>3. IsFiniteSet(R)
      BY <3>1, <3>2, FS_Subset
    <3> QED
      BY <3>3, FS_CardinalityType
  <2>2. Cardinality(0 .. (n - 1)) <= Cardinality(R)
    BY <1>3, <2>1, FS_Subset
  <2>3. Cardinality(0 .. (n - 1)) = n
    <3>1. n \in Nat /\ 0 \in Int /\ n - 1 \in Int
      BY <1>2
    <3>2. Cardinality(0 .. (n - 1)) = IF 0 > n - 1 THEN 0 ELSE (n - 1) - 0 + 1
      BY <3>1, FS_Interval
    <3> QED
      BY <3>1, <3>2
  <2> QED
    BY <2>1, <2>2, <2>3
<1>5. n \in 0 .. Cardinality(R) /\ n \notin R /\ 0 .. (n - 1) \subseteq R
  BY <1>2, <1>3, <1>4
<1>6. /\ FirstMissingByte(b) \in 0 .. Cardinality(R)
      /\ FirstMissingByte(b) \notin R
      /\ 0 .. (FirstMissingByte(b) - 1) \subseteq R
  BY <1>5 DEF FirstMissingByte
<1>7. FirstMissingByte(b) \in t .. top
  <2>1. FirstMissingByte(b) \in Nat
    BY <1>4, <1>6
  <2>2. FirstMissingByte(b) >= n
    BY <1>2, <1>6, <2>1
  <2>3. FirstMissingByte(b) <= n
    BY <1>2, <1>6, <2>1
  <2> QED
    BY <1>3, <2>1, <2>2, <2>3
<1> QED
  BY <1>6, <1>7

LEMMA NextExpectedByteFacts ==
  ASSUME NEW b, WellFormed(b)
  PROVE  /\ NextExpectedByte(b) \in b.totalRead .. (b.totalRead + MaxCapacity)
         /\ \A o \in b.received : o < NextExpectedByte(b)
         /\ b.received # {} => NextExpectedByte(b) - 1 \in b.received
<1> DEFINE t == b.totalRead
<1>1. t \in Nat /\ MaxCapacity \in Nat \ {0} /\ 0 .. (t - 1) \subseteq b.received
      /\ b.received \subseteq 0 .. (t + MaxCapacity - 1) /\ t + MaxCapacity - 1 \in Nat
  BY BufferAssumption DEF WellFormed, Buffer
<1>2. CASE b.received = {}
  <2>1. t = 0
    BY <1>1, <1>2
  <2> QED
    BY <1>1, <1>2, <2>1 DEF NextExpectedByte
<1>3. CASE b.received # {}
  <2>1. Max(b.received) \in b.received /\ \A x \in b.received : x <= Max(b.received)
    BY <1>1, <1>3, MaxNatural
  <2>2. t > 0 => t - 1 \in b.received
    BY <1>1
  <2> QED
    BY <1>1, <1>3, <2>1, <2>2 DEF NextExpectedByte
<1> QED
  BY <1>2, <1>3

-------------------------------------------------------------------------------
(* Every method keeps a buffer well formed. *)

LEMMA OnStreamDataWellFormed ==
  ASSUME NEW b, WellFormed(b), NEW offset \in Nat, NEW data \in Seq(Bytes)
  PROVE  /\ WellFormed(OnStreamData(b, offset, data).buf)
         /\ OnStreamData(b, offset, data).buf.totalRead = b.totalRead
<1> DEFINE frame == offset .. (offset + Len(data) - 1)
           new == NewlyReceived(b, frame)
           grown == [b EXCEPT !.received = @ \cup frame]
           copied == CopyStreamData(grown, new, offset, data)
<1>1. b \in Buffer /\ b.totalRead \in Nat /\ Len(data) \in Nat /\ MaxCapacity \in Nat \ {0}
  BY BufferAssumption DEF WellFormed, Buffer
<1>2. CASE WithinWindow(b, offset, data)
  <2>1. frame \subseteq 0 .. (b.totalRead + MaxCapacity - 1)
    BY <1>1, <1>2 DEF WithinWindow
  <2>2. WellFormed(grown) /\ grown.totalRead = b.totalRead
    <3>1. grown.received = b.received \cup frame /\ grown.totalRead = b.totalRead
      BY <1>1 DEF Buffer
    <3>2. grown \in Buffer
      <4>1. b.received \cup frame \in SUBSET Nat
        BY <1>1 DEF Buffer
      <4> HIDE DEF frame
      <4> QED
        BY <1>1, <4>1 DEF Buffer
    <3> HIDE DEF grown, frame
    <3> QED
      BY <2>1, <3>1, <3>2 DEF WellFormed
  <2>3. WellFormed(copied) /\ copied.totalRead = b.totalRead
    <3> DEFINE target == {Cell(o) : o \in new}
               source(c) == CHOOSE o \in new : Cell(o) = c
               memory == [c \in Cells |-> IF c \in target
                                          THEN data[source(c) - offset + 1]
                                          ELSE grown.memory[c]]
               blocks == grown.blocks \cup {BlockOfCell(c) : c \in target}
    <3>1. new \subseteq frame /\ new \subseteq Nat
      BY DEF NewlyReceived
    <3>2. memory \in [Cells -> Bytes \cup {NoByte}]
      <4>1. ASSUME NEW c \in target PROVE data[source(c) - offset + 1] \in Bytes
        <5>1. source(c) \in new
          OBVIOUS
        <5>2. source(c) - offset + 1 \in 1 .. Len(data)
          BY <1>1, <3>1, <5>1
        <5> QED
          BY <5>2
      <4>2. grown.memory \in [Cells -> Bytes \cup {NoByte}]
        BY <2>2 DEF WellFormed, Buffer
      <4> QED
        BY <4>1, <4>2
    <3>3. blocks \in SUBSET (0 .. (MaxBlocks - 1))
      <4>1. grown.blocks \in SUBSET (0 .. (MaxBlocks - 1))
        BY <2>2 DEF WellFormed, Buffer
      <4>2. ASSUME NEW o \in new PROVE BlockOfCell(Cell(o)) \in 0 .. (MaxBlocks - 1)
        BY <3>1, CellType, BlockOfCellType
      <4> QED
        BY <4>1, <4>2
    <3>4. grown.numBuffered + Cardinality(new) \in Int
      <4>1. IsFiniteSet(frame)
        BY <1>1, FS_Interval
      <4>2. Cardinality(new) \in Nat
        BY <3>1, <4>1, FS_Subset, FS_CardinalityType
      <4> QED
        BY <2>2, <4>2 DEF WellFormed, Buffer
    <3>5. copied = [grown EXCEPT !.memory = memory, !.blocks = blocks,
                                 !.numBuffered = grown.numBuffered + Cardinality(new)]
      BY <2>2 DEF CopyStreamData, WellFormed, Buffer
    <3> HIDE DEF memory, blocks, grown, copied, new
    <3>6. copied = [totalRead |-> grown.totalRead, received |-> grown.received,
                    memory |-> memory, blocks |-> blocks,
                    numBuffered |-> grown.numBuffered + Cardinality(new)]
      BY <2>2, <3>5 DEF WellFormed, Buffer
    <3> QED
      BY <2>2, <3>2, <3>3, <3>4, <3>6 DEF WellFormed, Buffer
  <2> QED
    BY <2>2, <2>3, <1>2 DEF OnStreamData
<1>3. CASE ~ WithinWindow(b, offset, data)
  BY <1>3 DEF OnStreamData
<1> QED
  BY <1>2, <1>3

LEMMA ConsumeWellFormed ==
  ASSUME NEW b, WellFormed(b), NEW n \in 0 .. ReadableBytes(b)
  PROVE  WellFormed(Consume(b, n))
<1> DEFINE c == Consume(b, n)
<1>1. /\ FirstMissingByte(b) \in b.totalRead .. (b.totalRead + MaxCapacity)
      /\ 0 .. (FirstMissingByte(b) - 1) \subseteq b.received
  BY FirstMissingByteFacts
<1>2. b \in Buffer /\ b.totalRead \in Nat /\ MaxCapacity \in Nat \ {0}
      /\ n \in Nat /\ b.totalRead + n <= FirstMissingByte(b)
  BY <1>1, BufferAssumption DEF WellFormed, Buffer, ReadableBytes
<1>3. /\ c \in Buffer
      /\ c.totalRead = b.totalRead + n
      /\ c.received = b.received
  <2> DEFINE retired == {BlockIndex(p - 1) : p \in {q \in ChunkEnds(b, n) : RetiresAt(b, q)}}
             memory == [x \in Cells |-> IF BlockOfCell(x) \in retired THEN NoByte ELSE b.memory[x]]
  <2>1. c = [totalRead |-> b.totalRead + n, received |-> b.received, memory |-> memory,
             blocks |-> b.blocks \ retired, numBuffered |-> b.numBuffered - n]
    <3>1. c = [b EXCEPT !.totalRead = @ + n, !.numBuffered = @ - n,
                        !.blocks = @ \ retired, !.memory = memory]
      BY DEF Consume
    <3> HIDE DEF c, memory, retired
    <3> QED
      BY <1>2, <3>1 DEF Buffer
  <2>2. memory \in [Cells -> Bytes \cup {NoByte}]
    <3> HIDE DEF retired
    <3> QED
      BY <1>2 DEF Buffer
  <2>3. b.blocks \ retired \in SUBSET (0 .. (MaxBlocks - 1))
    <3> HIDE DEF retired
    <3> QED
      BY <1>2 DEF Buffer
  <2> HIDE DEF c, memory, retired
  <2> QED
    BY <1>2, <2>1, <2>2, <2>3 DEF Buffer
<1> HIDE DEF c
<1>4. 0 .. (c.totalRead - 1) \subseteq c.received
  BY <1>1, <1>2, <1>3
<1>5. c.received \subseteq 0 .. (c.totalRead + MaxCapacity - 1)
  BY <1>2, <1>3 DEF WellFormed
<1>6. WellFormed(c)
  BY <1>3, <1>4, <1>5 DEF WellFormed
<1> QED
  BY <1>6 DEF c

LEMMA ClearWellFormed ==
  ASSUME NEW b, b.totalRead \in Nat
  PROVE  /\ WellFormed(Clear(b))
         /\ Clear(b).totalRead = b.totalRead
         /\ Clear(b).received = 0 .. (b.totalRead - 1)
         /\ Clear(b).numBuffered = 0
<1> DEFINE memory == [c \in Cells |-> NoByte]
           received == 0 .. (b.totalRead - 1)
<1>1. Clear(b) = [totalRead |-> b.totalRead, received |-> received, memory |-> memory,
                  blocks |-> {}, numBuffered |-> 0]
  <2>1. EmptyBuffer = [totalRead |-> 0, received |-> {}, memory |-> memory,
                       blocks |-> {}, numBuffered |-> 0]
    BY DEF EmptyBuffer
  <2>2. Clear(b) = [EmptyBuffer EXCEPT !.totalRead = b.totalRead, !.received = received]
    BY DEF Clear
  <2> HIDE DEF memory, received
  <2> QED
    BY <2>1, <2>2
<1>2. memory \in [Cells -> Bytes \cup {NoByte}]
  OBVIOUS
<1>3. received \in SUBSET Nat /\ received \subseteq 0 .. (b.totalRead + MaxCapacity - 1)
  BY BufferAssumption
<1> HIDE DEF memory, received
<1>4. Clear(b) \in Buffer
  BY <1>1, <1>2, <1>3 DEF Buffer
<1>5. Clear(b).totalRead = b.totalRead /\ Clear(b).received = received /\ Clear(b).numBuffered = 0
  BY <1>1
<1> QED
  BY <1>3, <1>4, <1>5 DEF WellFormed, received

LEMMA FlushWellFormed ==
  ASSUME NEW b, WellFormed(b)
  PROVE  /\ WellFormed(FlushBufferedFrames(b))
         /\ FlushBufferedFrames(b).totalRead = NextExpectedByte(b)
         /\ FlushBufferedFrames(b).received = 0 .. (NextExpectedByte(b) - 1)
         /\ FlushBufferedFrames(b).numBuffered = 0
<1> DEFINE f == [b EXCEPT !.totalRead = NextExpectedByte(b)]
<1>1. f.totalRead = NextExpectedByte(b) /\ NextExpectedByte(b) \in Nat
  BY NextExpectedByteFacts, BufferAssumption DEF WellFormed, Buffer
<1> QED
  BY <1>1, ClearWellFormed DEF FlushBufferedFrames

\* Readv consumes some number of readable bytes and returns what is in their cells.
LEMMA ReadvConsumes ==
  ASSUME NEW b, WellFormed(b), NEW n \in Nat
  PROVE  \E k \in 0 .. ReadableBytes(b) :
           /\ k <= n
           /\ Readv(b, n).buf = Consume(b, k)
           /\ Readv(b, n).data = BytesAt(b, b.totalRead, k)
           /\ \A o \in b.totalRead .. (b.totalRead + k - 1) : BlockIndex(o) \in b.blocks
<1> DEFINE readable == ReadableBytes(b)
           wanted == Min({n, readable})
           K == {k \in 0 .. wanted : \A o \in b.totalRead .. (b.totalRead + k - 1) :
                                       BlockIndex(o) \in b.blocks}
<1>1. readable \in Nat /\ b.totalRead \in Nat
  BY FirstMissingByteFacts, BufferAssumption DEF WellFormed, Buffer, ReadableBytes
<1>2. wanted \in Nat /\ wanted <= n /\ wanted <= readable
  <2> HIDE DEF readable
  <2>1. Min({n, readable}) \in {n, readable} /\ \A x \in {n, readable} : Min({n, readable}) <= x
    BY <1>1, MinNatural
  <2> QED
    BY <1>1, <2>1
<1>3. 0 \in K
  BY <1>1, <1>2
<1>4. Max(K) \in K
  <2> HIDE DEF wanted
  <2>1. K \subseteq 0 .. wanted /\ K # {}
    BY <1>3
  <2> HIDE DEF K
  <2> QED
    BY <1>2, <2>1, MaxNatural
<1>5. /\ Readv(b, n).buf = Consume(b, Max(K))
      /\ Readv(b, n).data = BytesAt(b, b.totalRead, Max(K))
  BY DEF Readv
<1>6. Max(K) \in 0 .. readable /\ Max(K) <= n
      /\ \A o \in b.totalRead .. (b.totalRead + Max(K) - 1) : BlockIndex(o) \in b.blocks
  BY <1>1, <1>2, <1>4
<1> QED
  BY <1>5, <1>6

-------------------------------------------------------------------------------
(* Type correctness and the window. *)

BufInv ==
  /\ WellFormed(buf)
  /\ delivered \in Seq(Bytes \cup {NoByte})
  /\ limitHit \in BOOLEAN

LEMMA BytesAtType ==
  ASSUME NEW b, WellFormed(b), NEW n \in Nat
  PROVE  BytesAt(b, b.totalRead, n) \in Seq(Bytes \cup {NoByte})
<1>1. ASSUME NEW i \in 1 .. n
      PROVE  b.memory[Cell(b.totalRead + i - 1)] \in Bytes \cup {NoByte}
  <2>1. b.memory \in [Cells -> Bytes \cup {NoByte}] /\ b.totalRead + i - 1 \in Nat
    BY DEF WellFormed, Buffer
  <2> QED
    BY <2>1, CellType
<1>2. BytesAt(b, b.totalRead, n) \in [1 .. n -> Bytes \cup {NoByte}]
  BY <1>1 DEF BytesAt
<1> QED
  BY <1>2

LEMMA BufInvInit == BufInit => BufInv
<1> SUFFICES ASSUME BufInit PROVE BufInv
  OBVIOUS
<1>1. EmptyBuffer = [totalRead |-> 0, received |-> {}, memory |-> [c \in Cells |-> NoByte],
                     blocks |-> {}, numBuffered |-> 0]
  BY DEF EmptyBuffer
<1>2. [c \in Cells |-> NoByte] \in [Cells -> Bytes \cup {NoByte}]
  OBVIOUS
<1>3. buf \in Buffer
  BY <1>1, <1>2 DEF BufInit, Buffer
<1>4. WellFormed(buf)
  BY <1>1, <1>3 DEF BufInit, WellFormed
<1> QED
  BY <1>4, EmptySeq DEF BufInit, BufInv

LEMMA BufInvNext == BufInv /\ [BufNext]_bufVars => BufInv'
<1> SUFFICES ASSUME BufInv, [BufNext]_bufVars PROVE BufInv'
  OBVIOUS
<1> USE DEF BufInv
<1>1. ASSUME NEW offset \in Offsets, NEW data \in Payloads, BufOnStreamData(offset, data)
      PROVE  BufInv'
  <2>1. offset \in Nat /\ data \in Seq(Bytes)
    BY BufferAssumption
  <2>2. WellFormed(buf')
    BY <1>1, <2>1, OnStreamDataWellFormed DEF BufOnStreamData
  <2> QED
    BY <1>1, <2>2 DEF BufOnStreamData, Recorded
<1>2. ASSUME NEW n \in 1 .. MaxCapacity, BufReadv(n)
      PROVE  BufInv'
  <2>1. PICK k \in 0 .. ReadableBytes(buf) :
             /\ Readv(buf, n).buf = Consume(buf, k)
             /\ Readv(buf, n).data = BytesAt(buf, buf.totalRead, k)
    BY ReadvConsumes
  <2>2. WellFormed(buf')
    BY <1>2, <2>1, ConsumeWellFormed DEF BufReadv
  <2>3. Readv(buf, n).data \in Seq(Bytes \cup {NoByte})
    BY <2>1, BytesAtType
  <2> QED
    BY <1>2, <2>2, <2>3 DEF BufReadv
<1>3. ASSUME NEW n \in 1 .. MaxCapacity, BufMarkConsumed(n)
      PROVE  BufInv'
  <2>1. ReadableBytes(buf) \in Nat
    BY FirstMissingByteFacts, BufferAssumption DEF WellFormed, Buffer, ReadableBytes
  <2>2. n \in 0 .. ReadableBytes(buf) /\ MarkConsumed(buf, n) = Consume(buf, n)
    BY <1>3, <2>1, BufferAssumption DEF BufMarkConsumed, MarkConsumed
  <2>3. WellFormed(buf')
    BY <1>3, <2>2, ConsumeWellFormed DEF BufMarkConsumed
  <2> QED
    BY <1>3, <2>3, BytesAtType DEF BufMarkConsumed
<1>4. ASSUME BufClear PROVE BufInv'
  <2>1. buf.totalRead \in Nat
    BY DEF WellFormed, Buffer
  <2> QED
    BY <1>4, <2>1, ClearWellFormed DEF BufClear
<1>5. ASSUME BufFlushBufferedFrames PROVE BufInv'
  BY <1>5, FlushWellFormed DEF BufFlushBufferedFrames
<1>6. CASE UNCHANGED bufVars
  BY <1>6 DEF bufVars
<1> QED
  BY <1>1, <1>2, <1>3, <1>4, <1>5, <1>6 DEF BufNext

LEMMA BufInvAlways == BufSpec => []BufInv
  BY BufInvInit, BufInvNext, PTL DEF BufSpec

\* Type correctness: every method leaves the ring, the block table, the counters
\* and the histories in their types, for every geometry of the ring.
THEOREM BufTypeCorrect == BufSpec => []BufTypeOK
<1>1. BufInv => BufTypeOK
  BY DEF BufInv, BufTypeOK, WellFormed
<1> QED
  BY <1>1, BufInvAlways, PTL

\* The window: reads never run ahead of what was received and writes never
\* run a whole capacity ahead of what was read.
THEOREM WindowAlwaysRespected == BufSpec => []WindowRespected
<1>1. BufInv => WindowRespected
  BY DEF BufInv, WindowRespected, WellFormed
<1> QED
  BY <1>1, BufInvAlways, PTL

-------------------------------------------------------------------------------
(* What each method does to the set of unread bytes. *)

\* A frame that is stored adds exactly the offsets that were not received yet.
LEMMA OnStreamDataUnread ==
  ASSUME NEW b, WellFormed(b), NEW offset \in Nat, NEW data \in Seq(Bytes),
         OnStreamData(b, offset, data).error # "TOO_MANY_STREAM_DATA_INTERVALS"
  PROVE  LET r == OnStreamData(b, offset, data) IN
         /\ Unread(r.buf) = Unread(b) \cup r.stored
         /\ r.stored \cap b.received = {}
         /\ r.stored \subseteq Nat
         /\ r.stored \subseteq offset .. (offset + Len(data) - 1)
         /\ r.stored \subseteq r.buf.received /\ b.received \subseteq r.buf.received
         /\ r.stored # {} =>
              r.buf = CopyStreamData(
                        [b EXCEPT !.received = @ \cup (offset .. (offset + Len(data) - 1))],
                        r.stored, offset, data)
         /\ r.stored = {} => r.buf = b
<1> DEFINE r == OnStreamData(b, offset, data)
           frame == offset .. (offset + Len(data) - 1)
           new == NewlyReceived(b, frame)
           grown == [b EXCEPT !.received = @ \cup frame]
<1>1. b \in Buffer /\ b.totalRead \in Nat /\ 0 .. (b.totalRead - 1) \subseteq b.received
      /\ Len(data) \in Nat /\ b.received \subseteq Nat
  BY DEF WellFormed, Buffer
<1>2. CASE r.stored = {}
  <2>1. r.buf = b
    <3> DEFINE copied == CopyStreamData(grown, new, offset, data)
    <3>1. \/ r = [buf |-> b, error |-> "EMPTY_STREAM_FRAME_NO_FIN", stored |-> {}]
          \/ r = [buf |-> b, error |-> "INTERNAL_ERROR", stored |-> {}]
          \/ r = [buf |-> b, error |-> "NO_ERROR", stored |-> {}]
          \/ r = [buf |-> grown, error |-> "TOO_MANY_STREAM_DATA_INTERVALS", stored |-> {}]
          \/ new # {} /\ r = [buf |-> copied, error |-> "NO_ERROR", stored |-> new]
      BY DEF OnStreamData
    <3> HIDE DEF r, new, grown, copied
    <3> QED
      BY <1>2, <3>1 DEF r
  <2> QED
    BY <1>2, <2>1
<1>3. CASE r.stored # {}
  <2>1. r = [buf |-> CopyStreamData(grown, new, offset, data), error |-> "NO_ERROR",
             stored |-> new]
    BY <1>3 DEF OnStreamData
  <2>2. CopyStreamData(grown, new, offset, data).received = b.received \cup frame
        /\ CopyStreamData(grown, new, offset, data).totalRead = b.totalRead
    BY <1>1 DEF CopyStreamData, Buffer
  <2>3. new = frame \ b.received /\ frame \subseteq Nat
    BY <1>1 DEF NewlyReceived
  <2> HIDE DEF new, r, grown, frame
  <2>4. r.stored = new /\ r.buf.received = b.received \cup frame
        /\ r.buf.totalRead = b.totalRead
    BY <2>1, <2>2
  <2>5. \A o \in new : o >= b.totalRead
    <3> SUFFICES ASSUME NEW o \in new, ~ (o >= b.totalRead) PROVE FALSE
      OBVIOUS
    <3>1. o \in Nat /\ o \notin b.received
      BY <2>3
    <3>2. o \in 0 .. (b.totalRead - 1)
      BY <3>1, <1>1
    <3> QED
      BY <3>1, <3>2, <1>1
  <2>6. Unread(r.buf) = Unread(b) \cup new
    <3>1. Unread(r.buf) = {o \in b.received \cup new : o >= b.totalRead}
      BY <2>3, <2>4 DEF Unread
    <3> QED
      BY <3>1, <2>5 DEF Unread
  <2>7. /\ Unread(r.buf) = Unread(b) \cup r.stored
        /\ r.stored \cap b.received = {}
        /\ r.stored \subseteq Nat
        /\ r.stored \subseteq frame
        /\ r.stored \subseteq r.buf.received /\ b.received \subseteq r.buf.received
    BY <2>3, <2>4, <2>6
  <2>8. r.buf = CopyStreamData(grown, r.stored, offset, data)
    BY <2>1, <2>4
  <2> QED
    BY <2>7, <2>8, <1>3 DEF r, grown, frame
<1> QED
  BY <1>2, <1>3

\* Reading n readable bytes removes exactly the first n unread offsets.
LEMMA ConsumeUnread ==
  ASSUME NEW b, WellFormed(b), NEW n \in 0 .. ReadableBytes(b)
  PROVE  /\ b.totalRead .. (b.totalRead + n - 1) \subseteq Unread(b)
         /\ Unread(Consume(b, n)) = Unread(b) \ (b.totalRead .. (b.totalRead + n - 1))
         /\ Consume(b, n).totalRead = b.totalRead + n
         /\ Consume(b, n).received = b.received
         /\ Consume(b, n).numBuffered = b.numBuffered - n
<1>1. /\ FirstMissingByte(b) \in b.totalRead .. (b.totalRead + MaxCapacity)
      /\ 0 .. (FirstMissingByte(b) - 1) \subseteq b.received
  BY FirstMissingByteFacts
<1>2. b \in Buffer /\ b.totalRead \in Nat /\ MaxCapacity \in Nat \ {0}
      /\ n \in Nat /\ b.totalRead + n <= FirstMissingByte(b) /\ b.received \subseteq Nat
  BY <1>1, BufferAssumption DEF WellFormed, Buffer, ReadableBytes
<1>3. /\ Consume(b, n).totalRead = b.totalRead + n
      /\ Consume(b, n).received = b.received
      /\ Consume(b, n).numBuffered = b.numBuffered - n
  BY <1>2 DEF Consume, Buffer
<1>4. b.totalRead .. (b.totalRead + n - 1) \subseteq Unread(b)
  BY <1>1, <1>2 DEF Unread
<1>5. Unread(Consume(b, n)) = Unread(b) \ (b.totalRead .. (b.totalRead + n - 1))
  BY <1>2, <1>3 DEF Unread
<1> QED
  BY <1>3, <1>4, <1>5

LEMMA UnreadFinite ==
  ASSUME NEW b, WellFormed(b)
  PROVE  IsFiniteSet(Unread(b)) /\ Cardinality(Unread(b)) \in Nat
<1>1. Unread(b) \in SUBSET (0 .. (b.totalRead + MaxCapacity - 1))
  BY DEF Unread, WellFormed
<1>2. IsFiniteSet(0 .. (b.totalRead + MaxCapacity - 1))
  BY FS_Interval, BufferAssumption DEF WellFormed, Buffer
<1>3. IsFiniteSet(Unread(b))
  BY <1>1, <1>2, FS_Subset
<1> QED
  BY <1>3, FS_CardinalityType

-------------------------------------------------------------------------------
(* num_bytes_buffered_ counts the unread bytes. *)

Counted(b) == b.numBuffered = Cardinality(Unread(b))

LEMMA OnStreamDataCounted ==
  ASSUME NEW b, WellFormed(b), Counted(b), NEW offset \in Nat, NEW data \in Seq(Bytes),
         OnStreamData(b, offset, data).error # "TOO_MANY_STREAM_DATA_INTERVALS"
  PROVE  Counted(OnStreamData(b, offset, data).buf)
<1> DEFINE r == OnStreamData(b, offset, data)
           frame == offset .. (offset + Len(data) - 1)
<1>1. /\ Unread(r.buf) = Unread(b) \cup r.stored
      /\ r.stored \cap b.received = {}
      /\ r.stored \subseteq frame
      /\ r.stored = {} => r.buf = b
      /\ r.stored # {} => r.buf = CopyStreamData([b EXCEPT !.received = @ \cup frame],
                                                 r.stored, offset, data)
  BY OnStreamDataUnread
<1>2. IsFiniteSet(r.stored) /\ Cardinality(r.stored) \in Nat
  <2>1. IsFiniteSet(frame)
    BY FS_Interval
  <2> HIDE DEF r, frame
  <2> QED
    BY <1>1, <2>1, FS_Subset, FS_CardinalityType
<1>3. r.stored # {} => r.buf.numBuffered = b.numBuffered + Cardinality(r.stored)
  <2>1. [b EXCEPT !.received = @ \cup frame].numBuffered = b.numBuffered
    BY DEF WellFormed, Buffer
  <2>2. \A g, s : "numBuffered" \in DOMAIN g =>
          CopyStreamData(g, s, offset, data).numBuffered = g.numBuffered + Cardinality(s)
    BY DEF CopyStreamData
  <2>3. "numBuffered" \in DOMAIN [b EXCEPT !.received = @ \cup frame]
    BY DEF WellFormed, Buffer
  <2> HIDE DEF r, frame
  <2> QED
    BY <1>1, <2>1, <2>2, <2>3
<1>4. Cardinality(Unread(b) \cup r.stored) = Cardinality(Unread(b)) + Cardinality(r.stored)
  <2>1. Unread(b) \cap r.stored = {}
    BY <1>1 DEF Unread
  <2> HIDE DEF r
  <2>2. Cardinality(Unread(b) \cap r.stored) = 0
    BY <2>1, FS_EmptySet
  <2>3. Cardinality(Unread(b) \cup r.stored)
          = Cardinality(Unread(b)) + Cardinality(r.stored) - Cardinality(Unread(b) \cap r.stored)
    BY <1>2, UnreadFinite, FS_Union
  <2> QED
    BY <2>2, <2>3, <1>2, UnreadFinite
<1> HIDE DEF r, frame
<1>5. Counted(r.buf)
  BY <1>1, <1>3, <1>4 DEF Counted
<1> QED
  BY <1>5 DEF r

LEMMA ConsumeCounted ==
  ASSUME NEW b, WellFormed(b), Counted(b), NEW n \in 0 .. ReadableBytes(b)
  PROVE  Counted(Consume(b, n))
<1> DEFINE span == b.totalRead .. (b.totalRead + n - 1)
<1>1. /\ span \subseteq Unread(b)
      /\ Unread(Consume(b, n)) = Unread(b) \ span
      /\ Consume(b, n).numBuffered = b.numBuffered - n
  BY ConsumeUnread
<1>2. n \in Nat /\ b.totalRead \in Nat
  BY FirstMissingByteFacts, BufferAssumption DEF WellFormed, Buffer, ReadableBytes
<1>3. Cardinality(span) = n
  <2>1. b.totalRead \in Int /\ b.totalRead + n - 1 \in Int
    BY <1>2
  <2>2. Cardinality(span) = IF b.totalRead > b.totalRead + n - 1 THEN 0
                            ELSE (b.totalRead + n - 1) - b.totalRead + 1
    BY <2>1, FS_Interval
  <2> QED
    BY <1>2, <2>2
<1> HIDE DEF span
<1>4. Cardinality(Unread(b) \ span) = Cardinality(Unread(b)) - Cardinality(Unread(b) \cap span)
  BY UnreadFinite, FS_Difference
<1>5. Unread(b) \cap span = span
  BY <1>1
<1> QED
  BY <1>1, <1>3, <1>4, <1>5 DEF Counted

LEMMA NothingUnreadCounted ==
  ASSUME NEW b, b.totalRead \in Nat, b.received = 0 .. (b.totalRead - 1), b.numBuffered = 0
  PROVE  Counted(b)
<1>1. Unread(b) = {}
  BY DEF Unread
<1> QED
  BY <1>1, FS_EmptySet DEF Counted

LEMMA CountedNext ==
  BufInv /\ BufferedBytesCounted /\ [BufNext]_bufVars => BufferedBytesCounted'
<1> SUFFICES ASSUME BufInv, BufferedBytesCounted, [BufNext]_bufVars, ~ limitHit'
             PROVE  Counted(buf')
  BY DEF BufferedBytesCounted, Counted, Unread
<1>1. ASSUME NEW offset \in Offsets, NEW data \in Payloads, BufOnStreamData(offset, data)
      PROVE  Counted(buf')
  <2>1. offset \in Nat /\ data \in Seq(Bytes) /\ WellFormed(buf)
    BY BufferAssumption DEF BufInv
  <2>2. Counted(buf) /\ OnStreamData(buf, offset, data).error # "TOO_MANY_STREAM_DATA_INTERVALS"
    BY <1>1 DEF BufOnStreamData, Recorded, BufferedBytesCounted, Counted
  <2>3. Counted(OnStreamData(buf, offset, data).buf)
    BY <2>1, <2>2, OnStreamDataCounted
  <2> QED
    BY <1>1, <2>3 DEF BufOnStreamData
<1>2. ASSUME NEW n \in 1 .. MaxCapacity, BufReadv(n)
      PROVE  Counted(buf')
  <2>1. PICK k \in 0 .. ReadableBytes(buf) : Readv(buf, n).buf = Consume(buf, k)
    BY ReadvConsumes DEF BufInv
  <2>2. Counted(buf)
    BY <1>2 DEF BufReadv, BufferedBytesCounted, Counted
  <2> QED
    BY <1>2, <2>1, <2>2, ConsumeCounted DEF BufReadv, BufInv
<1>3. ASSUME NEW n \in 1 .. MaxCapacity, BufMarkConsumed(n)
      PROVE  Counted(buf')
  <2>1. ReadableBytes(buf) \in Nat /\ WellFormed(buf)
    BY FirstMissingByteFacts, BufferAssumption DEF BufInv, WellFormed, Buffer, ReadableBytes
  <2>2. n \in 0 .. ReadableBytes(buf) /\ MarkConsumed(buf, n) = Consume(buf, n)
    BY <1>3, <2>1, BufferAssumption DEF BufMarkConsumed, MarkConsumed
  <2>3. Counted(buf)
    BY <1>3 DEF BufMarkConsumed, BufferedBytesCounted, Counted
  <2> QED
    BY <1>3, <2>1, <2>2, <2>3, ConsumeCounted DEF BufMarkConsumed
<1>4. ASSUME BufClear PROVE Counted(buf')
  <2>1. buf.totalRead \in Nat
    BY DEF BufInv, WellFormed, Buffer
  <2>2. Counted(Clear(buf))
    BY <2>1, ClearWellFormed, NothingUnreadCounted
  <2> QED
    BY <1>4, <2>2 DEF BufClear
<1>5. ASSUME BufFlushBufferedFrames PROVE Counted(buf')
  <2>1. WellFormed(buf) /\ NextExpectedByte(buf) \in Nat
    BY NextExpectedByteFacts, BufferAssumption DEF BufInv, WellFormed, Buffer
  <2>2. Counted(FlushBufferedFrames(buf))
    BY <2>1, FlushWellFormed, NothingUnreadCounted
  <2> QED
    BY <1>5, <2>2 DEF BufFlushBufferedFrames
<1>6. CASE UNCHANGED bufVars
  BY <1>6 DEF bufVars, BufferedBytesCounted, Counted
<1> QED
  BY <1>1, <1>2, <1>3, <1>4, <1>5, <1>6 DEF BufNext

\* The byte count: num_bytes_buffered_ is the number of received unread bytes
\* through every overlap, duplicate, gap, read, clear and flush, unless the
\* interval limit was hit.
THEOREM BytesAlwaysCounted == BufSpec => []BufferedBytesCounted
<1>1. BufInit => BufferedBytesCounted
  <2> SUFFICES ASSUME BufInit PROVE Counted(buf)
    BY DEF BufferedBytesCounted, Counted
  <2>1. buf.totalRead = 0 /\ buf.received = {} /\ buf.numBuffered = 0
    BY DEF BufInit, EmptyBuffer
  <2>2. buf.received = 0 .. (buf.totalRead - 1) /\ buf.totalRead \in Nat
    BY <2>1
  <2> QED
    BY <2>1, <2>2, NothingUnreadCounted
<1> QED
  BY <1>1, CountedNext, BufInvAlways, PTL DEF BufSpec

\* What a caller relies on, together: well-formed state, unread bytes in cells of
\* their own, and an exact count of what is buffered.
THEOREM BufferAlwaysSafe == BufSpec => []BufferSafe
BY BufTypeCorrect, WindowAlwaysRespected, BytesAlwaysCounted, PTL DEF BufferSafe

-------------------------------------------------------------------------------
(* The bytes in the ring. *)

\* Less than a lap ahead, the cell moves on by the distance or wraps once.
LEMMA CellAhead ==
  ASSUME NEW x \in Nat, NEW d \in Nat, d < MaxCapacity
  PROVE  /\ Cell(x) \in 0 .. (MaxCapacity - 1)
         /\ Cell(x + d) \in 0 .. (MaxCapacity - 1)
         /\ Cell(x + d) = Cell(x) + d \/ Cell(x + d) = Cell(x) + d - MaxCapacity
<1> DEFINE q == x \div MaxCapacity
           r == x % MaxCapacity
           u == (x + d) \div MaxCapacity
           v == (x + d) % MaxCapacity
<1>1. MaxCapacity \in Nat \ {0} /\ x + d \in Nat
  BY BufferAssumption
<1>2. /\ x = MaxCapacity * q + r /\ q \in Nat /\ r \in 0 .. (MaxCapacity - 1)
      /\ x + d = MaxCapacity * u + v /\ u \in Nat /\ v \in 0 .. (MaxCapacity - 1)
  <2>1. x = MaxCapacity * q + r /\ q \in Nat /\ r \in 0 .. (MaxCapacity - 1)
    BY <1>1, DivMod
  <2>2. x + d = MaxCapacity * u + v /\ u \in Nat /\ v \in 0 .. (MaxCapacity - 1)
    BY <1>1, DivMod
  <2> QED
    BY <2>1, <2>2
<1>3. q <= u
  BY <1>1, DivMonotone
<1> HIDE DEF q, r, u, v
<1>4. v = r + d \/ v = r + d - MaxCapacity
  <2>1. CASE u = q
    BY <1>1, <1>2, <2>1
  <2>2. CASE u = q + 1
    <3>1. MaxCapacity * u = MaxCapacity * q + MaxCapacity
      BY <1>1, <1>2, <2>2
    <3> QED
      BY <1>1, <1>2, <3>1
  <2>3. CASE u >= q + 2
    <3>1. MaxCapacity * u >= MaxCapacity * (q + 2)
      BY <1>1, <1>2, <2>3
    <3>2. MaxCapacity * (q + 2) = MaxCapacity * q + 2 * MaxCapacity
      BY <1>1, <1>2
    <3> QED
      BY <1>1, <1>2, <3>1, <3>2
  <2> QED
    BY <1>2, <1>3, <2>1, <2>2, <2>3
<1> QED
  BY <1>2, <1>4 DEF Cell, q, r, u, v

\* A block is a range of cells.
LEMMA BlockConvex ==
  ASSUME NEW c \in Nat, NEW d \in Nat, NEW e \in Nat, c <= d, d <= e,
         BlockOfCell(c) = BlockOfCell(e)
  PROVE  BlockOfCell(d) = BlockOfCell(c)
<1>1. BlockSize \in Nat \ {0}
  BY BufferAssumption
<1>2. c \div BlockSize <= d \div BlockSize /\ d \div BlockSize <= e \div BlockSize
  BY <1>1, DivMonotone
<1>3. c \div BlockSize \in Nat /\ d \div BlockSize \in Nat /\ e \div BlockSize \in Nat
  BY <1>1, DivMod
<1> QED
  BY <1>2, <1>3 DEF BlockOfCell

\* Of two successive cells in one block, the second is not at its start.
LEMMA NotAtBlockStart ==
  ASSUME NEW c \in Nat, BlockOfCell(c) = BlockOfCell(c + 1)
  PROVE  (c + 1) % BlockSize # 0
<1> DEFINE q == c \div BlockSize
           r == c % BlockSize
           u == (c + 1) \div BlockSize
           v == (c + 1) % BlockSize
<1>1. BlockSize \in Nat \ {0} /\ c + 1 \in Nat
  BY BufferAssumption
<1>2. c = BlockSize * q + r /\ r \in 0 .. (BlockSize - 1) /\ q \in Nat
  BY <1>1, DivMod
<1>3. c + 1 = BlockSize * u + v /\ v \in 0 .. (BlockSize - 1)
  BY <1>1, DivMod
<1>4. u = q
  BY DEF BlockOfCell
<1> HIDE DEF q, r, u, v
<1>5. BlockSize * q \in Nat
  BY <1>1, <1>2
<1>6. v # 0
  BY <1>1, <1>2, <1>3, <1>4, <1>5
<1> QED
  BY <1>6 DEF v

\* Consuming up to o at most never retires the block of an unread offset o.
LEMMA RetireSound ==
  ASSUME NEW b, WellFormed(b), NEW n \in 0 .. ReadableBytes(b),
         NEW p \in ChunkEnds(b, n), RetiresAt(b, p),
         NEW o \in b.received, o >= b.totalRead + n
  PROVE  BlockIndex(o) # BlockIndex(p - 1)
<1> DEFINE F == FirstMissingByte(b)
           t == b.totalRead
           k == BlockIndex(p - 1)
           m == NextExpectedByte(b) - 1
           x == p - 1
<1> SUFFICES ASSUME BlockIndex(o) = k PROVE FALSE
  OBVIOUS
<1>1. /\ F \in t .. (t + MaxCapacity) /\ F \notin b.received
      /\ b.received \subseteq 0 .. (t + MaxCapacity - 1)
      /\ t \in Nat /\ MaxCapacity \in Nat \ {0}
  BY FirstMissingByteFacts, BufferAssumption DEF WellFormed, Buffer
<1>2. m \in b.received /\ o <= m
  <2>1. NextExpectedByte(b) \in Nat /\ o < NextExpectedByte(b) /\ NextExpectedByte(b) - 1 \in b.received
    BY <1>1, NextExpectedByteFacts
  <2> QED
    BY <1>1, <2>1
<1>3. /\ o \in Nat /\ m \in Nat /\ x \in Nat /\ n \in Nat /\ p = x + 1
      /\ x < o /\ o <= m /\ m < x + MaxCapacity /\ p <= o
  <2>1. p \in (t + 1) .. (t + n) /\ n \in Nat
    BY <1>1 DEF ChunkEnds, ReadableBytes
  <2> QED
    BY <1>1, <1>2, <2>1
<1>4. ~ IsEmpty([b EXCEPT !.totalRead = p])
  <2> DEFINE e == [b EXCEPT !.totalRead = p]
  <2>1. e.received = b.received /\ e.totalRead = p
    BY DEF WellFormed, Buffer
  <2>2. b.received # {} /\ b.received # 0 .. (p - 1)
    BY <1>3
  <2> HIDE DEF e
  <2> QED
    BY <2>1, <2>2 DEF IsEmpty, e
<1>5. BlockIndex(m) # k /\ (BlockIndex(p) = k => ~ NextIntervalInBlock(b, k))
  BY <1>4 DEF RetiresAt
<1>6. /\ Cell(x) \in 0 .. (MaxCapacity - 1)
      /\ \A y \in Nat : x <= y /\ y < x + MaxCapacity =>
           /\ Cell(y) \in 0 .. (MaxCapacity - 1)
           /\ Cell(y) = Cell(x) + (y - x) \/ Cell(y) = Cell(x) + (y - x) - MaxCapacity
  <2>1. ASSUME NEW y \in Nat, x <= y, y < x + MaxCapacity
        PROVE  /\ Cell(y) \in 0 .. (MaxCapacity - 1)
               /\ Cell(y) = Cell(x) + (y - x) \/ Cell(y) = Cell(x) + (y - x) - MaxCapacity
    <3>1. y - x \in Nat /\ y - x < MaxCapacity /\ x + (y - x) = y
      BY <1>1, <1>3, <2>1
    <3> QED
      BY <1>3, <3>1, CellAhead
  <2>2. Cell(x) \in 0 .. (MaxCapacity - 1)
    BY <1>3, CellType DEF Cells
  <2> QED
    BY <2>1, <2>2
<1>7. BlockOfCell(Cell(x)) = k /\ BlockOfCell(Cell(o)) = k
  BY DEF BlockIndex
<1> HIDE DEF k, m, x, F, t
\* o in the lap of p - 1: the block goes on at p, the prefix ends there, and the next
\* interval begins in the block.
<1>8. CASE Cell(o) = Cell(x) + (o - x)
  <2>1. ASSUME NEW y \in Nat, x <= y, y <= o
        PROVE  Cell(y) = Cell(x) + (y - x) /\ BlockOfCell(Cell(y)) = k
    <3>1. Cell(y) \in Nat /\ Cell(x) \in Nat /\ Cell(o) \in Nat /\ Cell(y) = Cell(x) + (y - x)
      BY <1>1, <1>3, <1>6, <1>8, <2>1
    <3>2. Cell(x) <= Cell(y) /\ Cell(y) <= Cell(o)
      BY <1>3, <1>8, <2>1, <3>1
    <3> QED
      BY <1>7, <3>1, <3>2, BlockConvex
  <2>2. Cell(p) = Cell(x) + 1 /\ BlockOfCell(Cell(p)) = k
    BY <1>3, <2>1
  <2>3. InBlockOffset(p) # 0
    BY <1>6, <1>7, <2>2, NotAtBlockStart DEF InBlockOffset
  <2>4. p = F
    BY <2>3 DEF ChunkEnds, F
  <2> DEFINE beyond == {y \in b.received : y > F}
             e == Min(beyond)
  <2>5. o \in beyond /\ beyond \subseteq Nat
    BY <1>1, <1>3, <2>4
  <2>6. e \in beyond /\ e <= o
    BY <2>5, MinNatural
  <2>7. BlockOfCell(Cell(e)) = k
    <3>1. e \in Nat /\ x <= e /\ e <= o
      BY <1>3, <2>4, <2>5, <2>6
    <3> HIDE DEF e
    <3> QED
      BY <2>1, <3>1
  <2>8. NextIntervalInBlock(b, k)
    BY <2>5, <2>7 DEF NextIntervalInBlock, BlockIndex, F
  <2> QED
    BY <1>5, <2>2, <2>8 DEF BlockIndex
\* o in the next lap: the last byte received is there too, between o and the block's end.
<1>9. CASE Cell(o) = Cell(x) + (o - x) - MaxCapacity
  <2>1. Cell(m) = Cell(x) + (m - x) - MaxCapacity
    BY <1>1, <1>3, <1>6, <1>9
  <2>2. Cell(o) \in Nat /\ Cell(m) \in Nat /\ Cell(x) \in Nat
        /\ Cell(o) <= Cell(m) /\ Cell(m) <= Cell(x)
    BY <1>1, <1>3, <1>6, <1>9, <2>1
  <2>3. BlockOfCell(Cell(m)) = k
    BY <1>7, <2>2, BlockConvex
  <2> QED
    BY <1>5, <2>3 DEF BlockIndex
<1> QED
  BY <1>1, <1>3, <1>6, <1>8, <1>9

-------------------------------------------------------------------------------
(* Storing and consuming, as the unread bytes see it. *)

\* The block of offset o exists and its cell holds v.
Holds(b, o, v) == BlockIndex(o) \in b.blocks /\ b.memory[Cell(o)] = v

LEMMA UnreadInWindow ==
  ASSUME NEW b, WellFormed(b)
  PROVE  Unread(b) \subseteq b.totalRead .. (b.totalRead + MaxCapacity - 1)
  BY BufferAssumption DEF Unread, WellFormed, Buffer

\* Copying fills the cells of the new offsets.
LEMMA CopyStoresNew ==
  ASSUME NEW b \in Buffer, NEW new, NEW offset \in Nat, NEW data \in Seq(Bytes),
         NEW t \in Nat, new \subseteq t .. (t + MaxCapacity - 1), NEW o \in new
  PROVE  Holds(CopyStreamData(b, new, offset, data), o, data[o - offset + 1])
<1> DEFINE copied == CopyStreamData(b, new, offset, data)
           target == {Cell(y) : y \in new}
           source(c) == CHOOSE y \in new : Cell(y) = c
           memory == [c \in Cells |-> IF c \in target THEN data[source(c) - offset + 1]
                                      ELSE b.memory[c]]
           blocks == b.blocks \cup {BlockOfCell(c) : c \in target}
<1>1. copied.memory = memory /\ copied.blocks = blocks
  BY DEF CopyStreamData, Buffer
<1>2. o \in Nat /\ Cell(o) \in Cells
  BY CellType
<1>3. ASSUME NEW y \in new, Cell(y) = Cell(o) PROVE y = o
  <2>1. y \in Nat /\ ~ (o < y) /\ ~ (y < o)
    BY <1>2, <1>3, CellInjective, BufferAssumption
  <2> QED
    BY <1>2, <2>1
<1>4. Cell(o) \in target /\ source(Cell(o)) = o
  BY <1>3
<1>5. memory[Cell(o)] = data[o - offset + 1]
  BY <1>2, <1>4
<1>6. BlockIndex(o) \in blocks
  BY <1>4 DEF BlockIndex
<1> HIDE DEF memory, blocks, copied
<1>7. Holds(copied, o, data[o - offset + 1])
  BY <1>1, <1>5, <1>6 DEF Holds
<1> QED
  BY <1>7 DEF copied

\* It touches the cell of no other offset in the window.
LEMMA CopyStoresOld ==
  ASSUME NEW b \in Buffer, NEW new, NEW offset \in Nat, NEW data \in Seq(Bytes),
         NEW t \in Nat, new \subseteq t .. (t + MaxCapacity - 1),
         NEW o \in t .. (t + MaxCapacity - 1), o \notin new, NEW v, Holds(b, o, v)
  PROVE  Holds(CopyStreamData(b, new, offset, data), o, v)
<1> DEFINE copied == CopyStreamData(b, new, offset, data)
           target == {Cell(y) : y \in new}
           source(c) == CHOOSE y \in new : Cell(y) = c
           memory == [c \in Cells |-> IF c \in target THEN data[source(c) - offset + 1]
                                      ELSE b.memory[c]]
           blocks == b.blocks \cup {BlockOfCell(c) : c \in target}
<1>1. copied.memory = memory /\ copied.blocks = blocks
  BY DEF CopyStreamData, Buffer
<1>2. o \in Nat /\ Cell(o) \in Cells
  BY CellType
<1>3. ASSUME NEW y \in new, Cell(y) = Cell(o) PROVE FALSE
  <2>1. y \in Nat /\ ~ (o < y) /\ ~ (y < o)
    BY <1>2, <1>3, CellInjective, BufferAssumption
  <2> QED
    BY <1>2, <2>1
<1>4. Cell(o) \notin target
  BY <1>3
<1>5. memory[Cell(o)] = b.memory[Cell(o)] /\ b.blocks \subseteq blocks
  BY <1>2, <1>4
<1> HIDE DEF memory, blocks, copied
<1>6. Holds(copied, o, v)
  BY <1>1, <1>5 DEF Holds
<1> QED
  BY <1>6 DEF copied

\* After OnStreamData an unread byte was stored by it, or was unread before and
\* still holds what it held.
LEMMA OnStreamDataStores ==
  ASSUME NEW b, WellFormed(b), NEW offset \in Nat, NEW data \in Seq(Bytes),
         OnStreamData(b, offset, data).error # "TOO_MANY_STREAM_DATA_INTERVALS",
         NEW o \in Unread(OnStreamData(b, offset, data).buf)
  PROVE  LET r == OnStreamData(b, offset, data) IN
         /\ o \in r.stored => Holds(r.buf, o, data[o - offset + 1])
         /\ o \notin r.stored =>
              o \in Unread(b) /\ \A v : Holds(b, o, v) => Holds(r.buf, o, v)
<1> DEFINE r == OnStreamData(b, offset, data)
           t == b.totalRead
           grown == [b EXCEPT !.received = @ \cup (offset .. (offset + Len(data) - 1))]
<1>1. /\ Unread(r.buf) = Unread(b) \cup r.stored
      /\ r.stored # {} => r.buf = CopyStreamData(grown, r.stored, offset, data)
      /\ r.stored = {} => r.buf = b
  BY OnStreamDataUnread
<1>2. WellFormed(r.buf) /\ r.buf.totalRead = t
  BY OnStreamDataWellFormed
<1>3. Unread(r.buf) \subseteq t .. (t + MaxCapacity - 1)
  BY <1>2, UnreadInWindow
<1>4. grown \in Buffer /\ grown.memory = b.memory /\ grown.blocks = b.blocks /\ t \in Nat
  BY SMTT(30) DEF WellFormed, Buffer
<1> HIDE DEF r, grown, t
<1>5. o \notin r.stored => o \in Unread(b)
  BY <1>1 DEF r
<1>6. r.stored \subseteq t .. (t + MaxCapacity - 1) /\ o \in t .. (t + MaxCapacity - 1)
  BY <1>1, <1>3 DEF r
<1>7. ASSUME o \in r.stored PROVE Holds(r.buf, o, data[o - offset + 1])
  <2>1. Holds(CopyStreamData(grown, r.stored, offset, data), o, data[o - offset + 1])
    BY <1>4, <1>6, <1>7, CopyStoresNew
  <2> QED
    BY <1>1, <1>7, <2>1
<1>8. ASSUME o \notin r.stored, NEW v, Holds(b, o, v) PROVE Holds(r.buf, o, v)
  <2>1. CASE r.stored = {}
    BY <1>1, <1>8, <2>1
  <2>2. CASE r.stored # {}
    <3>1. Holds(grown, o, v)
      BY <1>4, <1>8 DEF Holds
    <3>2. Holds(CopyStreamData(grown, r.stored, offset, data), o, v)
      BY <1>4, <1>6, <1>8, <3>1, CopyStoresOld
    <3> QED
      BY <1>1, <2>2, <3>2
  <2> QED
    BY <2>1, <2>2
<1> QED
  BY <1>5, <1>7, <1>8 DEF r

\* Consuming keeps the blocks and the cells of what stays unread.
LEMMA ConsumeKeeps ==
  ASSUME NEW b, WellFormed(b), NEW n \in 0 .. ReadableBytes(b), NEW o \in Unread(Consume(b, n)),
         NEW v, Holds(b, o, v)
  PROVE  o \in Unread(b) /\ Holds(Consume(b, n), o, v)
<1> DEFINE c == Consume(b, n)
           retired == {BlockIndex(p - 1) : p \in {q \in ChunkEnds(b, n) : RetiresAt(b, q)}}
           memory == [x \in Cells |-> IF BlockOfCell(x) \in retired THEN NoByte ELSE b.memory[x]]
<1>1. c.blocks = b.blocks \ retired /\ c.memory = memory
  BY DEF Consume, WellFormed, Buffer
<1>2. o \in Unread(b) /\ o \in b.received /\ o >= b.totalRead + n /\ o \in Nat
  BY ConsumeUnread DEF Unread, WellFormed, Buffer
<1>3. BlockIndex(o) \notin retired
  BY <1>2, RetireSound
<1>4. memory[Cell(o)] = b.memory[Cell(o)]
  <2>1. BlockOfCell(Cell(o)) \notin retired
    BY <1>3 DEF BlockIndex
  <2> HIDE DEF retired
  <2> QED
    BY <1>2, <2>1, CellType
<1> HIDE DEF retired, memory, c
<1>5. Holds(c, o, v)
  BY <1>1, <1>3, <1>4 DEF Holds
<1> QED
  BY <1>2, <1>5 DEF c

-------------------------------------------------------------------------------
(* The invariant. *)

\* What strengthens StoredBytesIntact: nothing is remembered of an offset that
\* is not received, so that the byte a call stores is the first at its offset.
AcceptedReceived == DOMAIN accepted \subseteq buf.received

UnreadHeld ==
  \A o \in Unread(buf) : o \in DOMAIN accepted /\ Holds(buf, o, accepted[o])

Intact == ~ limitHit => AcceptedReceived /\ UnreadHeld

LEMMA IntactConsume ==
  ASSUME WellFormed(buf), AcceptedReceived, UnreadHeld, NEW k \in 0 .. ReadableBytes(buf),
         buf' = Consume(buf, k), UNCHANGED accepted
  PROVE  AcceptedReceived' /\ UnreadHeld'
<1>1. AcceptedReceived'
  BY ConsumeUnread DEF AcceptedReceived
<1>2. ASSUME NEW o \in Unread(Consume(buf, k))
      PROVE  o \in DOMAIN accepted /\ Holds(Consume(buf, k), o, accepted[o])
  <2>1. o \in Unread(buf)
    BY ConsumeUnread
  <2>2. o \in DOMAIN accepted /\ Holds(buf, o, accepted[o])
    BY <2>1 DEF UnreadHeld
  <2> QED
    BY <2>2, ConsumeKeeps
<1>3. UnreadHeld'
  <2>1. ASSUME NEW o \in Unread(buf')
        PROVE  o \in DOMAIN accepted' /\ Holds(buf', o, accepted'[o])
    BY <1>2
  <2> QED
    BY <2>1 DEF UnreadHeld, Unread, Holds
<1> QED
  BY <1>1, <1>3

LEMMA IntactForget ==
  ASSUME NEW n \in Nat, buf'.totalRead = n, buf'.received = 0 .. (n - 1),
         accepted' = Keep(accepted, 0 .. (n - 1))
  PROVE  AcceptedReceived' /\ UnreadHeld'
<1>1. Unread(buf') = {}
  BY DEF Unread
<1>2. UnreadHeld'
  BY <1>1 DEF UnreadHeld, Unread
<1>3. AcceptedReceived'
  BY DEF AcceptedReceived, Keep
<1> QED
  BY <1>2, <1>3

LEMMA IntactNext == BufInv /\ Intact /\ [BufNext]_bufVars => Intact'
<1> SUFFICES ASSUME BufInv, Intact, [BufNext]_bufVars, ~ limitHit'
             PROVE  AcceptedReceived' /\ UnreadHeld'
  BY DEF Intact
<1> USE DEF BufInv
<1>1. ASSUME NEW offset \in Offsets, NEW data \in Payloads, BufOnStreamData(offset, data)
      PROVE  AcceptedReceived' /\ UnreadHeld'
  <2> DEFINE r == OnStreamData(buf, offset, data)
             given == [o \in r.stored |-> data[o - offset + 1]]
  <2>1. offset \in Nat /\ data \in Seq(Bytes) /\ WellFormed(buf)
    BY BufferAssumption
  <2>2. /\ AcceptedReceived /\ UnreadHeld
        /\ r.error # "TOO_MANY_STREAM_DATA_INTERVALS"
        /\ buf' = r.buf /\ accepted' = Extended(accepted, given)
    BY <1>1 DEF BufOnStreamData, Recorded, Intact
  <2>3. /\ r.stored \cap buf.received = {}
        /\ r.stored \subseteq r.buf.received /\ buf.received \subseteq r.buf.received
    BY <2>1, <2>2, OnStreamDataUnread
  <2>4. ASSUME NEW o \in Unread(r.buf)
        PROVE  /\ o \in r.stored => Holds(r.buf, o, data[o - offset + 1])
               /\ o \notin r.stored =>
                    o \in Unread(buf) /\ \A v : Holds(buf, o, v) => Holds(r.buf, o, v)
    BY <2>1, <2>2, OnStreamDataStores
  <2> HIDE DEF r
  <2>5. /\ DOMAIN accepted' = DOMAIN accepted \cup r.stored
        /\ \A o \in DOMAIN accepted : accepted'[o] = accepted[o]
        /\ \A o \in r.stored \ DOMAIN accepted : accepted'[o] = data[o - offset + 1]
    <3>1. DOMAIN given = r.stored /\ \A o \in r.stored : given[o] = data[o - offset + 1]
      OBVIOUS
    <3> HIDE DEF given
    <3>2. accepted' = [x \in DOMAIN accepted \cup DOMAIN given |->
                         IF x \in DOMAIN accepted THEN accepted[x] ELSE given[x]]
      BY <2>2 DEF Extended
    <3> QED
      BY <3>1, <3>2
  <2>6. AcceptedReceived'
    BY <2>2, <2>3, <2>5 DEF AcceptedReceived
  <2>7. ASSUME NEW o \in Unread(r.buf)
        PROVE  o \in DOMAIN accepted' /\ Holds(r.buf, o, accepted'[o])
    <3>1. CASE o \in r.stored
      <4>1. o \notin DOMAIN accepted
        BY <2>2, <2>3, <3>1 DEF AcceptedReceived
      <4>2. accepted'[o] = data[o - offset + 1]
        BY <2>5, <3>1, <4>1
      <4> QED
        BY <2>4, <2>5, <3>1, <4>2
    <3>2. CASE o \notin r.stored
      <4>1. o \in Unread(buf) /\ \A v : Holds(buf, o, v) => Holds(r.buf, o, v)
        BY <2>4, <3>2
      <4>2. o \in DOMAIN accepted /\ Holds(buf, o, accepted[o])
        BY <2>2, <4>1 DEF UnreadHeld
      <4>3. accepted'[o] = accepted[o]
        BY <2>5, <4>2
      <4> QED
        BY <2>5, <4>1, <4>2, <4>3
    <3> QED
      BY <3>1, <3>2
  <2>8. UnreadHeld'
    <3>1. ASSUME NEW o \in Unread(buf')
          PROVE  o \in DOMAIN accepted' /\ Holds(buf', o, accepted'[o])
      BY <2>2, <2>7
    <3> QED
      BY <3>1 DEF UnreadHeld, Unread, Holds
  <2> QED
    BY <2>6, <2>8
<1>2. ASSUME NEW n \in 1 .. MaxCapacity, BufReadv(n)
      PROVE  AcceptedReceived' /\ UnreadHeld'
  <2>1. PICK k \in 0 .. ReadableBytes(buf) : Readv(buf, n).buf = Consume(buf, k)
    BY ReadvConsumes
  <2>2. /\ AcceptedReceived /\ UnreadHeld
        /\ buf' = Consume(buf, k) /\ UNCHANGED accepted
    BY <1>2, <2>1 DEF BufReadv, Intact
  <2> QED
    BY <2>2, IntactConsume
<1>3. ASSUME NEW n \in 1 .. MaxCapacity, BufMarkConsumed(n)
      PROVE  AcceptedReceived' /\ UnreadHeld'
  <2>1. ReadableBytes(buf) \in Nat
    BY FirstMissingByteFacts, BufferAssumption DEF WellFormed, Buffer, ReadableBytes
  <2>2. n \in 0 .. ReadableBytes(buf) /\ MarkConsumed(buf, n) = Consume(buf, n)
    BY <1>3, <2>1, BufferAssumption DEF BufMarkConsumed, MarkConsumed
  <2>3. /\ AcceptedReceived /\ UnreadHeld
        /\ buf' = Consume(buf, n) /\ UNCHANGED accepted
    BY <1>3, <2>2 DEF BufMarkConsumed, Intact
  <2> QED
    BY <2>2, <2>3, IntactConsume
<1>4. ASSUME BufClear PROVE AcceptedReceived' /\ UnreadHeld'
  <2>1. buf.totalRead \in Nat
    BY DEF WellFormed, Buffer
  <2>2. buf'.totalRead = buf.totalRead /\ buf'.received = 0 .. (buf.totalRead - 1)
    BY <1>4, <2>1, ClearWellFormed DEF BufClear
  <2> QED
    BY <1>4, <2>1, <2>2, IntactForget DEF BufClear
<1>5. ASSUME BufFlushBufferedFrames PROVE AcceptedReceived' /\ UnreadHeld'
  <2>1. NextExpectedByte(buf) \in Nat
    BY NextExpectedByteFacts, BufferAssumption DEF WellFormed, Buffer
  <2>2. /\ buf'.totalRead = NextExpectedByte(buf)
        /\ buf'.received = 0 .. (NextExpectedByte(buf) - 1)
    BY <1>5, FlushWellFormed DEF BufFlushBufferedFrames
  <2> QED
    BY <1>5, <2>1, <2>2, IntactForget DEF BufFlushBufferedFrames
<1>6. CASE UNCHANGED bufVars
  <2>1. AcceptedReceived /\ UnreadHeld /\ buf' = buf /\ accepted' = accepted
    BY <1>6 DEF bufVars, Intact
  <2> QED
    BY <2>1 DEF AcceptedReceived, UnreadHeld, Unread, Holds
<1> QED
  BY <1>1, <1>2, <1>3, <1>4, <1>5, <1>6 DEF BufNext

\* No byte that was accepted and not read yet is lost or overwritten, for every
\* capacity, block size and sequence of frames, reads, clears and flushes, until
\* the interval limit is hit: CopyStreamData writes only the cells of new
\* offsets and RetireBlockIfEmpty frees only blocks without unread bytes.
THEOREM StoredBytesAlwaysIntact == BufSpec => []StoredBytesIntact
<1>1. BufInit => Intact
  <2> SUFFICES ASSUME BufInit PROVE AcceptedReceived /\ UnreadHeld
    BY DEF Intact
  <2>1. buf.received = {} /\ DOMAIN accepted = {}
    BY DEF BufInit, EmptyBuffer
  <2> QED
    BY <2>1 DEF AcceptedReceived, UnreadHeld, Unread
<1>2. Intact => StoredBytesIntact
  BY DEF Intact, UnreadHeld, Holds, StoredBytesIntact
<1> QED
  BY <1>1, <1>2, IntactNext, BufInvAlways, PTL DEF BufSpec

-------------------------------------------------------------------------------
(* Blocks are freed in time: a block that exists holds an unread byte. *)

\* Of two successive cells in different blocks, the second is at the start of its block.
LEMMA AtBlockStart ==
  ASSUME NEW c \in Nat, BlockOfCell(c) # BlockOfCell(c + 1)
  PROVE  (c + 1) % BlockSize = 0
<1>. DEFINE q == c \div BlockSize
            r == c % BlockSize
            u == (c + 1) \div BlockSize
            v == (c + 1) % BlockSize
<1>1. BlockSize \in Nat \ {0} /\ c + 1 \in Nat
  BY BufferAssumption
<1>2. c = BlockSize * q + r /\ r \in 0 .. (BlockSize - 1) /\ q \in Nat
  BY <1>1, DivMod
<1>3. c + 1 = BlockSize * u + v /\ v \in 0 .. (BlockSize - 1) /\ u \in Nat
  BY <1>1, DivMod
<1>4. q <= u /\ q # u
  BY <1>1, DivMonotone DEF BlockOfCell
<1>. HIDE DEF q, r, u, v
<1>5. BlockSize * u >= BlockSize * (q + 1) /\ BlockSize * (q + 1) = BlockSize * q + BlockSize
  <2>1. u >= q + 1
    BY <1>2, <1>3, <1>4
  <2>. QED  BY <1>1, <1>2, <1>3, <2>1
<1>6. BlockSize * u \in Nat /\ BlockSize * q \in Nat
  BY <1>1, <1>2, <1>3
<1>7. v = 0
  BY <1>1, <1>2, <1>3, <1>5, <1>6
<1>. QED  BY <1>7 DEF v

\* Consuming the last unread byte of a block retires it.
LEMMA RetireComplete ==
  ASSUME NEW b, WellFormed(b), NEW n \in 0 .. ReadableBytes(b), NEW k,
         \E o \in Unread(b) : BlockIndex(o) = k,
         \A o \in Unread(Consume(b, n)) : BlockIndex(o) # k
  PROVE  \E p \in ChunkEnds(b, n) : RetiresAt(b, p) /\ BlockIndex(p - 1) = k
<1>. DEFINE F == FirstMissingByte(b)
            t == b.totalRead
            U == {x \in Unread(b) : BlockIndex(x) = k}
            o == Max(U)
            p == o + 1
            m == NextExpectedByte(b) - 1
            beyond == {y \in b.received : y > F}
<1>1. /\ F \in t .. (t + MaxCapacity) /\ F \notin b.received /\ 0 .. (F - 1) \subseteq b.received
      /\ b.received \subseteq 0 .. (t + MaxCapacity - 1)
      /\ t \in Nat /\ MaxCapacity \in Nat \ {0} /\ n \in Nat /\ t + n <= F
  BY FirstMissingByteFacts, BufferAssumption DEF WellFormed, Buffer, ReadableBytes
<1>2. o \in U /\ \A x \in U : x <= o
  <2>1. U # {} /\ U \subseteq 0 .. (t + MaxCapacity - 1) /\ t + MaxCapacity - 1 \in Nat
    BY <1>1 DEF Unread
  <2>. HIDE DEF U
  <2>. QED  BY <2>1, MaxNatural
<1>3. o \in Unread(b) /\ BlockIndex(o) = k
  BY <1>2
<1>4. o \in t .. (t + n - 1)
  <2>1. Unread(Consume(b, n)) = Unread(b) \ (t .. (t + n - 1))
    BY ConsumeUnread
  <2>. HIDE DEF o
  <2>. QED  BY <1>3, <2>1
<1>5. \A x \in b.received : x > o => BlockIndex(x) # k
  <2>1. SUFFICES ASSUME NEW x \in b.received, x > o, BlockIndex(x) = k  PROVE FALSE
    OBVIOUS
  <2>2. x \in Nat /\ o \in Nat /\ x >= t
    BY <1>1, <1>4, <2>1
  <2>3. x \in U
    BY <2>1, <2>2 DEF Unread
  <2>. HIDE DEF o, U
  <2>. QED  BY <1>2, <2>1, <2>2, <2>3
<1>. HIDE DEF o
<1>6. p \in (t + 1) .. (t + n) /\ p <= F /\ p - 1 = o /\ o \in Nat
  BY <1>1, <1>4
<1>7. p \in ChunkEnds(b, n)
  <2>1. CASE p = F
    BY <1>6, <2>1 DEF ChunkEnds
  <2>2. CASE p # F
    <3>1. p \in b.received /\ p > o
      BY <1>1, <1>6, <2>2
    <3>2. BlockIndex(p) # BlockIndex(o)
      BY <1>3, <1>5, <3>1
    <3>3. 1 < MaxCapacity
      BY <1>1, <1>6, <2>2
    <3>4. /\ Cell(o) \in 0 .. (MaxCapacity - 1) /\ Cell(o + 1) \in 0 .. (MaxCapacity - 1)
          /\ Cell(o + 1) = Cell(o) + 1 \/ Cell(o + 1) = Cell(o) + 1 - MaxCapacity
      BY <1>6, <3>3, CellAhead
    <3>5. CASE Cell(o + 1) = Cell(o) + 1
      <4>1. BlockOfCell(Cell(o)) # BlockOfCell(Cell(o) + 1) /\ Cell(o) \in Nat
        BY <3>2, <3>4, <3>5 DEF BlockIndex
      <4>2. InBlockOffset(p) = 0
        BY <3>5, <4>1, AtBlockStart DEF InBlockOffset
      <4>. QED  BY <1>6, <4>2 DEF ChunkEnds
    <3>6. CASE Cell(o + 1) = Cell(o) + 1 - MaxCapacity
      <4>1. Cell(p) = 0
        BY <1>1, <3>4, <3>6
      <4>2. 0 % BlockSize = 0
        BY BufferAssumption
      <4>. QED  BY <1>6, <4>1, <4>2 DEF ChunkEnds, InBlockOffset
    <3>. QED  BY <3>4, <3>5, <3>6
  <2>. QED  BY <2>1, <2>2
<1>8. RetiresAt(b, p)
  <2>. SUFFICES ASSUME ~ IsEmpty([b EXCEPT !.totalRead = p])
                PROVE  BlockIndex(m) # k /\ ~ NextIntervalInBlock(b, k)
    BY <1>3, <1>6 DEF RetiresAt
  <2>1. b.received # {} /\ b.received # 0 .. (p - 1)
    <3>. DEFINE e == [b EXCEPT !.totalRead = p]
    <3>1. e.received = b.received /\ e.totalRead = p
      BY DEF WellFormed, Buffer
    <3>. HIDE DEF e
    <3>. QED  BY <1>1, <1>6, <3>1 DEF IsEmpty, e
  <2>2. PICK y \in b.received : y >= p
    <3>1. 0 .. (p - 1) \subseteq b.received /\ b.received \subseteq Nat /\ p \in Nat
      BY <1>1, <1>6
    <3>2. PICK y \in b.received : y \notin 0 .. (p - 1)
      BY <2>1, <3>1
    <3>. QED  BY <3>1, <3>2
  <2>3. BlockIndex(m) # k
    <3>1. NextExpectedByte(b) \in Nat /\ y < NextExpectedByte(b) /\ m \in b.received
      BY <1>1, <2>1, NextExpectedByteFacts
    <3>2. m > o
      BY <1>1, <1>6, <2>2, <3>1
    <3>. HIDE DEF m
    <3>. QED  BY <1>5, <3>1, <3>2
  <2>4. ~ NextIntervalInBlock(b, k)
    <3>1. ASSUME beyond # {}  PROVE BlockIndex(Min(beyond)) # k
      <4>1. beyond \subseteq Nat
        BY <1>1
      <4>2. Min(beyond) \in beyond
        BY <3>1, <4>1, MinNatural
      <4>3. Min(beyond) \in b.received /\ Min(beyond) > F
        BY <4>2
      <4>4. Min(beyond) \in Nat
        BY <4>1, <4>2
      <4>. HIDE DEF beyond
      <4>5. Min(beyond) > o
        BY <1>1, <1>6, <4>3, <4>4
      <4>. QED  BY <1>5, <4>3, <4>5
    <3>. QED  BY <3>1 DEF NextIntervalInBlock
  <2>. QED  BY <2>3, <2>4
<1>. QED  BY <1>3, <1>6, <1>7, <1>8

Lean(b) == \A k \in b.blocks : \E o \in Unread(b) : BlockIndex(o) = k

LEMMA ConsumeLean ==
  ASSUME NEW b, WellFormed(b), Lean(b), NEW n \in 0 .. ReadableBytes(b)
  PROVE  Lean(Consume(b, n))
<1>. DEFINE retired == {BlockIndex(p - 1) : p \in {q \in ChunkEnds(b, n) : RetiresAt(b, q)}}
<1>1. Consume(b, n).blocks = b.blocks \ retired
  BY DEF Consume, WellFormed, Buffer
<1>2. ASSUME NEW k \in Consume(b, n).blocks, \A o \in Unread(Consume(b, n)) : BlockIndex(o) # k
      PROVE  FALSE
  <2>1. \E o \in Unread(b) : BlockIndex(o) = k
    BY <1>1 DEF Lean
  <2>2. \E p \in ChunkEnds(b, n) : RetiresAt(b, p) /\ BlockIndex(p - 1) = k
    BY <1>2, <2>1, RetireComplete
  <2>3. k \in retired
    BY <2>2
  <2>. HIDE DEF retired
  <2>. QED  BY <1>1, <2>3
<1>. QED  BY <1>2 DEF Lean

LEMMA StoreLean ==
  ASSUME NEW b, WellFormed(b), Lean(b), NEW offset \in Nat, NEW data \in Seq(Bytes),
         OnStreamData(b, offset, data).error # "TOO_MANY_STREAM_DATA_INTERVALS"
  PROVE  Lean(OnStreamData(b, offset, data).buf)
<1>. DEFINE r == OnStreamData(b, offset, data)
            grown == [b EXCEPT !.received = @ \cup (offset .. (offset + Len(data) - 1))]
<1>1. /\ Unread(r.buf) = Unread(b) \cup r.stored
      /\ r.stored # {} => r.buf = CopyStreamData(grown, r.stored, offset, data)
      /\ r.stored = {} => r.buf = b
  BY OnStreamDataUnread
<1>2. grown \in [totalRead : Nat, received : SUBSET Nat, memory : [Cells -> Bytes \cup {NoByte}],
                 blocks : SUBSET (0 .. (MaxBlocks - 1)), numBuffered : Int]
      /\ grown.blocks = b.blocks
  BY DEF WellFormed, Buffer
<1>. HIDE DEF r, grown
<1>3. CASE r.stored = {}
  BY <1>1, <1>3 DEF r
<1>4. CASE r.stored # {}
  <2>1. r.buf.blocks = b.blocks \cup {BlockOfCell(c) : c \in {Cell(o) : o \in r.stored}}
    BY <1>1, <1>2, <1>4 DEF CopyStreamData
  <2>2. ASSUME NEW k \in r.buf.blocks  PROVE \E o \in Unread(r.buf) : BlockIndex(o) = k
    BY <1>1, <2>1 DEF Lean, BlockIndex
  <2>. QED  BY <2>2 DEF Lean, r
<1>. QED  BY <1>3, <1>4

LEMMA ClearLean ==
  ASSUME NEW b
  PROVE  Clear(b).blocks = {} /\ Lean(Clear(b))
<1>1. Clear(b).blocks = {}
  BY DEF Clear, EmptyBuffer
<1>. QED  BY <1>1 DEF Lean

LEMMA LeanNext == BufInv /\ (~ limitHit => Lean(buf)) /\ [BufNext]_bufVars
                    => (~ limitHit' => Lean(buf'))
<1>. SUFFICES ASSUME BufInv, ~ limitHit => Lean(buf), [BufNext]_bufVars, ~ limitHit'
              PROVE  Lean(buf')
  OBVIOUS
<1>. USE DEF BufInv
<1>1. ASSUME NEW offset \in Offsets, NEW data \in Payloads, BufOnStreamData(offset, data)
      PROVE  Lean(buf')
  <2>1. offset \in Nat /\ data \in Seq(Bytes)
    BY BufferAssumption
  <2>2. /\ Lean(buf) /\ buf' = OnStreamData(buf, offset, data).buf
        /\ OnStreamData(buf, offset, data).error # "TOO_MANY_STREAM_DATA_INTERVALS"
    BY <1>1 DEF BufOnStreamData, Recorded
  <2>. QED  BY <2>1, <2>2, StoreLean
<1>2. ASSUME NEW n \in 1 .. MaxCapacity, BufReadv(n)
      PROVE  Lean(buf')
  <2>1. PICK k \in 0 .. ReadableBytes(buf) : Readv(buf, n).buf = Consume(buf, k)
    BY ReadvConsumes
  <2>2. Lean(buf) /\ buf' = Consume(buf, k)
    BY <1>2, <2>1 DEF BufReadv
  <2>. QED  BY <2>2, ConsumeLean
<1>3. ASSUME NEW n \in 1 .. MaxCapacity, BufMarkConsumed(n)
      PROVE  Lean(buf')
  <2>1. ReadableBytes(buf) \in Nat
    BY FirstMissingByteFacts, BufferAssumption DEF WellFormed, Buffer, ReadableBytes
  <2>2. n \in 0 .. ReadableBytes(buf) /\ MarkConsumed(buf, n) = Consume(buf, n)
    BY <1>3, <2>1, BufferAssumption DEF BufMarkConsumed, MarkConsumed
  <2>3. Lean(buf) /\ buf' = Consume(buf, n)
    BY <1>3, <2>2 DEF BufMarkConsumed
  <2>. QED  BY <2>2, <2>3, ConsumeLean
<1>4. CASE BufClear
  BY <1>4, ClearLean DEF BufClear
<1>5. CASE BufFlushBufferedFrames
  BY <1>5, ClearLean DEF BufFlushBufferedFrames, FlushBufferedFrames
<1>6. CASE UNCHANGED bufVars
  BY <1>6 DEF bufVars
<1>. QED  BY <1>1, <1>2, <1>3, <1>4, <1>5, <1>6 DEF BufNext

\* The buffer shrinks as the data are consumed, for every capacity and block size and
\* until the interval limit is hit: a block exists exactly while it holds an unread byte.
THEOREM BlocksAlwaysHoldUnreadBytes == BufSpec => []BlocksHoldUnreadBytes
<1>1. BufInit => (~ limitHit => Lean(buf))
  BY DEF BufInit, EmptyBuffer, Lean
<1>2. BufInv /\ (~ limitHit => Lean(buf)) /\ [BufNext]_bufVars => (~ limitHit => Lean(buf))'
  BY LeanNext
<1>3. StoredBytesIntact /\ (~ limitHit => Lean(buf)) => BlocksHoldUnreadBytes
  BY DEF StoredBytesIntact, Lean, BlocksHoldUnreadBytes
<1>. QED  BY <1>1, <1>2, <1>3, BufInvAlways, StoredBytesAlwaysIntact, PTL DEF BufSpec

-------------------------------------------------------------------------------
(* The regions of zero-copy reads. *)

\* The remainder of a number less than a lap below zero or in the first two laps.
LEMMA ModOnce ==
  ASSUME NEW n \in Nat \ {0}, NEW z \in (- n) .. (2 * n - 1)
  PROVE  z % n = IF z < 0 THEN z + n ELSE IF z < n THEN z ELSE z - n
<1>1. z = n * (z \div n) + (z % n) /\ z % n \in 0 .. (n - 1) /\ z \div n \in Int
  OBVIOUS
<1> DEFINE q == z \div n
<1>2. q \in {-1, 0, 1}
  <2>1. CASE q >= 2
    <3>1. n * q >= n * 2
      BY <1>1, <2>1
    <3> QED
      BY <1>1, <3>1
  <2>2. CASE q <= -2
    <3>1. n * q <= n * (-2)
      BY <1>1, <2>2
    <3> QED
      BY <1>1, <3>1
  <2> QED
    BY <1>1, <2>1, <2>2
<1>3. CASE q = 0
  BY <1>1, <1>3
<1>4. CASE q = -1
  BY <1>1, <1>4
<1>5. CASE q = 1
  BY <1>1, <1>5
<1> QED
  BY <1>2, <1>3, <1>4, <1>5

\* The first cell of a block.
Start(k) == k * BlockSize

\* The blocks tile the ring, the last of them cut off at the capacity.
LEMMA BlocksTile ==
  /\ MaxBlocks \in Nat \ {0}
  /\ \A k \in 0 .. (MaxBlocks - 1) :
       /\ Start(k) \in Nat /\ BlockCapacity(k) \in 1 .. BlockSize
       /\ Start(k) + BlockCapacity(k) = IF k = MaxBlocks - 1 THEN MaxCapacity ELSE Start(k + 1)
  /\ \A j, k \in 0 .. (MaxBlocks - 1) : j <= k => Start(j) <= Start(k)
<1> DEFINE C == MaxCapacity
           B == BlockSize
           M == MaxBlocks
           q == C \div B
           r == C % B
           w == (C + B - 1) % B
<1>1. C \in Nat \ {0} /\ B \in Nat \ {0} /\ C + B - 1 \in Nat
  BY BufferAssumption
<1>2. C = B * q + r /\ q \in Nat /\ r \in 0 .. (B - 1)
  BY <1>1, DivMod
<1>3. C + B - 1 = B * M + w /\ M \in Nat /\ w \in 0 .. (B - 1)
  BY <1>1, DivMod DEF MaxBlocks
<1> HIDE DEF C, B, M, q, r, w
<1>4. M # 0
  BY <1>1, <1>3
<1>5. B * (M - 1) = B * M - B /\ B * (q + 1) = B * q + B
  BY <1>1, <1>2, <1>3
<1>6. IF r = 0 THEN q = M ELSE q = M - 1
  <2>1. CASE q >= M + 1
    <3>1. B * q >= B * (M + 1) /\ B * (M + 1) = B * M + B
      BY <1>1, <1>2, <1>3, <2>1
    <3> QED
      BY <1>1, <1>2, <1>3, <3>1
  <2>2. CASE q <= M - 2
    <3>1. B * q <= B * (M - 2) /\ B * (M - 2) = B * M - B - B
      BY <1>1, <1>2, <1>3, <2>2
    <3> QED
      BY <1>1, <1>2, <1>3, <3>1
  <2>3. CASE q = M
    BY <1>1, <1>2, <1>3, <2>3
  <2>4. CASE q = M - 1
    BY <1>1, <1>2, <1>3, <1>5, <2>4
  <2> QED
    BY <1>2, <1>3, <2>1, <2>2, <2>3, <2>4
<1>7. ASSUME NEW k \in 0 .. (M - 1)
      PROVE  /\ Start(k) \in Nat /\ BlockCapacity(k) \in 1 .. B
             /\ Start(k) + BlockCapacity(k) = IF k = M - 1 THEN C ELSE Start(k + 1)
  <2>1. k \in Nat /\ k * B \in Nat /\ k * B = B * k /\ (k + 1) * B = k * B + B
    BY <1>1, <1>3
  <2>2. Start(k) = k * B /\ Start(k + 1) = (k + 1) * B
    BY DEF Start, B
  <2>3. BlockCapacity(k) = IF k + 1 = M /\ r # 0 THEN r ELSE B
    BY DEF BlockCapacity, M, r, B, C
  <2>4. CASE k = M - 1
    BY <1>1, <1>2, <1>3, <1>5, <1>6, <2>1, <2>2, <2>3, <2>4
  <2>5. CASE k # M - 1
    BY <1>1, <1>3, <2>1, <2>2, <2>3, <2>5
  <2> QED
    BY <2>4, <2>5
<1>8. ASSUME NEW j \in 0 .. (M - 1), NEW k \in 0 .. (M - 1), j <= k
      PROVE  Start(j) <= Start(k)
  <2>1. j * B <= k * B
    BY <1>1, <1>3, <1>8
  <2> QED
    BY <2>1 DEF Start, B
<1> QED
  BY <1>3, <1>4, <1>7, <1>8 DEF M, B, C

\* A cell lies in its block.
LEMMA CellInBlock ==
  ASSUME NEW c \in Cells
  PROVE  /\ BlockOfCell(c) \in 0 .. (MaxBlocks - 1)
         /\ c % BlockSize \in 0 .. (BlockSize - 1)
         /\ c = Start(BlockOfCell(c)) + (c % BlockSize)
         /\ c % BlockSize < BlockCapacity(BlockOfCell(c))
<1> DEFINE k == BlockOfCell(c)
           i == c % BlockSize
<1>1. BlockSize \in Nat \ {0} /\ MaxCapacity \in Nat \ {0} /\ c \in Nat /\ c < MaxCapacity
  BY BufferAssumption DEF Cells
<1>2. k \in 0 .. (MaxBlocks - 1)
  BY BlockOfCellType
<1>3. c = BlockSize * k + i /\ i \in 0 .. (BlockSize - 1) /\ k \in Nat
  BY <1>1, DivMod DEF BlockOfCell
<1>4. c = Start(k) + i
  BY <1>1, <1>3 DEF Start
<1>5. i < BlockCapacity(k)
  <2>1. /\ Start(k) \in Nat /\ BlockCapacity(k) \in 1 .. BlockSize
        /\ Start(k) + BlockCapacity(k) = IF k = MaxBlocks - 1 THEN MaxCapacity ELSE Start(k + 1)
    BY <1>2, BlocksTile
  <2>2. Start(k + 1) = Start(k) + BlockSize
    BY <1>1, <1>3 DEF Start
  <2> HIDE DEF k, i
  <2> QED
    BY <1>1, <1>3, <1>4, <2>1, <2>2
<1> QED
  BY <1>2, <1>3, <1>4, <1>5

\* Where a lap starts, offsets and cells agree.
LEMMA CellOfLap ==
  ASSUME NEW q \in Nat, NEW c \in Cells
  PROVE  Cell(MaxCapacity * q + c) = c
<1> DEFINE C == MaxCapacity
           o == C * q + c
           u == o \div C
           v == o % C
<1>1. C \in Nat \ {0} /\ c \in 0 .. (C - 1) /\ C * q \in Nat
  BY BufferAssumption DEF Cells
<1>2. o = C * u + v /\ u \in Nat /\ v \in 0 .. (C - 1)
  <2>1. o \in Nat
    BY <1>1
  <2> HIDE DEF o, C
  <2> QED
    BY <1>1, <2>1, DivMod
<1> HIDE DEF C, u, v
<1>3. v = c
  <2>1. CASE u >= q + 1
    <3>1. C * u >= C * (q + 1) /\ C * (q + 1) = C * q + C
      BY <1>1, <1>2, <2>1
    <3> QED
      BY <1>1, <1>2, <3>1
  <2>2. CASE u <= q - 1
    <3>1. C * u <= C * (q - 1) /\ C * (q - 1) = C * q - C
      BY <1>1, <1>2, <2>2
    <3> QED
      BY <1>1, <1>2, <3>1
  <2>3. CASE u = q
    BY <1>1, <1>2, <2>3
  <2> QED
    BY <1>2, <2>1, <2>2, <2>3
<1> QED
  BY <1>3 DEF Cell, C, v

\* The cell of a region determines the offset in the window.
LEMMA FirstOffsetIs ==
  ASSUME NEW b, WellFormed(b), NEW region,
         NEW o \in b.totalRead .. (b.totalRead + MaxCapacity - 1), Cell(o) = region.cell
  PROVE  FirstOffset(b, region) = o
<1>1. b.totalRead \in Nat /\ MaxCapacity \in Nat \ {0}
  BY BufferAssumption DEF WellFormed, Buffer
<1>2. ASSUME NEW p \in b.totalRead .. (b.totalRead + MaxCapacity - 1), Cell(p) = region.cell
      PROVE  p = o
  <2>1. ~ (p < o)
    BY <1>1, <1>2, CellInjective
  <2>2. ~ (o < p)
    BY <1>1, <1>2, CellInjective
  <2> QED
    BY <1>1, <2>1, <2>2
<1> QED
  BY <1>2 DEF FirstOffset

\* The offset at which block k starts, when the blocks are counted on from those of
\* the lap that starts at offset `lap' into the next lap.
Unrolled(lap, k) ==
  IF k < MaxBlocks THEN lap + Start(k) ELSE lap + MaxCapacity + Start(k - MaxBlocks)
Wrapped(k) == IF k < MaxBlocks THEN k ELSE k - MaxBlocks

LEMMA UnrolledFacts ==
  ASSUME NEW q \in Nat, NEW k \in 0 .. (2 * MaxBlocks - 1)
  PROVE  LET lap == MaxCapacity * q IN
         /\ Wrapped(k) \in 0 .. (MaxBlocks - 1)
         /\ Unrolled(lap, k) \in Nat
         /\ Cell(Unrolled(lap, k)) = Start(Wrapped(k))
         /\ Start(Wrapped(k)) + BlockCapacity(Wrapped(k)) <= MaxCapacity
         /\ BlockCapacity(Wrapped(k)) \in 1 .. BlockSize
         /\ k < 2 * MaxBlocks - 1 =>
              Unrolled(lap, k + 1) = Unrolled(lap, k) + BlockCapacity(Wrapped(k))
         /\ \A j \in 0 .. k : Unrolled(lap, j) <= Unrolled(lap, k)
<1> DEFINE lap == MaxCapacity * q
<1>1. MaxCapacity \in Nat \ {0} /\ MaxBlocks \in Nat \ {0} /\ lap \in Nat /\ BlockSize \in Nat
  BY BufferAssumption, BlocksTile
<1>2. Start(0) = 0
  BY BufferAssumption DEF Start
<1>3. \A m \in 0 .. (MaxBlocks - 1) :
        /\ Start(m) \in Nat /\ BlockCapacity(m) \in 1 .. BlockSize
        /\ Start(m) + BlockCapacity(m) = IF m = MaxBlocks - 1 THEN MaxCapacity ELSE Start(m + 1)
  BY BlocksTile
<1>4. \A m \in 0 .. (MaxBlocks - 1) : Start(m) + BlockCapacity(m) <= MaxCapacity
  <2> TAKE m \in 0 .. (MaxBlocks - 1)
  <2>1. CASE m = MaxBlocks - 1
    BY <1>1, <1>3, <2>1
  <2>2. CASE m < MaxBlocks - 1
    <3>1. Start(m + 1) <= Start(MaxBlocks - 1)
      BY <1>1, <2>2, BlocksTile
    <3>2. Start(MaxBlocks - 1) + BlockCapacity(MaxBlocks - 1) = MaxCapacity
          /\ BlockCapacity(MaxBlocks - 1) \in Nat /\ Start(MaxBlocks - 1) \in Nat
      BY <1>1, <1>3
    <3>3. Start(m) + BlockCapacity(m) = Start(m + 1) /\ Start(m + 1) \in Nat
      BY <1>1, <1>3, <2>2
    <3> QED
      BY <1>1, <3>1, <3>2, <3>3
  <2> QED
    BY <1>1, <2>1, <2>2
<1>5. Wrapped(k) \in 0 .. (MaxBlocks - 1)
  BY <1>1 DEF Wrapped
<1>6. Unrolled(lap, k) = lap + (IF k < MaxBlocks THEN 0 ELSE MaxCapacity) + Start(Wrapped(k))
  <2>1. Start(Wrapped(k)) \in Nat
    BY <1>3, <1>5
  <2> HIDE DEF lap
  <2>2. CASE k < MaxBlocks
    BY <1>1, <2>1, <2>2 DEF Unrolled, Wrapped
  <2>3. CASE ~ (k < MaxBlocks)
    BY <1>1, <2>1, <2>3 DEF Unrolled, Wrapped
  <2> QED
    BY <2>2, <2>3
<1>7. Start(Wrapped(k)) \in Cells
  BY <1>1, <1>3, <1>4, <1>5 DEF Cells
<1>8. Cell(Unrolled(lap, k)) = Start(Wrapped(k))
  <2>1. CASE k < MaxBlocks
    <3>1. Unrolled(lap, k) = MaxCapacity * q + Start(Wrapped(k))
      BY <1>1, <1>3, <1>5, <1>6, <2>1
    <3> QED
      BY <1>7, <3>1, CellOfLap
  <2>2. CASE ~ (k < MaxBlocks)
    <3>1. MaxCapacity * (q + 1) = lap + MaxCapacity
      BY <1>1
    <3>2. Unrolled(lap, k) = MaxCapacity * (q + 1) + Start(Wrapped(k))
      BY <1>6, <2>2, <3>1
    <3> QED
      BY <1>7, <3>2, CellOfLap
  <2> QED
    BY <2>1, <2>2
<1>9. k < 2 * MaxBlocks - 1 =>
         Unrolled(lap, k + 1) = Unrolled(lap, k) + BlockCapacity(Wrapped(k))
  <2> SUFFICES ASSUME k < 2 * MaxBlocks - 1
               PROVE  Unrolled(lap, k + 1) = Unrolled(lap, k) + BlockCapacity(Wrapped(k))
    OBVIOUS
  <2>1. CASE k = MaxBlocks - 1
    <3>1. Unrolled(lap, k + 1) = lap + MaxCapacity
      BY <1>1, <1>2, <2>1 DEF Unrolled
    <3>2. Wrapped(k) = k /\ Unrolled(lap, k) = lap + Start(k)
      BY <1>1, <2>1 DEF Unrolled, Wrapped
    <3>3. Start(k) + BlockCapacity(k) = MaxCapacity /\ Start(k) \in Nat /\ BlockCapacity(k) \in Nat
      BY <1>1, <1>3, <2>1
    <3> QED
      BY <1>1, <3>1, <3>2, <3>3
  <2>2. CASE k < MaxBlocks - 1
    <3>1. /\ Unrolled(lap, k + 1) = lap + Start(k + 1)
          /\ Wrapped(k) = k /\ Unrolled(lap, k) = lap + Start(k)
      BY <1>1, <2>2 DEF Unrolled, Wrapped
    <3>2. Start(k) + BlockCapacity(k) = Start(k + 1) /\ Start(k) \in Nat /\ BlockCapacity(k) \in Nat
      BY <1>1, <1>3, <2>2
    <3> QED
      BY <1>1, <3>1, <3>2
  <2>3. CASE k >= MaxBlocks
    <3> DEFINE m == k - MaxBlocks
    <3>1. m \in 0 .. (MaxBlocks - 1) /\ m # MaxBlocks - 1 /\ (k + 1) - MaxBlocks = m + 1
      BY <1>1, <2>3
    <3>2. /\ Unrolled(lap, k + 1) = lap + MaxCapacity + Start(m + 1)
          /\ Wrapped(k) = m /\ Unrolled(lap, k) = lap + MaxCapacity + Start(m)
      BY <1>1, <2>3, <3>1 DEF Unrolled, Wrapped
    <3>3. Start(m) + BlockCapacity(m) = Start(m + 1) /\ Start(m) \in Nat /\ BlockCapacity(m) \in Nat
      BY <1>1, <1>3, <3>1
    <3> HIDE DEF m
    <3> QED
      BY <1>1, <3>2, <3>3
  <2> QED
    BY <1>1, <2>1, <2>2, <2>3
<1>10. \A j \in 0 .. k : Unrolled(lap, j) <= Unrolled(lap, k)
  <2> TAKE j \in 0 .. k
  <2>1. CASE k < MaxBlocks
    <3>1. Start(j) <= Start(k) /\ Start(j) \in Nat /\ Start(k) \in Nat
      BY <1>1, <1>3, <2>1, BlocksTile
    <3> QED
      BY <1>1, <2>1, <3>1 DEF Unrolled
  <2>2. CASE j < MaxBlocks /\ ~ (k < MaxBlocks)
    <3>1. Start(j) <= MaxCapacity /\ Start(j) \in Nat
      BY <1>1, <1>3, <1>4, <2>2
    <3>2. Start(k - MaxBlocks) \in Nat
      BY <1>1, <1>3, <2>2
    <3> QED
      BY <1>1, <2>2, <3>1, <3>2 DEF Unrolled
  <2>3. CASE ~ (j < MaxBlocks)
    <3>1. Start(j - MaxBlocks) <= Start(k - MaxBlocks)
          /\ Start(j - MaxBlocks) \in Nat /\ Start(k - MaxBlocks) \in Nat
      BY <1>1, <1>3, <2>3, BlocksTile
    <3> QED
      BY <1>1, <2>3, <3>1 DEF Unrolled
  <2> QED
    BY <1>1, <2>1, <2>2, <2>3
<1>11. Unrolled(lap, k) \in Nat
  BY <1>1, <1>3, <1>5, <1>6
<1> QED
  BY <1>3, <1>4, <1>5, <1>8, <1>9, <1>10, <1>11

\* The geometry of the readable bytes of b: the lap of the first one, and the block of
\* the last one counted on from that lap.
LEMMA ReadableSpan ==
  ASSUME NEW b, WellFormed(b), HasBytesToRead(b)
  PROVE  LET T == b.totalRead
             F == FirstMissingByte(b)
             lap == MaxCapacity * (T \div MaxCapacity)
             from == BlockIndex(T)
             to == BlockIndex(F - 1)
             to2 == IF Cell(T) <= Cell(F - 1) THEN to ELSE to + MaxBlocks
         IN  /\ from \in 0 .. (MaxBlocks - 1) /\ to \in 0 .. (MaxBlocks - 1) /\ from <= to2
             /\ InBlockOffset(T) \in 0 .. (BlockCapacity(from) - 1)
             /\ InBlockOffset(F - 1) \in 0 .. (BlockCapacity(to) - 1)
             /\ T = Unrolled(lap, from) + InBlockOffset(T)
             /\ F - 1 = Unrolled(lap, to2) + InBlockOffset(F - 1)
             /\ Cell(T) = Start(from) + InBlockOffset(T)
             /\ Cell(F - 1) = Start(to) + InBlockOffset(F - 1)
<1> DEFINE T == b.totalRead
           F == FirstMissingByte(b)
           q == T \div MaxCapacity
           lap == MaxCapacity * q
           t == Cell(T)
           e == Cell(F - 1)
           from == BlockIndex(T)
           to == BlockIndex(F - 1)
           to2 == IF Cell(T) <= Cell(F - 1) THEN to ELSE to + MaxBlocks
<1>1. MaxCapacity \in Nat \ {0} /\ MaxBlocks \in Nat \ {0} /\ T \in Nat /\ F \in (T + 1) .. (T + MaxCapacity)
  <2>1. MaxCapacity \in Nat \ {0} /\ MaxBlocks \in Nat \ {0} /\ T \in Nat
    BY BufferAssumption, BlocksTile DEF WellFormed, Buffer
  <2>2. F \in T .. (T + MaxCapacity)
    BY FirstMissingByteFacts
  <2>3. F - T > 0
    BY DEF HasBytesToRead, ReadableBytes
  <2> HIDE DEF T, F
  <2> QED
    BY <2>1, <2>2, <2>3
<1>2. t \in Cells /\ e \in Cells /\ t \in Nat /\ e \in Nat /\ t < MaxCapacity /\ e < MaxCapacity
  BY <1>1, CellType DEF Cells
<1>3. /\ from \in 0 .. (MaxBlocks - 1) /\ to \in 0 .. (MaxBlocks - 1)
      /\ t = Start(from) + InBlockOffset(T) /\ e = Start(to) + InBlockOffset(F - 1)
      /\ InBlockOffset(T) \in Nat /\ InBlockOffset(F - 1) \in Nat
      /\ InBlockOffset(T) < BlockCapacity(from) /\ InBlockOffset(F - 1) < BlockCapacity(to)
  BY <1>2, CellInBlock DEF BlockIndex, InBlockOffset
<1>4. /\ Start(from) \in Nat /\ Start(to) \in Nat
      /\ BlockCapacity(from) \in Nat /\ BlockCapacity(to) \in Nat
  <2>1. \A k \in 0 .. (MaxBlocks - 1) : Start(k) \in Nat /\ BlockCapacity(k) \in 1 .. BlockSize
    BY BlocksTile
  <2>2. BlockSize \in Nat
    BY BufferAssumption
  <2> QED
    BY <1>3, <2>1, <2>2
<1>5. T = lap + t /\ lap \in Nat
  <2>1. q \in Nat /\ T = lap + t
    BY <1>1, DivMod DEF Cell
  <2> QED
    BY <1>1, <2>1
<1>6. F - 1 = IF t <= e THEN lap + e ELSE lap + MaxCapacity + e
  <2> DEFINE d == F - 1 - T
  <2>1. d \in Nat /\ d < MaxCapacity /\ T + d = F - 1
    BY <1>1
  <2>2. Cell(T + d) = Cell(T) + d \/ Cell(T + d) = Cell(T) + d - MaxCapacity
    BY <1>1, <2>1, CellAhead
  <2>3. e = t + d \/ e = t + d - MaxCapacity
    BY <2>1, <2>2
  <2>4. F - 1 = T + d
    BY <2>1
  <2> HIDE DEF lap, t, e, d, T, F
  <2>5. CASE e = t + d
    BY <1>1, <1>2, <1>5, <2>1, <2>4, <2>5
  <2>6. CASE e = t + d - MaxCapacity
    BY <1>1, <1>2, <1>5, <2>1, <2>4, <2>6
  <2> QED
    BY <2>3, <2>5, <2>6
<1>7. from <= to2
  <2>1. t <= e => from <= to
    BY <1>2, DivMonotone, BufferAssumption DEF BlockIndex, BlockOfCell
  <2> QED
    BY <1>1, <1>3, <2>1
<1>8. T = Unrolled(lap, from) + InBlockOffset(T)
  <2>1. Unrolled(lap, from) = lap + Start(from)
    BY <1>1, <1>3 DEF Unrolled
  <2> HIDE DEF lap, t, from
  <2> QED
    BY <1>3, <1>4, <1>5, <2>1
<1>9. F - 1 = Unrolled(lap, to2) + InBlockOffset(F - 1)
  <2>1. Unrolled(lap, to2) = IF t <= e THEN lap + Start(to) ELSE lap + MaxCapacity + Start(to)
    <3>1. CASE t <= e
      BY <1>1, <1>3, <3>1 DEF Unrolled
    <3>2. CASE ~ (t <= e)
      <4>1. to2 = to + MaxBlocks /\ ~ (to2 < MaxBlocks) /\ to2 - MaxBlocks = to
        BY <1>1, <1>3, <3>2
      <4> QED
        BY <3>2, <4>1 DEF Unrolled
    <3> QED
      BY <3>1, <3>2
  <2> DEFINE i == InBlockOffset(F - 1)
  <2>2. e = Start(to) + i /\ i \in Nat
    BY <1>3
  <2> HIDE DEF lap, t, e, to, to2, F, i
  <2>5. F - 1 = Unrolled(lap, to2) + i
    <3>1. CASE t <= e
      BY <1>1, <1>4, <1>5, <1>6, <2>1, <2>2, <3>1
    <3>2. CASE ~ (t <= e)
      BY <1>1, <1>4, <1>5, <1>6, <2>1, <2>2, <3>2
    <3> QED
      BY <3>1, <3>2
  <2> QED
    BY <2>5 DEF i
<1>10. InBlockOffset(T) \in 0 .. (BlockCapacity(from) - 1) /\ InBlockOffset(F - 1) \in 0 .. (BlockCapacity(to) - 1)
  BY <1>3, <1>4
<1> QED
  BY <1>3, <1>7, <1>8, <1>9, <1>10

\* Regions that cover successive stretches of the window are exact.
Stretches(b, iovLen, n, S, E) ==
  LET r == GetReadableRegions(b, iovLen) IN
  /\ n \in 1 .. iovLen /\ Len(r) = n
  /\ \A i \in 1 .. n :
       /\ S[i] \in b.totalRead .. FirstMissingByte(b)
       /\ E[i] \in (S[i] + 1) .. FirstMissingByte(b)
       /\ r[i].cell = Cell(S[i]) /\ r[i].len = E[i] - S[i]
       /\ r[i].cell + r[i].len <= MaxCapacity
  /\ S[1] = b.totalRead /\ \A i \in 1 .. (n - 1) : S[i + 1] = E[i]
  /\ n < iovLen \/ iovLen > MaxBlocks => E[n] = FirstMissingByte(b)

LEMMA StretchesExact ==
  ASSUME NEW b, WellFormed(b), HasBytesToRead(b), NEW iovLen \in 1 .. (MaxBlocks + 1),
         NEW n, NEW S, NEW E, Stretches(b, iovLen, n, S, E)
  PROVE  RegionsExact(b, iovLen)
<1> DEFINE r == GetReadableRegions(b, iovLen)
           T == b.totalRead
           F == FirstMissingByte(b)
<1>1. MaxCapacity \in Nat \ {0} /\ MaxBlocks \in Nat /\ T \in Nat /\ F \in (T + 1) .. (T + MaxCapacity)
  <2>1. MaxCapacity \in Nat \ {0} /\ MaxBlocks \in Nat \ {0} /\ T \in Nat
    BY BufferAssumption, BlocksTile DEF WellFormed, Buffer
  <2>2. F \in T .. (T + MaxCapacity)
    BY FirstMissingByteFacts
  <2>3. F - T > 0
    BY DEF HasBytesToRead, ReadableBytes
  <2> HIDE DEF T, F
  <2> QED
    BY <2>1, <2>2, <2>3
<1>0. /\ n \in 1 .. iovLen /\ Len(r) = n
      /\ \A i \in 1 .. n : /\ S[i] \in T .. F /\ E[i] \in (S[i] + 1) .. F
                          /\ r[i].cell = Cell(S[i]) /\ r[i].len = E[i] - S[i]
                          /\ r[i].cell + r[i].len <= MaxCapacity
      /\ S[1] = T /\ \A i \in 1 .. (n - 1) : S[i + 1] = E[i]
      /\ n < iovLen \/ iovLen > MaxBlocks => E[n] = F
  BY DEF Stretches
<1>2. ASSUME NEW i \in 1 .. n
      PROVE  /\ r[i].cell \in Cells /\ r[i].len > 0
             /\ FirstOffset(b, r[i]) = S[i] /\ EndOffset(b, r[i]) = E[i] /\ E[i] <= F
  <2>0. S[i] \in T .. F /\ E[i] \in (S[i] + 1) .. F
    BY <1>0
  <2>1. S[i] \in T .. (T + MaxCapacity - 1) /\ E[i] \in Nat /\ E[i] > S[i] /\ E[i] <= F
    <3> HIDE DEF T, F
    <3> QED
      BY <1>1, <2>0
  <2>2. r[i].cell = Cell(S[i]) /\ r[i].len = E[i] - S[i]
    BY <1>0
  <2>3. FirstOffset(b, r[i]) = S[i]
    BY <2>1, <2>2, FirstOffsetIs
  <2>4. r[i].cell \in Cells
    BY <1>1, <2>1, <2>2, CellType
  <2>5. S[i] \in Nat /\ E[i] \in Nat
    BY <1>1, <2>1
  <2>6. EndOffset(b, r[i]) = E[i] /\ r[i].len > 0
    <3>1. EndOffset(b, r[i]) = S[i] + (E[i] - S[i]) /\ r[i].len = E[i] - S[i]
      BY <2>2, <2>3 DEF EndOffset
    <3> HIDE DEF r
    <3> QED
      BY <2>1, <2>5, <3>1
  <2> QED
    BY <2>1, <2>3, <2>4, <2>6
<1> HIDE DEF r, T, F
<1>3. Len(r) = n /\ \A i \in 1 .. n : r[i].cell + r[i].len <= MaxCapacity
  BY <1>0
<1>4. \A i \in 1 .. (n - 1) : FirstOffset(b, r[i + 1]) = EndOffset(b, r[i])
  <2> TAKE i \in 1 .. (n - 1)
  <2>1. i \in 1 .. n /\ i + 1 \in 1 .. n
    BY <1>0
  <2> QED
    BY <1>0, <1>2, <2>1
<1>5. 1 \in 1 .. n /\ n \in 1 .. n
  BY <1>0
<1> QED
  BY <1>0, <1>2, <1>3, <1>4, <1>5 DEF RegionsExact, r, T, F

\* In one block there is one region; otherwise the first region goes to the end of its
\* block, the last one from the start of its block, and whole blocks lie between.
LEMMA ReadableRegionsOfBuffer ==
  ASSUME NEW b, WellFormed(b), NEW iovLen \in 1 .. (MaxBlocks + 1)
  PROVE  RegionsExact(b, iovLen)
<1> DEFINE T == b.totalRead
           F == FirstMissingByte(b)
           M == MaxBlocks
           r == GetReadableRegions(b, iovLen)
           lap == MaxCapacity * (T \div MaxCapacity)
           from == BlockIndex(T)
           to == BlockIndex(F - 1)
           to2 == IF Cell(T) <= Cell(F - 1) THEN to ELSE to + M
           first == InBlockOffset(T)
           rest == InBlockOffset(F - 1)
<1>1. CASE ~ HasBytesToRead(b)
  <2>1. r = <<>> /\ Len(r) = 0
    BY <1>1 DEF GetReadableRegions
  <2> HIDE DEF r
  <2>2. \A i \in 1 .. Len(r) : FALSE
    BY <2>1
  <2>3. \A i \in 1 .. (Len(r) - 1) : FALSE
    BY <2>1
  <2> QED
    BY <1>1, <2>1, <2>2, <2>3 DEF RegionsExact, r
<1> SUFFICES ASSUME HasBytesToRead(b) PROVE RegionsExact(b, iovLen)
  BY <1>1
<1>2. /\ from \in 0 .. (M - 1) /\ to \in 0 .. (M - 1) /\ from <= to2
      /\ first \in 0 .. (BlockCapacity(from) - 1) /\ rest \in 0 .. (BlockCapacity(to) - 1)
      /\ T = Unrolled(lap, from) + first /\ F - 1 = Unrolled(lap, to2) + rest
      /\ Cell(T) = Start(from) + first /\ Cell(F - 1) = Start(to) + rest
  BY ReadableSpan
<1>3. /\ MaxCapacity \in Nat \ {0} /\ M \in Nat \ {0} /\ T \in Nat
      /\ F \in (T + 1) .. (T + MaxCapacity) /\ T \div MaxCapacity \in Nat
  <2>1. MaxCapacity \in Nat \ {0} /\ MaxBlocks \in Nat \ {0} /\ T \in Nat
    BY BufferAssumption, BlocksTile DEF WellFormed, Buffer
  <2>2. F \in T .. (T + MaxCapacity)
    BY FirstMissingByteFacts
  <2>3. F - T > 0
    BY DEF HasBytesToRead, ReadableBytes
  <2>4. T \div MaxCapacity \in Nat
    BY <2>1, DivMod
  <2> HIDE DEF T, F
  <2> QED
    BY <2>1, <2>2, <2>3, <2>4
<1>4. \A k \in 0 .. (2 * M - 1) :
        /\ Wrapped(k) \in 0 .. (M - 1) /\ Unrolled(lap, k) \in Nat
        /\ Cell(Unrolled(lap, k)) = Start(Wrapped(k))
        /\ Start(Wrapped(k)) + BlockCapacity(Wrapped(k)) <= MaxCapacity
        /\ BlockCapacity(Wrapped(k)) \in 1 .. BlockSize
        /\ k < 2 * M - 1 => Unrolled(lap, k + 1) = Unrolled(lap, k) + BlockCapacity(Wrapped(k))
        /\ \A j \in 0 .. k : Unrolled(lap, j) <= Unrolled(lap, k)
  BY <1>3, UnrolledFacts
<1>5. Cell(T) \in Nat /\ Cell(F - 1) \in Nat /\ Cell(T) < MaxCapacity /\ Cell(F - 1) < MaxCapacity
  BY <1>3, CellType DEF Cells
<1>6. Wrapped(from) = from /\ from \in 0 .. (2 * M - 1) /\ to2 \in 0 .. (2 * M - 1) /\ Wrapped(to2) = to
  BY <1>2, <1>3 DEF Wrapped
<1>7. BlockSize \in Nat \ {0} /\ (\A k \in 0 .. (M - 1) : Start(k) \in Nat /\ BlockCapacity(k) \in 1 .. BlockSize)
  BY BufferAssumption, BlocksTile
<1>8. CASE ReadableInOneBlock(b)
  <2>1. r = <<[cell |-> from * BlockSize + first, len |-> ReadableBytes(b)]>>
    BY <1>8 DEF GetReadableRegions
  <2>2. from = to /\ first <= rest
    BY <1>8 DEF ReadableInOneBlock
  <2>3. r[1].cell = Cell(T) /\ r[1].len = F - T /\ Len(r) = 1
    <3>1. from * BlockSize + first = Cell(T)
      BY <1>2 DEF Start
    <3> QED
      BY <2>1, <3>1 DEF ReadableBytes
  <2>4. Cell(T) + (F - T) <= MaxCapacity
    <3>1. to2 = from
      <4> HIDE DEF T, F, from, to, first, rest
      <4> QED
        BY <1>2, <1>7, <2>2
    <3>2. F - 1 - T = rest - first /\ first \in Nat /\ rest \in Nat
      <4> HIDE DEF T, F, from, to, first, rest, lap, to2
      <4> QED
        BY <1>2, <1>3, <1>4, <1>6, <1>7, <3>1
    <3>3. Cell(F - 1) = Cell(T) + rest - first
      <4> HIDE DEF T, F, from, to, first, rest, lap, to2
      <4> QED
        BY <1>2, <1>7, <2>2, <3>2
    <3> HIDE DEF T, F, from, to, first, rest, lap, to2
    <3> QED
      BY <1>3, <1>5, <3>2, <3>3
  <2> DEFINE S == [i \in 1 .. 1 |-> T]
             E == [i \in 1 .. 1 |-> F]
  <2>5. 1 \in 1 .. iovLen /\ \A i \in 1 .. 1 : i = 1
    OBVIOUS
  <2>6. \A i \in 1 .. 1 : /\ S[i] \in T .. F /\ E[i] \in (S[i] + 1) .. F
                          /\ r[i].cell = Cell(S[i]) /\ r[i].len = E[i] - S[i]
                          /\ r[i].cell + r[i].len <= MaxCapacity
    <3>1. T \in T .. F /\ F \in (T + 1) .. F
      <4> HIDE DEF T, F
      <4> QED
        BY <1>3
    <3> HIDE DEF T, F, r
    <3> QED
      BY <2>3, <2>4, <2>5, <3>1
  <2>7. /\ S[1] = T /\ (\A i \in 1 .. (1 - 1) : S[i + 1] = E[i])
        /\ (1 < iovLen \/ iovLen > M => E[1] = F)
    OBVIOUS
  <2> HIDE DEF S, E
  <2>8. Stretches(b, iovLen, 1, S, E)
    BY <2>3, <2>5, <2>6, <2>7 DEF Stretches
  <2> QED
    BY <2>8, StretchesExact
<1>9. CASE ~ ReadableInOneBlock(b)
  <2> DEFINE between == (to - from - 1) % M
             n == Min({iovLen, between + 2})
             blockAt(i) == (from + i) % M
             S == [i \in 1 .. (between + 2) |-> IF i = 1 THEN T ELSE Unrolled(lap, from + i - 1)]
             E == [i \in 1 .. (between + 2) |->
                     IF i = between + 2 THEN F ELSE Unrolled(lap, from + i)]
  <2>1. to2 > from /\ between = to2 - from - 1
    <3>1. from = to => Cell(T) > Cell(F - 1)
      <4>1. from = to => ~ (first <= rest)
        BY <1>9 DEF ReadableInOneBlock
      <4> HIDE DEF T, F, from, to, first, rest, lap, to2
      <4> QED
        BY <1>2, <1>7, <4>1
    <3>2. to2 > from
      <4>1. CASE Cell(T) <= Cell(F - 1)
        <5>1. to2 = to
          BY <4>1
        <5> HIDE DEF T, F, from, to, first, rest, lap, to2
        <5> QED
          BY <1>2, <1>5, <3>1, <4>1, <5>1
      <4>2. CASE ~ (Cell(T) <= Cell(F - 1))
        <5>1. to2 = to + M
          BY <4>2
        <5> HIDE DEF T, F, from, to, first, rest, lap, to2
        <5> QED
          BY <1>2, <1>3, <5>1
      <4> QED
        BY <4>1, <4>2
    <3>3. to - from - 1 \in (- M) .. (2 * M - 1)
      <4> HIDE DEF T, F, from, to, first, rest, lap, to2
      <4> QED
        BY <1>2, <1>3
    <3>4. between = IF to - from - 1 < 0 THEN to - from - 1 + M ELSE to - from - 1
      <4>1. to - from - 1 < M
        <5> HIDE DEF T, F, from, to, first, rest, lap, to2
        <5> QED
          BY <1>2, <1>3
      <4> QED
        BY <1>3, <3>3, <4>1, ModOnce
    <3>5. Cell(T) > Cell(F - 1) => to <= from
      BY <1>3, <1>5, DivMonotone, BufferAssumption DEF BlockIndex, BlockOfCell
    <3>6. to2 = to \/ (to2 = to + M /\ Cell(T) > Cell(F - 1))
      BY <1>5
    <3> HIDE DEF T, F, from, to, first, rest, lap, to2, between
    <3> QED
      BY <1>2, <1>3, <3>2, <3>4, <3>5, <3>6
  <2>2. between \in 0 .. (M - 1) /\ to2 = from + between + 1
    <3>1. to2 - from - 1 < M
      <4>1. to - from - 1 \in Int
        BY <1>2
      <4>2. between \in 0 .. (M - 1)
        BY <1>3, <4>1
      <4> QED
        BY <1>3, <2>1, <4>2
    <3> HIDE DEF T, F, from, to, first, rest, lap, to2, between
    <3> QED
      BY <1>2, <1>3, <1>6, <2>1, <3>1
  <2>3. n \in 1 .. iovLen /\ n <= between + 2 /\ (n < iovLen \/ iovLen > M => n = between + 2)
    <3>1. n \in {iovLen, between + 2} /\ n <= iovLen /\ n <= between + 2
      <4> HIDE DEF between
      <4>1. {iovLen, between + 2} \subseteq Nat /\ {iovLen, between + 2} # {}
        BY <2>2
      <4> QED
        BY <4>1, MinNatural
    <3> HIDE DEF between, n
    <3> QED
      BY <1>3, <2>2, <3>1
  <2>4. Len(r) = n
        /\ \A i \in 1 .. n : r[i] =
             CASE i = 1 -> [cell |-> from * BlockSize + first, len |-> BlockCapacity(from) - first]
               [] i \in 2 .. (between + 1) ->
                    [cell |-> blockAt(i - 1) * BlockSize, len |-> BlockCapacity(blockAt(i - 1))]
               [] OTHER -> [cell |-> to * BlockSize, len |-> rest + 1]
    <3>1. r = [i \in 1 .. n |->
             CASE i = 1 -> [cell |-> from * BlockSize + first, len |-> BlockCapacity(from) - first]
               [] i \in 2 .. (between + 1) ->
                    [cell |-> blockAt(i - 1) * BlockSize, len |-> BlockCapacity(blockAt(i - 1))]
               [] OTHER -> [cell |-> to * BlockSize, len |-> rest + 1]]
      BY <1>9 DEF GetReadableRegions
    <3> HIDE DEF r, n, T, F, from, to, first, rest, between, blockAt
    <3> QED
      BY <2>3, <3>1
  <2>5. ASSUME NEW i \in 1 .. (between + 2)
        PROVE  /\ S[i] \in T .. F /\ E[i] \in (S[i] + 1) .. F
               /\ i \in 1 .. n => /\ r[i].cell = Cell(S[i]) /\ r[i].len = E[i] - S[i]
                                  /\ r[i].cell + r[i].len <= MaxCapacity
    <3> DEFINE k == from + i - 1
    <3>1. /\ k \in 0 .. (2 * M - 1) /\ to2 \in 0 .. (2 * M - 1) /\ from + i = k + 1
          /\ i < between + 2 => k < to2 /\ k < 2 * M - 1 /\ k + 1 \in 0 .. to2
          /\ i = between + 2 => k = to2
          /\ i = 1 => k = from
          /\ i > 1 => from + 1 \in 0 .. k
          /\ i \in Int
      <4> HIDE DEF T, F, from, to, first, rest, lap, to2, between
      <4> QED
        BY <1>2, <1>3, <1>6, <2>2
    <3>2. Unrolled(lap, k) \in Nat /\ Unrolled(lap, to2) \in Nat /\ Unrolled(lap, from) \in Nat
      BY <1>4, <1>6, <3>1
    <3>3. i < between + 2 => /\ Unrolled(lap, k + 1) = Unrolled(lap, k) + BlockCapacity(Wrapped(k))
                             /\ Unrolled(lap, k + 1) <= Unrolled(lap, to2)
      <4> HIDE DEF T, F, from, to, first, rest, lap, to2, between, k
      <4> QED
        BY <1>4, <3>1
    <3>4. i > 1 => Unrolled(lap, k) >= T + 1
      <4>1. from < 2 * M - 1 /\ from \in 0 .. (2 * M - 1)
        <5> HIDE DEF T, F, from, to, first, rest, lap, to2, between, k
        <5> QED
          BY <1>2, <1>3
      <4>2. Unrolled(lap, from + 1) = Unrolled(lap, from) + BlockCapacity(from)
        BY <1>4, <1>6, <4>1
      <4>3. i > 1 => Unrolled(lap, from + 1) <= Unrolled(lap, k)
        BY <1>4, <3>1
      <4>4. BlockCapacity(from) \in Nat
        BY <1>2, <1>7
      <4> HIDE DEF T, F, from, to, first, rest, lap, to2, between, k
      <4> QED
        BY <1>2, <3>2, <4>2, <4>3, <4>4
    <3>5. i \in 2 .. (between + 1) => blockAt(i - 1) = Wrapped(k)
      <4>1. from + (i - 1) = k
        <5> HIDE DEF from
        <5> QED
          BY <1>2
      <4>2. k % M = Wrapped(k)
        <5>1. k % M = IF k < 0 THEN k + M ELSE IF k < M THEN k ELSE k - M
          <6>1. k \in (- M) .. (2 * M - 1)
            <7> HIDE DEF M, k
            <7> QED
              BY <1>3, <3>1
          <6> HIDE DEF k, M
          <6> QED
            BY <1>3, <6>1, ModOnce
        <5> QED
          BY <3>1, <5>1 DEF Wrapped
      <4> QED
        BY <4>1, <4>2
    <3>6. S[i] = (IF i = 1 THEN T ELSE Unrolled(lap, k)) /\ E[i] = (IF i = between + 2 THEN F ELSE Unrolled(lap, k + 1))
      <4>1. E[i] = IF i = between + 2 THEN F ELSE Unrolled(lap, from + i)
        OBVIOUS
      <4> QED
        BY <3>1, <4>1
    <3>7. /\ Cell(Unrolled(lap, k)) = Start(Wrapped(k))
          /\ Start(Wrapped(k)) + BlockCapacity(Wrapped(k)) <= MaxCapacity
          /\ BlockCapacity(Wrapped(k)) \in 1 .. BlockSize /\ Start(Wrapped(k)) \in Nat
      BY <1>4, <1>7, <3>1
    <3>8. /\ Cell(T) = Start(from) + first /\ Wrapped(from) = from /\ Wrapped(to2) = to
          /\ first \in Nat /\ rest \in Nat /\ first < BlockCapacity(from) /\ rest < BlockCapacity(to)
          /\ T = Unrolled(lap, from) + first /\ F - 1 = Unrolled(lap, to2) + rest
          /\ T \in Nat /\ F \in Nat
      <4>1. BlockCapacity(from) \in Nat /\ BlockCapacity(to) \in Nat
        BY <1>2, <1>7
      <4> HIDE DEF T, F, from, to, first, rest, lap, to2
      <4> QED
        BY <1>2, <1>3, <1>6, <4>1
    <3> DEFINE u == Unrolled(lap, k)
               z == Unrolled(lap, to2)
               s == Start(Wrapped(k))
               c == BlockCapacity(Wrapped(k))
    <3>9. u \in Nat /\ z \in Nat /\ s \in Nat /\ c \in Nat \ {0} /\ s + c <= MaxCapacity /\ Cell(u) = s
          /\ F - 1 = z + rest /\ F \in Nat /\ T \in Nat /\ first \in Nat /\ rest \in Nat
      BY <1>7, <3>2, <3>7, <3>8
    <3>10. CASE i = 1
      <4>1. i < between + 2 /\ k = from
        BY <2>2, <3>1, <3>10
      <4>2. S[i] = T /\ E[i] = u + c /\ T = u + first /\ u + c <= z
        BY <3>3, <3>6, <3>8, <3>10, <4>1
      <4>3. first < c /\ Cell(T) = s + first
        BY <3>8, <4>1
      <4>4. i \in 1 .. n => r[i].cell = s + first /\ r[i].len = c - first
        BY <2>4, <3>8, <3>10, <4>1 DEF Start
      <4> HIDE DEF T, F, from, to, first, rest, lap, to2, between, k, u, z, s, c, S, E, r, n
      <4> QED
        BY <3>9, <4>2, <4>3, <4>4
    <3>11. CASE i \in 2 .. (between + 1)
      <4>1. i < between + 2 /\ i > 1
        BY <2>2, <3>1, <3>11
      <4>2. S[i] = u /\ E[i] = u + c /\ u + c <= z /\ u > T
        BY <3>3, <3>4, <3>6, <3>8, <3>9, <4>1
      <4>3. i \in 1 .. n => r[i].cell = s /\ r[i].len = c
        BY <2>4, <3>5, <3>11, <4>1 DEF Start
      <4> HIDE DEF T, F, from, to, first, rest, lap, to2, between, k, u, z, s, c, S, E, r, n
      <4> QED
        BY <3>9, <4>2, <4>3
    <3>12. CASE i = between + 2
      <4>1. i > 1 /\ k = to2 /\ ~ (i \in 2 .. (between + 1))
        BY <2>2, <3>1, <3>12
      <4>2. S[i] = u /\ E[i] = F /\ u = z /\ u > T /\ rest < c
        BY <3>4, <3>6, <3>8, <3>9, <3>12, <4>1
      <4>3. i \in 1 .. n => r[i].cell = s /\ r[i].len = rest + 1
        BY <2>4, <3>8, <4>1 DEF Start
      <4> HIDE DEF T, F, from, to, first, rest, lap, to2, between, k, u, z, s, c, S, E, r, n
      <4>4. F = u + rest + 1 /\ s + rest + 1 <= MaxCapacity
        BY <1>3, <3>9, <4>2
      <4> QED
        BY <3>9, <4>2, <4>3, <4>4
    <3> QED
      BY <2>2, <3>10, <3>11, <3>12
  <2>6. S[1] = T /\ \A i \in 1 .. (n - 1) : S[i + 1] = E[i]
    <3>1. 1 \in 1 .. (between + 2) /\ \A i \in 1 .. (n - 1) :
            /\ i \in 1 .. (between + 2) /\ i + 1 \in 1 .. (between + 2)
            /\ i # between + 2 /\ i + 1 # 1 /\ from + (i + 1) - 1 = from + i
      <4> HIDE DEF between, n, from
      <4> QED
        BY <1>2, <2>2, <2>3
    <3> QED
      BY <3>1
  <2>7. n < iovLen \/ iovLen > M => E[n] = F
    <3>1. n = between + 2 => E[n] = F
      <4> HIDE DEF F, n
      <4>1. between + 2 \in 1 .. (between + 2)
        BY <2>2
      <4> QED
        BY <4>1
    <3> QED
      BY <2>3, <3>1
  <2>8. \A i \in 1 .. n : /\ S[i] \in T .. F /\ E[i] \in (S[i] + 1) .. F
                          /\ r[i].cell = Cell(S[i]) /\ r[i].len = E[i] - S[i]
                          /\ r[i].cell + r[i].len <= MaxCapacity
    <3> TAKE i \in 1 .. n
    <3>1. i \in 1 .. (between + 2)
      <4> HIDE DEF between, n
      <4> QED
        BY <2>2, <2>3
    <3> QED
      BY <2>5, <3>1
  <2>9. Len(r) = n
    BY <2>4
  <2> HIDE DEF S, E, n, between, from, to, to2, lap, first, rest, blockAt
  <2>10. Stretches(b, iovLen, n, S, E)
    BY <2>3, <2>6, <2>7, <2>8, <2>9 DEF Stretches
  <2> QED
    BY <2>10, StretchesExact
<1> QED
  BY <1>8, <1>9

\* A zero-copy reader is given exactly the readable bytes, in order, for every geometry
\* of the ring, whether or not they wrap around it or pass a short trailing block.
THEOREM ReadableRegionsAlwaysExact == BufSpec => []ReadableRegionsExact
<1>1. BufInv => ReadableRegionsExact
  BY ReadableRegionsOfBuffer DEF BufInv, ReadableRegionsExact
<1> QED
  BY <1>1, BufInvAlways, PTL

-------------------------------------------------------------------------------
(***************************************************************************)
(* The stream above the sequencer misses nothing, for every geometry of    *)
(* the ring, window and sequence of frames: until the interval limit is    *)
(* hit it is handed whatever is readable, and it is always told of its     *)
(* end.  The stream is told on an edge, so what it does then matters: that *)
(* Readv fills all that was asked for needs that the blocks of all unread  *)
(* bytes exist.  That the read position stays below the highest offset     *)
(* needs that all received bytes do.                                       *)
(*                                                                         *)
(* Then the buffer, and the sequencer on top of it, implement the in-order *)
(* stream.  A step of the in-order stream is a relation between two        *)
(* contexts, of which only buf, accepted and delivered matter.  A handler  *)
(* goes through several contexts; each is related to the one it began with.*)
(***************************************************************************)

Callbacks == {"OnDataAvailable", "OnFinRead", "OnUnrecoverableError"}
Endings == {"OnDataAvailable", "OnFinRead"}
Histories == UNION {[S -> Bytes] : S \in SUBSET Nat}

Contexts ==
  [ buf : Buffer, accepted : Histories, delivered : Seq(Bytes \cup {NoByte}),
    limitHit : BOOLEAN, highestOffset : Nat, closeOffset : Nat \cup {NoOffset},
    blocked : BOOLEAN, ignoreReadData : BOOLEAN, calls : SUBSET Callbacks, aborted : BOOLEAN ]

\* The blocks of unread bytes exist.
Backed(b) == \A o \in Unread(b) : BlockIndex(o) \in b.blocks

\* At every point inside a handler.
Sound(c) ==
  /\ c \in Contexts /\ WellFormed(c.buf)
  /\ c.buf.received \subseteq 0 .. (c.highestOffset - 1)
  /\ c.closeOffset # NoOffset => c.highestOffset <= c.closeOffset
  /\ ~ c.limitHit => Backed(c.buf)

\* Between handlers.
Quiet(c) == ~ c.blocked /\ ~ c.limitHit => ~ HasBytesToRead(c.buf)

Over(c) == IsClosed(c) /\ ~ c.blocked

\* From c to d, if the stream comes to its end it is told so.
Told(c, d) ==
  /\ c.calls \subseteq d.calls
  /\ Over(d) /\ ~ Over(c) => d.calls \cap Endings # {}

LEMMA ToldThen ==
  ASSUME NEW c, NEW d, NEW e, Told(c, d), Told(d, e)
  PROVE  Told(c, e)
  BY DEF Told

-------------------------------------------------------------------------------
(* Histories. *)

LEMMA HistoriesHave ==
  ASSUME NEW f \in Histories
  PROVE  DOMAIN f \in SUBSET Nat /\ f \in [DOMAIN f -> Bytes]
  BY DEF Histories

LEMMA HistoriesGet ==
  ASSUME NEW S \in SUBSET Nat, NEW f \in [S -> Bytes]
  PROVE  f \in Histories
  BY DEF Histories

LEMMA KeepType ==
  ASSUME NEW f \in Histories, NEW S
  PROVE  Keep(f, S) \in Histories
<1>1. DOMAIN f \cap S \in SUBSET Nat /\ Keep(f, S) \in [DOMAIN f \cap S -> Bytes]
  BY HistoriesHave DEF Keep
<1>. QED  BY <1>1, HistoriesGet

LEMMA ExtendedType ==
  ASSUME NEW f \in Histories, NEW g \in Histories
  PROVE  Extended(f, g) \in Histories
<1>1. /\ DOMAIN f \cup DOMAIN g \in SUBSET Nat
      /\ Extended(f, g) \in [DOMAIN f \cup DOMAIN g -> Bytes]
  BY HistoriesHave DEF Extended
<1>. QED  BY <1>1, HistoriesGet

-------------------------------------------------------------------------------
(* The buffer. *)

LEMMA ReadableType ==
  ASSUME NEW b, WellFormed(b)
  PROVE  /\ ReadableBytes(b) \in Nat /\ b.totalRead \in Nat
         /\ b.totalRead .. (b.totalRead + ReadableBytes(b) - 1) \subseteq Unread(b)
<1>1. /\ FirstMissingByte(b) \in b.totalRead .. (b.totalRead + MaxCapacity)
      /\ 0 .. (FirstMissingByte(b) - 1) \subseteq b.received
      /\ b.totalRead \in Nat /\ MaxCapacity \in Nat
  BY FirstMissingByteFacts, BufferAssumption DEF WellFormed, Buffer
<1>. QED  BY <1>1 DEF ReadableBytes, Unread

\* Readv fills the space of all readable bytes.
LEMMA ReadsAll ==
  ASSUME NEW b, WellFormed(b), Backed(b)
  PROVE  /\ Readv(b, ReadableBytes(b)).buf = Consume(b, ReadableBytes(b))
         /\ Readv(b, ReadableBytes(b)).data = BytesAt(b, b.totalRead, ReadableBytes(b))
         /\ Readv(b, ReadableBytes(b)).failed = FALSE
<1>. DEFINE n == ReadableBytes(b)
            wanted == Min({n, n})
            K == {k \in 0 .. n : \A o \in b.totalRead .. (b.totalRead + k - 1) : BlockIndex(o) \in b.blocks}
<1>1. n \in Nat /\ b.totalRead \in Nat /\ b.totalRead .. (b.totalRead + n - 1) \subseteq Unread(b)
  BY ReadableType
<1>2. wanted = n
  <2>. HIDE DEF n
  <2>1. {n, n} \subseteq Nat /\ {n, n} # {}
    BY <1>1
  <2>2. Min({n, n}) \in {n, n}
    BY <2>1, MinNatural
  <2>. QED  BY <2>2
<1>3. n \in K
  BY <1>1 DEF Backed
<1>. HIDE DEF n, wanted
<1>4. Max(K) = n
  <2>1. K \subseteq 0 .. n /\ K # {}
    BY <1>3
  <2>. HIDE DEF K
  <2>2. Max(K) \in K /\ \A x \in K : x <= Max(K)
    BY <1>1, <2>1, MaxNatural
  <2>3. Max(K) \in 0 .. n /\ n <= Max(K)
    BY <1>3, <2>1, <2>2 DEF K
  <2>. QED  BY <1>1, <2>3
<1>5. Readv(b, n) = [buf |-> Consume(b, Max(K)), data |-> BytesAt(b, b.totalRead, Max(K)),
                     failed |-> Max(K) < n]
  BY <1>2 DEF Readv, n, wanted
<1>6. /\ Readv(b, n).buf = Consume(b, n) /\ Readv(b, n).failed = (n < n)
      /\ Readv(b, n).data = BytesAt(b, b.totalRead, n)
  BY <1>4, <1>5
<1>7. (n < n) = FALSE
  BY <1>1
<1>. QED  BY <1>6, <1>7 DEF n

LEMMA ConsumeBacked ==
  ASSUME NEW b, WellFormed(b), Backed(b), NEW n \in 0 .. ReadableBytes(b)
  PROVE  Backed(Consume(b, n))
<1>1. ASSUME NEW o \in Unread(Consume(b, n))  PROVE BlockIndex(o) \in Consume(b, n).blocks
  <2>1. o \in Unread(b)
    BY ConsumeUnread
  <2>2. Holds(b, o, b.memory[Cell(o)])
    BY <2>1 DEF Backed, Holds
  <2>. QED  BY <2>2, ConsumeKeeps DEF Holds
<1>. QED  BY <1>1 DEF Backed

LEMMA ConsumeReadable ==
  ASSUME NEW b, WellFormed(b), NEW n \in 0 .. ReadableBytes(b)
  PROVE  ReadableBytes(Consume(b, n)) = ReadableBytes(b) - n
<1>1. Consume(b, n).totalRead = b.totalRead + n /\ Consume(b, n).received = b.received
  BY ConsumeUnread
<1>2. FirstMissingByte(Consume(b, n)) = FirstMissingByte(b)
  BY <1>1 DEF FirstMissingByte
<1>3. FirstMissingByte(b) \in b.totalRead .. (b.totalRead + MaxCapacity) /\ b.totalRead \in Nat
  BY FirstMissingByteFacts DEF WellFormed, Buffer
<1>. QED  BY <1>1, <1>2, <1>3, BufferAssumption DEF ReadableBytes

\* After Clear nothing is unread.
LEMMA ClearedIsQuiet ==
  ASSUME NEW b, WellFormed(b), b.received = 0 .. (b.totalRead - 1)
  PROVE  Backed(b) /\ ~ HasBytesToRead(b)
<1>1. /\ FirstMissingByte(b) \in b.totalRead .. (b.totalRead + MaxCapacity)
      /\ 0 .. (FirstMissingByte(b) - 1) \subseteq b.received
      /\ b.totalRead \in Nat /\ MaxCapacity \in Nat
  BY FirstMissingByteFacts, BufferAssumption DEF WellFormed, Buffer
<1>2. FirstMissingByte(b) = b.totalRead
  <2>1. SUFFICES ASSUME FirstMissingByte(b) > b.totalRead  PROVE FALSE
    BY <1>1
  <2>2. b.totalRead \in 0 .. (FirstMissingByte(b) - 1)
    BY <1>1, <2>1
  <2>. QED  BY <1>1, <2>2
<1>3. Unread(b) = {}
  BY <1>1 DEF Unread
<1>. QED  BY <1>1, <1>2, <1>3 DEF Backed, HasBytesToRead, ReadableBytes

LEMMA OnStreamDataReceived ==
  ASSUME NEW b, WellFormed(b), NEW offset \in Nat, NEW data \in Seq(Bytes)
  PROVE  LET r == OnStreamData(b, offset, data) IN
         /\ r.buf.received \subseteq b.received \cup (offset .. (offset + Len(data) - 1))
         /\ r.error \notin {"NO_ERROR", "TOO_MANY_STREAM_DATA_INTERVALS"} => r.buf = b
         /\ r.stored \subseteq offset .. (offset + Len(data) - 1)
         /\ r.error = "NO_ERROR" /\ r.stored = {} => r.buf = b
<1>. DEFINE r == OnStreamData(b, offset, data)
            frame == offset .. (offset + Len(data) - 1)
            new == NewlyReceived(b, frame)
            grown == [b EXCEPT !.received = @ \cup frame]
            copied == CopyStreamData(grown, new, offset, data)
<1>1. grown.received = b.received \cup frame /\ copied.received = b.received \cup frame
  BY DEF WellFormed, Buffer, CopyStreamData
<1>2. new \subseteq frame
  BY DEF NewlyReceived
<1>3. \/ r = [buf |-> b, error |-> "EMPTY_STREAM_FRAME_NO_FIN", stored |-> {}]
      \/ r = [buf |-> b, error |-> "INTERNAL_ERROR", stored |-> {}]
      \/ r = [buf |-> b, error |-> "NO_ERROR", stored |-> {}]
      \/ r = [buf |-> grown, error |-> "TOO_MANY_STREAM_DATA_INTERVALS", stored |-> {}]
      \/ r = [buf |-> copied, error |-> "NO_ERROR", stored |-> new] /\ new # {}
  BY DEF OnStreamData
<1>. HIDE DEF r, new, grown, copied, frame
<1>. QED  BY <1>1, <1>2, <1>3 DEF r, frame

LEMMA OnStreamDataBacked ==
  ASSUME NEW b, WellFormed(b), Backed(b), NEW offset \in Nat, NEW data \in Seq(Bytes),
         OnStreamData(b, offset, data).error # "TOO_MANY_STREAM_DATA_INTERVALS"
  PROVE  Backed(OnStreamData(b, offset, data).buf)
<1>. DEFINE r == OnStreamData(b, offset, data)
<1>1. ASSUME NEW o \in Unread(r.buf)  PROVE BlockIndex(o) \in r.buf.blocks
  <2>1. /\ o \in r.stored => Holds(r.buf, o, data[o - offset + 1])
        /\ o \notin r.stored => o \in Unread(b) /\ \A v : Holds(b, o, v) => Holds(r.buf, o, v)
    BY OnStreamDataStores
  <2>. HIDE DEF r
  <2>2. o \in Unread(b) => Holds(b, o, b.memory[Cell(o)])
    BY DEF Backed, Holds
  <2>3. \E v : Holds(r.buf, o, v)
    BY <2>1, <2>2
  <2>. QED  BY <2>3 DEF Holds
<1>. QED  BY <1>1 DEF Backed

-------------------------------------------------------------------------------
(* The parts of a handler. *)

\* Neither a read nor a callback touches the rest of the context.
Same(c, d) ==
  /\ d.limitHit = c.limitHit /\ d.highestOffset = c.highestOffset
  /\ d.closeOffset = c.closeOffset /\ d.blocked = c.blocked
  /\ d.ignoreReadData = c.ignoreReadData

LEMMA CallSound ==
  ASSUME NEW c, Sound(c), NEW x \in Callbacks
  PROVE  LET d == [c EXCEPT !.calls = @ \cup {x}] IN
         /\ Sound(d) /\ Same(c, d)
         /\ d.buf = c.buf /\ d.calls = c.calls \cup {x}
<1>. DEFINE d == [c EXCEPT !.calls = @ \cup {x}]
<1>1. c \in Contexts
  BY DEF Sound
<1>2. d \in Contexts /\ d.buf = c.buf /\ d.calls = c.calls \cup {x}
  BY <1>1 DEF Contexts
<1>3. Same(c, d)
  BY <1>1 DEF Contexts, Same
<1>. QED  BY <1>2, <1>3 DEF Sound, Same

LEMMA ReadBufferSound ==
  ASSUME NEW c, Sound(c), NEW b, WellFormed(b), b.received \subseteq 0 .. (c.highestOffset - 1),
         ~ c.limitHit => Backed(b), NEW s \in Seq(Bytes \cup {NoByte})
  PROVE  LET d == [c EXCEPT !.buf = b, !.delivered = s] IN
         Sound(d) /\ Same(c, d) /\ d.buf = b /\ d.calls = c.calls
<1>. DEFINE d == [c EXCEPT !.buf = b, !.delivered = s]
<1>1. c \in Contexts /\ b \in Buffer
  BY DEF Sound, WellFormed
<1>2. d \in Contexts /\ d.buf = b /\ d.calls = c.calls
  BY <1>1 DEF Contexts
<1>3. Same(c, d)
  BY <1>1 DEF Contexts, Same
<1>4. Sound(d)
  BY <1>2, <1>3 DEF Sound, Same
<1>. QED  BY <1>2, <1>3, <1>4

LEMMA EmptiedBufferSound ==
  ASSUME NEW c, Sound(c), NEW b, WellFormed(b), b.received \subseteq 0 .. (c.highestOffset - 1),
         ~ c.limitHit => Backed(b), NEW f \in Histories
  PROVE  LET d == [c EXCEPT !.buf = b, !.accepted = f] IN
         Sound(d) /\ Same(c, d) /\ d.buf = b /\ d.calls = c.calls
<1>. DEFINE d == [c EXCEPT !.buf = b, !.accepted = f]
<1>1. c \in Contexts /\ b \in Buffer
  BY DEF Sound, WellFormed
<1>2. d \in Contexts /\ d.buf = b /\ d.calls = c.calls
  BY <1>1 DEF Contexts
<1>3. Same(c, d)
  BY <1>1 DEF Contexts, Same
<1>4. Sound(d)
  BY <1>2, <1>3 DEF Sound, Same
<1>. QED  BY <1>2, <1>3, <1>4

LEMMA ZerosType ==
  ASSUME NEW n
  PROVE  [i \in 1 .. n |-> NoByte] \in Seq(Bytes \cup {NoByte}) \/ n \notin Int
<1>1. CASE n \in Nat
  BY <1>1
<1>2. CASE n \in Int /\ n < 0
  <2>1. 1 .. n = 1 .. 0
    BY <1>2
  <2>2. [i \in 1 .. 0 |-> NoByte] \in Seq(Bytes \cup {NoByte})
    OBVIOUS
  <2>. QED  BY <2>1, <2>2
<1>. QED  BY <1>1, <1>2

LEMMA ReadSound ==
  ASSUME NEW c, Sound(c)
  PROVE  LET d == Read(c) IN
         /\ Sound(d) /\ Same(c, d) /\ c.calls \subseteq d.calls
         /\ ~ c.limitHit => ~ HasBytesToRead(d.buf)
<1>. DEFINE b == c.buf
            n == ReadableBytes(b)
            r == Readv(b, n)
            zeros == [i \in 1 .. (n - Len(r.data)) |-> NoByte]
            s == c.delivered \o r.data \o zeros
            read == [c EXCEPT !.buf = r.buf, !.delivered = s]
<1>1. /\ WellFormed(b) /\ c.delivered \in Seq(Bytes \cup {NoByte})
      /\ b.received \subseteq 0 .. (c.highestOffset - 1)
      /\ ~ c.limitHit => Backed(b)
  BY DEF Sound, Contexts
<1>2. n \in Nat
  BY <1>1, ReadableType
<1>3. Read(c) = IF r.failed THEN [read EXCEPT !.calls = @ \cup {"OnUnrecoverableError"}] ELSE read
  <2>1. c \in Contexts
    BY DEF Sound
  <2>2. read = [c EXCEPT !.buf = r.buf, !.delivered = @ \o r.data \o zeros]
    BY <2>1 DEF Contexts
  <2>. HIDE DEF read, r
  <2>. QED  BY <2>2 DEF Read, OnUnrecoverableError, r
<1>. HIDE DEF n
<1>4. PICK k \in 0 .. n : r.buf = Consume(b, k) /\ r.data = BytesAt(b, b.totalRead, k)
  BY <1>1, <1>2, ReadvConsumes DEF n
<1>5. s \in Seq(Bytes \cup {NoByte})
  <2>0. k \in Nat
    BY <1>2
  <2>1. r.data \in Seq(Bytes \cup {NoByte})
    BY <1>1, <1>4, <2>0, BytesAtType
  <2>2. Len(r.data) \in Int
    BY <2>1
  <2>3. zeros \in Seq(Bytes \cup {NoByte})
    BY <1>2, <2>2, ZerosType
  <2>. HIDE DEF zeros, r
  <2>. QED  BY <1>1, <2>1, <2>3
<1>6. /\ WellFormed(r.buf) /\ r.buf.received \subseteq 0 .. (c.highestOffset - 1)
      /\ ~ c.limitHit => Backed(r.buf)
  <2>. HIDE DEF r, b
  <2>1. k \in 0 .. ReadableBytes(b) /\ r.buf = Consume(b, k)
    BY <1>4 DEF n
  <2>2. WellFormed(Consume(b, k)) /\ Consume(b, k).received = b.received
    BY <1>1, <2>1, ConsumeWellFormed, ConsumeUnread
  <2>3. ~ c.limitHit => Backed(Consume(b, k))
    BY <1>1, <2>1, ConsumeBacked
  <2>. QED  BY <1>1, <2>1, <2>2, <2>3
<1>7. ~ c.limitHit => ~ HasBytesToRead(r.buf)
  <2>1. SUFFICES ASSUME ~ c.limitHit  PROVE ~ HasBytesToRead(r.buf)
    OBVIOUS
  <2>2. r.buf = Consume(b, n)
    <3>1. Backed(b) /\ WellFormed(b)
      BY <1>1, <2>1
    <3>. HIDE DEF b
    <3>. QED  BY <3>1, ReadsAll DEF n
  <2>3. n \in 0 .. n
    BY <1>2
  <2>4. ReadableBytes(Consume(b, n)) = n - n
    BY <1>1, <2>3, ConsumeReadable DEF n
  <2>. QED  BY <1>2, <2>2, <2>4 DEF HasBytesToRead
<1>8. Sound(read) /\ Same(c, read) /\ read.buf = r.buf /\ read.calls = c.calls
  <2>. HIDE DEF r, s
  <2>. QED  BY <1>5, <1>6, ReadBufferSound
<1>. HIDE DEF read, r
<1>9. "OnUnrecoverableError" \in Callbacks
  BY DEF Callbacks
<1>10. CASE r.failed
  BY <1>3, <1>7, <1>8, <1>9, <1>10, CallSound DEF Same
<1>11. CASE ~ r.failed
  BY <1>3, <1>7, <1>8, <1>11
<1>. QED  BY <1>10, <1>11

LEMMA OnDataAvailableSound ==
  ASSUME NEW c, Sound(c)
  PROVE  LET d == OnDataAvailable(c) IN
         /\ Sound(d) /\ Same(c, d) /\ c.calls \subseteq d.calls
         /\ "OnDataAvailable" \in d.calls
         /\ ~ c.limitHit => ~ HasBytesToRead(d.buf)
<1>. DEFINE e == [c EXCEPT !.calls = @ \cup {"OnDataAvailable"}]
<1>1. "OnDataAvailable" \in Callbacks
  BY DEF Callbacks
<1>2. Sound(e) /\ Same(c, e) /\ e.calls = c.calls \cup {"OnDataAvailable"}
  BY <1>1, CallSound
<1>. HIDE DEF e
<1>3. /\ Sound(Read(e)) /\ Same(e, Read(e)) /\ e.calls \subseteq Read(e).calls
      /\ ~ e.limitHit => ~ HasBytesToRead(Read(e).buf)
  BY <1>2, ReadSound
<1>4. OnDataAvailable(c) = Read(e)
  BY DEF OnDataAvailable, e
<1>. QED  BY <1>2, <1>3, <1>4 DEF Same

LEMMA ClearBufferSound ==
  ASSUME NEW c, Sound(c)
  PROVE  LET d == ClearBuffer(c) IN
         /\ Sound(d) /\ Same(c, d) /\ d.calls = c.calls
         /\ ~ HasBytesToRead(d.buf)
<1>. DEFINE b == Clear(c.buf)
            f == Keep(c.accepted, 0 .. (c.buf.totalRead - 1))
<1>1. /\ WellFormed(c.buf) /\ c.accepted \in Histories /\ c.buf.totalRead \in Nat
      /\ c.buf.received \subseteq 0 .. (c.highestOffset - 1)
      /\ 0 .. (c.buf.totalRead - 1) \subseteq c.buf.received
  BY DEF Sound, Contexts, WellFormed, Buffer
<1>2. WellFormed(b) /\ b.totalRead = c.buf.totalRead /\ b.received = 0 .. (c.buf.totalRead - 1)
  BY <1>1, ClearWellFormed
<1>3. f \in Histories
  BY <1>1, KeepType
<1>4. Backed(b) /\ ~ HasBytesToRead(b)
  BY <1>2, ClearedIsQuiet
<1>5. ClearBuffer(c) = [c EXCEPT !.buf = b, !.accepted = f]
  BY DEF ClearBuffer
<1>6. b.received \subseteq 0 .. (c.highestOffset - 1)
  BY <1>1, <1>2
<1>. HIDE DEF b, f
<1>7. WellFormed(b) /\ Backed(b)
  BY <1>2, <1>4
<1>8. LET d == [c EXCEPT !.buf = b, !.accepted = f] IN
      Sound(d) /\ Same(c, d) /\ d.buf = b /\ d.calls = c.calls
  BY <1>3, <1>6, <1>7, EmptiedBufferSound
<1>. QED  BY <1>4, <1>5, <1>8

LEMMA MaybeCloseStreamSound ==
  ASSUME NEW c, Sound(c)
  PROVE  LET d == MaybeCloseStream(c) IN
         /\ Sound(d) /\ Same(c, d) /\ c.calls \subseteq d.calls
         /\ Over(d) => d.calls \cap Endings # {}
         /\ ~ HasBytesToRead(c.buf) => ~ HasBytesToRead(d.buf)
<1>. DEFINE told == IF c.ignoreReadData THEN OnFinRead(c) ELSE OnDataAvailable(c)
<1>1. CASE c.blocked \/ ~ IsClosed(c)
  BY <1>1 DEF MaybeCloseStream, Over, Same
<1>2. CASE ~ (c.blocked \/ ~ IsClosed(c))
  <2>1. MaybeCloseStream(c) = ClearBuffer(told)
    BY <1>2 DEF MaybeCloseStream
  <2>2. "OnFinRead" \in Callbacks /\ "OnFinRead" \in Endings /\ "OnDataAvailable" \in Endings
    BY DEF Callbacks, Endings
  <2>3. Sound(told) /\ Same(c, told) /\ c.calls \subseteq told.calls /\ told.calls \cap Endings # {}
    <3>1. CASE c.ignoreReadData
      BY <2>2, <3>1, CallSound DEF OnFinRead
    <3>2. CASE ~ c.ignoreReadData
      BY <2>2, <3>2, OnDataAvailableSound
    <3>. QED  BY <3>1, <3>2
  <2>. HIDE DEF told
  <2>. QED  BY <2>1, <2>3, ClearBufferSound DEF Same
<1>. QED  BY <1>1, <1>2

LEMMA FlushSound ==
  ASSUME NEW c, Sound(c)
  PROVE  LET d == Flush(c) IN
         /\ Sound(d) /\ Same(c, d) /\ c.calls \subseteq d.calls
         /\ Over(d) => d.calls \cap Endings # {}
         /\ ~ HasBytesToRead(d.buf)
<1>. DEFINE b == FlushBufferedFrames(c.buf)
            f == Keep(c.accepted, 0 .. (NextExpectedByte(c.buf) - 1))
            flushed == [c EXCEPT !.buf = b, !.accepted = f]
<1>1. /\ WellFormed(c.buf) /\ c.accepted \in Histories /\ c.highestOffset \in Nat
      /\ c.buf.received \subseteq 0 .. (c.highestOffset - 1)
      /\ c.buf.totalRead \in Nat
  BY DEF Sound, Contexts, WellFormed, Buffer
<1>2. /\ WellFormed(b) /\ b.totalRead = NextExpectedByte(c.buf)
      /\ b.received = 0 .. (NextExpectedByte(c.buf) - 1)
  BY <1>1, FlushWellFormed
<1>3. f \in Histories
  BY <1>1, KeepType
<1>4. Backed(b) /\ ~ HasBytesToRead(b)
  BY <1>2, ClearedIsQuiet
<1>5. b.received \subseteq 0 .. (c.highestOffset - 1)
  <2>1. CASE c.buf.received = {}
    <3>1. NextExpectedByte(c.buf) = 0
      BY <2>1 DEF NextExpectedByte
    <3>. QED  BY <1>2, <3>1
  <2>2. CASE c.buf.received # {}
    <3>1. NextExpectedByte(c.buf) - 1 \in 0 .. (c.highestOffset - 1)
      BY <1>1, <2>2, NextExpectedByteFacts
    <3>2. NextExpectedByte(c.buf) \in Int
      BY <1>1, NextExpectedByteFacts, BufferAssumption
    <3>. HIDE DEF b
    <3>. QED  BY <1>1, <1>2, <3>1, <3>2
  <2>. QED  BY <2>1, <2>2
<1>6. Flush(c) = MaybeCloseStream(flushed)
  BY DEF Flush
<1>. HIDE DEF b, f
<1>7. Sound(flushed) /\ Same(c, flushed) /\ flushed.buf = b /\ flushed.calls = c.calls
  <2>1. WellFormed(b) /\ Backed(b)
    BY <1>2, <1>4
  <2>. QED  BY <1>3, <1>5, <2>1, EmptiedBufferSound
<1>. HIDE DEF flushed
<1>. QED  BY <1>4, <1>6, <1>7, MaybeCloseStreamSound DEF Same

LEMMA MaxOfTwo ==
  ASSUME NEW m \in Nat, NEW n \in Nat
  PROVE  /\ Max({m, n}) \in {m, n}
         /\ m <= Max({m, n}) /\ n <= Max({m, n})
<1>1. PICK top \in Nat : {m, n} \subseteq 0 .. top
  <2>1. CASE m <= n
    BY <2>1
  <2>2. CASE n < m
    BY <2>2
  <2>. QED  BY <2>1, <2>2
<1>. QED  BY <1>1, MaxNatural

\* Storing a frame: the stream may have become readable and nothing else happened.
LEMMA StoredSound ==
  ASSUME NEW c, Sound(c), NEW offset \in Nat, NEW data \in Seq(Bytes),
         c.closeOffset # NoOffset => offset + Len(data) <= c.closeOffset
  PROVE  LET r == OnStreamData(c.buf, offset, data)
             d == [c EXCEPT !.highestOffset = Max({@, offset + Len(data)}),
                            !.buf = r.buf,
                            !.accepted = Extended(@, [o \in r.stored |-> data[o - offset + 1]]),
                            !.limitHit = @ \/ r.error = "TOO_MANY_STREAM_DATA_INTERVALS"] IN
         /\ Sound(d) /\ d.buf = r.buf /\ d.calls = c.calls
         /\ d.blocked = c.blocked /\ d.closeOffset = c.closeOffset
         /\ d.ignoreReadData = c.ignoreReadData
         /\ d.limitHit <=> c.limitHit \/ r.error = "TOO_MANY_STREAM_DATA_INTERVALS"
         /\ d.buf.totalRead = c.buf.totalRead
<1>. DEFINE r == OnStreamData(c.buf, offset, data)
            end == offset + Len(data)
            h == Max({c.highestOffset, end})
            g == [o \in r.stored |-> data[o - offset + 1]]
            f == Extended(c.accepted, g)
            hit == c.limitHit \/ r.error = "TOO_MANY_STREAM_DATA_INTERVALS"
            d == [c EXCEPT !.highestOffset = h, !.buf = r.buf, !.accepted = f, !.limitHit = hit]
<1>1. /\ c \in Contexts /\ WellFormed(c.buf) /\ c.accepted \in Histories /\ c.highestOffset \in Nat
      /\ c.buf.received \subseteq 0 .. (c.highestOffset - 1)
      /\ c.closeOffset \in Nat \cup {NoOffset}
      /\ c.closeOffset # NoOffset => c.highestOffset <= c.closeOffset
      /\ ~ c.limitHit => Backed(c.buf)
  BY DEF Sound, Contexts
<1>2. end \in Nat
  OBVIOUS
<1>3. h \in {c.highestOffset, end} /\ h \in Nat /\ c.highestOffset <= h /\ end <= h
  BY <1>1, <1>2, MaxOfTwo
<1>4. /\ WellFormed(r.buf) /\ r.buf.totalRead = c.buf.totalRead
      /\ r.buf.received \subseteq c.buf.received \cup (offset .. (end - 1))
      /\ r.stored \subseteq offset .. (end - 1)
  <2>1. WellFormed(r.buf) /\ r.buf.totalRead = c.buf.totalRead
    BY <1>1, OnStreamDataWellFormed
  <2>2. /\ r.buf.received \subseteq c.buf.received \cup (offset .. (end - 1))
        /\ r.stored \subseteq offset .. (end - 1)
    BY <1>1, OnStreamDataReceived
  <2>. QED  BY <2>1, <2>2
<1>5. f \in Histories
  <2>1. \A o \in r.stored : data[o - offset + 1] \in Bytes
    <3>. HIDE DEF r
    <3>. QED  BY <1>4
  <2>2. r.stored \in SUBSET Nat /\ g \in [r.stored -> Bytes]
    <3>. HIDE DEF r
    <3>. QED  BY <1>4, <2>1
  <2>. HIDE DEF g, r
  <2>. QED  BY <1>1, <2>2, HistoriesGet, ExtendedType
<1>6. r.buf.received \subseteq 0 .. (h - 1)
  <2>. HIDE DEF r, end, h
  <2>. QED  BY <1>1, <1>2, <1>3, <1>4
<1>7. c.closeOffset # NoOffset => h <= c.closeOffset
  BY <1>1, <1>3
<1>8. ~ hit => Backed(r.buf)
  BY <1>1, OnStreamDataBacked
<1>9. hit \in BOOLEAN
  OBVIOUS
<1>10. d = [c EXCEPT !.highestOffset = Max({@, end}), !.buf = r.buf,
                     !.accepted = Extended(@, g),
                     !.limitHit = @ \/ r.error = "TOO_MANY_STREAM_DATA_INTERVALS"]
  BY <1>1 DEF Contexts
<1>. HIDE DEF r, h, f, hit
<1>11. /\ d \in Contexts /\ d.buf = r.buf /\ d.calls = c.calls
       /\ d.blocked = c.blocked /\ d.closeOffset = c.closeOffset
       /\ d.ignoreReadData = c.ignoreReadData
       /\ d.limitHit = hit /\ d.highestOffset = h
  <2>1. r.buf \in Buffer
    BY <1>4 DEF WellFormed
  <2>. QED  BY <1>1, <1>3, <1>5, <1>9, <2>1 DEF Contexts
<1>. HIDE DEF d
<1>12. Sound(d)
  BY <1>4, <1>6, <1>7, <1>8, <1>11 DEF Sound
<1>. QED  BY <1>4, <1>10, <1>11, <1>12 DEF r, hit

LEMMA OnFrameDataSafe ==
  ASSUME NEW c, Sound(c), Quiet(c), NEW offset \in Nat, NEW data \in Seq(Bytes),
         c.closeOffset # NoOffset => offset + Len(data) <= c.closeOffset
  PROVE  LET d == OnFrameData(c, offset, data) IN
         Sound(d) /\ Quiet(d) /\ Told(c, d)
<1>. DEFINE r == OnStreamData(c.buf, offset, data)
            stored == [c EXCEPT !.highestOffset = Max({@, offset + Len(data)}),
                                !.buf = r.buf,
                                !.accepted = Extended(@, [o \in r.stored |-> data[o - offset + 1]]),
                                !.limitHit = @ \/ r.error = "TOO_MANY_STREAM_DATA_INTERVALS"]
            d == OnFrameData(c, offset, data)
<1>1. d = IF r.error # "NO_ERROR" THEN OnUnrecoverableError(stored)
          ELSE IF \/ r.stored = {} \/ c.blocked
                  \/ ~ (~ HasBytesToRead(c.buf) /\ HasBytesToRead(r.buf))
          THEN stored
          ELSE IF c.ignoreReadData THEN Flush(stored) ELSE OnDataAvailable(stored)
  BY DEF OnFrameData
<1>2. WellFormed(c.buf)
  BY DEF Sound
<1>3. /\ Sound(stored) /\ stored.buf = r.buf /\ stored.calls = c.calls
      /\ stored.blocked = c.blocked /\ stored.closeOffset = c.closeOffset
      /\ stored.ignoreReadData = c.ignoreReadData
      /\ stored.limitHit <=> c.limitHit \/ r.error = "TOO_MANY_STREAM_DATA_INTERVALS"
      /\ stored.buf.totalRead = c.buf.totalRead
  BY StoredSound
<1>4. r.error \notin {"NO_ERROR", "TOO_MANY_STREAM_DATA_INTERVALS"} => r.buf = c.buf
  BY <1>2, OnStreamDataReceived
<1>5. r.error = "NO_ERROR" /\ r.stored = {} => r.buf = c.buf
  BY <1>2, OnStreamDataReceived
<1>. HIDE DEF stored, r, d
<1>6. Over(stored) <=> Over(c)
  BY <1>3 DEF Over, IsClosed
<1>7. CASE r.error # "NO_ERROR"
  <2>1. "OnUnrecoverableError" \in Callbacks
    BY DEF Callbacks
  <2>2. d = [stored EXCEPT !.calls = @ \cup {"OnUnrecoverableError"}]
    BY <1>1, <1>7 DEF OnUnrecoverableError
  <2>3. /\ Sound(d) /\ Same(stored, d)
        /\ d.buf = stored.buf /\ d.calls = stored.calls \cup {"OnUnrecoverableError"}
    BY <1>3, <2>1, <2>2, CallSound
  <2>4. Quiet(d)
    BY <1>3, <1>4, <1>7, <2>3 DEF Quiet, Same
  <2>5. Told(c, d)
    BY <1>3, <1>6, <2>3 DEF Told, Same, Over, IsClosed
  <2>. QED  BY <2>3, <2>4, <2>5 DEF d
<1>8. CASE /\ r.error = "NO_ERROR"
           /\ \/ r.stored = {} \/ c.blocked
              \/ ~ (~ HasBytesToRead(c.buf) /\ HasBytesToRead(r.buf))
  <2>1. d = stored
    BY <1>1, <1>8
  <2>2. Quiet(d)
    BY <1>3, <1>5, <1>8, <2>1 DEF Quiet
  <2>3. Told(c, d)
    BY <1>3, <1>6, <2>1 DEF Told
  <2>. QED  BY <1>3, <2>1, <2>2, <2>3 DEF d
<1>9. CASE /\ r.error = "NO_ERROR"
           /\ ~ (\/ r.stored = {} \/ c.blocked
                 \/ ~ (~ HasBytesToRead(c.buf) /\ HasBytesToRead(r.buf)))
  <2>1. d = IF c.ignoreReadData THEN Flush(stored) ELSE OnDataAvailable(stored)
    BY <1>1, <1>9
  <2>2. CASE c.ignoreReadData
    <3>1. /\ Sound(d) /\ Same(stored, d) /\ stored.calls \subseteq d.calls
          /\ Over(d) => d.calls \cap Endings # {}
          /\ ~ HasBytesToRead(d.buf)
      BY <1>3, <2>1, <2>2, FlushSound
    <3>. QED  BY <1>3, <3>1 DEF Quiet, Told, d
  <2>3. CASE ~ c.ignoreReadData
    <3>1. /\ Sound(d) /\ Same(stored, d) /\ stored.calls \subseteq d.calls
          /\ "OnDataAvailable" \in d.calls
          /\ ~ stored.limitHit => ~ HasBytesToRead(d.buf)
      BY <1>3, <2>1, <2>3, OnDataAvailableSound
    <3>. QED  BY <1>3, <3>1 DEF Quiet, Told, Same, Endings, d
  <2>. QED  BY <2>2, <2>3
<1>. QED  BY <1>7, <1>8, <1>9

-------------------------------------------------------------------------------
(* The handlers. *)

LEMMA HandleStreamFrameSafe ==
  ASSUME NEW c, Sound(c), Quiet(c), NEW offset \in Nat, NEW data \in Seq(Bytes), NEW fin
  PROVE  LET d == HandleStreamFrame(c, offset, data, fin) IN
         Sound(d) /\ Quiet(d) /\ Told(c, d)
<1>. DEFINE end == offset + Len(data)
            final == [c EXCEPT !.closeOffset = end]
            closing == MaybeCloseStream(final)
            d == HandleStreamFrame(c, offset, data, fin)
<1>1. c \in Contexts /\ c.highestOffset \in Nat /\ c.closeOffset \in Nat \cup {NoOffset}
  BY DEF Sound, Contexts
<1>2. end \in Nat /\ end # NoOffset
  BY SequencerAssumption
<1>3. d = IF c.closeOffset # NoOffset /\ end > c.closeOffset THEN [c EXCEPT !.aborted = TRUE]
          ELSE IF ~ fin THEN OnFrameData(c, offset, data)
          ELSE IF ~ CloseOffsetAcceptable(c, end) THEN OnUnrecoverableError(c)
          ELSE IF Len(data) = 0 THEN closing ELSE OnFrameData(closing, offset, data)
  BY DEF HandleStreamFrame
<1>. HIDE DEF end, d
<1>4. CASE c.closeOffset # NoOffset /\ end > c.closeOffset
  <2>1. d = [c EXCEPT !.aborted = TRUE]
    BY <1>3, <1>4
  <2>2. /\ d \in Contexts /\ d.buf = c.buf /\ d.calls = c.calls /\ Same(c, d)
    BY <1>1, <2>1 DEF Contexts, Same
  <2>3. Sound(d)
    BY <2>2 DEF Sound, Same
  <2>4. Quiet(d) /\ Told(c, d)
    BY <2>2 DEF Quiet, Told, Same, Over, IsClosed
  <2>. QED  BY <2>3, <2>4 DEF d
<1>5. CASE /\ ~ (c.closeOffset # NoOffset /\ end > c.closeOffset)
           /\ ~ fin
  <2>1. d = OnFrameData(c, offset, data)
    BY <1>3, <1>5
  <2>2. c.closeOffset # NoOffset => offset + Len(data) <= c.closeOffset
    BY <1>1, <1>2, <1>5 DEF end
  <2>. QED  BY <2>1, <2>2, OnFrameDataSafe DEF d
<1>6. CASE /\ ~ (c.closeOffset # NoOffset /\ end > c.closeOffset)
           /\ fin /\ ~ CloseOffsetAcceptable(c, end)
  <2>1. d = [c EXCEPT !.calls = @ \cup {"OnUnrecoverableError"}]
    BY <1>3, <1>6 DEF OnUnrecoverableError
  <2>2. "OnUnrecoverableError" \in Callbacks
    BY DEF Callbacks
  <2>3. /\ Sound(d) /\ Same(c, d)
        /\ d.buf = c.buf /\ d.calls = c.calls \cup {"OnUnrecoverableError"}
    BY <2>1, <2>2, CallSound
  <2>4. Quiet(d) /\ Told(c, d)
    BY <2>3 DEF Quiet, Told, Same, Over, IsClosed
  <2>. QED  BY <2>3, <2>4 DEF d
<1>7. CASE /\ ~ (c.closeOffset # NoOffset /\ end > c.closeOffset)
           /\ fin /\ CloseOffsetAcceptable(c, end)
  <2>1. /\ final \in Contexts /\ final.buf = c.buf /\ final.calls = c.calls
        /\ final.closeOffset = end /\ final.limitHit = c.limitHit
        /\ final.blocked = c.blocked /\ final.highestOffset = c.highestOffset
    BY <1>1, <1>2 DEF Contexts
  <2>2. c.highestOffset <= end
    BY <1>7 DEF CloseOffsetAcceptable
  <2>3. Sound(final)
    BY <2>1, <2>2 DEF Sound
  <2>4. /\ Sound(closing) /\ Same(final, closing) /\ final.calls \subseteq closing.calls
        /\ Over(closing) => closing.calls \cap Endings # {}
        /\ ~ HasBytesToRead(final.buf) => ~ HasBytesToRead(closing.buf)
    BY <2>3, MaybeCloseStreamSound
  <2>. HIDE DEF final, closing
  <2>5. Quiet(closing) /\ Told(c, closing)
    BY <2>1, <2>4 DEF Quiet, Told, Same
  <2>6. CASE Len(data) = 0
    BY <1>3, <1>7, <2>4, <2>5, <2>6 DEF d
  <2>7. CASE Len(data) # 0
    <3>1. d = OnFrameData(closing, offset, data)
      BY <1>3, <1>7, <2>7
    <3>2. closing.closeOffset # NoOffset => offset + Len(data) <= closing.closeOffset
      BY <1>2, <2>1, <2>4 DEF Same, end
    <3>3. Sound(d) /\ Quiet(d) /\ Told(closing, d)
      BY <2>4, <2>5, <3>1, <3>2, OnFrameDataSafe
    <3>4. Told(c, d)
      BY <2>5, <3>3, ToldThen
    <3>. QED  BY <3>3, <3>4 DEF d
  <2>. QED  BY <2>6, <2>7
<1>. QED  BY <1>4, <1>5, <1>6, <1>7

LEMMA SetUnblockedSafe ==
  ASSUME NEW c, Sound(c)
  PROVE  LET e == [c EXCEPT !.blocked = FALSE]
             d == IF IsClosed(e) \/ HasBytesToRead(e.buf) THEN OnDataAvailable(e) ELSE e IN
         Sound(d) /\ Quiet(d) /\ Told(c, d)
<1>. DEFINE e == [c EXCEPT !.blocked = FALSE]
            d == IF IsClosed(e) \/ HasBytesToRead(e.buf) THEN OnDataAvailable(e) ELSE e
<1>1. c \in Contexts
  BY DEF Sound
<1>2. /\ e \in Contexts /\ e.buf = c.buf /\ e.calls = c.calls /\ e.limitHit = c.limitHit
      /\ e.closeOffset = c.closeOffset /\ e.highestOffset = c.highestOffset
  BY <1>1 DEF Contexts
<1>. HIDE DEF e
<1>3. Sound(e)
  BY <1>2 DEF Sound
<1>4. CASE IsClosed(e) \/ HasBytesToRead(e.buf)
  <2>1. /\ Sound(d) /\ Same(e, d) /\ e.calls \subseteq d.calls /\ "OnDataAvailable" \in d.calls
        /\ ~ e.limitHit => ~ HasBytesToRead(d.buf)
    BY <1>3, <1>4, OnDataAvailableSound
  <2>. HIDE DEF d
  <2>2. Quiet(d) /\ Told(c, d)
    BY <1>2, <2>1 DEF Quiet, Told, Same, Endings
  <2>. QED  BY <2>1, <2>2 DEF d, e
<1>5. CASE ~ (IsClosed(e) \/ HasBytesToRead(e.buf))
  <2>1. d = e
    BY <1>5
  <2>. HIDE DEF d
  <2>2. Quiet(d) /\ Told(c, d)
    BY <1>2, <1>5, <2>1 DEF Quiet, Told, Over
  <2>. QED  BY <1>3, <2>1, <2>2 DEF d, e
<1>. QED  BY <1>4, <1>5

LEMMA StopReadingSafe ==
  ASSUME NEW c, Sound(c)
  PROVE  LET d == Flush([c EXCEPT !.ignoreReadData = TRUE]) IN
         Sound(d) /\ Quiet(d) /\ Told(c, d)
<1>. DEFINE e == [c EXCEPT !.ignoreReadData = TRUE]
            d == Flush(e)
<1>1. c \in Contexts
  BY DEF Sound
<1>2. /\ e \in Contexts /\ e.buf = c.buf /\ e.calls = c.calls /\ e.limitHit = c.limitHit
      /\ e.closeOffset = c.closeOffset /\ e.highestOffset = c.highestOffset
      /\ e.blocked = c.blocked
  BY <1>1 DEF Contexts
<1>. HIDE DEF e
<1>3. Sound(e)
  BY <1>2 DEF Sound
<1>4. /\ Sound(d) /\ Same(e, d) /\ e.calls \subseteq d.calls
      /\ Over(d) => d.calls \cap Endings # {}
      /\ ~ HasBytesToRead(d.buf)
  BY <1>3, FlushSound
<1>. HIDE DEF d
<1>5. Quiet(d) /\ Told(c, d)
  BY <1>2, <1>4 DEF Quiet, Told
<1>. QED  BY <1>4, <1>5 DEF d, e

LEMMA ClearBufferSafe ==
  ASSUME NEW c, Sound(c)
  PROVE  LET d == ClearBuffer(c) IN Sound(d) /\ Quiet(d) /\ Told(c, d)
<1>. DEFINE d == ClearBuffer(c)
<1>1. Sound(d) /\ Same(c, d) /\ d.calls = c.calls /\ ~ HasBytesToRead(d.buf)
  BY ClearBufferSound
<1>2. d.buf.totalRead = c.buf.totalRead
  <2>1. c \in Contexts /\ c.buf.totalRead \in Nat
    BY DEF Sound, Contexts, WellFormed, Buffer
  <2>2. d.buf = Clear(c.buf)
    BY <2>1 DEF ClearBuffer, Contexts
  <2>. QED  BY <2>1, <2>2, ClearWellFormed
<1>. HIDE DEF d
<1>3. Quiet(d) /\ Told(c, d)
  BY <1>1, <1>2 DEF Quiet, Told, Same, Over, IsClosed
<1>. QED  BY <1>1, <1>3 DEF d

-------------------------------------------------------------------------------
(* The specification. *)

SeqInv ==
  /\ Sound(Now) /\ Quiet(Now)
  /\ calls \in SUBSET Callbacks
  /\ aborted \in BOOLEAN

LEMMA SeqInvInit == SeqInit => SeqInv
<1>. SUFFICES ASSUME SeqInit  PROVE SeqInv
  OBVIOUS
<1>. USE DEF SeqInit, BufInit
<1>1. WellFormed(buf) /\ buf.received = 0 .. (buf.totalRead - 1)
  BY BufInvInit DEF BufInv, EmptyBuffer
<1>2. Backed(buf) /\ ~ HasBytesToRead(buf)
  BY <1>1, ClearedIsQuiet
<1>3. accepted \in Histories
  <2>1. {} \in SUBSET Nat /\ accepted \in [{} -> Bytes]
    OBVIOUS
  <2>. QED  BY <2>1, HistoriesGet
<1>4. Now \in Contexts
  <2>1. /\ buf \in Buffer /\ delivered \in Seq(Bytes \cup {NoByte}) /\ limitHit \in BOOLEAN
        /\ highestOffset \in Nat /\ closeOffset \in Nat \cup {NoOffset}
        /\ blocked \in BOOLEAN /\ ignoreReadData \in BOOLEAN
    <3>1. buf \in Buffer
      BY <1>1 DEF WellFormed
    <3>2. delivered \in Seq(Bytes \cup {NoByte})
      OBVIOUS
    <3>. QED  BY <3>1, <3>2
  <2>2. {} \in SUBSET Callbacks /\ FALSE \in BOOLEAN
    OBVIOUS
  <2>. QED  BY <1>3, <2>1, <2>2 DEF Now, Contexts
<1>5. Sound(Now)
  BY <1>1, <1>2, <1>4 DEF Now, Sound, EmptyBuffer
<1>6. Quiet(Now)
  BY <1>2 DEF Now, Quiet
<1>. QED  BY <1>5, <1>6 DEF SeqInv

\* Every handler leads from a sound and quiet context to another, and tells the
\* stream of its end if it comes to it.
LEMMA HandlersSafe ==
  ASSUME SeqInv, SeqNext
  PROVE  \E d : Become(d) /\ Sound(d) /\ Quiet(d) /\ Told(Now, d)
<1>1. Sound(Now) /\ Quiet(Now) /\ Now \in Contexts
  BY DEF SeqInv, Sound
<1>2. Told(Now, Now)
  BY DEF Told
<1>3. CASE \E offset \in Offsets, data \in Payloads, fin \in BOOLEAN : OnStreamFrame(offset, data, fin)
  <2>1. PICK offset \in Offsets, data \in Payloads, fin \in BOOLEAN : OnStreamFrame(offset, data, fin)
    BY <1>3
  <2>2. offset \in Nat /\ data \in Seq(Bytes)
    BY BufferAssumption
  <2>. QED  BY <1>1, <2>1, <2>2, HandleStreamFrameSafe DEF OnStreamFrame
<1>4. CASE SetBlockedUntilFlush
  <2>. DEFINE d == [Now EXCEPT !.blocked = TRUE]
  <2>1. Become(d)
    BY <1>4 DEF SetBlockedUntilFlush
  <2>2. /\ d \in Contexts /\ d.buf = Now.buf /\ d.calls = Now.calls /\ d.blocked = TRUE
        /\ d.limitHit = Now.limitHit /\ d.closeOffset = Now.closeOffset
        /\ d.highestOffset = Now.highestOffset
    BY <1>1 DEF Contexts
  <2>. HIDE DEF d
  <2>3. Sound(d) /\ Quiet(d) /\ Told(Now, d)
    BY <1>1, <2>2 DEF Sound, Quiet, Told, Over
  <2>. QED  BY <2>1, <2>3
<1>5. CASE SetUnblocked
  BY <1>1, <1>5, SetUnblockedSafe DEF SetUnblocked
<1>6. CASE StopReading
  <2>1. CASE ignoreReadData
    BY <1>1, <1>2, <1>6, <2>1 DEF StopReading
  <2>2. CASE ~ ignoreReadData
    BY <1>1, <1>6, <2>2, StopReadingSafe DEF StopReading
  <2>. QED  BY <2>1, <2>2
<1>7. CASE ReleaseBuffer
  BY <1>1, <1>7, ClearBufferSafe DEF ReleaseBuffer
<1>8. CASE ReleaseBufferIfEmpty
  <2>1. CASE IsEmpty(buf)
    BY <1>1, <1>8, <2>1, ClearBufferSafe DEF ReleaseBufferIfEmpty
  <2>2. CASE ~ IsEmpty(buf)
    BY <1>1, <1>2, <1>8, <2>2 DEF ReleaseBufferIfEmpty
  <2>. QED  BY <2>1, <2>2
<1>. QED  BY <1>3, <1>4, <1>5, <1>6, <1>7, <1>8 DEF SeqNext

LEMMA SeqInvNext == SeqInv /\ [SeqNext]_seqVars => SeqInv'
<1>1. ASSUME SeqInv, SeqNext  PROVE SeqInv'
  <2>1. PICK d : Become(d) /\ Sound(d) /\ Quiet(d)
    BY <1>1, HandlersSafe
  <2>2. d \in Contexts
    BY <2>1 DEF Sound
  <2>. DEFINE n == [ buf |-> d.buf, accepted |-> d.accepted, delivered |-> d.delivered,
                     limitHit |-> d.limitHit, highestOffset |-> d.highestOffset,
                     closeOffset |-> d.closeOffset, blocked |-> d.blocked,
                     ignoreReadData |-> d.ignoreReadData, calls |-> {}, aborted |-> FALSE ]
  <2>3. Now' = n
    BY <2>1 DEF Become, Now
  <2>4. /\ n \in Contexts /\ n.buf = d.buf /\ n.blocked = d.blocked /\ n.limitHit = d.limitHit
        /\ n.closeOffset = d.closeOffset /\ n.highestOffset = d.highestOffset
    BY <2>2 DEF Contexts
  <2>. HIDE DEF n
  <2>5. Sound(n) /\ Quiet(n)
    BY <2>1, <2>4 DEF Sound, Quiet
  <2>6. calls' \in SUBSET Callbacks /\ aborted' \in BOOLEAN
    BY <2>1, <2>2 DEF Become, Contexts
  <2>7. Sound(Now)' /\ Quiet(Now)'
    BY <2>3, <2>5 DEF Sound, Quiet
  <2>. QED  BY <2>6, <2>7 DEF SeqInv
<1>2. ASSUME SeqInv, UNCHANGED seqVars  PROVE SeqInv'
  <2>1. Now' = Now /\ calls' = calls /\ aborted' = aborted
    BY <1>2 DEF seqVars, Now
  <2>. QED  BY <1>2, <2>1 DEF SeqInv, Sound, Quiet
<1>. QED  BY <1>1, <1>2

LEMMA SeqInvAlways == SeqSpec => []SeqInv
<1>. QED  BY SeqInvInit, SeqInvNext, PTL DEF SeqSpec

LEMMA SeqInvSafe == SeqInv => SeqSafe
<1>. SUFFICES ASSUME SeqInv  PROVE SeqSafe
  OBVIOUS
<1>1. /\ Now \in Contexts /\ WellFormed(buf)
      /\ buf.received \subseteq 0 .. (highestOffset - 1)
      /\ closeOffset # NoOffset => highestOffset <= closeOffset
  BY DEF SeqInv, Sound, Now
<1>2. /\ buf \in Buffer /\ delivered \in Seq(Bytes \cup {NoByte}) /\ limitHit \in BOOLEAN
      /\ highestOffset \in Nat /\ closeOffset \in Nat \cup {NoOffset}
      /\ blocked \in BOOLEAN /\ ignoreReadData \in BOOLEAN
  BY <1>1 DEF Now, Contexts
<1>3. SeqTypeOK
  BY <1>2 DEF SeqTypeOK, BufTypeOK, SeqInv, Callbacks
<1>4. NothingReadableIsLeft
  BY DEF NothingReadableIsLeft, SeqInv, Quiet, Now
<1>5. ReadStaysBelowHighest
  <2>1. buf.totalRead \in Nat /\ 0 .. (buf.totalRead - 1) \subseteq buf.received
    BY <1>1 DEF WellFormed, Buffer
  <2>2. buf.totalRead <= highestOffset
    <3>1. CASE buf.totalRead = 0
      BY <1>2, <3>1
    <3>2. CASE buf.totalRead # 0
      <4>1. buf.totalRead - 1 \in 0 .. (highestOffset - 1)
        BY <1>1, <2>1, <3>2
      <4>. QED  BY <1>2, <2>1, <4>1
    <3>. QED  BY <3>1, <3>2
  <2>. QED  BY <1>1, <2>2 DEF ReadStaysBelowHighest
<1>. QED  BY <1>3, <1>4, <1>5 DEF SeqSafe

\* Whatever the geometry of the ring, the window, the frames and their order, the
\* sequencer's parts stay well typed, no readable byte is left behind unannounced
\* until the interval limit is hit, and the read position stays below the highest
\* byte and the final offset.
THEOREM SequencerAlwaysSafe == SeqSpec => []SeqSafe
<1>. QED  BY SeqInvAlways, SeqInvSafe, PTL

LEMMA StepAnnounces ==
  ASSUME SeqInv, [SeqNext]_seqVars
  PROVE  [(Closed' /\ ~ blocked') /\ ~ (Closed /\ ~ blocked)
            => calls' \cap {"OnDataAvailable", "OnFinRead"} # {}]_seqVars
<1>1. CASE SeqNext
  <2>1. PICK d : Become(d) /\ Told(Now, d)
    BY <1>1, HandlersSafe
  <2>2. Over(d) <=> Closed' /\ ~ blocked'
    BY <2>1 DEF Become, Over, IsClosed, Closed
  <2>3. Over(Now) <=> Closed /\ ~ blocked
    BY DEF Over, IsClosed, Closed, Now
  <2>4. calls' = d.calls
    BY <2>1 DEF Become
  <2>. QED  BY <2>1, <2>2, <2>3, <2>4 DEF Told, Endings
<1>2. CASE UNCHANGED seqVars
  BY <1>2
<1>. QED  BY <1>1, <1>2

\* Whenever the stream comes to its end unblocked - by its last byte, by a FIN that
\* arrives after it, by a flush or by being unblocked - the same handler tells it.
THEOREM ClosingAlwaysAnnounced == SeqSpec => ClosingIsAnnounced
<1>1. SeqInv /\ [SeqNext]_seqVars
        => [(Closed' /\ ~ blocked') /\ ~ (Closed /\ ~ blocked)
              => calls' \cap {"OnDataAvailable", "OnFinRead"} # {}]_seqVars
  BY StepAnnounces
<1>. QED  BY <1>1, SeqInvAlways, PTL DEF SeqSpec, ClosingIsAnnounced

-------------------------------------------------------------------------------
(* The in-order stream. *)

\* All that is unread is in the ring as it was accepted, and nothing else is remembered
\* of the offsets that were not received.
Held(b, f) ==
  /\ DOMAIN f \subseteq b.received
  /\ \A o \in Unread(b) : o \in DOMAIN f /\ Holds(b, o, f[o])

Valid(c) ==
  /\ WellFormed(c.buf) /\ c.accepted \in Histories
  /\ c.delivered \in Seq(Bytes \cup {NoByte})
  /\ Held(c.buf, c.accepted)

\* The actions of InOrderStream from c to d.
Arrives(c, d) ==
  /\ d.buf.totalRead \in c.buf.totalRead .. (c.buf.totalRead + MaxCapacity)
  /\ DOMAIN d.accepted \subseteq 0 .. (d.buf.totalRead + MaxCapacity - 1)
  /\ \A o \in DOMAIN d.accepted : d.accepted[o] \in Bytes
  /\ \A o \in DOMAIN c.accepted :
       IF o \in DOMAIN d.accepted THEN d.accepted[o] = c.accepted[o] ELSE o >= d.buf.totalRead

Gives(c, d, n) ==
  /\ c.buf.totalRead .. (c.buf.totalRead + n - 1) \subseteq DOMAIN d.accepted
  /\ d.delivered = c.delivered \o [i \in 1 .. n |-> d.accepted[c.buf.totalRead + i - 1]]

Advances(c, d) ==
  /\ Arrives(c, d) /\ DOMAIN c.accepted \subseteq DOMAIN d.accepted
  /\ Gives(c, d, d.buf.totalRead - c.buf.totalRead)

Discards(c, d) ==
  /\ Arrives(c, d) /\ DOMAIN d.accepted \subseteq 0 .. (d.buf.totalRead - 1)
  /\ \E n \in 0 .. (d.buf.totalRead - c.buf.totalRead) : Gives(c, d, n)

\* So far bytes have only come in.
Gathers(c, d) ==
  /\ Advances(c, d)
  /\ d.buf.totalRead = c.buf.totalRead /\ d.delivered = c.delivered

-------------------------------------------------------------------------------
(* What each method of the buffer does to what is held. *)

LEMMA ValidFacts ==
  ASSUME NEW c, Valid(c)
  PROVE  /\ WellFormed(c.buf) /\ c.buf \in Buffer /\ c.buf.totalRead \in Nat
         /\ DOMAIN c.accepted \in SUBSET Nat
         /\ \A o \in DOMAIN c.accepted : c.accepted[o] \in Bytes
         /\ DOMAIN c.accepted \subseteq 0 .. (c.buf.totalRead + MaxCapacity - 1)
         /\ MaxCapacity \in Nat \ {0}
<1>1. DOMAIN c.accepted \in SUBSET Nat /\ c.accepted \in [DOMAIN c.accepted -> Bytes]
  BY HistoriesHave DEF Valid
<1>. QED  BY <1>1, BufferAssumption DEF Valid, WellFormed, Buffer, Held

LEMMA ExtendedValues ==
  ASSUME NEW f, NEW g
  PROVE  /\ DOMAIN Extended(f, g) = DOMAIN f \cup DOMAIN g
         /\ \A o \in DOMAIN f : Extended(f, g)[o] = f[o]
         /\ \A o \in DOMAIN g \ DOMAIN f : Extended(f, g)[o] = g[o]
  BY DEF Extended

LEMMA KeepValues ==
  ASSUME NEW f, NEW S
  PROVE  /\ DOMAIN Keep(f, S) = DOMAIN f \cap S
         /\ \A o \in DOMAIN f \cap S : Keep(f, S)[o] = f[o]
  BY DEF Keep

LEMMA StoreHeld ==
  ASSUME NEW b, WellFormed(b), NEW f \in Histories, Held(b, f),
         NEW offset \in Nat, NEW data \in Seq(Bytes),
         OnStreamData(b, offset, data).error # "TOO_MANY_STREAM_DATA_INTERVALS"
  PROVE  LET r == OnStreamData(b, offset, data)
             g == [o \in r.stored |-> data[o - offset + 1]] IN
         /\ Held(r.buf, Extended(f, g)) /\ Extended(f, g) \in Histories
<1>. DEFINE r == OnStreamData(b, offset, data)
            g == [o \in r.stored |-> data[o - offset + 1]]
<1>1. /\ r.stored \cap b.received = {} /\ r.stored \subseteq Nat
      /\ r.stored \subseteq offset .. (offset + Len(data) - 1)
      /\ r.stored \subseteq r.buf.received /\ b.received \subseteq r.buf.received
  BY OnStreamDataUnread
<1>2. ASSUME NEW o \in Unread(r.buf)
      PROVE  /\ o \in r.stored => Holds(r.buf, o, data[o - offset + 1])
             /\ o \notin r.stored => o \in Unread(b) /\ \A v : Holds(b, o, v) => Holds(r.buf, o, v)
  BY OnStreamDataStores
<1>. HIDE DEF r
<1>3. DOMAIN g = r.stored /\ \A o \in r.stored : g[o] = data[o - offset + 1]
  OBVIOUS
<1>4. g \in Histories
  <2>1. \A o \in r.stored : data[o - offset + 1] \in Bytes
    BY <1>1
  <2>2. r.stored \in SUBSET Nat /\ g \in [r.stored -> Bytes]
    BY <1>1, <2>1
  <2>. HIDE DEF g
  <2>. QED  BY <2>2, HistoriesGet
<1>. HIDE DEF g
<1>5. Extended(f, g) \in Histories
  BY <1>4, ExtendedType
<1>6. /\ DOMAIN Extended(f, g) = DOMAIN f \cup DOMAIN g
      /\ \A o \in DOMAIN f : Extended(f, g)[o] = f[o]
      /\ \A o \in DOMAIN g \ DOMAIN f : Extended(f, g)[o] = g[o]
  BY ExtendedValues
<1>7. ASSUME NEW o \in Unread(r.buf)
      PROVE  o \in DOMAIN Extended(f, g) /\ Holds(r.buf, o, Extended(f, g)[o])
  <2>1. CASE o \in r.stored
    <3>1. o \in DOMAIN g \ DOMAIN f
      BY <1>1, <1>3, <2>1 DEF Held
    <3>2. Extended(f, g)[o] = data[o - offset + 1] /\ o \in DOMAIN Extended(f, g)
      BY <1>3, <1>6, <2>1, <3>1
    <3>. QED  BY <1>2, <2>1, <3>2
  <2>2. CASE o \notin r.stored
    <3>1. o \in Unread(b) /\ \A v : Holds(b, o, v) => Holds(r.buf, o, v)
      BY <1>2, <2>2
    <3>2. o \in DOMAIN f /\ Holds(b, o, f[o])
      BY <3>1 DEF Held
    <3>3. Extended(f, g)[o] = f[o] /\ o \in DOMAIN Extended(f, g)
      BY <1>6, <3>2
    <3>. QED  BY <3>1, <3>2, <3>3
  <2>. QED  BY <2>1, <2>2
<1>8. Held(r.buf, Extended(f, g))
  BY <1>1, <1>3, <1>6, <1>7 DEF Held
<1>. QED  BY <1>5, <1>8 DEF r, g

LEMMA ConsumeHeld ==
  ASSUME NEW b, WellFormed(b), NEW f, Held(b, f), NEW k \in 0 .. ReadableBytes(b)
  PROVE  Held(Consume(b, k), f)
<1>1. DOMAIN f \subseteq Consume(b, k).received
  BY ConsumeUnread DEF Held
<1>2. ASSUME NEW o \in Unread(Consume(b, k))
      PROVE  o \in DOMAIN f /\ Holds(Consume(b, k), o, f[o])
  <2>1. o \in Unread(b)
    BY ConsumeUnread
  <2>2. o \in DOMAIN f /\ Holds(b, o, f[o])
    BY <2>1 DEF Held
  <2>. QED  BY <2>2, ConsumeKeeps
<1>. QED  BY <1>1, <1>2 DEF Held

LEMMA ForgetHeld ==
  ASSUME NEW b, NEW n \in Nat, b.totalRead = n, b.received = 0 .. (n - 1), NEW f
  PROVE  Held(b, Keep(f, 0 .. (n - 1)))
<1>1. Unread(b) = {}
  BY DEF Unread
<1>2. DOMAIN Keep(f, 0 .. (n - 1)) = DOMAIN f \cap (0 .. (n - 1))
  BY KeepValues
<1>. QED  BY <1>1, <1>2 DEF Held

\* The bytes that Readv copies are the accepted ones.
LEMMA BytesHeld ==
  ASSUME NEW b, WellFormed(b), NEW f, Held(b, f), NEW k \in 0 .. ReadableBytes(b)
  PROVE  /\ b.totalRead .. (b.totalRead + k - 1) \subseteq DOMAIN f
         /\ BytesAt(b, b.totalRead, k) = [i \in 1 .. k |-> f[b.totalRead + i - 1]]
<1>1. b.totalRead .. (b.totalRead + k - 1) \subseteq Unread(b) /\ b.totalRead \in Nat /\ k \in Int
  BY ConsumeUnread, ReadableType
<1>2. \A o \in b.totalRead .. (b.totalRead + k - 1) : o \in DOMAIN f /\ b.memory[Cell(o)] = f[o]
  BY <1>1 DEF Held, Holds
<1>3. \A i \in 1 .. k : b.memory[Cell(b.totalRead + i - 1)] = f[b.totalRead + i - 1]
  <2>1. TAKE i \in 1 .. k
  <2>2. b.totalRead + i - 1 \in b.totalRead .. (b.totalRead + k - 1)
    BY <1>1
  <2>. QED  BY <1>2, <2>2
<1>. QED  BY <1>2, <1>3 DEF BytesAt

-------------------------------------------------------------------------------
(* Each method is a step, and what follows it in a handler is part of the step. *)

LEMMA NothingGiven ==
  ASSUME NEW c, Valid(c), NEW d, Valid(d), d.delivered = c.delivered
  PROVE  Gives(c, d, 0)
<1>1. [i \in 1 .. 0 |-> d.accepted[c.buf.totalRead + i - 1]] = <<>>
  OBVIOUS
<1>2. c.delivered \o <<>> = c.delivered
  BY DEF Valid
<1>3. c.buf.totalRead .. (c.buf.totalRead + 0 - 1) = {}
  BY ValidFacts
<1>. QED  BY <1>1, <1>2, <1>3 DEF Gives

LEMMA ArrivesFrom ==
  ASSUME NEW c, Valid(c), NEW d, Valid(d),
         d.buf.totalRead \in c.buf.totalRead .. (c.buf.totalRead + MaxCapacity),
         \A o \in DOMAIN c.accepted :
           IF o \in DOMAIN d.accepted THEN d.accepted[o] = c.accepted[o] ELSE o >= d.buf.totalRead
  PROVE  Arrives(c, d)
  BY ValidFacts DEF Arrives

LEMMA KeptGathers ==
  ASSUME NEW c, Valid(c), NEW d, d.buf = c.buf, d.accepted = c.accepted, d.delivered = c.delivered
  PROVE  Valid(d) /\ Gathers(c, d)
<1>1. Valid(d)
  BY DEF Valid
<1>2. d.buf.totalRead \in c.buf.totalRead .. (c.buf.totalRead + MaxCapacity)
  BY ValidFacts
<1>3. Arrives(c, d)
  BY <1>1, <1>2, ArrivesFrom
<1>4. d.buf.totalRead - c.buf.totalRead = 0
  BY ValidFacts
<1>. QED  BY <1>1, <1>3, <1>4, NothingGiven DEF Gathers, Advances

LEMMA StoreGathers ==
  ASSUME NEW c, Valid(c), NEW offset \in Nat, NEW data \in Seq(Bytes),
         OnStreamData(c.buf, offset, data).error # "TOO_MANY_STREAM_DATA_INTERVALS",
         NEW d, d.buf = OnStreamData(c.buf, offset, data).buf, d.delivered = c.delivered,
         d.accepted = Extended(c.accepted,
                        [o \in OnStreamData(c.buf, offset, data).stored |-> data[o - offset + 1]])
  PROVE  Valid(d) /\ Gathers(c, d)
<1>. DEFINE r == OnStreamData(c.buf, offset, data)
            g == [o \in r.stored |-> data[o - offset + 1]]
<1>1. /\ WellFormed(c.buf) /\ c.accepted \in Histories /\ Held(c.buf, c.accepted)
      /\ c.delivered \in Seq(Bytes \cup {NoByte})
  BY DEF Valid
<1>2. WellFormed(r.buf) /\ r.buf.totalRead = c.buf.totalRead
  BY <1>1, OnStreamDataWellFormed
<1>3. Held(r.buf, Extended(c.accepted, g)) /\ Extended(c.accepted, g) \in Histories
  BY <1>1, StoreHeld
<1>4. /\ DOMAIN Extended(c.accepted, g) = DOMAIN c.accepted \cup DOMAIN g
      /\ \A o \in DOMAIN c.accepted : Extended(c.accepted, g)[o] = c.accepted[o]
  BY ExtendedValues
<1>5. d.buf = r.buf /\ d.accepted = Extended(c.accepted, g)
  OBVIOUS
<1>. HIDE DEF r, g
<1>6. Valid(d)
  BY <1>1, <1>2, <1>3, <1>5 DEF Valid
<1>7. d.buf.totalRead \in c.buf.totalRead .. (c.buf.totalRead + MaxCapacity)
      /\ d.buf.totalRead - c.buf.totalRead = 0
  BY <1>2, <1>5, ValidFacts
<1>8. Arrives(c, d)
  BY <1>4, <1>5, <1>6, <1>7, ArrivesFrom
<1>9. Gives(c, d, 0)
  BY <1>6, NothingGiven
<1>. QED  BY <1>2, <1>4, <1>5, <1>6, <1>7, <1>8, <1>9 DEF Gathers, Advances

LEMMA ReadAdvances ==
  ASSUME NEW c0, Valid(c0), NEW c, Valid(c), Gathers(c0, c), NEW k \in 0 .. ReadableBytes(c.buf),
         NEW d, d.buf = Consume(c.buf, k), d.accepted = c.accepted,
         d.delivered = c.delivered \o BytesAt(c.buf, c.buf.totalRead, k)
  PROVE  Valid(d) /\ Advances(c0, d)
<1>. DEFINE t == c0.buf.totalRead
<1>1. /\ WellFormed(c.buf) /\ c.accepted \in Histories /\ Held(c.buf, c.accepted)
      /\ c.delivered \in Seq(Bytes \cup {NoByte})
  BY DEF Valid
<1>2. /\ Arrives(c0, c) /\ DOMAIN c0.accepted \subseteq DOMAIN c.accepted
      /\ c.buf.totalRead = t /\ c.delivered = c0.delivered
  BY DEF Gathers, Advances
<1>3. t \in Nat /\ MaxCapacity \in Nat /\ ReadableBytes(c.buf) \in 0 .. MaxCapacity /\ k \in Nat
  <2>1. FirstMissingByte(c.buf) \in c.buf.totalRead .. (c.buf.totalRead + MaxCapacity)
    BY <1>1, FirstMissingByteFacts
  <2>2. t \in Nat /\ MaxCapacity \in Nat
    BY ValidFacts
  <2>3. ReadableBytes(c.buf) \in 0 .. MaxCapacity
    BY <1>2, <2>1, <2>2 DEF ReadableBytes
  <2>. QED  BY <2>2, <2>3
<1>4. WellFormed(d.buf) /\ d.buf.totalRead = t + k
  BY <1>1, <1>2, ConsumeWellFormed, ConsumeUnread
<1>5. BytesAt(c.buf, c.buf.totalRead, k) \in Seq(Bytes \cup {NoByte})
  BY <1>1, <1>3, BytesAtType
<1>6. d.delivered \in Seq(Bytes \cup {NoByte})
  BY <1>1, <1>5
<1>7. Held(d.buf, d.accepted)
  BY <1>1, ConsumeHeld
<1>8. Valid(d)
  BY <1>1, <1>4, <1>6, <1>7 DEF Valid
<1>9. d.buf.totalRead \in t .. (t + MaxCapacity) /\ d.buf.totalRead - t = k
  BY <1>3, <1>4
<1>10. Arrives(c0, d)
  <2>1. \A o \in DOMAIN c0.accepted : o \in DOMAIN d.accepted /\ d.accepted[o] = c0.accepted[o]
    BY <1>2 DEF Arrives
  <2>. QED  BY <1>8, <1>9, <2>1, ArrivesFrom
<1>11. /\ c.buf.totalRead .. (c.buf.totalRead + k - 1) \subseteq DOMAIN c.accepted
       /\ BytesAt(c.buf, c.buf.totalRead, k) = [i \in 1 .. k |-> c.accepted[c.buf.totalRead + i - 1]]
  BY <1>1, BytesHeld
<1>12. Gives(c0, d, k)
  BY <1>2, <1>11 DEF Gives
<1>. QED  BY <1>2, <1>8, <1>9, <1>10, <1>12 DEF Advances

LEMMA ForgetDiscards ==
  ASSUME NEW c0, Valid(c0), NEW c, Valid(c), Advances(c0, c),
         NEW n \in c.buf.totalRead .. (c0.buf.totalRead + MaxCapacity),
         NEW d, WellFormed(d.buf), d.buf.totalRead = n, d.buf.received = 0 .. (n - 1),
         d.accepted = Keep(c.accepted, 0 .. (n - 1)), d.delivered = c.delivered
  PROVE  Valid(d) /\ Discards(c0, d)
<1>. DEFINE t == c0.buf.totalRead
            m == c.buf.totalRead - t
<1>1. c.accepted \in Histories /\ c.delivered \in Seq(Bytes \cup {NoByte})
  BY DEF Valid
<1>2. /\ Arrives(c0, c) /\ DOMAIN c0.accepted \subseteq DOMAIN c.accepted /\ Gives(c0, c, m)
      /\ DOMAIN c.accepted \in SUBSET Nat
  BY ValidFacts DEF Advances
<1>3. t \in Nat /\ MaxCapacity \in Nat /\ c.buf.totalRead \in t .. (t + MaxCapacity)
      /\ n \in Nat /\ m \in Nat
  BY <1>2, ValidFacts DEF Arrives
<1>4. /\ DOMAIN d.accepted = DOMAIN c.accepted \cap (0 .. (n - 1))
      /\ \A o \in DOMAIN c.accepted \cap (0 .. (n - 1)) : d.accepted[o] = c.accepted[o]
  <2>. DEFINE kept == Keep(c.accepted, 0 .. (n - 1))
  <2>1. /\ DOMAIN kept = DOMAIN c.accepted \cap (0 .. (n - 1))
        /\ \A o \in DOMAIN c.accepted \cap (0 .. (n - 1)) : kept[o] = c.accepted[o]
    BY KeepValues
  <2>2. d.accepted = kept
    OBVIOUS
  <2>. HIDE DEF kept
  <2>. QED  BY <2>1, <2>2
<1>5. d.accepted \in Histories
  BY <1>1, KeepType
<1>6. Held(d.buf, d.accepted)
  BY <1>3, ForgetHeld
<1>7. Valid(d)
  BY <1>1, <1>5, <1>6 DEF Valid
<1>8. Arrives(c0, d)
  <2>1. ASSUME NEW o \in DOMAIN c0.accepted
        PROVE  IF o \in DOMAIN d.accepted THEN d.accepted[o] = c0.accepted[o] ELSE o >= d.buf.totalRead
    <3>1. o \in DOMAIN c.accepted /\ c.accepted[o] = c0.accepted[o] /\ o \in Nat
      BY <1>2 DEF Arrives
    <3>2. CASE o \in 0 .. (n - 1)
      BY <1>4, <3>1, <3>2
    <3>3. CASE o \notin 0 .. (n - 1)
      <4>1. o >= n
        BY <1>3, <3>1, <3>3
      <4>. QED  BY <1>4, <3>3, <4>1
    <3>. QED  BY <3>2, <3>3
  <2>2. d.buf.totalRead \in t .. (t + MaxCapacity)
    BY <1>3
  <2>. QED  BY <1>7, <2>1, <2>2, ArrivesFrom
<1>9. Gives(c0, d, m)
  <2>1. t .. (t + m - 1) \subseteq DOMAIN c.accepted
    BY <1>2 DEF Gives
  <2>2. t .. (t + m - 1) \subseteq 0 .. (n - 1)
    BY <1>3
  <2>3. t .. (t + m - 1) \subseteq DOMAIN d.accepted
    BY <1>4, <2>1, <2>2
  <2>4. \A i \in 1 .. m : d.accepted[t + i - 1] = c.accepted[t + i - 1]
    <3>1. TAKE i \in 1 .. m
    <3>2. t + i - 1 \in t .. (t + m - 1)
      BY <1>3
    <3>. QED  BY <1>4, <2>1, <2>2, <3>2
  <2>5. [i \in 1 .. m |-> d.accepted[t + i - 1]] = [i \in 1 .. m |-> c.accepted[t + i - 1]]
    BY <2>4
  <2>. QED  BY <1>2, <2>3, <2>5 DEF Gives
<1>10. m \in 0 .. (d.buf.totalRead - t)
  BY <1>3
<1>. QED  BY <1>4, <1>7, <1>8, <1>9, <1>10 DEF Discards

LEMMA DiscardedStays ==
  ASSUME NEW c0, NEW c, Discards(c0, c), NEW d, d.buf.totalRead = c.buf.totalRead,
         d.accepted = c.accepted, d.delivered = c.delivered
  PROVE  Discards(c0, d)
  BY DEF Discards, Arrives, Gives

-------------------------------------------------------------------------------
(* The buffer. *)

Bare == [buf |-> buf, accepted |-> accepted, delivered |-> delivered]

\* What simulates the in-order stream, while the limit is not hit.
BareInv == ~ limitHit => Valid(Bare)

LEMMA BareInit == BufInit => BareInv /\ Abstract!Init
<1>. SUFFICES ASSUME BufInit  PROVE BareInv /\ Abstract!Init
  OBVIOUS
<1>1. WellFormed(buf) /\ delivered \in Seq(Bytes \cup {NoByte})
  BY BufInvInit DEF BufInv
<1>2. accepted \in Histories
  <2>1. {} \in SUBSET Nat /\ accepted \in [{} -> Bytes]
    BY DEF BufInit
  <2>. QED  BY <2>1, HistoriesGet
<1>3. Held(buf, accepted)
  BY DEF BufInit, EmptyBuffer, Held, Unread
<1>4. Valid(Bare)
  BY <1>1, <1>2, <1>3 DEF Valid, Bare
<1>5. Abstract!Init
  BY DEF BufInit, EmptyBuffer, Abstract!Init
<1>. QED  BY <1>4, <1>5 DEF BareInv

\* A step between two contexts is a step of the in-order stream.
LEMMA StepMaps ==
  ASSUME Advances(Bare, Bare') \/ Discards(Bare, Bare')
  PROVE  Abstract!Next
<1>1. /\ Bare.buf = buf /\ Bare.accepted = accepted /\ Bare.delivered = delivered
      /\ Bare'.buf = buf' /\ Bare'.accepted = accepted' /\ Bare'.delivered = delivered'
  BY DEF Bare
<1>2. CASE Advances(Bare, Bare')
  BY <1>1, <1>2 DEF Advances, Arrives, Gives, Abstract!Next, Abstract!Advance,
                    Abstract!Arrivals, Abstract!Deliver
<1>3. CASE Discards(Bare, Bare')
  BY <1>1, <1>3 DEF Discards, Arrives, Gives, Abstract!Next, Abstract!Discard,
                    Abstract!Arrivals, Abstract!Deliver
<1>. QED  BY <1>2, <1>3

LEMMA BufferStep ==
  ASSUME BufInv, Valid(Bare), ~ limitHit', BufNext
  PROVE  Valid(Bare') /\ (Advances(Bare, Bare') \/ Discards(Bare, Bare'))
<1>. DEFINE d == [buf |-> buf', accepted |-> accepted', delivered |-> delivered']
<1>1. /\ Bare.buf = buf /\ Bare.accepted = accepted /\ Bare.delivered = delivered
      /\ d.buf = buf' /\ d.accepted = accepted' /\ d.delivered = delivered' /\ d = Bare'
  BY DEF Bare
<1>2. Valid(Bare) /\ Gathers(Bare, Bare) /\ Advances(Bare, Bare)
  BY KeptGathers DEF Gathers
<1>3. WellFormed(buf) /\ buf.totalRead \in Nat /\ MaxCapacity \in Nat
  BY BufferAssumption DEF BufInv, WellFormed, Buffer
<1>. HIDE DEF d
<1>. SUFFICES Valid(d) /\ (Advances(Bare, d) \/ Discards(Bare, d))
  BY <1>1
<1>4. ASSUME NEW offset \in Offsets, NEW data \in Payloads, BufOnStreamData(offset, data)
      PROVE  Valid(d) /\ Advances(Bare, d)
  <2>. DEFINE r == OnStreamData(buf, offset, data)
  <2>1. offset \in Nat /\ data \in Seq(Bytes)
    BY BufferAssumption
  <2>2. /\ buf' = r.buf /\ delivered' = delivered
        /\ accepted' = Extended(accepted, [o \in r.stored |-> data[o - offset + 1]])
        /\ r.error # "TOO_MANY_STREAM_DATA_INTERVALS"
    BY <1>4 DEF BufOnStreamData, Recorded
  <2>3. Valid(d) /\ Gathers(Bare, d)
    BY <1>1, <1>2, <2>1, <2>2, StoreGathers
  <2>. QED  BY <2>3 DEF Gathers
<1>5. ASSUME NEW n \in 1 .. MaxCapacity, BufReadv(n)
      PROVE  Valid(d) /\ Advances(Bare, d)
  <2>1. PICK k \in 0 .. ReadableBytes(buf) :
             /\ Readv(buf, n).buf = Consume(buf, k)
             /\ Readv(buf, n).data = BytesAt(buf, buf.totalRead, k)
    BY <1>3, ReadvConsumes
  <2>2. /\ buf' = Consume(buf, k) /\ accepted' = accepted
        /\ delivered' = delivered \o BytesAt(buf, buf.totalRead, k)
    BY <1>5, <2>1 DEF BufReadv
  <2>. QED  BY <1>1, <1>2, <2>2, ReadAdvances
<1>6. ASSUME NEW n \in 1 .. MaxCapacity, BufMarkConsumed(n)
      PROVE  Valid(d) /\ Advances(Bare, d)
  <2>1. ReadableBytes(buf) \in Nat
    BY <1>3, ReadableType
  <2>2. n \in 0 .. ReadableBytes(buf) /\ MarkConsumed(buf, n) = Consume(buf, n)
    BY <1>3, <1>6, <2>1 DEF BufMarkConsumed, MarkConsumed
  <2>3. /\ buf' = Consume(buf, n) /\ accepted' = accepted
        /\ delivered' = delivered \o BytesAt(buf, buf.totalRead, n)
    BY <1>6, <2>2 DEF BufMarkConsumed
  <2>. QED  BY <1>1, <1>2, <2>2, <2>3, ReadAdvances
<1>7. CASE BufClear
  <2>1. /\ WellFormed(buf') /\ buf'.totalRead = buf.totalRead
        /\ buf'.received = 0 .. (buf.totalRead - 1)
    BY <1>3, <1>7, ClearWellFormed DEF BufClear
  <2>2. accepted' = Keep(accepted, 0 .. (buf.totalRead - 1)) /\ delivered' = delivered
    BY <1>7 DEF BufClear
  <2>3. buf.totalRead \in buf.totalRead .. (buf.totalRead + MaxCapacity)
    BY <1>3
  <2>. QED  BY <1>1, <1>2, <2>1, <2>2, <2>3, ForgetDiscards
<1>8. CASE BufFlushBufferedFrames
  <2>1. /\ WellFormed(buf') /\ buf'.totalRead = NextExpectedByte(buf)
        /\ buf'.received = 0 .. (NextExpectedByte(buf) - 1)
    BY <1>3, <1>8, FlushWellFormed DEF BufFlushBufferedFrames
  <2>2. accepted' = Keep(accepted, 0 .. (NextExpectedByte(buf) - 1)) /\ delivered' = delivered
    BY <1>8 DEF BufFlushBufferedFrames
  <2>3. NextExpectedByte(buf) \in buf.totalRead .. (buf.totalRead + MaxCapacity)
    BY <1>3, NextExpectedByteFacts
  <2>. QED  BY <1>1, <1>2, <2>1, <2>2, <2>3, ForgetDiscards
<1>. QED  BY <1>4, <1>5, <1>6, <1>7, <1>8 DEF BufNext

LEMMA BareNext == BufInv /\ BareInv /\ [BufNext]_bufVars /\ ~ limitHit'
                    => BareInv' /\ [Abstract!Next]_(Abstract!vars)
<1>. SUFFICES ASSUME BufInv, BareInv, [BufNext]_bufVars, ~ limitHit'
              PROVE  BareInv' /\ [Abstract!Next]_(Abstract!vars)
  OBVIOUS
<1>1. CASE UNCHANGED bufVars
  <2>1. Bare' = Bare /\ limitHit' = limitHit
    BY <1>1 DEF bufVars, Bare
  <2>2. BareInv'
    BY <2>1 DEF BareInv, Valid, Held, Unread, Holds
  <2>3. UNCHANGED Abstract!vars
    BY <1>1 DEF bufVars, Abstract!vars
  <2>. QED  BY <2>2, <2>3
<1>2. CASE BufNext
  <2>1. ~ limitHit
    BY <1>2 DEF BufNext, BufOnStreamData, Recorded, BufReadv, BufMarkConsumed, BufClear,
                BufFlushBufferedFrames
  <2>2. Valid(Bare)
    BY <2>1 DEF BareInv
  <2>3. Valid(Bare') /\ (Advances(Bare, Bare') \/ Discards(Bare, Bare'))
    BY <1>2, <2>2, BufferStep
  <2>4. Abstract!Next
    BY <2>3, StepMaps
  <2>5. BareInv'
    BY <2>3 DEF BareInv
  <2>. QED  BY <2>4, <2>5
<1>. QED  BY <1>1, <1>2

\* The buffer implements the in-order stream as long as the interval limit is not
\* hit, for every geometry of the ring and every sequence of frames, reads,
\* zero-copy reads, clears and flushes: each byte is delivered once, in the order
\* of the offsets, with the value that was first stored at its offset.
THEOREM BufferImplements == BufSpec /\ []~ limitHit => ImplementsInOrderStream
<1>1. BufInit => BareInv /\ Abstract!Init
  BY BareInit
<1>2. BufInv /\ BareInv /\ [BufNext]_bufVars /\ ~ limitHit'
        => BareInv' /\ [Abstract!Next]_(Abstract!vars)
  BY BareNext
<1>. QED  BY <1>1, <1>2, BufInvAlways, PTL DEF BufSpec, ImplementsInOrderStream, Abstract!Spec

-------------------------------------------------------------------------------
(* The handlers of the sequencer. *)

Alike(c, d) == d.buf = c.buf /\ d.accepted = c.accepted /\ d.delivered = c.delivered

LEMMA AlikeFacts ==
  ASSUME NEW c, NEW d, Alike(c, d)
  PROVE  /\ Valid(c) => Valid(d)
         /\ \A e : Advances(e, c) => Advances(e, d)
         /\ \A e : Discards(e, c) => Discards(e, d)
         /\ \A e : Gathers(e, c) => Gathers(e, d)
         /\ \A e : Advances(d, e) => Advances(c, e)
         /\ \A e : Discards(d, e) => Discards(c, e)
<1>1. Valid(c) => Valid(d)
  BY DEF Alike, Valid
<1>2. \A e, n : Gives(e, c, n) => Gives(e, d, n)
  BY DEF Alike, Gives
<1>3. \A e, n : Gives(d, e, n) => Gives(c, e, n)
  BY DEF Alike, Gives
<1>4. \A e : Arrives(e, c) => Arrives(e, d)
  BY DEF Alike, Arrives
<1>5. \A e : Arrives(d, e) => Arrives(c, e)
  BY DEF Alike, Arrives
<1>6. \A e : Advances(e, c) => Advances(e, d)
  BY <1>2, <1>4 DEF Alike, Advances
<1>7. \A e : Discards(e, c) => Discards(e, d)
  BY <1>2, <1>4 DEF Alike, Discards
<1>8. \A e : Advances(d, e) => Advances(c, e)
  BY <1>3, <1>5 DEF Alike, Advances
<1>9. \A e : Discards(d, e) => Discards(c, e)
  BY <1>3, <1>5 DEF Alike, Discards
<1>10. \A e : Gathers(e, c) => Gathers(e, d)
  BY <1>6 DEF Alike, Gathers
<1>. QED  BY <1>1, <1>6, <1>7, <1>8, <1>9, <1>10

LEMMA CallAlike ==
  ASSUME NEW c \in Contexts, NEW x
  PROVE  Alike(c, [c EXCEPT !.calls = @ \cup {x}])
  BY DEF Contexts, Alike

LEMMA ValidIsBacked ==
  ASSUME NEW c, Valid(c)
  PROVE  WellFormed(c.buf) /\ Backed(c.buf) /\ ReadableBytes(c.buf) \in Nat
<1>1. WellFormed(c.buf) /\ Held(c.buf, c.accepted)
  BY DEF Valid
<1>. QED  BY <1>1, ReadableType DEF Held, Holds, Backed

\* What the stream reads is what the buffer has, without zeros.
LEMMA ReadTakesAll ==
  ASSUME NEW c, Sound(c), Valid(c)
  PROVE  /\ Read(c).buf = Consume(c.buf, ReadableBytes(c.buf))
         /\ Read(c).accepted = c.accepted
         /\ Read(c).delivered
              = c.delivered \o BytesAt(c.buf, c.buf.totalRead, ReadableBytes(c.buf))
<1>. DEFINE n == ReadableBytes(c.buf)
            r == Readv(c.buf, n)
            data == BytesAt(c.buf, c.buf.totalRead, n)
            zeros == [i \in 1 .. (n - Len(r.data)) |-> NoByte]
            read == [c EXCEPT !.buf = r.buf, !.delivered = @ \o r.data \o zeros]
<1>1. /\ c \in Contexts /\ WellFormed(c.buf) /\ Backed(c.buf) /\ n \in Nat
      /\ c.delivered \in Seq(Bytes \cup {NoByte})
  BY ValidIsBacked DEF Sound, Valid
<1>2. r.buf = Consume(c.buf, n) /\ r.data = data /\ r.failed = FALSE
  BY <1>1, ReadsAll
<1>3. data \in Seq(Bytes \cup {NoByte})
  <2>. HIDE DEF n
  <2>. QED  BY <1>1, BytesAtType
<1>4. Len(data) = n
  <2>. HIDE DEF n
  <2>. QED  BY <1>1 DEF BytesAt
<1>5. Read(c) = IF r.failed THEN OnUnrecoverableError(read) ELSE read
  BY DEF Read
<1>. HIDE DEF n, r, data
<1>6. zeros = <<>>
  <2>1. 1 .. (n - Len(r.data)) = {}
    BY <1>1, <1>2, <1>4
  <2>. QED  BY <2>1
<1>7. c.delivered \o r.data \o zeros = c.delivered \o data
  <2>. HIDE DEF zeros
  <2>1. c.delivered \o data \in Seq(Bytes \cup {NoByte})
    BY <1>1, <1>3
  <2>2. (c.delivered \o data) \o <<>> = c.delivered \o data
    BY <2>1
  <2>. QED  BY <1>2, <1>6, <2>2
<1>. HIDE DEF zeros
<1>8. /\ read.buf = r.buf /\ read.accepted = c.accepted
      /\ read.delivered = c.delivered \o r.data \o zeros
  BY <1>1 DEF Contexts
<1>. HIDE DEF read
<1>9. Read(c) = read
  BY <1>2, <1>5
<1>. QED  BY <1>2, <1>7, <1>8, <1>9 DEF n, data

LEMMA OnDataAvailableTakesAll ==
  ASSUME NEW c, Sound(c), Valid(c)
  PROVE  LET d == OnDataAvailable(c) IN
         /\ d.buf = Consume(c.buf, ReadableBytes(c.buf))
         /\ d.accepted = c.accepted
         /\ d.delivered
              = c.delivered \o BytesAt(c.buf, c.buf.totalRead, ReadableBytes(c.buf))
<1>. DEFINE e == [c EXCEPT !.calls = @ \cup {"OnDataAvailable"}]
<1>1. c \in Contexts /\ "OnDataAvailable" \in Callbacks
  BY DEF Sound, Callbacks
<1>2. Alike(c, e) /\ Sound(e)
  BY <1>1, CallAlike, CallSound
<1>3. OnDataAvailable(c) = Read(e)
  BY DEF OnDataAvailable
<1>. HIDE DEF e
<1>4. Valid(e)
  BY <1>2, AlikeFacts
<1>5. /\ Read(e).buf = Consume(e.buf, ReadableBytes(e.buf)) /\ Read(e).accepted = e.accepted
      /\ Read(e).delivered = e.delivered \o BytesAt(e.buf, e.buf.totalRead, ReadableBytes(e.buf))
  BY <1>2, <1>4, ReadTakesAll
<1>. QED  BY <1>2, <1>3, <1>5 DEF Alike

LEMMA OnDataAvailableAdvances ==
  ASSUME NEW c0, Valid(c0), NEW c, Sound(c), Valid(c), Gathers(c0, c)
  PROVE  Valid(OnDataAvailable(c)) /\ Advances(c0, OnDataAvailable(c))
<1>. DEFINE n == ReadableBytes(c.buf)
            d == OnDataAvailable(c)
<1>1. n \in 0 .. ReadableBytes(c.buf)
  BY ValidIsBacked
<1>2. /\ d.buf = Consume(c.buf, n) /\ d.accepted = c.accepted
      /\ d.delivered = c.delivered \o BytesAt(c.buf, c.buf.totalRead, n)
  BY OnDataAvailableTakesAll
<1>. HIDE DEF n, d
<1>3. Valid(d) /\ Advances(c0, d)
  BY <1>1, <1>2, ReadAdvances
<1>. QED  BY <1>3 DEF d

\* Clearing after a step so far makes it one that discards.
LEMMA ClearBufferDiscards ==
  ASSUME NEW c0, Valid(c0), NEW c, Sound(c), Valid(c), Advances(c0, c)
  PROVE  Valid(ClearBuffer(c)) /\ Discards(c0, ClearBuffer(c))
<1>. DEFINE d == ClearBuffer(c)
            n == c.buf.totalRead
<1>1. c \in Contexts /\ n \in Nat
  BY ValidFacts DEF Sound
<1>2. d.buf = Clear(c.buf) /\ d.accepted = Keep(c.accepted, 0 .. (n - 1)) /\ d.delivered = c.delivered
  BY <1>1 DEF ClearBuffer, Contexts
<1>3. WellFormed(d.buf) /\ d.buf.totalRead = n /\ d.buf.received = 0 .. (n - 1)
  BY <1>1, <1>2, ClearWellFormed
<1>4. n \in n .. (c0.buf.totalRead + MaxCapacity)
  <2>1. n \in c0.buf.totalRead .. (c0.buf.totalRead + MaxCapacity)
    BY DEF Advances, Arrives
  <2>2. c0.buf.totalRead \in Nat /\ MaxCapacity \in Nat
    BY ValidFacts
  <2>. QED  BY <1>1, <2>1, <2>2
<1>. HIDE DEF d
<1>5. Valid(d) /\ Discards(c0, d)
  BY <1>2, <1>3, <1>4, ForgetDiscards
<1>. QED  BY <1>5 DEF d

\* After everything unread was discarded, clearing once more changes nothing.
LEMMA ClearBufferAgain ==
  ASSUME NEW c0, NEW c, Sound(c), Valid(c), Discards(c0, c)
  PROVE  Valid(ClearBuffer(c)) /\ Discards(c0, ClearBuffer(c))
<1>. DEFINE d == ClearBuffer(c)
            n == c.buf.totalRead
<1>1. c \in Contexts /\ n \in Nat /\ c.accepted \in Histories
  BY ValidFacts DEF Sound, Valid
<1>2. d.buf = Clear(c.buf) /\ d.accepted = Keep(c.accepted, 0 .. (n - 1)) /\ d.delivered = c.delivered
  BY <1>1 DEF ClearBuffer, Contexts
<1>3. Valid(d)
  <2>1. Advances(c, c)
    BY KeptGathers DEF Gathers
  <2>. QED  BY <2>1, ClearBufferDiscards
<1>4. Keep(c.accepted, 0 .. (n - 1)) = c.accepted
  <2>1. DOMAIN c.accepted \subseteq 0 .. (n - 1) /\ c.accepted \in [DOMAIN c.accepted -> Bytes]
    BY <1>1, HistoriesHave DEF Discards
  <2>2. DOMAIN c.accepted \cap (0 .. (n - 1)) = DOMAIN c.accepted
    BY <2>1
  <2>. QED  BY <2>1, <2>2 DEF Keep
<1>5. d.buf.totalRead = c.buf.totalRead
  BY <1>1, <1>2, ClearWellFormed
<1>. HIDE DEF d
<1>6. Discards(c0, d)
  BY <1>2, <1>4, <1>5, DiscardedStays
<1>. QED  BY <1>3, <1>6 DEF d

LEMMA MaybeCloseStreamAfterGathering ==
  ASSUME NEW c0, Valid(c0), NEW c, Sound(c), Valid(c), Gathers(c0, c)
  PROVE  LET d == MaybeCloseStream(c) IN
         /\ Valid(d)
         /\ d = c \/ Discards(c0, d)
         /\ ~ c.blocked /\ IsClosed(c) => Discards(c0, d)
<1>. DEFINE told == IF c.ignoreReadData THEN OnFinRead(c) ELSE OnDataAvailable(c)
<1>1. CASE c.blocked \/ ~ IsClosed(c)
  BY <1>1 DEF MaybeCloseStream
<1>2. CASE ~ (c.blocked \/ ~ IsClosed(c))
  <2>1. MaybeCloseStream(c) = ClearBuffer(told)
    BY <1>2 DEF MaybeCloseStream
  <2>2. Sound(told) /\ Valid(told) /\ Advances(c0, told)
    <3>1. CASE c.ignoreReadData
      <4>1. "OnFinRead" \in Callbacks /\ c \in Contexts
        BY DEF Callbacks, Sound
      <4>2. Sound(OnFinRead(c)) /\ Alike(c, OnFinRead(c))
        BY <4>1, CallSound, CallAlike DEF OnFinRead
      <4>3. Advances(c0, c)
        BY DEF Gathers
      <4>4. Valid(OnFinRead(c)) /\ Advances(c0, OnFinRead(c))
        BY <4>2, <4>3, AlikeFacts
      <4>. QED  BY <3>1, <4>2, <4>4
    <3>2. CASE ~ c.ignoreReadData
      BY <3>2, OnDataAvailableSound, OnDataAvailableAdvances
    <3>. QED  BY <3>1, <3>2
  <2>. HIDE DEF told
  <2>. QED  BY <2>1, <2>2, ClearBufferDiscards
<1>. QED  BY <1>1, <1>2

LEMMA MaybeCloseStreamAfterDiscarding ==
  ASSUME NEW c0, NEW c, Sound(c), Valid(c), Discards(c0, c), ~ HasBytesToRead(c.buf)
  PROVE  Valid(MaybeCloseStream(c)) /\ Discards(c0, MaybeCloseStream(c))
<1>. DEFINE told == IF c.ignoreReadData THEN OnFinRead(c) ELSE OnDataAvailable(c)
<1>1. CASE c.blocked \/ ~ IsClosed(c)
  BY <1>1 DEF MaybeCloseStream
<1>2. CASE ~ (c.blocked \/ ~ IsClosed(c))
  <2>1. MaybeCloseStream(c) = ClearBuffer(told)
    BY <1>2 DEF MaybeCloseStream
  <2>2. Sound(told) /\ Valid(told) /\ Discards(c0, told)
    <3>1. CASE c.ignoreReadData
      <4>1. "OnFinRead" \in Callbacks /\ c \in Contexts
        BY DEF Callbacks, Sound
      <4>2. Sound(OnFinRead(c)) /\ Alike(c, OnFinRead(c))
        BY <4>1, CallSound, CallAlike DEF OnFinRead
      <4>3. Valid(OnFinRead(c)) /\ Discards(c0, OnFinRead(c))
        BY <4>2, AlikeFacts
      <4>. QED  BY <3>1, <4>2, <4>3
    <3>2. CASE ~ c.ignoreReadData
      <4>. DEFINE e == OnDataAvailable(c)
      <4>1. Gathers(c, c)
        BY KeptGathers
      <4>2. Sound(e) /\ Valid(e)
        BY <4>1, OnDataAvailableSound, OnDataAvailableAdvances
      <4>3. WellFormed(c.buf) /\ ReadableBytes(c.buf) = 0 /\ 0 \in 0 .. ReadableBytes(c.buf)
        BY ValidIsBacked DEF HasBytesToRead
      <4>4. /\ e.buf = Consume(c.buf, 0) /\ e.accepted = c.accepted
            /\ e.delivered = c.delivered \o BytesAt(c.buf, c.buf.totalRead, 0)
        BY <4>3, OnDataAvailableTakesAll
      <4>. HIDE DEF e
      <4>5. e.buf.totalRead = c.buf.totalRead
        BY <4>3, <4>4, ConsumeUnread, ValidFacts
      <4>6. BytesAt(c.buf, c.buf.totalRead, 0) = <<>>
        BY DEF BytesAt
      <4>7. e.delivered = c.delivered
        <5>1. c.delivered \in Seq(Bytes \cup {NoByte})
          BY DEF Valid
        <5>2. c.delivered \o <<>> = c.delivered
          BY <5>1
        <5>. QED  BY <4>4, <4>6, <5>2
      <4>8. Discards(c0, e)
        BY <4>4, <4>5, <4>7, DiscardedStays
      <4>. QED  BY <3>2, <4>2, <4>8 DEF e
    <3>. QED  BY <3>1, <3>2
  <2>. HIDE DEF told
  <2>. QED  BY <2>1, <2>2, ClearBufferAgain
<1>. QED  BY <1>1, <1>2

LEMMA FlushDiscards ==
  ASSUME NEW c0, Valid(c0), NEW c, Sound(c), Valid(c), Gathers(c0, c)
  PROVE  Valid(Flush(c)) /\ Discards(c0, Flush(c))
<1>. DEFINE n == NextExpectedByte(c.buf)
            b == FlushBufferedFrames(c.buf)
            f == Keep(c.accepted, 0 .. (n - 1))
            flushed == [c EXCEPT !.buf = b, !.accepted = f]
<1>1. /\ c \in Contexts /\ WellFormed(c.buf) /\ c.accepted \in Histories
      /\ c.buf.received \subseteq 0 .. (c.highestOffset - 1) /\ c.highestOffset \in Nat
  BY DEF Sound, Valid, Contexts
<1>2. WellFormed(b) /\ b.totalRead = n /\ b.received = 0 .. (n - 1)
  BY <1>1, FlushWellFormed
<1>3. f \in Histories
  BY <1>1, KeepType
<1>4. n \in c.buf.totalRead .. (c.buf.totalRead + MaxCapacity)
  BY <1>1, NextExpectedByteFacts
<1>5. Backed(b) /\ ~ HasBytesToRead(b)
  BY <1>2, ClearedIsQuiet
<1>6. b.received \subseteq 0 .. (c.highestOffset - 1)
  <2>1. \A o \in 0 .. (n - 1) : o <= c.highestOffset - 1
    <3>1. CASE c.buf.received = {}
      BY <3>1 DEF NextExpectedByte
    <3>2. CASE c.buf.received # {}
      <4>1. n - 1 \in 0 .. (c.highestOffset - 1)
        BY <1>1, <3>2, NextExpectedByteFacts
      <4>2. n \in Int
        BY <1>4, ValidFacts
      <4>. HIDE DEF n
      <4>. QED  BY <1>1, <4>1, <4>2
    <3>. QED  BY <3>1, <3>2
  <2>. HIDE DEF b, n
  <2>. QED  BY <1>1, <1>2, <2>1
<1>7. Flush(c) = MaybeCloseStream(flushed)
  BY DEF Flush
<1>. HIDE DEF b, f, n
<1>8. /\ flushed.buf = b /\ flushed.accepted = f /\ flushed.delivered = c.delivered
  BY <1>1 DEF Contexts
<1>9. Sound(flushed)
  BY <1>2, <1>3, <1>5, <1>6, EmptiedBufferSound
<1>. HIDE DEF flushed
<1>10. Valid(flushed) /\ Discards(c0, flushed)
  <2>1. Advances(c0, c) /\ c.buf.totalRead = c0.buf.totalRead
    BY DEF Gathers
  <2>. QED  BY <1>2, <1>4, <1>8, <2>1, ForgetDiscards DEF f
<1>. QED  BY <1>5, <1>7, <1>8, <1>9, <1>10, MaybeCloseStreamAfterDiscarding

\* A frame below the read position stores nothing.
LEMMA ReceivedFrame ==
  ASSUME NEW b, WellFormed(b), NEW offset \in Nat, NEW data \in Seq(Bytes), Len(data) # 0,
         offset + Len(data) <= b.totalRead
  PROVE  OnStreamData(b, offset, data) = [buf |-> b, error |-> "NO_ERROR", stored |-> {}]
<1>. DEFINE frame == offset .. (offset + Len(data) - 1)
            new == NewlyReceived(b, frame)
            grown == [b EXCEPT !.received = @ \cup frame]
            copied == CopyStreamData(grown, new, offset, data)
<1>1. b.totalRead \in Nat /\ 0 .. (b.totalRead - 1) \subseteq b.received /\ MaxCapacity \in Nat
  BY BufferAssumption DEF WellFormed, Buffer
<1>2. new = {}
  <2>1. frame \subseteq 0 .. (b.totalRead - 1)
    BY <1>1
  <2>. HIDE DEF frame
  <2>. QED  BY <1>1, <2>1 DEF NewlyReceived
<1>3. WithinWindow(b, offset, data)
  BY <1>1 DEF WithinWindow
<1>. QED  BY <1>2, <1>3 DEF OnStreamData

Steps(c, d) == Advances(c, d) \/ Discards(c, d)

\* A frame with data that were all read or discarded.
Passed(c, offset, data) == Len(data) # 0 /\ offset + Len(data) <= c.buf.totalRead

LEMMA OnFrameDataSteps ==
  ASSUME NEW c, Sound(c), Valid(c), NEW offset \in Nat, NEW data \in Seq(Bytes),
         c.closeOffset # NoOffset => offset + Len(data) <= c.closeOffset,
         ~ OnFrameData(c, offset, data).limitHit
  PROVE  /\ Valid(OnFrameData(c, offset, data)) /\ Steps(c, OnFrameData(c, offset, data))
         /\ \A c0 : Discards(c0, c) /\ Passed(c, offset, data)
                      => Discards(c0, OnFrameData(c, offset, data))
<1>. DEFINE r == OnStreamData(c.buf, offset, data)
            g == [o \in r.stored |-> data[o - offset + 1]]
            stored == [c EXCEPT !.highestOffset = Max({@, offset + Len(data)}),
                                !.buf = r.buf,
                                !.accepted = Extended(@, g),
                                !.limitHit = @ \/ r.error = "TOO_MANY_STREAM_DATA_INTERVALS"]
            d == OnFrameData(c, offset, data)
<1>1. d = IF r.error # "NO_ERROR" THEN OnUnrecoverableError(stored)
          ELSE IF \/ r.stored = {} \/ c.blocked
                  \/ ~ (~ HasBytesToRead(c.buf) /\ HasBytesToRead(r.buf))
          THEN stored
          ELSE IF c.ignoreReadData THEN Flush(stored) ELSE OnDataAvailable(stored)
  BY DEF OnFrameData
<1>2. /\ Sound(stored) /\ stored.buf = r.buf /\ stored.calls = c.calls
      /\ stored.blocked = c.blocked /\ stored.closeOffset = c.closeOffset
      /\ stored.ignoreReadData = c.ignoreReadData
      /\ stored.limitHit <=> c.limitHit \/ r.error = "TOO_MANY_STREAM_DATA_INTERVALS"
      /\ stored.buf.totalRead = c.buf.totalRead
  BY StoredSound
<1>3. /\ c \in Contexts /\ WellFormed(c.buf) /\ stored \in Contexts
  BY <1>2 DEF Sound
<1>4. /\ stored.buf = r.buf /\ stored.accepted = Extended(c.accepted, g)
      /\ stored.delivered = c.delivered
  <2>. HIDE DEF r, g
  <2>. QED  BY <1>3 DEF Contexts
<1>5. Passed(c, offset, data) => r = [buf |-> c.buf, error |-> "NO_ERROR", stored |-> {}]
  BY <1>3, ReceivedFrame DEF Passed
<1>. HIDE DEF stored
<1>6. SUFFICES /\ Valid(d) /\ Steps(c, d)
               /\ \A c0 : Discards(c0, c) /\ Passed(c, offset, data) => Discards(c0, d)
  OBVIOUS
<1>7. r.error # "TOO_MANY_STREAM_DATA_INTERVALS"
  <2>1. SUFFICES ASSUME r.error = "TOO_MANY_STREAM_DATA_INTERVALS"  PROVE FALSE
    OBVIOUS
  <2>2. d = [stored EXCEPT !.calls = @ \cup {"OnUnrecoverableError"}]
    BY <1>1, <2>1 DEF OnUnrecoverableError
  <2>3. d.limitHit = stored.limitHit
    BY <1>3, <2>2 DEF Contexts
  <2>. HIDE DEF r
  <2>. QED  BY <1>2, <2>1, <2>3
<1>8. Valid(stored) /\ Gathers(c, stored)
  BY <1>4, <1>7, StoreGathers
<1>9. \A c0 : Discards(c0, c) /\ Passed(c, offset, data) => Discards(c0, d)
  <2>1. SUFFICES ASSUME NEW c0, Discards(c0, c), Passed(c, offset, data)
                 PROVE  Discards(c0, d)
    OBVIOUS
  <2>2. r.buf = c.buf /\ r.error = "NO_ERROR" /\ r.stored = {}
    BY <1>5, <2>1
  <2>. HIDE DEF r, d
  <2>3. Extended(c.accepted, g) = c.accepted
    <3>1. DOMAIN g = {}
      BY <2>2
    <3>. HIDE DEF g
    <3>2. c.accepted \in [DOMAIN c.accepted -> Bytes]
      BY HistoriesHave DEF Valid
    <3>. QED  BY <3>1, <3>2 DEF Extended
  <2>4. d = stored
    BY <1>1, <2>2
  <2>. HIDE DEF g
  <2>. QED  BY <1>4, <2>1, <2>2, <2>3, <2>4, DiscardedStays
<1>. HIDE DEF r, g, d
<1>10. Steps(c, stored)
  BY <1>8 DEF Gathers, Steps
<1>11. Valid(d) /\ Steps(c, d)
  <2>1. CASE r.error # "NO_ERROR"
    <3>1. d = [stored EXCEPT !.calls = @ \cup {"OnUnrecoverableError"}]
      BY <1>1, <2>1 DEF OnUnrecoverableError
    <3>2. Alike(stored, d)
      BY <1>3, <3>1, CallAlike
    <3>. QED  BY <1>8, <1>10, <3>2, AlikeFacts DEF Steps
  <2>2. CASE d = stored
    BY <1>8, <1>10, <2>2
  <2>3. CASE d = Flush(stored)
    BY <1>2, <1>8, <2>3, FlushDiscards DEF Steps
  <2>4. CASE d = OnDataAvailable(stored)
    BY <1>2, <1>8, <2>4, OnDataAvailableAdvances DEF Steps
  <2>. QED  BY <1>1, <2>1, <2>2, <2>3, <2>4
<1>. QED  BY <1>9, <1>11

LEMMA HandleStreamFrameSteps ==
  ASSUME NEW c, Sound(c), Valid(c), NEW offset \in Nat, NEW data \in Seq(Bytes), NEW fin,
         ~ HandleStreamFrame(c, offset, data, fin).limitHit
  PROVE  LET d == HandleStreamFrame(c, offset, data, fin) IN Valid(d) /\ Steps(c, d)
<1>. DEFINE end == offset + Len(data)
            final == [c EXCEPT !.closeOffset = end]
            closing == MaybeCloseStream(final)
            d == HandleStreamFrame(c, offset, data, fin)
<1>1. /\ c \in Contexts /\ c.closeOffset \in Nat \cup {NoOffset} /\ end \in Nat /\ end # NoOffset
      /\ c.highestOffset \in Nat
  BY SequencerAssumption DEF Sound, Contexts
<1>2. d = IF c.closeOffset # NoOffset /\ end > c.closeOffset THEN [c EXCEPT !.aborted = TRUE]
          ELSE IF ~ fin THEN OnFrameData(c, offset, data)
          ELSE IF ~ CloseOffsetAcceptable(c, end) THEN OnUnrecoverableError(c)
          ELSE IF Len(data) = 0 THEN closing ELSE OnFrameData(closing, offset, data)
  BY DEF HandleStreamFrame
<1>3. Steps(c, c)
  BY KeptGathers DEF Gathers, Steps
<1>. HIDE DEF end, d
<1>4. CASE c.closeOffset # NoOffset /\ end > c.closeOffset
  <2>1. d = [c EXCEPT !.aborted = TRUE]
    BY <1>2, <1>4
  <2>2. Alike(c, d)
    BY <1>1, <2>1 DEF Contexts, Alike
  <2>3. Valid(d) /\ Steps(c, d)
    BY <1>3, <2>2, AlikeFacts DEF Steps
  <2>. QED  BY <2>3 DEF d
<1>5. CASE /\ ~ (c.closeOffset # NoOffset /\ end > c.closeOffset)
           /\ ~ fin
  <2>1. d = OnFrameData(c, offset, data)
    BY <1>2, <1>5
  <2>2. c.closeOffset # NoOffset => offset + Len(data) <= c.closeOffset
    BY <1>1, <1>5 DEF end
  <2>3. ~ OnFrameData(c, offset, data).limitHit
    BY <2>1 DEF d
  <2>. QED  BY <2>1, <2>2, <2>3, OnFrameDataSteps DEF d
<1>6. CASE /\ ~ (c.closeOffset # NoOffset /\ end > c.closeOffset)
           /\ fin /\ ~ CloseOffsetAcceptable(c, end)
  <2>1. d = [c EXCEPT !.calls = @ \cup {"OnUnrecoverableError"}]
    BY <1>2, <1>6 DEF OnUnrecoverableError
  <2>2. Alike(c, d)
    BY <1>1, <2>1, CallAlike
  <2>3. Valid(d) /\ Steps(c, d)
    BY <1>3, <2>2, AlikeFacts DEF Steps
  <2>. QED  BY <2>3 DEF d
<1>7. CASE /\ ~ (c.closeOffset # NoOffset /\ end > c.closeOffset)
           /\ fin /\ CloseOffsetAcceptable(c, end)
  <2>1. /\ final \in Contexts /\ Alike(c, final) /\ final.closeOffset = end
        /\ final.limitHit = c.limitHit /\ final.highestOffset = c.highestOffset
    BY <1>1 DEF Contexts, Alike
  <2>2. c.highestOffset <= end
    BY <1>7 DEF CloseOffsetAcceptable
  <2>3. Sound(final)
    BY <2>1, <2>2 DEF Sound, Alike
  <2>4. Valid(final) /\ Gathers(final, final) /\ Gathers(c, final)
    <3>1. Valid(final) /\ Gathers(c, c)
      BY <2>1, AlikeFacts, KeptGathers
    <3>. QED  BY <2>1, <3>1, AlikeFacts, KeptGathers
  <2>5. /\ Sound(closing) /\ Same(final, closing)
        /\ Valid(closing)
        /\ closing = final \/ Discards(c, closing)
        /\ ~ final.blocked /\ IsClosed(final) => Discards(c, closing)
    BY <2>3, <2>4, MaybeCloseStreamSound, MaybeCloseStreamAfterGathering
  <2>6. ~ (~ final.blocked /\ IsClosed(final)) => closing = final
    BY DEF MaybeCloseStream
  <2>. HIDE DEF final, closing
  <2>7. CASE Len(data) = 0
    <3>1. d = closing
      BY <1>2, <1>7, <2>7
    <3>2. Valid(d) /\ Steps(c, d)
      BY <2>4, <2>5, <3>1 DEF Gathers, Steps
    <3>. QED  BY <3>2 DEF d
  <2>8. CASE Len(data) # 0
    <3>1. d = OnFrameData(closing, offset, data) /\ ~ OnFrameData(closing, offset, data).limitHit
      BY <1>2, <1>7, <2>8 DEF d
    <3>2. closing.closeOffset # NoOffset => offset + Len(data) <= closing.closeOffset
      BY <1>1, <2>1, <2>5 DEF Same, end
    <3>3. /\ Valid(d) /\ Steps(closing, d)
          /\ \A c0 : Discards(c0, closing) /\ Passed(closing, offset, data) => Discards(c0, d)
      BY <2>5, <3>1, <3>2, OnFrameDataSteps
    <3>4. CASE closing = final
      BY <2>1, <3>3, <3>4, AlikeFacts DEF Steps, d
    <3>5. CASE ~ final.blocked /\ IsClosed(final)
      <4>1. Discards(c, closing)
        BY <2>5, <3>5
      <4>2. end <= closing.buf.totalRead
        <5>1. closing.buf.totalRead >= c.buf.totalRead
          BY <4>1, ValidFacts DEF Discards, Arrives
        <5>2. c.buf.totalRead >= end
          BY <2>1, <3>5 DEF IsClosed, Alike
        <5>3. closing.buf.totalRead \in Nat /\ c.buf.totalRead \in Nat
          BY <2>5, ValidFacts
        <5>. QED  BY <1>1, <5>1, <5>2, <5>3
      <4>3. Discards(c, d)
        BY <2>8, <3>3, <4>1, <4>2 DEF end, Passed
      <4>. QED  BY <3>3, <4>3 DEF Steps, d
    <3>. QED  BY <2>6, <3>4, <3>5
  <2>. QED  BY <2>7, <2>8
<1>. QED  BY <1>4, <1>5, <1>6, <1>7

LEMMA HandlersStep ==
  ASSUME SeqInv, Valid(Now), SeqNext, ~ limitHit'
  PROVE  \E d : Become(d) /\ Valid(d) /\ Steps(Now, d)
<1>1. Sound(Now) /\ Now \in Contexts /\ Gathers(Now, Now) /\ Steps(Now, Now)
  BY KeptGathers DEF SeqInv, Sound, Gathers, Steps
<1>2. CASE \E offset \in Offsets, data \in Payloads, fin \in BOOLEAN : OnStreamFrame(offset, data, fin)
  <2>1. PICK offset \in Offsets, data \in Payloads, fin \in BOOLEAN : OnStreamFrame(offset, data, fin)
    BY <1>2
  <2>2. offset \in Nat /\ data \in Seq(Bytes)
    BY BufferAssumption
  <2>3. /\ Become(HandleStreamFrame(Now, offset, data, fin))
        /\ ~ HandleStreamFrame(Now, offset, data, fin).limitHit
    BY <2>1 DEF OnStreamFrame, Become
  <2>. QED  BY <1>1, <2>2, <2>3, HandleStreamFrameSteps
<1>3. CASE SetBlockedUntilFlush
  <2>. DEFINE d == [Now EXCEPT !.blocked = TRUE]
  <2>1. Become(d)
    BY <1>3 DEF SetBlockedUntilFlush
  <2>2. Alike(Now, d)
    BY <1>1 DEF Contexts, Alike
  <2>. HIDE DEF d
  <2>3. Valid(d) /\ Steps(Now, d)
    BY <1>1, <2>2, AlikeFacts DEF Steps
  <2>. QED  BY <2>1, <2>3
<1>4. CASE SetUnblocked
  <2>. DEFINE e == [Now EXCEPT !.blocked = FALSE]
              d == IF IsClosed(e) \/ HasBytesToRead(e.buf) THEN OnDataAvailable(e) ELSE e
  <2>1. Become(d)
    BY <1>4 DEF SetUnblocked
  <2>2. /\ e \in Contexts /\ Alike(Now, e) /\ e.limitHit = Now.limitHit
        /\ e.closeOffset = Now.closeOffset /\ e.highestOffset = Now.highestOffset
    BY <1>1 DEF Contexts, Alike
  <2>. HIDE DEF e
  <2>3. Sound(e)
    BY <1>1, <2>2 DEF Sound, Alike
  <2>4. Valid(e) /\ Gathers(Now, e)
    BY <1>1, <2>2, AlikeFacts
  <2>5. Valid(d) /\ Steps(Now, d)
    BY <2>3, <2>4, OnDataAvailableAdvances DEF Gathers, Steps
  <2>. HIDE DEF d
  <2>. QED  BY <2>1, <2>5
<1>5. CASE StopReading
  <2>1. CASE ignoreReadData
    BY <1>1, <1>5, <2>1 DEF StopReading
  <2>2. CASE ~ ignoreReadData
    <3>. DEFINE e == [Now EXCEPT !.ignoreReadData = TRUE]
    <3>1. Become(Flush(e))
      BY <1>5, <2>2 DEF StopReading
    <3>2. /\ e \in Contexts /\ Alike(Now, e) /\ e.limitHit = Now.limitHit
          /\ e.closeOffset = Now.closeOffset /\ e.highestOffset = Now.highestOffset
      BY <1>1 DEF Contexts, Alike
    <3>. HIDE DEF e
    <3>3. Sound(e)
      BY <1>1, <3>2 DEF Sound, Alike
    <3>4. Valid(e) /\ Gathers(Now, e)
      BY <1>1, <3>2, AlikeFacts
    <3>5. Valid(Flush(e)) /\ Steps(Now, Flush(e))
      BY <3>3, <3>4, FlushDiscards DEF Steps
    <3>. QED  BY <3>1, <3>5
  <2>. QED  BY <2>1, <2>2
<1>6. Valid(ClearBuffer(Now)) /\ Steps(Now, ClearBuffer(Now))
  <2>1. Advances(Now, Now)
    BY <1>1 DEF Gathers
  <2>. QED  BY <1>1, <2>1, ClearBufferDiscards DEF Steps
<1>7. CASE ReleaseBuffer
  BY <1>6, <1>7 DEF ReleaseBuffer
<1>8. CASE ReleaseBufferIfEmpty
  BY <1>1, <1>6, <1>8 DEF ReleaseBufferIfEmpty
<1>. QED  BY <1>2, <1>3, <1>4, <1>5, <1>7, <1>8 DEF SeqNext

LEMMA SequencerStep == SeqInv /\ BareInv /\ [SeqNext]_seqVars /\ ~ limitHit /\ ~ limitHit'
                         => BareInv' /\ [Abstract!Next]_(Abstract!vars)
<1>. SUFFICES ASSUME SeqInv, BareInv, [SeqNext]_seqVars, ~ limitHit, ~ limitHit'
              PROVE  BareInv' /\ [Abstract!Next]_(Abstract!vars)
  OBVIOUS
<1>1. CASE UNCHANGED seqVars
  <2>1. Bare' = Bare
    BY <1>1 DEF seqVars, Bare
  <2>2. Valid(Bare')
    BY <2>1 DEF BareInv
  <2>3. BareInv'
    BY <2>2 DEF BareInv
  <2>4. UNCHANGED Abstract!vars
    BY <1>1 DEF seqVars, Abstract!vars
  <2>. QED  BY <2>3, <2>4
<1>2. CASE SeqNext
  <2>1. Alike(Bare, Now) /\ Valid(Now)
    <3>1. Alike(Bare, Now)
      BY DEF Alike, Bare, Now
    <3>. QED  BY <3>1, AlikeFacts DEF BareInv
  <2>2. PICK d : Become(d) /\ Valid(d) /\ Steps(Now, d)
    BY <1>2, <2>1, HandlersStep
  <2>3. Alike(d, Bare')
    BY <2>2 DEF Become, Alike, Bare
  <2>4. Valid(Bare') /\ Steps(Bare, Bare')
    BY <2>1, <2>2, <2>3, AlikeFacts DEF Steps
  <2>5. BareInv'
    BY <2>4 DEF BareInv
  <2>6. Abstract!Next
    BY <2>4, StepMaps DEF Steps
  <2>. QED  BY <2>5, <2>6
<1>. QED  BY <1>1, <1>2

\* The sequencer implements the in-order stream as long as the interval limit is not
\* hit: whatever frames arrive in whatever order, and whenever the stream blocks,
\* unblocks, stops reading, comes to its end or releases its buffer, what it was
\* given is a sequence of the bytes that first arrived, each once and in order, and
\* bytes are left out only where a handler discards them.
THEOREM SequencerImplements == SeqSpec /\ []~ limitHit => ImplementsInOrderStream
<1>1. SeqInit => BareInv /\ Abstract!Init
  BY BareInit DEF SeqInit
<1>2. SeqInv /\ BareInv /\ [SeqNext]_seqVars /\ ~ limitHit /\ ~ limitHit'
        => BareInv' /\ [Abstract!Next]_(Abstract!vars)
  BY SequencerStep
<1>. QED  BY <1>1, <1>2, SeqInvAlways, PTL DEF SeqSpec, ImplementsInOrderStream, Abstract!Spec

=============================================================================
