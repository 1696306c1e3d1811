------------------------------ MODULE ByteCodec ------------------------------
(***************************************************************************)
(* DataWriter and DataReader (src/base/byte_codec): the fields of the      *)
(* messages of all proxies, in network byte order.  An integer is the set  *)
(* of its bits that are 1, so that 64 bits are within reach; a byte is a   *)
(* subset of 0 .. 7.                                                       *)
(*                                                                         *)
(* A message is written into a buffer, field by field, cut off somewhere   *)
(* as TCP may deliver it, and read by the same fields.                     *)
(***************************************************************************)
EXTENDS Integers, Sequences, SequencesExt, FiniteSets, FiniteSetsExt

CONSTANTS
  Capacities,    \* sizes of the writer's buffer, in bytes
  MaxFields,     \* fields of a message
  CodecBits      \* sizes in bits of the numbers that are written

ASSUME CodecAssumption ==
  /\ Capacities \subseteq Nat /\ IsFiniteSet(Capacities) /\ MaxFields \in Nat
  /\ CodecBits \subseteq 0 .. 64

VARIABLES
  writer,   \* its bytes and capacity, and the fields whose write succeeded
  reader    \* "none", or the bytes it has, pos_, and the fields read so far

codecVars == <<writer, reader>>

-------------------------------------------------------------------------------
(* Integers as sets of bits. *)

ShiftRight(v, n) == {b - n : b \in {c \in v : c >= n}}
ShiftLeft(v, n) == {b + n : b \in v}
LowBits(v, n) == {b \in v : b < n}
ByteAt(v, k) == LowBits(ShiftRight(v, 8 * k), 8)

\* HostToNet and NetToHost: the n low bytes of v, the highest first.
ToNet(v, n) == [i \in 1 .. n |-> ByteAt(v, n - i)]
FromNet(bytes) == UNION {ShiftLeft(bytes[i], 8 * (Len(bytes) - i)) : i \in DOMAIN bytes}

\* WriteUInt8, 16, 32, 64 and WriteBytesToUInt64 write that many bytes.
FixedKinds == [uint8 |-> 1, uint16 |-> 2, uint24 |-> 3, uint32 |-> 4, uint64 |-> 8]

-------------------------------------------------------------------------------
(* DataWriter. *)

Remaining(w) == w.capacity - Len(w.bytes)

\* BeginWrite and WriteBytes: all of it or nothing.
WriteBytes(w, bytes) ==
  IF Remaining(w) < Len(bytes) THEN [ok |-> FALSE, w |-> w]
  ELSE [ok |-> TRUE, w |-> [w EXCEPT !.bytes = @ \o bytes]]

ErrorMask == 62 .. 63
Mask8Bytes == 30 .. 61
Mask4Bytes == 14 .. 29
Mask2Bytes == 6 .. 13

\* 0 for a value that has no encoding.
GetVarInt62Len(v) ==
  CASE v \cap ErrorMask # {} -> 0
    [] v \cap ErrorMask = {} /\ v \cap Mask8Bytes # {} -> 8
    [] v \cap (ErrorMask \cup Mask8Bytes) = {} /\ v \cap Mask4Bytes # {} -> 4
    [] v \cap (ErrorMask \cup Mask8Bytes \cup Mask4Bytes) = {} /\ v \cap Mask2Bytes # {} -> 2
    [] OTHER -> 1

\* The two highest bits of the first byte say how long the encoding is.
Prefix62(n) == CASE n = 1 -> {} [] n = 2 -> {6} [] n = 4 -> {7} [] n = 8 -> {6, 7}
WriteVarInt62(w, v) ==
  LET n == GetVarInt62Len(v)
      bytes == ToNet(LowBits(v, 8 * n - 2), n)
  IN  IF n = 0 THEN [ok |-> FALSE, w |-> w]
      ELSE WriteBytes(w, [bytes EXCEPT ![1] = @ \cup Prefix62(n)])

\* Seven bits to a byte, the lowest first; the highest bit says that more follow.
GetVarIntLen(v) ==
  LET n == IF v = {} THEN 1 ELSE Max(v) \div 7 + 1 IN IF n <= 8 THEN n ELSE 0
WriteVarIntUnchecked(w, v) ==
  LET n == GetVarIntLen(v)
      byte(i) == LowBits(ShiftRight(v, 7 * (i - 1)), 7) \cup (IF i < n THEN {7} ELSE {})
      room == Min({n, Remaining(w)})
  IN  [ok |-> n # 0, w |-> [w EXCEPT !.bytes = @ \o [i \in 1 .. room |-> byte(i)]]]
WriteVarInt(w, v) ==
  LET n == GetVarIntLen(v)
      byte(i) == LowBits(ShiftRight(v, 7 * (i - 1)), 7) \cup (IF i < n THEN {7} ELSE {})
  IN  IF n = 0 THEN [ok |-> FALSE, w |-> w] ELSE WriteBytes(w, [i \in 1 .. n |-> byte(i)])

\* Seek leaves bytes as they are in the buffer; here they are 0.
Skip(w, n) == WriteBytes(w, [i \in 1 .. n |-> {}])

Kinds == DOMAIN FixedKinds \cup {"varint62", "varint", "seek"}

Write(w, kind, v) ==
  CASE kind = "varint62" -> WriteVarInt62(w, v)
    [] kind = "varint" -> WriteVarInt(w, v)
    [] kind = "seek" -> Skip(w, 2)
    [] OTHER -> WriteBytes(w, ToNet(v, FixedKinds[kind]))

-------------------------------------------------------------------------------
(* DataReader. *)

BytesRemaining(r) == Len(r.bytes) - r.pos
NextBytes(r, n) == SubSeq(r.bytes, r.pos + 1, r.pos + n)
Advance(r, n) == [r EXCEPT !.pos = @ + n]
OnFailure(r) == [r EXCEPT !.pos = Len(r.bytes)]

Fails(r) == [ok |-> FALSE, r |-> r, v |-> {}]

\* ReadBytes: a read that finds too little gives up the rest.
ReadBytes(r, n) ==
  IF n > BytesRemaining(r) THEN Fails(OnFailure(r))
  ELSE [ok |-> TRUE, r |-> Advance(r, n), v |-> FromNet(NextBytes(r, n))]

\* Unlike it, a variable length integer that is cut short is left for later.
Length62(byte) ==
  CASE {6, 7} \subseteq byte -> 8 [] 7 \in byte /\ 6 \notin byte -> 4
    [] 6 \in byte /\ 7 \notin byte -> 2 [] OTHER -> 1
ReadVarInt62(r) ==
  IF BytesRemaining(r) = 0 THEN Fails(r)
  ELSE LET n == Length62(r.bytes[r.pos + 1])
       IN  IF BytesRemaining(r) < n THEN Fails(r)
           ELSE [ok |-> TRUE, r |-> Advance(r, n), v |-> LowBits(FromNet(NextBytes(r, n)), 8 * n - 2)]

ReadVarInt(r) ==
  LET rest == NextBytes(r, BytesRemaining(r))
      ends == {i \in DOMAIN rest : 7 \notin rest[i]}
      n == Min(ends)
  IN  IF ends = {} \/ n > 8 THEN Fails(r)
      ELSE [ok |-> TRUE, r |-> Advance(r, n),
            v |-> UNION {ShiftLeft(LowBits(rest[i], 7), 7 * (i - 1)) : i \in 1 .. n}]

Read(r, kind) ==
  CASE kind = "varint62" -> ReadVarInt62(r)
    [] kind = "varint" -> ReadVarInt(r)
    [] kind = "seek" -> ReadBytes(r, 2)
    [] OTHER -> ReadBytes(r, FixedKinds[kind])

-------------------------------------------------------------------------------
(* A message is written, delivered and read. *)

\* Numbers of every size at which an encoding changes: one bit, all bits, both ends.
CodecValues == UNION {{ {}, 0 .. n - 1, {n - 1} \cap Nat, {0, n - 1} \cap Nat } : n \in CodecBits}

NoReader == [bytes |-> <<>>, pos |-> 0, failed |-> FALSE, values |-> <<>>, on |-> FALSE]

CodecInit ==
  /\ \E capacity \in Capacities : writer = [bytes |-> <<>>, capacity |-> capacity, fields |-> <<>>]
  /\ reader = NoReader

WriteField ==
  /\ ~ reader.on /\ Len(writer.fields) < MaxFields
  /\ \E kind \in Kinds, v \in CodecValues :
       LET result == Write(writer, kind, v)
           n == FixedKinds[kind]
           kept == IF kind \in DOMAIN FixedKinds THEN LowBits(v, 8 * n)
                   ELSE IF kind = "seek" THEN {} ELSE v
       IN  writer' = IF result.ok THEN [result.w EXCEPT !.fields = Append(@, [kind |-> kind, v |-> kept])]
                     ELSE result.w
  /\ UNCHANGED reader

\* A reader of the first bytes, up to some point, or of all.
Deliver ==
  /\ ~ reader.on
  /\ \E n \in 0 .. Len(writer.bytes) :
       reader' = [NoReader EXCEPT !.bytes = SubSeq(writer.bytes, 1, n), !.on = TRUE]
  /\ UNCHANGED writer

ReadField ==
  /\ reader.on /\ ~ reader.failed /\ Len(reader.values) < Len(writer.fields)
  /\ LET result == Read(reader, writer.fields[Len(reader.values) + 1].kind)
     IN  reader' = IF result.ok THEN [result.r EXCEPT !.values = Append(@, result.v)]
                   ELSE [result.r EXCEPT !.failed = TRUE]
  /\ UNCHANGED writer

CodecNext == WriteField \/ Deliver \/ ReadField

-------------------------------------------------------------------------------
(* Properties. *)

\* The reader never finds anything but the values that were written, in order; it
\* fails only if bytes are missing, and then the field it failed at is incomplete; a
\* variable length integer that is incomplete stays where it is, to be read again.
\* The bytes of the written fields are in the buffer and nothing else is: a write
\* that fails leaves nothing behind.
WireLength(field) ==
  CASE field.kind = "varint62" -> GetVarInt62Len(field.v)
    [] field.kind = "varint" -> GetVarIntLen(field.v)
    [] field.kind = "seek" -> 2
    [] OTHER -> FixedKinds[field.kind]
MessageLength(fields) == FoldLeft(LAMBDA n, field : n + WireLength(field), 0, fields)

ReadsWhatWasWritten ==
  LET written == [i \in DOMAIN writer.fields |-> writer.fields[i].v]
      next == Len(reader.values) + 1
  IN  /\ Len(writer.bytes) = MessageLength(writer.fields) /\ Len(writer.bytes) <= writer.capacity
      /\ IsPrefix(reader.values, written)
      /\ reader.failed => Len(reader.bytes) < MessageLength(SubSeq(writer.fields, 1, next))
      /\ reader.failed /\ writer.fields[next].kind \in {"varint", "varint62"} =>
           reader.pos = MessageLength(SubSeq(writer.fields, 1, next - 1))
=============================================================================
