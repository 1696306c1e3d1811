--------------------------- MODULE StreamSequencer ---------------------------
(***************************************************************************)
(* QuicStreamSequencer (src/sequencer/quic_stream_sequencer) on top of its *)
(* buffer, with the stream that TpServerBase is (src/tpproxy/              *)
(* mpproxy_types.cc): told of data, it reads all there is; told of an      *)
(* unrecoverable error, it only logs.                                      *)
(*                                                                         *)
(* A handler of the class calls the buffer, its own helpers and the stream *)
(* in turn, and the stream calls back.  Helpers are operators from one     *)
(* context (a record of the current values of all variables) to the next;  *)
(* an action applies its handler to Now and assigns the result by Become.  *)
(***************************************************************************)
EXTENDS SequencerBuffer

CONSTANTS
  NoOffset   \* close_offset_ before a FIN was seen (UINT64_MAX)

ASSUME SequencerAssumption == NoOffset \notin Nat

VARIABLES
  highestOffset,   \* highest_offset_
  closeOffset,     \* close_offset_
  blocked,         \* blocked_
  ignoreReadData,  \* ignore_read_data_
  calls,           \* the StreamInterface callbacks made by the last handler
  aborted          \* has a DCHECK failed?

seqVars == <<buf, accepted, delivered, limitHit, highestOffset, closeOffset,
             blocked, ignoreReadData, calls, aborted>>

\* The context a handler starts from: no callback made yet.
Now ==
  [ buf |-> buf, accepted |-> accepted, delivered |-> delivered,
    limitHit |-> limitHit, highestOffset |-> highestOffset,
    closeOffset |-> closeOffset, blocked |-> blocked,
    ignoreReadData |-> ignoreReadData, calls |-> {}, aborted |-> FALSE ]

Become(c) ==
  /\ buf' = c.buf
  /\ accepted' = c.accepted
  /\ delivered' = c.delivered
  /\ limitHit' = c.limitHit
  /\ highestOffset' = c.highestOffset
  /\ closeOffset' = c.closeOffset
  /\ blocked' = c.blocked
  /\ ignoreReadData' = c.ignoreReadData
  /\ calls' = c.calls
  /\ aborted' = c.aborted

-------------------------------------------------------------------------------
(* The stream's side of StreamInterface. *)

\* TpServerBase only logs the error and goes on.
OnUnrecoverableError(c) == [c EXCEPT !.calls = @ \cup {"OnUnrecoverableError"}]

OnFinRead(c) == [c EXCEPT !.calls = @ \cup {"OnFinRead"}]

\* Read appends ReadableBytes() bytes to the stream's string and fills them with
\* Readv; what Readv fails to fill stays in the string as zeros.
Read(c) ==
  LET wanted == ReadableBytes(c.buf)
      r == Readv(c.buf, wanted)
      zeros == [i \in 1 .. (wanted - Len(r.data)) |-> NoByte]
      read == [c EXCEPT !.buf = r.buf, !.delivered = @ \o r.data \o zeros]
  IN  IF r.failed THEN OnUnrecoverableError(read) ELSE read

\* TpServerBase::OnDataAvailable reads everything at once.
OnDataAvailable(c) == Read([c EXCEPT !.calls = @ \cup {"OnDataAvailable"}])

-------------------------------------------------------------------------------
(* Helpers of the sequencer. *)

IsClosed(c) == c.closeOffset # NoOffset /\ c.buf.totalRead >= c.closeOffset

ClearBuffer(c) ==
  [c EXCEPT !.buf = Clear(c.buf),
            !.accepted = Keep(c.accepted, 0 .. (c.buf.totalRead - 1))]

MaybeCloseStream(c) ==
  IF c.blocked \/ ~ IsClosed(c) THEN c
  ELSE ClearBuffer(IF c.ignoreReadData THEN OnFinRead(c) ELSE OnDataAvailable(c))

\* FlushBufferedFrames: discard all that is buffered, up to the highest byte.
Flush(c) ==
  MaybeCloseStream(
    [c EXCEPT !.buf = FlushBufferedFrames(c.buf),
              !.accepted = Keep(c.accepted, 0 .. (NextExpectedByte(c.buf) - 1))])

CloseOffsetAcceptableIfUnchanged(c, offset) == c.closeOffset \in {NoOffset, offset}

\* The new final offset must agree with a scheduled close and with the data.
CloseOffsetAcceptable(c, offset) ==
  /\ c.closeOffset \in {NoOffset, offset}
  /\ offset >= c.highestOffset

\* Store the data and, when the stream had nothing to read and now has, tell it.
OnFrameData(c, offset, data) ==
  LET r == OnStreamData(c.buf, offset, data)
      stored ==
        [c EXCEPT !.highestOffset = Max({@, offset + Len(data)}),
                  !.buf = r.buf,
                  !.accepted = Extended(@, [o \in r.stored |-> data[o - offset + 1]]),
                  !.limitHit = @ \/ r.error = "TOO_MANY_STREAM_DATA_INTERVALS"]
      streamUnblocked == ~ HasBytesToRead(c.buf) /\ HasBytesToRead(r.buf)
  IN  IF r.error # "NO_ERROR" THEN OnUnrecoverableError(stored)
      ELSE IF r.stored = {} \/ c.blocked \/ ~ streamUnblocked THEN stored
      ELSE IF c.ignoreReadData THEN Flush(stored)
      ELSE OnDataAvailable(stored)

HandleStreamFrame(c, offset, data, fin) ==
  LET end == offset + Len(data)
      closing == MaybeCloseStream([c EXCEPT !.closeOffset = end])
  IN  IF c.closeOffset # NoOffset /\ end > c.closeOffset   \* DCHECK_LE, fatal
      THEN [c EXCEPT !.aborted = TRUE]
      ELSE IF ~ fin THEN OnFrameData(c, offset, data)
      ELSE IF ~ CloseOffsetAcceptable(c, end) THEN OnUnrecoverableError(c)
      ELSE IF Len(data) = 0 THEN closing
      ELSE OnFrameData(closing, offset, data)

-------------------------------------------------------------------------------
(* Handlers. *)

SeqInit ==
  /\ BufInit
  /\ highestOffset = 0
  /\ closeOffset = NoOffset
  /\ blocked = FALSE
  /\ ignoreReadData = FALSE
  /\ calls = {}
  /\ aborted = FALSE

OnStreamFrame(offset, data, fin) == Become(HandleStreamFrame(Now, offset, data, fin))

SetBlockedUntilFlush == Become([Now EXCEPT !.blocked = TRUE])

SetUnblockedTellingClosedOnly ==
  LET c == [Now EXCEPT !.blocked = FALSE] IN
  Become(IF IsClosed(c) THEN OnDataAvailable(c) ELSE c)

SetUnblockedTellingDataOnly ==
  LET c == [Now EXCEPT !.blocked = FALSE] IN
  Become(IF HasBytesToRead(c.buf) THEN OnDataAvailable(c) ELSE c)

SetUnblocked ==
  LET c == [Now EXCEPT !.blocked = FALSE] IN
  Become(IF IsClosed(c) \/ HasBytesToRead(c.buf) THEN OnDataAvailable(c) ELSE c)

StopReading ==
  Become(IF ignoreReadData THEN Now ELSE Flush([Now EXCEPT !.ignoreReadData = TRUE]))

ReleaseBuffer == Become(ClearBuffer(Now))

ReleaseBufferIfEmpty == Become(IF IsEmpty(buf) THEN ClearBuffer(Now) ELSE Now)

SeqNext ==
  /\ ~ aborted
  /\ \/ \E offset \in Offsets, data \in Payloads, fin \in BOOLEAN :
          OnStreamFrame(offset, data, fin)
     \/ SetBlockedUntilFlush
     \/ SetUnblocked
     \/ StopReading
     \/ ReleaseBuffer
     \/ ReleaseBufferIfEmpty

SeqSpec == SeqInit /\ [][SeqNext]_seqVars

-------------------------------------------------------------------------------
(* Properties. *)

SeqTypeOK ==
  /\ BufTypeOK
  /\ highestOffset \in Nat
  /\ closeOffset \in Nat \cup {NoOffset}
  /\ blocked \in BOOLEAN
  /\ ignoreReadData \in BOOLEAN
  /\ calls \subseteq {"OnDataAvailable", "OnFinRead", "OnUnrecoverableError"}
  /\ aborted \in BOOLEAN

\* No lost wakeup: although the stream is told only when the readable bytes go
\* from none to some, no readable byte is ever left behind after a handler
\* while the sequencer is not blocked and no frame was refused at the interval limit.
NothingReadableIsLeft == ~ blocked /\ ~ limitHit => ~ HasBytesToRead(buf)

\* The step in which an unblocked stream reaches its final offset tells the
\* stream so, through OnDataAvailable or OnFinRead.
Closed == closeOffset # NoOffset /\ buf.totalRead >= closeOffset

ClosingIsAnnounced ==
  [][(Closed' /\ ~ blocked') /\ ~ (Closed /\ ~ blocked)
       => calls' \cap {"OnDataAvailable", "OnFinRead"} # {}]_seqVars

\* Neither discarding nor closing lets the read position pass the highest byte
\* received, and no FIN is accepted below it.
ReadStaysBelowHighest ==
  /\ buf.totalRead <= highestOffset
  /\ closeOffset # NoOffset => highestOffset <= closeOffset

\* What the sequencer promises between two handlers: its parts are well typed, no
\* readable byte is left behind, and the read position stays below the highest
\* byte and the final offset.
SeqSafe == SeqTypeOK /\ NothingReadableIsLeft /\ ReadStaysBelowHighest
==============================================================================
