SPECIFICATION SeqSpec
CONSTANTS
  MaxCapacity = 3
  BlockSize = 2
  MaxIntervals = 9
  Bytes = {a, b}
  NoByte = NoByte
  NoOffset = NoOffset
  MaxOffset = 4
  MaxPayload = 2
  Offsets <- MCOffsets
  Payloads <- MCPayloads
INVARIANTS
  SeqSafe
PROPERTIES
  ClosingIsAnnounced
  ImplementsInOrderStream
CHECK_DEADLOCK FALSE
