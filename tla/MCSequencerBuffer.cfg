SPECIFICATION BufSpec
CONSTANTS
  MaxCapacity = 5
  BlockSize = 3
  MaxIntervals = 3
  Bytes = {a, b}
  NoByte = NoByte
  MaxOffset = 5
  MaxPayload = 2
  Offsets <- MCOffsets
  Payloads <- MCPayloads
INVARIANTS
  BufferSafe
  StoredBytesIntact
  BlocksHoldUnreadBytes
  ReadableRegionsExact
CHECK_DEADLOCK FALSE
