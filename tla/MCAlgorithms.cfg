SPECIFICATION Spec
CONSTANTS
  Limit = 6
  Capacities = {3, 12}
  MaxFields = 2
  CodecBits = {7, 8, 14, 15, 30, 31, 56, 57, 62, 63, 64}
  Window = 5
  MaxAcked = 3
  MinGoodput = 2
  BudgetWindow = 3
  Late = 2
  Chunk = 2
  Rates <- MCRates
  Bandwidths = {2, 9, 16, 21, 60}
  Levels = {4, 16, 28, 44}
INVARIANTS
  IntervalSetsAreExact
  ReadsWhatWasWritten
  EstimatesAreRecent
  BurstBounded
PROPERTIES
  RaisesOnlyWhatTheLinkCarries
  QualitySettles
CHECK_DEADLOCK FALSE
