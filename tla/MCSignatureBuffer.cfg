CONSTANTS
  Chains <- SomeChains
  Documents <- SomeDocuments
  Requests <- SomeRequests
  OwnSizes <- SomeSizes
  BaseLength = 4
  TSALength = 4
  MaxRetries = 3
  RangeWidth = 4
  RangeDigits = 6
  HeadLength = 2
  GapLength = 1
  TailLength = 5
SPECIFICATION Spec
CHECK_DEADLOCK FALSE
INVARIANTS
  BufferTypeOK
  EmbeddedAsAnswered
  RangeIsAllButSignature
  DeliveredIsWhatWasSigned
  OnlyGrowthIsRetried
  OddAfterRetry
  EmbeddedIsCollected
PROPERTIES
  NothingMoves
  SigningReturns
