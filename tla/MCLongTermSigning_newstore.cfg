CONSTANTS
  InputFiles <- ContentsFiles
  Requests <- InvisibleRequests
  MaxRetries = 1
  MaxSections = 6
  ChainLength = 1
  MaxResponses = 1
SPECIFICATION LTSpec
CHECK_DEADLOCK FALSE
INVARIANT NewValidationDataReachable
