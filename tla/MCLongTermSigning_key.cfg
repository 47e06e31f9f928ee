CONSTANTS
  InputFiles <- ContentsFiles
  Requests <- LTRequests
  MaxRetries = 1
  MaxSections = 4
  ChainLength = 1
  MaxResponses = 1
SPECIFICATION LTSpec
CHECK_DEADLOCK FALSE
INVARIANT KeyIsOfSignature
