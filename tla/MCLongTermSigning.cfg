CONSTANTS
  InputFiles <- LTFiles
  Requests <- LTRequests
  MaxRetries = 2
  MaxSections = 6
  ChainLength = 1
  MaxResponses = 1
SPECIFICATION LTSpec
CHECK_DEADLOCK FALSE
INVARIANTS
  LTTypeOK
  SizeCoversEntries
  ReferencesResolve
  SignaturesKept
  ValidationDataReachable
  ArchiveCoversAll
PROPERTIES
  ValidationDataKept
  StoredOnlyGrows
  ImplementsLongTermPromise
