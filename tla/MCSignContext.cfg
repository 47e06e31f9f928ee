CONSTANTS
  InputFiles <- Files
  Requests <- SomeRequests
  MaxRetries = 3
  MaxSections = 3
SPECIFICATION FairSpec
CHECK_DEADLOCK FALSE
INVARIANTS
  TypeOK
  EncryptedForItself
  AllocationExact
  WrittenOnce
  SizeCoversEntries
  ReferencesResolve
  SignatureReachable
PROPERTIES
  CallsReturn
  ImplementsPromise
  AppendOnly
