CONSTANTS
  Documents <- AllDocuments
  OptionSets <- AllOptions
  Now = 5
SPECIFICATION Spec
CHECK_DEADLOCK FALSE
INVARIANTS
  TypeOK
  NoSilentFailure
  GapsAreWarned
  BadEvidenceIsReported
PROPERTIES
  ImplementsVerdicts
  VerificationReturns
