CONSTANTS
  InputFiles <- FormFiles
  Requests <- SomeRequests
  MaxRetries = 1
  MaxSections = 2
SPECIFICATION Spec
CHECK_DEADLOCK FALSE
INVARIANT NothingInPlainText
