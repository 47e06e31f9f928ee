CONSTANTS
  InputFiles <- RewrittenFiles
  Requests <- InvisibleRequests
  MaxRetries = 1
  MaxSections = 5
  ChainLength = 1
  MaxResponses = 1
SPECIFICATION LTSpec
CHECK_DEADLOCK FALSE
INVARIANT CatalogRewritten
