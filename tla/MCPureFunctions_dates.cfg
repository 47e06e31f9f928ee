CONSTANTS
  Radix = 2
  Calendar <- SomeCalendar
  Layouts <- SomeLayouts
  Usual <- UsualLayout
  Languages <- SomeLanguages
  NumericNames <- SignedNumericNames
  HexCode <- SomeHexCode
  LowerCase <- SomeLowerCase
  Revisions <- SomeRevisions
  SigningDates <- SomeSigningDates
  FieldDates <- SomeFieldDates
  NamedFields <- SomeNamedFields
  Signers <- SomeSigners
  Nodes <- Depth3
  Height <- Heights
  PageTrees <- SomePageTrees
  Trailers <- SomeTrailers
  CopiedDocuments <- SomeCopiedDocuments
  Unescaped <- SomeUnescaped
  NoName = NoName
SPECIFICATION NestedSpec
CHECK_DEADLOCK FALSE
INVARIANT
  SigningTimeReadBack
