\* Clean, twice, on short destinations, and the filters on short segments.
CONSTANTS
  Base <- MCBase
  Opcodes <- MCOpcodes
  OperandLen = 3
  PageSize = 6
  Segments <- MCSegments
  Destinations <- MCDestinations
  MaxDepth = 2
SPECIFICATION TransformSpec
INVARIANTS
  TypeOK
  FilterIsLossless
  StaysBelowRoot
  CleanIsIdempotent
PROPERTIES
  PagesAreSeparate
