\* README.md:89 against what the decoder holds.
CONSTANTS
  Archives <- FewArchives
  MemoryLimits <- FewLimits
  DefaultLimit <- MCDefaultLimit
  MaxInt <- MCMaxInt
  MaxUint <- MCMaxUint
SPECIFICATION Spec
INVARIANT
  MemoryIsBounded
