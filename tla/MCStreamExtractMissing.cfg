\* README.md:111 against the error of a slice provider.
CONSTANTS
  Archives <- FewArchives
  MemoryLimits <- FewLimits
  DefaultLimit <- MCDefaultLimit
  MaxInt <- MCMaxInt
  MaxUint <- MCMaxUint
SPECIFICATION Spec
INVARIANT
  MissingSliceCanBeInspected
