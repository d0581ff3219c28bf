\* One call of Extract over every archive of the catalogue.
CONSTANTS
  Archives <- MCArchives
  MemoryLimits <- MCMemoryLimits
  DefaultLimit <- MCDefaultLimit
  MaxInt <- MCMaxInt
  MaxUint <- MCMaxUint
SPECIFICATION Spec
INVARIANTS
  TypeOK
  BudgetHolds
  OutputIsReserved
  SegmentsCoverFiles
  ResultsAreSound
  SoundFilesFailOnlyOnMemory
PROPERTIES
  ContractSpec
