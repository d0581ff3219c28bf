\* stream.go:299 against the size of the public file.
CONSTANTS
  Installers <- CallInstallers
  Archives <- CallArchives
  MemoryLimits <- CallLimits
  DefaultLimit <- MCDefaultLimit
  MaxInt <- MCMaxInt
  MaxUint <- MCMaxUint
  MaxCalls = 2
SPECIFICATION CallsSpec
INVARIANT
  VerifiedCanBeExtracted
