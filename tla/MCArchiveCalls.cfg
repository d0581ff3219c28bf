\* Two calls on one archive, in either mode.
CONSTANTS
  Installers <- CallInstallers
  Archives <- CallArchives
  MemoryLimits <- CallLimits
  DefaultLimit <- MCDefaultLimit
  MaxInt <- MCMaxInt
  MaxUint <- MCMaxUint
  MaxCalls = 2
SPECIFICATION CallsSpec
INVARIANTS
  CallsAreRepeatable
  VerifyAcceptsWhatExtracts
  ManifestMatchesFiles
  GalaxyFilesAreWhole
