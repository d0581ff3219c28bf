\* A header that fails to be read may have left some of its magic.
SPECIFICATION Spec
CONSTANTS
  Chunks <- FewChunks
  Wants = {1, 3}
  HeaderFaults <- EarlyFaults
  Lapses = {}
  ProviderFails = FALSE
  MaxInt = 40
  MaxUint = 60
INVARIANT HeaderIsHidden
