\* A header is read, or fails with none or with the magic of it read, and the
\* callback fails now and then.
SPECIFICATION Spec
CONSTANTS
  Chunks <- AllChunks
  Wants = {1, 3}
  HeaderFaults <- LateFaults
  Lapses = {"slices"}
  ProviderFails = TRUE
  MaxInt = 40
  MaxUint = 60
INVARIANT TypeOK
PROPERTIES StreamSpec AskedWhenNeeded ReadReturns
