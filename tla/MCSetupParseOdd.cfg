\* Strings of an odd number of bytes are said to be benign.
CONSTANTS
  MaxU32 <- MCMaxU32
  Installers <- OddSetups
  HeaderLimits <- MCLimits
  DefaultHeaderLimit <- MCDefaultLimit
  PartSize <- MCPartSize
SPECIFICATION Spec
INVARIANTS
  OddStringsAreBenign
