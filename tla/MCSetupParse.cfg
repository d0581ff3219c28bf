\* One call of Parse on every installer of the catalogue, with two limits.
CONSTANTS
  MaxU32 <- MCMaxU32
  Installers <- MCInstallers
  HeaderLimits <- MCLimits
  DefaultHeaderLimit <- MCDefaultLimit
  PartSize <- MCPartSize
SPECIFICATION Spec
INVARIANTS
  TypeOK
  ReadsWhatIsWritten
  DamageIsNoticed
  RecordsAreBacked
  AddressesAreUnambiguous
