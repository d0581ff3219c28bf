\* A start marker with a part count that is no number.
SPECIFICATION Spec
CONSTANTS
  Archives <- FewArchives
  Names = {"own", "joined"}
  Languages = {"en", "de", "32", "64"}
  MaxUint <- MCMaxUint
  MaxApplies = 1
INVARIANT MalformedMarkersAreIgnored
