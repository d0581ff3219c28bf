\* Apply is called twice on every archive.
SPECIFICATION Spec
CONSTANTS
  Archives <- AllArchives
  Names = {"own", "joined"}
  Languages = {"en", "de", "32", "64"}
  MaxUint <- MCMaxUint
  MaxApplies = 2
INVARIANTS CountdownFollowsGroup PartsJoinTheirStart SizeIsSumOfParts OnlyPartsAreInflated
           ReapplyingIsHarmless ConstraintsNameLanguages
