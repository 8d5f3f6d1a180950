SPECIFICATION WalkSpec
CHECK_DEADLOCK FALSE
CONSTANTS
  None = None
  x = x
  y = y
  VarName = {x, y}
  SkipName = {y}
  MaxNodes = 15
  PlainTree <- PlainTrees
  SvelteTree <- SvelteTrees
INVARIANTS OneUsePerIdentifier UsesStayInScope NearestBinding LateDeclarationsAreFound DeadStoreSubsumesUnused
