SPECIFICATION Spec
CHECK_DEADLOCK FALSE
CONSTANTS
  None = None
  x = x
  y = y
  Var = {x, y}
  Func <- MCFunc
  Rules <- MCRules
  MaxNodes = 10
  MaxDefinitions = 3
  Program <- Programs
INVARIANTS StatementsSurvive NoFlowMissed OnlyDirtyReported
PROPERTIES AnalysisEnds
