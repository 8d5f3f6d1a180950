SPECIFICATION Spec
CONSTANTS
  x = x
  Var = {x, y}
  Body <- MCBody
  MaxLength = 4
  MaxDefinitions = 3
  Params = {}
  Unreported = {}
  None = None
INVARIANTS NoInstructionLost NoUseMissed OnlyOverwrittenAreExtra UninitializedOnlyInBlock
