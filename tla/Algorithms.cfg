SPECIFICATION AlgorithmsSpec
CONSTANTS
  LastBlock = 3
  LastDef = 1
  MaxSuccessors = 2
  Block <- MCBlock
  Entry = 0
  Def <- MCDef
  Problems <- MCProblems
  NoLanguage = NoLanguage
  MaxEntries = 2
  Length = 4
  Inserts = {0, 2}
  MaxEdits = 3
  GlobLength = 4
  Patterns <- MCPatterns
  Files <- MCFiles
  Budgets = {2, 100}
  NoBlock = NoBlock
INVARIANTS SolvedIsMeetOverPaths CachedGrammarIsOwn TablesAgree OuterEditWins EditsInPlace CutAtSeparators ExpandsWhereItMatched
PROPERTIES Terminates
CHECK_DEADLOCK FALSE
