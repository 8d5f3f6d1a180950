SPECIFICATION Spec
CONSTANTS
  r1 = r1
  Client = {r1, r2}
  NumFiles = 2
  Counts = {0, 5}
  Changes = {"edit", "remove"}
  MaxStamp = 3
  Cap = 1
  MaxResults <- MCMaxResults
  MaxFiles <- MCMaxFiles
  Key <- MCKey
  None = None
INVARIANTS Fresh OwnCutReported
