SPECIFICATION Spec
CONSTANTS
  Client = {r1, r2}
  File = {f1}
  Stamp = {s1, s2}
  Content = {c1, c2}
  Missing = Missing
  None = None
  Key <- MCKey
INVARIANTS StaleOnlyWhenSharing
PROPERTIES EverySearchEnds
