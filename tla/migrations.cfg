SPECIFICATION Spec
CONSTANTS
  None = None
  Null = Null
  k1 = k1
  k2 = k2
  Command = {k1, k2}
  Target = {0, 2, 5}
  Written = {"users"}
  Varied <- MCVaried
SYMMETRY MCSymmetry
INVARIANTS
  TypeOK
  HeadMatchesModels
  RevisionTellsSchema
  UpgradeAccepted
  DowngradeStoppedByRows
CHECK_DEADLOCK FALSE
