SPECIFICATION Spec
CONSTANTS
  Proc = {p1, p2}
  Id = {i1, i2}
  Name = {n1, n2}
  Type = {"tcp"}
  None = None
  MayFail = FALSE
  OrphanCap = 0
SYMMETRY Interchangeable
INVARIANT RegistryMirrorsSelect
INVARIANT QuietAnswersOnline
PROPERTY AnswersFromOneInstant
