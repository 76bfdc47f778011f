SPECIFICATION Spec
CONSTANTS
  Proc = {p1}
  Id = {i1}
  Name = {n1}
  Type = {"ssh", "tcp"}
  None = None
  MayFail = FALSE
  OrphanCap = 3
INVARIANT NoNullClone
