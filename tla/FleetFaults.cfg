SPECIFICATION FairSpec
CONSTANTS
  Proc = {p1, p2}
  Id = {i1}
  Name = {n1}
  Type = {"ssh", "tcp"}
  None = None
  MayFail = TRUE
  OrphanCap = 0
INVARIANT QuietRequestSafe
INVARIANT NoDangling
PROPERTY WorkerReadyAgain
