SPECIFICATION FairSpec
CONSTANTS
  Worker = {w1}
  Base = {a}
  Length = {0, 3}
  BufLen = 2
  None = None
  MayFail = TRUE
  Posts <- MCFaultPosts
PROPERTY RequestEnds
CHECK_DEADLOCK FALSE
