SPECIFICATION Spec
CONSTANTS
  Worker = {w1, w2}
  Base = {a}
  Length = {1, 3}
  BufLen = 2
  None = None
  MayFail = FALSE
  Posts <- MCPosts
SYMMETRY Interchangeable
INVARIANT CalmRequests
INVARIANT UploadExact
