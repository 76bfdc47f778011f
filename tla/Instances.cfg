SPECIFICATION Spec
CONSTANTS
  Session = {u1, u2}
  Posts <- MCPosts
  PostMax = 3
  Disk = {k1}
  Iso = {iso1}
  Graphics = {g1, g2}
  Mem = {1, 2}
  Snap = {s1}
  None = None
  MayFail = TRUE
SYMMETRY Interchangeable
INVARIANT GoneWhenDeleted
PROPERTY FormsDoAsShown
PROPERTY EditsKeepTheRest
PROPERTY DisksOutlastGuest
