SPECIFICATION SpiceSpec
CONSTANTS
  Types = {"display", "cursor", "playback", "other"}
  MaxChannels = 2
  TicketBytes = 4
  KeyBytes = 5
  MsgLengths = {0, 1, 3}
  LINK_HEADER = 2
  LINK_REPLY = 3
  AUTH_REPLY = 1
  MINI_DATA = 2
  Windows = {0, 1, 2}
  MaxMessages = 3
  Pieces = 2
  Tokens = {2, 3}
  Sizes = {1, 2}
  MaxFiles = 2
  MaxAgents = 2
  Surfaces = {0, 1}
  Boxes = {1}
  Streams = {1}
  MaxDraws = 2
  GAP_DETECTION_THRESHOLD = 2
  MAX_CLUSTER_TIME = 3
  Lengths = {0, 60, 200}
  MaxTime = 6
  MaxData = 4
  MaxStarts = 2
  Mods = {Shift, Ctrl, Super}
  Meta = Super
  CtrlAlt = {Ctrl}
  Buttons = {Left, Right}
  SPICE_INPUT_MOTION_ACK_BUNCH = 2
  MaxMotions = 6
INVARIANT NothingLeftOpen
PROPERTY ReadyUntilClosed
PROPERTY SessionSettles
INVARIANT MessagesWhole
INVARIANT AnyPieces
INVARIANT AgentTransfers
INVARIANT DisplayAsServer
INVARIANT SoundPlays
INVARIANT InputsAgree
CHECK_DEADLOCK FALSE
