SPECIFICATION Spec
CONSTANTS
  Types = {"display", "cursor"}
  MaxChannels = 1
INVARIANT AgentWelcome
CHECK_DEADLOCK FALSE
