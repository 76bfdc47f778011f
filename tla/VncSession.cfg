SPECIFICATION Spec
CONSTANTS
    Pages = {"ui", "console"}
    MaxSockets = 3
INVARIANT OneLiveSocket
INVARIANT CleanRestart
PROPERTY NormalUntilTheEnd
PROPERTY DisconnectEnds
CHECK_DEADLOCK FALSE
