SPECIFICATION ClientSpec
CONSTANTS
    rQmax = 64
    maxBufferedAmount = 1
    Handshakes <- MCHandshakes
    Items <- MCItems
    Passwords = {FALSE}
    Letters = {"a"}
    Specials = {"Shift", "Control"}
    Dead = {"dead"}
    Buttons = {0, 2}
    MaxDown = 2
    Sizes <- MCSizes
    FirstSize <- MCFirstSize
    Views <- MCViews
    Pixels <- MCPixels
    MaxChanges = 1
    MaxWaiting = 2
    MaxUnderWay = 1
    MaxMoves = 2
INVARIANT DecodesAnyPieces
INVARIANT NothingLeftBehind
INVARIANT HandshakeInStep
INVARIANT KeysAsHeld
INVARIANT ButtonsAsHeld
INVARIANT ScreenFollows
INVARIANT DrawingGoesOn
CHECK_DEADLOCK FALSE
