----------------------------- MODULE MCVncClient -----------------------------
(***************************************************************************)
(* The VNC client for TLC: the stream it decodes, the screen and the       *)
(* devices.  They share no state, so a behaviour takes the steps of one of *)
(* them.                                                                   *)
(***************************************************************************)
EXTENDS RfbStream, FiniteSets

CONSTANTS
    Sizes, FirstSize, Views, Pixels, MaxChanges, MaxWaiting, MaxUnderWay, MaxMoves,
    Letters, Specials, Dead, Buttons, MaxDown

ASSUME ClientAssumption ==
    /\ Sizes \cup Views \subseteq (Nat \ {0}) \X (Nat \ {0})
    /\ FirstSize \in Sizes
    /\ Pixels \subseteq Nat \X Nat
    /\ {"Shift", "Control"} \subseteq Specials
    /\ Letters \cap Specials = {} /\ Dead \cap (Letters \cup Specials) = {}
    /\ {MaxChanges, MaxWaiting, MaxUnderWay, MaxMoves, MaxDown} \subseteq Nat

VARIABLES
    part,
    fb, screen, changed, requests, actions, fb_size, clip, viewport, cleanRect, canvas,
    renderQ, frame, moves, blind, bypassed, broken,
    device, held, keyDownList, pending, remote, focused, grabbed, pushed, mouseCaptured,
    mouse_buttonMask, remoteMask, viewportDrag, viewportDragging, uneven, composed, odd,
    functions

screens == <<fb, screen, changed, requests, actions, fb_size, clip, viewport, cleanRect,
             canvas, renderQ, frame, moves, blind, bypassed, broken>>
devices == <<device, held, keyDownList, pending, remote, focused, grabbed, pushed,
             mouseCaptured, mouse_buttonMask, remoteMask, viewportDrag, viewportDragging,
             uneven, composed, odd, functions>>

Screen == INSTANCE VncDisplay WITH net <- actions
Input == INSTANCE VncInput

\* Two sizes of the framebuffer, one of the window, and two pixels, one of
\* which is only in the wider framebuffer.
MCSizes == {<<3, 2>>, <<2, 3>>}
MCFirstSize == <<3, 2>>
MCViews == {<<2, 2>>}
MCPixels == {<<1, 1>>, <<2, 0>>}

\* Servers: version 3.3, 3.7 and 3.8, with and without a password, refusing
\* and admitting, and one behind a repeater.
S(v, types, admits, repeater, says) ==
    [version |-> v, types |-> types, admits |-> admits, repeater |-> repeater,
     says |-> says]
MCHandshakes ==
    {S(3, <<>>, FALSE, FALSE, 0), S(3, <<1>>, TRUE, FALSE, 0), S(3, <<2>>, TRUE, FALSE, 0),
     S(3, <<2>>, FALSE, FALSE, 0), S(3, <<16>>, FALSE, FALSE, 0),
     S(7, <<1, 16>>, TRUE, FALSE, 2), S(7, <<2, 1>>, TRUE, FALSE, 0),
     S(8, <<>>, FALSE, FALSE, 0), S(8, <<1>>, TRUE, TRUE, 0), S(8, <<2, 16>>, FALSE, FALSE, 0),
     S(8, <<16>>, FALSE, FALSE, 0), S(8, <<1, 2>>, TRUE, FALSE, 0)}

R(enc, w, h, n) == [enc |-> enc, w |-> w, h |-> h, n |-> n]
H(w, h, tiles) == [enc |-> "HEXTILE", w |-> w, h |-> h, tiles |-> tiles]
T(w, h, body, n) == [enc |-> "TIGHT", w |-> w, h |-> h, body |-> body, n |-> n]
U(n, rects) == [type |-> "fbu", n |-> n, rects |-> rects]
M(type, n) == [type |-> type, n |-> n]
Sub(sub, n) == [sub |-> sub, n |-> n]

MCItems ==
    {M("bell", 0), M("cut", 2), M("cmap", 1),
     U(0, <<>>),
     U(2, <<R("RAW", 1, 3, 0), R("COPYRECT", 2, 2, 0)>>),
     U(1, <<R("RRE", 2, 2, 2)>>),
     U(1, <<H(17, 1, <<Sub(10, 2), Sub(1, 0)>>)>>),
     U(1, <<H(1, 17, <<Sub(30, 1), Sub(0, 0)>>)>>),
     U(2, <<T(1, 1, <<128>> \o Pads(3), 3), T(1, 2, <<0>> \o Pads(6), 6)>>),
     U(1, <<T(2, 2, <<0, 130, 0>> \o Pads(2), 2)>>),
     U(1, <<T(2, 2, <<64, 1, 1>> \o Pads(6) \o Pads(2), 2)>>),
     U(1, <<T(4, 4, <<64, 1, 2>> \o Pads(9) \o <<2>> \o Pads(2), 2)>>),
     U(1, <<T(9, 9, <<144, 131, 128, 0>> \o Pads(3), 3)>>),
     U(9, <<R("DesktopSize", 3, 3, 0), R("last_rect", 0, 0, 0)>>),
     U(1, <<R("Cursor", 1, 2, 0)>>)}

\* The parts that take no steps start in one way only.
ClientInit ==
    /\ part \in {"stream", "screen", "devices"}
    /\ Init /\ Screen!Init /\ Input!Init
    /\ part # "stream" => server = CHOOSE s \in Handshakes : TRUE
    /\ screen = FirstSize
    /\ part # "devices" => device = "mouse"

\* The bound of the screen: it is followed until an image is broken, or a copy
\* or a direct drawing has gone wrong, from where NoPixelForgotten says nothing.
Followed == ~blind /\ ~bypassed /\ ~broken

ClientNext ==
    \/ part = "stream" /\ Next /\ UNCHANGED <<part, screens, devices>>
    \/ part = "screen" /\ Followed /\ Screen!Next /\ UNCHANGED <<part, vars, devices>>
    \/ part = "devices" /\ Input!Next /\ UNCHANGED <<part, vars, screens>>

ClientSpec == ClientInit /\ [][ClientNext]_<<part, vars, screens, devices>>

-----------------------------------------------------------------------------

\* Whatever comes between a request and its answer, no pixel in view is given
\* up, and the viewport stays in the framebuffer.
ScreenFollows == part = "screen" => Screen!NoPixelForgotten /\ Screen!ViewportInside

\* As long as a drawing action waits, something will look at the queue again.
DrawingGoesOn == part = "screen" => Screen!QueueIsScanned

\* What is pressed on the server is what the client will release there, and
\* nothing is when the user holds no key.
KeysAsHeld == part = "devices" => Input!PressedIsListed /\ Input!KeysReleased

\* No button is pressed on the server, and no drag holds back its events, when
\* the user holds no button.
ButtonsAsHeld == part = "devices" => Input!ButtonsReleased /\ Input!DragEnds
=============================================================================
