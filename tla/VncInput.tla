------------------------------ MODULE VncInput ------------------------------
(***************************************************************************)
(* Keyboard and mouse of the VNC client: static/js/novnc/input.js, and the *)
(* handlers of rfb.js that tell the server of them.                        *)
(*                                                                         *)
(* The client has to release on the server whatever it pressed there.  It  *)
(* knows a key by the code of the browser's events, and its keysym by the  *)
(* modifiers of the moment, so it keeps what it pressed in keyDownList; of *)
(* the mouse it keeps the mask of its buttons.                             *)
(***************************************************************************)
EXTENDS Integers, Sequences, FiniteSets, SequencesExt

CONSTANTS
    Letters,     \* keys whose keysym a keypress event tells
    Specials,    \* keys whose keysym the keydown event tells: Shift, Control, others
    Dead,        \* keys whose keydown has the code 229
    Buttons,
    MaxDown      \* bound: entries of keyDownList

VARIABLES
    device,        \* the one the user uses: they share only focused and grabbed
    held,          \* keys the user holds
    keyDownList,   \* [key, keysym] of the keys taken for pressed
    pending,       \* the key whose keypress event follows its keydown
    remote,        \* keysyms the server has as pressed
    focused, grabbed,
    pushed,        \* buttons the user holds
    mouseCaptured,
    mouse_buttonMask,
    remoteMask,    \* the mask of the last pointer event sent
    viewportDrag, viewportDragging,
    uneven,        \* a key repeated, or its events were not all heard
    composed,      \* a keypress without an entry of its own
    odd,           \* buttons pressed or released unheard, or two at a time
    functions      \* sendCtrlAltFN was used (these four are not in the code)

keyboard == <<held, keyDownList, pending, remote>>
mouse == <<pushed, mouseCaptured, mouse_buttonMask, remoteMask>>
drag == <<viewportDrag, viewportDragging>>
history == <<device, uneven, composed, odd, functions>>
vars == <<keyboard, focused, grabbed, mouse, drag, history>>

Keys == Letters \cup Specials \cup Dead
None == <<>>

\* The keysym of a key depends on the modifiers held.
Sym(k, mods) == IF k \in Specials THEN <<k>> ELSE <<k, "Shift" \in mods>>
Entry(k, keysym) == [key |-> k, keysym |-> keysym]

Init ==
    /\ device \in {"keyboard", "mouse"}
    /\ held = {} /\ keyDownList = <<>> /\ pending = None /\ remote = {}
    /\ focused = TRUE /\ grabbed = FALSE
    /\ pushed = {} /\ mouseCaptured = FALSE
    /\ mouse_buttonMask = {} /\ remoteMask = {}
    /\ viewportDrag = FALSE /\ viewportDragging = FALSE
    /\ uneven = FALSE /\ composed = FALSE /\ odd = FALSE /\ functions = FALSE

-----------------------------------------------------------------------------
(* Keyboard *)

\* The keysym of a keydown event, if no keypress event is to be awaited.
getKeysymSpecial(k, mods) ==
    IF k \in Specials \/ (k \in Letters /\ "Control" \in mods)
    THEN Sym(k, mods)
    ELSE None

ignoreKeyEvent(k) == k \in Dead

pushKeyEvent(fevt) == keyDownList' = Append(keyDownList, fevt)

\* The place of the last entry of this key, 0 if there is none.
getKeyEvent(k) == SelectLastInSeq(keyDownList, LAMBDA f : f.key = k)

\* A press, or the repetition of one.  None is the keysym of an entry whose
\* keypress is still to come.
onKeyDown(k) ==
    /\ grabbed
    /\ pending = None
    /\ Len(keyDownList) < MaxDown
    /\ k \in held => k \in Letters
    /\ held' = held \cup {k}
    /\ IF ~focused
       THEN /\ uneven' = TRUE
            /\ UNCHANGED <<keyDownList, pending, remote, composed>>
       ELSE LET keysym == getKeysymSpecial(k, held')
            IN  /\ remote' = IF keysym # None THEN remote \cup {keysym} ELSE remote
                /\ IF ignoreKeyEvent(k)
                   THEN UNCHANGED keyDownList
                   ELSE pushKeyEvent(Entry(k, keysym))
                /\ \/ keysym = None /\ pending' = <<k>>
                   \/ (keysym # None \/ k \in Dead) /\ UNCHANGED pending
                /\ uneven' = (uneven \/ k \in held)
                /\ UNCHANGED composed
    /\ UNCHANGED <<device, focused, grabbed, mouse, drag, odd, functions>>

\* The last entry is taken for the one of this key, which for a key that
\* ignoreKeyEvent left out it is not.
onKeyPress ==
    /\ pending # None
    /\ LET keysym == Sym(pending[1], held)
           n == Len(keyDownList)
       IN  /\ keyDownList' = IF n > 0 THEN [keyDownList EXCEPT ![n].keysym = keysym]
                             ELSE keyDownList
           /\ remote' = remote \cup {keysym}
    /\ composed' = (composed \/ pending[1] \in Dead)
    /\ pending' = None
    /\ UNCHANGED <<device, held, focused, grabbed, mouse, drag, uneven, odd, functions>>

\* Mutant: the keysym of the moment is released, not the one pressed.
onKeyUp_Now(k) ==
    /\ k \in held
    /\ pending = None
    /\ held' = held \ {k}
    /\ IF grabbed /\ focused
       THEN LET i == getKeyEvent(k)
            IN  /\ remote' = IF i = 0 THEN remote ELSE remote \ {Sym(k, held)}
                /\ keyDownList' = IF i = 0 THEN keyDownList ELSE RemoveAt(keyDownList, i)
                /\ UNCHANGED uneven
       ELSE /\ uneven' = (uneven \/ grabbed)
            /\ UNCHANGED <<keyDownList, remote>>
    /\ UNCHANGED <<device, pending, focused, grabbed, mouse, drag, composed, odd, functions>>

\* Only the last of the entries that repetitions pushed is taken off.
onKeyUp(k) ==
    /\ k \in held
    /\ pending = None
    /\ held' = held \ {k}
    /\ IF grabbed /\ focused
       THEN LET i == getKeyEvent(k)
            IN  /\ remote' = IF i = 0 THEN remote ELSE remote \ {keyDownList[i].keysym}
                /\ keyDownList' = IF i = 0 THEN keyDownList ELSE RemoveAt(keyDownList, i)
                /\ UNCHANGED uneven
       ELSE /\ uneven' = (uneven \/ grabbed)
            /\ UNCHANGED <<keyDownList, remote>>
    /\ UNCHANGED <<device, pending, focused, grabbed, mouse, drag, composed, odd, functions>>

allKeysUp ==
    /\ remote' = remote \ {f.keysym : f \in ToSet(keyDownList)}
    /\ keyDownList' = <<>>

\* The window loses the focus: keys may be released while it has not.
blur ==
    /\ grabbed
    /\ pending = None
    /\ allKeysUp
    /\ held' \in {held, {}}
    /\ uneven' = FALSE
    /\ UNCHANGED <<device, pending, focused, grabbed, mouse, drag, composed, odd, functions>>

-----------------------------------------------------------------------------
(* Mouse *)

\* Mutant: the end of a drag is not noticed.
mouseButton_Drags(b, down) ==
    LET mask == IF down THEN mouse_buttonMask \cup {b}
                ELSE SymDiff(mouse_buttonMask, {b})
    IN  /\ mouse_buttonMask' = mask
        /\ viewportDragging' = (viewportDragging \/ (viewportDrag /\ down))
        /\ remoteMask' = IF viewportDrag /\ down THEN remoteMask ELSE mask

\* mouseButton of rfb.js: a press that starts a drag is not sent.
mouseButton(b, down) ==
    LET mask == IF down THEN mouse_buttonMask \cup {b}
                ELSE SymDiff(mouse_buttonMask, {b})
    IN  /\ mouse_buttonMask' = mask
        /\ IF viewportDrag /\ down /\ ~viewportDragging
           THEN /\ viewportDragging' = TRUE
                /\ UNCHANGED remoteMask
           ELSE /\ viewportDragging' = (viewportDragging /\ ~viewportDrag)
                /\ remoteMask' = mask

\* The mouse is captured whether or not the press is heard.
onMouseDown(b) ==
    /\ b \notin pushed
    /\ pushed' = pushed \cup {b}
    /\ mouseCaptured' = TRUE
    /\ grabbed
    /\ IF focused
       THEN mouseButton(b, TRUE) /\ odd' = (odd \/ pushed # {})
       ELSE odd' = TRUE /\ UNCHANGED <<mouse_buttonMask, remoteMask, viewportDragging>>
    /\ UNCHANGED <<device, keyboard, focused, grabbed, viewportDrag, uneven, composed, functions>>

\* A press outside the canvas, or while nothing listens.
PushElsewhere(b) ==
    /\ b \notin pushed
    /\ pushed' = pushed \cup {b}
    /\ odd' = (odd \/ pushed # {})
    /\ UNCHANGED <<device, keyboard, focused, grabbed, mouseCaptured, mouse_buttonMask,
                   remoteMask, drag, uneven, composed, functions>>

\* A release of one button ends the capture for all.
onMouseUp(b) ==
    /\ b \in pushed
    /\ pushed' = pushed \ {b}
    /\ IF grabbed /\ mouseCaptured
       THEN /\ mouseCaptured' = FALSE
            /\ IF focused
               THEN mouseButton(b, FALSE) /\ UNCHANGED odd
               ELSE odd' = TRUE /\ UNCHANGED <<mouse_buttonMask, remoteMask, viewportDragging>>
       ELSE UNCHANGED <<mouseCaptured, mouse_buttonMask, remoteMask, viewportDragging, odd>>
    /\ UNCHANGED <<device, keyboard, focused, grabbed, viewportDrag, uneven, composed, functions>>

\* UI.setViewDrag.
setViewDrag ==
    /\ grabbed
    /\ pushed = {}
    /\ viewportDrag' = ~viewportDrag
    /\ UNCHANGED <<keyboard, focused, grabbed, mouse, viewportDragging, history>>

-----------------------------------------------------------------------------
(* The session *)

\* The connection stands: init_vars has reset the mask, and the server has
\* nothing pressed.
grab ==
    /\ ~grabbed
    /\ grabbed' = TRUE
    /\ mouse_buttonMask' = {}
    /\ remoteMask' = {}
    /\ remote' = {}
    /\ odd' = (odd \/ pushed # {})
    /\ uneven' = FALSE
    /\ composed' = FALSE
    /\ UNCHANGED <<device, held, keyDownList, pending, focused, pushed,
                   mouseCaptured, drag, functions>>

\* The session ends; ui.js ends a drag with it.  The capture and a drag that
\* is under way stay as they are.
ungrab ==
    /\ grabbed
    /\ pending = None
    /\ grabbed' = FALSE
    /\ allKeysUp
    /\ viewportDrag' = FALSE
    /\ odd' = (odd \/ pushed # {})
    /\ functions' = FALSE
    /\ UNCHANGED <<device, held, pending, focused, mouse, viewportDragging, uneven, composed>>

\* UI.displayBlur and UI.displayFocus, around the clipboard's text.
displayBlur ==
    /\ pending = None
    /\ focused' = ~focused
    /\ UNCHANGED <<keyboard, grabbed, mouse, drag, history>>

sendCtrlAltDel ==
    /\ grabbed /\ pending = None
    /\ remote' = remote \ {<<"Control">>, <<"Alt">>, <<"Delete">>}
    /\ UNCHANGED <<held, keyDownList, pending, focused, grabbed, mouse, drag, history>>

\* sendCtrlAltFN of console-vnc.html: sendKey(code, 'up') is a press.
sendCtrlAltFN ==
    /\ grabbed /\ pending = None
    /\ remote' = remote \cup {<<"Control">>, <<"Alt">>, <<"Fn">>}
    /\ functions' = TRUE
    /\ UNCHANGED <<device, held, keyDownList, pending, focused, grabbed, mouse, drag,
                   uneven, composed, odd>>

Keyboard ==
    \/ \E k \in Keys : onKeyDown(k) \/ onKeyUp(k)
    \/ onKeyPress \/ blur
    \/ sendCtrlAltDel \/ sendCtrlAltFN

Mouse ==
    \/ \E b \in Buttons : onMouseDown(b) \/ PushElsewhere(b) \/ onMouseUp(b)
    \/ setViewDrag

Next ==
    \/ device = "keyboard" /\ Keyboard
    \/ device = "mouse" /\ Mouse
    \/ grab \/ ungrab \/ displayBlur

Spec == Init /\ [][Next]_vars

-----------------------------------------------------------------------------
(* Properties *)

\* Whatever is pressed on the server is on keyDownList, so that a window that
\* loses the focus, or a session that ends, releases all of it; unless a dead
\* key took another key's entry, or sendCtrlAltFN pressed keys for good.
PressedIsListed ==
    grabbed /\ ~composed /\ ~functions =>
        remote \subseteq {f.keysym : f \in ToSet(keyDownList)}

\* When the user holds no key, no key is pressed on the server, if every key
\* was pressed once and its events were all heard, since the window last had
\* the focus: whatever modifiers came and went in between.
KeysReleased ==
    grabbed /\ held = {} /\ pending = None /\ ~uneven /\ ~composed /\ ~functions
        => remote = {}

\* When the user holds no button, none is pressed on the server, if buttons
\* were pressed one at a time while they were heard.
ButtonsReleased == grabbed /\ pushed = {} /\ ~odd => remoteMask = {}

\* A drag of the viewport lasts only while the button is held: it holds back
\* the mouse's events and checkEvents.
DragEnds == grabbed /\ ~odd /\ viewportDragging => pushed # {}
=============================================================================
