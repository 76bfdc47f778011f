----------------------------- MODULE SpiceInputs -----------------------------
(***************************************************************************)
(* The SPICE inputs channel (inputs.js and its messages in spicemsg.js):   *)
(* the modifier keys, whose state the page follows because keys are lost   *)
(* while the canvas has no focus; the motions of the mouse, of which only  *)
(* so many are sent before the server acknowledges them; and the buttons.  *)
(*                                                                         *)
(* The guest is what the messages make of it: the modifiers it takes for   *)
(* pressed.  The keys that are no modifiers are one; both keys of a        *)
(* modifier have the same code, but those of Meta, of which there is one.  *)
(*                                                                         *)
(* The page knows Meta by the code 0xE0B5, which no key event has, and     *)
(* sends that code to correct it, the same for a press and a release: no   *)
(* event of its key is recognised, and no correction reaches the guest.    *)
(***************************************************************************)
EXTENDS Naturals, FiniteSets

CONSTANTS
  Mods,            \* modifier keys: Shift, Ctrl, Alt, Meta
  Meta,            \* the last of these
  CtrlAlt,         \* those of sendCtrlAltDel
  Buttons,         \* buttons of the mouse
  SPICE_INPUT_MOTION_ACK_BUNCH,
  MaxMotions       \* motions that are sent

VARIABLES
  ready,             \* the inputs channel is "ready"
  held,              \* keys of each modifier that are held down
  focus,             \* the canvas has the focus
  known,             \* Shift_state and the others are not -1
  state,             \* Shift_state, Ctrl_state, ...
  guest,             \* modifiers pressed in the guest
  muddled,           \* modifiers the page could not tell the guest about
  waiting_for_ack,
  motions, acks,     \* motions sent, acknowledgements that have come
  down,              \* buttons held
  buttons_state,     \* buttons the page reports with a motion
  several            \* more than one button since all were released

ivars == <<ready, held, focus, known, state, guest, muddled, waiting_for_ack, motions, acks,
           down, buttons_state, several>>
keyboard == <<held, focus, known, state, guest, muddled>>
mouse    == <<waiting_for_ack, motions, acks, down, buttons_state, several>>

Init ==
  /\ ready = FALSE /\ held \in [Mods -> 0..1] /\ focus = FALSE
  /\ known = FALSE /\ state = [m \in Mods |-> FALSE] /\ guest = {} /\ muddled = {}
  /\ waiting_for_ack = 0 /\ motions = 0 /\ acks = 0
  /\ down = {} /\ buttons_state = {} /\ several = FALSE

InputsReady == ~ready /\ ready' = TRUE /\ UNCHANGED <<keyboard, mouse>>

\* handle_mouseover and handle_mouseout: focus() and blur().
handle_mouseover == ~focus /\ focus' = TRUE /\ UNCHANGED <<ready, held, known, state, guest, muddled, mouse>>
handle_mouseout  == focus /\ focus' = FALSE /\ UNCHANGED <<ready, held, known, state, guest, muddled, mouse>>

-----------------------------------------------------------------------------
(* Keys.  e is the set of modifiers of the event, key the modifier whose   *)
(* key it is (none for the other keys), pressed whether it goes down.      *)

\* check_and_update_modifiers: what the page takes the state for before it
\* looks at the flags of the event.
Followed(e, key, pressed) ==
  [m \in Mods |-> IF m \in key \ {Meta} THEN pressed
                  ELSE IF known THEN state[m] ELSE m \in e]

\* The modifiers for which update_modifier sends a message.
OutOfSync(e, key, pressed) == {m \in Mods : Followed(e, key, pressed)[m] # (m \in e)}

\* handle_keydown, handle_keyup, with check_and_update_modifiers.
Handle(e, key, pressed) ==
  LET wrong == OutOfSync(e, key, pressed)
      fixed == wrong \ {Meta}
      told  == (guest \ fixed) \cup (fixed \cap e)
  IN /\ known' = TRUE
     /\ IF ready
        THEN /\ state' = [m \in Mods |-> m \in e]
             /\ guest' = IF pressed THEN told \cup key ELSE told \ key
             /\ muddled' = ((muddled \ (fixed \cup key)) \cup (IF known THEN {} ELSE e \ key))
                             \cup (fixed \cap key) \cup ((wrong \ fixed) \ key)
        ELSE /\ state' = Followed(e, key, pressed)
             /\ guest' = guest
             /\ muddled' = (muddled \cup (IF known THEN {} ELSE e)
                              \cup (IF pressed THEN key \ {Meta} ELSE {}))
                             \ (IF pressed THEN {} ELSE key \ {Meta})

\* The keys of a modifier; of the two of Meta, which have codes of their own,
\* one.
Keys(m) == IF m = Meta THEN 1 ELSE 2

Flags(h) == {m \in Mods : h[m] > 0}

\* A key of a modifier goes down or up: an event when the canvas has focus.
Modifier ==
  \E m \in Mods, pressed \in BOOLEAN :
    /\ IF pressed THEN held[m] < Keys(m) ELSE held[m] > 0
    /\ held' = [held EXCEPT ![m] = IF pressed THEN @ + 1 ELSE @ - 1]
    /\ IF focus THEN Handle(Flags(held'), {m}, pressed) ELSE UNCHANGED <<known, state, guest, muddled>>
    /\ UNCHANGED <<ready, focus, mouse>>

\* Another key goes down or up.
OtherKey ==
  /\ focus /\ Handle(Flags(held), {}, TRUE)
  /\ UNCHANGED <<ready, held, focus, mouse>>

\* sendCtrlAltDel, and sendCtrlAltFN of the page: Ctrl and Alt go down and
\* come up again where the page knows them to be up.
sendCtrlAltDel_Down ==
  /\ ready
  /\ guest' = guest \cup CtrlAlt
  /\ muddled' = IF known THEN muddled \ CtrlAlt ELSE muddled \cup CtrlAlt
  /\ UNCHANGED <<ready, held, focus, known, state, mouse>>

sendCtrlAltDel ==
  /\ ready
  /\ guest' = (guest \cup CtrlAlt) \ {m \in CtrlAlt : known /\ ~state[m]}
  /\ muddled' = IF known THEN muddled \ CtrlAlt ELSE muddled \cup CtrlAlt
  /\ UNCHANGED <<ready, held, focus, known, state, mouse>>

-----------------------------------------------------------------------------
(* The mouse.                                                              *)

\* handle_mousemove: a motion, or none while too many wait for an ack.
handle_mousemove ==
  /\ ready /\ motions < MaxMotions
  /\ waiting_for_ack < 2 * SPICE_INPUT_MOTION_ACK_BUNCH
  /\ waiting_for_ack' = waiting_for_ack + 1 /\ motions' = motions + 1
  /\ UNCHANGED <<ready, keyboard, acks, down, buttons_state, several>>

\* SPICE_MSG_INPUTS_MOUSE_MOTION_ACK, for each bunch of motions.
MouseMotionAck ==
  /\ (acks + 1) * SPICE_INPUT_MOTION_ACK_BUNCH <= motions
  /\ waiting_for_ack' = waiting_for_ack - SPICE_INPUT_MOTION_ACK_BUNCH
  /\ acks' = acks + 1
  /\ UNCHANGED <<ready, keyboard, motions, down, buttons_state, several>>

\* handle_mousedown: SpiceMsgcMousePress keeps only the button of the event.
handle_mousedown ==
  \E b \in Buttons \ down :
    /\ down' = down \cup {b} /\ buttons_state' = {b}
    /\ several' = (several \/ down # {})
    /\ UNCHANGED <<ready, keyboard, waiting_for_ack, motions, acks>>

\* handle_mouseup: SpiceMsgcMouseRelease takes all buttons for released.
handle_mouseup ==
  \E b \in down :
    /\ down' = down \ {b} /\ buttons_state' = {}
    /\ several' = (several /\ down # {b})
    /\ UNCHANGED <<ready, keyboard, waiting_for_ack, motions, acks>>

Next ==
  \/ InputsReady \/ handle_mouseover \/ handle_mouseout \/ Modifier \/ OtherKey
  \/ sendCtrlAltDel \/ handle_mousemove \/ MouseMotionAck \/ handle_mousedown \/ handle_mouseup

-----------------------------------------------------------------------------

\* The guest has the modifiers pressed that the page takes for pressed, after
\* lost keys, focus changes and Ctrl-Alt-Del, except those that were held
\* before the first key event, that changed before the channel was ready, of
\* which one of two keys was released, or that Ctrl-Alt-Del pressed before any
\* key event.  A lost key of Meta is made good by its next event only, not by
\* those of other keys.
ModifiersAgree == known => \A m \in Mods \ muddled : m \in guest <=> state[m]

\* The mouse is never held back for good: when motions are dropped, the server
\* owes an acknowledgement.
MotionsAcked ==
  waiting_for_ack >= 2 * SPICE_INPUT_MOTION_ACK_BUNCH =>
    (acks + 1) * SPICE_INPUT_MOTION_ACK_BUNCH <= motions

\* One button at a time is reported with the motions as long as it is held.
ButtonsAgree == ~several => buttons_state = down
=============================================================================
