-------------------------- MODULE SpiceClientProofs --------------------------
(***************************************************************************)
(* Theorems about the SPICE client, for any number of channels, surfaces,  *)
(* boxes, streams, modifiers, buttons and motions: the session is closed   *)
(* whole, messages are handled in order whatever the pieces, the display   *)
(* is what the server takes it for, and so are the keys and the mouse,     *)
(* the sound is fed in order, and files reach the agent chunk by chunk.    *)
(***************************************************************************)
EXTENDS MCSpiceClient, SequenceTheorems, FiniteSetTheorems, WellFoundedInduction, TLAPS

\* A connection as SpiceConn keeps it.
Connection ==
  [type  : Types \cup {"main"},
   state : {"connecting", "start", "link", "ticket", "ready", "error", "closing"},
   ws    : {"connecting", "open", "closing", "closed"},
   timer : BOOLEAN]

\* The main channel is ready only once its timer is cleared.
MainInStep(m) ==
  /\ m.ws = "connecting" => m.state = "connecting"
  /\ m.state = "ready" => ~m.timer

\* The page still knows the connection.
Reached(c) == c \in extra \/ \E s \in DOMAIN slots : slots[s] = c

\* While the session runs each connection is one that stop() reaches, or one that
\* another has displaced.
SessionInv ==
  /\ conns \in [DOMAIN conns -> Connection]
  /\ 0 \in DOMAIN conns /\ DOMAIN conns \subseteq Nat
  /\ progress # "listed" => DOMAIN conns = {0}
  /\ MainInStep(conns[0])
  /\ conns[0].state # "closing" =>
       \A c \in DOMAIN conns \ ({0} \cup Session!Displaced) : Reached(c)
  /\ Session!NothingLeftOpen

\* One button at a time is down.
ButtonInv ==
  ~several => buttons_state = down /\ \A a, b \in down : a = b

\* What is not acknowledged is what was sent and has no acknowledgement.
MotionInv ==
  /\ {waiting_for_ack, motions, acks} \subseteq Nat
  /\ motions = acks * SPICE_INPUT_MOTION_ACK_BUNCH + waiting_for_ack

\* Before the page knows the modifiers, what the guest has of them is muddled;
\* no more keys are held than there are.
ModifierInv ==
  /\ modifiers \in [Mods -> BOOLEAN]
  /\ held \in [Mods -> Nat] /\ \A m \in Mods : held[m] <= Inputs!Keys(m)
  /\ ~ready => guest = {}
  /\ ~known => guest \subseteq muddled
  /\ Inputs!ModifiersAgree

\* The images that load for a box.
Loads(s, b) == {l \in loading : l.surface = s /\ l.box = b}

\* A box shows what the server has drawn, or will when the one image that is
\* loading for it has come.
BoxAsServer(s, b) ==
  \/ <<s, b>> \in astray
  \/ Loads(s, b) = {} /\ surfaces[s][b] = sv.surfaces[s][b]
  \/ \E l \in loading : Loads(s, b) = {l} /\ l.px = sv.surfaces[s][b]

\* The surfaces are those of the server, and their boxes.
SurfaceInv ==
  /\ DOMAIN surfaces \subseteq Surfaces
  /\ surfaces \in [DOMAIN surfaces -> [Boxes -> Nat]]
  /\ sv.surfaces \in [DOMAIN surfaces -> [Boxes -> Nat]]
  /\ primary_surface = DOMAIN surfaces \cap {0} /\ hooked = primary_surface
  /\ \A s \in DOMAIN surfaces, b \in Boxes : BoxAsServer(s, b)

\* What a key stands for: images of the server's, and images that load.
Ids(k) == {id \in DOMAIN sv.cache : Display!KeyOf(id) = k}
LoadsFor(k) == {l \in loading : l.key = k}

\* A key stands for at most one image of the server's, which is in the cache
\* or will be when the one that is loading for it has come.
KeyAsServer(k) ==
  \/ k \in unclear
  \/ LoadsFor(k) = {} /\ Ids(k) = {} /\ k \notin DOMAIN cache
  \/ /\ LoadsFor(k) = {} /\ k \in DOMAIN cache
     /\ \E id \in DOMAIN sv.cache : Ids(k) = {id} /\ cache[k] = sv.cache[id]
  \/ \E l \in loading, id \in DOMAIN sv.cache :
       LoadsFor(k) = {l} /\ Ids(k) = {id} /\ sv.cache[id] = l.px

\* The keys of the cache.
KeyInv ==
  /\ DOMAIN cache \subseteq {0, 1}
  /\ cache \in [DOMAIN cache -> Nat]
  /\ sv.cache \in [DOMAIN sv.cache -> Nat]
  /\ \A k \in {0, 1} : KeyAsServer(k)

\* The boxes of the streams are on surfaces that are there.
StreamsOn == \A i \in DOMAIN streams :
  streams[i] \in [surface : DOMAIN surfaces, dest : Boxes, mjpeg : BOOLEAN]

\* The images that load.
LoadingType == loading \subseteq [surface : Surfaces, box : Boxes, px : Nat, key : {0, 1, 2}]

\* A channel that has been stopped shows nothing any more.
DisplayInv ==
  /\ draws \in Nat /\ LoadingType
  /\ sv = [surfaces |-> sv.surfaces, cache |-> sv.cache]
  /\ open => StreamsOn /\ SurfaceInv /\ KeyInv

-----------------------------------------------------------------------------
(* The inputs.                                                             *)

\* The inputs begin with nothing pressed and nothing sent.
LEMMA InputsInit ==
  ASSUME Inputs!Init
  PROVE  ButtonInv /\ MotionInv /\ ModifierInv
<1>1. ButtonInv
  BY DEF Inputs!Init, ButtonInv
<1>2. MotionInv
  <2>1. SPICE_INPUT_MOTION_ACK_BUNCH \in Nat
    BY SpiceClientAssumption
  <2>2. 0 * SPICE_INPUT_MOTION_ACK_BUNCH = 0
    BY <2>1
  <2> QED BY <2>2 DEF Inputs!Init, MotionInv
<1>3. ModifierInv
  BY DEF Inputs!Init, ModifierInv, Inputs!ModifiersAgree, Inputs!Keys
<1> QED BY <1>1, <1>2, <1>3

\* handle_mousedown and handle_mouseup keep count of the buttons.
LEMMA ButtonStep ==
  ASSUME ButtonInv, Inputs!Next
  PROVE  ButtonInv'
<1>1. CASE Inputs!handle_mousedown
  BY <1>1 DEF Inputs!handle_mousedown, ButtonInv
<1>2. CASE Inputs!handle_mouseup
  BY <1>2 DEF Inputs!handle_mouseup, ButtonInv
<1>3. CASE UNCHANGED <<down, buttons_state, several>>
  BY <1>3 DEF ButtonInv
<1> QED
  BY <1>1, <1>2, <1>3 DEF Inputs!Next, Inputs!InputsReady, Inputs!handle_mouseover,
     Inputs!handle_mouseout, Inputs!Modifier, Inputs!OtherKey, Inputs!sendCtrlAltDel,
     Inputs!handle_mousemove, Inputs!MouseMotionAck, Inputs!mouse

\* One more bunch of motions.
LEMMA NextBunch == \A a, b \in Nat : a * b \in Nat /\ (a + 1) * b = a * b + b
  OBVIOUS

\* Each motion is counted, and each acknowledgement takes a bunch off.
LEMMA MotionStep ==
  ASSUME MotionInv, Inputs!Next
  PROVE  MotionInv'
<1> USE DEF MotionInv
<1>1. SPICE_INPUT_MOTION_ACK_BUNCH \in Nat \ {0}
  BY SpiceClientAssumption
<1>2. /\ acks * SPICE_INPUT_MOTION_ACK_BUNCH \in Nat
      /\ (acks + 1) * SPICE_INPUT_MOTION_ACK_BUNCH
           = acks * SPICE_INPUT_MOTION_ACK_BUNCH + SPICE_INPUT_MOTION_ACK_BUNCH
  BY <1>1, NextBunch
<1>3. CASE Inputs!handle_mousemove
  BY <1>1, <1>2, <1>3 DEF Inputs!handle_mousemove
<1>4. CASE Inputs!MouseMotionAck
  <2>1. waiting_for_ack >= SPICE_INPUT_MOTION_ACK_BUNCH
    BY <1>1, <1>2, <1>4 DEF Inputs!MouseMotionAck
  <2> QED BY <1>1, <1>2, <1>4, <2>1 DEF Inputs!MouseMotionAck
<1>5. CASE UNCHANGED <<waiting_for_ack, motions, acks>>
  BY <1>5
<1> QED
  BY <1>3, <1>4, <1>5 DEF Inputs!Next, Inputs!InputsReady, Inputs!handle_mouseover,
     Inputs!handle_mouseout, Inputs!Modifier, Inputs!OtherKey, Inputs!sendCtrlAltDel,
     Inputs!handle_mousedown, Inputs!handle_mouseup, Inputs!mouse

\* Every event of a key brings the page and the guest to the flags it carries,
\* or leaves a modifier among the muddled ones; of Meta, whose key it does not
\* recognise, the flag goes with the key.
LEMMA HandleStep ==
  ASSUME ModifierInv, NEW e \in SUBSET Mods, NEW key \in SUBSET Mods, NEW pressed \in BOOLEAN,
         Meta \in key => (pressed <=> Meta \in e),
         Inputs!Handle(e, key, pressed), UNCHANGED ready,
         held' \in [Mods -> Nat], \A m \in Mods : held'[m] <= Inputs!Keys(m)
  PROVE  ModifierInv'
<1>1. modifiers' \in [Mods -> BOOLEAN]
  <2>1. CASE ready
    <3>1. \A m \in Mods : (m \in e) \in BOOLEAN
      OBVIOUS
    <3>2. modifiers' = [m \in Mods |-> m \in e]
      BY <2>1 DEF Inputs!Handle
    <3> QED BY ONLY <3>1, <3>2, Zenon
  <2>2. CASE ~ready
    <3> DEFINE Before(m) == IF m \in key \ {Meta} THEN pressed
                            ELSE IF known THEN modifiers[m] ELSE m \in e
    <3>1. ASSUME NEW m \in Mods PROVE Before(m) \in BOOLEAN
      <4>0. modifiers \in [Mods -> BOOLEAN]
        BY Zenon DEF ModifierInv
      <4>1. modifiers[m] \in BOOLEAN
        BY ONLY <4>0, Zenon
      <4>5. (m \in e) \in BOOLEAN
        OBVIOUS
      <4>2. CASE m \in key \ {Meta}
        BY <4>2, Zenon
      <4>3. CASE m \notin key \ {Meta} /\ known
        BY <4>1, <4>3, Zenon
      <4>4. CASE m \notin key \ {Meta} /\ ~known
        BY <4>5, <4>4, Zenon
      <4> QED BY <4>2, <4>3, <4>4, Zenon
    <3>2. modifiers' = [m \in Mods |-> Before(m)]
      BY <2>2, Zenon DEF Inputs!Handle, Inputs!Followed
    <3> HIDE DEF Before
    <3> QED BY ONLY <3>1, <3>2, Zenon
  <2> QED BY <2>1, <2>2
<1>2. (~ready => guest = {})'
  BY DEF ModifierInv, Inputs!Handle
<1>3. (~known => guest \subseteq muddled)'
  BY DEF Inputs!Handle
<1>4. Inputs!ModifiersAgree'
  <2> SUFFICES ASSUME NEW m \in Mods, m \notin muddled'
               PROVE  m \in guest' <=> modifiers'[m]
    BY DEF Inputs!ModifiersAgree
  <2>1. CASE ready
    <3>1. modifiers'[m] = (m \in e)
      BY <2>1 DEF Inputs!Handle
    <3>2. CASE m \in key
      BY <2>1, <3>1, <3>2 DEF Inputs!Handle, Inputs!OutOfSync, Inputs!Followed
    <3>3. CASE m \notin key
      BY <2>1, <3>1, <3>3 DEF Inputs!Handle, Inputs!OutOfSync, Inputs!Followed, ModifierInv,
                              Inputs!ModifiersAgree
    <3> QED BY <3>2, <3>3
  <2>2. CASE ~ready
    BY <2>2 DEF Inputs!Handle, Inputs!Followed, ModifierInv, Inputs!ModifiersAgree
  <2> QED BY <2>1, <2>2
<1>5. (/\ held \in [Mods -> Nat]
       /\ \A m \in Mods : held[m] <= Inputs!Keys(m))'
  BY DEF Inputs!Keys
<1> QED BY <1>1, <1>2, <1>3, <1>4, <1>5 DEF ModifierInv

\* Every event leaves the guest's modifiers those of the page, or muddled.
LEMMA ModifierStep ==
  ASSUME ModifierInv, Inputs!Next
  PROVE  ModifierInv'
<1>1. CASE Inputs!InputsReady
  BY <1>1 DEF Inputs!InputsReady, Inputs!keyboard, ModifierInv, Inputs!ModifiersAgree,
          Inputs!Keys
<1>2. CASE Inputs!Modifier
  <2>1. PICK m \in Mods, pressed \in BOOLEAN :
          /\ IF pressed THEN held[m] < Inputs!Keys(m) ELSE held[m] > 0
          /\ held' = [held EXCEPT ![m] = IF pressed THEN @ + 1 ELSE @ - 1]
          /\ IF focus THEN Inputs!Handle(Inputs!Flags(held'), {m}, pressed)
                      ELSE UNCHANGED <<known, modifiers, guest, muddled>>
          /\ UNCHANGED ready
    BY <1>2 DEF Inputs!Modifier
  <2>2. /\ held \in [Mods -> Nat] /\ \A k \in Mods : held[k] <= Inputs!Keys(k)
        /\ \A k : Inputs!Keys(k) \in Nat /\ Inputs!Keys(Meta) = 1
    BY DEF ModifierInv, Inputs!Keys
  <2>3. \A k \in Mods : held'[k] = IF k = m THEN IF pressed THEN held[m] + 1 ELSE held[m] - 1
                                  ELSE held[k]
    BY <2>1, <2>2
  <2>4. held' \in [Mods -> Nat] /\ \A k \in Mods : held'[k] <= Inputs!Keys(k)
    <3>1. held[m] \in Nat
      BY <2>2
    <3>2. \A k \in Mods : held'[k] \in Nat /\ held'[k] <= Inputs!Keys(k)
      BY <2>1, <2>2, <2>3, <3>1
    <3> QED BY <2>1, <2>2, <3>2
  <2>5. CASE focus
    <3>1. Inputs!Flags(held') \in SUBSET Mods /\ {m} \in SUBSET Mods
      BY DEF Inputs!Flags
    <3>2. m = Meta => (pressed <=> Meta \in Inputs!Flags(held'))
      <4>1. SUFFICES ASSUME m = Meta PROVE pressed <=> held'[m] > 0
        BY DEF Inputs!Flags
      <4>2. held[m] \in Nat /\ held[m] <= 1
        BY <2>2, <4>1
      <4> QED BY <2>1, <2>3, <4>2
    <3>3. Inputs!Handle(Inputs!Flags(held'), {m}, pressed)
      BY <2>1, <2>5
    <3> QED BY <2>1, <2>4, <3>1, <3>2, <3>3, HandleStep
  <2>6. CASE ~focus
    BY <2>1, <2>4, <2>6 DEF ModifierInv, Inputs!ModifiersAgree, Inputs!Keys
  <2> QED BY <2>5, <2>6
<1>3. CASE Inputs!OtherKey
  <2>1. Inputs!Flags(held) \in SUBSET Mods /\ {} \in SUBSET Mods
    BY DEF Inputs!Flags
  <2>2. held' = held /\ UNCHANGED ready /\ Inputs!Handle(Inputs!Flags(held), {}, TRUE)
    BY <1>3 DEF Inputs!OtherKey
  <2>3. held' \in [Mods -> Nat] /\ \A k \in Mods : held'[k] <= Inputs!Keys(k)
    BY <2>2 DEF ModifierInv
  <2> QED BY <2>1, <2>2, <2>3, HandleStep
<1>4. CASE Inputs!sendCtrlAltDel
  BY <1>4, SpiceClientAssumption
     DEF Inputs!sendCtrlAltDel, ModifierInv, Inputs!ModifiersAgree, Inputs!Keys
<1>5. CASE UNCHANGED <<ready, held, known, modifiers, guest, muddled>>
  BY <1>5 DEF ModifierInv, Inputs!ModifiersAgree, Inputs!Keys
<1> QED
  BY <1>1, <1>2, <1>3, <1>4, <1>5 DEF Inputs!Next, Inputs!handle_mouseover,
     Inputs!handle_mouseout, Inputs!handle_mousemove, Inputs!MouseMotionAck,
     Inputs!handle_mousedown, Inputs!handle_mouseup, Inputs!keyboard

\* What the parts of the invariant say of the inputs.
LEMMA InputsMeans ==
  ASSUME ButtonInv, MotionInv, ModifierInv
  PROVE  InputsAgree
<1>1. Inputs!MotionsAcked
  <2>1. SPICE_INPUT_MOTION_ACK_BUNCH \in Nat \ {0}
    BY SpiceClientAssumption
  <2>2. /\ acks * SPICE_INPUT_MOTION_ACK_BUNCH \in Nat
        /\ (acks + 1) * SPICE_INPUT_MOTION_ACK_BUNCH
             = acks * SPICE_INPUT_MOTION_ACK_BUNCH + SPICE_INPUT_MOTION_ACK_BUNCH
    BY <2>1, NextBunch DEF MotionInv
  <2> QED BY <2>1, <2>2 DEF MotionInv, Inputs!MotionsAcked
<1> QED BY <1>1 DEF ButtonInv, ModifierInv, InputsAgree, Inputs!ButtonsAgree
-----------------------------------------------------------------------------
(* The session.                                                            *)

\* A session begins with the main channel alone.
LEMMA SessionInit ==
  ASSUME Session!Init
  PROVE  SessionInv
<1>1. conns = [c \in {0} |-> Session!Conn("main")]
  BY DEF Session!Init
<1>2. Session!Conn("main") \in Connection /\ Session!Conn("main").state = "connecting"
  BY DEF Session!Conn, Connection
<1>3. conns \in [{0} -> Connection] /\ DOMAIN conns = {0} /\ conns[0].state = "connecting"
  BY <1>1, <1>2
<1> QED BY <1>3 DEF SessionInv, MainInStep, Session!NothingLeftOpen

\* Which connections have lost their slot depends on their types alone.
LEMMA SameDisplaced ==
  ASSUME DOMAIN conns' = DOMAIN conns, \A c \in DOMAIN conns : conns'[c].type = conns[c].type
  PROVE  Session!Displaced' = Session!Displaced
BY DEF Session!Displaced

\* x may come of connection c: a socket once closed stays so, and a timer once
\* cleared.
Follows(x, c) ==
  /\ x \in Connection /\ x.type = conns[c].type
  /\ conns[c].ws \in {"closing", "closed"} => x.ws \in {"closing", "closed"}
  /\ x.timer => conns[c].timer

\* A change of one connection that ends no session.
LEMMA OneChanges ==
  ASSUME SessionInv, NEW c \in DOMAIN conns, NEW x, Follows(x, c),
         conns' = [conns EXCEPT ![c] = x],
         c = 0 => MainInStep(x) /\ (x.state = "closing" <=> conns[c].state = "closing"),
         UNCHANGED <<slots, extra, progress, told>>
  PROVE  SessionInv' /\ (c # 0 => conns'[0] = conns[0]) /\ (c = 0 => conns'[0] = x)
<1> USE DEF Follows
<1>1. /\ conns' \in [DOMAIN conns -> Connection] /\ DOMAIN conns' = DOMAIN conns
      /\ \A d \in DOMAIN conns : conns'[d] = IF d = c THEN x ELSE conns[d]
  BY DEF SessionInv
<1>2. Session!Displaced' = Session!Displaced
  BY <1>1, SameDisplaced
<1>3. MainInStep(conns[0])'
  BY <1>1 DEF SessionInv, MainInStep
<1>4. conns'[0].state = "closing" <=> conns[0].state = "closing"
  BY <1>1 DEF SessionInv
<1>5. Session!NothingLeftOpen'
  BY <1>1, <1>2, <1>4 DEF SessionInv, Session!NothingLeftOpen
<1>6. (conns[0].state # "closing" =>
         \A d \in DOMAIN conns \ ({0} \cup Session!Displaced) : Reached(d))'
  BY <1>1, <1>2, <1>4 DEF SessionInv, Reached
<1>7. (c # 0 => conns'[0] = conns[0]) /\ (c = 0 => conns'[0] = x)
  BY <1>1 DEF SessionInv
<1> QED BY <1>1, <1>3, <1>5, <1>6, <1>7 DEF SessionInv

\* The end of a session reaches every connection but those that lost their slot.
LEMMA StopCloses ==
  ASSUME SessionInv, NEW x, Follows(x, 0),
         conns' = Session!stop([conns EXCEPT ![0] = x]),
         slots' = <<>>, extra' = {}, told' = TRUE, UNCHANGED progress
  PROVE  /\ SessionInv' /\ conns'[0].state = "closing"
         /\ x.ws = "closed" => conns'[0].ws = "closed"
<1> DEFINE cs == [conns EXCEPT ![0] = x]
           Stopped(c) == IF c = 0 THEN Session!cleanup([cs[0] EXCEPT !.state = "closing"])
                         ELSE IF Reached(c) THEN Session!cleanup(cs[c]) ELSE cs[c]
<1>1. DOMAIN cs = DOMAIN conns /\ cs[0] = x /\ \A c \in DOMAIN conns \ {0} : cs[c] = conns[c]
  BY DEF SessionInv
<1>2. conns' = [c \in DOMAIN conns |-> Stopped(c)]
  BY <1>1 DEF Session!stop, Reached
<1>3. ASSUME NEW y \in Connection
      PROVE  /\ Session!cleanup(y) \in Connection
             /\ Session!cleanup(y).type = y.type
             /\ Session!cleanup(y).state = y.state
             /\ Session!cleanup(y).ws \in {"closing", "closed"}
             /\ y.ws = "closed" => Session!cleanup(y).ws = "closed"
             /\ ~Session!cleanup(y).timer
  BY DEF Session!cleanup, Connection
<1>4. /\ [x EXCEPT !.state = "closing"] \in Connection
      /\ [x EXCEPT !.state = "closing"].type = conns[0].type
      /\ [x EXCEPT !.state = "closing"].state = "closing"
      /\ [x EXCEPT !.state = "closing"].ws = x.ws
  BY DEF Connection, Follows
<1>5. /\ Stopped(0) \in Connection /\ Stopped(0).type = conns[0].type
      /\ Stopped(0).state = "closing" /\ Stopped(0).ws \in {"closing", "closed"}
      /\ x.ws = "closed" => Stopped(0).ws = "closed"
      /\ ~Stopped(0).timer
  BY <1>1, <1>3, <1>4
<1>6. ASSUME NEW c \in DOMAIN conns \ {0}
      PROVE  /\ Stopped(c) \in Connection /\ Stopped(c).type = conns[c].type
             /\ Reached(c) => Stopped(c).ws \in {"closing", "closed"} /\ ~Stopped(c).timer
             /\ ~Reached(c) => Stopped(c) = conns[c]
  <2>1. conns[c] \in Connection /\ cs[c] = conns[c]
    BY <1>1 DEF SessionInv
  <2> QED BY <1>3, <2>1
<1> HIDE DEF Stopped, cs
<1>7. /\ conns' \in [DOMAIN conns -> Connection] /\ DOMAIN conns' = DOMAIN conns
      /\ \A c \in DOMAIN conns : conns'[c] = Stopped(c)
  BY <1>2, <1>5, <1>6
<1>8. Session!Displaced' = Session!Displaced
  BY <1>5, <1>6, <1>7, SameDisplaced
<1>9. /\ conns'[0].state = "closing" /\ MainInStep(conns[0])'
      /\ x.ws = "closed" => conns'[0].ws = "closed"
  BY <1>5, <1>7 DEF SessionInv, MainInStep
<1>10. Session!NothingLeftOpen'
  <2> SUFFICES ASSUME NEW c \in DOMAIN conns \ Session!Displaced
               PROVE  conns'[c].ws \in {"closing", "closed"} /\ ~conns'[c].timer
    BY <1>7, <1>8 DEF Session!NothingLeftOpen
  <2>1. CASE c = 0
    BY <1>5, <1>7, <2>1
  <2>2. CASE c # 0 /\ Reached(c)
    BY <1>6, <1>7, <2>2
  <2>3. CASE c # 0 /\ ~Reached(c)
    BY <1>6, <1>7, <2>3 DEF SessionInv, Session!NothingLeftOpen
  <2> QED BY <2>1, <2>2, <2>3
<1> QED BY <1>7, <1>9, <1>10 DEF SessionInv

\* A session that is ready ends only with its socket.
Ends == conns[0].state = "ready" /\ conns'[0].state # "ready" => conns'[0].ws = "closed"

\* An error of one connection, which has become x.
LEMMA ErrorReported ==
  ASSUME SessionInv, NEW c \in DOMAIN conns, NEW x, Follows(x, c),
         Session!report_error([conns EXCEPT ![c] = x], c),
         c = 0 /\ conns[0].state = "ready" => x.ws = "closed",
         UNCHANGED progress
  PROVE  SessionInv' /\ Ends
<1>1. CASE c = 0
  BY <1>1, StopCloses DEF Session!report_error, Ends
<1>2. CASE c # 0
  BY <1>2, OneChanges DEF Session!report_error, Ends
<1> QED BY <1>1, <1>2

\* A step of the link handshake: the next state, the end of it, or an error.
LEMMA LinkStep ==
  ASSUME SessionInv, NEW c \in DOMAIN conns, conns[c].ws = "open",
         conns[c].state \in {"start", "link", "ticket"},
         NEW to \in {"link", "ticket"}, UNCHANGED progress,
         Session!Enters(c, to) \/ Session!Ready(c) \/ Session!Fails(c)
  PROVE  SessionInv' /\ Ends
<1>0. conns[c] \in Connection /\ conns[c].state \notin {"ready", "closing"}
  BY DEF SessionInv
<1>1. CASE Session!Enters(c, to)
  <2> DEFINE x == [conns[c] EXCEPT !.state = to]
  <2>1. Follows(x, c) /\ x.state = to /\ x.ws = "open"
    BY <1>0 DEF Follows, Connection
  <2>2. conns' = [conns EXCEPT ![c] = x] /\ UNCHANGED <<slots, extra, progress, told>>
    BY <1>1 DEF Session!Enters
  <2>3. MainInStep(x) /\ x.state # "closing"
    BY <2>1 DEF MainInStep
  <2> HIDE DEF x
  <2> QED BY <1>0, <2>1, <2>2, <2>3, OneChanges DEF Ends
<1>2. CASE Session!Ready(c)
  <2> DEFINE x == [conns[c] EXCEPT !.state = "ready", !.timer = FALSE]
  <2>1. Follows(x, c) /\ x.state = "ready" /\ x.ws = "open" /\ ~x.timer
    BY <1>0 DEF Follows, Connection
  <2>2. conns' = [conns EXCEPT ![c] = x] /\ UNCHANGED <<slots, extra, progress, told>>
    BY <1>2 DEF Session!Ready
  <2>3. MainInStep(x) /\ x.state # "closing"
    BY <2>1 DEF MainInStep
  <2> HIDE DEF x
  <2> QED BY <1>0, <2>1, <2>2, <2>3, OneChanges DEF Ends
<1>3. CASE Session!Fails(c)
  <2> DEFINE x == [conns[c] EXCEPT !.state = "error"]
  <2>1. Follows(x, c)
    BY <1>0 DEF Follows, Connection
  <2>2. Session!report_error([conns EXCEPT ![c] = x], c)
    BY <1>3 DEF Session!Fails
  <2> HIDE DEF x
  <2> QED BY <1>0, <2>1, <2>2, ErrorReported
<1> QED BY <1>1, <1>2, <1>3

\* A socket opens.
LEMMA OpenedStep ==
  ASSUME SessionInv, Session!Opened
  PROVE  SessionInv' /\ Ends
<1>1. PICK c \in DOMAIN conns :
        /\ conns[c].ws = "connecting"
        /\ conns' = [conns EXCEPT ![c].ws = "open", ![c].state = "start"]
  BY DEF Session!Opened
<1> DEFINE x == [conns[c] EXCEPT !.ws = "open", !.state = "start"]
<1>2. conns[c] \in Connection /\ (c = 0 => conns[c].state = "connecting")
  BY <1>1 DEF SessionInv, MainInStep
<1>3. Follows(x, c) /\ x.ws = "open" /\ x.state = "start"
  BY <1>1, <1>2 DEF Follows, Connection
<1>4. conns' = [conns EXCEPT ![c] = x] /\ UNCHANGED <<slots, extra, progress, told>>
  BY <1>1 DEF Session!Opened
<1>5. MainInStep(x) /\ x.state # "closing"
  BY <1>3 DEF MainInStep
<1> HIDE DEF x
<1> QED BY <1>2, <1>3, <1>4, <1>5, OneChanges DEF Ends

\* A socket ends, with an error or without.
LEMMA SocketEnds ==
  ASSUME SessionInv, Session!SocketError \/ Session!SocketClose
  PROVE  SessionInv' /\ Ends
<1>1. PICK c \in DOMAIN conns :
        \/ Session!report_error([conns EXCEPT ![c].ws = "closed"], c)
        \/ /\ conns' = [conns EXCEPT ![c].ws = "closed"] /\ UNCHANGED <<slots, extra, told>>
           /\ c = 0 => conns[0].state \in {"closing", "error"}
  BY DEF Session!SocketError, Session!SocketClose
<1> DEFINE x == [conns[c] EXCEPT !.ws = "closed"]
<1>2. conns[c] \in Connection /\ (c = 0 => MainInStep(conns[c]))
  BY DEF SessionInv
<1>3. Follows(x, c) /\ x.ws = "closed" /\ x.state = conns[c].state /\ x.timer = conns[c].timer
  BY <1>2 DEF Follows, Connection
<1>4. UNCHANGED progress
  BY DEF Session!SocketError, Session!SocketClose
<1>5. CASE Session!report_error([conns EXCEPT ![c] = x], c)
  <2> HIDE DEF x
  <2> QED BY <1>3, <1>4, <1>5, ErrorReported
<1>6. CASE /\ conns' = [conns EXCEPT ![c] = x] /\ UNCHANGED <<slots, extra, told>>
           /\ c = 0 => conns[0].state \in {"closing", "error"}
  <2>1. c = 0 => MainInStep(x)
    BY <1>3, <1>6 DEF MainInStep
  <2> HIDE DEF x
  <2> QED BY <1>3, <1>4, <1>6, <2>1, OneChanges DEF Ends
<1> QED BY <1>1, <1>5, <1>6

\* The timer of a connection goes off before it is ready.
LEMMA TimeoutStep ==
  ASSUME SessionInv, NEW c \in DOMAIN conns, Session!Timeout(c)
  PROVE  SessionInv' /\ Ends
<1> DEFINE x == [conns[c] EXCEPT !.timer = FALSE]
<1>1. conns[c] \in Connection /\ (c = 0 => conns[0].state # "ready")
  BY DEF SessionInv, MainInStep, Session!Timeout
<1>2. Follows(x, c)
  BY <1>1 DEF Follows, Connection
<1>3. Session!report_error([conns EXCEPT ![c] = x], c) /\ UNCHANGED progress
  BY DEF Session!Timeout
<1> HIDE DEF x
<1> QED BY <1>1, <1>2, <1>3, ErrorReported

\* A connection of the list keeps its slot unless a later one takes it.
LEMMA ChannelsStep ==
  ASSUME SessionInv, Session!ChannelsList
  PROVE  SessionInv' /\ Ends
<1>0. PICK n \in 0..MaxChannels : \E list \in [1..n -> Types] :
        LET kept   == {c \in 1..n : list[c] # "other"}
            used   == {Session!SlotOf(list[c]) : c \in kept}
            LastOf(s) == CHOOSE c \in kept : Session!SlotOf(list[c]) = s /\
                         \A d \in kept : Session!SlotOf(list[d]) = s => d <= c
        IN /\ conns' = [c \in 0..n |-> IF c = 0 THEN conns[0] ELSE Session!Conn(list[c])]
           /\ slots' = [s \in used |-> LastOf(s)]
           /\ extra' = (1..n) \ kept
  BY DEF Session!ChannelsList
<1>1. PICK list \in [1..n -> Types] :
        LET kept   == {c \in 1..n : list[c] # "other"}
            used   == {Session!SlotOf(list[c]) : c \in kept}
            LastOf(s) == CHOOSE c \in kept : Session!SlotOf(list[c]) = s /\
                         \A d \in kept : Session!SlotOf(list[d]) = s => d <= c
        IN /\ conns' = [c \in 0..n |-> IF c = 0 THEN conns[0] ELSE Session!Conn(list[c])]
           /\ slots' = [s \in used |-> LastOf(s)]
           /\ extra' = (1..n) \ kept
  BY <1>0
<1> DEFINE kept == {c \in 1..n : list[c] # "other"}
           used == {Session!SlotOf(list[c]) : c \in kept}
           IsLast(c, s) == /\ Session!SlotOf(list[c]) = s
                           /\ \A d \in kept : Session!SlotOf(list[d]) = s => d <= c
           LastOf(s) == CHOOSE c \in kept : IsLast(c, s)
<1>2. /\ conns' = [c \in 0..n |-> IF c = 0 THEN conns[0] ELSE Session!Conn(list[c])]
      /\ slots' = [s \in used |-> LastOf(s)]
      /\ extra' = (1..n) \ kept
  BY <1>1
<1>3. /\ progress' = "listed" /\ UNCHANGED told
      /\ conns[0].state = "ready" /\ conns[0] \in Connection
  BY DEF Session!ChannelsList, Session!Hears, SessionInv
<1>4. n \in Nat /\ 0..n \subseteq Nat /\ 0 \in 0..n
  BY SpiceClientAssumption
<1>5. \A c \in 1..n : /\ Session!Conn(list[c]) \in Connection
                      /\ Session!Conn(list[c]).type = list[c]
  BY DEF Session!Conn, Connection
<1>6. /\ conns' \in [0..n -> Connection] /\ DOMAIN conns' = 0..n /\ conns'[0] = conns[0]
      /\ \A c \in 1..n : conns'[c].type = list[c]
  BY <1>2, <1>3, <1>4, <1>5
<1>7. ASSUME NEW c \in 1..n, c \notin Session!Displaced'
      PROVE  Reached(c)'
  <2>1. CASE list[c] = "other"
    <3>1. c \in extra'
      BY <1>2, <2>1
    <3> QED BY <3>1 DEF Reached
  <2>2. CASE list[c] # "other"
    <3> DEFINE s == Session!SlotOf(list[c])
    <3>1. c \in kept /\ s \in used
      BY <2>2
    <3>2. \A d \in kept : Session!SlotOf(list[d]) = s => d <= c
      <4> SUFFICES ASSUME NEW d \in kept, Session!SlotOf(list[d]) = s, d > c
                   PROVE  FALSE
        BY <1>4
      <4>1. d \in 1..n /\ list[d] # "other"
        OBVIOUS
      <4>2. c \in DOMAIN conns' \ {0} /\ d \in DOMAIN conns'
        BY <1>4, <1>6, <4>1
      <4>3. conns'[c].type = list[c] /\ conns'[d].type = list[d]
        BY <1>6, <4>1
      <4> QED BY <1>7, <4>1, <4>2, <4>3 DEF Session!Displaced, Session!SlotOf
    <3>3. IsLast(c, s)
      BY <3>2
    <3>4. \A d \in kept : IsLast(d, s) => d = c
      <4> SUFFICES ASSUME NEW d \in kept, IsLast(d, s) PROVE d = c
        OBVIOUS
      <4>1. d <= c /\ c <= d
        BY <3>1, <3>2
      <4> QED BY <1>4, <4>1
    <3>5. LastOf(s) = c
      <4> HIDE DEF IsLast, kept, s
      <4> QED BY <3>1, <3>3, <3>4
    <3>6. s \in DOMAIN slots' /\ slots'[s] = c
      <4> HIDE DEF LastOf, used, s
      <4> QED BY <1>2, <3>1, <3>5
    <3> QED BY <3>6 DEF Reached
  <2> QED BY <2>1, <2>2
<1>8. (conns[0].state # "closing" =>
         \A c \in DOMAIN conns \ ({0} \cup Session!Displaced) : Reached(c))'
  BY <1>4, <1>6, <1>7
<1>9. MainInStep(conns[0])'
  BY <1>6 DEF SessionInv, MainInStep
<1>10. Session!NothingLeftOpen'
  BY <1>3, <1>6 DEF Session!NothingLeftOpen
<1> QED BY <1>3, <1>4, <1>6, <1>8, <1>9, <1>10 DEF SessionInv, Ends

\* Every step of the session.
LEMMA SessionStep ==
  ASSUME SessionInv, Session!Next
  PROVE  SessionInv' /\ Ends
<1>1. CASE Session!LinkHeader
  <2>1. PICK c \in DOMAIN conns :
          /\ conns[c].ws = "open" /\ conns[c].state = "start"
          /\ Session!Enters(c, "link") \/ Session!Fails(c)
    BY <1>1 DEF Session!LinkHeader
  <2>2. UNCHANGED progress /\ conns[c].state \in {"start", "link", "ticket"}
        /\ "link" \in {"link", "ticket"} /\ "ticket" \in {"link", "ticket"}
    BY <1>1, <2>1 DEF Session!LinkHeader
  <2> QED BY <2>1, <2>2, LinkStep
<1>2. CASE Session!LinkReply
  <2>1. PICK c \in DOMAIN conns :
          /\ conns[c].ws = "open" /\ conns[c].state = "link"
          /\ Session!Enters(c, "ticket") \/ Session!Fails(c)
    BY <1>2 DEF Session!LinkReply
  <2>2. UNCHANGED progress /\ conns[c].state \in {"start", "link", "ticket"}
        /\ "link" \in {"link", "ticket"} /\ "ticket" \in {"link", "ticket"}
    BY <1>2, <2>1 DEF Session!LinkReply
  <2> QED BY <2>1, <2>2, LinkStep
<1>3. CASE Session!AuthReply
  <2>1. PICK c \in DOMAIN conns :
          /\ conns[c].ws = "open" /\ conns[c].state = "ticket"
          /\ Session!Ready(c) \/ Session!Fails(c)
    BY <1>3 DEF Session!AuthReply
  <2>2. UNCHANGED progress /\ conns[c].state \in {"start", "link", "ticket"}
        /\ "link" \in {"link", "ticket"} /\ "ticket" \in {"link", "ticket"}
    BY <1>3, <2>1 DEF Session!AuthReply
  <2> QED BY <2>1, <2>2, LinkStep
<1>4. CASE Session!MainInit \/ Session!AgentConnected
  <2>1. UNCHANGED <<conns, slots, extra, told>> /\ (progress = "listed" => progress' = "listed")
    BY <1>4 DEF Session!MainInit, Session!AgentConnected
  <2>2. Session!Displaced' = Session!Displaced
    BY <2>1, SameDisplaced
  <2> QED BY <2>1, <2>2 DEF SessionInv, MainInStep, Session!NothingLeftOpen, Reached, Ends
<1> QED
  BY <1>1, <1>2, <1>3, <1>4, OpenedStep, SocketEnds, TimeoutStep, ChannelsStep
     DEF Session!Next

-----------------------------------------------------------------------------
(* The display.                                                            *)

\* The display begins with no surface and no image.
LEMMA DisplayInit ==
  ASSUME Display!Init
  PROVE  DisplayInv
<1>1. DOMAIN surfaces = {} /\ DOMAIN sv.surfaces = {} /\ DOMAIN cache = {} /\ DOMAIN sv.cache = {}
      /\ DOMAIN streams = {} /\ loading = {}
  BY DEF Display!Init
<1>2. SurfaceInv
  BY <1>1 DEF Display!Init, SurfaceInv
<1>3. KeyInv
  <2>1. \A k \in {0, 1} : LoadsFor(k) = {} /\ Ids(k) = {} /\ k \notin DOMAIN cache
    BY <1>1 DEF LoadsFor, Ids
  <2> QED BY <1>1, <2>1 DEF Display!Init, KeyInv, KeyAsServer
<1> QED BY <1>1, <1>2, <1>3 DEF Display!Init, DisplayInv, LoadingType, StreamsOn

\* What painting a box does to the surfaces of the client or the server.
LEMMA PaintIs ==
  ASSUME NEW S, NEW f \in [S -> [Boxes -> Nat]], NEW s \in S, NEW b \in Boxes, NEW px \in Nat,
         NEW g, g = [f EXCEPT ![s][b] = px]
  PROVE  /\ g \in [S -> [Boxes -> Nat]] /\ DOMAIN g = S /\ g[s][b] = px
         /\ \A t \in S, c \in Boxes : <<t, c>> # <<s, b>> => g[t][c] = f[t][c]
<1>1. f[s] \in [Boxes -> Nat]
  OBVIOUS
<1>2. g = [f EXCEPT ![s] = [f[s] EXCEPT ![b] = px]]
  OBVIOUS
<1>3. [f[s] EXCEPT ![b] = px] \in [Boxes -> Nat]
  BY <1>1
<1> QED BY <1>1, <1>2, <1>3

\* A step that concerns one box.
LEMMA OneBox ==
  ASSUME SurfaceInv, NEW s \in DOMAIN surfaces, NEW b \in Boxes,
         surfaces' \in [DOMAIN surfaces -> [Boxes -> Nat]],
         sv'.surfaces \in [DOMAIN surfaces -> [Boxes -> Nat]],
         UNCHANGED <<primary_surface, hooked>>,
         \A t \in DOMAIN surfaces, c \in Boxes : <<t, c>> # <<s, b>> =>
            /\ surfaces'[t][c] = surfaces[t][c] /\ sv'.surfaces[t][c] = sv.surfaces[t][c]
            /\ Loads(t, c)' = Loads(t, c) /\ (<<t, c>> \in astray => <<t, c>> \in astray'),
         BoxAsServer(s, b)'
  PROVE  SurfaceInv'
<1>1. DOMAIN surfaces' = DOMAIN surfaces
  OBVIOUS
<1>2. ASSUME NEW t \in DOMAIN surfaces, NEW c \in Boxes
      PROVE  BoxAsServer(t, c)'
  <2>1. CASE <<t, c>> = <<s, b>>
    BY <2>1
  <2>2. CASE <<t, c>> # <<s, b>>
    <3>1. BoxAsServer(t, c)
      BY DEF SurfaceInv
    <3>2. Loads(t, c)' \subseteq loading'
      BY DEF Loads
    <3> QED BY <2>2, <3>1, <3>2 DEF BoxAsServer
  <2> QED BY <2>1, <2>2
<1> QED BY <1>1, <1>2 DEF SurfaceInv

\* A drawing on one box, of px as the server takes it.
LEMMA DrawnStep ==
  ASSUME SurfaceInv, NEW s \in DOMAIN surfaces, NEW b \in Boxes, NEW px \in Nat,
         NEW missed \in BOOLEAN,
         sv'.surfaces = [sv.surfaces EXCEPT ![s][b] = px],
         astray' = Display!Drawn(s, b, missed),
         UNCHANGED <<primary_surface, hooked>>,
         \/ \E w \in Nat : /\ surfaces' = [surfaces EXCEPT ![s][b] = w] /\ loading' = loading
                           /\ ~missed /\ Loads(s, b) = {} => w = px
         \/ \E l : /\ surfaces' = surfaces /\ loading' = loading \cup {l}
                   /\ l.surface = s /\ l.box = b /\ l.px = px
         \/ missed /\ surfaces' = surfaces /\ loading' = loading
  PROVE  SurfaceInv'
<1>1. surfaces \in [DOMAIN surfaces -> [Boxes -> Nat]]
      /\ sv.surfaces \in [DOMAIN surfaces -> [Boxes -> Nat]]
  BY DEF SurfaceInv
<1>2. /\ sv'.surfaces \in [DOMAIN surfaces -> [Boxes -> Nat]] /\ sv'.surfaces[s][b] = px
      /\ \A t \in DOMAIN surfaces, c \in Boxes :
           <<t, c>> # <<s, b>> => sv'.surfaces[t][c] = sv.surfaces[t][c]
  BY <1>1, PaintIs
<1>3. Display!LoadingAt(s, b) <=> Loads(s, b) # {}
  BY DEF Display!LoadingAt, Loads
<1>4. /\ missed \/ Loads(s, b) # {} => <<s, b>> \in astray'
      /\ \A t \in DOMAIN surfaces, c \in Boxes :
           <<t, c>> # <<s, b>> /\ <<t, c>> \in astray => <<t, c>> \in astray'
  BY <1>3 DEF Display!Drawn
<1>5. CASE \E w \in Nat : /\ surfaces' = [surfaces EXCEPT ![s][b] = w] /\ loading' = loading
                          /\ ~missed /\ Loads(s, b) = {} => w = px
  <2>1. PICK w \in Nat : /\ surfaces' = [surfaces EXCEPT ![s][b] = w] /\ loading' = loading
                         /\ ~missed /\ Loads(s, b) = {} => w = px
    BY <1>5
  <2>2. /\ surfaces' \in [DOMAIN surfaces -> [Boxes -> Nat]] /\ surfaces'[s][b] = w
        /\ \A t \in DOMAIN surfaces, c \in Boxes :
             <<t, c>> # <<s, b>> => surfaces'[t][c] = surfaces[t][c]
    BY <1>1, <2>1, PaintIs
  <2>3. \A t, c : Loads(t, c)' = Loads(t, c)
    BY <2>1 DEF Loads
  <2>4. BoxAsServer(s, b)'
    BY <1>2, <1>4, <2>1, <2>2, <2>3 DEF BoxAsServer
  <2> QED BY <1>2, <1>4, <2>2, <2>3, <2>4, OneBox
<1>6. CASE \E l : /\ surfaces' = surfaces /\ loading' = loading \cup {l}
                  /\ l.surface = s /\ l.box = b /\ l.px = px
  <2>1. PICK l : /\ surfaces' = surfaces /\ loading' = loading \cup {l}
                 /\ l.surface = s /\ l.box = b /\ l.px = px
    BY <1>6
  <2>2. Loads(s, b)' = Loads(s, b) \cup {l}
    BY <2>1 DEF Loads
  <2>3. \A t \in DOMAIN surfaces, c \in Boxes : <<t, c>> # <<s, b>> => Loads(t, c)' = Loads(t, c)
    BY <2>1 DEF Loads
  <2>4. BoxAsServer(s, b)'
    BY <1>2, <1>4, <2>1, <2>2 DEF BoxAsServer
  <2> QED BY <1>1, <1>2, <1>4, <2>1, <2>3, <2>4, OneBox
<1>7. CASE missed /\ surfaces' = surfaces /\ loading' = loading
  <2>1. \A t, c : Loads(t, c)' = Loads(t, c)
    BY <1>7 DEF Loads
  <2>2. BoxAsServer(s, b)'
    BY <1>4, <1>7 DEF BoxAsServer
  <2> QED BY <1>1, <1>2, <1>4, <1>7, <2>1, <2>2, OneBox
<1> QED BY <1>5, <1>6, <1>7

\* A step that concerns no box.
LEMMA SameBoxes ==
  ASSUME SurfaceInv, UNCHANGED <<surfaces, primary_surface, hooked, astray>>,
         sv'.surfaces = sv.surfaces, UNCHANGED loading
  PROVE  SurfaceInv'
<1>1. \A s, b : Loads(s, b)' = Loads(s, b)
  BY DEF Loads
<1> QED BY <1>1 DEF SurfaceInv, BoxAsServer

\* A step that concerns one key.
LEMMA OneKey ==
  ASSUME KeyInv, NEW k \in {0, 1},
         DOMAIN cache' \subseteq {0, 1}, cache' \in [DOMAIN cache' -> Nat],
         sv'.cache \in [DOMAIN sv'.cache -> Nat],
         \A j \in {0, 1} \ {k} :
           /\ j \in unclear => j \in unclear'
           /\ LoadsFor(j)' = LoadsFor(j) /\ Ids(j)' = Ids(j)
           /\ j \in DOMAIN cache' <=> j \in DOMAIN cache
           /\ j \in DOMAIN cache => cache'[j] = cache[j]
           /\ \A id \in Ids(j) : sv'.cache[id] = sv.cache[id],
         KeyAsServer(k)'
  PROVE  KeyInv'
<1>1. ASSUME NEW j \in {0, 1} \ {k}
      PROVE  KeyAsServer(j)'
  <2>1. KeyAsServer(j)
    BY DEF KeyInv
  <2>2. LoadsFor(j)' \subseteq loading' /\ Ids(j)' \subseteq DOMAIN sv'.cache
    BY DEF LoadsFor, Ids
  <2> QED BY <2>1, <2>2 DEF KeyAsServer
<1> QED BY <1>1 DEF KeyInv

\* A step that concerns no key.
LEMMA SameKeys ==
  ASSUME KeyInv, UNCHANGED <<cache, unclear>>, sv'.cache = sv.cache,
         \A k \in {0, 1} : LoadsFor(k)' = LoadsFor(k)
  PROVE  KeyInv'
<1>1. \A k \in {0, 1} : Ids(k)' = Ids(k)
  BY DEF Ids, Display!KeyOf
<1>2. ASSUME NEW k \in {0, 1}
      PROVE  KeyAsServer(k)'
  <2>1. KeyAsServer(k)
    BY DEF KeyInv
  <2>2. LoadsFor(k)' \subseteq loading'
    BY DEF LoadsFor
  <2> QED BY <1>1, <2>1, <2>2 DEF KeyAsServer
<1> QED BY <1>2 DEF KeyInv

\* What a drawing does to what the server has.
LEMMA ServerPaintIs ==
  ASSUME NEW s, NEW b, NEW px, sv = [surfaces |-> sv.surfaces, cache |-> sv.cache],
         NEW r, r = Display!ServerPaint(s, b, px)
  PROVE  /\ r.surfaces = [sv.surfaces EXCEPT ![s][b] = px] /\ r.cache = sv.cache
         /\ r = [surfaces |-> r.surfaces, cache |-> r.cache]
<1> DEFINE f == [sv.surfaces EXCEPT ![s][b] = px]
<1>1. r = [sv EXCEPT !.surfaces = f]
  BY DEF Display!ServerPaint
<1> HIDE DEF f
<1>2. r = [surfaces |-> f, cache |-> sv.cache]
  BY <1>1
<1> QED BY <1>2 DEF f

\* And that of an image that is to be cached.
LEMMA ServerCacheIs ==
  ASSUME NEW s, NEW b, NEW id, sv = [surfaces |-> sv.surfaces, cache |-> sv.cache],
         NEW r, r = Display!ServerCache(s, b, id)
  PROVE  /\ r.surfaces = [sv.surfaces EXCEPT ![s][b] = draws + 1]
         /\ r.cache = IF Display!Flagged(id) THEN Display!With(sv.cache, id, draws + 1)
                      ELSE sv.cache
         /\ r = [surfaces |-> r.surfaces, cache |-> r.cache]
<1> DEFINE p == Display!ServerPaint(s, b, draws + 1)
           g == IF Display!Flagged(id) THEN Display!With(sv.cache, id, draws + 1) ELSE sv.cache
<1>1. /\ p.surfaces = [sv.surfaces EXCEPT ![s][b] = draws + 1] /\ p.cache = sv.cache
      /\ p = [surfaces |-> p.surfaces, cache |-> p.cache]
  BY ServerPaintIs
<1>2. r = [p EXCEPT !.cache = g]
  BY <1>1 DEF Display!ServerCache
<1> HIDE DEF p, g
<1>3. r = [surfaces |-> p.surfaces, cache |-> g]
  BY <1>1, <1>2
<1> QED BY <1>1, <1>3 DEF g

\* A key of an image is not NoKey.
LEMMA KeyRange == \A id : Display!KeyOf(id) \in {0, 1} /\ Display!KeyIn(id) \in {0, 1, 2}
BY DEF Display!KeyOf, Display!KeyIn, Display!NoKey

\* An image that is to be cached: it is in the cache, or loading.
LEMMA CachedStep ==
  ASSUME KeyInv, draws \in Nat, NEW id, Display!Flagged(id),
         sv'.cache = Display!With(sv.cache, id, draws + 1),
         unclear' = Display!Ordered(id),
         \/ cache' = Display!With(cache, Display!KeyOf(id), draws + 1) /\ loading' = loading
         \/ \E l : /\ cache' = cache /\ loading' = loading \cup {l}
                   /\ l.key = Display!KeyOf(id) /\ l.px = draws + 1
  PROVE  KeyInv'
<1> DEFINE k == Display!KeyOf(id)
<1>1. k \in {0, 1}
  BY KeyRange
<1>2. /\ DOMAIN sv'.cache = DOMAIN sv.cache \cup {id} /\ sv'.cache[id] = draws + 1
      /\ \A other \in DOMAIN sv.cache \ {id} : sv'.cache[other] = sv.cache[other]
      /\ sv'.cache \in [DOMAIN sv'.cache -> Nat]
  <2>1. draws + 1 \in Nat /\ sv.cache \in [DOMAIN sv.cache -> Nat]
    BY DEF KeyInv
  <2> QED BY <2>1 DEF Display!With
<1>3. \A j : Ids(j)' = IF j = k THEN Ids(j) \cup {id} ELSE Ids(j)
  BY <1>2 DEF Ids, Display!KeyOf
<1>4. k \notin unclear' => LoadsFor(k) = {} /\ Ids(k) \subseteq {id}
  BY DEF Display!Ordered, Display!LoadingKey, LoadsFor, Ids
<1>5. \A j \in {0, 1} \ {k} : j \in unclear => j \in unclear'
  BY DEF Display!Ordered
<1>6. ASSUME NEW j \in {0, 1} \ {k}, NEW other \in Ids(j)
      PROVE  sv'.cache[other] = sv.cache[other]
  BY <1>2 DEF Ids
<1>7. CASE cache' = Display!With(cache, k, draws + 1) /\ loading' = loading
  <2>1. \A j : LoadsFor(j)' = LoadsFor(j)
    BY <1>7 DEF LoadsFor
  <2>2. /\ DOMAIN cache' = DOMAIN cache \cup {k} /\ cache'[k] = draws + 1
        /\ \A j \in DOMAIN cache \ {k} : cache'[j] = cache[j]
        /\ cache' \in [DOMAIN cache' -> Nat]
    <3>1. draws + 1 \in Nat /\ cache \in [DOMAIN cache -> Nat]
      BY DEF KeyInv
    <3> QED BY <1>7, <3>1 DEF Display!With
  <2> HIDE DEF k
  <2>3. KeyAsServer(k)'
    BY <1>2, <1>3, <1>4, <2>1, <2>2 DEF KeyAsServer
  <2>4. DOMAIN cache' \subseteq {0, 1}
    BY <1>1, <2>2 DEF KeyInv
  <2> QED BY <1>1, <1>2, <1>3, <1>5, <1>6, <2>1, <2>2, <2>3, <2>4, OneKey
<1>8. CASE \E l : /\ cache' = cache /\ loading' = loading \cup {l}
                  /\ l.key = k /\ l.px = draws + 1
  <2>1. PICK l : cache' = cache /\ loading' = loading \cup {l} /\ l.key = k /\ l.px = draws + 1
    BY <1>8
  <2>2. \A j : LoadsFor(j)' = IF j = k THEN LoadsFor(j) \cup {l} ELSE LoadsFor(j)
    BY <2>1 DEF LoadsFor
  <2> HIDE DEF k
  <2>3. KeyAsServer(k)'
    BY <1>2, <1>3, <1>4, <2>1, <2>2 DEF KeyAsServer
  <2>4. DOMAIN cache' \subseteq {0, 1} /\ cache' \in [DOMAIN cache' -> Nat]
    BY <2>1 DEF KeyInv
  <2> QED BY <1>1, <1>2, <1>3, <1>5, <1>6, <2>1, <2>2, <2>3, <2>4, OneKey
<1> QED BY <1>7, <1>8

\* One more image that is loading.
LEMMA LoadingMore ==
  ASSUME LoadingType, draws \in Nat, NEW s \in Surfaces, NEW b \in Boxes, NEW k \in {0, 1, 2},
         loading' = loading \cup {[surface |-> s, box |-> b, px |-> draws + 1, key |-> k]}
  PROVE  LoadingType'
BY DEF LoadingType

\* An image that is decoded in place is painted and cached at once.
LEMMA DrawCopyDecodedStep ==
  ASSUME DisplayInv, Display!DrawCopyDecoded
  PROVE  DisplayInv'
<1>1. PICK s \in DOMAIN sv.surfaces, b \in Boxes, id \in Display!CacheMe :
        /\ surfaces' = [surfaces EXCEPT ![s][b] = draws + 1]
        /\ Display!CacheImage(Display!KeyIn(id), draws + 1)
        /\ sv' = Display!ServerCache(s, b, id)
        /\ astray' = Display!Drawn(s, b, FALSE)
        /\ unclear' = IF Display!Flagged(id) THEN Display!Ordered(id) ELSE unclear
  BY DEF Display!DrawCopyDecoded, Display!Paint
<1>2. /\ open /\ UNCHANGED <<primary_surface, hooked, streams, loading, open>>
      /\ draws' = draws + 1
  BY DEF Display!DrawCopyDecoded
<1>3. /\ draws \in Nat /\ LoadingType /\ SurfaceInv /\ KeyInv /\ StreamsOn
      /\ sv = [surfaces |-> sv.surfaces, cache |-> sv.cache]
      /\ DOMAIN sv.surfaces = DOMAIN surfaces
  BY <1>2 DEF DisplayInv, LoadingType, StreamsOn, SurfaceInv
<1>4. /\ sv'.surfaces = [sv.surfaces EXCEPT ![s][b] = draws + 1]
      /\ sv'.cache = IF Display!Flagged(id) THEN Display!With(sv.cache, id, draws + 1)
                     ELSE sv.cache
      /\ sv' = [surfaces |-> sv'.surfaces, cache |-> sv'.cache]
  BY <1>1, <1>3, ServerCacheIs
<1>5. SurfaceInv'
  <2>1. draws + 1 \in Nat /\ FALSE \in BOOLEAN /\ s \in DOMAIN surfaces
    BY <1>3
  <2> QED BY <1>1, <1>2, <1>3, <1>4, <2>1, DrawnStep
<1>6. KeyInv'
  <2>1. CASE Display!Flagged(id)
    <3>1. cache' = Display!With(cache, Display!KeyOf(id), draws + 1)
      BY <1>1, <2>1, KeyRange DEF Display!CacheImage, Display!KeyIn, Display!NoKey
    <3> QED BY <1>1, <1>2, <1>3, <1>4, <2>1, <3>1, CachedStep
  <2>2. CASE ~Display!Flagged(id)
    <3>1. UNCHANGED <<cache, unclear>> /\ sv'.cache = sv.cache
      BY <1>1, <1>4, <2>2 DEF Display!CacheImage, Display!KeyIn
    <3>2. \A k \in {0, 1} : LoadsFor(k)' = LoadsFor(k)
      BY <1>2 DEF LoadsFor
    <3> QED BY <1>3, <3>1, <3>2, SameKeys
  <2> QED BY <2>1, <2>2
<1>7. DOMAIN surfaces' = DOMAIN surfaces
  BY <1>1
<1> QED BY <1>2, <1>3, <1>4, <1>5, <1>6, <1>7 DEF DisplayInv, StreamsOn, LoadingType

\* An image of the JPEG kinds is painted and cached when it has loaded.
LEMMA DrawCopyJpegStep ==
  ASSUME DisplayInv, Display!DrawCopyJpeg
  PROVE  DisplayInv'
<1>1. PICK s \in DOMAIN sv.surfaces, b \in Boxes, id \in Display!CacheMe :
        /\ loading' = loading \cup
             {[surface |-> s, box |-> b, px |-> draws + 1, key |-> Display!KeyIn(id)]}
        /\ sv' = Display!ServerCache(s, b, id)
        /\ astray' = Display!Drawn(s, b, FALSE)
        /\ unclear' = IF Display!Flagged(id) THEN Display!Ordered(id) ELSE unclear
  BY DEF Display!DrawCopyJpeg
<1>2. /\ open /\ draws' = draws + 1
      /\ UNCHANGED <<surfaces, primary_surface, hooked, cache, has_cache, streams, open>>
  BY DEF Display!DrawCopyJpeg
<1>3. /\ draws \in Nat /\ LoadingType /\ SurfaceInv /\ KeyInv /\ StreamsOn
      /\ sv = [surfaces |-> sv.surfaces, cache |-> sv.cache]
      /\ DOMAIN sv.surfaces = DOMAIN surfaces
  BY <1>2 DEF DisplayInv, LoadingType, StreamsOn, SurfaceInv
<1>4. /\ sv'.surfaces = [sv.surfaces EXCEPT ![s][b] = draws + 1]
      /\ sv'.cache = IF Display!Flagged(id) THEN Display!With(sv.cache, id, draws + 1)
                     ELSE sv.cache
      /\ sv' = [surfaces |-> sv'.surfaces, cache |-> sv'.cache]
  <2>1. sv' = Display!ServerCache(s, b, id) /\ sv = [surfaces |-> sv.surfaces, cache |-> sv.cache]
    BY <1>1, <1>3
  <2> QED BY ONLY <2>1, ServerCacheIs
<1> DEFINE l == [surface |-> s, box |-> b, px |-> draws + 1, key |-> Display!KeyIn(id)]
<1>5. l.surface = s /\ l.box = b /\ l.px = draws + 1 /\ l.key = Display!KeyIn(id)
      /\ loading' = loading \cup {l}
  BY <1>1
<1>6. LoadingType'
  <2>1. s \in Surfaces /\ Display!KeyIn(id) \in {0, 1, 2}
    BY <1>3, KeyRange DEF SurfaceInv
  <2> QED BY <1>1, <1>3, <2>1, LoadingMore
<1> HIDE DEF l
<1>7. SurfaceInv'
  <2>1. draws + 1 \in Nat /\ FALSE \in BOOLEAN /\ s \in DOMAIN surfaces
    BY <1>3
  <2> QED BY <1>1, <1>2, <1>3, <1>4, <1>5, <2>1, DrawnStep
<1>8. KeyInv'
  <2>1. CASE Display!Flagged(id)
    <3>1. l.key = Display!KeyOf(id)
      BY <1>5, <2>1 DEF Display!KeyIn
    <3> QED BY <1>1, <1>2, <1>3, <1>4, <1>5, <2>1, <3>1, CachedStep
  <2>2. CASE ~Display!Flagged(id)
    <3>1. UNCHANGED <<cache, unclear>> /\ sv'.cache = sv.cache /\ l.key = 2
      BY <1>1, <1>2, <1>4, <1>5, <2>2 DEF Display!KeyIn, Display!NoKey
    <3>2. \A k \in {0, 1} : LoadsFor(k)' = LoadsFor(k)
      BY <1>5, <3>1 DEF LoadsFor
    <3> QED BY <1>3, <3>1, <3>2, SameKeys
  <2> QED BY <2>1, <2>2
<1> QED BY <1>2, <1>3, <1>4, <1>6, <1>7, <1>8 DEF DisplayInv, StreamsOn, LoadingType

\* The parts of the invariant while the channel is open.
LEMMA WhileOpen ==
  ASSUME DisplayInv, open
  PROVE  /\ draws \in Nat /\ draws + 1 \in Nat /\ LoadingType /\ SurfaceInv /\ KeyInv /\ StreamsOn
         /\ sv = [surfaces |-> sv.surfaces, cache |-> sv.cache]
         /\ DOMAIN sv.surfaces = DOMAIN surfaces /\ DOMAIN surfaces \subseteq Surfaces
         /\ surfaces \in [DOMAIN surfaces -> [Boxes -> Nat]]
         /\ sv.surfaces \in [DOMAIN surfaces -> [Boxes -> Nat]]
BY DEF DisplayInv, LoadingType, StreamsOn, SurfaceInv

\* And what a step has to keep of it.
LEMMA StillOpen ==
  ASSUME draws' \in Nat, LoadingType', sv' = [surfaces |-> sv'.surfaces, cache |-> sv'.cache],
         open' => StreamsOn' /\ SurfaceInv' /\ KeyInv'
  PROVE  DisplayInv'
BY DEF DisplayInv, LoadingType, StreamsOn

\* A new surface shows nothing, but for images that load for an older one of its id.
LEMMA SurfaceCreateStep ==
  ASSUME DisplayInv, Display!SurfaceCreate
  PROVE  DisplayInv'
<1> USE DEF Display!Blank
<1>1. PICK s \in Surfaces \ DOMAIN sv.surfaces :
        /\ surfaces' = Display!With(surfaces, s, Display!Blank)
        /\ sv' = [sv EXCEPT !.surfaces = Display!With(@, s, Display!Blank)]
        /\ IF s = 0
           THEN primary_surface' = {s} /\ hooked' = hooked \cup {s}
           ELSE UNCHANGED <<primary_surface, hooked>>
        /\ astray' = {a \in astray : a \notin {s} \X Boxes}
                       \cup {<<s, b>> : b \in {c \in Boxes : Display!LoadingAt(s, c)}}
  BY DEF Display!SurfaceCreate
<1>2. /\ open /\ UNCHANGED <<cache, has_cache, streams, loading, open, draws, unclear>>
  BY DEF Display!SurfaceCreate
<1>3. /\ draws \in Nat /\ draws + 1 \in Nat /\ LoadingType /\ SurfaceInv /\ KeyInv /\ StreamsOn
      /\ sv = [surfaces |-> sv.surfaces, cache |-> sv.cache]
      /\ DOMAIN sv.surfaces = DOMAIN surfaces /\ DOMAIN surfaces \subseteq Surfaces
      /\ surfaces \in [DOMAIN surfaces -> [Boxes -> Nat]]
      /\ sv.surfaces \in [DOMAIN surfaces -> [Boxes -> Nat]]
  BY <1>2, WhileOpen
<1> DEFINE D == DOMAIN surfaces
<1>4. Display!Blank \in [Boxes -> Nat] /\ \A b \in Boxes : Display!Blank[b] = 0
  OBVIOUS
<1>5. /\ surfaces' \in [D \cup {s} -> [Boxes -> Nat]] /\ surfaces'[s] = Display!Blank
      /\ \A t \in D \ {s} : surfaces'[t] = surfaces[t]
  BY <1>1, <1>3, <1>4 DEF Display!With
<1>6. /\ sv'.surfaces = Display!With(sv.surfaces, s, Display!Blank) /\ sv'.cache = sv.cache
      /\ sv' = [surfaces |-> sv'.surfaces, cache |-> sv'.cache]
  <2> DEFINE w == Display!With(sv.surfaces, s, Display!Blank)
  <2>1. sv' = [sv EXCEPT !.surfaces = w]
    BY <1>1
  <2> HIDE DEF w
  <2>2. sv' = [surfaces |-> w, cache |-> sv.cache]
    BY <1>3, <2>1
  <2> QED BY <2>2 DEF w
<1>7. /\ sv'.surfaces \in [D \cup {s} -> [Boxes -> Nat]] /\ sv'.surfaces[s] = Display!Blank
      /\ \A t \in D \ {s} : sv'.surfaces[t] = sv.surfaces[t]
  BY <1>3, <1>4, <1>6 DEF Display!With
<1>8. DOMAIN surfaces' = D \cup {s} /\ s \notin D /\ s \in Surfaces
  BY <1>1, <1>3, <1>5
<1>9. ASSUME NEW t \in DOMAIN surfaces', NEW c \in Boxes
      PROVE  BoxAsServer(t, c)'
  <2>0. Loads(t, c)' = Loads(t, c)
    BY <1>2 DEF Loads
  <2>1. CASE t = s
    <3>1. CASE Display!LoadingAt(s, c)
      BY <1>1, <2>1, <3>1 DEF BoxAsServer
    <3>2. CASE ~Display!LoadingAt(s, c)
      <4>1. Loads(t, c) = {}
        BY <2>1, <3>2 DEF Display!LoadingAt, Loads
      <4> QED BY <1>5, <1>7, <2>0, <2>1, <4>1 DEF BoxAsServer
    <3> QED BY <3>1, <3>2
  <2>2. CASE t # s
    <3>1. t \in D /\ BoxAsServer(t, c)
      BY <1>3, <1>8, <2>2 DEF SurfaceInv
    <3>2. <<t, c>> \in astray => <<t, c>> \in astray'
      BY <1>1, <2>2
    <3> QED BY <1>2, <1>5, <1>7, <2>0, <2>2, <3>1, <3>2 DEF BoxAsServer
  <2> QED BY <2>1, <2>2
<1>10. primary_surface' = DOMAIN surfaces' \cap {0} /\ hooked' = primary_surface'
  BY <1>1, <1>3, <1>8 DEF SurfaceInv
<1>11. SurfaceInv'
  BY <1>3, <1>5, <1>7, <1>8, <1>9, <1>10 DEF SurfaceInv
<1>12. KeyInv'
  <2>1. \A k \in {0, 1} : LoadsFor(k)' = LoadsFor(k)
    BY <1>2 DEF LoadsFor
  <2> QED BY <1>2, <1>3, <1>6, <2>1, SameKeys
<1>13. StreamsOn' /\ LoadingType'
  BY <1>2, <1>3, <1>8 DEF StreamsOn, LoadingType
<1> QED BY <1>2, <1>3, <1>6, <1>11, <1>12, <1>13, StillOpen

\* The surface leaves the client as it leaves the server.
LEMMA SurfaceDestroyStep ==
  ASSUME DisplayInv, Display!SurfaceDestroy
  PROVE  DisplayInv'
<1>1. PICK s \in DOMAIN sv.surfaces :
        /\ \A i \in DOMAIN streams : streams[i].surface # s
        /\ Display!delete_surface({s})
        /\ sv' = [sv EXCEPT !.surfaces = Display!Without(@, {s})]
  BY DEF Display!SurfaceDestroy
<1>2. /\ open /\ UNCHANGED <<cache, has_cache, streams, loading, open, draws, astray, unclear>>
  BY DEF Display!SurfaceDestroy
<1>3. /\ draws \in Nat /\ draws + 1 \in Nat /\ LoadingType /\ SurfaceInv /\ KeyInv /\ StreamsOn
      /\ sv = [surfaces |-> sv.surfaces, cache |-> sv.cache]
      /\ DOMAIN sv.surfaces = DOMAIN surfaces /\ DOMAIN surfaces \subseteq Surfaces
      /\ surfaces \in [DOMAIN surfaces -> [Boxes -> Nat]]
      /\ sv.surfaces \in [DOMAIN surfaces -> [Boxes -> Nat]]
  BY <1>2, WhileOpen
<1> DEFINE D == DOMAIN surfaces \ {s}
<1>4. /\ surfaces' \in [D -> [Boxes -> Nat]] /\ \A t \in D : surfaces'[t] = surfaces[t]
  BY <1>1, <1>3 DEF Display!delete_surface, Display!Without, Display!Restrict
<1>5. /\ sv'.surfaces = Display!Without(sv.surfaces, {s}) /\ sv'.cache = sv.cache
      /\ sv' = [surfaces |-> sv'.surfaces, cache |-> sv'.cache]
  <2> DEFINE w == Display!Without(sv.surfaces, {s})
  <2>1. sv' = [sv EXCEPT !.surfaces = w]
    BY <1>1
  <2> HIDE DEF w
  <2>2. sv' = [surfaces |-> w, cache |-> sv.cache]
    BY <1>3, <2>1
  <2> QED BY <2>2 DEF w
<1>6. /\ sv'.surfaces \in [D -> [Boxes -> Nat]] /\ \A t \in D : sv'.surfaces[t] = sv.surfaces[t]
  BY <1>3, <1>5 DEF Display!Without, Display!Restrict
<1>7. DOMAIN surfaces' = D
  BY <1>4
<1>8. ASSUME NEW t \in DOMAIN surfaces', NEW c \in Boxes
      PROVE  BoxAsServer(t, c)'
  <2>1. t \in D /\ BoxAsServer(t, c)
    BY <1>3, <1>7 DEF SurfaceInv
  <2>2. Loads(t, c)' = Loads(t, c)
    BY <1>2 DEF Loads
  <2> QED BY <1>2, <1>4, <1>6, <2>1, <2>2 DEF BoxAsServer
<1>9. primary_surface' = DOMAIN surfaces' \cap {0} /\ hooked' = primary_surface'
  <2>1. primary_surface = DOMAIN surfaces \cap {0} /\ hooked = primary_surface
    BY <1>3 DEF SurfaceInv
  <2> QED BY <1>1, <1>7, <2>1 DEF Display!delete_surface
<1>10. SurfaceInv'
  BY <1>3, <1>4, <1>6, <1>7, <1>8, <1>9 DEF SurfaceInv
<1>11. KeyInv'
  <2>1. \A k \in {0, 1} : LoadsFor(k)' = LoadsFor(k)
    BY <1>2 DEF LoadsFor
  <2> QED BY <1>2, <1>3, <1>5, <2>1, SameKeys
<1>12. StreamsOn' /\ LoadingType'
  BY <1>1, <1>2, <1>3, <1>7 DEF StreamsOn, LoadingType
<1> QED BY <1>2, <1>3, <1>5, <1>10, <1>11, <1>12, StillOpen

\* stop() of the main channel.
LEMMA DestroySurfacesStep ==
  ASSUME DisplayInv, Display!DestroySurfaces
  PROVE  DisplayInv'
BY DEF DisplayInv, LoadingType, Display!DestroySurfaces

\* A drawing that leaves the cache and the streams alone.
LEMMA PlainStep ==
  ASSUME DisplayInv, open,
         NEW s \in DOMAIN surfaces, NEW b \in Boxes, NEW px \in Nat, NEW missed \in BOOLEAN,
         sv' = Display!ServerPaint(s, b, px), astray' = Display!Drawn(s, b, missed),
         draws' \in Nat,
         UNCHANGED <<primary_surface, hooked, cache, has_cache, streams, open, unclear>>,
         \/ \E w \in Nat : /\ surfaces' = [surfaces EXCEPT ![s][b] = w] /\ loading' = loading
                           /\ ~missed /\ Loads(s, b) = {} => w = px
         \/ /\ surfaces' = surfaces /\ px = draws + 1
            /\ loading' = loading \cup
                 {[surface |-> s, box |-> b, px |-> draws + 1, key |-> Display!NoKey]}
         \/ missed /\ surfaces' = surfaces /\ loading' = loading
  PROVE  DisplayInv'
<1>1. /\ draws \in Nat /\ draws + 1 \in Nat /\ LoadingType /\ SurfaceInv /\ KeyInv /\ StreamsOn
      /\ sv = [surfaces |-> sv.surfaces, cache |-> sv.cache]
      /\ DOMAIN surfaces \subseteq Surfaces /\ surfaces \in [DOMAIN surfaces -> [Boxes -> Nat]]
  BY WhileOpen
<1>2. /\ sv'.surfaces = [sv.surfaces EXCEPT ![s][b] = px] /\ sv'.cache = sv.cache
      /\ sv' = [surfaces |-> sv'.surfaces, cache |-> sv'.cache]
  <2>1. sv' = Display!ServerPaint(s, b, px) /\ sv = [surfaces |-> sv.surfaces, cache |-> sv.cache]
    BY <1>1
  <2> QED BY ONLY <2>1, ServerPaintIs
<1> DEFINE l == [surface |-> s, box |-> b, px |-> draws + 1, key |-> Display!NoKey]
<1>3. l.surface = s /\ l.box = b /\ l.px = draws + 1 /\ l.key = 2
  BY DEF Display!NoKey
<1>4. loading' = loading \/ loading' = loading \cup {l}
  OBVIOUS
<1>5. LoadingType'
  <2>1. s \in Surfaces /\ Display!NoKey \in {0, 1, 2}
    BY <1>1 DEF Display!NoKey
  <2>2. CASE loading' = loading \cup {l}
    BY <1>1, <2>1, <2>2, LoadingMore
  <2>3. CASE loading' = loading
    BY <1>1, <2>3 DEF LoadingType
  <2> QED BY <1>4, <2>2, <2>3
<1>6. \A k \in {0, 1} : LoadsFor(k)' = LoadsFor(k)
  <2> HIDE DEF l
  <2> QED BY <1>3, <1>4 DEF LoadsFor
<1>7. KeyInv'
  BY <1>1, <1>2, <1>6, SameKeys
<1>8. \/ \E w \in Nat : /\ surfaces' = [surfaces EXCEPT ![s][b] = w] /\ loading' = loading
                        /\ ~missed /\ Loads(s, b) = {} => w = px
      \/ \E m : /\ surfaces' = surfaces /\ loading' = loading \cup {m}
                /\ m.surface = s /\ m.box = b /\ m.px = px
      \/ missed /\ surfaces' = surfaces /\ loading' = loading
  <2>1. CASE surfaces' = surfaces /\ px = draws + 1 /\ loading' = loading \cup {l}
    <3> HIDE DEF l
    <3> QED BY <1>3, <2>1
  <2> QED BY <2>1
<1>9. SurfaceInv'
  BY <1>1, <1>2, <1>8, DrawnStep
<1>10. DOMAIN surfaces' = DOMAIN surfaces
  BY <1>1
<1>11. StreamsOn'
  BY <1>1, <1>10 DEF StreamsOn
<1> QED BY <1>2, <1>5, <1>7, <1>9, <1>11, StillOpen

\* A fill with a solid brush.
LEMMA DrawFillStep ==
  ASSUME DisplayInv, Display!DrawFill
  PROVE  DisplayInv'
<1>1. PICK s \in DOMAIN sv.surfaces, b \in Boxes :
        /\ surfaces' = [surfaces EXCEPT ![s][b] = draws + 1]
        /\ sv' = Display!ServerPaint(s, b, draws + 1) /\ astray' = Display!Drawn(s, b, FALSE)
  BY DEF Display!DrawFill, Display!Paint
<1>2. /\ open /\ draws' = draws + 1 /\ loading' = loading
      /\ UNCHANGED <<primary_surface, hooked, cache, has_cache, streams, open, unclear>>
  BY DEF Display!DrawFill
<1>3. s \in DOMAIN surfaces /\ draws + 1 \in Nat /\ FALSE \in BOOLEAN
  BY <1>2, WhileOpen
<1> QED BY <1>1, <1>2, <1>3, PlainStep

\* What is not drawn goes astray.
LEMMA DrawUnhandledStep ==
  ASSUME DisplayInv, Display!DrawUnhandled
  PROVE  DisplayInv'
<1>1. PICK s \in DOMAIN sv.surfaces, b \in Boxes :
        sv' = Display!ServerPaint(s, b, draws + 1) /\ astray' = astray \cup {<<s, b>>}
  BY DEF Display!DrawUnhandled
<1>2. /\ open /\ draws' = draws + 1 /\ loading' = loading /\ surfaces' = surfaces
      /\ UNCHANGED <<primary_surface, hooked, cache, has_cache, streams, open, unclear>>
  BY DEF Display!DrawUnhandled
<1>3. s \in DOMAIN surfaces /\ draws + 1 \in Nat /\ TRUE \in BOOLEAN
      /\ astray' = Display!Drawn(s, b, TRUE)
  BY <1>1, <1>2, WhileOpen DEF Display!Drawn
<1> QED BY <1>1, <1>2, <1>3, PlainStep

\* The image from the cache is the one the server means, if its key is clear.
LEMMA DrawCopyCachedStep ==
  ASSUME DisplayInv, Display!DrawCopyCached
  PROVE  DisplayInv'
<1>1. PICK s \in DOMAIN sv.surfaces, b \in Boxes, id \in DOMAIN sv.cache :
        LET k == Display!KeyOf(id)
        IN /\ IF k \in DOMAIN cache THEN Display!Paint(s, b, cache[k]) ELSE UNCHANGED surfaces
           /\ sv' = Display!ServerPaint(s, b, sv.cache[id])
           /\ astray' = Display!Drawn(s, b, k \in unclear \/ Display!LoadingKey(k))
  BY DEF Display!DrawCopyCached
<1> DEFINE k == Display!KeyOf(id)
           missed == k \in unclear \/ Display!LoadingKey(k)
<1>2. /\ open /\ draws' = draws /\ loading' = loading
      /\ UNCHANGED <<primary_surface, hooked, cache, has_cache, streams, open, unclear>>
  BY DEF Display!DrawCopyCached
<1>3. /\ s \in DOMAIN surfaces /\ draws \in Nat /\ k \in {0, 1} /\ KeyInv
      /\ id \in Ids(k) /\ sv.cache[id] \in Nat /\ KeyAsServer(k)
  BY <1>2, WhileOpen, KeyRange DEF KeyInv, Ids
<1>4. missed \in BOOLEAN /\ astray' = Display!Drawn(s, b, missed)
      /\ sv' = Display!ServerPaint(s, b, sv.cache[id])
  BY <1>1 DEF Display!LoadingKey
<1>5. ~missed => k \in DOMAIN cache /\ cache[k] = sv.cache[id]
  <2> SUFFICES ASSUME ~missed PROVE k \in DOMAIN cache /\ cache[k] = sv.cache[id]
    OBVIOUS
  <2>1. k \notin unclear /\ LoadsFor(k) = {}
    BY DEF Display!LoadingKey, LoadsFor
  <2> HIDE DEF k
  <2> QED BY <1>3, <2>1 DEF KeyAsServer
<1>6. CASE k \in DOMAIN cache
  <2>1. surfaces' = [surfaces EXCEPT ![s][b] = cache[k]]
    BY <1>1, <1>6 DEF Display!Paint
  <2>2. cache[k] \in Nat
    BY <1>3, <1>6 DEF KeyInv
  <2> HIDE DEF missed, k
  <2> QED BY <1>2, <1>3, <1>4, <1>5, <2>1, <2>2, PlainStep
<1>7. CASE k \notin DOMAIN cache
  <2>1. surfaces' = surfaces /\ missed
    BY <1>1, <1>5, <1>7
  <2> HIDE DEF missed, k
  <2> QED BY <1>2, <1>3, <1>4, <2>1, PlainStep
<1> QED BY <1>6, <1>7

\* What is copied is as good as what it is copied from.
LEMMA DrawCopySurfaceStep ==
  ASSUME DisplayInv, Display!DrawCopySurface
  PROVE  DisplayInv'
<1>1. PICK from, to \in DOMAIN sv.surfaces, b, c \in Boxes :
        /\ surfaces' = [surfaces EXCEPT ![to][c] = surfaces[from][b]]
        /\ sv' = Display!ServerPaint(to, c, sv.surfaces[from][b])
        /\ astray' = Display!Drawn(to, c, <<from, b>> \in astray \/ Display!LoadingAt(from, b))
  BY DEF Display!DrawCopySurface, Display!Paint
<1> DEFINE missed == <<from, b>> \in astray \/ Display!LoadingAt(from, b)
<1>2. /\ open /\ draws' = draws /\ loading' = loading
      /\ UNCHANGED <<primary_surface, hooked, cache, has_cache, streams, open, unclear>>
  BY DEF Display!DrawCopySurface
<1>3. /\ from \in DOMAIN surfaces /\ to \in DOMAIN surfaces /\ draws \in Nat /\ SurfaceInv
      /\ surfaces[from][b] \in Nat /\ sv.surfaces[from][b] \in Nat
  BY <1>2, WhileOpen
<1>4. missed \in BOOLEAN /\ astray' = Display!Drawn(to, c, missed)
  BY <1>1 DEF Display!LoadingAt
<1>5. ~missed => surfaces[from][b] = sv.surfaces[from][b]
  <2> SUFFICES ASSUME ~missed PROVE surfaces[from][b] = sv.surfaces[from][b]
    OBVIOUS
  <2>1. <<from, b>> \notin astray /\ Loads(from, b) = {}
    BY DEF Loads, Display!LoadingAt
  <2>2. BoxAsServer(from, b)
    BY <1>3 DEF SurfaceInv
  <2> QED BY <2>1, <2>2 DEF BoxAsServer
<1> HIDE DEF missed
<1> QED BY <1>1, <1>2, <1>3, <1>4, <1>5, PlainStep

\* A frame of a stream.
LEMMA StreamDataStep ==
  ASSUME DisplayInv, Display!StreamData
  PROVE  DisplayInv'
<1>1. PICK i \in DOMAIN streams :
        LET s == streams[i].surface
            b == streams[i].dest
        IN /\ loading' = IF streams[i].mjpeg
                         THEN loading \cup {[surface |-> s, box |-> b, px |-> draws + 1,
                                             key |-> Display!NoKey]}
                         ELSE loading
           /\ sv' = Display!ServerPaint(s, b, draws + 1)
           /\ astray' = Display!Drawn(s, b, ~streams[i].mjpeg)
  BY DEF Display!StreamData
<1> DEFINE s == streams[i].surface
           b == streams[i].dest
           missed == ~streams[i].mjpeg
<1>2. /\ open /\ draws' = draws + 1 /\ surfaces' = surfaces
      /\ UNCHANGED <<primary_surface, hooked, cache, has_cache, streams, open, unclear>>
  BY DEF Display!StreamData
<1>3. s \in DOMAIN surfaces /\ b \in Boxes /\ missed \in BOOLEAN /\ draws + 1 \in Nat
  BY <1>2, WhileOpen DEF StreamsOn
<1>4. /\ sv' = Display!ServerPaint(s, b, draws + 1) /\ astray' = Display!Drawn(s, b, missed)
      /\ \/ loading' = loading \cup
              {[surface |-> s, box |-> b, px |-> draws + 1, key |-> Display!NoKey]}
         \/ missed /\ loading' = loading
  BY <1>1
<1> HIDE DEF s, b, missed
<1> QED BY <1>2, <1>3, <1>4, PlainStep

\* An image that is given up is no longer in the cache; nothing of its key is,
\* unless other images have it.
LEMMA InvalListStep ==
  ASSUME DisplayInv, Display!InvalList
  PROVE  DisplayInv'
<1>1. PICK id \in DOMAIN sv.cache :
        /\ cache' = Display!Without(cache, {Display!KeyOf(id)})
        /\ sv' = [sv EXCEPT !.cache = Display!Without(@, {id})]
        /\ unclear' = Display!Ordered(id)
  BY DEF Display!InvalList
<1> DEFINE k == Display!KeyOf(id)
<1>2. /\ open
      /\ UNCHANGED <<surfaces, primary_surface, hooked, has_cache, streams, loading, draws, astray>>
  BY DEF Display!InvalList
<1>3. /\ draws \in Nat /\ LoadingType /\ SurfaceInv /\ KeyInv /\ StreamsOn /\ k \in {0, 1}
      /\ sv = [surfaces |-> sv.surfaces, cache |-> sv.cache]
      /\ cache \in [DOMAIN cache -> Nat] /\ sv.cache \in [DOMAIN sv.cache -> Nat]
      /\ DOMAIN cache \subseteq {0, 1}
  BY <1>2, WhileOpen, KeyRange DEF KeyInv
<1>4. /\ sv'.cache = Display!Without(sv.cache, {id}) /\ sv'.surfaces = sv.surfaces
      /\ sv' = [surfaces |-> sv'.surfaces, cache |-> sv'.cache]
  <2> DEFINE w == Display!Without(sv.cache, {id})
  <2>1. sv' = [sv EXCEPT !.cache = w]
    BY <1>1
  <2> HIDE DEF w
  <2>2. sv' = [surfaces |-> sv.surfaces, cache |-> w]
    BY <1>3, <2>1
  <2> QED BY <2>2 DEF w
<1>5. /\ cache' \in [DOMAIN cache \ {k} -> Nat]
      /\ \A j \in DOMAIN cache \ {k} : cache'[j] = cache[j]
  BY <1>1, <1>3 DEF Display!Without, Display!Restrict
<1>6. /\ sv'.cache \in [DOMAIN sv.cache \ {id} -> Nat]
      /\ \A other \in DOMAIN sv.cache \ {id} : sv'.cache[other] = sv.cache[other]
  BY <1>3, <1>4 DEF Display!Without, Display!Restrict
<1>7. DOMAIN cache' = DOMAIN cache \ {k} /\ DOMAIN sv'.cache = DOMAIN sv.cache \ {id}
  BY <1>5, <1>6
<1>8. \A j : Ids(j)' = Ids(j) \ {id}
  BY <1>7 DEF Ids, Display!KeyOf
<1>9. \A j \in {0, 1} \ {k} : id \notin Ids(j)
  BY DEF Ids
<1>10. k \notin unclear' => LoadsFor(k) = {} /\ Ids(k) \subseteq {id}
  BY <1>1 DEF Display!Ordered, Display!LoadingKey, LoadsFor, Ids
<1>11. \A j \in {0, 1} \ {k} : j \in unclear => j \in unclear'
  BY <1>1 DEF Display!Ordered
<1>12. \A j : LoadsFor(j)' = LoadsFor(j)
  BY <1>2 DEF LoadsFor
<1>13. ASSUME NEW j \in {0, 1} \ {k}, NEW other \in Ids(j)
       PROVE  sv'.cache[other] = sv.cache[other]
  <2>1. other \in DOMAIN sv.cache /\ other # id
    BY DEF Ids
  <2> QED BY <1>6, <2>1
<1> HIDE DEF k
<1>14. KeyAsServer(k)'
  BY <1>7, <1>8, <1>10, <1>12 DEF KeyAsServer
<1>15. KeyInv'
  <2>1. \A j \in {0, 1} \ {k} : Ids(j)' = Ids(j)
    BY <1>8, <1>9
  <2>2. DOMAIN cache' \subseteq {0, 1} /\ cache' \in [DOMAIN cache' -> Nat]
        /\ sv'.cache \in [DOMAIN sv'.cache -> Nat]
    BY <1>3, <1>5, <1>6, <1>7
  <2> QED BY <1>3, <1>5, <1>7, <1>11, <1>12, <1>13, <1>14, <2>1, <2>2, OneKey
<1>16. SurfaceInv' /\ StreamsOn' /\ LoadingType'
  BY <1>2, <1>3, <1>4, SameBoxes DEF StreamsOn, LoadingType
<1> QED BY <1>2, <1>3, <1>4, <1>15, <1>16, StillOpen

\* A step that leaves all but the streams alone.
LEMMA StreamsStep ==
  ASSUME DisplayInv, Display!StreamCreate \/ Display!StreamDestroy
  PROVE  DisplayInv'
<1>1. /\ open /\ UNCHANGED <<surfaces, primary_surface, hooked, cache, has_cache, loading, open,
                            draws, sv, astray, unclear>>
  BY DEF Display!StreamCreate, Display!StreamDestroy
<1>2. /\ draws \in Nat /\ LoadingType /\ SurfaceInv /\ KeyInv /\ StreamsOn
      /\ sv = [surfaces |-> sv.surfaces, cache |-> sv.cache]
      /\ DOMAIN sv.surfaces = DOMAIN surfaces
  BY <1>1, WhileOpen
<1>3. StreamsOn'
  <2>1. CASE Display!StreamCreate
    <3>1. PICK i \in Streams \ DOMAIN streams, s \in DOMAIN sv.surfaces, b \in Boxes,
               mjpeg \in BOOLEAN :
            streams' = Display!With(streams, i, [surface |-> s, dest |-> b, mjpeg |-> mjpeg])
      BY <2>1 DEF Display!StreamCreate
    <3>2. [surface |-> s, dest |-> b, mjpeg |-> mjpeg]
            \in [surface : DOMAIN surfaces, dest : Boxes, mjpeg : BOOLEAN]
      BY <1>2
    <3>3. /\ DOMAIN streams' = DOMAIN streams \cup {i}
          /\ streams'[i] = [surface |-> s, dest |-> b, mjpeg |-> mjpeg]
          /\ \A j \in DOMAIN streams \ {i} : streams'[j] = streams[j]
      BY <3>1 DEF Display!With
    <3> QED BY <1>1, <1>2, <3>2, <3>3 DEF StreamsOn
  <2>2. CASE Display!StreamDestroy
    <3>1. PICK i \in DOMAIN streams : streams' = Display!Without(streams, {i})
      BY <2>2 DEF Display!StreamDestroy
    <3>2. /\ DOMAIN streams' = DOMAIN streams \ {i}
          /\ \A j \in DOMAIN streams' : streams'[j] = streams[j]
      BY <3>1 DEF Display!Without, Display!Restrict
    <3> QED BY <1>1, <1>2, <3>2 DEF StreamsOn
  <2> QED BY <2>1, <2>2
<1>4. SurfaceInv' /\ LoadingType'
  BY <1>1, <1>2, SameBoxes DEF LoadingType
<1>5. KeyInv'
  <2>1. \A k \in {0, 1} : LoadsFor(k)' = LoadsFor(k)
    BY <1>1 DEF LoadsFor
  <2> QED BY <1>1, <1>2, <2>1, SameKeys
<1> QED BY <1>1, <1>2, <1>3, <1>4, <1>5, StillOpen

\* An image that has loaded is the one its box, and its key, were waiting for.
LEMMA LoadedStep ==
  ASSUME DisplayInv, Display!handle_draw_jpeg_onload
  PROVE  DisplayInv'
<1>1. PICK l \in loading :
        /\ loading' = loading \ {l}
        /\ IF l.surface \in DOMAIN surfaces
           THEN Display!Paint(l.surface, l.box, l.px) ELSE UNCHANGED surfaces
        /\ IF open THEN Display!CacheImage(l.key, l.px) ELSE UNCHANGED <<cache, has_cache>>
        /\ UNCHANGED <<primary_surface, hooked, streams, open, draws, sv, astray, unclear>>
  BY DEF Display!handle_draw_jpeg_onload
<1>2. /\ draws' \in Nat /\ LoadingType' /\ sv' = [surfaces |-> sv'.surfaces, cache |-> sv'.cache]
      /\ l.surface \in Surfaces /\ l.box \in Boxes /\ l.px \in Nat /\ l.key \in {0, 1, 2}
  BY <1>1 DEF DisplayInv, LoadingType
<1>3. CASE ~open
  BY <1>1, <1>2, <1>3, StillOpen
<1>4. CASE open
  <2>1. /\ SurfaceInv /\ KeyInv /\ StreamsOn
        /\ DOMAIN sv.surfaces = DOMAIN surfaces
        /\ surfaces \in [DOMAIN surfaces -> [Boxes -> Nat]]
        /\ sv.surfaces \in [DOMAIN surfaces -> [Boxes -> Nat]]
    BY <1>4, WhileOpen
  <2>2. /\ sv'.surfaces = sv.surfaces /\ sv'.cache = sv.cache
        /\ UNCHANGED <<primary_surface, hooked, streams, astray, unclear>>
    BY <1>1
  <2>3. \A t, c : <<t, c>> # <<l.surface, l.box>> => Loads(t, c)' = Loads(t, c)
    BY <1>1 DEF Loads
  <2>4. SurfaceInv' /\ DOMAIN surfaces' = DOMAIN surfaces
    <3>1. CASE l.surface \in DOMAIN surfaces
      <4> DEFINE s == l.surface
                 b == l.box
      <4>1. surfaces' = [surfaces EXCEPT ![s][b] = l.px]
        BY <1>1, <3>1 DEF Display!Paint
      <4>2. /\ surfaces' \in [DOMAIN surfaces -> [Boxes -> Nat]] /\ surfaces'[s][b] = l.px
            /\ \A t \in DOMAIN surfaces, c \in Boxes :
                 <<t, c>> # <<s, b>> => surfaces'[t][c] = surfaces[t][c]
        BY <1>2, <2>1, <3>1, <4>1, PaintIs
      <4>3. l \in Loads(s, b) /\ Loads(s, b)' = Loads(s, b) \ {l}
        BY <1>1 DEF Loads
      <4>4. BoxAsServer(s, b)
        BY <1>2, <2>1, <3>1 DEF SurfaceInv
      <4>5. BoxAsServer(s, b)'
        BY <2>2, <4>2, <4>3, <4>4 DEF BoxAsServer
      <4>6. s \in DOMAIN surfaces /\ b \in Boxes
        BY <1>2, <3>1
      <4> HIDE DEF s, b
      <4>7. SurfaceInv'
        BY <2>1, <2>2, <2>3, <4>2, <4>5, <4>6, OneBox DEF s, b
      <4> QED BY <4>2, <4>7
    <3>2. CASE l.surface \notin DOMAIN surfaces
      <4>1. surfaces' = surfaces
        BY <1>1, <3>2
      <4>2. \A t \in DOMAIN surfaces, c \in Boxes : Loads(t, c)' = Loads(t, c)
        BY <2>3, <3>2
      <4>3. ASSUME NEW t \in DOMAIN surfaces, NEW c \in Boxes
            PROVE  BoxAsServer(t, c)'
        <5>1. BoxAsServer(t, c) /\ Loads(t, c)' \subseteq loading'
          BY <2>1 DEF SurfaceInv, Loads
        <5> QED BY <2>2, <4>1, <4>2, <5>1 DEF BoxAsServer
      <4> QED BY <2>1, <2>2, <4>1, <4>3 DEF SurfaceInv
    <3> QED BY <3>1, <3>2
  <2>5. \A j : j # l.key => LoadsFor(j)' = LoadsFor(j)
    BY <1>1 DEF LoadsFor
  <2>6. Display!CacheImage(l.key, l.px)
    BY <1>1, <1>4
  <2>7. KeyInv'
    <3>1. CASE l.key = 2
      <4>1. UNCHANGED cache
        BY <2>6, <3>1 DEF Display!CacheImage, Display!NoKey
      <4>2. \A k \in {0, 1} : LoadsFor(k)' = LoadsFor(k)
        BY <2>5, <3>1
      <4> QED BY <2>1, <2>2, <4>1, <4>2, SameKeys
    <3>2. CASE l.key # 2
      <4> DEFINE k == l.key
      <4>1. k \in {0, 1} /\ cache' = Display!With(cache, k, l.px)
        BY <1>2, <2>6, <3>2 DEF Display!CacheImage, Display!NoKey
      <4>2. /\ cache \in [DOMAIN cache -> Nat] /\ DOMAIN cache \subseteq {0, 1}
            /\ sv'.cache \in [DOMAIN sv'.cache -> Nat] /\ KeyAsServer(k)
        BY <2>1, <2>2, <4>1 DEF KeyInv
      <4>3. /\ DOMAIN cache' = DOMAIN cache \cup {k} /\ cache'[k] = l.px
            /\ \A j \in DOMAIN cache \ {k} : cache'[j] = cache[j]
            /\ cache' \in [DOMAIN cache' -> Nat]
        BY <1>2, <4>1, <4>2 DEF Display!With
      <4>4. \A j : Ids(j)' = Ids(j)
        BY <2>2 DEF Ids, Display!KeyOf
      <4>5. l \in LoadsFor(k) /\ LoadsFor(k)' = LoadsFor(k) \ {l}
        BY <1>1 DEF LoadsFor
      <4>6. \A j \in {0, 1} \ {k} : LoadsFor(j)' = LoadsFor(j)
        BY <2>5
      <4> HIDE DEF k
      <4>7. KeyAsServer(k)'
        BY <2>2, <4>2, <4>3, <4>4, <4>5 DEF KeyAsServer
      <4> QED BY <2>1, <2>2, <4>1, <4>2, <4>3, <4>4, <4>6, <4>7, OneKey
    <3> QED BY <3>1, <3>2
  <2>8. StreamsOn'
    BY <2>1, <2>2, <2>4 DEF StreamsOn
  <2> QED BY <1>2, <2>4, <2>7, <2>8, StillOpen
<1> QED BY <1>3, <1>4

\* Every step of the display.
LEMMA DisplayStep ==
  ASSUME DisplayInv, Display!Next
  PROVE  DisplayInv'
BY SurfaceCreateStep, SurfaceDestroyStep, DestroySurfacesStep, DrawCopyDecodedStep,
   DrawCopyJpegStep, DrawCopyCachedStep, DrawCopySurfaceStep, DrawFillStep, DrawUnhandledStep,
   InvalListStep, StreamsStep, StreamDataStep, LoadedStep
   DEF Display!Next

\* Where no message came in the way, and no image is loading, what is shown and
\* cached is what the server takes it for.
LEMMA DisplayMeans ==
  ASSUME DisplayInv
  PROVE  DisplayAsServer
<1> SUFFICES ASSUME open PROVE Display!DisplayAsServer
  BY DEF DisplayAsServer, Display!DisplayAsServer
<1>1. SurfaceInv /\ KeyInv /\ DOMAIN sv.surfaces = DOMAIN surfaces
  BY WhileOpen
<1>2. hooked = DOMAIN surfaces \cap {0}
  BY <1>1 DEF SurfaceInv
<1>3. ASSUME NEW s \in DOMAIN surfaces, NEW b \in Boxes,
             <<s, b>> \notin astray, ~Display!LoadingAt(s, b)
      PROVE  surfaces[s][b] = sv.surfaces[s][b]
  <2>1. Loads(s, b) = {}
    BY <1>3 DEF Loads, Display!LoadingAt
  <2>2. BoxAsServer(s, b)
    BY <1>1 DEF SurfaceInv
  <2> QED BY <1>3, <2>1, <2>2 DEF BoxAsServer
<1>4. ASSUME NEW k \in {0, 1}, k \notin unclear, ~Display!LoadingKey(k)
      PROVE  \/ Ids(k) = {} /\ k \notin DOMAIN cache
             \/ /\ k \in DOMAIN cache
                /\ \E id \in DOMAIN sv.cache : Ids(k) = {id} /\ cache[k] = sv.cache[id]
  <2>1. LoadsFor(k) = {}
    BY <1>4 DEF LoadsFor, Display!LoadingKey
  <2>2. KeyAsServer(k)
    BY <1>1 DEF KeyInv
  <2> QED BY <1>4, <2>1, <2>2 DEF KeyAsServer
<1>5. ASSUME NEW id \in DOMAIN sv.cache,
             Display!KeyOf(id) \notin unclear, ~Display!LoadingKey(Display!KeyOf(id))
      PROVE  /\ Display!KeyOf(id) \in DOMAIN cache
             /\ cache[Display!KeyOf(id)] = sv.cache[id]
  <2>1. Display!KeyOf(id) \in {0, 1} /\ id \in Ids(Display!KeyOf(id))
    BY KeyRange DEF Ids
  <2> QED BY <1>4, <1>5, <2>1
<1>6. ASSUME NEW k \in DOMAIN cache, k \notin unclear, ~Display!LoadingKey(k)
      PROVE  \E id \in DOMAIN sv.cache : Display!KeyOf(id) = k
  <2>1. k \in {0, 1}
    BY <1>1 DEF KeyInv
  <2>2. PICK id \in DOMAIN sv.cache : Ids(k) = {id}
    BY <1>4, <1>6, <2>1
  <2> QED BY <2>2 DEF Ids
<1> QED BY <1>1, <1>2, <1>3, <1>5, <1>6 DEF Display!DisplayAsServer

-----------------------------------------------------------------------------
(* The client.  A step is of one part, and leaves the others as they are.  *)

-----------------------------------------------------------------------------
(* The layouts and the elements of the stream.                             *)

\* A layout with no part elsewhere.
Flat(l) ==
  \E F : l \in Seq(F) /\ \A f \in F : f.width \in Nat /\ f.part = <<>>

\* Widths summed up to each field.
Sums(l, u) ==
  u[0] = 0 /\ \A i \in 1 .. Len(l) : u[i] = u[i - 1] + l[i].width

\* The order of the natural numbers, as a set of pairs.
Smaller == {p \in Nat \X Nat : p[1] < p[2]}

\* No sequence of natural numbers decreases for ever.
LEMMA SmallerWellFounded == IsWellFoundedOn(Smaller, Nat)
BY NatLessThanWellFounded, Zenon DEF Smaller, OpToRel

\* A set of natural numbers has a least element.
LEMMA LeastNat ==
  ASSUME NEW I, I \subseteq Nat, I # {}
  PROVE  \E x \in I : \A y \in I : x <= y
<1>1. PICK x \in I : \A y \in I : ~(<<y, x>> \in Smaller)
  BY SmallerWellFounded, WFMin
<1>2. ASSUME NEW y \in I PROVE x <= y
  <2>1. x \in Nat /\ y \in Nat /\ <<y, x>> \in Nat \X Nat
    OBVIOUS
  <2>2. ~(y < x)
    BY <1>1, <2>1 DEF Smaller
  <2> QED BY <2>1, <2>2
<1> QED BY <1>2

\* Every field of a layout has a width.
LEMMA FieldWidth ==
  ASSUME NEW l, Flat(l), NEW i \in 1 .. Len(l)
  PROVE  l[i].width \in Nat
<1>1. PICK F : l \in Seq(F) /\ \A f \in F : f.width \in Nat /\ f.part = <<>>  BY DEF Flat
<1>2. l[i] \in F  BY <1>1, ElementOfSeq
<1> QED BY <1>1, <1>2

\* Width adds up the widths.
LEMMA WidthSums ==
  ASSUME NEW l, Flat(l)
  PROVE  \E u : Sums(l, u) /\ Width(l) = u[Len(l)]
<1> DEFINE Of(n, f) == f = [i \in 0 .. n |-> IF i = 0 THEN 0 ELSE f[i - 1] + l[i].width]
           I == {n \in Nat : ~\E f : Of(n, f)}
<1>1. I = {}
  <2> SUFFICES ASSUME I # {} PROVE FALSE
    OBVIOUS
  <2>1. PICK n \in I : \A m \in I : n <= m
    <3>1. I \subseteq Nat /\ I # {}
      OBVIOUS
    <3> HIDE DEF I
    <3> QED BY <3>1, LeastNat
  <2>2. n \in Nat /\ ~\E f : Of(n, f)
    OBVIOUS
  <2>3. CASE n = 0
    <3> DEFINE f == [i \in 0 .. 0 |-> 0]
    <3>1. f = [i \in 0 .. 0 |-> IF i = 0 THEN 0 ELSE f[i - 1] + l[i].width]
      <4>1. \A i \in 0 .. 0 : i = 0
        OBVIOUS
      <4> QED BY <4>1
    <3> QED BY <2>2, <2>3, <3>1
  <2>4. CASE n # 0
    <3>1. n - 1 \in Nat /\ n - 1 \notin I
      <4>1. n - 1 \in Nat /\ ~(n <= n - 1)
        BY ONLY <2>2, <2>4
      <4> HIDE DEF I
      <4> QED BY ONLY <2>1, <4>1
    <3>2. PICK g : Of(n - 1, g)
      BY <3>1
    <3> DEFINE f == [i \in 0 .. n |-> IF i = n THEN g[n - 1] + l[n].width ELSE g[i]]
               h == [i \in 0 .. n |-> IF i = 0 THEN 0 ELSE f[i - 1] + l[i].width]
    <3>3. ASSUME NEW i \in 0 .. n PROVE f[i] = h[i]
      <4>1. i \in Int /\ n \in Int /\ n > 0 /\ i >= 0 /\ i <= n
        BY <2>2, <2>4
      <4>2. CASE i = n
        <5>1. n - 1 \in 0 .. n /\ n - 1 # n /\ n # 0
          BY <4>1
        <5>2. f[n - 1] = g[n - 1]
          BY <5>1
        <5> QED BY <4>2, <5>1, <5>2
      <4>3. CASE i # n /\ i # 0
        <5>1. i - 1 \in 0 .. n /\ i - 1 # n /\ i \in 0 .. (n - 1)
          BY <4>1, <4>3
        <5>2. g[i] = g[i - 1] + l[i].width
          BY <3>2, <4>3, <5>1
        <5> QED BY <4>3, <5>1, <5>2
      <4>4. CASE i = 0
        <5>1. 0 \in 0 .. (n - 1) /\ 0 # n
          BY <4>1
        <5>2. g[0] = 0
          BY <3>2, <5>1
        <5> QED BY <4>4, <5>1, <5>2
      <4> QED BY <4>2, <4>3, <4>4
    <3>4. f = h
      BY <3>3
    <3>5. Of(n, f)
      BY <3>4
    <3> QED BY <2>2, <3>5
  <2> QED BY <2>3, <2>4
<1>2. Len(l) \in Nat
  BY DEF Flat
<1>3. \E f : Of(Len(l), f)
  BY <1>1, <1>2
<1>4. PICK u : u = CHOOSE f : Of(Len(l), f)
  OBVIOUS
<1>5. Width(l) = u[Len(l)]
  BY <1>4, Zenon DEF Width
<1>6. Of(Len(l), u)
  BY <1>3, <1>4
<1>7. Sums(l, u)
  BY <1>2, <1>6 DEF Sums
<1> QED BY <1>5, <1>7

\* There is one way to sum.
LEMMA SumsOnce ==
  ASSUME NEW l, Flat(l), NEW u, NEW v, Sums(l, u), Sums(l, v)
  PROVE  \A n \in 0 .. Len(l) : u[n] = v[n] /\ u[n] \in Nat
<1> DEFINE I == {n \in 0 .. Len(l) : ~(u[n] = v[n] /\ u[n] \in Nat)}
<1>1. Len(l) \in Nat  BY DEF Flat
<1>2. I = {}
  <2> SUFFICES ASSUME I # {} PROVE FALSE
    OBVIOUS
  <2>1. PICK n \in I : \A m \in I : n <= m
    <3>1. I \subseteq Nat  BY <1>1
    <3> HIDE DEF I
    <3> QED BY <3>1, LeastNat
  <2>2. n \in 0 .. Len(l) /\ n # 0 /\ n \in Int
    BY <1>1 DEF Sums
  <2>3. n - 1 \in 0 .. Len(l) /\ n - 1 \notin I /\ n \in 1 .. Len(l)
    <3>1. n - 1 \in 0 .. Len(l) /\ ~(n <= n - 1) /\ n \in 1 .. Len(l)
      BY <1>1, <2>2
    <3> HIDE DEF I
    <3> QED BY <2>1, <3>1
  <2>4. u[n - 1] = v[n - 1] /\ u[n - 1] \in Nat  BY <2>3
  <2>5. l[n].width \in Nat
    BY <2>3, FieldWidth
  <2>6. u[n] = u[n - 1] + l[n].width /\ v[n] = v[n - 1] + l[n].width
    BY <2>3 DEF Sums
  <2> QED BY <2>1, <2>4, <2>5, <2>6
<1> QED BY <1>2

\* The width of a field is its width,
LEMMA WidthField ==
  ASSUME NEW name, NEW w \in Nat
  PROVE  Flat(Field(name, w)) /\ Width(Field(name, w)) = w
<1>1. PICK f, l : f = [name |-> name, width |-> w, part |-> <<>>] /\ l = <<f>>
  OBVIOUS
<1>2. Flat(l) /\ Len(l) = 1 /\ l[1] = f /\ f.width = w
  <2>1. l \in Seq({f}) /\ \A g \in {f} : g.width \in Nat /\ g.part = <<>>
    BY <1>1
  <2>2. Flat(l)  BY <2>1 DEF Flat
  <2> QED BY <1>1, <2>2
<1>3. PICK u : Sums(l, u) /\ Width(l) = u[1]
  BY <1>2, WidthSums
<1>4. u[1] = u[0] + l[1].width /\ u[0] = 0
  <2>1. 1 \in 1 .. 1 /\ 1 - 1 = 0  OBVIOUS
  <2> QED BY <1>2, <1>3, <2>1 DEF Sums
<1>5. Width(l) = w  BY <1>2, <1>3, <1>4
<1> QED BY <1>1, <1>2, <1>5 DEF Field

\* that of no field is none,
LEMMA WidthNone ==
  Flat(<<>>) /\ Width(<<>>) = 0
<1>1. PICK e : e = <<>>  OBVIOUS
<1>2. Flat(e) /\ Len(e) = 0
  <2>1. e \in Seq({}) /\ \A g \in {} : g.width \in Nat /\ g.part = <<>>
    BY <1>1
  <2> QED BY <1>1, <2>1 DEF Flat
<1>3. PICK u : Sums(e, u) /\ Width(e) = u[0]  BY <1>2, WidthSums
<1> QED BY <1>1, <1>2, <1>3 DEF Sums

\* and that of two layouts is the sum of theirs.
LEMMA WidthConcat ==
  ASSUME NEW a, NEW b, Flat(a), Flat(b)
  PROVE  /\ Flat(a \o b) /\ Width(a \o b) = Width(a) + Width(b)
         /\ Width(a) \in Nat /\ Width(b) \in Nat
<1>1. PICK F : a \in Seq(F) /\ b \in Seq(F) /\ \A f \in F : f.width \in Nat /\ f.part = <<>>
  <2>1. PICK G : a \in Seq(G) /\ \A f \in G : f.width \in Nat /\ f.part = <<>>  BY DEF Flat
  <2>2. PICK H : b \in Seq(H) /\ \A f \in H : f.width \in Nat /\ f.part = <<>>  BY DEF Flat
  <2>3. a \in Seq(G \cup H) /\ b \in Seq(G \cup H)  BY <2>1, <2>2, SeqMonotonic
  <2>4. \A f \in G \cup H : f.width \in Nat /\ f.part = <<>>  BY <2>1, <2>2
  <2> QED BY <2>3, <2>4
<1>2. PICK c : c = a \o b  OBVIOUS
<1>3. /\ Flat(c) /\ Len(a) \in Nat /\ Len(b) \in Nat /\ Len(c) = Len(a) + Len(b)
      /\ \A i \in 1 .. Len(a) + Len(b) : c[i] = IF i <= Len(a) THEN a[i] ELSE b[i - Len(a)]
  <2>1. a \in Seq(F) /\ b \in Seq(F)  BY <1>1
  <2>2. c \in Seq(F)  BY <1>2, <2>1, ConcatProperties
  <2>3. Flat(c)  BY <1>1, <2>2 DEF Flat
  <2> QED BY <1>2, <2>1, <2>3, ConcatProperties, LenProperties
<1>4. PICK u : Sums(a, u) /\ Width(a) = u[Len(a)]  BY WidthSums
<1>5. PICK v : Sums(b, v) /\ Width(b) = v[Len(b)]  BY WidthSums
<1>6. PICK w : Sums(c, w) /\ Width(c) = w[Len(c)]  BY <1>3, WidthSums
<1>7. /\ \A n \in 0 .. Len(a) : u[n] \in Nat
      /\ \A n \in 0 .. Len(b) : v[n] \in Nat
  BY <1>4, <1>5, SumsOnce
<1> DEFINE x == [i \in 0 .. Len(c) |->
                   IF i <= Len(a) THEN u[i] ELSE u[Len(a)] + v[i - Len(a)]]
<1>8. Sums(c, x)
  <2>1. x[0] = 0  BY <1>3, <1>4 DEF Sums
  <2>2. ASSUME NEW i \in 1 .. Len(c) PROVE x[i] = x[i - 1] + c[i].width
    <3>1. i \in Int /\ i >= 1 /\ i <= Len(a) + Len(b) /\ i - 1 \in 0 .. Len(c)
          /\ i \in 0 .. Len(c)
      BY <1>3
    <3>2. CASE i <= Len(a)
      <4>1. i \in 1 .. Len(a) /\ i - 1 <= Len(a)  BY <1>3, <3>1, <3>2
      <4>2. c[i] = a[i]  BY <1>3, <3>2
      <4>3. u[i] = u[i - 1] + a[i].width  BY <1>4, <4>1 DEF Sums
      <4> QED BY <3>1, <3>2, <4>1, <4>2, <4>3
    <3>3. CASE ~(i <= Len(a))
      <4>1. PICK j : j = i - Len(a)  OBVIOUS
      <4>2. j \in 1 .. Len(b) /\ j - 1 = (i - 1) - Len(a) /\ j - 1 \in 0 .. Len(b)
            /\ j \in 0 .. Len(b)
        BY <1>3, <3>1, <3>3, <4>1
      <4>3. c[i] = b[j]  BY <1>3, <3>1, <3>3, <4>1
      <4>4. v[j] = v[j - 1] + b[j].width  BY <1>5, <4>2 DEF Sums
      <4>5. v[j - 1] \in Nat /\ v[j] \in Nat /\ u[Len(a)] \in Nat /\ b[j].width \in Nat
        <5>1. b[j].width \in Nat  BY <4>2, FieldWidth
        <5>2. Len(a) \in 0 .. Len(a)  BY <1>3
        <5> QED BY <1>7, <4>2, <5>1, <5>2
      <4>6. x[i] = u[Len(a)] + v[j]  BY <3>1, <3>3, <4>1
      <4>7. x[i - 1] = u[Len(a)] + v[j - 1]
        <5>1. CASE i - 1 <= Len(a)
          <6>1. i - 1 = Len(a) /\ j - 1 = 0  BY <1>3, <3>1, <3>3, <4>2, <5>1
          <6>2. x[i - 1] = u[Len(a)] /\ v[0] = 0  BY <1>5, <3>1, <5>1, <6>1 DEF Sums
          <6> QED BY <4>5, <6>1, <6>2
        <5>2. CASE ~(i - 1 <= Len(a))
          BY <3>1, <4>2, <5>2
        <5> QED BY <5>1, <5>2
      <4> HIDE DEF x
      <4> QED BY <4>3, <4>4, <4>5, <4>6, <4>7
    <3> QED BY <3>2, <3>3
  <2> HIDE DEF x
  <2> QED BY <2>1, <2>2 DEF Sums
<1>9. x[Len(c)] = u[Len(a)] + v[Len(b)]
  <2>1. Len(a) \in 0 .. Len(a) /\ Len(b) \in 0 .. Len(b) /\ Len(c) \in 0 .. Len(c)
    BY <1>3
  <2>2. CASE Len(b) = 0
    <3>1. Len(c) = Len(a) /\ v[Len(b)] = 0  BY <1>3, <1>5, <2>2 DEF Sums
    <3>2. x[Len(c)] = u[Len(a)]  BY <1>3, <2>1, <3>1
    <3>3. u[Len(a)] \in Nat  BY <1>7, <2>1
    <3> QED BY <3>1, <3>2, <3>3
  <2>3. CASE Len(b) # 0
    <3>1. ~(Len(c) <= Len(a)) /\ Len(c) - Len(a) = Len(b)  BY <1>3, <2>3
    <3> QED BY <2>1, <3>1
  <2> QED BY <2>2, <2>3
<1> HIDE DEF x
<1>10. w[Len(c)] = x[Len(c)]
  <2>1. Len(c) \in 0 .. Len(c)  BY <1>3
  <2> QED BY <1>3, <1>6, <1>8, <2>1, SumsOnce
<1>11. Width(a) \in Nat /\ Width(b) \in Nat
  <2>1. Len(a) \in 0 .. Len(a) /\ Len(b) \in 0 .. Len(b)  BY <1>3
  <2> QED BY <1>4, <1>5, <1>7, <2>1
<1> QED BY <1>2, <1>3, <1>4, <1>5, <1>6, <1>9, <1>10, <1>11

\* A whole element is its id, its length and a body of the size it declares.
LEMMA ElementWhole ==
  ASSUME NEW id \in Nat, NEW length \in Nat, NEW body, Flat(body), NEW declared, NEW s,
         s = id + length + Width(body), declared \in {Unknown, Width(body)}
  PROVE  Whole(Element(id, length, declared, body, s))
<1>1. PICK l : l = Bytes("id", id) \o Bytes("length", length) \o body  OBVIOUS
<1>2. /\ Flat(Bytes("id", id)) /\ Width(Bytes("id", id)) = id
      /\ Flat(Bytes("length", length)) /\ Width(Bytes("length", length)) = length
  BY WidthField DEF Bytes
<1>3. Width(l) = id + length + Width(body) /\ Width(body) \in Nat
  BY <1>1, <1>2, WidthConcat
<1>4. PICK e : e = Element(id, length, declared, body, s)  OBVIOUS
<1>5. e.layout = l /\ e.size = s /\ e.declared = declared /\ e.head = id + length
  BY <1>1, <1>4 DEF Element
<1> QED BY <1>3, <1>4, <1>5 DEF Whole

\* What the EBML_write functions write.
LEMMA WrittenWidth ==
  ASSUME NEW name, NEW id \in Nat
  PROVE  /\ Flat(EBML_write_u8_value(name, id))
         /\ Width(EBML_write_u8_value(name, id)) = id + 2
         /\ Flat(EBML_write_u16_value(name, id))
         /\ Width(EBML_write_u16_value(name, id)) = id + 3
         /\ Flat(EBML_write_u32_value(name, id))
         /\ Width(EBML_write_u32_value(name, id)) = id + 5
         /\ Flat(EBML_write_float_value(name, id))
         /\ Width(EBML_write_float_value(name, id)) = id + 5
         /\ \A n \in 0 .. 126 : /\ Flat(EBML_write_data(name, id, n))
                              /\ Width(EBML_write_data(name, id, n)) = id + 1 + n
<1>1. \A k : \A w \in Nat : Flat(Field(k, w)) /\ Width(Field(k, w)) = w
  BY WidthField
<1>2. PICK a, b : a = Field(name, id) /\ b = Field("length", 1)  OBVIOUS
<1>3. Flat(a) /\ Flat(b) /\ Width(a) = id /\ Width(b) = 1  BY <1>1, <1>2
<1>4. Flat(a \o b) /\ Width(a \o b) = id + 1  BY <1>3, WidthConcat
<1>5. ASSUME NEW w \in Nat
      PROVE  /\ Flat((a \o b) \o Field(name, w))
             /\ Width((a \o b) \o Field(name, w)) = id + 1 + w
  <2>1. Flat(Field(name, w)) /\ Width(Field(name, w)) = w  BY <1>1
  <2> QED BY <1>4, <2>1, WidthConcat
<1>6. /\ EBML_write_u8_value(name, id) = (a \o b) \o Field(name, 1)
      /\ EBML_write_u16_value(name, id) = (a \o b) \o Field(name, 2)
      /\ EBML_write_u32_value(name, id) = (a \o b) \o Field(name, 4)
      /\ EBML_write_float_value(name, id) = (a \o b) \o Field(name, 4)
  BY <1>2, Zenon DEF EBML_write_u8_value, EBML_write_u16_value, EBML_write_u32_value,
                     EBML_write_float_value, Bytes, U8, U16, U32
<1>7. \A n \in 0 .. 126 : EBML_write_data(name, id, n) = (a \o b) \o Field(name, n)
  <2> SUFFICES ASSUME NEW n \in 0 .. 126
               PROVE EBML_write_data(name, id, n) = (a \o b) \o Field(name, n)
    OBVIOUS
  <2>1. n < 127  OBVIOUS
  <2> QED BY <1>2, <2>1, Zenon DEF EBML_write_data, Bytes, U8
<1>8. \A n \in 0 .. 126 : n \in Nat  OBVIOUS
<1>9. \A w \in Nat : /\ Flat((a \o b) \o Field(name, w))
                     /\ Width((a \o b) \o Field(name, w)) = id + 1 + w
  BY <1>5
<1> HIDE <1>5
<1>10. id + 1 + 1 = id + 2 /\ id + 1 + 2 = id + 3 /\ id + 1 + 4 = id + 5
  OBVIOUS
<1>11. /\ Flat(EBML_write_u8_value(name, id)) /\ Width(EBML_write_u8_value(name, id)) = id + 2
  BY <1>6, <1>9, <1>10
<1>12. /\ Flat(EBML_write_u16_value(name, id)) /\ Width(EBML_write_u16_value(name, id)) = id + 3
  BY <1>6, <1>9, <1>10
<1>13. /\ Flat(EBML_write_u32_value(name, id)) /\ Width(EBML_write_u32_value(name, id)) = id + 5
       /\ Flat(EBML_write_float_value(name, id))
       /\ Width(EBML_write_float_value(name, id)) = id + 5
  BY <1>6, <1>9, <1>10
<1>14. \A n \in 0 .. 126 : /\ Flat(EBML_write_data(name, id, n))
                           /\ Width(EBML_write_data(name, id, n)) = id + 1 + n
  BY <1>7, <1>8, <1>9
<1> QED BY <1>11, <1>12, <1>13, <1>14

\* The header of the document is whole,
LEMMA EBMLHeaderWhole == Whole(EBMLHeader)
<1> DEFINE body ==
    EBML_write_u8_value("Version", 2) \o EBML_write_u8_value("ReadVersion", 2)
    \o EBML_write_u8_value("MaxIDLength", 2) \o EBML_write_u8_value("MaxSizeLength", 2)
    \o EBML_write_data("DocType", 2, 4) \o EBML_write_u8_value("DocTypeVersion", 2)
    \o EBML_write_u8_value("DocTypeReadVersion", 2)
<1>1. /\ \A k : Flat(EBML_write_u8_value(k, 2)) /\ Width(EBML_write_u8_value(k, 2)) = 4
      /\ \A k : Flat(EBML_write_data(k, 2, 4)) /\ Width(EBML_write_data(k, 2, 4)) = 7
  BY WrittenWidth
<1>2. Flat(body) /\ Width(body) = 31
  BY <1>1, WidthConcat
<1> HIDE DEF body
<1>3. 31 + 8 + 4 = 43  OBVIOUS
<1>4. EBMLHeader = Element(4, 8, 31, body, 43)
  BY <1>3, Zenon DEF EBMLHeader, body
<1> QED BY <1>2, <1>4, ElementWhole

\* and the information of the segment,
LEMMA SegmentInformationWhole == Whole(webm_SegmentInformation)
<1> DEFINE body ==
    EBML_write_u32_value("timecode_scale", 3) \o EBML_write_data("muxing_app", 2, 5)
    \o EBML_write_data("writing_app", 2, 11)
<1>1. /\ Flat(EBML_write_u32_value("timecode_scale", 3))
      /\ Width(EBML_write_u32_value("timecode_scale", 3)) = 8
      /\ Flat(EBML_write_data("muxing_app", 2, 5))
      /\ Width(EBML_write_data("muxing_app", 2, 5)) = 8
      /\ Flat(EBML_write_data("writing_app", 2, 11))
      /\ Width(EBML_write_data("writing_app", 2, 11)) = 14
  BY WrittenWidth
<1>2. Flat(body) /\ Width(body) = 30
  BY <1>1, WidthConcat
<1> HIDE DEF body
<1>3. SegmentInformationSize = 42 /\ SegmentInformationSize - 8 - 4 = 30
  BY DEF SegmentInformationSize
<1>4. webm_SegmentInformation = Element(4, 8, 30, body, 42)
  BY <1>3, Zenon DEF webm_SegmentInformation, body
<1> QED BY <1>2, <1>4, ElementWhole

\* The layout of an element.
LEMMA ElementWidth ==
  ASSUME NEW id \in Nat, NEW length \in Nat, NEW body, Flat(body), NEW declared, NEW s
  PROVE  /\ Flat(Element(id, length, declared, body, s).layout)
         /\ Width(Element(id, length, declared, body, s).layout) = id + length + Width(body)
<1>1. PICK l : l = Bytes("id", id) \o Bytes("length", length) \o body  OBVIOUS
<1>2. /\ Flat(Bytes("id", id)) /\ Width(Bytes("id", id)) = id
      /\ Flat(Bytes("length", length)) /\ Width(Bytes("length", length)) = length
  BY WidthField DEF Bytes
<1>3. Flat(l) /\ Width(l) = id + length + Width(body)
  BY <1>1, <1>2, WidthConcat
<1> QED BY <1>1, <1>3 DEF Element

\* the segment, which has no length,
LEMMA SegmentWhole == Whole(webm_Segment)
BY WidthNone, ElementWhole DEF webm_Segment

\* a cluster,
LEMMA ClusterWhole == Whole(webm_Cluster)
<1>1. PICK body : body = EBML_write_u32_value("timecode", 1)  OBVIOUS
<1>2. Flat(body) /\ Width(body) = 6  BY <1>1, WrittenWidth
<1>3. 4 + 1 + (1 + 1 + 4) = 11  OBVIOUS
<1>4. webm_Cluster = Element(4, 1, Unknown, body, 11)  BY <1>1, <1>3, Zenon DEF webm_Cluster
<1> QED BY <1>2, <1>4, ElementWhole

\* and a block with a packet of any length.
LEMMA SimpleBlockWhole ==
  ASSUME NEW n \in Nat
  PROVE  Whole(webm_SimpleBlock(n))
<1>1. PICK body : body = U8("track") \o U16("timecode") \o U8("flags") \o Bytes("data", n)
  OBVIOUS
<1>2. /\ Flat(U8("track")) /\ Width(U8("track")) = 1
      /\ Flat(U16("timecode")) /\ Width(U16("timecode")) = 2
      /\ Flat(U8("flags")) /\ Width(U8("flags")) = 1
      /\ Flat(Bytes("data", n)) /\ Width(Bytes("data", n)) = n
  BY WidthField DEF U8, U16, Bytes
<1>3. Flat(body) /\ Width(body) = n + 4  BY <1>1, <1>2, WidthConcat
<1>4. 1 + 8 + 1 + 2 + 1 + n = 1 + 8 + Width(body)  BY <1>3
<1>5. webm_SimpleBlock(n) = Element(1, 8, n + 4, body, 1 + 8 + 1 + 2 + 1 + n)
  BY <1>1, Zenon DEF webm_SimpleBlock
<1> QED BY <1>3, <1>4, <1>5, ElementWhole

\* The width of the audio element,
LEMMA AudioWidth == Flat(webm_Audio.layout) /\ Width(webm_Audio.layout) = 18
<1>1. PICK body : body = EBML_write_u8_value("channels", 1)
                         \o EBML_write_float_value("sampling_frequency", 1)
  OBVIOUS
<1>2. /\ Flat(EBML_write_u8_value("channels", 1))
      /\ Width(EBML_write_u8_value("channels", 1)) = 3
      /\ Flat(EBML_write_float_value("sampling_frequency", 1))
      /\ Width(EBML_write_float_value("sampling_frequency", 1)) = 6
  BY WrittenWidth
<1>3. Flat(body) /\ Width(body) = 9  BY <1>1, <1>2, WidthConcat
<1>4. webm_Audio = Element(1, 8, AudioSize - 8 - 1, body, AudioSize)
  BY <1>1, Zenon DEF webm_Audio
<1> QED BY <1>3, <1>4, ElementWidth

\* of the entry that holds it,
LEMMA TrackEntryWidth ==
  Flat(webm_TrackEntry.layout) /\ Width(webm_TrackEntry.layout) = TrackEntrySize
<1> DEFINE body ==
    EBML_write_u8_value("number", 1) \o EBML_write_u8_value("uid", 2)
    \o EBML_write_u8_value("flag_enabled", 1) \o EBML_write_u8_value("flag_default", 1)
    \o EBML_write_u8_value("flag_forced", 2) \o EBML_write_u8_value("flag_lacing", 1)
    \o EBML_write_data("codec_id", 1, 6) \o EBML_write_u8_value("min_cache", 2)
    \o EBML_write_u8_value("max_block_addition_id", 2)
    \o EBML_write_u8_value("codec_decode_all", 1) \o EBML_write_u32_value("codec_delay", 2)
    \o EBML_write_u32_value("seek_pre_roll", 2) \o EBML_write_u8_value("type", 1)
    \o EBML_write_data("codec_private", 2, 19) \o webm_Audio.layout
<1>1. /\ \A k : Flat(EBML_write_u8_value(k, 1)) /\ Width(EBML_write_u8_value(k, 1)) = 3
      /\ \A k : Flat(EBML_write_u8_value(k, 2)) /\ Width(EBML_write_u8_value(k, 2)) = 4
      /\ \A k : Flat(EBML_write_u32_value(k, 2)) /\ Width(EBML_write_u32_value(k, 2)) = 7
      /\ \A k : Flat(EBML_write_data(k, 1, 6)) /\ Width(EBML_write_data(k, 1, 6)) = 8
      /\ \A k : Flat(EBML_write_data(k, 2, 19)) /\ Width(EBML_write_data(k, 2, 19)) = 22
  BY WrittenWidth
<1>2. AudioSize = 18 /\ TrackEntrySize = 9 + 96
  BY DEF TrackEntrySize, AudioSize
<1>3. Flat(body) /\ Width(body) = 96
  BY <1>1, AudioWidth, WidthConcat
<1> HIDE DEF body
<1>4. webm_TrackEntry = Element(1, 8, TrackEntrySize - 8 - 1, body, TrackEntrySize)
  BY Zenon DEF webm_TrackEntry, body
<1> QED BY <1>2, <1>3, <1>4, ElementWidth

\* and the tracks, which hold the entry, are whole.
LEMMA TracksWhole == Whole(webm_Tracks)
<1>1. PICK s : s = TrackEntrySize  OBVIOUS
<1>2. s \in Nat  BY <1>1 DEF TrackEntrySize, AudioSize
<1>3. webm_Tracks = Element(4, 8, (4 + 8 + s) - 8 - 4, webm_TrackEntry.layout, 4 + 8 + s)
  BY <1>1, Zenon DEF webm_Tracks
<1>4. (4 + 8 + s) - 8 - 4 = s  BY <1>2
<1> QED BY <1>1, <1>2, <1>3, <1>4, TrackEntryWidth, ElementWhole

\* Every element is whole, for any length of the packets.
LEMMA AllWhole == ElementsWhole
<1>1. ASSUME NEW e \in ToSet(webm_Header) PROVE Whole(e)
  <2>1. PICK a, b, c, d : a = EBMLHeader /\ b = webm_Segment /\ c = webm_SegmentInformation
                          /\ d = webm_Tracks
    OBVIOUS
  <2>2. e \in {<<a, b, c, d>>[i] : i \in DOMAIN <<a, b, c, d>>}
    BY <1>1, <2>1, Zenon DEF ToSet, webm_Header
  <2>3. e = a \/ e = b \/ e = c \/ e = d  BY <2>2
  <2> QED BY <2>1, <2>3, EBMLHeaderWhole, SegmentWhole, SegmentInformationWhole, TracksWhole
<1>2. \A n \in Lengths : n \in Nat  BY SpiceClientAssumption
<1> QED BY <1>1, <1>2, ClusterWhole, SimpleBlockWhole DEF ElementsWhole

-----------------------------------------------------------------------------
(* The sound.                                                              *)

\* The buffers, as sequences over some set.
Feeds(S) ==
  [okay : BOOLEAN, queue : Seq(S), appended : Seq(S), made : Seq(S), updating : SUBSET Nat,
   lost : BOOLEAN]

\* Fed in order, with an append under way exactly when none may be begun.
InOrder(p) ==
  /\ ~p.lost /\ p.appended \o p.queue = p.made
  /\ p.okay <=> source_buffer \notin p.updating
  /\ p.queue # <<>> => ~p.okay

\* A stream a player can read.
Readable(m) ==
  /\ m # <<>> => /\ Len(m) > 2
                 /\ m[1].what = "header" /\ m[2].what = "cluster"
  /\ \A i \in 1 .. Len(m) : i > 1 =>
       /\ m[i].what \in {"cluster", "block"}
       /\ m[i].what = "block" => m[i].time \in 0 .. MAX_CLUSTER_TIME - 1

\* Nothing is made before the first packet, and a source buffer that comes
\* after another is not listened to.
SoundInv ==
  /\ start_time \in Nat /\ cluster_time \in Nat /\ last_data_time \in Nat
  /\ source_buffer \in Nat /\ opened \subseteq Nat \ {0} /\ heard \subseteq opened
  /\ source_buffer # None => source_buffer \in opened
  /\ \E S : Feed \in Feeds(S)
  /\ Readable(made)
  /\ start_time = 0 =>
       /\ heard = {} /\ updating = {} /\ queue = <<>> /\ appended = <<>> /\ made = <<>>
       /\ ~lost /\ ~append_okay
  /\ start_time # 0 => made # <<>> /\ cluster_time <= last_data_time
  /\ Usual => InOrder(Feed)

\* A set that holds more buffers.
LEMMA InOneSet ==
  ASSUME NEW S, NEW p \in Feeds(S), NEW b
  PROVE  p \in Feeds(S \cup {b})
<1>1. Seq(S) \subseteq Seq(S \cup {b})  BY SeqMonotonic
<1> QED BY <1>1 DEF Feeds

\* What is appended to the second of two sequences is the end of both.
LEMMA AppendLast ==
  ASSUME NEW S, NEW x \in Seq(S), NEW y \in Seq(S), NEW b \in S
  PROVE  x \o Append(y, b) = Append(x \o y, b)
<1>1. <<b>> \in Seq(S) /\ x \o y \in Seq(S)  BY ConcatProperties
<1>2. Append(y, b) = y \o <<b>>  BY AppendIsConcat
<1>3. Append(x \o y, b) = (x \o y) \o <<b>>  BY <1>1, AppendIsConcat
<1>4. x \o (y \o <<b>>) = (x \o y) \o <<b>>  BY <1>1, ConcatAssociative
<1> QED BY <1>2, <1>3, <1>4

\* The head of the second of two sequences moves to the end of the first.
LEMMA MoveHead ==
  ASSUME NEW S, NEW x \in Seq(S), NEW y \in Seq(S), y # <<>>
  PROVE  Append(x, Head(y)) \o Tail(y) = x \o y
<1>1. /\ Head(y) \in S /\ Tail(y) \in Seq(S) /\ y = <<Head(y)>> \o Tail(y)
      /\ <<Head(y)>> \in Seq(S)
  <2>1. Head(y) \in S /\ Tail(y) \in Seq(S)  BY HeadTailProperties
  <2>2. Len(y) \in Nat /\ Len(y) # 0 /\ Head(y) = y[1]
    BY LenProperties, EmptySeq
  <2>3. y = SubSeq(y, 1, Len(y)) /\ Tail(y) = SubSeq(y, 2, Len(y))
    BY SubSeqFull, TailIsSubSeq
  <2>4. SubSeq(y, 1, Len(y)) = <<y[1]>> \o SubSeq(y, 1 + 1, Len(y))
    <3>1. 1 \in 1 .. Len(y) /\ Len(y) \in 1 .. Len(y)  BY <2>2
    <3> QED BY <3>1, SubSeqRecursiveFirst
  <2> QED BY <2>1, <2>2, <2>3, <2>4
<1>2. Append(x, Head(y)) = x \o <<Head(y)>>  BY <1>1, AppendIsConcat
<1>3. (x \o <<Head(y)>>) \o Tail(y) = x \o (<<Head(y)>> \o Tail(y))
  BY <1>1, ConcatAssociative
<1> QED BY <1>1, <1>2, <1>3

\* The types of the fields, one at a time.
LEMMA FeedTypes ==
  ASSUME NEW S, NEW p \in Feeds(S)
  PROVE  /\ p.okay \in BOOLEAN /\ p.lost \in BOOLEAN /\ p.updating \subseteq Nat
         /\ p.queue \in Seq(S) /\ p.appended \in Seq(S) /\ p.made \in Seq(S)
BY DEF Feeds

\* r is p after b has been appended, if the source buffer can take it.
Taken(p, r, b) ==
  /\ r.made = p.made
  /\ source_buffer # None /\ ~full /\ source_buffer \notin p.updating =>
       /\ r.updating = p.updating \cup {source_buffer} /\ r.okay = FALSE
       /\ r.appended = Append(p.appended, b)
       /\ r.queue = p.queue /\ r.lost = p.lost

\* An append that the source buffer can take is under way, and stops the next.
LEMMA AppendBuffer ==
  ASSUME NEW S, NEW p \in Feeds(S), NEW b \in S, source_buffer \in Nat
  PROVE  /\ playback_append_buffer(p, b) \in Feeds(S)
         /\ Taken(p, playback_append_buffer(p, b), b)
<1> DEFINE u == p.updating \cup {source_buffer}
           s == Append(p.appended, b)
           taken == [p EXCEPT !.updating = u, !.okay = FALSE, !.appended = s]
           refused == [p EXCEPT !.lost = TRUE]
<1>1. s \in Seq(S) /\ u \in SUBSET Nat  BY FeedTypes, AppendProperties
<1>2. /\ taken \in Feeds(S) /\ taken.made = p.made /\ taken.updating = u
      /\ taken.okay = FALSE /\ taken.appended = s /\ taken.queue = p.queue
      /\ taken.lost = p.lost
  <2> HIDE DEF u, s
  <2> QED BY <1>1 DEF Feeds
<1>3. refused \in Feeds(S) /\ refused.made = p.made  BY DEF Feeds
<1>4. playback_append_buffer(p, b) =
        IF source_buffer = None \/ source_buffer \in p.updating \/ full THEN refused ELSE taken
  BY Zenon DEF playback_append_buffer
<1> HIDE DEF taken, refused
<1>5. CASE source_buffer = None \/ source_buffer \in p.updating \/ full
  BY <1>3, <1>4, <1>5 DEF Taken
<1>6. CASE ~(source_buffer = None \/ source_buffer \in p.updating \/ full)
  <2>1. playback_append_buffer(p, b) = taken  BY <1>4, <1>6
  <2> QED BY <1>2, <2>1, Zenon DEF Taken
<1> QED BY <1>5, <1>6

\* One buffer more is made, and appended or left to wait.
LEMMA Offered ==
  ASSUME NEW S, NEW p \in Feeds(S), NEW b \in S, source_buffer \in Nat
  PROVE  /\ Offer(p, b) \in Feeds(S)
         /\ Offer(p, b).made = Append(p.made, b)
         /\ source_buffer # None /\ ~full /\ InOrder(p) => InOrder(Offer(p, b))
<1> DEFINE s == Append(p.made, b)
           w == Append(p.queue, b)
<1>0. /\ s \in Seq(S) /\ w \in Seq(S) /\ {} \in SUBSET Nat
      /\ p.queue \in Seq(S) /\ p.appended \in Seq(S) /\ p.made \in Seq(S)
      /\ p.okay \in BOOLEAN
  BY FeedTypes, AppendProperties
<1> HIDE DEF s, w
<1>1. PICK q : q = [p EXCEPT !.made = s]  OBVIOUS
<1>2. /\ q \in Feeds(S) /\ q.made = s /\ q.okay = p.okay /\ q.queue = p.queue
      /\ q.appended = p.appended /\ q.updating = p.updating /\ q.lost = p.lost
  BY <1>0, <1>1 DEF Feeds
<1>3. Make(p, b) = q  BY <1>1 DEF Make, s
<1>4. CASE p.okay
  <2>1. PICK r : r = playback_append_buffer(q, b)  OBVIOUS
  <2>2. Offer(p, b) = r  BY <1>3, <1>4, <2>1 DEF Offer
  <2>3. /\ r \in Feeds(S) /\ r.made = q.made
        /\ source_buffer # None /\ ~full /\ source_buffer \notin q.updating =>
             /\ r.updating = q.updating \cup {source_buffer} /\ r.okay = FALSE
             /\ r.appended = Append(q.appended, b)
             /\ r.queue = q.queue /\ r.lost = q.lost
    <3>1. q \in Feeds(S)  BY <1>2
    <3>2. r \in Feeds(S) /\ Taken(q, r, b)
      BY ONLY <2>1, <3>1, b \in S, source_buffer \in Nat, AppendBuffer
    <3> QED BY <3>2 DEF Taken
  <2>4. ASSUME source_buffer # None, ~full, InOrder(p) PROVE InOrder(r)
    <3>1. source_buffer \notin q.updating /\ ~q.lost /\ p.queue = <<>>
          /\ p.appended \o p.queue = p.made
      BY <1>2, <1>4, <2>4 DEF InOrder
    <3>2. p.appended = p.made  BY <1>0, <3>1, ConcatEmptySeq
    <3>3. r.appended = s /\ r.queue = <<>>  BY <1>2, <2>3, <2>4, <3>1, <3>2 DEF s
    <3>4. r.appended \o r.queue = r.made  BY <1>0, <1>2, <2>3, <3>3, ConcatEmptySeq
    <3>5. ~r.lost /\ r.okay = FALSE /\ source_buffer \in r.updating
      BY <1>2, <2>3, <2>4, <3>1
    <3> QED BY <3>3, <3>4, <3>5 DEF InOrder
  <2> QED BY <1>2, <2>2, <2>3, <2>4 DEF s
<1>5. CASE ~p.okay
  <2>1. PICK r : r = [q EXCEPT !.queue = w]  OBVIOUS
  <2>2. Offer(p, b) = r
    <3>1. q.queue = p.queue  BY <1>2
    <3>2. Offer(p, b) = [q EXCEPT !.queue = Append(q.queue, b)]
      BY <1>3, <1>5, Zenon DEF Offer
    <3> QED BY <2>1, <3>1, <3>2, Zenon DEF w
  <2>3. /\ r \in Feeds(S) /\ r.queue = w /\ r.made = s /\ r.appended = p.appended
        /\ r.updating = p.updating /\ r.okay = p.okay /\ r.lost = p.lost
    BY <1>0, <1>2, <2>1 DEF Feeds
  <2>4. ASSUME InOrder(p) PROVE InOrder(r)
    <3>1. /\ ~p.lost /\ p.appended \o p.queue = p.made
          /\ p.okay <=> source_buffer \notin p.updating
      BY <2>4 DEF InOrder
    <3>2. p.appended \o w = Append(p.appended \o p.queue, b)
      <4>1. PICK x, y : x = p.appended /\ y = p.queue  OBVIOUS
      <4>2. x \in Seq(S) /\ y \in Seq(S)  BY <1>0, <4>1
      <4>3. x \o Append(y, b) = Append(x \o y, b)  BY ONLY <4>2, b \in S, AppendLast
      <4> QED BY <4>1, <4>3 DEF w
    <3>4. r.appended \o r.queue = r.made  BY <2>3, <3>1, <3>2 DEF s
    <3> QED BY <1>5, <2>3, <3>1, <3>4 DEF InOrder
  <2> QED BY <2>2, <2>3, <2>4 DEF s
<1> QED BY <1>0, <1>4, <1>5

\* q is p with a cluster of time c and its first block.
ClusterMade(S, p, q, c) ==
  /\ q \in Feeds(S)
  /\ q.made = Append(Append(p.made, Cluster(c)), Block(0))
  /\ source_buffer # None /\ ~full /\ InOrder(p) => InOrder(q)

\* A cluster and its first block are offered one after the other.
LEMMA NewCluster ==
  ASSUME NEW S, NEW p \in Feeds(S), NEW time \in Nat, NEW cluster, source_buffer \in Nat,
         Cluster(cluster) \in S, Block(0) \in S
  PROVE  ClusterMade(S, p, new_cluster(p, time, cluster), cluster)
<1>1. PICK r, b : r = Offer(p, b) /\ b = Cluster(cluster)  OBVIOUS
<1>2. /\ r \in Feeds(S) /\ r.made = Append(p.made, b)
      /\ source_buffer # None /\ ~full /\ InOrder(p) => InOrder(r)
  <2>1. b \in S  BY <1>1
  <2> QED BY ONLY <1>1, <2>1, p \in Feeds(S), source_buffer \in Nat, Offered
<1>3. PICK q, c : q = Offer(r, c) /\ c = Block(0)  OBVIOUS
<1>4. /\ q \in Feeds(S) /\ q.made = Append(r.made, c)
      /\ source_buffer # None /\ ~full /\ InOrder(r) => InOrder(q)
  <2>1. c \in S  BY <1>3
  <2> QED BY ONLY <1>2, <1>3, <2>1, source_buffer \in Nat, Offered
<1>5. new_cluster(p, time, cluster) = q
  <2>1. time - time = 0  OBVIOUS
  <2> QED BY <1>1, <1>3, <2>1, Zenon DEF new_cluster, simple_block
<1> QED BY <1>1, <1>2, <1>3, <1>4, <1>5 DEF ClusterMade

\* The first three buffers.
First == Append(Append(<<Header>>, Cluster(0)), Block(0))

\* What start_playback makes of nothing.
LEMMA StartPlayback ==
  ASSUME NEW S, NEW p \in Feeds(S), NEW time \in Nat, source_buffer \in Nat,
         source_buffer # None,
         p.made = <<>>, p.queue = <<>>, p.appended = <<>>, ~p.lost, p.updating = {},
         Header \in S, Cluster(0) \in S, Block(0) \in S
  PROVE  LET q == start_playback(p, time)
         IN  /\ q \in Feeds(S) /\ q.made = First
             /\ ~full => InOrder(q)
<1>1. PICK s : s = Append(p.made, Header)  OBVIOUS
<1>2. s \in Seq(S) /\ s = <<Header>>
  BY <1>1, FeedTypes, AppendProperties
<1>3. PICK m : m = [p EXCEPT !.made = s]  OBVIOUS
<1>4. /\ m \in Feeds(S) /\ m.made = s /\ m.queue = <<>> /\ m.appended = <<>> /\ ~m.lost
      /\ m.updating = {}
  BY <1>2, <1>3 DEF Feeds
<1>5. Make(p, Header) = m  BY <1>1, <1>3 DEF Make
<1>6. PICK r, h : r = playback_append_buffer(m, h) /\ h = Header  OBVIOUS
<1>7. r \in Feeds(S) /\ Taken(m, r, h)
  <2>1. h \in S  BY <1>6
  <2> QED BY ONLY <1>4, <1>6, <2>1, source_buffer \in Nat, AppendBuffer
<1>8. r.made = <<Header>>  BY <1>2, <1>4, <1>7 DEF Taken
<1>9. ASSUME ~full PROVE InOrder(r)
  <2>1. /\ r.updating = m.updating \cup {source_buffer} /\ r.okay = FALSE
        /\ r.appended = Append(m.appended, h) /\ r.queue = m.queue /\ r.lost = m.lost
    BY <1>4, <1>7, <1>9 DEF Taken
  <2>2. Append(<<>>, h) = <<h>> /\ <<h>> \in Seq({h})
    OBVIOUS
  <2>3. r.appended = <<Header>> /\ r.queue = <<>>  BY <1>4, <1>6, <2>1, <2>2
  <2>4. <<Header>> \o <<>> = <<Header>>  BY <1>6, <2>2, ConcatEmptySeq
  <2> QED BY <1>4, <1>8, <2>1, <2>3, <2>4 DEF InOrder
<1>10. PICK q : q = new_cluster(r, time, 0)  OBVIOUS
<1>11. /\ q \in Feeds(S) /\ q.made = Append(Append(r.made, Cluster(0)), Block(0))
       /\ source_buffer # None /\ ~full /\ InOrder(r) => InOrder(q)
  <2>1. PICK t, k : t = time /\ k = 0  OBVIOUS
  <2>2. t \in Nat /\ Cluster(k) \in S /\ Block(0) \in S /\ r \in Feeds(S)  BY <1>7, <2>1
  <2>3. ClusterMade(S, r, new_cluster(r, t, k), k)
    BY ONLY <2>2, source_buffer \in Nat, NewCluster
  <2> QED BY <1>10, <2>1, <2>3 DEF ClusterMade
<1>12. start_playback(p, time) = q
  BY <1>5, <1>6, <1>10, Zenon DEF start_playback
<1> QED BY <1>8, <1>9, <1>11, <1>12 DEF First

\* What a stream can go on with.
CanFollow(b) ==
  b.what = "cluster" \/ (b.what = "block" /\ b.time \in 0 .. MAX_CLUSTER_TIME - 1)

\* A stream stays readable by a cluster more, or a block that it can hold.
LEMMA ReadOn ==
  ASSUME NEW S, NEW m \in Seq(S), Readable(m), m # <<>>, NEW b \in S,
         CanFollow(b)
  PROVE  Readable(Append(m, b)) /\ Append(m, b) # <<>> /\ Append(m, b) \in Seq(S)
<1>1. m \in Seq(S)  OBVIOUS
<1>2. PICK n : n = Append(m, b)  OBVIOUS
<1>3. /\ n \in Seq(S) /\ Len(n) = Len(m) + 1 /\ n[Len(n)] = b /\ n # <<>>
      /\ \A i \in 1 .. Len(m) : n[i] = m[i]
  BY <1>1, <1>2, AppendProperties
<1>4. Len(m) \in Nat /\ Len(m) > 2  BY <1>1, LenProperties DEF Readable
<1>5. n[1] = m[1] /\ n[2] = m[2]  BY <1>3, <1>4
<1>6. ASSUME NEW i \in 1 .. Len(n), i > 1
      PROVE  /\ n[i].what \in {"cluster", "block"}
             /\ n[i].what = "block" => n[i].time \in 0 .. MAX_CLUSTER_TIME - 1
  <2>1. CASE i = Len(n)  BY <1>3, <2>1 DEF CanFollow
  <2>2. CASE i # Len(n)
    <3>1. i \in 1 .. Len(m) /\ n[i] = m[i]  BY <1>3, <1>4, <2>2
    <3> QED BY <1>6, <3>1 DEF Readable
  <2> QED BY <2>1, <2>2
<1> QED BY <1>2, <1>3, <1>4, <1>5, <1>6 DEF Readable

\* A feed that is well kept makes a state that is.
LEMMA Kept ==
  ASSUME NEW S, NEW p \in Feeds(S), Fed(p), UNCHANGED source_buffer
  PROVE  Feed' \in Feeds(S) /\ made' = p.made /\ (InOrder(p) => InOrder(Feed)')
<1>1. /\ append_okay' = p.okay /\ queue' = p.queue /\ appended' = p.appended
      /\ made' = p.made /\ updating' = p.updating /\ lost' = p.lost
  BY DEF Fed
<1>2. Feed' = [okay |-> p.okay, queue |-> p.queue, appended |-> p.appended, made |-> p.made,
               updating |-> p.updating, lost |-> p.lost]
  BY <1>1, Zenon DEF Feed
<1>3. Feed' \in Feeds(S)  BY <1>2, FeedTypes DEF Feeds
<1>4. Feed' = p  BY <1>2 DEF Feeds
<1>5. ASSUME InOrder(p) PROVE InOrder(Feed)'
  BY <1>4, <1>5 DEF InOrder
<1> QED BY <1>1, <1>3, <1>5

\* A step that touches no buffer.
LEMMA UnfedStep ==
  ASSUME SoundInv, Unfed,
         start_time' = start_time, cluster_time' = cluster_time, heard' = heard,
         last_data_time' \in Nat, last_data_time' >= last_data_time,
         source_buffer' \in Nat, opened' \subseteq Nat \ {0}, opened \subseteq opened',
         source_buffer' # None => source_buffer' \in opened',
         Usual' => Usual /\ source_buffer' = source_buffer
  PROVE  SoundInv'
<1>1. /\ append_okay' = append_okay /\ queue' = queue /\ appended' = appended
      /\ made' = made /\ updating' = updating /\ lost' = lost
  BY DEF Unfed
<1>2. Feed' = Feed  BY <1>1, Zenon DEF Feed
<1>3. \E S : Feed' \in Feeds(S)  BY <1>2 DEF SoundInv
<1>4. Readable(made)'  BY <1>1 DEF SoundInv, Readable
<1>5. Usual' => InOrder(Feed)'
  BY <1>2 DEF SoundInv, InOrder
<1>6. start_time' # 0 => made' # <<>> /\ cluster_time' <= last_data_time'
  <2> SUFFICES ASSUME start_time' # 0 PROVE made' # <<>> /\ cluster_time' <= last_data_time'
    OBVIOUS
  <2>1. /\ made # <<>> /\ cluster_time <= last_data_time
        /\ cluster_time \in Nat /\ last_data_time \in Nat
    BY DEF SoundInv
  <2> QED BY <1>1, <2>1
<1>7. /\ start_time' \in Nat /\ cluster_time' \in Nat /\ heard' \subseteq opened'
  BY DEF SoundInv
<1>8. start_time' = 0 =>
        /\ heard' = {} /\ updating' = {} /\ queue' = <<>> /\ appended' = <<>>
        /\ made' = <<>> /\ ~lost' /\ ~append_okay'
  BY <1>1 DEF SoundInv
<1> QED BY <1>3, <1>4, <1>5, <1>6, <1>7, <1>8 DEF SoundInv

\* A step that feeds the source buffer.
LEMMA FedStep ==
  ASSUME SoundInv, NEW S, NEW p \in Feeds(S), Fed(p), UNCHANGED <<source_buffer, full, opened>>,
         start_time' \in Nat \ {0}, cluster_time' \in Nat, last_data_time' \in Nat,
         cluster_time' <= last_data_time', heard' \subseteq opened,
         Readable(p.made), p.made # <<>>, Usual' => InOrder(p)
  PROVE  SoundInv'
<1>1. Feed' \in Feeds(S) /\ made' = p.made /\ (InOrder(p) => InOrder(Feed)')
  BY Kept
<1>2. Readable(made)'  BY <1>1 DEF Readable
<1>3. /\ source_buffer' \in Nat /\ opened' \subseteq Nat \ {0} /\ heard' \subseteq opened'
      /\ source_buffer' # None => source_buffer' \in opened'
  BY DEF SoundInv
<1>4. start_time' \in Nat /\ start_time' # 0  OBVIOUS
<1> QED BY <1>1, <1>2, <1>3, <1>4 DEF SoundInv

\* The sources that come and go.
LEMMA SourceStep ==
  ASSUME SoundInv, PlaybackStart \/ PlaybackMode \/ SourceOpen \/ Fill
  PROVE  SoundInv'
<1>0. /\ last_data_time \in Nat /\ source_buffer \in Nat /\ opened \subseteq Nat \ {0}
      /\ source_buffer # None => source_buffer \in opened
      /\ heard \subseteq opened
  BY DEF SoundInv
<1>1. CASE PlaybackStart
  <2>1. Unfed /\ UNCHANGED <<opened, source_buffer, heard, full, start_time, cluster_time,
                             last_data_time>>
    BY <1>1 DEF PlaybackStart
  <2>2. Usual' => Usual  BY <2>1 DEF Usual
  <2> QED BY <1>0, <2>1, <2>2, UnfedStep
<1>2. CASE PlaybackMode
  <2>1. Unfed /\ source_buffer' = None
        /\ UNCHANGED <<opened, heard, full, start_time, cluster_time, last_data_time>>
    BY <1>2 DEF PlaybackMode
  <2>2. ~Usual'  BY <2>1 DEF Usual
  <2> QED BY <1>0, <2>1, <2>2, UnfedStep DEF None
<1>3. CASE SourceOpen
  <2>1. PICK s \in (1 .. sources) \ opened :
          /\ opened' = opened \cup {s}
          /\ source_buffer' = IF source_buffer = None THEN s ELSE source_buffer
    BY <1>3 DEF SourceOpen
  <2>2. Unfed /\ UNCHANGED <<heard, full, start_time, cluster_time, last_data_time>>
    BY <1>3 DEF SourceOpen
  <2>3. s \in Nat \ {0}  BY <2>1
  <2>4. Usual' => Usual /\ source_buffer' = source_buffer
    <3>1. CASE source_buffer = None
      <4>1. source_buffer' = s /\ s \notin heard  BY <1>0, <2>1, <3>1
      <4> QED BY <2>2, <4>1 DEF Usual
    <3>2. CASE source_buffer # None
      BY <2>1, <2>2, <3>2 DEF Usual
    <3> QED BY <3>1, <3>2
  <2>5. /\ opened' \subseteq Nat \ {0} /\ opened \subseteq opened'
        /\ source_buffer' \in Nat /\ source_buffer' \in opened'
    BY <1>0, <2>1, <2>3
  <2> QED BY <1>0, <2>2, <2>4, <2>5, UnfedStep
<1>4. CASE Fill
  <2>1. Unfed /\ full'
        /\ UNCHANGED <<opened, source_buffer, heard, start_time, cluster_time, last_data_time>>
    BY <1>4 DEF Fill
  <2>2. ~Usual'  BY <2>1 DEF Usual
  <2> QED BY <1>0, <2>1, <2>2, UnfedStep
<1> QED BY <1>1, <1>2, <1>3, <1>4

\* The browser has taken a buffer, and gets the next that waits.
LEMMA AppendDoneStep ==
  ASSUME SoundInv, AppendDone
  PROVE  SoundInv'
<1>1. PICK s \in updating :
        LET p == [Feed EXCEPT !.updating = @ \ {s}]
        IN Fed(IF s \notin heard THEN p
               ELSE IF queue = <<>> THEN [p EXCEPT !.okay = TRUE]
               ELSE playback_append_buffer([p EXCEPT !.queue = Tail(@)], Head(queue)))
  BY DEF AppendDone
<1>2. UNCHANGED <<opened, source_buffer, heard, full, start_time, cluster_time, last_data_time>>
  BY DEF AppendDone
<1>3. PICK S : Feed \in Feeds(S)  BY DEF SoundInv
<1>4. PICK f : f = Feed  OBVIOUS
<1>5. /\ f.okay = append_okay /\ f.queue = queue /\ f.appended = appended /\ f.made = made
      /\ f.updating = updating /\ f.lost = lost
  BY <1>4 DEF Feed
<1>6. start_time # 0  BY <1>1 DEF SoundInv
<1>7. PICK p : p = [f EXCEPT !.updating = f.updating \ {s}]  OBVIOUS
<1>8. /\ p \in Feeds(S)
      /\ p.okay = f.okay /\ p.queue = f.queue /\ p.appended = f.appended /\ p.made = f.made
      /\ p.updating = f.updating \ {s} /\ p.lost = f.lost
  <2>1. PICK u : u = f.updating \ {s}  OBVIOUS
  <2>2. u \in SUBSET Nat /\ f \in Feeds(S)  BY <1>3, <1>4, <2>1 DEF Feeds
  <2>3. p = [f EXCEPT !.updating = u]  BY <1>7, <2>1
  <2> QED BY <2>1, <2>2, <2>3 DEF Feeds
<1>9. Fed(IF s \notin heard THEN p
          ELSE IF f.queue = <<>> THEN [p EXCEPT !.okay = TRUE]
          ELSE playback_append_buffer([p EXCEPT !.queue = Tail(p.queue)], Head(f.queue)))
  BY <1>1, <1>4, <1>5, <1>7, Zenon
<1>10. Usual' => /\ Usual /\ InOrder(f) /\ (s \in heard <=> s = source_buffer)
                 /\ source_buffer # None /\ ~full
  BY <1>2, <1>4 DEF SoundInv, Usual
<1>11. ASSUME NEW q, q \in Feeds(S), q.made = f.made, Fed(q), Usual' => InOrder(q)
       PROVE  SoundInv'
  <2>1. Readable(q.made) /\ q.made # <<>>  BY <1>5, <1>6, <1>11 DEF SoundInv
  <2>2. /\ start_time' \in Nat \ {0} /\ cluster_time' \in Nat /\ last_data_time' \in Nat
        /\ cluster_time' <= last_data_time' /\ heard' \subseteq opened
    BY <1>2, <1>6 DEF SoundInv
  <2> QED BY <1>2, <1>11, <2>1, <2>2, FedStep
<1>12. CASE s \notin heard
  <2>1. Fed(p)  BY <1>9, <1>12
  <2>2. Usual' => InOrder(p)
    <3> SUFFICES ASSUME Usual' PROVE InOrder(p)  OBVIOUS
    <3>1. source_buffer # s /\ InOrder(f)  BY <1>10, <1>12
    <3> QED BY <1>8, <3>1 DEF InOrder
  <2> QED BY <1>8, <1>11, <2>1, <2>2
<1>13. CASE s \in heard /\ f.queue = <<>>
  <2>1. PICK q : q = [p EXCEPT !.okay = TRUE]  OBVIOUS
  <2>2. Fed(q)  BY <1>9, <1>13, <2>1
  <2>3. /\ q \in Feeds(S) /\ q.okay = TRUE /\ q.queue = p.queue /\ q.appended = p.appended
        /\ q.made = p.made /\ q.updating = p.updating /\ q.lost = p.lost
    BY <1>8, <2>1 DEF Feeds
  <2>4. Usual' => InOrder(q)
    <3> SUFFICES ASSUME Usual' PROVE InOrder(q)  OBVIOUS
    <3>1. source_buffer = s /\ InOrder(f)  BY <1>10, <1>13
    <3> QED BY <1>8, <1>13, <2>3, <3>1 DEF InOrder
  <2> QED BY <1>8, <1>11, <2>2, <2>3, <2>4
<1>14. CASE s \in heard /\ f.queue # <<>>
  <2>1. PICK t, b : t = Tail(f.queue) /\ b = Head(f.queue)  OBVIOUS
  <2>2. /\ f.queue \in Seq(S) /\ f.appended \in Seq(S) /\ f \in Feeds(S)
    BY <1>3, <1>4, FeedTypes
  <2>3. t \in Seq(S) /\ b \in S  BY <1>14, <2>1, <2>2, HeadTailProperties
  <2>4. PICK r : r = [p EXCEPT !.queue = t]  OBVIOUS
  <2>5. /\ r \in Feeds(S) /\ r.okay = p.okay /\ r.queue = t /\ r.appended = p.appended
        /\ r.made = p.made /\ r.updating = p.updating /\ r.lost = p.lost
    BY <1>8, <2>3, <2>4 DEF Feeds
  <2>6. PICK q : q = playback_append_buffer(r, b)  OBVIOUS
  <2>7. Fed(q)
    <3>1. [p EXCEPT !.queue = Tail(p.queue)] = r  BY <1>8, <2>1, <2>4
    <3> QED BY <1>9, <1>14, <2>1, <2>6, <3>1
  <2>8. q \in Feeds(S) /\ Taken(r, q, b)
    <3>1. source_buffer \in Nat  BY DEF SoundInv
    <3> QED BY ONLY <2>3, <2>5, <2>6, <3>1, AppendBuffer
  <2>9. q.made = f.made  BY <1>8, <2>5, <2>8 DEF Taken
  <2>10. Usual' => InOrder(q)
    <3> SUFFICES ASSUME Usual' PROVE InOrder(q)  OBVIOUS
    <3>1. source_buffer = s /\ InOrder(f) /\ source_buffer # None /\ ~full
      BY <1>10, <1>14
    <3>2. /\ q.updating = r.updating \cup {source_buffer} /\ q.okay = FALSE
          /\ q.appended = Append(f.appended, b) /\ q.queue = t /\ q.lost = f.lost
      BY <1>8, <2>5, <2>8, <3>1 DEF Taken
    <3>3. Append(f.appended, b) \o t = f.appended \o f.queue
      <4>1. PICK x, y : x = f.appended /\ y = f.queue  OBVIOUS
      <4>2. x \in Seq(S) /\ y \in Seq(S) /\ y # <<>> /\ t = Tail(y) /\ b = Head(y)
        BY <1>14, <2>1, <2>2, <4>1
      <4>3. Append(x, b) \o t = x \o y  BY ONLY <4>2, <2>3, MoveHead
      <4> QED BY <4>1, <4>3
    <3>4. q.appended \o q.queue = q.made  BY <2>9, <3>1, <3>2, <3>3 DEF InOrder
    <3> QED BY <3>1, <3>2, <3>4 DEF InOrder
  <2> QED BY <1>11, <2>7, <2>8, <2>9, <2>10
<1> QED BY <1>12, <1>13, <1>14

\* The stream begins readable.
LEMMA ReadFirst ==
  Readable(First) /\ First # <<>>
<1>1. PICK m, x, y, z : m = First /\ x = Header /\ y = Cluster(0) /\ z = Block(0)
  OBVIOUS
<1>2. /\ x.what = "header" /\ y.what = "cluster" /\ z.what = "block" /\ z.time = 0
  BY <1>1 DEF Header, Cluster, Block
<1>3. Len(m) = 3 /\ m[1] = x /\ m[2] = y /\ m[3] = z
  <2>1. PICK S : x \in S /\ y \in S /\ z \in S
    <3>1. x \in {x, y, z} /\ y \in {x, y, z} /\ z \in {x, y, z}  OBVIOUS
    <3> QED BY <3>1
  <2>2. PICK n, k : k = <<x>> /\ n = Append(k, y)  OBVIOUS
  <2>3. k \in Seq(S) /\ Len(k) = 1 /\ k[1] = x  BY <2>1, <2>2
  <2>4. n \in Seq(S) /\ Len(n) = 2 /\ n[1] = x /\ n[2] = y
    BY <2>1, <2>2, <2>3, AppendProperties
  <2>5. m = Append(n, z)  BY <1>1, <2>2 DEF First
  <2>6. Len(m) = Len(n) + 1 /\ m[Len(n) + 1] = z /\ \A i \in 1 .. Len(n) : m[i] = n[i]
    <3>1. n \in Seq(S) /\ z \in S  BY <2>1, <2>4
    <3> QED BY ONLY <2>5, <3>1, AppendProperties
  <2> QED BY <2>4, <2>6
<1>4. 0 \in 0 .. MAX_CLUSTER_TIME - 1  BY SpiceClientAssumption
<1>5. \A i \in 1 .. Len(m) : i > 1 => i = 2 \/ i = 3  BY <1>3
<1>6. m # <<>>  BY <1>3
<1> QED BY <1>1, <1>2, <1>3, <1>4, <1>5, <1>6 DEF Readable

\* A packet of sound.
LEMMA PlaybackDataStep ==
  ASSUME SoundInv, PlaybackData
  PROVE  SoundInv'
<1>0. /\ start_time \in Nat /\ cluster_time \in Nat /\ last_data_time \in Nat
      /\ source_buffer \in Nat /\ opened \subseteq Nat \ {0} /\ heard \subseteq opened
      /\ source_buffer # None => source_buffer \in opened
      /\ start_time # 0 => cluster_time <= last_data_time
  BY DEF SoundInv
<1>1. UNCHANGED <<opened, source_buffer, full>>  BY DEF PlaybackData
<1>2. PICK time, gap, skipped, next :
        /\ time \in Nat \ {0} /\ time >= last_data_time
        /\ next <=> time - cluster_time >= MAX_CLUSTER_TIME \/ gap
        /\ \/ Unfed /\ UNCHANGED <<start_time, cluster_time, last_data_time, heard>>
           \/ /\ Unfed /\ UNCHANGED <<start_time, cluster_time, heard>>
              /\ last_data_time' = time
           \/ /\ last_data_time' = time /\ source_buffer # None
              /\ start_time' = IF start_time = 0 THEN time ELSE start_time
              /\ cluster_time' = IF start_time = 0 \/ next THEN time ELSE cluster_time
              /\ heard' = IF start_time = 0 THEN heard \cup {source_buffer} ELSE heard
              /\ Fed(IF start_time = 0 THEN start_playback(Feed, time)
                     ELSE IF next
                     THEN new_cluster(Feed, time, time - start_time - skipped)
                     ELSE simple_block(Feed, time, cluster_time))
  <2> DEFINE time(t) == IF last_data_time # 0 /\ t <= last_data_time
                        THEN last_data_time + 1 ELSE t
             gap(t) == /\ last_data_time # 0
                       /\ time(t) - last_data_time >= GAP_DETECTION_THRESHOLD
             skipped(t) == IF gap(t) THEN time(t) - start_time - buffered ELSE gap_time
             next(t) == time(t) - cluster_time >= MAX_CLUSTER_TIME \/ gap(t)
  <2>1. PICK t \in 1 .. MaxTime :
          /\ t >= last_data_time
          /\ \/ Unfed /\ UNCHANGED <<start_time, cluster_time, last_data_time, heard>>
             \/ /\ Unfed /\ UNCHANGED <<start_time, cluster_time, heard>>
                /\ last_data_time' = time(t)
             \/ /\ last_data_time' = time(t) /\ source_buffer # None
                /\ start_time' = IF start_time = 0 THEN time(t) ELSE start_time
                /\ cluster_time' = IF start_time = 0 \/ next(t) THEN time(t) ELSE cluster_time
                /\ heard' = IF start_time = 0 THEN heard \cup {source_buffer} ELSE heard
                /\ Fed(IF start_time = 0 THEN start_playback(Feed, time(t))
                       ELSE IF next(t)
                       THEN new_cluster(Feed, time(t), time(t) - start_time - skipped(t))
                       ELSE simple_block(Feed, time(t), cluster_time))
    BY Zenon DEF PlaybackData
  <2>2. time(t) \in Nat \ {0} /\ time(t) >= last_data_time
    BY <1>0, <2>1, SpiceClientAssumption
  <2>3. PICK a, b, c, d : a = time(t) /\ b = gap(t) /\ c = skipped(t) /\ d = next(t)
    OBVIOUS
  <2>4. d <=> a - cluster_time >= MAX_CLUSTER_TIME \/ b
    BY <2>3
  <2> HIDE DEF time, gap, skipped, next
  <2> QED BY <2>1, <2>2, <2>3, <2>4, Zenon
<1>3. CASE Unfed /\ UNCHANGED <<start_time, cluster_time, heard>>
           /\ (last_data_time' = last_data_time \/ last_data_time' = time)
  <2>1. Usual' => Usual  BY <1>1, <1>3 DEF Usual
  <2>2. last_data_time' \in Nat /\ last_data_time' >= last_data_time
    BY <1>0, <1>2, <1>3
  <2> QED BY <1>0, <1>1, <1>3, <2>1, <2>2, UnfedStep
<1>4. CASE /\ last_data_time' = time /\ source_buffer # None
           /\ start_time' = IF start_time = 0 THEN time ELSE start_time
           /\ cluster_time' = IF start_time = 0 \/ next THEN time ELSE cluster_time
           /\ heard' = IF start_time = 0 THEN heard \cup {source_buffer} ELSE heard
           /\ Fed(IF start_time = 0 THEN start_playback(Feed, time)
                  ELSE IF next
                  THEN new_cluster(Feed, time, time - start_time - skipped)
                  ELSE simple_block(Feed, time, cluster_time))
  <2>1. PICK f : f = Feed  OBVIOUS
  <2>2. /\ f.okay = append_okay /\ f.queue = queue /\ f.appended = appended /\ f.made = made
        /\ f.updating = updating /\ f.lost = lost
    BY <2>1 DEF Feed
  <2>3. PICK S : f \in Feeds(S) /\ {Header, Cluster(0), Block(0)} \subseteq S
                 /\ Cluster(time - start_time - skipped) \in S
                 /\ Block(time - cluster_time) \in S
    <3>1. PICK R : f \in Feeds(R)  BY <2>1 DEF SoundInv
    <3> DEFINE T == R \cup {Header} \cup {Cluster(0)} \cup {Block(0)}
                      \cup {Cluster(time - start_time - skipped)}
                      \cup {Block(time - cluster_time)}
    <3>2. f \in Feeds(T)
      <4>1. \A Q, b : f \in Feeds(Q) => f \in Feeds(Q \cup {b})  BY InOneSet
      <4> QED BY <3>1, <4>1
    <3> HIDE DEF T
    <3>3. {Header, Cluster(0), Block(0)} \subseteq T
          /\ Cluster(time - start_time - skipped) \in T /\ Block(time - cluster_time) \in T
      BY Zenon DEF T
    <3> QED BY <3>2, <3>3
  <2>4. /\ start_time' \in Nat \ {0} /\ cluster_time' \in Nat /\ last_data_time' \in Nat
        /\ cluster_time' <= last_data_time' /\ heard' \subseteq opened
    BY <1>0, <1>2, <1>4
  <2>5. ASSUME NEW q, q \in Feeds(S), Fed(q), Readable(q.made), q.made # <<>>,
               Usual' => InOrder(q)
        PROVE  SoundInv'
    BY <1>1, <2>4, <2>5, FedStep
  <2>6. CASE start_time = 0
    <3>1. PICK q : q = start_playback(f, time)  OBVIOUS
    <3>2. Fed(q)  BY <1>4, <2>1, <2>6, <3>1
    <3>3. /\ f.made = <<>> /\ f.queue = <<>> /\ f.appended = <<>> /\ ~f.lost
          /\ f.updating = {}
      BY <2>2, <2>6 DEF SoundInv
    <3>4. /\ q \in Feeds(S) /\ q.made = First
          /\ ~full => InOrder(q)
      <4>1. time \in Nat  BY <1>2
      <4>2. Header \in S /\ Cluster(0) \in S /\ Block(0) \in S  BY <2>3
      <4> QED BY <1>0, <1>4, <2>3, <3>1, <3>3, <4>1, <4>2, StartPlayback
    <3>5. Readable(q.made) /\ q.made # <<>>
      BY <3>4, ReadFirst
    <3>6. Usual' => InOrder(q)  BY <1>1, <3>4 DEF Usual
    <3> QED BY <2>5, <3>2, <3>4, <3>5, <3>6
  <2>7. CASE start_time # 0
    <3>1. /\ f.made \in Seq(S) /\ Readable(f.made) /\ f.made # <<>>
          /\ cluster_time <= last_data_time
      <4>1. f.made \in Seq(S)  BY <2>3, FeedTypes
      <4> QED BY <2>2, <2>7, <4>1 DEF SoundInv
    <3>2. Usual' => Usual /\ InOrder(f) /\ source_buffer # None /\ ~full
      BY <1>1, <1>4, <2>1, <2>7 DEF Usual, SoundInv
    <3>3. CASE next
      <4>1. PICK q, k : q = new_cluster(f, time, k) /\ k = time - start_time - skipped
        OBVIOUS
      <4>2. Fed(q)  BY <1>4, <2>1, <2>7, <3>3, <4>1
      <4>3. ClusterMade(S, f, q, k)
        <5>1. time \in Nat /\ Cluster(k) \in S /\ Block(0) \in S /\ f \in Feeds(S)
          BY <1>2, <2>3, <4>1
        <5>2. source_buffer \in Nat  BY <1>0
        <5>3. ClusterMade(S, f, new_cluster(f, time, k), k)
          BY ONLY <5>1, <5>2, NewCluster
        <5> QED BY <4>1, <5>3
      <4>4. Readable(q.made) /\ q.made # <<>>
        <5>1. PICK m, b, c : m = f.made /\ b = Cluster(k) /\ c = Block(0)  OBVIOUS
        <5>2. 0 \in 0 .. MAX_CLUSTER_TIME - 1  BY SpiceClientAssumption
        <5>3. CanFollow(b) /\ CanFollow(c)
          BY <5>1, <5>2 DEF CanFollow, Cluster, Block
        <5>4. m \in Seq(S) /\ Readable(m) /\ m # <<>> /\ b \in S /\ c \in S
          BY <2>3, <3>1, <4>1, <5>1
        <5>5. PICK n : n = Append(m, b)  OBVIOUS
        <5>6. Readable(n) /\ n # <<>> /\ n \in Seq(S)
          BY ONLY <5>3, <5>4, <5>5, ReadOn
        <5>7. Readable(Append(n, c)) /\ Append(n, c) # <<>>
          BY ONLY <5>3, <5>4, <5>6, ReadOn
        <5> QED BY <4>3, <5>1, <5>5, <5>7 DEF ClusterMade
      <4> QED BY <2>5, <3>2, <4>2, <4>3, <4>4 DEF ClusterMade
    <3>4. CASE ~next
      <4>1. PICK q, b : q = Offer(f, b) /\ b = Block(time - cluster_time)  OBVIOUS
      <4>2. Fed(q)  BY <1>4, <2>1, <2>7, <3>4, <4>1 DEF simple_block
      <4>3. /\ q \in Feeds(S) /\ q.made = Append(f.made, b)
            /\ source_buffer # None /\ ~full /\ InOrder(f) => InOrder(q)
        <5>1. f \in Feeds(S) /\ b \in S  BY <2>3, <4>1
        <5>2. source_buffer \in Nat  BY <1>0
        <5> QED BY ONLY <4>1, <5>1, <5>2, Offered
      <4>4. b.what = "block" /\ b.time = time - cluster_time  BY <4>1 DEF Block
      <4>5. time - cluster_time \in 0 .. MAX_CLUSTER_TIME - 1
        <5>1. MAX_CLUSTER_TIME \in Nat  BY SpiceClientAssumption
        <5> QED BY <1>0, <1>2, <3>1, <3>4, <5>1
      <4>6. Readable(q.made) /\ q.made # <<>>
        <5>1. PICK m : m = f.made  OBVIOUS
        <5>2. m \in Seq(S) /\ Readable(m) /\ m # <<>> /\ b \in S
          BY <2>3, <3>1, <4>1, <5>1
        <5>3. CanFollow(b)  BY <4>4, <4>5 DEF CanFollow
        <5>4. Readable(Append(m, b)) /\ Append(m, b) # <<>>
          BY ONLY <5>2, <5>3, ReadOn
        <5> QED BY <4>3, <5>1, <5>4
      <4> QED BY <2>5, <3>2, <4>2, <4>3, <4>6
    <3> QED BY <3>3, <3>4
  <2> QED BY <2>6, <2>7
<1> QED BY <1>2, <1>3, <1>4

\* The sound before anything has come.
LEMMA SoundInit ==
  ASSUME Init
  PROVE  SoundInv
<1>1. Feed \in Feeds({})
  <2>1. /\ append_okay \in BOOLEAN /\ queue \in Seq({}) /\ appended \in Seq({})
        /\ made \in Seq({}) /\ updating \in SUBSET Nat /\ lost \in BOOLEAN
    BY EmptySeq DEF Init
  <2> QED BY <2>1 DEF Feed, Feeds
<1>2. Readable(made)  BY DEF Init, Readable
<1> QED BY <1>1, <1>2 DEF Init, SoundInv, Usual, None

\* Every step of the sound.
LEMMA SoundStep ==
  ASSUME SoundInv, Next
  PROVE  SoundInv'
BY SourceStep, AppendDoneStep, PlaybackDataStep DEF Next

\* A step of another part leaves the sound as it is.
LEMMA SoundKept ==
  ASSUME SoundInv, UNCHANGED pvars
  PROVE  SoundInv'
<1>1. Unfed /\ UNCHANGED <<opened, source_buffer, heard, full, start_time, cluster_time,
                           last_data_time>>
  BY DEF pvars, Unfed
<1>2. Usual' => Usual  BY <1>1 DEF Usual
<1> QED BY <1>1, <1>2, UnfedStep DEF SoundInv

\* What the invariant says of the feed and of the stream.
LEMMA SoundMeans ==
  ASSUME SoundInv
  PROVE  /\ FedInOrder /\ QueueIsServed
         /\ \A i \in DOMAIN made :
              /\ i = 1 <=> made[i].what = "header"
              /\ i = 2 => made[i].what = "cluster"
              /\ made[i].what = "block" => made[i].time \in 0 .. MAX_CLUSTER_TIME - 1
<1>1. FedInOrder /\ QueueIsServed
  BY DEF SoundInv, FedInOrder, QueueIsServed, InOrder, Feed
<1>2. ASSUME NEW i \in DOMAIN made
      PROVE  /\ i = 1 <=> made[i].what = "header"
             /\ i = 2 => made[i].what = "cluster"
             /\ made[i].what = "block" => made[i].time \in 0 .. MAX_CLUSTER_TIME - 1
  <2>1. PICK S : made \in Seq(S)  BY FeedTypes DEF SoundInv, Feed
  <2>2. i \in 1 .. Len(made) /\ Len(made) \in Nat /\ made # <<>>
    BY <1>2, <2>1, LenProperties, EmptySeq
  <2>3. Readable(made)  BY DEF SoundInv
  <2>4. CASE i = 1  BY <2>2, <2>3, <2>4 DEF Readable
  <2>5. CASE i # 1
    <3>1. i > 1  BY <2>2, <2>5
    <3>2. /\ made[i].what \in {"cluster", "block"}
          /\ made[i].what = "block" => made[i].time \in 0 .. MAX_CLUSTER_TIME - 1
          /\ i = 2 => made[i].what = "cluster"
      BY <2>2, <2>3, <3>1 DEF Readable
    <3> QED BY <2>5, <3>2
  <2> QED BY <2>4, <2>5
<1> QED BY <1>1, <1>2

-----------------------------------------------------------------------------
(* The stream below a channel. *)

\* A part of the stream as the server writes it.
StreamPart ==
  [part    : {"linkheader", "nomagic", "linkreply", "linkerror", "auth", "denied", "header", "body"},
   size    : Nat \ {0},
   message : Messages \cup {Wire!None},
   at      : Nat]

\* Where the first k parts of the stream end.
Upto(k) == IF k = 0 THEN 0 ELSE stream[k].at + stream[k].size

\* The parts lie one behind the other: two of the link, one of the ticket, then
\* headers, a body behind each that announces one.  h counts the headers.
PartFits(i, h) ==
  /\ stream[i].at = Upto(i - 1)
  /\ i = 1 => stream[i].size = LINK_HEADER
  /\ i = 2 => stream[i].size = LINK_REPLY
  /\ i = 3 => stream[i].size = AUTH_REPLY
  /\ i <= 3 => h[i] = 0 /\ (i >= 3 /\ i < Len(stream) => stream[i + 1].part = "header")
  /\ i > 3 => /\ stream[i].part \in {"header", "body"} /\ stream[i].message \in Messages
              /\ h[i] \in 1 .. Len(written) /\ stream[i].message = written[h[i]]
  /\ i > 3 /\ stream[i].part = "header" =>
       /\ stream[i].size = MINI_DATA /\ h[i] = h[i - 1] + 1
       /\ IF stream[i].message.size = 0
          THEN i < Len(stream) => stream[i + 1].part = "header"
          ELSE /\ i < Len(stream) /\ stream[i + 1].part = "body"
               /\ stream[i + 1].message = stream[i].message
  /\ i > 3 /\ stream[i].part = "body" =>
       /\ stream[i].size = stream[i].message.size /\ h[i] = h[i - 1]
       /\ i < Len(stream) => stream[i + 1].part = "header"

StreamInv(h) ==
  /\ stream \in Seq(StreamPart) /\ Len(stream) # 1
  /\ written \in Seq(Messages)
  /\ h \in [0 .. Len(stream) -> Nat] /\ h[0] = 0 /\ h[Len(stream)] = Len(written)
  /\ \A i \in 1 .. Len(stream) : PartFits(i, h)
  /\ \A i, j \in 1 .. Len(stream) : i < j => Upto(i) <= stream[j].at

\* A channel's connection and its reader, as process_inbound sees them.
ChannelConn ==
  [state    : {"connecting", "start", "link", "ticket", "ready", "error"},
   needed   : Nat,
   saved    : Messages \cup {Wire!None},
   buffers  : {<<>>} \cup {<<b>> : b \in Nat},
   consumed : Nat,
   handled  : Seq(Messages),
   window   : Nat,
   until    : Nat,
   replies  : Seq({"link", "ticket", "ack_sync", "pong", "ack", "error"}),
   unacked  : Nat,
   raised   : BOOLEAN]

\* What was handled is what was written, as far as it goes.
Handled(r) ==
  /\ Len(r.handled) <= Len(written)
  /\ \A j \in 1 .. Len(r.handled) : r.handled[j] = written[j]

\* The connection asks for the part behind the first k.
Expects(r, k, h) ==
  /\ r.consumed = Upto(k)
  /\ r.state # "ready" => r.saved = Wire!None /\ r.handled = <<>>
  /\ \/ r.state = "start" /\ k = 0 /\ r.needed = LINK_HEADER
     \/ r.state = "link" /\ k = 1 /\ r.needed = LINK_REPLY
     \/ r.state = "ticket" /\ k = 2 /\ r.needed = AUTH_REPLY
     \/ /\ r.state = "ready" /\ k >= 3 /\ r.saved = Wire!None
        /\ r.needed = MINI_DATA /\ Len(r.handled) = h[k]
        /\ k < Len(stream) => stream[k + 1].part = "header"
     \/ /\ r.state = "ready" /\ k >= 3 /\ r.saved # Wire!None
        /\ k < Len(stream) /\ stream[k + 1].part = "body" /\ stream[k + 1].message = r.saved
        /\ r.needed = stream[k + 1].size /\ Len(r.handled) + 1 = h[k]

Window(r) ==
  r.window > 0 => r.unacked < r.window /\ r.until \in 1 .. (r.window - r.unacked)

\* A connection whose link has begun is in step with the stream until it has
\* failed.
Steady(r, h) ==
  /\ r \in ChannelConn /\ Handled(r)
  /\ r.state # "connecting" /\ r.needed > 0
  /\ ~r.raised => Window(r)
  /\ ~r.raised /\ r.state # "error" => \E k \in 0 .. Len(stream) : Expects(r, k, h)

Held(parts) == IF parts = <<>> THEN 0 ELSE parts[1]

Stuck(r) == r.raised \/ r.buffers = <<>> \/ r.buffers[1] < r.needed

\* Every byte is in the reader, consumed, or on the wire, and what the reader
\* keeps is not a part yet.
WireInv ==
  \E h : /\ StreamInv(h)
         /\ wire \in Nat
         /\ \/ /\ state = "connecting" /\ stream = <<>> /\ written = <<>> /\ wire = 0 /\ needed = 0
               /\ Wire!Conn \in ChannelConn /\ buffers = <<>> /\ consumed = 0 /\ handled = <<>>
               /\ saved_msg_header = Wire!None /\ ack_window = 0 /\ ~raised
            \/ /\ Steady(Wire!Conn, h) /\ Stuck(Wire!Conn)
               /\ consumed + Held(buffers) + wire = Wire!End(stream)

\* The reader holds no more than was delivered.
Within(r, w, h) == Steady(r, h) /\ r.consumed + Held(r.buffers) + w = Wire!End(stream)

\* Every message has a size, and the one that sets a window has one.
LEMMA MessageKinds ==
  ASSUME NEW m \in Messages
  PROVE  /\ m.size \in Nat /\ m # Wire!None
         /\ m.kind = "set_ack" => m.window \in Nat
<1>1. Wire!None = [kind |-> "none", size |-> 0]
  BY DEF Wire!None
<1>2. CASE m \in {[kind |-> "plain", size |-> 0], [kind |-> "plain", size |-> 3],
                  [kind |-> "ping", size |-> 1], [kind |-> "raises", size |-> 1]}
  <2>1. m.size \in Nat /\ m.kind \in {"plain", "ping", "raises"}
    BY <1>2
  <2>2. Wire!None.kind = "none"
    BY <1>1
  <2> QED BY <2>1, <2>2
<1>3. CASE m \in {[kind |-> "set_ack", size |-> 1, window |-> w] : w \in Windows}
  <2>1. PICK w \in Windows : m = [kind |-> "set_ack", size |-> 1, window |-> w]
    BY <1>3
  <2>2. w \in Nat
    BY SpiceClientAssumption DEF SpiceClientAssumption
  <2>3. Wire!None.kind = "none"
    BY <1>1
  <2> QED BY <2>1, <2>2, <2>3
<1> QED BY <1>2, <1>3 DEF Messages

\* The units of the link are sizes.
LEMMA WireSizes ==
  {LINK_HEADER, LINK_REPLY, AUTH_REPLY, MINI_DATA} \subseteq Nat \ {0}
BY SpiceClientAssumption DEF SpiceClientAssumption

\* An answer changes nothing but the answers.
LEMMA Answers ==
  ASSUME NEW r \in ChannelConn,
         NEW what \in {"link", "ticket", "ack_sync", "pong", "ack", "error"}
  PROVE  /\ Wire!Reply(r, what) \in ChannelConn
         /\ \E q : Wire!Reply(r, what) = [r EXCEPT !.replies = q]
<1>1. PICK q : q = Append(r.replies, what)
  OBVIOUS
<1>2. q \in Seq({"link", "ticket", "ack_sync", "pong", "ack", "error"})
  BY <1>1, AppendProperties DEF ChannelConn
<1>3. Wire!Reply(r, what) = [r EXCEPT !.replies = q]
  BY <1>1 DEF Wire!Reply
<1>4. [r EXCEPT !.replies = q] \in ChannelConn
  BY <1>2 DEF ChannelConn
<1> QED BY <1>3, <1>4

\* A message is handled: it is appended, the reader is as it was, and unless the
\* handler raised, the window is kept.
HandledOne(s, r, m) ==
  /\ s \in ChannelConn
  /\ s.state = r.state /\ s.needed = r.needed /\ s.saved = r.saved
  /\ s.buffers = r.buffers /\ s.consumed = r.consumed
  /\ s.handled = Append(r.handled, m)
  /\ ~s.raised => Window(s)

\* process_message handles one message.
LEMMA Handles ==
  ASSUME NEW r \in ChannelConn, ~r.raised, Window(r), NEW m \in Messages
  PROVE  HandledOne(Wire!process_message(r, m), r, m)
<1>1. PICK h : h = Append(r.handled, m)
  OBVIOUS
<1>2. h \in Seq(Messages)
  BY <1>1, AppendProperties DEF ChannelConn
<1>3. PICK s : s = [r EXCEPT !.handled = h, !.unacked = r.unacked + 1]
  OBVIOUS
<1>4. /\ s \in ChannelConn /\ s.handled = h /\ s.unacked = r.unacked + 1 /\ ~s.raised
      /\ s.state = r.state /\ s.needed = r.needed /\ s.saved = r.saved
      /\ s.buffers = r.buffers /\ s.consumed = r.consumed
      /\ s.window = r.window /\ s.until = r.until
  <2>1. PICK n : n = r.unacked + 1
    OBVIOUS
  <2>2. n \in Nat
    BY <2>1 DEF ChannelConn
  <2>3. s = [r EXCEPT !.handled = h, !.unacked = n]
    BY <1>3, <2>1
  <2>4. s \in ChannelConn
    BY <1>2, <2>2, <2>3 DEF ChannelConn
  <2>5. /\ s.handled = h /\ s.unacked = n /\ s.raised = r.raised
        /\ s.state = r.state /\ s.needed = r.needed /\ s.saved = r.saved
        /\ s.buffers = r.buffers /\ s.consumed = r.consumed
        /\ s.window = r.window /\ s.until = r.until
    BY <2>3 DEF ChannelConn
  <2> QED BY <2>1, <2>4, <2>5
<1>5. Wire!process_message(r, m) =
        IF m.kind = "raises" THEN [s EXCEPT !.raised = TRUE]
        ELSE Wire!CountAck(Wire!process_common_messages(s, m), m)
  BY <1>1, <1>3 DEF Wire!process_message
<1>6. CASE m.kind = "raises"
  <2>1. PICK t : t = [s EXCEPT !.raised = TRUE]
    OBVIOUS
  <2>2. Wire!process_message(r, m) = t
    BY <1>5, <1>6, <2>1
  <2>3. HandledOne(t, r, m)
    BY <1>1, <1>4, <2>1 DEF ChannelConn, HandledOne
  <2> QED BY <2>2, <2>3
<1>7. CASE m.kind # "raises"
  <2>1. PICK t : t = Wire!process_common_messages(s, m)
    OBVIOUS
  <2>2. /\ t \in ChannelConn /\ t.handled = h /\ ~t.raised
        /\ t.state = r.state /\ t.needed = r.needed /\ t.saved = r.saved
        /\ t.buffers = r.buffers /\ t.consumed = r.consumed
        /\ \/ t.window = r.window /\ t.until = r.until /\ t.unacked = r.unacked + 1
           \/ t.until = t.window /\ t.unacked = 0
    <3>1. CASE m.kind = "set_ack"
      <4>1. PICK u : u = [s EXCEPT !.window = m.window, !.until = m.window, !.unacked = 0]
        OBVIOUS
      <4>2. /\ u \in ChannelConn /\ u.handled = h /\ ~u.raised
            /\ u.state = r.state /\ u.needed = r.needed /\ u.saved = r.saved
            /\ u.buffers = r.buffers /\ u.consumed = r.consumed
            /\ u.until = u.window /\ u.unacked = 0
        BY <1>4, <3>1, <4>1, MessageKinds DEF ChannelConn
      <4>3. t = Wire!Reply(u, "ack_sync")
        BY <2>1, <3>1, <4>1 DEF Wire!process_common_messages
      <4>4. PICK q : t = [u EXCEPT !.replies = q] /\ t \in ChannelConn
        BY <4>2, <4>3, Answers
      <4> QED BY <4>2, <4>4 DEF ChannelConn
    <3>2. CASE m.kind = "ping"
      <4>1. t = Wire!Reply(s, "pong")
        BY <2>1, <3>2 DEF Wire!process_common_messages
      <4>2. PICK q : t = [s EXCEPT !.replies = q] /\ t \in ChannelConn
        BY <1>4, <4>1, Answers
      <4> QED BY <1>4, <4>2 DEF ChannelConn
    <3>3. CASE m.kind # "set_ack" /\ m.kind # "ping"
      <4>1. t = s
        BY <2>1, <3>3 DEF Wire!process_common_messages
      <4> QED BY <1>4, <4>1
    <3> QED BY <3>1, <3>2, <3>3
  <2>3. PICK v : v = Wire!CountAck(t, m)
    OBVIOUS
  <2>4. /\ t.window \in Nat /\ t.until \in Nat /\ t.unacked \in Nat /\ r.unacked \in Nat
        /\ r.window \in Nat /\ r.until \in Nat
    BY <2>2 DEF ChannelConn
  <2>5. CASE t.window = 0
    <3>1. v = t
      BY <2>3, <2>5 DEF Wire!CountAck
    <3> QED BY <1>1, <1>5, <1>7, <2>1, <2>2, <2>3, <2>5, <3>1 DEF HandledOne, Window
  <2>6. CASE t.window # 0 /\ t.until - 1 <= 0
    <3>1. PICK u : u = Wire!Reply(t, "ack")
      OBVIOUS
    <3>2. PICK q : u = [t EXCEPT !.replies = q] /\ u \in ChannelConn
      BY <2>2, <3>1, Answers
    <3>3. v = [u EXCEPT !.until = t.window, !.unacked = 0]
      BY <2>3, <2>6, <3>1 DEF Wire!CountAck
    <3>4. /\ v \in ChannelConn /\ v.handled = h /\ ~v.raised
          /\ v.state = r.state /\ v.needed = r.needed /\ v.saved = r.saved
          /\ v.buffers = r.buffers /\ v.consumed = r.consumed
          /\ v.window = t.window /\ v.until = t.window /\ v.unacked = 0
      BY <2>2, <3>2, <3>3 DEF ChannelConn
    <3>5. Window(v)
      BY <2>4, <3>4 DEF Window
    <3> QED BY <1>1, <1>5, <1>7, <2>1, <2>3, <3>4, <3>5 DEF HandledOne
  <2>7. CASE t.window # 0 /\ ~(t.until - 1 <= 0)
    <3>1. v = [t EXCEPT !.until = t.until - 1]
      BY <2>3, <2>7 DEF Wire!CountAck
    <3>2. t.until - 1 \in Nat
      BY <2>4, <2>7
    <3>3. /\ v \in ChannelConn /\ v.handled = h /\ ~v.raised
          /\ v.state = r.state /\ v.needed = r.needed /\ v.saved = r.saved
          /\ v.buffers = r.buffers /\ v.consumed = r.consumed
          /\ v.window = t.window /\ v.until = t.until - 1 /\ v.unacked = t.unacked
      BY <2>2, <3>1, <3>2 DEF ChannelConn
    <3>4. Window(v)
      BY <2>2, <2>4, <2>7, <3>3 DEF Window
    <3> QED BY <1>1, <1>5, <1>7, <2>1, <2>3, <3>3, <3>4 DEF HandledOne
  <2> QED BY <2>5, <2>6, <2>7
<1> QED BY <1>6, <1>7

\* The parts of the stream have places and sizes.
LEMMA PartTyped ==
  ASSUME NEW h, StreamInv(h)
  PROVE  /\ Len(stream) \in Nat
         /\ \A i \in 1 .. Len(stream) :
              /\ stream[i] \in StreamPart /\ stream[i].size \in Nat \ {0}
              /\ stream[i].at \in Nat /\ Upto(i) = stream[i].at + stream[i].size
         /\ \A k \in 0 .. Len(stream) : Upto(k) \in Nat
         /\ Wire!End(stream) = Upto(Len(stream))
<1>1. stream \in Seq(StreamPart) /\ Len(stream) \in Nat
  BY DEF StreamInv
<1>2. ASSUME NEW i \in 1 .. Len(stream)
      PROVE  /\ stream[i] \in StreamPart /\ stream[i].size \in Nat \ {0}
             /\ stream[i].at \in Nat /\ Upto(i) = stream[i].at + stream[i].size
  <2>1. stream[i] \in StreamPart
    BY <1>1, ElementOfSeq
  <2> QED BY <2>1 DEF StreamPart, Upto
<1>3. ASSUME NEW k \in 0 .. Len(stream) PROVE Upto(k) \in Nat
  <2>1. CASE k = 0
    BY <2>1 DEF Upto
  <2>2. CASE k # 0
    <3>1. k \in 1 .. Len(stream)
      BY <1>1, <2>2
    <3> QED BY <1>2, <3>1
  <2> QED BY <2>1, <2>2
<1>4. Wire!End(stream) = Upto(Len(stream))
  <2>1. Len(stream) = 0 <=> stream = <<>>
    BY <1>1, EmptySeq
  <2> QED BY <2>1 DEF Wire!End, Wire!Last, Upto
<1> QED BY <1>1, <1>2, <1>3, <1>4

\* The reader finds the part that begins where it is.
LEMMA AtPart ==
  ASSUME NEW h, StreamInv(h), NEW k \in 0 .. Len(stream), k < Len(stream)
  PROVE  Wire!At(Upto(k), stream[k + 1].size) = stream[k + 1]
<1> DEFINE begins == {i \in DOMAIN stream :
                        stream[i].at = Upto(k) /\ stream[i].size = stream[k + 1].size}
<1>1. k + 1 \in 1 .. Len(stream) /\ DOMAIN stream = 1 .. Len(stream)
  BY PartTyped DEF StreamInv
<1>2. stream[k + 1].at = Upto(k)
  <2>1. PartFits(k + 1, h) /\ k + 1 - 1 = k
    BY <1>1 DEF StreamInv
  <2> QED BY <2>1 DEF PartFits
<1>3. k + 1 \in begins
  BY <1>1, <1>2
<1>4. ASSUME NEW i \in begins PROVE i = k + 1
  <2>1. /\ i \in 1 .. Len(stream) /\ stream[i].at = Upto(k)
        /\ i \in Int /\ k + 1 \in Int
    BY <1>1
  <2>2. CASE i < k + 1
    <3>1. Upto(i) <= stream[k + 1].at
      BY <1>1, <2>1, <2>2 DEF StreamInv
    <3> QED BY <1>1, <1>2, <2>1, <3>1, PartTyped
  <2>3. CASE k + 1 < i
    <3>1. Upto(k + 1) <= stream[i].at
      BY <1>1, <2>1, <2>3 DEF StreamInv
    <3> QED BY <1>1, <1>2, <2>1, <3>1, PartTyped
  <2> QED BY <2>1, <2>2, <2>3
<1>5. begins = {k + 1}
  BY <1>3, <1>4
<1>6. (CHOOSE i \in begins : TRUE) = k + 1
  BY <1>5
<1> QED BY <1>3, <1>6 DEF Wire!At

\* The next part has been written when its bytes have.
LEMMA NextWritten ==
  ASSUME NEW h, StreamInv(h), NEW r \in ChannelConn, NEW k \in 0 .. Len(stream), Expects(r, k, h),
         r.needed > 0, r.consumed + r.needed <= Wire!End(stream)
  PROVE  k < Len(stream) /\ r.needed = stream[k + 1].size /\ k + 1 \in 1 .. Len(stream)
<1>1. r.consumed = Upto(k) /\ r.needed \in Nat /\ Upto(k) \in Nat /\ Len(stream) \in Nat
  BY PartTyped DEF Expects, ChannelConn
<1>2. k < Len(stream)
  <2>1. k # Len(stream)
    BY <1>1, PartTyped
  <2> QED BY <1>1, <2>1
<1>3. k + 1 \in 1 .. Len(stream)
  BY <1>1, <1>2
<1>4. PartFits(k + 1, h)
  BY <1>3 DEF StreamInv
<1>5. r.needed = stream[k + 1].size
  <2>1. /\ k = 0 => stream[k + 1].size = LINK_HEADER
        /\ k = 1 => stream[k + 1].size = LINK_REPLY
        /\ k = 2 => stream[k + 1].size = AUTH_REPLY
        /\ k >= 3 /\ stream[k + 1].part = "header" => stream[k + 1].size = MINI_DATA
    BY <1>3, <1>4 DEF PartFits
  <2> QED BY <1>2, <2>1 DEF Expects
<1> QED BY <1>2, <1>3, <1>5

\* A part has been taken: the connection is still in step, what it consumed is
\* counted, and the reader's fragments are as they were.
PartTaken(s, r, h) ==
  Steady(s, h) /\ s.consumed = r.consumed + r.needed /\ s.buffers = r.buffers

\* The connection, moved behind a part.
Past(r) == [r EXCEPT !.consumed = @ + r.needed]

\* Nothing but the place changes.
LEMMA PastTyped ==
  ASSUME NEW r \in ChannelConn, NEW s, s = Past(r)
  PROVE  /\ s \in ChannelConn /\ s.consumed = r.consumed + r.needed
         /\ s.state = r.state /\ s.needed = r.needed /\ s.saved = r.saved
         /\ s.buffers = r.buffers /\ s.handled = r.handled /\ s.window = r.window
         /\ s.until = r.until /\ s.unacked = r.unacked /\ s.raised = r.raised
         /\ s.replies = r.replies
<1>1. PICK n : n = r.consumed + r.needed
  OBVIOUS
<1>2. n \in Nat /\ s = [r EXCEPT !.consumed = n]
  BY <1>1 DEF ChannelConn, Past
<1>3. s \in ChannelConn
  BY <1>2 DEF ChannelConn
<1>4. /\ s.consumed = n /\ s.state = r.state /\ s.needed = r.needed /\ s.saved = r.saved
      /\ s.buffers = r.buffers /\ s.handled = r.handled /\ s.window = r.window
      /\ s.until = r.until /\ s.unacked = r.unacked /\ s.raised = r.raised
      /\ s.replies = r.replies
  BY <1>2 DEF ChannelConn
<1> QED BY <1>1, <1>3, <1>4

\* A link that fails keeps what was handled.
LEMMA LinkFails ==
  ASSUME NEW h, NEW r, Steady(r, h), NEW s, s = Past(r)
  PROVE  PartTaken(Wire!Failed(s), r, h)
<1>1. /\ s \in ChannelConn /\ s.consumed = r.consumed + r.needed
      /\ s.needed = r.needed
      /\ s.buffers = r.buffers /\ s.handled = r.handled /\ s.window = r.window
      /\ s.until = r.until /\ s.unacked = r.unacked /\ s.raised = r.raised
  BY PastTyped DEF Steady
<1>2. PICK q : q = Append(s.replies, "error")
  OBVIOUS
<1>3. q \in Seq({"link", "ticket", "ack_sync", "pong", "ack", "error"})
  BY <1>1, <1>2, AppendProperties DEF ChannelConn
<1>4. PICK t : t = [s EXCEPT !.state = "error", !.replies = q]
  OBVIOUS
<1>5. t = Wire!Failed(s)
  BY <1>2, <1>4 DEF Wire!Failed
<1>6. t \in ChannelConn
  BY <1>1, <1>3, <1>4 DEF ChannelConn
<1>7. /\ t.state = "error" /\ t.needed = s.needed /\ t.consumed = s.consumed
      /\ t.buffers = s.buffers /\ t.handled = s.handled /\ t.window = s.window
      /\ t.until = s.until /\ t.unacked = s.unacked /\ t.raised = s.raised
  BY <1>1, <1>4 DEF ChannelConn
<1> HIDE DEF Past
<1>8. Steady(t, h)
  BY <1>1, <1>6, <1>7 DEF Steady, Window, Handled
<1> QED BY <1>1, <1>5, <1>7, <1>8 DEF PartTaken

\* The link goes one state further.
LEMMA LinkProceeds ==
  ASSUME NEW h, StreamInv(h), NEW r, Steady(r, h), ~r.raised, NEW s, s = Past(r),
         NEW k \in 0 .. Len(stream), Expects(r, k, h), k < Len(stream),
         r.needed = stream[k + 1].size,
         NEW to, NEW n, NEW q,
         q \in Seq({"link", "ticket", "ack_sync", "pong", "ack", "error"}),
         \/ r.state = "start" /\ to = "link" /\ n = LINK_REPLY
         \/ r.state = "link" /\ to = "ticket" /\ n = AUTH_REPLY
         \/ r.state = "ticket" /\ to = "ready" /\ n = MINI_DATA
  PROVE  PartTaken([s EXCEPT !.state = to, !.replies = q, !.needed = n], r, h)
<1>1. /\ s \in ChannelConn /\ s.consumed = r.consumed + r.needed
      /\ s.needed = r.needed /\ s.saved = r.saved
      /\ s.buffers = r.buffers /\ s.handled = r.handled /\ s.window = r.window
      /\ s.until = r.until /\ s.unacked = r.unacked /\ s.raised = r.raised
  BY PastTyped DEF Steady
<1>2. PICK t : t = [s EXCEPT !.state = to, !.replies = q, !.needed = n]
  OBVIOUS
<1>3. n \in Nat /\ n > 0 /\ to \in {"link", "ticket", "ready"}
  BY WireSizes
<1>4. t \in ChannelConn
  BY <1>1, <1>2, <1>3 DEF ChannelConn
<1>5. /\ t.state = to /\ t.needed = n /\ t.consumed = s.consumed /\ t.saved = s.saved
      /\ t.buffers = s.buffers /\ t.handled = s.handled /\ t.window = s.window
      /\ t.until = s.until /\ t.unacked = s.unacked /\ t.raised = s.raised
  BY <1>1, <1>2 DEF ChannelConn
<1>6. k + 1 \in 1 .. Len(stream) /\ k + 1 \in 0 .. Len(stream) /\ Len(stream) \in Nat
  BY PartTyped
<1>7. t.consumed = Upto(k + 1)
  <2>1. PartFits(k + 1, h) /\ k + 1 - 1 = k
    BY ONLY StreamInv(h), k \in 0 .. Len(stream), <1>6 DEF StreamInv
  <2>2. stream[k + 1].at = r.consumed
    BY <2>1 DEF PartFits, Expects
  <2>3. Upto(k + 1) = stream[k + 1].at + stream[k + 1].size
    BY <1>6, PartTyped
  <2> QED BY <1>1, <1>5, <2>2, <2>3
<1>8. \/ k = 0 /\ r.state = "start"
      \/ k = 1 /\ r.state = "link"
      \/ k = 2 /\ r.state = "ticket"
  BY DEF Expects
<1>9. t.saved = Wire!None /\ t.handled = <<>>
  BY <1>1, <1>5, <1>8 DEF Expects
<1>10. to = "ready" => /\ h[k + 1] = 0 /\ k + 1 = 3
                       /\ k + 1 < Len(stream) => stream[k + 2].part = "header"
  <2>1. PartFits(k + 1, h)
    BY <1>6 DEF StreamInv
  <2> QED BY <1>8, <2>1 DEF PartFits
<1>11. Expects(t, k + 1, h)
  BY <1>5, <1>7, <1>8, <1>9, <1>10 DEF Expects
<1> HIDE DEF Past
<1>12. Steady(t, h)
  BY <1>1, <1>3, <1>4, <1>5, <1>6, <1>11 DEF Steady, Window, Handled
<1> QED BY <1>1, <1>2, <1>5, <1>12 DEF PartTaken

\* A message that has arrived is handled, and the reader asks for a header.
LEMMA MessageTaken ==
  ASSUME NEW h, StreamInv(h), NEW r, Steady(r, h), ~r.raised, NEW s, s = Past(r),
         NEW k \in 0 .. Len(stream), Expects(r, k, h), k < Len(stream),
         r.needed = stream[k + 1].size, r.state = "ready",
         NEW m \in Messages, m = stream[k + 1].message,
         h[k + 1] = Len(r.handled) + 1, k + 1 < Len(stream) => stream[k + 2].part = "header",
         NEW t, t = Wire!Request(Wire!process_message(s, m), MINI_DATA),
         NEW u, u = IF r.saved = Wire!None THEN t ELSE Wire!SaveHeader(t, Wire!None)
  PROVE  PartTaken(u, r, h)
<1>1. /\ s \in ChannelConn /\ s.consumed = r.consumed + r.needed /\ s.state = "ready"
      /\ s.needed = r.needed /\ s.saved = r.saved
      /\ s.buffers = r.buffers /\ s.handled = r.handled /\ s.window = r.window
      /\ s.until = r.until /\ s.unacked = r.unacked /\ s.raised = r.raised
  BY PastTyped DEF Steady
<1> HIDE DEF Past
<1>2. PICK v : v = Wire!process_message(s, m)
  OBVIOUS
<1>3. HandledOne(v, s, m)
  <2>1. Window(s)
    BY <1>1 DEF Steady, Window
  <2> QED BY <1>1, <1>2, <2>1, Handles
<1>4. /\ k + 1 \in 1 .. Len(stream) /\ k + 1 \in 0 .. Len(stream) /\ Len(stream) \in Nat
      /\ k >= 3
  BY PartTyped DEF Expects
<1>5. PartFits(k + 1, h) /\ k + 1 - 1 = k
  BY ONLY StreamInv(h), k \in 0 .. Len(stream), <1>4 DEF StreamInv
<1>6. s.handled \in Seq(Messages) /\ Len(s.handled) \in Nat /\ v.handled = Append(s.handled, m)
  BY <1>1, <1>3 DEF HandledOne, ChannelConn
<1>7. /\ Len(v.handled) = Len(s.handled) + 1
      /\ v.handled[Len(s.handled) + 1] = m
      /\ \A j \in 1 .. Len(s.handled) : v.handled[j] = s.handled[j]
  BY ONLY <1>6, m \in Messages, AppendProperties
<1>8. Handled(v)
  <2>1. m = written[h[k + 1]] /\ h[k + 1] \in 1 .. Len(written)
    BY <1>4, <1>5 DEF PartFits
  <2>2. Handled(s)
    BY <1>1 DEF Steady, Handled
  <2>3. Len(written) \in Nat
    BY DEF StreamInv
  <2>4. h[k + 1] = Len(s.handled) + 1
    BY <1>1
  <2> QED BY ONLY <1>6, <1>7, <2>1, <2>2, <2>3, <2>4 DEF Handled
<1>9. CASE v.raised
  <2>1. u = v
    BY <1>2, <1>9 DEF Wire!Request, Wire!SaveHeader
  <2>2. Steady(v, h)
    BY <1>1, <1>3, <1>8, <1>9 DEF Steady, HandledOne
  <2> QED BY <1>1, <1>3, <2>1, <2>2 DEF PartTaken, HandledOne
<1>10. CASE ~v.raised
  <2>1. v.saved = r.saved /\ v \in ChannelConn
    BY <1>1, <1>3 DEF HandledOne
  <2>2. t = [v EXCEPT !.needed = MINI_DATA]
    BY <1>2, <1>10 DEF Wire!Request
  <2>3. MINI_DATA \in Nat /\ MINI_DATA > 0 /\ Wire!None \in Messages \cup {Wire!None}
    BY WireSizes
  <2>4. /\ t \in ChannelConn /\ t.needed = MINI_DATA /\ t.saved = v.saved /\ t.raised = v.raised
        /\ t.state = v.state /\ t.consumed = v.consumed /\ t.buffers = v.buffers
        /\ t.handled = v.handled /\ t.window = v.window /\ t.until = v.until
        /\ t.unacked = v.unacked
    BY <2>1, <2>2, <2>3 DEF ChannelConn
  <2>5. u = IF r.saved = Wire!None THEN t ELSE [t EXCEPT !.saved = Wire!None]
    BY <1>10, <2>4 DEF Wire!SaveHeader
  <2>6. /\ u \in ChannelConn /\ u.needed = MINI_DATA /\ u.saved = Wire!None
        /\ u.raised = v.raised
        /\ u.state = v.state /\ u.consumed = v.consumed /\ u.buffers = v.buffers
        /\ u.handled = v.handled /\ u.window = v.window /\ u.until = v.until
        /\ u.unacked = v.unacked
    <3>1. CASE r.saved = Wire!None
      BY <2>1, <2>4, <2>5, <3>1
    <3>2. CASE r.saved # Wire!None
      <4>1. PICK none \in Messages \cup {Wire!None} : none = Wire!None
        BY <2>3
      <4>2. u = [t EXCEPT !.saved = none]
        BY <2>5, <3>2, <4>1
      <4>3. u \in ChannelConn
        BY <2>4, <4>1, <4>2 DEF ChannelConn
      <4>4. /\ u.needed = t.needed /\ u.saved = none /\ u.raised = t.raised
            /\ u.state = t.state /\ u.consumed = t.consumed /\ u.buffers = t.buffers
            /\ u.handled = t.handled /\ u.window = t.window /\ u.until = t.until
            /\ u.unacked = t.unacked
        BY <2>4, <4>2 DEF ChannelConn
      <4> QED BY <2>4, <4>1, <4>3, <4>4
    <3> QED BY <3>1, <3>2
  <2>7. u.consumed = Upto(k + 1)
    <3>1. stream[k + 1].at = r.consumed
      BY <1>5 DEF PartFits, Expects
    <3>2. Upto(k + 1) = stream[k + 1].at + stream[k + 1].size
      BY <1>4, PartTyped
    <3> QED BY <1>1, <1>3, <2>6, <3>1, <3>2 DEF HandledOne
  <2>8. Expects(u, k + 1, h)
    BY <1>1, <1>3, <1>4, <1>7, <2>6, <2>7 DEF Expects, HandledOne
  <2>9. Window(u)
    BY <1>3, <1>10, <2>6 DEF HandledOne, Window
  <2>10. Handled(u)
    BY <1>8, <2>6 DEF Handled
  <2>11. Steady(u, h)
    BY <1>1, <1>3, <1>4, <2>3, <2>6, <2>8, <2>9, <2>10 DEF Steady, HandledOne
  <2> QED BY <1>1, <1>3, <2>6, <2>11 DEF PartTaken, HandledOne
<1> QED BY <1>9, <1>10

\* A header that announces a body is kept until the body is there.
LEMMA HeaderTaken ==
  ASSUME NEW h, StreamInv(h), NEW r, Steady(r, h), ~r.raised, NEW s, s = Past(r),
         NEW k \in 0 .. Len(stream), Expects(r, k, h), k < Len(stream),
         r.needed = stream[k + 1].size, r.state = "ready", r.saved = Wire!None,
         NEW m \in Messages, m = stream[k + 1].message, m.size # 0
  PROVE  PartTaken(Wire!SaveHeader(Wire!Request(s, m.size), m), r, h)
<1>1. /\ s \in ChannelConn /\ s.consumed = r.consumed + r.needed /\ s.state = "ready"
      /\ s.needed = r.needed /\ s.saved = r.saved
      /\ s.buffers = r.buffers /\ s.handled = r.handled /\ s.window = r.window
      /\ s.until = r.until /\ s.unacked = r.unacked /\ s.raised = r.raised
  BY PastTyped DEF Steady
<1> HIDE DEF Past
<1>2. /\ k + 1 \in 1 .. Len(stream) /\ k + 1 \in 0 .. Len(stream) /\ Len(stream) \in Nat
      /\ k >= 3 /\ stream[k + 1].part = "header" /\ Len(r.handled) = h[k]
  BY PartTyped DEF Expects
<1>3. PartFits(k + 1, h) /\ k + 1 - 1 = k
  BY ONLY StreamInv(h), k \in 0 .. Len(stream), <1>2 DEF StreamInv
<1>4. /\ k + 1 < Len(stream) /\ stream[k + 2].part = "body" /\ stream[k + 2].message = m
      /\ h[k + 1] = h[k] + 1 /\ stream[k + 1].at = Upto(k)
  BY <1>2, <1>3 DEF PartFits
<1>5. stream[k + 2].size = m.size
  <2>1. k + 2 \in 1 .. Len(stream) /\ k + 2 > 3
    BY <1>2, <1>4
  <2>2. PartFits(k + 2, h)
    BY ONLY StreamInv(h), <2>1 DEF StreamInv
  <2> QED BY <1>4, <2>1, <2>2 DEF PartFits
<1>6. PICK n : n = m.size
  OBVIOUS
<1>7. n \in Nat /\ n > 0 /\ m # Wire!None
  BY <1>6, MessageKinds
<1>8. PICK u : u = [s EXCEPT !.needed = n, !.saved = m]
  OBVIOUS
<1>9. u = Wire!SaveHeader(Wire!Request(s, m.size), m)
  <2>1. Wire!Request(s, m.size) = [s EXCEPT !.needed = n]
    BY <1>1, <1>6 DEF Wire!Request
  <2>2. ~[s EXCEPT !.needed = n].raised
    BY <1>1 DEF ChannelConn
  <2> QED BY <1>8, <2>1, <2>2 DEF Wire!SaveHeader
<1>10. u \in ChannelConn
  BY <1>1, <1>7, <1>8 DEF ChannelConn
<1>11. /\ u.needed = n /\ u.saved = m /\ u.raised = s.raised
       /\ u.state = s.state /\ u.consumed = s.consumed /\ u.buffers = s.buffers
       /\ u.handled = s.handled /\ u.window = s.window /\ u.until = s.until
       /\ u.unacked = s.unacked
  BY <1>1, <1>8 DEF ChannelConn
<1>12. u.consumed = Upto(k + 1)
  <2>1. Upto(k + 1) = stream[k + 1].at + stream[k + 1].size
    BY <1>2, PartTyped
  <2> QED BY <1>1, <1>4, <1>11, <2>1 DEF Expects
<1>13. Expects(u, k + 1, h)
  BY <1>1, <1>2, <1>4, <1>5, <1>6, <1>7, <1>11, <1>12 DEF Expects
<1>14. Window(u) /\ Handled(u)
  BY <1>1, <1>11 DEF Steady, Window, Handled
<1>15. Steady(u, h)
  BY <1>1, <1>2, <1>7, <1>10, <1>11, <1>13, <1>14 DEF Steady
<1> QED BY <1>1, <1>9, <1>11, <1>15 DEF PartTaken

\* Whatever the state, process_inbound takes the part the reader has cut.
LEMMA CallKeeps ==
  ASSUME NEW h, StreamInv(h), NEW r, Steady(r, h), ~r.raised,
         r.consumed + r.needed <= Wire!End(stream)
  PROVE  PartTaken(Wire!Call(r), r, h)
<1>1. PICK s : s = Past(r)
  OBVIOUS
<1>2. PICK p : p = Wire!At(r.consumed, r.needed)
  OBVIOUS
<1>3. Wire!Call(r) = Wire!process_inbound(s, p)
  BY <1>1, <1>2 DEF Wire!Call, Past
<1>4. /\ s \in ChannelConn /\ s.consumed = r.consumed + r.needed /\ s.state = r.state
      /\ s.needed = r.needed /\ s.saved = r.saved
      /\ s.buffers = r.buffers /\ s.handled = r.handled /\ s.window = r.window
      /\ s.until = r.until /\ s.unacked = r.unacked /\ s.raised = r.raised
  BY <1>1, PastTyped DEF Steady
<1>5. CASE r.state = "error"
  <2>1. Wire!process_inbound(s, p) = s
    BY <1>4, <1>5 DEF Wire!process_inbound
  <2>2. Steady(s, h)
    BY <1>4, <1>5 DEF Steady, Window, Handled
  <2> QED BY <1>3, <1>4, <2>1, <2>2 DEF PartTaken
<1>6. CASE r.state # "error"
  <2>1. PICK k \in 0 .. Len(stream) : Expects(r, k, h)
    BY <1>6 DEF Steady
  <2>2. r \in ChannelConn /\ r.needed > 0 /\ r.consumed = Upto(k)
    BY <2>1 DEF Steady, Expects
  <2>3. k < Len(stream) /\ r.needed = stream[k + 1].size /\ k + 1 \in 1 .. Len(stream)
    BY <2>1, <2>2, NextWritten
  <2>4. p = stream[k + 1]
    BY <1>2, <2>2, <2>3, AtPart
  <2>5. PartTaken(Wire!Failed(s), r, h)
    BY <1>1, LinkFails
  <2>6. \/ r.state = "start" \/ r.state = "link" \/ r.state = "ticket" \/ r.state = "ready"
    BY <2>1 DEF Expects
  <2>7. CASE r.state = "start"
    <3>1. CASE p.part # "linkheader"
      BY <1>3, <1>4, <2>5, <2>7, <3>1 DEF Wire!process_inbound
    <3>2. CASE p.part = "linkheader"
      <4>1. PICK q : q = s.replies
        OBVIOUS
      <4>2. q \in Seq({"link", "ticket", "ack_sync", "pong", "ack", "error"})
        BY <1>4, <4>1 DEF ChannelConn
      <4>3. PartTaken([s EXCEPT !.state = "link", !.replies = q, !.needed = LINK_REPLY], r, h)
        BY <1>1, <2>1, <2>3, <2>7, <4>2, LinkProceeds
      <4>4. [s EXCEPT !.state = "link", !.replies = q, !.needed = LINK_REPLY]
              = Wire!Request([s EXCEPT !.state = "link"], LINK_REPLY)
        BY <1>4, <4>1 DEF Wire!Request, ChannelConn
      <4> QED BY <1>3, <1>4, <2>7, <3>2, <4>3, <4>4 DEF Wire!process_inbound
    <3> QED BY <3>1, <3>2
  <2>8. CASE r.state = "link"
    <3>1. CASE p.part # "linkreply"
      BY <1>3, <1>4, <2>5, <2>8, <3>1 DEF Wire!process_inbound
    <3>2. CASE p.part = "linkreply"
      <4>1. PICK q : q = Append(s.replies, "ticket")
        OBVIOUS
      <4>2. q \in Seq({"link", "ticket", "ack_sync", "pong", "ack", "error"})
        BY <1>4, <4>1, AppendProperties DEF ChannelConn
      <4>3. PartTaken([s EXCEPT !.state = "ticket", !.replies = q, !.needed = AUTH_REPLY], r, h)
        BY <1>1, <2>1, <2>3, <2>8, <4>2, LinkProceeds
      <4>4. [s EXCEPT !.state = "ticket", !.replies = q, !.needed = AUTH_REPLY]
              = Wire!Request(Wire!Reply([s EXCEPT !.state = "ticket"], "ticket"), AUTH_REPLY)
        BY <1>4, <4>1 DEF Wire!Request, Wire!Reply, ChannelConn
      <4> QED BY <1>3, <1>4, <2>8, <3>2, <4>3, <4>4 DEF Wire!process_inbound
    <3> QED BY <3>1, <3>2
  <2>9. CASE r.state = "ticket"
    <3>1. CASE p.part # "auth"
      BY <1>3, <1>4, <2>5, <2>9, <3>1 DEF Wire!process_inbound
    <3>2. CASE p.part = "auth"
      <4>1. PICK q : q = s.replies
        OBVIOUS
      <4>2. q \in Seq({"link", "ticket", "ack_sync", "pong", "ack", "error"})
        BY <1>4, <4>1 DEF ChannelConn
      <4>3. PartTaken([s EXCEPT !.state = "ready", !.replies = q, !.needed = MINI_DATA], r, h)
        BY <1>1, <2>1, <2>3, <2>9, <4>2, LinkProceeds
      <4>4. [s EXCEPT !.state = "ready", !.replies = q, !.needed = MINI_DATA]
              = Wire!Request([s EXCEPT !.state = "ready"], MINI_DATA)
        BY <1>4, <4>1 DEF Wire!Request, ChannelConn
      <4> QED BY <1>3, <1>4, <2>9, <3>2, <4>3, <4>4 DEF Wire!process_inbound
    <3> QED BY <3>1, <3>2
  <2>10. CASE r.state = "ready"
    <3>1. Wire!Call(r) = Wire!process_ready(s, p)
      BY <1>3, <1>4, <2>10 DEF Wire!process_inbound
    <3>2. /\ k >= 3 /\ Len(stream) \in Nat
          /\ \/ r.saved = Wire!None /\ stream[k + 1].part = "header" /\ Len(r.handled) = h[k]
             \/ /\ r.saved # Wire!None /\ stream[k + 1].part = "body"
                /\ stream[k + 1].message = r.saved /\ Len(r.handled) + 1 = h[k]
      BY <2>1, <2>3, <2>10, PartTyped DEF Expects
    <3>3. PartFits(k + 1, h) /\ k + 1 - 1 = k /\ k + 1 > 3
      BY ONLY StreamInv(h), k \in 0 .. Len(stream), <2>3, <3>2 DEF StreamInv
    <3>4. PICK m : m = stream[k + 1].message
      OBVIOUS
    <3>5. m \in Messages /\ m.size \in Nat
      BY <3>3, <3>4, MessageKinds DEF PartFits
    <3>6. CASE r.saved = Wire!None /\ m.size = 0
      <4>1. h[k + 1] = Len(r.handled) + 1 /\ (k + 1 < Len(stream) => stream[k + 2].part = "header")
        BY <3>2, <3>3, <3>4, <3>6 DEF PartFits
      <4>2. PICK t : t = Wire!Request(Wire!process_message(s, m), MINI_DATA)
        OBVIOUS
      <4>3. PartTaken(t, r, h)
        BY <1>1, <2>1, <2>3, <2>10, <3>4, <3>5, <3>6, <4>1, <4>2, MessageTaken
      <4> QED BY <1>4, <2>4, <3>1, <3>4, <3>6, <4>2, <4>3 DEF Wire!process_ready
    <3>7. CASE r.saved = Wire!None /\ m.size # 0
      <4>1. PartTaken(Wire!SaveHeader(Wire!Request(s, m.size), m), r, h)
        BY <1>1, <2>1, <2>3, <2>10, <3>4, <3>5, <3>7, HeaderTaken
      <4> QED BY <1>4, <2>4, <3>1, <3>4, <3>7, <4>1 DEF Wire!process_ready
    <3>8. CASE r.saved # Wire!None
      <4>1. /\ h[k + 1] = Len(r.handled) + 1 /\ (k + 1 < Len(stream) => stream[k + 2].part = "header")
            /\ m = r.saved
        BY <3>2, <3>3, <3>4, <3>8 DEF PartFits
      <4>2. PICK t : t = Wire!Request(Wire!process_message(s, m), MINI_DATA)
        OBVIOUS
      <4>3. PICK u : u = Wire!SaveHeader(t, Wire!None)
        OBVIOUS
      <4>4. PartTaken(u, r, h)
        BY <1>1, <2>1, <2>3, <2>10, <3>4, <3>5, <3>8, <4>1, <4>2, <4>3, MessageTaken
      <4> QED BY <1>4, <3>1, <3>8, <4>1, <4>2, <4>3, <4>4 DEF Wire!process_ready
    <3> QED BY <3>6, <3>7, <3>8
  <2> QED BY <2>6, <2>7, <2>8, <2>9, <2>10
<1> QED BY <1>5, <1>6

\* A turn takes the part that is complete, or nothing.
Turned(s, r, w, h) ==
  /\ Within(s, w, h)
  /\ IF Stuck(r) THEN s = r ELSE s.consumed = r.consumed + r.needed

\* A turn of the loop keeps the connection in step.
LEMMA TurnKeeps ==
  ASSUME NEW h, StreamInv(h), NEW w \in Nat, NEW r, Within(r, w, h)
  PROVE  Turned(Wire!Turn(r), r, w, h)
<1>1. r \in ChannelConn /\ Steady(r, h) /\ r.consumed + Held(r.buffers) + w = Wire!End(stream)
  BY DEF Within, Steady
<1>2. CASE r.buffers = <<>>
  BY <1>2 DEF Wire!Turn, Stuck, Turned
<1>3. CASE r.buffers # <<>>
  <2>1. PICK b \in Nat : r.buffers = <<b>>
    BY <1>1, <1>3 DEF ChannelConn
  <2>2. /\ Head(r.buffers) = b /\ r.buffers[1] = b /\ Tail(r.buffers) = <<>>
        /\ r.buffers # <<>> /\ Held(r.buffers) = b
    BY <1>3, <2>1 DEF Held
  <2>3. CASE r.raised \/ b < r.needed
    <3>1. Wire!Turn(r) = r /\ Stuck(r)
      BY <2>2, <2>3 DEF Wire!Turn, Stuck
    <3> QED BY <3>1 DEF Turned
  <2>4. CASE ~r.raised /\ ~(b < r.needed)
    <3>1. PICK parts : parts = Wire!Rest(b, r.needed)
      OBVIOUS
    <3>2. r.needed \in Nat /\ r.consumed \in Nat /\ b - r.needed \in Nat
      BY <1>1, <2>4 DEF ChannelConn
    <3>3. /\ parts \in {<<>>} \cup {<<c>> : c \in Nat} /\ Held(parts) = b - r.needed
          /\ parts \o <<>> = parts
      <4>1. CASE b > r.needed
        BY <3>1, <3>2, <4>1 DEF Wire!Rest, Held
      <4>2. CASE ~(b > r.needed)
        BY <3>1, <3>2, <4>2 DEF Wire!Rest, Held
      <4> QED BY <4>1, <4>2
    <3>4. PICK s : s = [r EXCEPT !.buffers = parts]
      OBVIOUS
    <3>5. s \in ChannelConn
      BY <1>1, <3>3, <3>4 DEF ChannelConn
    <3>6. /\ s.buffers = parts /\ s.state = r.state /\ s.needed = r.needed /\ s.saved = r.saved
          /\ s.consumed = r.consumed /\ s.handled = r.handled /\ s.window = r.window
          /\ s.until = r.until /\ s.unacked = r.unacked /\ s.raised = r.raised
      BY <1>1, <3>4 DEF ChannelConn
    <3>7. Steady(s, h)
      BY <1>1, <3>5, <3>6 DEF Steady, Window, Handled, Expects
    <3>8. Wire!Turn(r) = Wire!Call(s)
      <4>1. Wire!Turn(r) = Wire!Call([r EXCEPT !.buffers = Wire!Rest(Head(@), r.needed) \o Tail(@)])
        BY <2>2, <2>4 DEF Wire!Turn
      <4>2. [r EXCEPT !.buffers = Wire!Rest(Head(@), r.needed) \o Tail(@)]
              = [r EXCEPT !.buffers = Wire!Rest(Head(r.buffers), r.needed) \o Tail(r.buffers)]
        OBVIOUS
      <4>3. Wire!Rest(Head(r.buffers), r.needed) \o Tail(r.buffers) = parts
        BY <2>2, <3>1, <3>3
      <4> QED BY <3>4, <4>1, <4>2, <4>3
    <3>9. s.consumed + s.needed <= Wire!End(stream)
      BY <1>1, <2>2, <3>2, <3>6
    <3>10. PartTaken(Wire!Call(s), s, h)
      BY <2>4, <3>6, <3>7, <3>9, CallKeeps
    <3>11. PICK t : t = Wire!Call(s)
      OBVIOUS
    <3>12. t.consumed + Held(t.buffers) + w = Wire!End(stream)
      <4>1. t.consumed = r.consumed + r.needed /\ Held(t.buffers) = b - r.needed
        BY <3>3, <3>6, <3>10, <3>11 DEF PartTaken
      <4> QED BY <1>1, <2>2, <3>2, <4>1
    <3>13. ~Stuck(r)
      BY <2>2, <2>4 DEF Stuck
    <3> QED BY <3>6, <3>8, <3>10, <3>11, <3>12, <3>13 DEF Turned, Within, PartTaken
  <2> QED BY <2>3, <2>4
<1> QED BY <1>2, <1>3

\* The turns of a loop of n.
Turns(f, n, r) ==
  f = [turn \in 0 .. n |-> IF turn = 0 THEN r ELSE Wire!Turn(f[turn - 1])]

\* There is a function that takes the turns.
LEMMA TurnsExist ==
  ASSUME NEW n \in Nat, NEW r
  PROVE  \E f : Turns(f, n, r)
<1> DEFINE I == {e \in Nat : ~\E f : Turns(f, e, r)}
<1> SUFFICES ASSUME I # {} PROVE FALSE
  OBVIOUS
<1>1. PICK e \in I : \A m \in I : e <= m
  <2>1. I \subseteq Nat /\ I # {}
    OBVIOUS
  <2> HIDE DEF I
  <2> QED BY <2>1, LeastNat
<1>2. e \in Nat /\ ~\E f : Turns(f, e, r)
  OBVIOUS
<1>3. CASE e = 0
  <2> DEFINE f == [turn \in 0 .. 0 |-> r]
  <2>1. f = [turn \in 0 .. 0 |-> IF turn = 0 THEN r ELSE Wire!Turn(f[turn - 1])]
    <3>1. \A turn \in 0 .. 0 : turn = 0
      OBVIOUS
    <3> QED BY <3>1
  <2> QED BY <1>2, <1>3, <2>1 DEF Turns
<1>4. CASE e # 0
  <2>1. e - 1 \in Nat /\ e - 1 \notin I
    <3>1. e - 1 \in Nat /\ ~(e <= e - 1)
      BY ONLY <1>2, <1>4
    <3> HIDE DEF I
    <3> QED BY ONLY <1>1, <3>1
  <2>2. PICK g : Turns(g, e - 1, r)
    BY <2>1
  <2> DEFINE f == [turn \in 0 .. e |-> IF turn = e THEN Wire!Turn(g[e - 1]) ELSE g[turn]]
             k == [turn \in 0 .. e |-> IF turn = 0 THEN r ELSE Wire!Turn(f[turn - 1])]
  <2>3. ASSUME NEW i \in 0 .. e PROVE f[i] = k[i]
    <3>1. i \in Int /\ e \in Int /\ e > 0 /\ i >= 0 /\ i <= e
      BY <1>2, <1>4
    <3>2. CASE i = e
      <4>1. e - 1 \in 0 .. e /\ e - 1 # e /\ e # 0
        BY <3>1
      <4>2. f[e - 1] = g[e - 1]
        BY <4>1
      <4> QED BY <3>2, <4>1, <4>2
    <3>3. CASE i # e /\ i # 0
      <4>1. i - 1 \in 0 .. e /\ i - 1 # e /\ i \in 0 .. (e - 1)
        BY <3>1, <3>3
      <4>2. g[i] = Wire!Turn(g[i - 1])
        BY <2>2, <3>3, <4>1 DEF Turns
      <4> QED BY <3>3, <4>1, <4>2
    <3>4. CASE i = 0
      <4>1. 0 \in 0 .. (e - 1) /\ 0 # e
        BY <3>1
      <4>2. g[0] = r
        BY <2>2, <4>1 DEF Turns
      <4> QED BY <3>4, <4>1, <4>2
    <3> QED BY <3>2, <3>3, <3>4
  <2>4. f = k
    BY <2>3
  <2>5. Turns(f, e, r)
    BY <2>4 DEF Turns
  <2> QED BY <1>2, <2>5
<1> QED BY <1>3, <1>4

\* The loop ends when nothing complete is left, or something raised.
LEMMA DrainKeeps ==
  ASSUME NEW h, StreamInv(h), NEW w \in Nat, NEW r, Within(r, w, h)
  PROVE  Within(Wire!Drain(r), w, h) /\ Stuck(Wire!Drain(r))
<1>1. PICK n : n = Wire!End(stream)
  OBVIOUS
<1>2. n \in Nat
  <2>1. Len(stream) \in 0 .. Len(stream)
    BY PartTyped
  <2> QED BY <1>1, <2>1, PartTyped
<1>3. PICK f : Turns(f, n, r) /\ Wire!Drain(r) = f[n]
  <2>1. PICK f : f = CHOOSE g : g = [turn \in 0 .. n |-> IF turn = 0 THEN r
                                                         ELSE Wire!Turn(g[turn - 1])]
    OBVIOUS
  <2>2. Turns(f, n, r)
    <3>1. PICK g : Turns(g, n, r)
      BY <1>2, TurnsExist
    <3>2. g = [turn \in 0 .. n |-> IF turn = 0 THEN r ELSE Wire!Turn(g[turn - 1])]
      BY <3>1 DEF Turns
    <3>3. f = [turn \in 0 .. n |-> IF turn = 0 THEN r ELSE Wire!Turn(f[turn - 1])]
      BY ONLY <2>1, <3>2, Zenon
    <3> QED BY <3>3 DEF Turns
  <2>3. Wire!Drain(r) = f[n]
    BY <1>1, <2>1 DEF Wire!Drain
  <2> QED BY <2>2, <2>3
<1>4. /\ f[0] = r
      /\ \A turn \in 1 .. n : f[turn] = Wire!Turn(f[turn - 1])
  BY <1>2, <1>3 DEF Turns
<1> DEFINE Fine(i) == Within(f[i], w, h) /\ (Stuck(f[i]) \/ i <= f[i].consumed)
           I == {i \in 0 .. n : ~Fine(i)}
<1>5. ASSUME NEW i \in 1 .. n, Fine(i - 1) PROVE Fine(i)
  <2>1. PICK s : s = f[i - 1]
    OBVIOUS
  <2>2. Within(s, w, h) /\ (Stuck(s) \/ i - 1 <= s.consumed) /\ f[i] = Wire!Turn(s)
    BY <1>4, <1>5, <2>1
  <2>3. Turned(f[i], s, w, h)
    BY <2>2, TurnKeeps
  <2>4. CASE Stuck(s)
    BY <2>3, <2>4 DEF Turned
  <2>5. CASE ~Stuck(s)
    <3>1. s.consumed \in Nat /\ s.needed \in Nat /\ s.needed > 0
      BY <2>2 DEF Within, Steady, ChannelConn
    <3> QED BY <2>2, <2>3, <2>5, <3>1 DEF Turned
  <2> QED BY <2>4, <2>5
<1>6. Fine(0)
  BY <1>4 DEF Within, Steady, ChannelConn
<1> HIDE DEF Fine
<1>7. I = {}
  <2> SUFFICES ASSUME I # {} PROVE FALSE
    OBVIOUS
  <2>1. PICK i \in I : \A m \in I : i <= m
    <3>1. I \subseteq Nat /\ I # {}
      BY <1>2
    <3> HIDE DEF I
    <3> QED BY <3>1, LeastNat
  <2>2. i \in 0 .. n /\ ~Fine(i) /\ i # 0
    BY <1>6
  <2>3. i \in 1 .. n /\ i - 1 \in 0 .. n /\ ~(i <= i - 1)
    BY <1>2, <2>2
  <2>4. i - 1 \notin I
    <3> HIDE DEF I
    <3> QED BY <2>1, <2>3
  <2>5. Fine(i - 1)
    BY <2>3, <2>4
  <2> QED BY <1>5, <2>2, <2>3, <2>5
<1>8. Fine(n)
  <2>1. n \in 0 .. n /\ n \notin I
    BY <1>2, <1>7
  <2> QED BY <2>1
<1>9. Within(f[n], w, h) /\ (Stuck(f[n]) \/ n <= f[n].consumed)
  BY <1>8 DEF Fine
<1>10. Stuck(f[n])
  <2> SUFFICES ASSUME ~Stuck(f[n]) PROVE FALSE
    OBVIOUS
  <2>1. PICK s : s = f[n]
    OBVIOUS
  <2>2. PICK b \in Nat : s.buffers = <<b>>
    BY <1>9, <2>1 DEF Within, Steady, ChannelConn, Stuck
  <2>3. /\ s.needed \in Nat /\ s.consumed \in Nat /\ s.needed > 0 /\ ~(b < s.needed)
        /\ s.consumed + b + w = n /\ n <= s.consumed
    BY <1>1, <1>9, <2>1, <2>2 DEF Within, Steady, ChannelConn, Stuck, Held
  <2> QED BY ONLY <1>2, <2>3, w \in Nat, b \in Nat
<1> QED BY <1>3, <1>9, <1>10

\* Two fragments become one when the first is too short, and one is left alone.
LEMMA Combines ==
  /\ \A n : Wire!Combined(<<>>, n) = <<>>
  /\ \A n, a : Wire!Combined(<<a>>, n) = <<a>>
  /\ \A n, a, b, parts : Len(parts) = 2 /\ parts[1] = a /\ parts[2] = b /\ parts # <<>> /\ a < n =>
       Wire!Combined(parts, n) = <<a + b>>
<1>1. ASSUME NEW n PROVE Wire!Combined(<<>>, n) = <<>>
  BY DEF Wire!Combined
<1>2. ASSUME NEW n, NEW a PROVE Wire!Combined(<<a>>, n) = <<a>>
  <2>1. PICK parts : parts = <<a>>
    OBVIOUS
  <2> DEFINE Of(f) == f = [i \in 1 .. Len(parts) |->
                             IF i = 1 THEN <<parts[1]>>
                             ELSE IF Len(f[i - 1]) = 1 /\ f[i - 1][1] < n
                             THEN <<f[i - 1][1] + parts[i]>>
                             ELSE Append(f[i - 1], parts[i])]
  <2>2. PICK g : g = [i \in 1 .. 1 |-> <<a>>]
    OBVIOUS
  <2>3. Of(g)
    <3>1. Len(parts) = 1 /\ parts[1] = a /\ \A i \in 1 .. 1 : i = 1
      BY <2>1
    <3> QED BY <2>2, <3>1
  <2>4. PICK u : u = CHOOSE f : Of(f)
    OBVIOUS
  <2>5. Of(u)
    BY <2>3, <2>4
  <2>6. Wire!Combined(parts, n) = u[Len(parts)]
    <3>1. parts # <<>>
      BY <2>1
    <3> QED BY <2>4, <3>1, Zenon DEF Wire!Combined
  <2>7. Len(parts) = 1 /\ parts[1] = a /\ 1 \in 1 .. 1
    BY <2>1
  <2>8. u[1] = <<a>>
    BY <2>5, <2>7
  <2> QED BY <2>1, <2>6, <2>7, <2>8
<1>3. ASSUME NEW n, NEW a, NEW b, NEW parts, Len(parts) = 2, parts[1] = a, parts[2] = b,
             parts # <<>>, a < n
      PROVE  Wire!Combined(parts, n) = <<a + b>>
  <2>2. Len(parts) = 2 /\ parts[1] = a /\ parts[2] = b /\ parts # <<>>
    BY <1>3
  <2> DEFINE Of(f) == f = [i \in 1 .. Len(parts) |->
                             IF i = 1 THEN <<parts[1]>>
                             ELSE IF Len(f[i - 1]) = 1 /\ f[i - 1][1] < n
                             THEN <<f[i - 1][1] + parts[i]>>
                             ELSE Append(f[i - 1], parts[i])]
  <2>3. PICK one : one = <<a>> /\ Len(one) = 1 /\ one[1] = a
    <3>1. Len(<<a>>) = 1 /\ <<a>>[1] = a
      OBVIOUS
    <3> QED BY <3>1, Zenon
  <2>4. PICK g : g = [i \in 1 .. 2 |-> IF i = 1 THEN one ELSE <<a + b>>]
    OBVIOUS
  <2>5. Of(g)
    <3>1. /\ g[1] = one /\ g[2] = <<a + b>>
          /\ \A i \in 1 .. 2 : i # 1 => i = 2 /\ i - 1 = 1
      BY <2>4
    <3> DEFINE k == [i \in 1 .. Len(parts) |->
                       IF i = 1 THEN <<parts[1]>>
                       ELSE IF Len(g[i - 1]) = 1 /\ g[i - 1][1] < n
                       THEN <<g[i - 1][1] + parts[i]>>
                       ELSE Append(g[i - 1], parts[i])]
    <3>2. ASSUME NEW i \in 1 .. 2 PROVE g[i] = k[i]
      <4>1. CASE i = 1
        BY <2>2, <2>3, <3>1, <4>1
      <4>2. CASE i # 1
        <5>1. i = 2 /\ g[i - 1] = one
          BY <3>1, <4>2
        <5> QED BY <1>3, <2>2, <2>3, <3>1, <4>2, <5>1
      <4> QED BY <4>1, <4>2
    <3> QED BY <2>2, <2>4, <3>2
  <2>6. PICK u : u = CHOOSE f : Of(f)
    OBVIOUS
  <2>7. Of(u)
    BY <2>5, <2>6
  <2>8. Wire!Combined(parts, n) = u[Len(parts)]
    BY <2>2, <2>6, Zenon DEF Wire!Combined
  <2>9. u[1] = one
    BY <2>2, <2>3, <2>7
  <2>10. u[2] = <<a + b>>
    <3>1. 2 \in 1 .. 2 /\ 2 # 1 /\ 2 - 1 = 1
      OBVIOUS
    <3> QED BY <1>3, <2>2, <2>3, <2>7, <2>9, <3>1
  <2> QED BY <2>2, <2>8, <2>10
<1> QED BY <1>1, <1>2, <1>3

\* The reader keeps its fragments in others without the connection noticing.
LEMMA Refilled ==
  ASSUME NEW h, NEW r, Steady(r, h), NEW parts \in {<<>>} \cup {<<b>> : b \in Nat},
         NEW s, s = [r EXCEPT !.buffers = parts]
  PROVE  /\ Steady(s, h) /\ s.buffers = parts /\ s.consumed = r.consumed
         /\ s.needed = r.needed /\ s.raised = r.raised
<1>1. r \in ChannelConn
  BY DEF Steady
<1>2. s \in ChannelConn
  BY <1>1 DEF ChannelConn
<1>3. /\ s.buffers = parts /\ s.state = r.state /\ s.needed = r.needed /\ s.saved = r.saved
      /\ s.consumed = r.consumed /\ s.handled = r.handled /\ s.window = r.window
      /\ s.until = r.until /\ s.unacked = r.unacked /\ s.raised = r.raised
  BY <1>1 DEF ChannelConn
<1> QED BY <1>2, <1>3 DEF Steady, Window, Handled, Expects

\* n bytes of the w on the wire arrive.
LEMMA InboundKeeps ==
  ASSUME NEW h, StreamInv(h), NEW w \in Nat, NEW r, Within(r, w, h), Stuck(r), ~r.raised,
         NEW n \in 1 .. w
  PROVE  Within(Wire!inbound(r, n), w - n, h) /\ Stuck(Wire!inbound(r, n))
<1>1. /\ r \in ChannelConn /\ Steady(r, h) /\ r.needed \in Nat /\ r.needed > 0
      /\ r.consumed \in Nat /\ n \in Nat /\ w - n \in Nat
      /\ r.consumed + Held(r.buffers) + w = Wire!End(stream)
      /\ Wire!End(stream) \in Nat
  <2>1. Len(stream) \in 0 .. Len(stream)
    BY PartTyped
  <2> QED BY <2>1, PartTyped DEF Within, Steady, ChannelConn
<1>2. CASE r.buffers = <<>> /\ n >= r.needed
  <2>1. PICK parts : parts = Wire!Rest(n, r.needed)
    OBVIOUS
  <2>2. parts \in {<<>>} \cup {<<b>> : b \in Nat} /\ Held(parts) = n - r.needed
    <3>1. n - r.needed \in Nat
      BY <1>1, <1>2
    <3>2. CASE n > r.needed
      BY <2>1, <3>1, <3>2 DEF Wire!Rest, Held
    <3>3. CASE ~(n > r.needed)
      BY <1>1, <1>2, <2>1, <3>1, <3>3 DEF Wire!Rest, Held
    <3> QED BY <3>2, <3>3
  <2>3. PICK q : q = [r EXCEPT !.buffers = parts]
    OBVIOUS
  <2>4. /\ Steady(q, h) /\ q.buffers = parts /\ q.consumed = r.consumed
        /\ q.needed = r.needed /\ ~q.raised
    BY <1>1, <2>2, <2>3, Refilled
  <2>5. q.consumed + q.needed <= Wire!End(stream)
    <3>1. Held(r.buffers) = 0
      BY <1>2 DEF Held
    <3> QED BY <1>1, <1>2, <2>4, <3>1
  <2>6. PICK s : s = Wire!Call(q)
    OBVIOUS
  <2>7. PartTaken(s, q, h)
    BY <2>4, <2>5, <2>6, CallKeeps
  <2>8. Within(s, w - n, h)
    <3>1. Held(r.buffers) = 0 /\ s.consumed = r.consumed + r.needed /\ Held(s.buffers) = n - r.needed
      BY <1>2, <2>2, <2>4, <2>7 DEF Held, PartTaken
    <3> QED BY <1>1, <2>7, <3>1 DEF Within, PartTaken
  <2>9. /\ Wire!inbound(r, n) = IF s.raised THEN s
                                ELSE Wire!Drain([s EXCEPT !.buffers = Wire!Combined(@, s.needed)])
    BY <1>1, <1>2, <2>1, <2>3, <2>6 DEF Wire!inbound, Wire!Arrives, Wire!Gather
  <2>10. CASE s.raised
    BY <2>8, <2>9, <2>10 DEF Stuck
  <2>11. CASE ~s.raised
    <3>1. Wire!Combined(parts, s.needed) = parts
      BY <2>2, Combines
    <3>2. [s EXCEPT !.buffers = Wire!Combined(@, s.needed)] = s
      <4>1. s \in ChannelConn /\ s.buffers = parts
        BY <2>4, <2>7 DEF PartTaken, Steady
      <4> QED BY <3>1, <4>1 DEF ChannelConn
    <3> QED BY <1>1, <2>8, <2>9, <2>11, <3>2, DrainKeeps
  <2> QED BY <2>10, <2>11
<1>3. CASE ~(r.buffers = <<>> /\ n >= r.needed)
  <2>1. PICK parts : parts = Append(r.buffers, n)
    OBVIOUS
  <2>2. PICK s : s = [r EXCEPT !.buffers = parts]
    OBVIOUS
  <2>3. s.buffers = parts /\ s.needed = r.needed /\ ~s.raised
    BY <1>1, <2>2 DEF ChannelConn
  <2>4. Wire!inbound(r, n) = Wire!Drain([s EXCEPT !.buffers = Wire!Combined(parts, r.needed)])
    <3>1. [r EXCEPT !.buffers = Append(@, n)] = s
      BY <2>1, <2>2
    <3>2. Wire!inbound(r, n) = IF s.raised THEN s
                               ELSE Wire!Drain([s EXCEPT !.buffers = Wire!Combined(@, s.needed)])
      <4>1. r.needed # 0
        BY <1>1
      <4>2. Wire!Arrives(r, n) = s
        BY <1>3, <3>1 DEF Wire!Arrives
      <4> QED BY <4>1, <4>2 DEF Wire!inbound, Wire!Gather
    <3> QED BY <2>3, <3>2
  <2>5. PICK joined : joined = Wire!Combined(parts, r.needed)
    OBVIOUS
  <2>6. joined \in {<<>>} \cup {<<b>> : b \in Nat} /\ Held(joined) = Held(r.buffers) + n
    <3>1. CASE r.buffers = <<>>
      <4>1. parts = <<n>>
        BY <2>1, <3>1
      <4>2. joined = <<n>>
        BY <2>5, <4>1, Combines
      <4> QED BY <1>1, <3>1, <4>2 DEF Held
    <3>2. CASE r.buffers # <<>>
      <4>1. PICK b \in Nat : r.buffers = <<b>>
        BY <1>1, <3>2 DEF ChannelConn
      <4>2. b < r.needed
        <5>1. r.buffers[1] = b
          BY <4>1
        <5> QED BY <3>2, <5>1 DEF Stuck
      <4>3. Len(parts) = 2 /\ parts[1] = b /\ parts[2] = n /\ parts # <<>>
        <5>1. PICK q : q = r.buffers
          OBVIOUS
        <5>2. q \in Seq(Nat) /\ Len(q) = 1 /\ q[1] = b /\ n \in Nat
          BY <1>1, <4>1, <5>1
        <5>3. parts = Append(q, n)
          BY <2>1, <5>1
        <5>4. Len(parts) = 2 /\ parts[1] = b /\ parts[2] = n
          <6>1. /\ Len(parts) = Len(q) + 1 /\ parts[Len(q) + 1] = n
                /\ \A i \in 1 .. Len(q) : parts[i] = q[i]
            <7>1. PICK N : N = Nat
              OBVIOUS
            <7>2. q \in Seq(N) /\ n \in N
              BY ONLY <5>2, <7>1
            <7> QED BY ONLY <5>3, <7>2, AppendProperties
          <6> QED BY <5>2, <6>1
        <5> QED BY <5>4
      <4>4. joined = <<b + n>> /\ b + n \in Nat
        BY <1>1, <2>5, <4>2, <4>3, Combines
      <4> QED BY <3>2, <4>1, <4>4 DEF Held
    <3> QED BY <3>1, <3>2
  <2>7. PICK t : t = [r EXCEPT !.buffers = joined]
    OBVIOUS
  <2>8. [s EXCEPT !.buffers = joined] = t
    BY <1>1, <2>2, <2>7 DEF ChannelConn
  <2>9. Steady(t, h) /\ t.buffers = joined /\ t.consumed = r.consumed
    BY <1>1, <2>6, <2>7, Refilled
  <2>10. Within(t, w - n, h)
    <3>1. Held(r.buffers) \in Nat
      BY <1>1 DEF Held, ChannelConn
    <3> QED BY <1>1, <2>6, <2>9, <3>1 DEF Within
  <2> QED BY <1>1, <2>4, <2>5, <2>8, <2>10, DrainKeeps
<1> QED BY <1>2, <1>3

\* A part goes behind what has been written.
Longer(q, parts, p) ==
  /\ q \in Seq(StreamPart) /\ Len(q) = Len(parts) + 1 /\ Len(parts) \in Nat
  /\ \A i \in 1 .. Len(parts) : q[i] = parts[i]
  /\ q[Len(parts) + 1].at = Wire!End(parts) /\ q[Len(parts) + 1].size = p.size
  /\ q[Len(parts) + 1].part = p.part /\ q[Len(parts) + 1].message = p.message
  /\ Wire!End(q) = Wire!End(parts) + p.size /\ Wire!End(q) \in Nat

\* Behind appends one part.
LEMMA BehindOne ==
  ASSUME NEW parts \in Seq(StreamPart), NEW p \in StreamPart, Wire!End(parts) \in Nat,
         NEW q, q = Wire!Behind(parts, p)
  PROVE  Longer(q, parts, p)
<1>1. PICK e : e = [p EXCEPT !.at = Wire!End(parts)]
  OBVIOUS
<1>2. PICK n \in Nat : n = Wire!End(parts)
  OBVIOUS
<1>3. e = [p EXCEPT !.at = n]
  BY <1>1, <1>2
<1>4. e \in StreamPart
  BY <1>3 DEF StreamPart
<1>5. /\ e.at = n /\ e.size = p.size /\ e.part = p.part /\ e.message = p.message
      /\ p.size \in Nat
  BY <1>3 DEF StreamPart
<1>6. q = Append(parts, e)
  BY <1>1 DEF Wire!Behind
<1>7. /\ q \in Seq(StreamPart) /\ Len(q) = Len(parts) + 1 /\ q # <<>>
      /\ \A i \in 1 .. Len(parts) : q[i] = parts[i]
      /\ q[Len(parts) + 1] = e /\ Len(parts) \in Nat
  BY <1>4, <1>6, AppendProperties
<1>8. Wire!End(q) = q[Len(q)].at + q[Len(q)].size
  BY <1>7 DEF Wire!End, Wire!Last
<1> QED BY <1>2, <1>5, <1>7, <1>8 DEF Longer

\* What the server writes goes behind what it has written: one part or two.
Grown(g, h) ==
  /\ stream' \in Seq(StreamPart) /\ written' \in Seq(Messages)
  /\ Len(stream') \in Len(stream) + 1 .. Len(stream) + 2
  /\ \A i \in 1 .. Len(stream) : stream'[i] = stream[i]
  /\ Len(written') >= Len(written)
  /\ \A j \in 1 .. Len(written) : written'[j] = written[j]
  /\ g \in [0 .. Len(stream') -> Nat] /\ \A i \in 0 .. Len(stream) : g[i] = h[i]
  /\ Len(stream) >= 3 => stream'[Len(stream) + 1].part = "header"

\* A stream that has grown by parts that fit is a stream,
LEMMA StreamGrows ==
  ASSUME NEW h, StreamInv(h), NEW g, Grown(g, h),
         Len(stream') # 1, g[Len(stream')] = Len(written'),
         \A i \in Len(stream) + 1 .. Len(stream') : PartFits(i, g)'
  PROVE  StreamInv(g)'
<1>1. PICK n \in Nat : n = Len(stream)
  BY PartTyped
<1>2. PICK m \in Nat : m = Len(stream')
  BY DEF Grown
<1>3. m \in n + 1 .. n + 2
  BY <1>1, <1>2 DEF Grown
<1>4. ASSUME NEW i \in 1 .. m
      PROVE  /\ stream'[i].size \in Nat \ {0} /\ stream'[i].at \in Nat
             /\ Upto(i)' = stream'[i].at + stream'[i].size
  <2>1. stream'[i] \in StreamPart
    BY <1>2, ElementOfSeq DEF Grown
  <2> QED BY <2>1 DEF StreamPart, Upto
<1>5. ASSUME NEW i \in 1 .. n
      PROVE  stream'[i] = stream[i] /\ Upto(i)' = Upto(i) /\ PartFits(i, h)
  <2>1. stream'[i] = stream[i] /\ PartFits(i, h)
    BY <1>1 DEF Grown, StreamInv
  <2> QED BY <2>1 DEF Upto
<1>6. Len(written) \in Nat /\ Len(written') \in Nat /\ Len(written) <= Len(written')
  BY DEF Grown, StreamInv
<1>7. ASSUME NEW i \in 1 .. n PROVE PartFits(i, g)'
  <2>1. /\ i - 1 \in 0 .. n /\ i \in 0 .. n /\ i \in 1 .. m /\ i \in Nat
    BY <1>1, <1>3
  <2>2. g[i] = h[i] /\ g[i - 1] = h[i - 1]
    BY <1>1, <2>1 DEF Grown
  <2>3. Upto(i - 1)' = Upto(i - 1)
    <3>1. CASE i = 1
      BY <3>1 DEF Upto
    <3>2. CASE i # 1
      <4>1. i - 1 \in 1 .. n
        BY <2>1, <3>2
      <4> QED BY <1>5, <4>1
    <3> QED BY <3>1, <3>2
  <2>4. i < n => stream'[i + 1] = stream[i + 1]
    <3>1. i < n => i + 1 \in 1 .. n
      BY <1>1
    <3> QED BY <1>5, <3>1
  <2>5. i >= 3 /\ ~(i < n) => stream'[i + 1].part = "header"
    BY <1>1 DEF Grown
  <2>6. h[i] \in 1 .. Len(written) => written'[h[i]] = written[h[i]] /\ h[i] \in 1 .. Len(written')
    BY <1>6 DEF Grown
  <2>7. PartFits(i, h) /\ stream'[i] = stream[i]
    BY <1>5
  <2> QED BY ONLY <1>1, <1>2, <1>3, <2>1, <2>2, <2>3, <2>4, <2>5, <2>6, <2>7 DEF PartFits
<1>8. ASSUME NEW i \in 1 .. m PROVE PartFits(i, g)'
  BY <1>1, <1>2, <1>3, <1>7
<1>9. ASSUME NEW i \in 1 .. m, NEW j \in 1 .. m, i < j PROVE Upto(i)' <= stream'[j].at
  <2>1. CASE j <= n
    <3>1. i \in 1 .. n /\ j \in 1 .. n
      BY <1>1, <1>3, <1>9, <2>1
    <3>2. Upto(i) <= stream[j].at
      BY <1>1, <1>9, <3>1 DEF StreamInv
    <3> QED BY <1>5, <3>1, <3>2
  <2>2. ASSUME NEW k \in 1 .. m, k > n, k > 1 PROVE stream'[k].at = Upto(k - 1)'
    BY <1>8, <2>2 DEF PartFits
  <2>3. ASSUME NEW k \in 1 .. n PROVE Upto(k)' <= Upto(n)'
    <3>1. CASE k = n
      <4>1. Upto(k)' \in Nat
        BY <1>3, <1>4
      <4> QED BY <3>1, <4>1
    <3>2. CASE k # n
      <4>1. n \in 1 .. n /\ k < n
        BY <3>2
      <4>2. Upto(k) <= stream[n].at
        BY <1>1, <4>1 DEF StreamInv
      <4>3. Upto(n)' = stream'[n].at + stream'[n].size /\ stream'[n] = stream[n]
            /\ stream'[n].size \in Nat /\ stream'[n].at \in Nat /\ Upto(k)' = Upto(k)
            /\ Upto(k)' \in Nat
        <5>1. n \in 1 .. m /\ k \in 1 .. m
          BY ONLY <1>3, <4>1, n \in Nat, m \in Nat, k \in 1 .. n
        <5>2. stream'[n] = stream[n] /\ Upto(k)' = Upto(k)
          BY ONLY <1>5, <4>1, k \in 1 .. n
        <5>3. Upto(k)' = stream'[k].at + stream'[k].size
              /\ stream'[k].size \in Nat /\ stream'[k].at \in Nat
          BY ONLY <1>4, <5>1
        <5>4. Upto(n)' = stream'[n].at + stream'[n].size
              /\ stream'[n].size \in Nat /\ stream'[n].at \in Nat
          BY ONLY <1>4, <5>1
        <5>5. Upto(k)' \in Nat
          BY ONLY <5>3
        <5> QED BY <5>2, <5>4, <5>5
      <4> QED BY ONLY <4>2, <4>3
    <3> QED BY <3>1, <3>2
  <2>4. CASE j = n + 1
    <3>1. i \in 1 .. n /\ j > 1 /\ j - 1 = n
      BY <1>9, <2>4
    <3>2. stream'[j].at = Upto(n)'
      BY <2>2, <2>4, <3>1
    <3> QED BY <2>3, <3>1, <3>2
  <2>5. CASE j = n + 2
    <3>1. j > 1 /\ j - 1 = n + 1 /\ j > n /\ n + 1 \in 1 .. m
      BY <1>9, <2>5
    <3>2. stream'[j].at = Upto(n + 1)'
      BY <2>2, <3>1
    <3>3. /\ Upto(n + 1)' = stream'[n + 1].at + stream'[n + 1].size
          /\ stream'[n + 1].size \in Nat /\ stream'[n + 1].at \in Nat
      BY <1>4, <3>1
    <3>4. CASE i = n + 1
      BY <3>2, <3>3, <3>4
    <3>5. CASE i # n + 1
      <4>1. i \in 1 .. n /\ n + 1 > n /\ n + 1 > 1 /\ n + 1 - 1 = n
        BY <1>9, <2>5, <3>5
      <4>2. stream'[n + 1].at = Upto(n)'
        BY <2>2, <3>1, <4>1
      <4>3. Upto(i)' <= Upto(n)' /\ Upto(i)' \in Nat
        BY <1>4, <2>3, <4>1
      <4> QED BY <3>2, <3>3, <4>2, <4>3
    <3> QED BY <3>4, <3>5
  <2> QED BY <1>3, <2>1, <2>4, <2>5
<1>10. g[0] = 0
  <2>1. 0 \in 0 .. Len(stream)
    BY <1>1
  <2> QED BY <2>1 DEF Grown, StreamInv
<1> QED BY <1>2, <1>8, <1>9, <1>10 DEF StreamInv, Grown

\* The connection notices nothing of what is written,
LEMMA SteadyGrows ==
  ASSUME NEW h, StreamInv(h), NEW g, Grown(g, h), NEW r, Steady(r, h)
  PROVE  Steady(r, g)'
<1>1. PICK n \in Nat : n = Len(stream)
  BY PartTyped
<1>2. PICK m \in Nat : m = Len(stream')
  BY DEF Grown
<1>3. m \in n + 1 .. n + 2
  BY <1>1, <1>2 DEF Grown
<1>4. Handled(r)'
  <2>1. Len(written) \in Nat /\ Len(written') \in Nat /\ Len(written) <= Len(written')
    BY DEF Grown, StreamInv
  <2>2. Handled(r) /\ Len(r.handled) \in Nat
    BY DEF Steady, ChannelConn
  <2> QED BY <2>1, <2>2 DEF Handled, Grown
<1>5. ASSUME NEW k \in 0 .. n, Expects(r, k, h) PROVE Expects(r, k, g)'
  <2>1. g[k] = h[k]
    BY <1>1 DEF Grown
  <2>2. Upto(k)' = Upto(k)
    <3>1. CASE k = 0
      BY <3>1 DEF Upto
    <3>2. CASE k # 0
      <4>1. k \in 1 .. n
        BY <3>2
      <4>2. stream'[k] = stream[k]
        BY <1>1, <4>1 DEF Grown
      <4> QED BY <4>2 DEF Upto
    <3> QED BY <3>1, <3>2
  <2>3. k < n => stream'[k + 1] = stream[k + 1]
    <3>1. k < n => k + 1 \in 1 .. n
      BY <1>1
    <3> QED BY <1>1, <3>1 DEF Grown
  <2>4. k >= 3 /\ ~(k < n) => stream'[k + 1].part = "header"
    BY <1>1 DEF Grown
  <2>5. Expects(r, k, h)
    BY <1>5
  <2> QED BY ONLY <1>1, <1>2, <1>3, <2>1, <2>2, <2>3, <2>4, <2>5 DEF Expects
<1>6. ASSUME ~r.raised, r.state # "error" PROVE \E k \in 0 .. Len(stream') : Expects(r, k, g)'
  <2>1. PICK k \in 0 .. n : Expects(r, k, h)
    BY <1>1, <1>6 DEF Steady
  <2>2. k \in 0 .. m
    BY <1>3
  <2> QED BY <1>2, <1>5, <2>1, <2>2
<1> QED BY <1>4, <1>6 DEF Steady, Window

\* which keeps the invariant.
LEMMA ConnGrows ==
  ASSUME NEW h, StreamInv(h), wire \in Nat, Steady(Wire!Conn, h), Stuck(Wire!Conn),
         consumed + Held(buffers) + wire = Wire!End(stream),
         NEW g, Grown(g, h), StreamInv(g)', Wire!End(stream)' \in Nat,
         Wire!End(stream)' >= Wire!End(stream),
         wire' = wire + Wire!End(stream)' - Wire!End(stream),
         UNCHANGED <<state, needed, saved_msg_header, buffers, consumed, handled, ack_window,
                     msgs_until_ack, replies, unacked, raised>>
  PROVE  WireInv'
<1>1. PICK r : r = Wire!Conn
  OBVIOUS
<1>2. Wire!Conn' = r
  BY <1>1 DEF Wire!Conn
<1>3. Steady(r, g)'
  BY <1>1, SteadyGrows
<1>4. Steady(Wire!Conn, g)'
  BY <1>2, <1>3 DEF Steady, Handled, Window, Expects
<1>5. Stuck(Wire!Conn)'
  BY <1>1, <1>2 DEF Stuck
<1>6. consumed \in Nat /\ Held(buffers) \in Nat
  <2>1. Wire!Conn \in ChannelConn
    BY DEF Steady
  <2>2. Wire!Conn.consumed = consumed /\ Wire!Conn.buffers = buffers
    BY DEF Wire!Conn
  <2> QED BY <2>1, <2>2 DEF ChannelConn, Held
<1>7. Wire!End(stream) \in Nat
  <2>1. Len(stream) \in 0 .. Len(stream)
    BY PartTyped
  <2> QED BY <2>1, PartTyped
<1>8. PICK a \in Nat, b \in Nat, w \in Nat : a = Wire!End(stream) /\ b = Wire!End(stream)' /\ w = wire
  BY <1>7
<1>9. wire' = w + b - a /\ wire' \in Nat /\ consumed + Held(buffers) + w = a
  BY <1>8
<1>10. consumed' + Held(buffers') + wire' = Wire!End(stream)'
  BY <1>6, <1>8, <1>9
<1> QED BY <1>4, <1>5, <1>9, <1>10 DEF WireInv

\* Where a state other than "connecting" puts the invariant.
LEMMA Linked ==
  ASSUME WireInv, stream # <<>> \/ state # "connecting"
  PROVE  \E h : /\ StreamInv(h) /\ wire \in Nat /\ Steady(Wire!Conn, h) /\ Stuck(Wire!Conn)
                /\ consumed + Held(buffers) + wire = Wire!End(stream)
BY DEF WireInv

\* The parts of the server are parts.
LEMMA PartOf ==
  ASSUME NEW name \in {"linkheader", "nomagic", "linkreply", "linkerror", "auth", "denied",
                       "header", "body"},
         NEW n \in Nat \ {0}, NEW m \in Messages \cup {Wire!None},
         NEW p, p = Wire!Part(name, n, m)
  PROVE  p \in StreamPart /\ p.size = n /\ p.part = name /\ p.message = m
BY DEF Wire!Part, StreamPart

\* The server links,
LEMMA WireLinks ==
  ASSUME WireInv, Wire!ServerLinks
  PROVE  WireInv'
<1>1. PICK h : /\ StreamInv(h) /\ wire \in Nat /\ Steady(Wire!Conn, h) /\ Stuck(Wire!Conn)
               /\ consumed + Held(buffers) + wire = Wire!End(stream)
  BY Linked DEF Wire!ServerLinks
<1>2. PICK one \in {"nomagic", "linkheader"}, two \in {"linkreply", "linkerror"} :
        Wire!Wrote(Wire!Behind(Wire!Behind(stream, Wire!Part(one, LINK_HEADER, Wire!None)),
                               Wire!Part(two, LINK_REPLY, Wire!None)))
  BY DEF Wire!ServerLinks
<1>3. PICK p, q : p = Wire!Part(one, LINK_HEADER, Wire!None) /\ q = Wire!Part(two, LINK_REPLY, Wire!None)
  OBVIOUS
<1>4. /\ p \in StreamPart /\ p.size = LINK_HEADER /\ q \in StreamPart /\ q.size = LINK_REPLY
      /\ LINK_HEADER \in Nat /\ LINK_REPLY \in Nat
  BY <1>3, WireSizes, PartOf
<1>5. Len(stream) = 0 /\ stream \in Seq(StreamPart) /\ Wire!End(stream) = 0
  BY <1>1 DEF StreamInv, Wire!ServerLinks, Wire!End
<1>6. PICK s : s = Wire!Behind(stream, p)
  OBVIOUS
<1>7. /\ s \in Seq(StreamPart) /\ Len(s) = 1 /\ s[1].at = 0 /\ s[1].size = LINK_HEADER
      /\ Wire!End(s) = LINK_HEADER /\ Wire!End(s) \in Nat
  <2>1. Longer(s, stream, p)
    <3>1. Wire!End(stream) \in Nat
      BY <1>5
    <3> QED BY <1>4, <1>5, <1>6, <3>1, BehindOne
  <2> QED BY ONLY <1>4, <1>5, <2>1 DEF Longer
<1>8. stream' = Wire!Behind(s, q) /\ wire' = wire + Wire!End(stream') - Wire!End(stream)
      /\ written' = written
  BY <1>2, <1>3, <1>6 DEF Wire!Wrote, Wire!ServerLinks
<1>9. /\ stream' \in Seq(StreamPart) /\ Len(stream') = 2 /\ stream'[1] = s[1]
      /\ stream'[2].at = LINK_HEADER /\ stream'[2].size = LINK_REPLY /\ Wire!End(stream') \in Nat
  <2>1. Longer(stream', s, q)
    BY <1>4, <1>7, <1>8, BehindOne
  <2> QED BY ONLY <1>4, <1>7, <2>1 DEF Longer
<1>11. PICK g : g = [i \in 0 .. 2 |-> 0]
  OBVIOUS
<1>12. /\ written \in Seq(Messages) /\ Len(written) = 0 /\ h[0] = 0
  BY <1>1, <1>5 DEF StreamInv
<1>13. Grown(g, h)
  <2>1. \A i \in 0 .. 0 : i = 0
    OBVIOUS
  <2>2. Len(stream') \in 0 + 1 .. 0 + 2 /\ g \in [0 .. 2 -> Nat] /\ g[0] = 0
    BY <1>9, <1>11
  <2> QED BY <1>5, <1>9, <1>8, <1>12, <2>1, <2>2 DEF Grown
<1>14. ASSUME NEW i \in 1 .. 2 PROVE PartFits(i, g)'
  <2>1. Upto(0)' = 0 /\ Upto(1)' = LINK_HEADER
    BY <1>4, <1>7, <1>9, <1>8 DEF Upto
  <2>2. g[i] = 0
    BY <1>11
  <2>3. CASE i = 1
    BY <1>7, <1>9, <1>8, <2>1, <2>2, <2>3 DEF PartFits
  <2>4. CASE i = 2
    BY <1>9, <1>8, <2>1, <2>2, <2>4 DEF PartFits
  <2> QED BY <2>3, <2>4
<1>15. StreamInv(g)'
  <2>1. Len(stream') # 1 /\ g[Len(stream')] = Len(written')
    BY <1>9, <1>8, <1>11, <1>12
  <2>2. \A i \in Len(stream) + 1 .. Len(stream') : PartFits(i, g)'
    BY <1>5, <1>9, <1>8, <1>14
  <2> QED BY <1>1, <1>13, <2>1, <2>2, StreamGrows
<1>16. Wire!End(stream)' \in Nat /\ Wire!End(stream)' >= Wire!End(stream)
  BY <1>5, <1>9
<1> QED BY <1>1, <1>9, <1>8, <1>13, <1>15, <1>16, ConnGrows DEF Wire!ServerLinks

\* answers the ticket,
LEMMA WireAuthenticates ==
  ASSUME WireInv, Wire!ServerAuthenticates
  PROVE  WireInv'
<1>1. PICK h : /\ StreamInv(h) /\ wire \in Nat /\ Steady(Wire!Conn, h) /\ Stuck(Wire!Conn)
               /\ consumed + Held(buffers) + wire = Wire!End(stream)
  BY Linked DEF Wire!ServerAuthenticates
<1>2. PICK one \in {"auth", "denied"} :
        Wire!Wrote(Wire!Behind(stream, Wire!Part(one, AUTH_REPLY, Wire!None)))
  BY DEF Wire!ServerAuthenticates
<1>3. PICK p : p = Wire!Part(one, AUTH_REPLY, Wire!None)
  OBVIOUS
<1>4. p \in StreamPart /\ p.size = AUTH_REPLY /\ AUTH_REPLY \in Nat
  BY <1>3, WireSizes, PartOf
<1>5. Len(stream) = 2 /\ stream \in Seq(StreamPart) /\ Wire!End(stream) \in Nat
      /\ Wire!End(stream) = Upto(2)
  <2>1. Len(stream) = 2 /\ stream \in Seq(StreamPart)
    BY <1>1 DEF StreamInv, Wire!ServerAuthenticates
  <2>2. Len(stream) \in 0 .. Len(stream)
    BY <2>1
  <2> QED BY <1>1, <2>1, <2>2, PartTyped
<1>6. stream' = Wire!Behind(stream, p) /\ wire' = wire + Wire!End(stream') - Wire!End(stream)
      /\ written' = written
  BY <1>2, <1>3 DEF Wire!Wrote, Wire!ServerAuthenticates
<1>7. /\ stream' \in Seq(StreamPart) /\ Len(stream') = 3 /\ stream'[3].at = Wire!End(stream)
      /\ stream'[3].size = AUTH_REPLY /\ Wire!End(stream') = Wire!End(stream) + AUTH_REPLY
      /\ \A i \in 1 .. 2 : stream'[i] = stream[i]
  <2>1. Longer(stream', stream, p)
    BY <1>4, <1>5, <1>6, BehindOne
  <2> QED BY ONLY <1>4, <1>5, <2>1 DEF Longer
<1>9. written \in Seq(Messages) /\ Len(written) = 0 /\ h[2] = 0 /\ h \in [0 .. 2 -> Nat]
  <2>1. PartFits(2, h)
    BY <1>1, <1>5 DEF StreamInv
  <2> QED BY <1>1, <1>5, <2>1 DEF StreamInv, PartFits
<1>10. PICK g : g = [i \in 0 .. 3 |-> IF i <= 2 THEN h[i] ELSE 0]
  OBVIOUS
<1>11. g \in [0 .. 3 -> Nat] /\ g[3] = 0 /\ \A i \in 0 .. 2 : g[i] = h[i]
  BY <1>9, <1>10
<1>12. Grown(g, h)
  <2>1. Len(stream') \in 2 + 1 .. 2 + 2
    BY <1>7
  <2> QED BY <1>5, <1>7, <1>6, <1>9, <1>11, <2>1 DEF Grown
<1>13. PartFits(3, g)'
  <2>1. Upto(2)' = Upto(2)
    <3>1. 2 \in 1 .. 2
      OBVIOUS
    <3> QED BY <1>7, <1>6, <3>1 DEF Upto
  <2> QED BY <1>5, <1>7, <1>6, <1>11, <2>1 DEF PartFits
<1>14. StreamInv(g)'
  <2>1. Len(stream') # 1 /\ g[Len(stream')] = Len(written')
    BY <1>7, <1>6, <1>9, <1>11
  <2>2. \A i \in Len(stream) + 1 .. Len(stream') : PartFits(i, g)'
    <3>1. \A i \in 2 + 1 .. 3 : i = 3
      OBVIOUS
    <3> QED BY <1>5, <1>7, <1>6, <1>13, <3>1
  <2> QED BY <1>1, <1>12, <2>1, <2>2, StreamGrows
<1>15. Wire!End(stream)' >= Wire!End(stream) /\ Wire!End(stream)' \in Nat
  BY <1>4, <1>5, <1>7
<1> QED BY <1>1, <1>6, <1>12, <1>14, <1>15, ConnGrows DEF Wire!ServerAuthenticates

\* and sends a message, in one part or two.
LEMMA WireSends ==
  ASSUME WireInv, Wire!ServerSends
  PROVE  WireInv'
<1>1. PICK h : /\ StreamInv(h) /\ wire \in Nat /\ Steady(Wire!Conn, h) /\ Stuck(Wire!Conn)
               /\ consumed + Held(buffers) + wire = Wire!End(stream)
  <2>1. stream # <<>>
    BY DEF Wire!ServerSends
  <2> QED BY <2>1, Linked
<1>2. PICK m \in Messages :
        /\ LET header == Wire!Behind(stream, Wire!Part("header", MINI_DATA, m))
           IN  /\ Wire!Wrote(IF m.size = 0 THEN header
                             ELSE Wire!Behind(header, Wire!Part("body", m.size, m)))
               /\ written' = Append(written, m)
  BY DEF Wire!ServerSends
<1>3. m.size \in Nat
  BY MessageKinds
<1>4. PICK p : p = Wire!Part("header", MINI_DATA, m)
  OBVIOUS
<1>5. p \in StreamPart /\ p.size = MINI_DATA /\ p.part = "header" /\ p.message = m
  BY <1>4, WireSizes, PartOf
<1>6. PICK n \in Nat : n = Len(stream)
  BY <1>1, PartTyped
<1>7. n >= 3 /\ stream \in Seq(StreamPart) /\ Wire!End(stream) \in Nat /\ Wire!End(stream) = Upto(n)
  <2>1. n >= 3 /\ stream \in Seq(StreamPart)
    BY <1>1, <1>6 DEF StreamInv, Wire!ServerSends
  <2>2. n \in 0 .. Len(stream)
    BY <1>6
  <2> QED BY <1>1, <1>6, <2>1, <2>2, PartTyped
<1>8. PICK s : s = Wire!Behind(stream, p)
  OBVIOUS
<1>9. Longer(s, stream, p)
  BY <1>5, <1>7, <1>8, BehindOne
<1>10. /\ s \in Seq(StreamPart) /\ Len(s) = n + 1 /\ Wire!End(s) \in Nat
       /\ s[n + 1].at = Upto(n) /\ s[n + 1].size = MINI_DATA /\ s[n + 1].part = "header"
       /\ s[n + 1].message = m /\ Wire!End(s) = Wire!End(stream) + MINI_DATA
       /\ \A i \in 1 .. n : s[i] = stream[i]
  BY ONLY <1>5, <1>6, <1>7, <1>9 DEF Longer
<1>11. /\ written \in Seq(Messages) /\ h[n] = Len(written) /\ h \in [0 .. n -> Nat]
       /\ n \in 0 .. n
  BY <1>1, <1>6 DEF StreamInv
<1>12. PICK c \in Nat : c = Len(written)
  BY <1>11
<1>13. /\ written' \in Seq(Messages) /\ Len(written') = c + 1 /\ written'[c + 1] = m
       /\ \A j \in 1 .. c : written'[j] = written[j]
  <2>1. written' = Append(written, m)
    BY <1>2
  <2> QED BY ONLY <1>11, <1>12, <2>1, m \in Messages, AppendProperties
<1>14. wire' = wire + Wire!End(stream)' - Wire!End(stream)
  BY <1>2, Zenon DEF Wire!Wrote
<1>15. ASSUME NEW l \in n + 1 .. n + 2, Len(stream') = l, stream' \in Seq(StreamPart),
              \A i \in 1 .. n + 1 : stream'[i] = s[i],
              Wire!End(stream)' \in Nat, Wire!End(stream)' >= Wire!End(s),
              IF m.size = 0 THEN l = n + 1
              ELSE /\ l = n + 2 /\ stream'[n + 2].at = Wire!End(s) /\ stream'[n + 2].size = m.size
                   /\ stream'[n + 2].part = "body" /\ stream'[n + 2].message = m
       PROVE  WireInv'
  <2>1. PICK g : g = [i \in 0 .. l |-> IF i <= n THEN h[i] ELSE c + 1]
    OBVIOUS
  <2>2. /\ g \in [0 .. l -> Nat] /\ g[l] = c + 1 /\ g[n] = c /\ \A i \in 0 .. n : g[i] = h[i]
        /\ \A i \in n + 1 .. l : g[i] = c + 1
    <3>1. \A i \in 0 .. n : i \in 0 .. l /\ h[i] \in Nat
      BY <1>11, <1>15
    <3>2. l \in 0 .. l /\ ~(l <= n)
      BY <1>15
    <3>3. \A i \in n + 1 .. l : i \in 0 .. l /\ ~(i <= n)
      BY <1>15
    <3>4. \A i \in 0 .. l : i <= n => i \in 0 .. n
      BY <1>15
    <3>5. g \in [0 .. l -> Nat]
      BY <2>1, <3>1, <3>4
    <3> QED BY <1>11, <1>12, <2>1, <3>1, <3>2, <3>3, <3>5
  <2>3. \A i \in 1 .. n : stream'[i] = stream[i]
    BY <1>10, <1>15
  <2>4. stream'[n + 1] = s[n + 1]
    BY <1>15
  <2>5. Grown(g, h)
    BY <1>6, <1>7, <1>10, <1>12, <1>13, <1>15, <2>2, <2>3, <2>4 DEF Grown
  <2>6. Upto(n)' = Upto(n)
    <3>1. n \in 1 .. n /\ n # 0
      BY <1>7
    <3> QED BY <2>3, <3>1 DEF Upto
  <2>7. PartFits(n + 1, g)'
    <3>1. /\ n + 1 - 1 = n /\ n + 1 > 3 /\ n + 1 \in n + 1 .. l /\ g[n + 1] = c + 1
          /\ c + 1 \in 1 .. Len(written')
      BY <1>7, <1>13, <1>15, <2>2
    <3>2. m.size = 0 => ~(n + 1 < Len(stream'))
      BY <1>15
    <3>3. m.size # 0 => n + 1 < Len(stream') /\ stream'[n + 1 + 1].part = "body"
                        /\ stream'[n + 1 + 1].message = m
      <4>1. n + 1 + 1 = n + 2
        OBVIOUS
      <4> QED BY <1>15, <4>1
    <3>4. /\ stream'[n + 1].at = Upto(n)' /\ stream'[n + 1].size = MINI_DATA
          /\ stream'[n + 1].part = "header" /\ stream'[n + 1].message = m
          /\ written'[c + 1] = m
      BY <1>10, <1>13, <2>4, <2>6
    <3> QED BY ONLY <1>7, m \in Messages, <2>2, <3>1, <3>2, <3>3, <3>4 DEF PartFits
  <2>8. m.size # 0 => PartFits(n + 2, g)'
    <3> SUFFICES ASSUME m.size # 0 PROVE PartFits(n + 2, g)'
      OBVIOUS
    <3>1. /\ n + 2 - 1 = n + 1 /\ n + 2 > 3 /\ n + 2 \in n + 1 .. l /\ n + 1 \in n + 1 .. l
          /\ l = n + 2 /\ n + 1 # 0 /\ c + 1 \in 1 .. Len(written')
      BY <1>7, <1>13, <1>15
    <3>2. g[n + 2] = c + 1 /\ g[n + 1] = c + 1
      BY <2>2, <3>1
    <3>3. Upto(n + 1)' = Wire!End(s)
      <4>1. Upto(n + 1)' = stream'[n + 1].at + stream'[n + 1].size
        BY <3>1 DEF Upto
      <4> QED BY <1>7, <1>10, <2>4, <4>1
    <3>4. /\ stream'[n + 2].at = Upto(n + 1)' /\ stream'[n + 2].size = m.size
          /\ stream'[n + 2].part = "body" /\ stream'[n + 2].message = m
          /\ ~(n + 2 < Len(stream')) /\ written'[c + 1] = m
      BY <1>13, <1>15, <3>1, <3>3
    <3> QED BY ONLY <1>7, m \in Messages, <3>1, <3>2, <3>4 DEF PartFits
  <2>9. StreamInv(g)'
    <3>1. Len(stream') # 1 /\ g[Len(stream')] = Len(written')
      BY <1>7, <1>13, <1>15, <2>2
    <3>2. ASSUME NEW i \in Len(stream) + 1 .. Len(stream') PROVE PartFits(i, g)'
      <4>1. i = n + 1 \/ (i = n + 2 /\ m.size # 0)
        BY <1>6, <1>15
      <4> QED BY <2>7, <2>8, <4>1
    <3> QED BY <1>1, <2>5, <3>1, <3>2, StreamGrows
  <2>10. Wire!End(stream)' >= Wire!End(stream)
    <3>1. MINI_DATA \in Nat
      BY WireSizes
    <3> QED BY <1>7, <1>10, <1>15, <3>1
  <2> QED BY <1>1, <1>14, <1>15, <2>5, <2>9, <2>10, ConnGrows DEF Wire!ServerSends
<1>16. CASE m.size = 0
  <2>1. stream' = s
    BY <1>2, <1>4, <1>8, <1>16 DEF Wire!Wrote
  <2>2. n + 1 \in n + 1 .. n + 2 /\ Len(stream') = n + 1 /\ stream' \in Seq(StreamPart)
    <3>1. Len(stream') = n + 1 /\ stream' \in Seq(StreamPart)
      BY <1>10, <2>1, Zenon
    <3> QED BY <3>1
  <2>3. Wire!End(stream)' = Wire!End(s)
    BY <2>1 DEF Wire!End, Wire!Last
  <2>4. Wire!End(stream)' \in Nat /\ Wire!End(stream)' >= Wire!End(s)
    BY <1>10, <2>3
  <2>5. \A i \in 1 .. n + 1 : stream'[i] = s[i]
    BY <2>1
  <2> QED BY <1>15, <1>16, <2>2, <2>4, <2>5
<1>17. CASE m.size # 0
  <2>1. PICK q : q = Wire!Part("body", m.size, m)
    OBVIOUS
  <2>2. q \in StreamPart /\ q.size = m.size /\ q.part = "body" /\ q.message = m
    <3>1. m.size \in Nat \ {0} /\ m \in Messages \cup {Wire!None}
      BY <1>3, <1>17
    <3> QED BY <2>1, <3>1, PartOf
  <2>3. stream' = Wire!Behind(s, q)
    BY <1>2, <1>4, <1>8, <1>17, <2>1 DEF Wire!Wrote
  <2>4. Longer(stream', s, q)
    BY <1>10, <2>2, <2>3, BehindOne
  <2>5. /\ n + 2 \in n + 1 .. n + 2 /\ Len(stream') = n + 2 /\ stream' \in Seq(StreamPart)
        /\ \A i \in 1 .. n + 1 : stream'[i] = s[i]
        /\ stream'[n + 2].at = Wire!End(s) /\ stream'[n + 2].size = m.size
        /\ stream'[n + 2].part = "body" /\ stream'[n + 2].message = m
    BY ONLY <1>6, <1>10, <2>2, <2>4 DEF Longer
  <2>6. Wire!End(stream)' \in Nat /\ Wire!End(stream)' >= Wire!End(s)
    <3>1. Wire!End(stream') = Wire!End(s) + m.size /\ Wire!End(stream') \in Nat
      BY ONLY <2>2, <2>4 DEF Longer
    <3> QED BY <1>3, <1>10, <3>1
  <2> QED BY <1>15, <1>17, <2>5, <2>6
<1> QED BY <1>16, <1>17

\* What nobody writes to stays as it is.
LEMMA StreamKept ==
  ASSUME NEW h, StreamInv(h), stream' = stream, written' = written
  PROVE  StreamInv(h)' /\ Wire!End(stream)' = Wire!End(stream)
<1>1. \A k : Upto(k)' = Upto(k)
  BY DEF Upto
<1>2. ASSUME NEW i \in 1 .. Len(stream) PROVE PartFits(i, h)'
  <2>1. PartFits(i, h)
    BY DEF StreamInv
  <2>2. Upto(i - 1)' = Upto(i - 1)
    BY <1>1
  <2> QED BY ONLY <2>1, <2>2, stream' = stream, written' = written DEF PartFits
<1>3. /\ stream' \in Seq(StreamPart) /\ Len(stream') # 1 /\ written' \in Seq(Messages)
      /\ h \in [0 .. Len(stream') -> Nat] /\ h[0] = 0 /\ h[Len(stream')] = Len(written')
  BY DEF StreamInv
<1>4. \A i \in 1 .. Len(stream') : PartFits(i, h)'
  BY <1>2
<1>5. \A i, j \in 1 .. Len(stream') : i < j => Upto(i)' <= stream'[j].at
  <2>1. \A i, j \in 1 .. Len(stream) : i < j => Upto(i) <= stream[j].at
    BY DEF StreamInv
  <2> QED BY <1>1, <2>1
<1>6. StreamInv(h)'
  BY <1>3, <1>4, <1>5 DEF StreamInv
<1> QED BY <1>6 DEF Wire!End, Wire!Last

\* and a connection in step with it remains so.
LEMMA SteadyKept ==
  ASSUME NEW h, NEW r, Steady(r, h), stream' = stream, written' = written
  PROVE  Steady(r, h)'
<1>1. \A k : Upto(k)' = Upto(k)
  BY DEF Upto
<1>2. ASSUME NEW k, Expects(r, k, h) PROVE Expects(r, k, h)'
  <2>1. Upto(k)' = Upto(k)
    BY <1>1
  <2> QED BY ONLY <2>1, Expects(r, k, h), stream' = stream DEF Expects
<1>3. Handled(r)'
  BY DEF Handled, Steady
<1>4. Window(r)' = Window(r)
  BY DEF Window
<1>5. \A k \in 0 .. Len(stream) : Expects(r, k, h) => Expects(r, k, h)'
  BY <1>2
<1> QED BY <1>3, <1>4, <1>5 DEF Steady

\* The socket opens, and the reader asks for the header of the link.
LEMMA WireOpens ==
  ASSUME WireInv, Wire!Open
  PROVE  WireInv'
<1>1. PICK h : /\ StreamInv(h) /\ stream = <<>> /\ wire = 0 /\ Wire!Conn \in ChannelConn
               /\ buffers = <<>> /\ consumed = 0 /\ handled = <<>>
               /\ saved_msg_header = Wire!None /\ ack_window = 0 /\ ~raised
  BY DEF WireInv, Wire!Open, Steady, Wire!Conn
<1>2. PICK r : r = Wire!Conn
  OBVIOUS
<1>3. PICK q : q = Append(replies, "link")
  OBVIOUS
<1>4. r.replies = replies /\ r \in ChannelConn
  BY <1>1, <1>2 DEF Wire!Conn
<1>5. q \in Seq({"link", "ticket", "ack_sync", "pong", "ack", "error"})
  BY <1>3, <1>4, AppendProperties DEF ChannelConn
<1>6. LINK_HEADER \in Nat /\ LINK_HEADER > 0
  BY WireSizes
<1>7. PICK s : s = [r EXCEPT !.state = "start", !.needed = LINK_HEADER, !.replies = q]
  OBVIOUS
<1>8. s \in ChannelConn
  BY <1>4, <1>5, <1>6, <1>7 DEF ChannelConn
<1>9. Wire!Conn' = s
  BY <1>2, <1>3, <1>7 DEF Wire!Conn, Wire!Open
<1>10. /\ s.state = "start" /\ s.needed = LINK_HEADER /\ s.saved = Wire!None /\ s.buffers = <<>>
       /\ s.consumed = 0 /\ s.handled = <<>> /\ s.window = 0 /\ ~s.raised
  BY <1>1, <1>2, <1>7 DEF Wire!Conn
<1>11. UNCHANGED <<stream, written, wire, buffers, consumed>>
  BY DEF Wire!Open
<1>12. StreamInv(h)'
  BY <1>1, <1>11, StreamKept
<1>13. Expects(s, 0, h)
  BY <1>10 DEF Expects, Upto
<1>14. Steady(s, h)
  <2>1. 0 \in 0 .. Len(stream) /\ Len(s.handled) = 0 /\ Len(written) \in Nat
    BY <1>1, <1>10 DEF StreamInv
  <2> QED BY <1>6, <1>8, <1>10, <1>13, <2>1 DEF Steady, Handled, Window
<1>15. Steady(Wire!Conn, h)' /\ Stuck(Wire!Conn)'
  <2>1. Steady(s, h)'
    BY <1>11, <1>14, SteadyKept
  <2> QED BY <1>9, <1>10, <2>1 DEF Steady, Handled, Window, Expects, Stuck
<1>16. consumed' + Held(buffers') + wire' = Wire!End(stream)' /\ wire' \in Nat
  BY <1>1, <1>11 DEF Held, Wire!End
<1> QED BY <1>12, <1>15, <1>16 DEF WireInv

\* Bytes arrive, in a piece of any size.
LEMMA WireDelivers ==
  ASSUME WireInv, Wire!Deliver
  PROVE  WireInv'
<1>1. PICK n \in 1 .. wire :
        LET r == Wire!inbound(Wire!Conn, n)
        IN  /\ wire' = wire - n
            /\ state' = r.state /\ needed' = r.needed /\ saved_msg_header' = r.saved
            /\ buffers' = r.buffers /\ consumed' = r.consumed /\ handled' = r.handled
            /\ ack_window' = r.window /\ msgs_until_ack' = r.until /\ replies' = r.replies
            /\ unacked' = r.unacked /\ raised' = r.raised
  BY DEF Wire!Deliver
<1>2. PICK h : /\ StreamInv(h) /\ wire \in Nat /\ Steady(Wire!Conn, h) /\ Stuck(Wire!Conn)
               /\ consumed + Held(buffers) + wire = Wire!End(stream)
  <2>1. wire # 0
    BY <1>1
  <2> QED BY <2>1 DEF WireInv
<1>3. PICK r : r = Wire!Conn
  OBVIOUS
<1>4. Within(r, wire, h) /\ Stuck(r) /\ ~r.raised
  BY <1>2, <1>3 DEF Within, Wire!Conn, Wire!Deliver
<1>5. PICK s : s = Wire!inbound(r, n)
  OBVIOUS
<1>6. Within(s, wire - n, h) /\ Stuck(s)
  BY <1>2, <1>4, <1>5, InboundKeeps
<1>7. Wire!Conn' = s
  <2>1. s \in ChannelConn
    BY <1>6 DEF Within, Steady
  <2>2. s = [state |-> s.state, needed |-> s.needed, saved |-> s.saved, buffers |-> s.buffers,
             consumed |-> s.consumed, handled |-> s.handled, window |-> s.window,
             until |-> s.until, replies |-> s.replies, unacked |-> s.unacked,
             raised |-> s.raised]
    BY <2>1 DEF ChannelConn
  <2> QED BY <1>1, <1>3, <1>5, <2>2, Zenon DEF Wire!Conn
<1>8. UNCHANGED <<stream, written>> /\ wire' = wire - n
  BY <1>1 DEF Wire!Deliver
<1>9. StreamInv(h)'
  <2>1. StreamInv(h) /\ stream' = stream /\ written' = written
    BY <1>2, <1>8
  <2> QED BY <2>1, StreamKept
<1>10. Steady(Wire!Conn, h)' /\ Stuck(Wire!Conn)'
  <2>1. Steady(s, h)'
    <3>1. Steady(s, h) /\ stream' = stream /\ written' = written
      BY <1>6, <1>8 DEF Within
    <3> QED BY <3>1, SteadyKept
  <2> QED BY <1>6, <1>7, <2>1 DEF Steady, Handled, Window, Expects, Stuck
<1>11. consumed' + Held(buffers') + wire' = Wire!End(stream)' /\ wire' \in Nat
  <2>1. consumed' = s.consumed /\ buffers' = s.buffers
    BY <1>1, <1>3, <1>5
  <2>2. Wire!End(stream)' = Wire!End(stream)
    BY <1>8 DEF Wire!End, Wire!Last
  <2>3. s.consumed + Held(s.buffers) + (wire - n) = Wire!End(stream)
    BY <1>6 DEF Within
  <2>4. wire - n \in Nat
    BY <1>1, <1>2
  <2> QED BY <1>8, <2>1, <2>2, <2>3, <2>4
<1> QED BY <1>9, <1>10, <1>11 DEF WireInv

\* The invariant of the stream holds at first,
LEMMA WireInit ==
  ASSUME Wire!Init
  PROVE  WireInv
<1>1. PICK h : h = [i \in 0 .. 0 |-> 0]
  OBVIOUS
<1>2. StreamInv(h)
  <2>1. stream = <<>> /\ written = <<>> /\ Len(stream) = 0 /\ Len(written) = 0
    BY DEF Wire!Init
  <2>2. h \in [0 .. 0 -> Nat] /\ h[0] = 0
    BY <1>1
  <2>3. stream \in Seq(StreamPart) /\ written \in Seq(Messages)
    BY <2>1
  <2> QED BY <2>1, <2>2, <2>3 DEF StreamInv
<1>3. Wire!Conn \in ChannelConn
  <2>1. PICK r : r = Wire!Conn
    OBVIOUS
  <2>2. r = [state |-> "connecting", needed |-> 0, saved |-> saved_msg_header, buffers |-> <<>>,
             consumed |-> 0, handled |-> handled, window |-> 0, until |-> 0,
             replies |-> replies, unacked |-> 0, raised |-> FALSE]
    BY <2>1 DEF Wire!Init, Wire!Conn
  <2>3. /\ saved_msg_header \in Messages \cup {Wire!None} /\ handled \in Seq(Messages)
        /\ replies \in Seq({"link", "ticket", "ack_sync", "pong", "ack", "error"})
        /\ <<>> \in {<<>>} \cup {<<b>> : b \in Nat}
    BY DEF Wire!Init
  <2>4. r \in ChannelConn
    BY <2>2, <2>3 DEF ChannelConn
  <2> QED BY <2>1, <2>4
<1> QED BY <1>2, <1>3 DEF WireInv, Wire!Init

\* steps of other parts keep it,
LEMMA WireKept ==
  ASSUME WireInv, UNCHANGED wires
  PROVE  WireInv'
<1>1. /\ stream' = stream /\ written' = written /\ wire' = wire /\ state' = state
      /\ needed' = needed /\ saved_msg_header' = saved_msg_header /\ buffers' = buffers
      /\ consumed' = consumed /\ handled' = handled /\ ack_window' = ack_window
      /\ raised' = raised /\ Wire!Conn' = Wire!Conn
  BY DEF wires, Wire!Conn
<1>2. PICK h : /\ StreamInv(h) /\ wire \in Nat
               /\ \/ /\ state = "connecting" /\ stream = <<>> /\ written = <<>> /\ wire = 0 /\ needed = 0
                     /\ Wire!Conn \in ChannelConn /\ buffers = <<>> /\ consumed = 0 /\ handled = <<>>
                     /\ saved_msg_header = Wire!None /\ ack_window = 0 /\ ~raised
                  \/ /\ Steady(Wire!Conn, h) /\ Stuck(Wire!Conn)
                     /\ consumed + Held(buffers) + wire = Wire!End(stream)
  BY DEF WireInv
<1>3. StreamInv(h)' /\ Wire!End(stream)' = Wire!End(stream)
  BY <1>1, <1>2, StreamKept
<1>4. PICK r : r = Wire!Conn
  OBVIOUS
<1>5. Steady(r, h) => Steady(r, h)'
  BY <1>1, SteadyKept
<1>6. Steady(Wire!Conn, h) => Steady(Wire!Conn, h)'
  BY <1>1, <1>4, <1>5 DEF Steady, Handled, Window, Expects
<1>7. Stuck(Wire!Conn) => Stuck(Wire!Conn)'
  BY <1>1 DEF Stuck
<1>8. consumed + Held(buffers) + wire = Wire!End(stream) =>
        consumed' + Held(buffers') + wire' = Wire!End(stream)'
  BY <1>1, <1>3
<1> QED BY <1>1, <1>2, <1>3, <1>6, <1>7, <1>8 DEF WireInv

\* and so do those of the stream.
LEMMA WireStep ==
  ASSUME WireInv, Wire!Next
  PROVE  WireInv'
BY WireLinks, WireAuthenticates, WireSends, WireOpens, WireDelivers DEF Wire!Next

\* What has arrived whole has been handled.
LEMMA WireMeans ==
  ASSUME WireInv
  PROVE  Wire!ReadsAnyPieces /\ Wire!AcksEveryWindow
<1>1. CASE state = "connecting" /\ handled = <<>> /\ ack_window = 0 /\ written = <<>>
  BY <1>1 DEF Wire!ReadsAnyPieces, Wire!AcksEveryWindow, Wire!IsPrefix
<1>2. CASE \E h : /\ StreamInv(h) /\ wire \in Nat /\ Steady(Wire!Conn, h) /\ Stuck(Wire!Conn)
                  /\ consumed + Held(buffers) + wire = Wire!End(stream)
  <2>1. PICK h : /\ StreamInv(h) /\ wire \in Nat /\ Steady(Wire!Conn, h) /\ Stuck(Wire!Conn)
                 /\ consumed + Held(buffers) + wire = Wire!End(stream)
    BY <1>2
  <2>2. PICK r : r = Wire!Conn
    OBVIOUS
  <2>3. /\ r.state = state /\ r.needed = needed /\ r.saved = saved_msg_header
        /\ r.buffers = buffers /\ r.consumed = consumed /\ r.handled = handled
        /\ r.window = ack_window /\ r.until = msgs_until_ack /\ r.unacked = unacked
        /\ r.raised = raised
    BY <2>2 DEF Wire!Conn
  <2>4. /\ r \in ChannelConn /\ Handled(r) /\ handled \in Seq(Messages)
        /\ written \in Seq(Messages) /\ Len(handled) \in Nat /\ Len(written) \in Nat
    BY <2>1, <2>2, <2>3 DEF Steady, ChannelConn, StreamInv
  <2>5. Wire!IsPrefix(handled, written)
    <3>1. /\ Len(handled) <= Len(written)
          /\ \A j \in 1 .. Len(handled) : handled[j] = written[j]
      BY <2>3, <2>4 DEF Handled
    <3> QED BY <2>4, <3>1 DEF Wire!IsPrefix
  <2>6. ASSUME wire = 0, state = "ready", ~raised PROVE handled = written
    <3>1. PICK k \in 0 .. Len(stream) : Expects(r, k, h)
      BY <2>1, <2>2, <2>3, <2>6 DEF Steady
    <3>2. /\ Len(stream) \in Nat /\ Wire!End(stream) \in Nat /\ needed \in Nat
          /\ consumed \in Nat /\ Held(buffers) \in Nat /\ Held(buffers) < needed
      <4>1. Len(stream) \in 0 .. Len(stream) /\ Len(stream) \in Nat
        BY <2>1, PartTyped
      <4>2. Wire!End(stream) \in Nat
        BY <2>1, <4>1, PartTyped
      <4> QED BY <2>1, <2>2, <2>3, <2>4, <2>6, <4>1, <4>2 DEF Steady, Stuck, Held, ChannelConn
    <3>3. k = Len(stream)
      <4> SUFFICES ASSUME k < Len(stream) PROVE FALSE
        BY <3>2
      <4>1. k + 1 \in 1 .. Len(stream)
        BY <3>2
      <4>2. PartFits(k + 1, h) /\ k + 1 - 1 = k
        BY ONLY <2>1, <4>1, k \in 0 .. Len(stream) DEF StreamInv
      <4>3. needed = stream[k + 1].size /\ consumed = Upto(k)
        BY <2>3, <2>6, <3>1, <3>2, <4>2 DEF Expects, PartFits
      <4>4. Upto(k + 1) <= Wire!End(stream)
        <5>1. Wire!End(stream) = Upto(Len(stream)) /\ Len(stream) \in 1 .. Len(stream)
          BY <2>1, <3>2, <4>1, PartTyped
        <5>2. CASE k + 1 = Len(stream)
          BY <3>2, <5>1, <5>2
        <5>3. CASE k + 1 # Len(stream)
          <6>1. Upto(k + 1) <= stream[Len(stream)].at
            BY <2>1, <3>2, <4>1, <5>1, <5>3 DEF StreamInv
          <6>2. /\ Upto(Len(stream)) = stream[Len(stream)].at + stream[Len(stream)].size
                /\ stream[Len(stream)].at \in Nat /\ stream[Len(stream)].size \in Nat
                /\ Upto(k + 1) = stream[k + 1].at + stream[k + 1].size
                /\ stream[k + 1].at \in Nat /\ stream[k + 1].size \in Nat
            BY <2>1, <4>1, <5>1, PartTyped
          <6> QED BY <5>1, <6>1, <6>2
        <5> QED BY <5>2, <5>3
      <4>5. Upto(k + 1) = consumed + needed
        <5>1. stream[k + 1].at = Upto(k)
          BY <4>2 DEF PartFits
        <5> QED BY <2>1, <4>1, <4>3, <5>1, PartTyped
      <4> QED BY <2>1, <2>6, <3>2, <4>4, <4>5
    <3>4. Len(handled) = Len(written)
      <4>1. Len(r.handled) = h[Len(stream)]
        BY <2>3, <2>6, <3>1, <3>2, <3>3 DEF Expects
      <4> QED BY <2>1, <2>3, <4>1 DEF StreamInv
    <3> QED BY <2>3, <2>4, <3>4, SeqEqual DEF Handled
  <2>7. Wire!AcksEveryWindow
    BY <2>1, <2>2, <2>3, <2>4 DEF Steady, Window, Wire!AcksEveryWindow, ChannelConn
  <2> QED BY <2>5, <2>6, <2>7 DEF Wire!ReadsAnyPieces
<1> QED BY <1>1, <1>2 DEF WireInv

-----------------------------------------------------------------------------

\* A piece of a message to the agent.
AgentPiece ==
  [what : {"announce", "start", "cancelled", "data"}, task : Nat, chunk : Nat, number : Nat]

\* The part of the main connection that messages to the agent change, when id
\* files have been dropped.
Typed(m, id) ==
  /\ m = [tokens |-> m.tokens, queue |-> m.queue, sent |-> m.sent, tasks |-> m.tasks,
          waiting |-> m.waiting, readers |-> m.readers]
  /\ m.tokens \in Nat
  /\ m.queue \in Seq(AgentPiece) /\ m.sent \in Seq(AgentPiece)
  /\ DOMAIN m.tasks \subseteq 0 .. (id - 1)
  /\ m.tasks \in [DOMAIN m.tasks -> [size : Nat \ {0}, cancelled : BOOLEAN]]
  /\ m.waiting \in Seq([task : Nat, read_bytes : Nat])
  /\ m.readers \in SUBSET [task : Nat, sb : Nat]

\* The pieces of s in the order in which they are made: chunk behind chunk of
\* each task t, c[t] of them so far.
Chunks(s, c) ==
  /\ \A i \in 1 .. Len(s) : s[i].what = "data" =>
       s[i].chunk < c[s[i].task] /\ s[i].number \in 1 .. Pieces
  /\ \A i, j \in 1 .. Len(s) : s[i].what = "data" /\ s[i] = s[j] => i = j
  /\ \A i \in 1 .. Len(s) : s[i].what = "data" /\ s[i].number = 1 /\ s[i].chunk > 0 =>
       \E j \in 1 .. (i - 1) : s[j] = Agent!Piece("data", s[i].task, s[i].chunk - 1, Pieces)
  /\ \A i \in 1 .. Len(s) : s[i].number > 1 =>
       i > 1 /\ s[i - 1] = [s[i] EXCEPT !.number = @ - 1]
  /\ \A t \in Nat : \A k \in Nat : k < c[t] =>
       \E i \in 1 .. Len(s) : s[i] = Agent!Piece("data", t, k, Pieces)

\* A task that goes on has a reader,
Reads(m, t) == \E r \in m.readers : r.task = t

\* or waits for a token.
Waits(m, t) == \E i \in 1 .. Len(m.waiting) : m.waiting[i].task = t

\* Each reader and each wait is the only one of its task, which has been
\* answered, and is for the next chunk of it; a task that has been answered has
\* one until it is finished, those of free apart, which are about to go on.
Going(m, c, ans, free) ==
  /\ \A r \in m.readers : r.task \in ans /\ r.sb = c[r.task]
  /\ \A q, r \in m.readers : q.task = r.task => q = r
  /\ \A i \in 1 .. Len(m.waiting) :
       /\ m.waiting[i].task \in ans /\ m.waiting[i].read_bytes = c[m.waiting[i].task]
       /\ ~Reads(m, m.waiting[i].task)
  /\ \A i, j \in 1 .. Len(m.waiting) : m.waiting[i].task = m.waiting[j].task => i = j
  /\ \A t \in DOMAIN m.tasks : t \in ans /\ t \notin free =>
       Reads(m, t) \/ Waits(m, t) \/ c[t] = m.tasks[t].size
  /\ \A t \in Nat : t \notin ans => c[t] = 0

\* The transfers to an agent that has answered the tasks ans.
Transfers(m, c, ans, id, free) ==
  /\ Typed(m, id) /\ c \in [Nat -> Nat]
  /\ Chunks(m.sent \o m.queue, c)
  /\ m.queue # <<>> => m.tokens = 0
  /\ Going(m, c, ans, free)

\* With a token for each of id files as many are out as tasks wait for one.
Enough(m, given, id) == id <= given => Len(m.waiting) + m.tokens <= given

\* Unless an agent left in the middle of something the transfers go on, and
\* none is under way while no agent is there.
AgentInv ==
  ~broken =>
    /\ file_xfer_task_id \in Nat /\ answered \subseteq 0 .. (file_xfer_task_id - 1)
    /\ IF agent_connected
       THEN /\ returned \in 0 .. Len(sent) /\ Agent!Given \in Tokens
            /\ Enough(Agent!Main, Agent!Given, file_xfer_task_id)
            /\ \E c : Transfers(Agent!Main, c, answered, file_xfer_task_id, {})
       ELSE /\ Typed(Agent!Main, file_xfer_task_id)
            /\ \E c \in [Nat -> Nat] : Chunks(sent \o agent_msg_queue, c)
            /\ agent_msg_queue = <<>> /\ file_xfer_read_queue = <<>> /\ readers = {}
            /\ DOMAIN file_xfer_tasks = {}

\* A piece has what it is made of.
LEMMA PieceTyped ==
  ASSUME NEW what \in {"announce", "start", "cancelled", "data"}, NEW t \in Nat, NEW k \in Nat,
         NEW n \in Nat
  PROVE  /\ Agent!Piece(what, t, k, n) \in AgentPiece
         /\ Agent!Piece(what, t, k, n).what = what /\ Agent!Piece(what, t, k, n).task = t
         /\ Agent!Piece(what, t, k, n).chunk = k /\ Agent!Piece(what, t, k, n).number = n
BY DEF Agent!Piece, AgentPiece

\* What a message of one piece adds to a sequence.
LEMMA WithOne ==
  ASSUME NEW s \in Seq(AgentPiece), NEW p \in AgentPiece, NEW u, u = s \o <<p>>
  PROVE  /\ u \in Seq(AgentPiece) /\ Len(s) \in Nat /\ Len(u) = Len(s) + 1
         /\ \A i \in 1 .. Len(s) : u[i] = s[i]
         /\ u[Len(s) + 1] = p
<1>1. u = Append(s, p)
  BY AppendIsConcat
<1> QED BY <1>1, AppendProperties, LenProperties

\* A message that is not of a file changes nothing of the order.
LEMMA ChunksOther ==
  ASSUME NEW s, s \in Seq(AgentPiece), NEW c, c \in [Nat -> Nat], Chunks(s, c),
         NEW p \in AgentPiece, p.what # "data", p.number = 1
  PROVE  Chunks(s \o <<p>>, c)
<1>1. PICK u : u = s \o <<p>>
  OBVIOUS
<1>2. /\ u \in Seq(AgentPiece) /\ Len(s) \in Nat /\ Len(u) = Len(s) + 1
      /\ \A i \in 1 .. Len(s) : u[i] = s[i]
      /\ u[Len(s) + 1] = p
  BY <1>1, WithOne
<1>3. PICK n \in Nat : n = Len(s)
  BY <1>2
<1>4. /\ Len(s) = n /\ Len(u) = n + 1
      /\ \A i \in 1 .. n : u[i] = s[i]
      /\ \A i \in 1 .. (n + 1) : i \in 1 .. n \/ u[i] = p
  BY <1>2, <1>3
<1>5. \A i \in 1 .. n : i \in 1 .. (n + 1)
  OBVIOUS
<1>6. \A i \in 1 .. (n + 1) : u[i].what = "data" =>
        u[i].chunk < c[u[i].task] /\ u[i].number \in 1 .. Pieces
  BY <1>4 DEF Chunks
<1>7. ASSUME NEW i \in 1 .. (n + 1), NEW j \in 1 .. (n + 1), u[i].what = "data", u[i] = u[j]
      PROVE  i = j
  <2>1. i \in 1 .. n /\ j \in 1 .. n
    BY <1>4, <1>7
  <2>2. s[i].what = "data" /\ s[i] = s[j]
    BY <1>4, <1>7, <2>1
  <2> QED BY <1>4, <2>1, <2>2 DEF Chunks
<1>8. ASSUME NEW i \in 1 .. (n + 1), u[i].what = "data", u[i].number = 1, u[i].chunk > 0
      PROVE  \E j \in 1 .. (i - 1) : u[j] = Agent!Piece("data", u[i].task, u[i].chunk - 1, Pieces)
  <2>1. i \in 1 .. n
    BY <1>4, <1>8
  <2>2. PICK j \in 1 .. (i - 1) : s[j] = Agent!Piece("data", s[i].task, s[i].chunk - 1, Pieces)
    BY <1>4, <1>8, <2>1 DEF Chunks
  <2>3. j \in 1 .. n
    BY <2>1
  <2> QED BY <1>4, <2>1, <2>2, <2>3
<1>9. ASSUME NEW i \in 1 .. (n + 1), u[i].number > 1
      PROVE  i > 1 /\ u[i - 1] = [u[i] EXCEPT !.number = @ - 1]
  <2>1. i \in 1 .. n
    BY <1>4, <1>9
  <2>2. s[i].number > 1
    BY <1>4, <1>9, <2>1
  <2>3. i > 1
    BY <1>4, <2>1, <2>2 DEF Chunks
  <2>4. s[i - 1] = [s[i] EXCEPT !.number = @ - 1]
    BY <1>4, <2>1, <2>2 DEF Chunks
  <2>5. i - 1 \in 1 .. n
    BY ONLY n \in Nat, <2>1, <2>3
  <2>6. u[i - 1] = s[i - 1] /\ u[i] = s[i]
    BY ONLY <1>4, <2>1, <2>5
  <2> QED BY ONLY <2>3, <2>4, <2>6, Zenon
<1>10. ASSUME NEW t \in Nat, NEW k \in Nat, k < c[t]
       PROVE  \E i \in 1 .. (n + 1) : u[i] = Agent!Piece("data", t, k, Pieces)
  <2>1. PICK i \in 1 .. n : s[i] = Agent!Piece("data", t, k, Pieces)
    BY <1>4, <1>10 DEF Chunks
  <2> QED BY <1>4, <1>5, <2>1
<1>11. Chunks(u, c)
  <2>1. Len(u) = n + 1
    BY <1>4
  <2> QED BY ONLY <2>1, <1>6, <1>7, <1>8, <1>9, <1>10 DEF Chunks
<1> QED BY <1>1, <1>11

\* The pieces of a chunk.
LEMMA ChunkOf ==
  ASSUME NEW t \in Nat, NEW k \in Nat
  PROVE  /\ Agent!FileData(t, k) \in Seq(AgentPiece) /\ Len(Agent!FileData(t, k)) = Pieces
         /\ \A i \in 1 .. Pieces : Agent!FileData(t, k)[i] = Agent!Piece("data", t, k, i)
<1>1. Pieces \in Nat \ {0}
  BY SpiceClientAssumption
<1>2. \A i \in 1 .. Pieces : Agent!Piece("data", t, k, i) \in AgentPiece
  BY <1>1, PieceTyped
<1>3. PICK f : f = Agent!FileData(t, k)
  OBVIOUS
<1>4. f = [i \in 1 .. Pieces |-> Agent!Piece("data", t, k, i)]
  BY <1>3 DEF Agent!FileData
<1>5. f \in [1 .. Pieces -> AgentPiece]
  BY <1>2, <1>4
<1>6. f \in Seq(AgentPiece) /\ Len(f) = Pieces
  <2>1. Pieces \in Nat
    BY <1>1
  <2> QED BY <1>5, <2>1
<1> QED BY <1>3, <1>4, <1>6

\* The next chunk of a task goes behind those before.
LEMMA ChunksData ==
  ASSUME NEW s, s \in Seq(AgentPiece), NEW c, c \in [Nat -> Nat], Chunks(s, c), NEW t \in Nat
  PROVE  Chunks(s \o Agent!FileData(t, c[t]), [c EXCEPT ![t] = @ + 1])
<1>1. PICK k \in Nat : k = c[t]
  OBVIOUS
<1>2. PICK f : f = Agent!FileData(t, k)
  OBVIOUS
<1>3. PICK N \in Nat \ {0} : N = Pieces
  BY SpiceClientAssumption
<1>4. /\ f \in Seq(AgentPiece) /\ Len(f) = N
      /\ \A i \in 1 .. N : f[i] = Agent!Piece("data", t, k, i)
  BY <1>2, <1>3, ChunkOf
<1>5. PICK u : u = s \o f
  OBVIOUS
<1>6. PICK n \in Nat : n = Len(s)
  BY LenProperties
<1>7. /\ Len(u) = n + N
      /\ \A i \in 1 .. n : u[i] = s[i]
      /\ \A i \in (n + 1) .. (n + N) : u[i] = Agent!Piece("data", t, k, i - n)
  <2>1. /\ Len(u) = n + N
        /\ \A i \in 1 .. (n + N) : u[i] = IF i <= n THEN s[i] ELSE f[i - n]
    BY <1>4, <1>5, <1>6, ConcatProperties
  <2>2. ASSUME NEW i \in (n + 1) .. (n + N) PROVE u[i] = Agent!Piece("data", t, k, i - n)
    <3>1. i \in 1 .. (n + N) /\ ~(i <= n) /\ i - n \in 1 .. N
      OBVIOUS
    <3> QED BY <1>4, <2>1, <3>1
  <2>3. ASSUME NEW i \in 1 .. n PROVE u[i] = s[i]
    <3>1. i \in 1 .. (n + N) /\ i <= n
      BY ONLY n \in Nat, N \in Nat \ {0}, i \in 1 .. n
    <3> QED BY ONLY <2>1, <3>1, Zenon
  <2> QED BY <2>1, <2>2, <2>3
<1>8. ASSUME NEW i \in (n + 1) .. (n + N)
      PROVE  /\ u[i].what = "data" /\ u[i].task = t /\ u[i].chunk = k /\ u[i].number = i - n
             /\ i - n \in 1 .. N
  <2>1. i - n \in 1 .. N /\ i - n \in Nat
    OBVIOUS
  <2>2. PICK e \in Nat : e = i - n
    BY <2>1
  <2>3. u[i] = Agent!Piece("data", t, k, e)
    BY <1>7, <2>2
  <2>4. "data" \in {"announce", "start", "cancelled", "data"}
    OBVIOUS
  <2> QED BY ONLY <2>1, <2>2, <2>3, <2>4, t \in Nat, k \in Nat, PieceTyped
<1>9. PICK d : d = [c EXCEPT ![t] = @ + 1]
  OBVIOUS
<1>10. /\ d[t] = k + 1 /\ \A v \in Nat : v # t => d[v] = c[v]
       /\ \A v \in Nat : c[v] <= d[v] /\ c[v] \in Nat /\ d[v] \in Nat
  <2>1. d[t] = k + 1 /\ \A v \in Nat : v # t => d[v] = c[v]
    BY ONLY <1>1, <1>9, t \in Nat, c \in [Nat -> Nat]
  <2>2. ASSUME NEW v \in Nat PROVE c[v] <= d[v] /\ c[v] \in Nat /\ d[v] \in Nat
    <3>1. c[v] \in Nat
      BY ONLY v \in Nat, c \in [Nat -> Nat]
    <3>2. CASE v = t
      BY ONLY <1>1, <2>1, <3>1, <3>2
    <3>3. CASE v # t
      BY ONLY <2>1, <3>1, <3>3, v \in Nat
    <3> QED BY <3>2, <3>3
  <2> QED BY <2>1, <2>2
<1>11. \A i \in 1 .. (n + N) : i \in 1 .. n \/ i \in (n + 1) .. (n + N)
  OBVIOUS
<1>12. \A i \in 1 .. n : /\ s[i] \in AgentPiece /\ s[i].task \in Nat /\ s[i].chunk \in Nat
                         /\ s[i].number \in Nat
  <2>1. \A i \in 1 .. n : s[i] \in AgentPiece
    BY <1>6, ElementOfSeq
  <2> QED BY ONLY <2>1 DEF AgentPiece
<1>13. ASSUME NEW i \in 1 .. (n + N), u[i].what = "data"
       PROVE  u[i].chunk < d[u[i].task] /\ u[i].number \in 1 .. Pieces
  <2>1. CASE i \in 1 .. n
    <3>1. u[i] = s[i] /\ s[i].chunk < c[s[i].task] /\ s[i].number \in 1 .. Pieces
      BY <1>6, <1>7, <1>13, <2>1 DEF Chunks
    <3>2. s[i].chunk \in Nat /\ s[i].task \in Nat /\ c[s[i].task] <= d[s[i].task]
          /\ c[s[i].task] \in Nat /\ d[s[i].task] \in Nat
      BY <1>10, <1>12, <2>1
    <3> QED BY ONLY <3>1, <3>2
  <2>2. CASE i \in (n + 1) .. (n + N)
    <3>1. u[i].task = t /\ u[i].chunk = k /\ u[i].number = i - n /\ i - n \in 1 .. N
      BY <1>8, <2>2
    <3> QED BY ONLY <1>3, <1>10, <3>1, k \in Nat
  <2> QED BY <1>11, <2>1, <2>2
<1>14. ASSUME NEW i \in 1 .. n, NEW j \in (n + 1) .. (n + N), u[i].what = "data", u[i] = u[j]
       PROVE  FALSE
  <2>1. s[i] = u[i] /\ s[i].chunk < c[s[i].task]
    BY <1>6, <1>7, <1>14 DEF Chunks
  <2>2. u[j].task = t /\ u[j].chunk = k
    BY <1>8
  <2> QED BY <1>1, <1>14, <2>1, <2>2
<1>15. ASSUME NEW i \in 1 .. (n + N), NEW j \in 1 .. (n + N), u[i].what = "data", u[i] = u[j]
       PROVE  i = j
  <2>1. CASE i \in 1 .. n /\ j \in 1 .. n
    <3>1. s[i].what = "data" /\ s[i] = s[j]
      BY ONLY <1>7, <1>15, <2>1
    <3> QED BY <1>6, <2>1, <3>1 DEF Chunks
  <2>2. CASE i \in (n + 1) .. (n + N) /\ j \in (n + 1) .. (n + N)
    <3>1. u[i].number = i - n /\ u[j].number = j - n
      BY <1>8, <2>2
    <3> QED BY <1>15, <3>1
  <2> QED BY <1>11, <1>14, <1>15, <2>1, <2>2
<1>16. ASSUME NEW i \in 1 .. (n + N), u[i].what = "data", u[i].number = 1, u[i].chunk > 0
       PROVE  \E j \in 1 .. (i - 1) : u[j] = Agent!Piece("data", u[i].task, u[i].chunk - 1, Pieces)
  <2>1. CASE i \in 1 .. n
    <3>1. PICK j \in 1 .. (i - 1) : s[j] = Agent!Piece("data", s[i].task, s[i].chunk - 1, Pieces)
      BY <1>6, <1>7, <1>16, <2>1 DEF Chunks
    <3>2. j \in 1 .. n
      BY <2>1
    <3> QED BY <1>7, <2>1, <3>1, <3>2
  <2>2. CASE i \in (n + 1) .. (n + N)
    <3>1. u[i].task = t /\ u[i].chunk = k /\ k > 0
      BY <1>8, <1>16, <2>2
    <3>2. k - 1 \in Nat /\ k - 1 < c[t]
      BY ONLY <1>1, <3>1, k \in Nat
    <3>3. PICK j \in 1 .. n : s[j] = Agent!Piece("data", t, k - 1, Pieces)
      BY <1>6, <3>2 DEF Chunks
    <3>4. j \in 1 .. (i - 1)
      BY <2>2
    <3> QED BY <1>7, <3>1, <3>3, <3>4
  <2> QED BY <1>11, <2>1, <2>2
<1>17. ASSUME NEW i \in 1 .. (n + N), u[i].number > 1
       PROVE  i > 1 /\ u[i - 1] = [u[i] EXCEPT !.number = @ - 1]
  <2>1. CASE i \in 1 .. n
    <3>1. s[i].number > 1
      BY <1>7, <1>17, <2>1
    <3>2. i > 1
      BY <1>6, <2>1, <3>1 DEF Chunks
    <3>3. s[i - 1] = [s[i] EXCEPT !.number = @ - 1]
      BY <1>6, <2>1, <3>1 DEF Chunks
    <3>4. i - 1 \in 1 .. n
      BY ONLY n \in Nat, <2>1, <3>2
    <3>5. u[i - 1] = s[i - 1] /\ u[i] = s[i]
      BY ONLY <1>7, <2>1, <3>4
    <3> QED BY ONLY <3>2, <3>3, <3>5, Zenon
  <2>2. CASE i \in (n + 1) .. (n + N)
    <3>1. i - n > 1
      BY <1>8, <1>17, <2>2
    <3>2. i - 1 \in (n + 1) .. (n + N) /\ i > 1 /\ (i - n) - 1 = (i - 1) - n
      BY <2>2, <3>1
    <3>3. /\ u[i] = Agent!Piece("data", t, k, i - n)
          /\ u[i - 1] = Agent!Piece("data", t, k, (i - n) - 1)
      BY <1>7, <2>2, <3>2
    <3>4. PICK e \in Nat : e = i - n
      BY <2>2
    <3> QED BY ONLY <3>2, <3>3, <3>4 DEF Agent!Piece
  <2> QED BY <1>11, <2>1, <2>2
<1>18. ASSUME NEW v \in Nat, NEW e \in Nat, e < d[v]
       PROVE  \E i \in 1 .. (n + N) : u[i] = Agent!Piece("data", v, e, Pieces)
  <2>1. CASE e < c[v]
    <3>1. PICK i \in 1 .. n : s[i] = Agent!Piece("data", v, e, Pieces)
      BY <1>6, <2>1 DEF Chunks
    <3>2. u[i] = s[i] /\ i \in 1 .. (n + N)
      BY ONLY <1>7, i \in 1 .. n, n \in Nat, N \in Nat \ {0}
    <3> QED BY ONLY <3>1, <3>2
  <2>2. CASE ~(e < c[v])
    <3>1. v = t
      BY ONLY <1>10, <1>18, <2>2
    <3>2. e = k
      BY ONLY <1>1, <1>10, <1>18, <2>2, <3>1, e \in Nat, k \in Nat
    <3>3. n + N \in (n + 1) .. (n + N) /\ n + N \in 1 .. (n + N) /\ (n + N) - n = N
      OBVIOUS
    <3> QED BY <1>3, <1>7, <3>1, <3>2, <3>3
  <2> QED BY <2>1, <2>2
<1>19. Chunks(u, d)
  BY <1>7, <1>13, <1>15, <1>16, <1>17, <1>18 DEF Chunks
<1> QED BY <1>1, <1>2, <1>5, <1>9, <1>19

\* The lesser of two numbers.
LEMMA LesserOf ==
  ASSUME NEW a \in Nat, NEW b \in Nat
  PROVE  /\ Agent!Min({a, b}) \in {a, b}
         /\ Agent!Min({a, b}) <= a /\ Agent!Min({a, b}) <= b
<1>1. PICK n : n = Agent!Min({a, b})
  OBVIOUS
<1>2. n = CHOOSE x \in {a, b} : \A y \in {a, b} : x <= y
  BY <1>1 DEF Agent!Min
<1>3. \E x \in {a, b} : \A y \in {a, b} : x <= y
  <2>1. CASE a <= b
    BY <2>1
  <2>2. CASE ~(a <= b)
    BY <2>2
  <2> QED BY <2>1, <2>2
<1>4. n \in {a, b} /\ \A y \in {a, b} : n <= y
  BY ONLY <1>2, <1>3, Zenon
<1> QED BY ONLY <1>1, <1>4

\* f is m after the message msg has been queued, and as much of what waits sent
\* as there are tokens.
SentOff(f, m, msg) ==
  /\ f = [tokens |-> f.tokens, queue |-> f.queue, sent |-> f.sent, tasks |-> m.tasks,
          waiting |-> m.waiting, readers |-> m.readers]
  /\ f.tokens \in Nat /\ f.queue \in Seq(AgentPiece) /\ f.sent \in Seq(AgentPiece)
  /\ f.sent \o f.queue = (m.sent \o m.queue) \o msg
  /\ f.tokens + Len(f.sent) = m.tokens + Len(m.sent)
  /\ f.tokens <= m.tokens /\ m.tokens - f.tokens <= Len(m.queue) + Len(msg)
  /\ f.queue # <<>> => f.tokens = 0

\* The first n of q are of S, and go behind s, and so is the rest of it.
Cut(q, n, s, S) ==
  /\ SubSeq(q, 1, n) \in Seq(S) /\ Len(SubSeq(q, 1, n)) = n
  /\ SubSeq(q, n + 1, Len(q)) \in Seq(S)
  /\ n = Len(q) => SubSeq(q, n + 1, Len(q)) = <<>>
  /\ (s \o SubSeq(q, 1, n)) \o SubSeq(q, n + 1, Len(q)) = s \o q

\* A queue is cut in two.
LEMMA CutInTwo ==
  ASSUME NEW S, NEW q \in Seq(S), NEW n \in 0 .. Len(q), NEW s \in Seq(S)
  PROVE  Cut(q, n, s, S)
<1>1. Len(q) \in Nat /\ n \in Nat /\ n <= Len(q)
  BY LenProperties
<1>2. \A i \in 1 .. Len(q) : q[i] \in S
  BY ElementOfSeq
<1>3. SubSeq(q, 1, n) \in Seq(S) /\ Len(SubSeq(q, 1, n)) = n
  <2>1. \A i \in 1 .. n : q[i] \in S
    BY <1>1, <1>2
  <2>2. 1 \in Int /\ n \in Int
    BY <1>1
  <2>3. /\ SubSeq(q, 1, n) \in Seq(S)
        /\ Len(SubSeq(q, 1, n)) = IF 1 <= n THEN n - 1 + 1 ELSE 0
    BY ONLY <2>1, <2>2, SubSeqProperties
  <2> QED BY ONLY <1>1, <2>3
<1>4. SubSeq(q, n + 1, Len(q)) \in Seq(S)
  <2>1. \A i \in (n + 1) .. Len(q) : q[i] \in S
    BY <1>1, <1>2
  <2>2. n + 1 \in Int /\ Len(q) \in Int
    BY <1>1
  <2> QED BY ONLY <2>1, <2>2, SubSeqProperties
<1>5. n = Len(q) => SubSeq(q, n + 1, Len(q)) = <<>>
  <2>1. n + 1 \in Int /\ Len(q) \in Int /\ (n = Len(q) => Len(q) < n + 1)
    BY <1>1
  <2> QED BY ONLY <2>1, SubSeqEmpty
<1>6. SubSeq(q, 1, n) \o SubSeq(q, n + 1, Len(q)) = q
  <2>1. 1 \in 1 .. Len(q) + 1 /\ n \in 1 - 1 .. Len(q) /\ Len(q) \in n .. Len(q)
    BY ONLY <1>1
  <2>2. SubSeq(q, 1, n) \o SubSeq(q, n + 1, Len(q)) = SubSeq(q, 1, Len(q))
    BY <2>1, ConcatAdjacentSubSeq
  <2> QED BY <2>2, SubSeqFull
<1>7. (s \o SubSeq(q, 1, n)) \o SubSeq(q, n + 1, Len(q)) = s \o q
  <2>1. PICK x \in Seq(S) : x = SubSeq(q, 1, n)
    BY <1>3
  <2>2. PICK y \in Seq(S) : y = SubSeq(q, n + 1, Len(q))
    BY <1>4
  <2>3. (s \o x) \o y = s \o (x \o y)
    BY ConcatAssociative
  <2> QED BY <1>6, <2>1, <2>2, <2>3
<1> QED BY <1>3, <1>4, <1>5, <1>7 DEF Cut

\* What waits is sent as far as the tokens go.
LEMMA Flushes ==
  ASSUME NEW m,
         m = [tokens |-> m.tokens, queue |-> m.queue, sent |-> m.sent, tasks |-> m.tasks,
              waiting |-> m.waiting, readers |-> m.readers],
         m.tokens \in Nat, m.queue \in Seq(AgentPiece), m.sent \in Seq(AgentPiece)
  PROVE  SentOff(Agent!Flush(m), m, <<>>)
<1>1. PICK q : q = m.queue
  OBVIOUS
<1>2. PICK s : s = m.sent
  OBVIOUS
<1>3. PICK a \in Nat : a = m.tokens
  OBVIOUS
<1>4. PICK n : n = Agent!Min({a, Len(q)})
  OBVIOUS
<1>5. q \in Seq(AgentPiece) /\ s \in Seq(AgentPiece)
  BY <1>1, <1>2
<1>6. Len(q) \in Nat /\ Len(s) \in Nat
  BY <1>5, LenProperties
<1>7. n \in 0 .. Len(q) /\ n <= a /\ (n = a \/ n = Len(q)) /\ n \in Nat
  <2>1. n \in {a, Len(q)} /\ n <= a /\ n <= Len(q)
    BY ONLY <1>4, <1>6, a \in Nat, LesserOf
  <2> QED BY ONLY <1>6, <2>1, a \in Nat
<1>8. PICK x : x = SubSeq(q, 1, n)
  OBVIOUS
<1>9. PICK y : y = SubSeq(q, n + 1, Len(q))
  OBVIOUS
<1>10. /\ x \in Seq(AgentPiece) /\ Len(x) = n /\ y \in Seq(AgentPiece)
       /\ n = Len(q) => y = <<>>
       /\ (s \o x) \o y = s \o q
  <2>1. /\ SubSeq(q, 1, n) \in Seq(AgentPiece) /\ Len(SubSeq(q, 1, n)) = n
        /\ SubSeq(q, n + 1, Len(q)) \in Seq(AgentPiece)
        /\ n = Len(q) => SubSeq(q, n + 1, Len(q)) = <<>>
        /\ (s \o SubSeq(q, 1, n)) \o SubSeq(q, n + 1, Len(q)) = s \o q
    <3>1. q \in Seq(AgentPiece) /\ s \in Seq(AgentPiece) /\ n \in 0 .. Len(q)
      BY <1>5, <1>7
    <3>2. Cut(q, n, s, AgentPiece)
      BY <3>1, CutInTwo
    <3> QED BY ONLY <3>2 DEF Cut
  <2> QED BY ONLY <1>8, <1>9, <2>1, Zenon
<1>11. Agent!Flush(m) = [tokens |-> a - n, queue |-> y, sent |-> s \o x, tasks |-> m.tasks,
                         waiting |-> m.waiting, readers |-> m.readers]
  <2>1. m = [tokens |-> a, queue |-> q, sent |-> s, tasks |-> m.tasks,
             waiting |-> m.waiting, readers |-> m.readers]
    BY <1>1, <1>2, <1>3
  <2>2. Agent!Flush(m) = [m EXCEPT !.sent = s \o x, !.queue = y, !.tokens = a - n]
    BY ONLY <1>1, <1>2, <1>3, <1>4, <1>8, <1>9, <2>1 DEF Agent!Flush
  <2> QED BY ONLY <2>1, <2>2
<1>12. PICK f : f = Agent!Flush(m)
  OBVIOUS
<1>13. /\ f.tokens = a - n /\ f.queue = y /\ f.sent = s \o x
       /\ f = [tokens |-> f.tokens, queue |-> f.queue, sent |-> f.sent, tasks |-> m.tasks,
               waiting |-> m.waiting, readers |-> m.readers]
  BY ONLY <1>11, <1>12
<1>14. s \o x \in Seq(AgentPiece) /\ Len(s \o x) = Len(s) + n
  BY ONLY <1>5, <1>10, ConcatProperties
<1>15. (s \o x) \o y = (s \o q) \o <<>>
  <2>1. s \o q \in Seq(AgentPiece)
    BY ONLY <1>5, ConcatProperties
  <2>2. (s \o q) \o <<>> = s \o q
    BY ONLY <2>1, ConcatEmptySeq
  <2> QED BY <1>10, <2>2
<1>16. /\ a - n \in Nat /\ a - n <= a /\ a - (a - n) <= Len(q) + 0
       /\ (a - n) + (Len(s) + n) = a + Len(s)
       /\ n # Len(q) => a - n = 0
  BY ONLY <1>6, <1>7, a \in Nat
<1>17. y # <<>> => a - n = 0
  BY <1>10, <1>16
<1>18. Len(<<>>) = 0
  BY EmptySeq
<1>19. /\ f.tokens \in Nat /\ f.queue \in Seq(AgentPiece) /\ f.sent \in Seq(AgentPiece)
       /\ f.sent \o f.queue = (m.sent \o m.queue) \o <<>>
       /\ f.queue # <<>> => f.tokens = 0
  BY ONLY <1>1, <1>2, <1>10, <1>13, <1>14, <1>15, <1>16, <1>17
<1>20. /\ f.tokens + Len(f.sent) = m.tokens + Len(m.sent)
       /\ f.tokens <= m.tokens /\ m.tokens - f.tokens <= Len(m.queue) + Len(<<>>)
  BY ONLY <1>1, <1>2, <1>3, <1>13, <1>14, <1>16, <1>18
<1> QED BY ONLY <1>12, <1>13, <1>19, <1>20 DEF SentOff

\* A message to an agent that is there.
LEMMA Sends ==
  ASSUME agent_connected, NEW m,
         m = [tokens |-> m.tokens, queue |-> m.queue, sent |-> m.sent, tasks |-> m.tasks,
              waiting |-> m.waiting, readers |-> m.readers],
         m.tokens \in Nat, m.queue \in Seq(AgentPiece), m.sent \in Seq(AgentPiece),
         NEW msg, msg \in Seq(AgentPiece)
  PROVE  SentOff(Agent!send_agent_message(m, msg), m, msg)
<1>1. PICK g : g = [m EXCEPT !.queue = @ \o msg]
  OBVIOUS
<1>2. PICK q : q = m.queue \o msg
  OBVIOUS
<1>3. q \in Seq(AgentPiece) /\ Len(q) = Len(m.queue) + Len(msg)
  BY <1>2, ConcatProperties
<1>4. g = [tokens |-> m.tokens, queue |-> q, sent |-> m.sent, tasks |-> m.tasks,
           waiting |-> m.waiting, readers |-> m.readers]
  BY ONLY <1>1, <1>2,
          m = [tokens |-> m.tokens, queue |-> m.queue, sent |-> m.sent, tasks |-> m.tasks,
               waiting |-> m.waiting, readers |-> m.readers]
<1>5. /\ g.tokens = m.tokens /\ g.queue = q /\ g.sent = m.sent /\ g.tasks = m.tasks
      /\ g.waiting = m.waiting /\ g.readers = m.readers
  BY ONLY <1>4
<1>6. PICK f : f = Agent!Flush(g)
  OBVIOUS
<1>7. SentOff(f, g, <<>>)
  BY <1>3, <1>4, <1>5, <1>6, Flushes
<1>8. f = Agent!send_agent_message(m, msg)
  BY <1>1, <1>6 DEF Agent!send_agent_message
<1>9. (m.sent \o q) \o <<>> = (m.sent \o m.queue) \o msg
  <2>1. (m.sent \o m.queue) \o msg = m.sent \o q
    BY <1>2, ConcatAssociative
  <2>2. m.sent \o q \in Seq(AgentPiece)
    BY <1>3, ConcatProperties
  <2> QED BY <2>1, <2>2, ConcatEmptySeq
<1>10. Len(<<>>) = 0 /\ Len(m.queue) \in Nat /\ Len(msg) \in Nat
  BY EmptySeq, LenProperties
<1>11. /\ f.sent \o f.queue = (m.sent \o m.queue) \o msg
       /\ f = [tokens |-> f.tokens, queue |-> f.queue, sent |-> f.sent, tasks |-> m.tasks,
               waiting |-> m.waiting, readers |-> m.readers]
       /\ f.tokens \in Nat /\ f.queue \in Seq(AgentPiece) /\ f.sent \in Seq(AgentPiece)
       /\ f.tokens + Len(f.sent) = m.tokens + Len(m.sent) /\ f.tokens <= m.tokens
       /\ f.queue # <<>> => f.tokens = 0
       /\ m.tokens - f.tokens <= Len(q) + Len(<<>>)
  BY ONLY <1>5, <1>7, <1>9 DEF SentOff
<1>12. m.tokens - f.tokens <= Len(m.queue) + Len(msg)
  BY ONLY <1>3, <1>10, <1>11
<1> QED BY ONLY <1>8, <1>11, <1>12 DEF SentOff

\* Readers, waits and tasks are all that Going looks at.
LEMMA GoesOnSame ==
  ASSUME NEW m, NEW f, f.tasks = m.tasks, f.waiting = m.waiting, f.readers = m.readers,
         NEW c, NEW ans, NEW free, Going(m, c, ans, free)
  PROVE  Going(f, c, ans, free)
<1>1. \A t : (Reads(f, t) <=> Reads(m, t)) /\ (Waits(f, t) <=> Waits(m, t))
  BY DEF Reads, Waits
<1> QED BY <1>1 DEF Going

\* A message leaves the connection what it was.
LEMMA StaysTyped ==
  ASSUME NEW m, NEW f, NEW id, NEW msg, Typed(m, id), SentOff(f, m, msg)
  PROVE  /\ Typed(f, id) /\ f.tasks = m.tasks /\ f.waiting = m.waiting /\ f.readers = m.readers
<1>1. PICK T : T = m.tasks
  OBVIOUS
<1>2. PICK W : W = m.waiting
  OBVIOUS
<1>3. PICK R : R = m.readers
  OBVIOUS
<1>4. f = [tokens |-> f.tokens, queue |-> f.queue, sent |-> f.sent, tasks |-> T,
           waiting |-> W, readers |-> R]
  BY ONLY <1>1, <1>2, <1>3, SentOff(f, m, msg) DEF SentOff
<1>5. f.tasks = T /\ f.waiting = W /\ f.readers = R
  BY ONLY <1>4
<1>6. /\ DOMAIN T \subseteq 0 .. (id - 1)
      /\ T \in [DOMAIN T -> [size : Nat \ {0}, cancelled : BOOLEAN]]
      /\ W \in Seq([task : Nat, read_bytes : Nat])
      /\ R \in SUBSET [task : Nat, sb : Nat]
  BY ONLY <1>1, <1>2, <1>3, Typed(m, id) DEF Typed
<1>7. f.tokens \in Nat /\ f.queue \in Seq(AgentPiece) /\ f.sent \in Seq(AgentPiece)
  BY ONLY SentOff(f, m, msg) DEF SentOff
<1>8. Typed(f, id)
  BY ONLY <1>4, <1>5, <1>6, <1>7 DEF Typed
<1> QED BY ONLY <1>1, <1>2, <1>3, <1>5, <1>8

\* A message that is not of a file changes nothing of the transfers.
LEMMA SendsOther ==
  ASSUME agent_connected, NEW m, NEW c, NEW ans, NEW id, NEW free,
         Transfers(m, c, ans, id, free),
         NEW p \in AgentPiece, p.what # "data", p.number = 1,
         NEW f, f = Agent!send_agent_message(m, <<p>>)
  PROVE  Transfers(f, c, ans, id, free) /\ SentOff(f, m, <<p>>)
<1>1. <<p>> \in Seq(AgentPiece)
  OBVIOUS
<1>2. /\ Typed(m, id) /\ c \in [Nat -> Nat] /\ Chunks(m.sent \o m.queue, c)
      /\ Going(m, c, ans, free)
  BY DEF Transfers
<1>3. /\ m = [tokens |-> m.tokens, queue |-> m.queue, sent |-> m.sent, tasks |-> m.tasks,
              waiting |-> m.waiting, readers |-> m.readers]
      /\ m.tokens \in Nat /\ m.queue \in Seq(AgentPiece) /\ m.sent \in Seq(AgentPiece)
  BY ONLY <1>2 DEF Typed
<1>4. SentOff(f, m, <<p>>)
  BY ONLY agent_connected, f = Agent!send_agent_message(m, <<p>>), <1>1, <1>3, Sends
<1>5. Typed(f, id) /\ f.tasks = m.tasks /\ f.waiting = m.waiting /\ f.readers = m.readers
  BY ONLY <1>2, <1>4, StaysTyped
<1>6. m.sent \o m.queue \in Seq(AgentPiece)
  BY ONLY <1>3, ConcatProperties
<1>7. Chunks((m.sent \o m.queue) \o <<p>>, c)
  BY <1>2, <1>6, ChunksOther
<1>8. /\ f.sent \o f.queue = (m.sent \o m.queue) \o <<p>>
      /\ f.queue # <<>> => f.tokens = 0
  BY ONLY <1>4 DEF SentOff
<1>9. Chunks(f.sent \o f.queue, c)
  BY ONLY <1>7, <1>8, Zenon
<1>10. Going(f, c, ans, free)
  BY ONLY <1>2, <1>5, GoesOnSame
<1> QED BY ONLY <1>2, <1>4, <1>5, <1>8, <1>9, <1>10 DEF Transfers

\* A chunk of a file that is about to go on is the next one.
LEMMA SendsChunk ==
  ASSUME agent_connected, NEW m, NEW c, NEW ans, NEW id, NEW t \in Nat,
         Transfers(m, c, ans, id, {t}), t \in ans, ~Reads(m, t), ~Waits(m, t),
         NEW f, f = Agent!send_agent_message(m, Agent!FileData(t, c[t])),
         NEW d, d = [c EXCEPT ![t] = @ + 1]
  PROVE  Transfers(f, d, ans, id, {t}) /\ SentOff(f, m, Agent!FileData(t, c[t]))
<1>1. /\ Typed(m, id) /\ c \in [Nat -> Nat] /\ Chunks(m.sent \o m.queue, c)
      /\ Going(m, c, ans, {t})
  BY DEF Transfers
<1>2. c[t] \in Nat
  BY <1>1
<1>3. PICK msg : msg = Agent!FileData(t, c[t])
  OBVIOUS
<1>4. msg \in Seq(AgentPiece)
  BY ONLY <1>2, <1>3, t \in Nat, ChunkOf
<1>5. /\ m = [tokens |-> m.tokens, queue |-> m.queue, sent |-> m.sent, tasks |-> m.tasks,
              waiting |-> m.waiting, readers |-> m.readers]
      /\ m.tokens \in Nat /\ m.queue \in Seq(AgentPiece) /\ m.sent \in Seq(AgentPiece)
  BY ONLY <1>1 DEF Typed
<1>6. SentOff(f, m, msg)
  BY ONLY agent_connected, f = Agent!send_agent_message(m, Agent!FileData(t, c[t])),
          <1>3, <1>4, <1>5, Sends
<1>7. Typed(f, id) /\ f.tasks = m.tasks /\ f.waiting = m.waiting /\ f.readers = m.readers
  BY ONLY <1>1, <1>6, StaysTyped
<1>8. m.sent \o m.queue \in Seq(AgentPiece)
  BY ONLY <1>5, ConcatProperties
<1>9. Chunks((m.sent \o m.queue) \o msg, d)
  BY <1>1, <1>3, <1>8, ChunksData
<1>10. /\ f.sent \o f.queue = (m.sent \o m.queue) \o msg
       /\ f.queue # <<>> => f.tokens = 0
  BY ONLY <1>6 DEF SentOff
<1>11. Chunks(f.sent \o f.queue, d)
  BY ONLY <1>9, <1>10, Zenon
<1>12. d \in [Nat -> Nat] /\ \A v \in Nat : v # t => d[v] = c[v]
  BY <1>1, <1>2
<1>13. Going(m, d, ans, {t})
  <2>1. /\ \A r \in m.readers : r.task \in Nat /\ r.task # t
        /\ \A i \in 1 .. Len(m.waiting) : m.waiting[i].task \in Nat /\ m.waiting[i].task # t
    <3>1. /\ m.readers \in SUBSET [task : Nat, sb : Nat]
          /\ m.waiting \in Seq([task : Nat, read_bytes : Nat])
      BY ONLY <1>1 DEF Typed
    <3>2. \A r \in m.readers : r.task \in Nat
      BY ONLY <3>1
    <3>3. \A i \in 1 .. Len(m.waiting) : m.waiting[i].task \in Nat
      <4>1. \A i \in 1 .. Len(m.waiting) : m.waiting[i] \in [task : Nat, read_bytes : Nat]
        BY ONLY <3>1, ElementOfSeq
      <4> QED BY ONLY <4>1
    <3> QED BY <3>2, <3>3 DEF Reads, Waits
  <2>2. \A v \in DOMAIN m.tasks : v # t => v \in Nat
    <3>1. DOMAIN m.tasks \subseteq 0 .. (id - 1)
      BY ONLY <1>1 DEF Typed
    <3> QED BY ONLY <3>1
  <2>3. \A v \in {t} : v = t
    OBVIOUS
  <2> QED BY ONLY <1>1, <1>12, <2>1, <2>2, <2>3, t \in ans DEF Going
<1>14. Going(f, d, ans, {t})
  BY ONLY <1>7, <1>13, GoesOnSame
<1> QED BY ONLY <1>3, <1>6, <1>7, <1>10, <1>11, <1>12, <1>14 DEF Transfers

\* No more tasks wait than there are.
LEMMA WaitsFew ==
  ASSUME NEW m, NEW c, NEW ans, NEW id \in Nat, NEW free, Transfers(m, c, ans, id, free),
         ans \subseteq 0 .. (id - 1)
  PROVE  Len(m.waiting) \in Nat /\ Len(m.waiting) <= id
<1>1. m.waiting \in Seq([task : Nat, read_bytes : Nat]) /\ Going(m, c, ans, free)
  BY DEF Transfers, Typed
<1>2. PICK n \in Nat : n = Len(m.waiting)
  BY <1>1, LenProperties
<1>3. PICK f : f = [i \in 1 .. n |-> m.waiting[i].task]
  OBVIOUS
<1>4. /\ \A i \in 1 .. n : m.waiting[i].task \in 0 .. (id - 1)
      /\ \A i, j \in 1 .. n : m.waiting[i].task = m.waiting[j].task => i = j
  BY <1>1, <1>2 DEF Going
<1>5. f \in Injection(1 .. n, 0 .. (id - 1))
  BY ONLY <1>3, <1>4 DEF Injection, IsInjective
<1>6. /\ IsFiniteSet(0 .. (id - 1)) /\ Cardinality(0 .. (id - 1)) = id
      /\ Cardinality(1 .. n) = n
  <2>1. 0 \in Int /\ id - 1 \in Int /\ 1 \in Int /\ n \in Int
    OBVIOUS
  <2>2. /\ IsFiniteSet(0 .. (id - 1))
        /\ Cardinality(0 .. (id - 1)) = IF 0 <= id - 1 THEN (id - 1) - 0 + 1 ELSE 0
        /\ Cardinality(1 .. n) = IF 1 <= n THEN n - 1 + 1 ELSE 0
    BY ONLY <2>1, FS_Interval
  <2> QED BY ONLY <2>2, id \in Nat, n \in Nat
<1>7. Cardinality(1 .. n) <= Cardinality(0 .. (id - 1))
  BY ONLY <1>5, <1>6, FS_Injection
<1> QED BY ONLY <1>2, <1>6, <1>7, n \in Nat

\* r is m after a task has gone on: one token less if it was cancelled and one
\* wait more if there was none.
GoneOn(r, m, c, ans, id) ==
  /\ Transfers(r, c, ans, id, {})
  /\ r.tokens \in Nat /\ m.tokens \in Nat /\ r.tokens <= m.tokens /\ m.tokens <= r.tokens + 1
  /\ r.tokens + Len(r.sent) = m.tokens + Len(m.sent)
  /\ m.tokens # 0 => Len(r.waiting) = Len(m.waiting)
  /\ Len(r.waiting) \in {Len(m.waiting), Len(m.waiting) + 1}

\* A task that is done, or has been deleted, does nothing.
LEMMA ReadsNothing ==
  ASSUME NEW m, NEW c, NEW ans, NEW id, NEW t \in Nat, Transfers(m, c, ans, id, {t}),
         t \in DOMAIN m.tasks => c[t] = m.tasks[t].size
  PROVE  GoneOn(m, m, c, ans, id)
<1>1. Typed(m, id) /\ Going(m, c, ans, {t})
  BY DEF Transfers
<1>2. m.tokens \in Nat
  BY ONLY <1>1 DEF Typed
<1>3. \A v : v \in {t} <=> v = t
  OBVIOUS
<1>4. Going(m, c, ans, {})
  BY ONLY <1>1, <1>3, t \in DOMAIN m.tasks => c[t] = m.tasks[t].size DEF Going
<1>5. Transfers(m, c, ans, id, {})
  BY <1>4 DEF Transfers
<1> QED BY ONLY <1>2, <1>5 DEF GoneOn

\* A task that was cancelled says so and is deleted.
LEMMA ReadsCancelled ==
  ASSUME agent_connected, NEW m, NEW c, NEW ans, NEW id, NEW t \in Nat,
         Transfers(m, c, ans, id, {t}),
         NEW r, r = [Agent!send_agent_message(m, Agent!Cancelled(t)) EXCEPT
                       !.tasks = [v \in DOMAIN @ \ {t} |-> @[v]]]
  PROVE  GoneOn(r, m, c, ans, id)
<1>1. PICK p : p = Agent!Piece("cancelled", t, 0, 1)
  OBVIOUS
<1>2. p \in AgentPiece /\ p.what # "data" /\ p.number = 1
  BY <1>1, PieceTyped
<1>3. PICK f : f = Agent!send_agent_message(m, <<p>>)
  OBVIOUS
<1>4. Transfers(f, c, ans, id, {t}) /\ SentOff(f, m, <<p>>)
  BY ONLY agent_connected, Transfers(m, c, ans, id, {t}), <1>2, <1>3, SendsOther
<1>5. r = [f EXCEPT !.tasks = [v \in DOMAIN @ \ {t} |-> @[v]]]
  BY <1>1, <1>3 DEF Agent!Cancelled
<1>6. PICK T : T = f.tasks
  OBVIOUS
<1>7. PICK U : U = [v \in DOMAIN T \ {t} |-> T[v]]
  OBVIOUS
<1>8. Typed(f, id) /\ Going(f, c, ans, {t})
  BY <1>4 DEF Transfers
<1>9. r = [tokens |-> f.tokens, queue |-> f.queue, sent |-> f.sent, tasks |-> U,
           waiting |-> f.waiting, readers |-> f.readers]
  <2>1. f = [tokens |-> f.tokens, queue |-> f.queue, sent |-> f.sent, tasks |-> f.tasks,
             waiting |-> f.waiting, readers |-> f.readers]
    BY ONLY <1>8 DEF Typed
  <2>2. r = [f EXCEPT !.tasks = U]
    BY ONLY <1>5, <1>6, <1>7
  <2> QED BY ONLY <2>1, <2>2
<1>10. /\ r.tokens = f.tokens /\ r.queue = f.queue /\ r.sent = f.sent /\ r.tasks = U
       /\ r.waiting = f.waiting /\ r.readers = f.readers
  BY ONLY <1>9
<1>11. /\ DOMAIN U = DOMAIN T \ {t}
       /\ \A v \in DOMAIN U : U[v] = T[v]
  BY ONLY <1>7
<1>12. Typed(r, id)
  <2>1. /\ f.tokens \in Nat /\ f.queue \in Seq(AgentPiece) /\ f.sent \in Seq(AgentPiece)
        /\ DOMAIN T \subseteq 0 .. (id - 1)
        /\ T \in [DOMAIN T -> [size : Nat \ {0}, cancelled : BOOLEAN]]
        /\ f.waiting \in Seq([task : Nat, read_bytes : Nat])
        /\ f.readers \in SUBSET [task : Nat, sb : Nat]
    BY ONLY <1>6, <1>8 DEF Typed
  <2>2. U \in [DOMAIN U -> [size : Nat \ {0}, cancelled : BOOLEAN]]
    BY ONLY <1>7, <1>11, <2>1
  <2>3. DOMAIN U \subseteq 0 .. (id - 1)
    BY ONLY <1>11, <2>1
  <2> QED BY ONLY <1>9, <1>10, <2>1, <2>2, <2>3 DEF Typed
<1>13. Going(r, c, ans, {})
  <2>1. \A v : (Reads(r, v) <=> Reads(f, v)) /\ (Waits(r, v) <=> Waits(f, v))
    BY <1>10 DEF Reads, Waits
  <2>2. \A v \in DOMAIN U : v \in DOMAIN T /\ v \notin {t} /\ U[v] = T[v]
    BY <1>11
  <2> QED BY ONLY <1>6, <1>8, <1>10, <2>1, <2>2 DEF Going
<1>14. Transfers(r, c, ans, id, {})
  <2>1. /\ c \in [Nat -> Nat] /\ Chunks(f.sent \o f.queue, c)
        /\ f.queue # <<>> => f.tokens = 0
    BY <1>4 DEF Transfers
  <2> QED BY ONLY <1>10, <1>12, <1>13, <2>1 DEF Transfers
<1>15. /\ f.tokens \in Nat /\ f.tokens + Len(f.sent) = m.tokens + Len(m.sent)
       /\ f.tokens <= m.tokens /\ m.tokens - f.tokens <= Len(m.queue) + Len(<<p>>)
       /\ f.waiting = m.waiting
  <2>1. Typed(m, id)
    BY DEF Transfers
  <2> QED BY ONLY <1>4, <2>1, StaysTyped DEF SentOff
<1>16. /\ m.tokens \in Nat /\ Len(<<p>>) = 1
       /\ m.tokens = 0 \/ Len(m.queue) = 0
  <2>1. Typed(m, id) /\ (m.queue # <<>> => m.tokens = 0)
    BY DEF Transfers
  <2>2. Len(<<>>) = 0
    BY EmptySeq
  <2> QED BY <2>1, <2>2 DEF Typed
<1>17. m.tokens <= f.tokens + 1
  BY ONLY <1>15, <1>16
<1> QED BY ONLY <1>10, <1>14, <1>15, <1>16, <1>17 DEF GoneOn

\* Without a token the task waits.
LEMMA ReadsLater ==
  ASSUME NEW m, NEW c, NEW ans, NEW id, NEW t \in Nat, Transfers(m, c, ans, id, {t}),
         t \in ans, ~Reads(m, t), ~Waits(m, t), m.tokens = 0,
         NEW r, r = [m EXCEPT !.waiting = Append(@, [task |-> t, read_bytes |-> c[t]])]
  PROVE  GoneOn(r, m, c, ans, id)
<1>1. /\ Typed(m, id) /\ c \in [Nat -> Nat] /\ Chunks(m.sent \o m.queue, c)
      /\ Going(m, c, ans, {t})
  BY DEF Transfers
<1>2. PICK w : w = [task |-> t, read_bytes |-> c[t]]
  OBVIOUS
<1>3. w \in [task : Nat, read_bytes : Nat] /\ w.task = t /\ w.read_bytes = c[t]
  BY <1>1, <1>2
<1>4. PICK W : W = m.waiting
  OBVIOUS
<1>5. PICK V : V = Append(W, w)
  OBVIOUS
<1>6. W \in Seq([task : Nat, read_bytes : Nat])
  BY ONLY <1>1, <1>4 DEF Typed
<1>7. PICK n \in Nat : n = Len(W)
  BY <1>6, LenProperties
<1>8. /\ V \in Seq([task : Nat, read_bytes : Nat]) /\ Len(V) = n + 1
      /\ \A i \in 1 .. n : V[i] = W[i]
      /\ V[n + 1] = w
  BY ONLY <1>3, <1>5, <1>6, <1>7, AppendProperties
<1>9. r = [tokens |-> m.tokens, queue |-> m.queue, sent |-> m.sent, tasks |-> m.tasks,
           waiting |-> V, readers |-> m.readers]
  <2>1. m = [tokens |-> m.tokens, queue |-> m.queue, sent |-> m.sent, tasks |-> m.tasks,
             waiting |-> m.waiting, readers |-> m.readers]
    BY ONLY <1>1 DEF Typed
  <2>2. r = [m EXCEPT !.waiting = V]
    BY ONLY <1>2, <1>4, <1>5,
            r = [m EXCEPT !.waiting = Append(@, [task |-> t, read_bytes |-> c[t]])]
  <2> QED BY ONLY <2>1, <2>2
<1>10. /\ r.tokens = m.tokens /\ r.queue = m.queue /\ r.sent = m.sent /\ r.tasks = m.tasks
       /\ r.waiting = V /\ r.readers = m.readers
  BY ONLY <1>9
<1>11. Typed(r, id)
  <2>1. /\ m.tokens \in Nat /\ m.queue \in Seq(AgentPiece) /\ m.sent \in Seq(AgentPiece)
        /\ DOMAIN m.tasks \subseteq 0 .. (id - 1)
        /\ m.tasks \in [DOMAIN m.tasks -> [size : Nat \ {0}, cancelled : BOOLEAN]]
        /\ m.readers \in SUBSET [task : Nat, sb : Nat]
    BY ONLY <1>1 DEF Typed
  <2> QED BY ONLY <1>8, <1>9, <1>10, <2>1 DEF Typed
<1>12. \A v : Reads(r, v) <=> Reads(m, v)
  BY ONLY <1>10 DEF Reads
<1>13. \A i \in 1 .. (n + 1) : i \in 1 .. n \/ i = n + 1
  BY ONLY n \in Nat
<1>14. \A i \in 1 .. n : i \in 1 .. (n + 1) /\ i # n + 1
  BY ONLY n \in Nat
<1>15. n + 1 \in 1 .. (n + 1)
  BY ONLY n \in Nat
<1>16. \A v : Waits(r, v) <=> Waits(m, v) \/ v = t
  BY ONLY <1>3, <1>4, <1>7, <1>8, <1>10, <1>13, <1>14, <1>15 DEF Waits
<1>17. \A i \in 1 .. n : W[i].task # t
  BY <1>4, <1>7 DEF Waits
<1>18. Going(r, c, ans, {})
  <2>0. /\ \A i \in 1 .. n : /\ W[i].task \in ans /\ W[i].read_bytes = c[W[i].task]
                             /\ ~Reads(m, W[i].task)
        /\ \A i, j \in 1 .. n : W[i].task = W[j].task => i = j
    BY ONLY <1>1, <1>4, <1>7 DEF Going
  <2>1. ASSUME NEW i \in 1 .. (n + 1)
        PROVE  /\ V[i].task \in ans /\ V[i].read_bytes = c[V[i].task]
               /\ ~Reads(r, V[i].task)
    <3>1. CASE i \in 1 .. n
      <4>1. V[i] = W[i]
        BY ONLY <1>8, <3>1
      <4> QED BY ONLY <1>12, <2>0, <3>1, <4>1, Zenon
    <3>2. CASE i = n + 1
      <4>1. V[i] = w
        BY ONLY <1>8, <3>2
      <4> QED BY ONLY <1>3, <1>12, <4>1, t \in ans, ~Reads(m, t), Zenon
    <3> QED BY <1>13, <3>1, <3>2
  <2>2. ASSUME NEW i \in 1 .. (n + 1), NEW j \in 1 .. (n + 1), V[i].task = V[j].task
        PROVE  i = j
    <3>1. CASE i \in 1 .. n /\ j \in 1 .. n
      BY ONLY <1>8, <2>0, <2>2, <3>1
    <3>2. CASE i \in 1 .. n /\ j = n + 1
      BY ONLY <1>3, <1>8, <1>17, <2>2, <3>2
    <3>3. CASE i = n + 1 /\ j \in 1 .. n
      BY ONLY <1>3, <1>8, <1>17, <2>2, <3>3
    <3> QED BY <1>13, <3>1, <3>2, <3>3
  <2>3. \A v : v \in {t} <=> v = t
    OBVIOUS
  <2>4. \A v \in DOMAIN r.tasks : v \in ans /\ v \notin {} =>
          Reads(r, v) \/ Waits(r, v) \/ c[v] = r.tasks[v].size
    BY ONLY <1>1, <1>10, <1>12, <1>16, <2>3 DEF Going
  <2> QED BY ONLY <1>1, <1>8, <1>10, <2>1, <2>2, <2>4 DEF Going
<1>19. Transfers(r, c, ans, id, {})
  BY ONLY <1>1, <1>10, <1>11, <1>18, m.tokens = 0 DEF Transfers
<1> QED BY ONLY <1>4, <1>7, <1>8, <1>10, <1>19, m.tokens = 0 DEF GoneOn

\* With a token a reader is set on the next chunk.
LEMMA ReadsNow ==
  ASSUME NEW m, NEW c, NEW ans, NEW id, NEW t \in Nat, Transfers(m, c, ans, id, {t}),
         t \in ans, ~Reads(m, t), ~Waits(m, t),
         NEW r, r = [m EXCEPT !.readers = @ \cup {[task |-> t, sb |-> c[t]]}]
  PROVE  GoneOn(r, m, c, ans, id)
<1>1. /\ Typed(m, id) /\ c \in [Nat -> Nat] /\ Chunks(m.sent \o m.queue, c)
      /\ Going(m, c, ans, {t}) /\ (m.queue # <<>> => m.tokens = 0)
  BY DEF Transfers
<1>2. PICK w : w = [task |-> t, sb |-> c[t]]
  OBVIOUS
<1>3. w \in [task : Nat, sb : Nat] /\ w.task = t /\ w.sb = c[t]
  BY <1>1, <1>2
<1>4. PICK R : R = m.readers \cup {w}
  OBVIOUS
<1>5. r = [tokens |-> m.tokens, queue |-> m.queue, sent |-> m.sent, tasks |-> m.tasks,
           waiting |-> m.waiting, readers |-> R]
  <2>1. m = [tokens |-> m.tokens, queue |-> m.queue, sent |-> m.sent, tasks |-> m.tasks,
             waiting |-> m.waiting, readers |-> m.readers]
    BY ONLY <1>1 DEF Typed
  <2>2. r = [m EXCEPT !.readers = R]
    BY ONLY <1>2, <1>4, r = [m EXCEPT !.readers = @ \cup {[task |-> t, sb |-> c[t]]}]
  <2> QED BY ONLY <2>1, <2>2
<1>6. /\ r.tokens = m.tokens /\ r.queue = m.queue /\ r.sent = m.sent /\ r.tasks = m.tasks
      /\ r.waiting = m.waiting /\ r.readers = R
  BY ONLY <1>5
<1>7. Typed(r, id)
  <2>1. /\ m.tokens \in Nat /\ m.queue \in Seq(AgentPiece) /\ m.sent \in Seq(AgentPiece)
        /\ DOMAIN m.tasks \subseteq 0 .. (id - 1)
        /\ m.tasks \in [DOMAIN m.tasks -> [size : Nat \ {0}, cancelled : BOOLEAN]]
        /\ m.waiting \in Seq([task : Nat, read_bytes : Nat])
        /\ m.readers \in SUBSET [task : Nat, sb : Nat]
    BY ONLY <1>1 DEF Typed
  <2>2. R \in SUBSET [task : Nat, sb : Nat]
    BY ONLY <1>3, <1>4, <2>1
  <2> QED BY ONLY <1>5, <1>6, <2>1, <2>2 DEF Typed
<1>8. \A v : Reads(r, v) <=> Reads(m, v) \/ v = t
  BY ONLY <1>3, <1>4, <1>6 DEF Reads
<1>9. \A v : Waits(r, v) <=> Waits(m, v)
  BY ONLY <1>6 DEF Waits
<1>10. \A q \in R : q \in m.readers \/ q = w
  BY ONLY <1>4
<1>11. Going(r, c, ans, {})
  <2>1. \A q \in R : q.task \in ans /\ q.sb = c[q.task]
    BY ONLY <1>1, <1>3, <1>10, t \in ans DEF Going
  <2>2. \A p, q \in R : p.task = q.task => p = q
    BY ONLY <1>1, <1>3, <1>10, ~Reads(m, t) DEF Going, Reads
  <2>3. \A i \in 1 .. Len(m.waiting) : ~Reads(r, m.waiting[i].task)
    BY ONLY <1>1, <1>8, ~Waits(m, t) DEF Going, Waits
  <2>4. \A v : v \in {t} <=> v = t
    OBVIOUS
  <2> QED BY ONLY <1>1, <1>6, <1>8, <1>9, <2>1, <2>2, <2>3, <2>4 DEF Going
<1>12. Transfers(r, c, ans, id, {})
  BY ONLY <1>1, <1>6, <1>7, <1>11 DEF Transfers
<1>13. m.tokens \in Nat
  BY ONLY <1>1 DEF Typed
<1> QED BY ONLY <1>6, <1>12, <1>13 DEF GoneOn

\* The next step of a task that has no reader and does not wait.
LEMMA ReadsOn ==
  ASSUME agent_connected, NEW m, NEW c, NEW ans, NEW id, NEW t \in Nat,
         Transfers(m, c, ans, id, {t}), t \in ans, ~Reads(m, t), ~Waits(m, t),
         NEW r, r = Agent!file_xfer_read(m, t, c[t])
  PROVE  GoneOn(r, m, c, ans, id)
<1>1. CASE t \notin DOMAIN m.tasks \/ (c[t] > 0 /\ c[t] = m.tasks[t].size)
  <2>1. r = m
    BY <1>1 DEF Agent!file_xfer_read
  <2>2. t \in DOMAIN m.tasks => c[t] = m.tasks[t].size
    BY <1>1
  <2> QED BY <2>1, <2>2, ReadsNothing
<1>2. CASE ~(t \notin DOMAIN m.tasks \/ (c[t] > 0 /\ c[t] = m.tasks[t].size))
  <2>1. CASE m.tasks[t].cancelled
    <3>1. r = [Agent!send_agent_message(m, Agent!Cancelled(t)) EXCEPT
                 !.tasks = [v \in DOMAIN @ \ {t} |-> @[v]]]
      BY <1>2, <2>1 DEF Agent!file_xfer_read
    <3> QED BY <3>1, ReadsCancelled
  <2>2. CASE ~m.tasks[t].cancelled /\ m.tokens = 0
    <3>1. r = [m EXCEPT !.waiting = Append(@, [task |-> t, read_bytes |-> c[t]])]
      BY <1>2, <2>2 DEF Agent!file_xfer_read
    <3> QED BY <2>2, <3>1, ReadsLater
  <2>3. CASE ~m.tasks[t].cancelled /\ m.tokens # 0
    <3>1. r = [m EXCEPT !.readers = @ \cup {[task |-> t, sb |-> c[t]]}]
      BY <1>2, <2>3 DEF Agent!file_xfer_read
    <3> QED BY <3>1, ReadsNow
  <2> QED BY <2>1, <2>2, <2>3
<1> QED BY <1>1, <1>2

\* r is m after the task that has waited longest has had its turn.
TurnTaken(r, m, c, ans, id) ==
  /\ Transfers(r, c, ans, id, {})
  /\ r.tokens \in Nat /\ m.tokens \in Nat /\ r.tokens <= m.tokens /\ m.tokens <= r.tokens + 1
  /\ r.tokens + Len(r.sent) = m.tokens + Len(m.sent)
  /\ Len(r.waiting) \in Nat /\ Len(m.waiting) \in Nat
  /\ m.tokens # 0 => IF Len(m.waiting) = 0 THEN Len(r.waiting) = 0
                                           ELSE Len(r.waiting) + 1 = Len(m.waiting)

\* The task that has waited longest goes on.
LEMMA NextGoesOn ==
  ASSUME agent_connected, NEW m, NEW c, NEW ans, NEW id, Transfers(m, c, ans, id, {}),
         NEW r, r = Agent!ReadNext(m)
  PROVE  TurnTaken(r, m, c, ans, id)
<1>1. /\ Typed(m, id) /\ c \in [Nat -> Nat] /\ Chunks(m.sent \o m.queue, c)
      /\ Going(m, c, ans, {}) /\ (m.queue # <<>> => m.tokens = 0)
  BY DEF Transfers
<1>2. PICK W : W = m.waiting
  OBVIOUS
<1>3. W \in Seq([task : Nat, read_bytes : Nat]) /\ m.tokens \in Nat
  BY ONLY <1>1, <1>2 DEF Typed
<1>4. PICK n \in Nat : n = Len(W)
  BY <1>3, LenProperties
<1>5. CASE W = <<>>
  <2>1. r = m
    BY <1>2, <1>5 DEF Agent!ReadNext
  <2>2. Len(W) = 0
    BY ONLY <1>5, EmptySeq
  <2> QED BY ONLY <1>2, <1>3, <2>1, <2>2, Transfers(m, c, ans, id, {}) DEF TurnTaken
<1>6. CASE W # <<>>
  <2>1. PICK w : w = Head(W)
    OBVIOUS
  <2>2. PICK V : V = Tail(W)
    OBVIOUS
  <2>3. /\ w \in [task : Nat, read_bytes : Nat] /\ w = W[1]
        /\ V \in Seq([task : Nat, read_bytes : Nat]) /\ Len(V) = n - 1
        /\ \A i \in 1 .. (n - 1) : V[i] = W[i + 1]
    <3>1. /\ Head(W) \in [task : Nat, read_bytes : Nat]
          /\ Tail(W) \in Seq([task : Nat, read_bytes : Nat]) /\ Len(Tail(W)) = Len(W) - 1
          /\ \A i \in 1 .. Len(Tail(W)) : Tail(W)[i] = W[i + 1]
      BY ONLY <1>3, <1>6, HeadTailProperties
    <3>2. Head(W) = W[1]
      BY ONLY <1>3, <1>6
    <3> QED BY ONLY <1>4, <2>1, <2>2, <3>1, <3>2
  <2>4. n # 0
    BY ONLY <1>3, <1>4, <1>6, EmptySeq
  <2>5. PICK t \in Nat : t = w.task
    BY <2>3
  <2>6. PICK g : g = [m EXCEPT !.waiting = V]
    OBVIOUS
  <2>7. g = [tokens |-> m.tokens, queue |-> m.queue, sent |-> m.sent, tasks |-> m.tasks,
             waiting |-> V, readers |-> m.readers]
    <3>1. m = [tokens |-> m.tokens, queue |-> m.queue, sent |-> m.sent, tasks |-> m.tasks,
               waiting |-> m.waiting, readers |-> m.readers]
      BY ONLY <1>1 DEF Typed
    <3> QED BY ONLY <2>6, <3>1
  <2>8. /\ g.tokens = m.tokens /\ g.queue = m.queue /\ g.sent = m.sent /\ g.tasks = m.tasks
        /\ g.waiting = V /\ g.readers = m.readers
    BY ONLY <2>7
  <2>9. Typed(g, id)
    <3>1. /\ m.tokens \in Nat /\ m.queue \in Seq(AgentPiece) /\ m.sent \in Seq(AgentPiece)
          /\ DOMAIN m.tasks \subseteq 0 .. (id - 1)
          /\ m.tasks \in [DOMAIN m.tasks -> [size : Nat \ {0}, cancelled : BOOLEAN]]
          /\ m.readers \in SUBSET [task : Nat, sb : Nat]
      BY ONLY <1>1 DEF Typed
    <3> QED BY ONLY <2>3, <2>7, <2>8, <3>1 DEF Typed
  <2>10. \A v : Reads(g, v) <=> Reads(m, v)
    BY ONLY <2>8 DEF Reads
  <2>11. /\ \A i \in 1 .. n : /\ W[i].task \in ans /\ W[i].read_bytes = c[W[i].task]
                              /\ ~Reads(m, W[i].task)
         /\ \A i, j \in 1 .. n : W[i].task = W[j].task => i = j
    BY ONLY <1>1, <1>2, <1>4 DEF Going
  <2>12. 1 \in 1 .. n /\ \A i \in 1 .. (n - 1) : i + 1 \in 1 .. n /\ i + 1 # 1
    BY ONLY <2>4, n \in Nat
  <2>13. t \in ans /\ w.read_bytes = c[t] /\ ~Reads(g, t)
    BY ONLY <2>3, <2>5, <2>10, <2>11, <2>12, Zenon
  <2>14. ~Waits(g, t)
    <3>1. ASSUME NEW i \in 1 .. (n - 1), V[i].task = t PROVE FALSE
      <4>1. V[i] = W[i + 1] /\ i + 1 \in 1 .. n /\ i + 1 # 1 /\ 1 \in 1 .. n
        BY ONLY <2>3, <2>12, i \in 1 .. (n - 1)
      <4> QED BY ONLY <2>3, <2>5, <2>11, <3>1, <4>1, Zenon
    <3> QED BY ONLY <2>3, <2>8, <3>1 DEF Waits
  <2>15. ASSUME NEW v, Waits(m, v), v # t PROVE Waits(g, v)
    <3>1. PICK i \in 1 .. n : W[i].task = v
      BY ONLY <1>2, <1>4, <2>15 DEF Waits
    <3>2. i # 1
      BY <2>3, <2>5, <2>15, <3>1
    <3>3. i - 1 \in 1 .. (n - 1) /\ (i - 1) + 1 = i
      BY ONLY <3>2, n \in Nat, i \in 1 .. n
    <3>4. V[i - 1].task = v
      BY <2>3, <3>1, <3>3
    <3> QED BY ONLY <2>3, <2>8, <3>3, <3>4 DEF Waits
  <2>16. Going(g, c, ans, {t})
    <3>1. ASSUME NEW i \in 1 .. (n - 1)
          PROVE  /\ V[i].task \in ans /\ V[i].read_bytes = c[V[i].task]
                 /\ ~Reads(g, V[i].task)
      <4>1. V[i] = W[i + 1] /\ i + 1 \in 1 .. n
        BY ONLY <2>3, <2>12, i \in 1 .. (n - 1)
      <4> QED BY ONLY <2>10, <2>11, <4>1, Zenon
    <3>2. ASSUME NEW i \in 1 .. (n - 1), NEW j \in 1 .. (n - 1), V[i].task = V[j].task
          PROVE  i = j
      <4>1. V[i] = W[i + 1] /\ i + 1 \in 1 .. n /\ V[j] = W[j + 1] /\ j + 1 \in 1 .. n
        BY ONLY <2>3, <2>12, i \in 1 .. (n - 1), j \in 1 .. (n - 1)
      <4>2. i + 1 = j + 1
        BY ONLY <2>11, <3>2, <4>1, Zenon
      <4> QED BY ONLY <4>2, n \in Nat, i \in 1 .. (n - 1), j \in 1 .. (n - 1)
    <3>3. \A v : v \in {t} <=> v = t
      OBVIOUS
    <3>4. \A v \in DOMAIN g.tasks : v \in ans /\ v \notin {t} =>
            Reads(g, v) \/ Waits(g, v) \/ c[v] = g.tasks[v].size
      BY ONLY <1>1, <2>8, <2>10, <2>15, <3>3 DEF Going
    <3>5. /\ \A q \in g.readers : q.task \in ans /\ q.sb = c[q.task]
          /\ \A p, q \in g.readers : p.task = q.task => p = q
          /\ \A v \in Nat : v \notin ans => c[v] = 0
      BY ONLY <1>1, <2>8 DEF Going
    <3>6. Len(g.waiting) = n - 1 /\ g.waiting = V
      BY ONLY <2>3, <2>8
    <3> QED BY ONLY <3>1, <3>2, <3>4, <3>5, <3>6 DEF Going
  <2>17. Transfers(g, c, ans, id, {t})
    BY ONLY <1>1, <2>8, <2>9, <2>16 DEF Transfers
  <2>18. r = Agent!file_xfer_read(g, t, c[t])
    <3>1. r = Agent!file_xfer_read(g, w.task, w.read_bytes)
      BY <1>2, <1>6, <2>1, <2>2, <2>6 DEF Agent!ReadNext
    <3> QED BY ONLY <2>5, <2>13, <3>1
  <2>19. GoneOn(r, g, c, ans, id)
    BY <2>13, <2>14, <2>17, <2>18, ReadsOn
  <2>20. n - 1 \in Nat /\ n - 1 + 1 = n /\ n - 1 + 1 \in Nat
    BY ONLY <2>4, n \in Nat
  <2>21. Len(r.waiting) \in {n - 1, n - 1 + 1} /\ (m.tokens # 0 => Len(r.waiting) = n - 1)
    BY ONLY <2>3, <2>8, <2>19 DEF GoneOn
  <2>22. /\ Len(r.waiting) \in Nat /\ Len(m.waiting) \in Nat
         /\ m.tokens # 0 => IF Len(m.waiting) = 0 THEN Len(r.waiting) = 0
                                                  ELSE Len(r.waiting) + 1 = Len(m.waiting)
    BY ONLY <1>2, <1>4, <2>4, <2>20, <2>21, n \in Nat
  <2> QED BY ONLY <2>8, <2>19, <2>22 DEF GoneOn, TurnTaken
<1> QED BY <1>5, <1>6

\* The turns of the loop over the tasks that wait, n of them.
Readings(f, n, m) ==
  f = [turn \in 0 .. n |-> IF turn = 0 THEN m ELSE Agent!ReadNext(f[turn - 1])]

\* There is a function that takes the turns.
LEMMA ReadingsExist ==
  ASSUME NEW n \in Nat, NEW m
  PROVE  \E f : Readings(f, n, m)
<1> DEFINE I == {e \in Nat : ~\E f : Readings(f, e, m)}
<1> SUFFICES ASSUME I # {} PROVE FALSE
  OBVIOUS
<1>1. PICK e \in I : \A x \in I : e <= x
  <2>1. I \subseteq Nat /\ I # {}
    OBVIOUS
  <2> HIDE DEF I
  <2> QED BY <2>1, LeastNat
<1>2. e \in Nat /\ ~\E f : Readings(f, e, m)
  OBVIOUS
<1>3. CASE e = 0
  <2> DEFINE f == [turn \in 0 .. 0 |-> m]
  <2>1. f = [turn \in 0 .. 0 |-> IF turn = 0 THEN m ELSE Agent!ReadNext(f[turn - 1])]
    <3>1. \A turn \in 0 .. 0 : turn = 0
      OBVIOUS
    <3> QED BY <3>1
  <2> QED BY <1>2, <1>3, <2>1 DEF Readings
<1>4. CASE e # 0
  <2>1. e - 1 \in Nat /\ e - 1 \notin I
    <3>1. e - 1 \in Nat /\ ~(e <= e - 1)
      BY ONLY <1>2, <1>4
    <3> HIDE DEF I
    <3> QED BY ONLY <1>1, <3>1
  <2>2. PICK g : Readings(g, e - 1, m)
    BY <2>1
  <2> DEFINE f == [turn \in 0 .. e |-> IF turn = e THEN Agent!ReadNext(g[e - 1]) ELSE g[turn]]
             k == [turn \in 0 .. e |-> IF turn = 0 THEN m ELSE Agent!ReadNext(f[turn - 1])]
  <2>3. ASSUME NEW i \in 0 .. e PROVE f[i] = k[i]
    <3>1. i \in Int /\ e \in Int /\ e > 0 /\ i >= 0 /\ i <= e
      BY <1>2, <1>4
    <3>2. CASE i = e
      <4>1. e - 1 \in 0 .. e /\ e - 1 # e /\ e # 0
        BY <3>1
      <4>2. f[e - 1] = g[e - 1]
        BY <4>1
      <4> QED BY <3>2, <4>1, <4>2
    <3>3. CASE i # e /\ i # 0
      <4>1. i - 1 \in 0 .. e /\ i - 1 # e /\ i \in 0 .. (e - 1)
        BY <3>1, <3>3
      <4>2. g[i] = Agent!ReadNext(g[i - 1])
        BY <2>2, <3>3, <4>1 DEF Readings
      <4> QED BY <3>3, <4>1, <4>2
    <3>4. CASE i = 0
      <4>1. 0 \in 0 .. (e - 1) /\ 0 # e
        BY <3>1
      <4>2. g[0] = m
        BY <2>2, <4>1 DEF Readings
      <4> QED BY <3>4, <4>1, <4>2
    <3> QED BY <3>2, <3>3, <3>4
  <2>4. f = k
    BY <2>3
  <2>5. Readings(f, e, m)
    BY <2>4 DEF Readings
  <2> QED BY <1>2, <2>5
<1> QED BY <1>3, <1>4

\* r is m after a turn for each of its tokens.
Resumed(r, m, c, ans, id) ==
  /\ Transfers(r, c, ans, id, {})
  /\ r.tokens \in Nat /\ r.tokens <= m.tokens
  /\ r.tokens + Len(r.sent) = m.tokens + Len(m.sent)
  /\ Len(r.waiting) = 0 \/ Len(r.waiting) + m.tokens = Len(m.waiting)

\* As many tasks go on as there are tokens.
LEMMA Resumes ==
  ASSUME agent_connected, NEW m, NEW c, NEW ans, NEW id, Transfers(m, c, ans, id, {})
  PROVE  Resumed(Agent!Resume(m), m, c, ans, id)
<1>1. PICK n \in Nat : n = m.tokens
  BY DEF Transfers, Typed
<1>2. PICK k \in Nat : k = Len(m.sent)
  BY LenProperties DEF Transfers, Typed
<1>3. PICK w \in Nat : w = Len(m.waiting)
  BY LenProperties DEF Transfers, Typed
<1>4. PICK f : Readings(f, n, m) /\ Agent!Resume(m) = f[n]
  <2>1. PICK f : f = CHOOSE g : g = [turn \in 0 .. n |-> IF turn = 0 THEN m
                                                         ELSE Agent!ReadNext(g[turn - 1])]
    OBVIOUS
  <2>2. Readings(f, n, m)
    <3>1. PICK g : Readings(g, n, m)
      BY ReadingsExist
    <3>2. g = [turn \in 0 .. n |-> IF turn = 0 THEN m ELSE Agent!ReadNext(g[turn - 1])]
      BY <3>1 DEF Readings
    <3>3. f = [turn \in 0 .. n |-> IF turn = 0 THEN m ELSE Agent!ReadNext(f[turn - 1])]
      BY ONLY <2>1, <3>2, Zenon
    <3> QED BY <3>3 DEF Readings
  <2>3. Agent!Resume(m) = f[n]
    BY <1>1, <2>1 DEF Agent!Resume
  <2> QED BY <2>2, <2>3
<1>5. /\ f[0] = m
      /\ \A turn \in 1 .. n : f[turn] = Agent!ReadNext(f[turn - 1])
  BY ONLY <1>4, n \in Nat DEF Readings
<1> DEFINE Fine(i) == /\ Transfers(f[i], c, ans, id, {})
                      /\ f[i].tokens \in Nat /\ f[i].tokens <= n /\ n <= f[i].tokens + i
                      /\ f[i].tokens + Len(f[i].sent) = n + k
                      /\ Len(f[i].waiting) \in Nat
                      /\ Len(f[i].waiting) = 0 \/ Len(f[i].waiting) + i = w
           I == {i \in 0 .. n : ~Fine(i)}
<1>6. ASSUME NEW i \in 1 .. n, Fine(i - 1) PROVE Fine(i)
  <2>1. PICK s : s = f[i - 1]
    OBVIOUS
  <2>2. PICK r : r = f[i]
    OBVIOUS
  <2>3. /\ Transfers(s, c, ans, id, {})
        /\ s.tokens \in Nat /\ s.tokens <= n /\ n <= s.tokens + (i - 1)
        /\ s.tokens + Len(s.sent) = n + k
        /\ Len(s.waiting) \in Nat
        /\ Len(s.waiting) = 0 \/ Len(s.waiting) + (i - 1) = w
    BY <1>6, <2>1
  <2>4. r = Agent!ReadNext(s)
    BY <1>5, <2>1, <2>2
  <2>5. TurnTaken(r, s, c, ans, id)
    BY ONLY agent_connected, <2>3, <2>4, NextGoesOn
  <2>6. /\ Transfers(r, c, ans, id, {})
        /\ r.tokens \in Nat /\ r.tokens <= s.tokens /\ s.tokens <= r.tokens + 1
        /\ r.tokens + Len(r.sent) = s.tokens + Len(s.sent)
        /\ Len(r.waiting) \in Nat
        /\ s.tokens # 0 => IF Len(s.waiting) = 0 THEN Len(r.waiting) = 0
                                                 ELSE Len(r.waiting) + 1 = Len(s.waiting)
    BY ONLY <2>5 DEF TurnTaken
  <2>7. PICK a \in Nat : a = s.tokens
    BY <2>3
  <2>8. PICK b \in Nat : b = r.tokens
    BY <2>6
  <2>9. PICK u \in Nat : u = Len(s.waiting)
    BY <2>3
  <2>10. PICK v \in Nat : v = Len(r.waiting)
    BY <2>6
  <2>11. /\ b <= n /\ n <= b + i /\ (v = 0 \/ v + i = w)
    <3>1. /\ a <= n /\ n <= a + (i - 1) /\ (u = 0 \/ u + (i - 1) = w)
          /\ b <= a /\ a <= b + 1
          /\ a # 0 => IF u = 0 THEN v = 0 ELSE v + 1 = u
      BY ONLY <2>3, <2>6, <2>7, <2>8, <2>9, <2>10
    <3> QED BY ONLY <3>1, i \in 1 .. n, n \in Nat, a \in Nat, b \in Nat, u \in Nat, v \in Nat,
                    w \in Nat
  <2>12. r.tokens + Len(r.sent) = n + k
    BY ONLY <2>3, <2>6
  <2> QED BY ONLY <2>2, <2>6, <2>8, <2>10, <2>11, <2>12
<1>7. Fine(0)
  <2>1. f[0] = m
    BY <1>5
  <2> QED BY ONLY <1>1, <1>2, <1>3, <2>1, n \in Nat, k \in Nat, w \in Nat,
                  Transfers(m, c, ans, id, {})
<1> HIDE DEF Fine
<1>8. I = {}
  <2> SUFFICES ASSUME I # {} PROVE FALSE
    OBVIOUS
  <2>1. PICK i \in I : \A x \in I : i <= x
    <3>1. I \subseteq Nat /\ I # {}
      OBVIOUS
    <3> HIDE DEF I
    <3> QED BY <3>1, LeastNat
  <2>2. i \in 0 .. n /\ ~Fine(i) /\ i # 0
    BY <1>7
  <2>3. i \in 1 .. n /\ i - 1 \in 0 .. n /\ ~(i <= i - 1)
    BY <2>2
  <2>4. i - 1 \notin I
    <3> HIDE DEF I
    <3> QED BY <2>1, <2>3
  <2>5. Fine(i - 1)
    BY <2>3, <2>4
  <2> QED BY <1>6, <2>2, <2>3, <2>5
<1>9. Fine(n)
  <2>1. n \in 0 .. n /\ n \notin I
    BY <1>8
  <2> QED BY <2>1
<1>10. PICK r : r = Agent!Resume(m)
  OBVIOUS
<1>11. /\ Transfers(r, c, ans, id, {})
       /\ r.tokens \in Nat /\ r.tokens <= n
       /\ r.tokens + Len(r.sent) = n + k
       /\ Len(r.waiting) = 0 \/ Len(r.waiting) + n = w
  BY ONLY <1>4, <1>9, <1>10 DEF Fine
<1> QED BY ONLY <1>1, <1>2, <1>3, <1>10, <1>11 DEF Resumed

\* The agent has m, and the transfers go on.
LEMMA NowTransfers ==
  ASSUME NEW m, NEW c, NEW ans, NEW id, NEW k,
         Agent!Becomes(m), agent_connected', file_xfer_task_id' = id, answered' = ans,
         returned' = k, id \in Nat, k \in Nat, ans \subseteq 0 .. (id - 1),
         Transfers(m, c, ans, id, {}), k <= Len(m.sent),
         m.tokens + Len(m.sent) - k \in Tokens,
         Enough(m, m.tokens + Len(m.sent) - k, id)
  PROVE  AgentInv'
<1>1. Typed(m, id)
  BY DEF Transfers
<1>2. Agent!Main' = m
  <2>1. m = [tokens |-> m.tokens, queue |-> m.queue, sent |-> m.sent, tasks |-> m.tasks,
             waiting |-> m.waiting, readers |-> m.readers]
    BY ONLY <1>1 DEF Typed
  <2> QED BY <2>1 DEF Agent!Becomes, Agent!Main
<1>3. sent' = m.sent /\ agent_tokens' = m.tokens
  BY DEF Agent!Becomes
<1>4. m.sent \in Seq(AgentPiece)
  BY ONLY <1>1 DEF Typed
<1>5. Len(m.sent) \in Nat
  BY <1>4, LenProperties
<1>6. k \in 0 .. Len(m.sent)
  BY ONLY <1>5, k \in Nat, k <= Len(m.sent)
<1>7. Agent!Given' = m.tokens + Len(m.sent) - k
  BY <1>3 DEF Agent!Given
<1> QED BY <1>2, <1>3, <1>6, <1>7 DEF AgentInv

\* What holds while an agent is there and nothing has been broken.
UnderWay(c, k, n) ==
  /\ file_xfer_task_id \in Nat /\ answered \subseteq 0 .. (file_xfer_task_id - 1)
  /\ k \in Nat /\ k = returned /\ n \in Nat /\ n = Len(sent) /\ k <= n
  /\ agent_tokens \in Nat /\ agent_tokens + n - k \in Tokens /\ agent_tokens + n - k \in Nat
  /\ Len(file_xfer_read_queue) \in Nat
  /\ Enough(Agent!Main, agent_tokens + n - k, file_xfer_task_id)
  /\ Transfers(Agent!Main, c, answered, file_xfer_task_id, {})

\* The parts of the main connection.
LEMMA PartsOfMain ==
  /\ Agent!Main.tokens = agent_tokens /\ Agent!Main.queue = agent_msg_queue
  /\ Agent!Main.sent = sent /\ Agent!Main.tasks = file_xfer_tasks
  /\ Agent!Main.waiting = file_xfer_read_queue /\ Agent!Main.readers = readers
BY DEF Agent!Main

\* The invariant in that case.
LEMMA IsUnderWay ==
  ASSUME AgentInv, ~broken, agent_connected
  PROVE  \E c, k, n : UnderWay(c, k, n)
<1>1. /\ file_xfer_task_id \in Nat /\ answered \subseteq 0 .. (file_xfer_task_id - 1)
      /\ returned \in 0 .. Len(sent) /\ Agent!Given \in Tokens
      /\ Enough(Agent!Main, Agent!Given, file_xfer_task_id)
  BY DEF AgentInv
<1>2. PICK c : Transfers(Agent!Main, c, answered, file_xfer_task_id, {})
  BY DEF AgentInv
<1>3. /\ sent \in Seq(AgentPiece) /\ agent_tokens \in Nat
      /\ file_xfer_read_queue \in Seq([task : Nat, read_bytes : Nat])
  <2>1. Typed(Agent!Main, file_xfer_task_id)
    BY <1>2 DEF Transfers
  <2> QED BY ONLY <2>1, PartsOfMain DEF Typed
<1>4. Len(sent) \in Nat /\ Len(file_xfer_read_queue) \in Nat
  BY <1>3, LenProperties
<1>5. PICK n : n = Len(sent)
  OBVIOUS
<1>6. PICK k : k = returned
  OBVIOUS
<1>7. k \in Nat /\ k <= n
  BY ONLY <1>1, <1>4, <1>5, <1>6
<1>8. Agent!Given = agent_tokens + n - k
  BY ONLY <1>5, <1>6 DEF Agent!Given
<1>9. agent_tokens + n - k \in Nat
  BY ONLY <1>3, <1>4, <1>5, <1>7
<1> QED BY ONLY <1>1, <1>2, <1>3, <1>4, <1>5, <1>6, <1>7, <1>8, <1>9 DEF UnderWay

\* A step that loses no token and gives none back.
LEMMA StillUnderWay ==
  ASSUME NEW c, NEW k, NEW n, UnderWay(c, k, n), agent_connected', returned' = returned,
         NEW m, NEW d, NEW ans, NEW id, Agent!Becomes(m), answered' = ans,
         file_xfer_task_id' = id, id \in Nat, file_xfer_task_id <= id, ans \subseteq 0 .. (id - 1),
         Transfers(m, d, ans, id, {}), m.tokens <= agent_tokens,
         m.tokens + Len(m.sent) = agent_tokens + Len(sent),
         m.tokens # 0 => Len(m.waiting) <= Len(file_xfer_read_queue)
  PROVE  AgentInv'
<1>1. m.tokens \in Nat /\ m.sent \in Seq(AgentPiece)
  <2>1. Typed(m, id)
    BY DEF Transfers
  <2> QED BY ONLY <2>1 DEF Typed
<1>2. Len(m.sent) \in Nat
  BY <1>1, LenProperties
<1>3. Len(m.waiting) \in Nat /\ Len(m.waiting) <= id
  BY WaitsFew
<1>4. /\ k \in Nat /\ k = returned /\ n \in Nat /\ n = Len(sent) /\ k <= n
      /\ agent_tokens \in Nat /\ agent_tokens + n - k \in Tokens
      /\ Len(file_xfer_read_queue) \in Nat /\ file_xfer_task_id \in Nat
      /\ file_xfer_task_id <= agent_tokens + n - k
           => Len(file_xfer_read_queue) + agent_tokens <= agent_tokens + n - k
  BY ONLY UnderWay(c, k, n), PartsOfMain DEF UnderWay, Enough
<1>5. PICK a \in Nat : a = agent_tokens
  BY <1>4
<1>6. PICK b \in Nat : b = m.tokens
  BY <1>1
<1>7. PICK p \in Nat : p = Len(m.sent)
  BY <1>2
<1>8. PICK w \in Nat : w = Len(file_xfer_read_queue)
  BY <1>4
<1>9. PICK v \in Nat : v = Len(m.waiting)
  BY <1>3
<1>10. PICK i \in Nat : i = file_xfer_task_id
  BY <1>4
<1>11. /\ b <= a /\ b + p = a + n /\ (b # 0 => v <= w) /\ v <= id /\ i <= id
       /\ i <= a + n - k => w + a <= a + n - k
  BY ONLY <1>3, <1>4, <1>5, <1>6, <1>7, <1>8, <1>9, <1>10, m.tokens <= agent_tokens,
          m.tokens + Len(m.sent) = agent_tokens + Len(sent), file_xfer_task_id <= id,
          m.tokens # 0 => Len(m.waiting) <= Len(file_xfer_read_queue)
<1>12. k <= p /\ b + p - k = a + n - k /\ (id <= b + p - k => v + b <= b + p - k)
  BY ONLY <1>11, <1>4, a \in Nat, b \in Nat, p \in Nat, w \in Nat, v \in Nat, i \in Nat, n \in Nat,
          k \in Nat, id \in Nat
<1>13. /\ k <= Len(m.sent) /\ m.tokens + Len(m.sent) - k \in Tokens
       /\ Enough(m, m.tokens + Len(m.sent) - k, id)
  BY ONLY <1>4, <1>5, <1>6, <1>7, <1>9, <1>12 DEF Enough
<1>14. k \in Nat /\ returned' = k
  BY <1>4
<1> QED BY ONLY <1>13, <1>14, NowTransfers, Agent!Becomes(m), agent_connected', answered' = ans,
                file_xfer_task_id' = id, id \in Nat, ans \subseteq 0 .. (id - 1),
                Transfers(m, d, ans, id, {})

\* Initially there is no agent and no file.
LEMMA AgentInit ==
  ASSUME Agent!Init
  PROVE  AgentInv
<1>1. /\ <<>> \in Seq(AgentPiece) /\ <<>> \in Seq([task : Nat, read_bytes : Nat])
      /\ Len(<<>>) = 0 /\ <<>> \o <<>> = <<>> /\ DOMAIN <<>> = {}
  OBVIOUS
<1>2. /\ agent_tokens = 0 /\ agent_msg_queue = <<>> /\ sent = <<>> /\ file_xfer_tasks = <<>>
      /\ file_xfer_read_queue = <<>> /\ readers = {} /\ file_xfer_task_id = 0
      /\ ~agent_connected /\ answered = {}
  BY DEF Agent!Init
<1>3. PICK T : T = file_xfer_tasks
  OBVIOUS
<1>4. DOMAIN T = {} /\ T \in [DOMAIN T -> [size : Nat \ {0}, cancelled : BOOLEAN]]
  <2>1. <<>> \in [{} -> [size : Nat \ {0}, cancelled : BOOLEAN]]
    OBVIOUS
  <2> QED BY ONLY <1>1, <1>2, <1>3, <2>1
<1>5. Typed(Agent!Main, 0)
  <2>1. /\ agent_tokens \in Nat /\ agent_msg_queue \in Seq(AgentPiece) /\ sent \in Seq(AgentPiece)
        /\ file_xfer_read_queue \in Seq([task : Nat, read_bytes : Nat])
        /\ readers \in SUBSET [task : Nat, sb : Nat]
    BY ONLY <1>1, <1>2
  <2>2. DOMAIN file_xfer_tasks \subseteq 0 .. (0 - 1)
    BY ONLY <1>3, <1>4
  <2>3. file_xfer_tasks \in [DOMAIN file_xfer_tasks -> [size : Nat \ {0}, cancelled : BOOLEAN]]
    BY ONLY <1>3, <1>4
  <2> QED BY ONLY <2>1, <2>2, <2>3, PartsOfMain DEF Typed, Agent!Main
<1>6. \E c \in [Nat -> Nat] : Chunks(sent \o agent_msg_queue, c)
  <2> DEFINE c == [t \in Nat |-> 0]
  <2>1. c \in [Nat -> Nat] /\ \A t \in Nat : c[t] = 0
    OBVIOUS
  <2>2. Len(sent \o agent_msg_queue) = 0
    BY ONLY <1>1, <1>2
  <2> HIDE DEF c
  <2>3. Chunks(sent \o agent_msg_queue, c)
    BY ONLY <2>1, <2>2 DEF Chunks
  <2> QED BY <2>1, <2>3
<1> QED BY ONLY <1>2, <1>3, <1>4, <1>5, <1>6 DEF AgentInv

\* An agent that connects has none of the files.
LEMMA AgentConnects ==
  ASSUME AgentInv, Agent!AgentConnected
  PROVE  AgentInv'
<1> SUFFICES ASSUME ~broken PROVE AgentInv'
  BY DEF AgentInv, Agent!AgentConnected
<1>1. /\ ~agent_connected /\ agent_connected' /\ returned' = 0 /\ answered' = {}
      /\ file_xfer_task_id' = file_xfer_task_id /\ broken' = broken
  BY DEF Agent!AgentConnected
<1>2. /\ file_xfer_task_id \in Nat
      /\ Typed(Agent!Main, file_xfer_task_id)
      /\ agent_msg_queue = <<>> /\ file_xfer_read_queue = <<>> /\ readers = {}
      /\ DOMAIN file_xfer_tasks = {}
  BY <1>1 DEF AgentInv
<1>3. PICK p : p = Agent!Piece("announce", 0, 0, 1)
  OBVIOUS
<1>4. p \in AgentPiece /\ p.what # "data" /\ p.number = 1
  BY ONLY <1>3, PieceTyped
<1>5. PICK tk \in Tokens :
        Agent!Becomes(Agent!Flush([Agent!Main EXCEPT !.tokens = tk, !.sent = <<>>,
                                                     !.queue = @ \o Agent!Announce]))
  BY DEF Agent!AgentConnected
<1>6. tk \in Nat
  BY SpiceClientAssumption
<1>7. PICK m : m = [Agent!Main EXCEPT !.tokens = tk, !.sent = <<>>, !.queue = @ \o Agent!Announce]
  OBVIOUS
<1>8. PICK q : q = <<p>>
  OBVIOUS
<1>9. q \in Seq(AgentPiece) /\ Len(q) = 1 /\ q[1] = p /\ <<>> \o q = q /\ q \o <<>> = q
      /\ <<>> \in Seq(AgentPiece) /\ Len(<<>>) = 0
  <2>1. <<p>> \in Seq(AgentPiece) /\ Len(<<p>>) = 1 /\ <<p>>[1] = p
    BY <1>4
  <2> QED BY <1>8, <2>1
<1>10. m = [tokens |-> tk, queue |-> q, sent |-> <<>>, tasks |-> file_xfer_tasks,
            waiting |-> <<>>, readers |-> {}]
  <2>1. Agent!Announce = q
    BY <1>3, <1>8 DEF Agent!Announce
  <2>2. Agent!Main = [tokens |-> agent_tokens, queue |-> agent_msg_queue, sent |-> sent,
                      tasks |-> file_xfer_tasks, waiting |-> file_xfer_read_queue,
                      readers |-> readers]
    BY DEF Agent!Main
  <2>3. m = [tokens |-> tk, queue |-> agent_msg_queue \o q, sent |-> <<>>,
             tasks |-> file_xfer_tasks, waiting |-> file_xfer_read_queue, readers |-> readers]
    BY ONLY <1>7, <2>1, <2>2
  <2> QED BY ONLY <1>2, <1>9, <2>3
<1>11. /\ m.tokens = tk /\ m.queue = q /\ m.sent = <<>> /\ m.tasks = file_xfer_tasks
       /\ m.waiting = <<>> /\ m.readers = {}
  BY ONLY <1>10
<1>12. Typed(m, file_xfer_task_id)
  <2>1. /\ DOMAIN file_xfer_tasks \subseteq 0 .. (file_xfer_task_id - 1)
        /\ file_xfer_tasks \in [DOMAIN file_xfer_tasks -> [size : Nat \ {0}, cancelled : BOOLEAN]]
    BY ONLY <1>2, PartsOfMain DEF Typed
  <2>2. <<>> \in Seq([task : Nat, read_bytes : Nat]) /\ {} \in SUBSET [task : Nat, sb : Nat]
    OBVIOUS
  <2> QED BY ONLY <1>6, <1>9, <1>10, <1>11, <2>1, <2>2 DEF Typed
<1>13. PICK f : f = Agent!Flush(m)
  OBVIOUS
<1>14. SentOff(f, m, <<>>)
  <2>1. m = [tokens |-> m.tokens, queue |-> m.queue, sent |-> m.sent, tasks |-> m.tasks,
             waiting |-> m.waiting, readers |-> m.readers]
    BY ONLY <1>10, <1>11
  <2> QED BY ONLY <1>6, <1>9, <1>11, <1>13, <2>1, Flushes
<1>15. Typed(f, file_xfer_task_id) /\ f.tasks = m.tasks /\ f.waiting = m.waiting
       /\ f.readers = m.readers
  BY ONLY <1>12, <1>14, StaysTyped
<1>16. /\ f.sent \o f.queue = q /\ f.tokens \in Nat /\ f.sent \in Seq(AgentPiece)
       /\ f.tokens + Len(f.sent) = tk + 0
       /\ f.queue # <<>> => f.tokens = 0
  BY ONLY <1>9, <1>11, <1>14 DEF SentOff
<1>17. PICK c : c = [t \in Nat |-> 0]
  OBVIOUS
<1>18. c \in [Nat -> Nat] /\ \A t \in Nat : c[t] = 0
  BY <1>17
<1>19. Chunks(q, c)
  <2>1. \A i \in 1 .. Len(q) : q[i] = p
    BY ONLY <1>9
  <2>2. \A i \in 1 .. Len(q) : q[i].what # "data" /\ q[i].number = 1
    BY ONLY <1>4, <2>1
  <2>3. /\ \A t \in Nat : \A k \in Nat : ~(k < c[t])
        /\ ~(1 > 1)
    BY ONLY <1>18
  <2> QED BY ONLY <2>2, <2>3 DEF Chunks
<1>20. Going(f, c, {}, {})
  <2>1. f.readers = {} /\ f.waiting = <<>> /\ DOMAIN f.tasks = {}
    BY ONLY <1>2, <1>11, <1>15
  <2> QED BY ONLY <1>9, <1>18, <2>1 DEF Going
<1>21. Transfers(f, c, {}, file_xfer_task_id, {})
  BY ONLY <1>15, <1>16, <1>18, <1>19, <1>20 DEF Transfers
<1>22. Len(f.sent) \in Nat
  BY ONLY <1>16, LenProperties
<1>23. PICK b \in Nat : b = f.tokens
  BY <1>16
<1>24. PICK l \in Nat : l = Len(f.sent)
  BY <1>22
<1>25. 0 <= l /\ b + l - 0 = tk /\ b <= tk /\ Len(f.waiting) = 0
  <2>1. b + l = tk + 0
    BY ONLY <1>16, <1>23, <1>24
  <2>2. Len(f.waiting) = 0
    BY ONLY <1>9, <1>11, <1>15
  <2> QED BY ONLY <1>6, <2>1, <2>2, b \in Nat, l \in Nat
<1>26. /\ 0 <= Len(f.sent) /\ f.tokens + Len(f.sent) - 0 \in Tokens
       /\ Enough(f, f.tokens + Len(f.sent) - 0, file_xfer_task_id)
  <2>1. 0 + b <= tk
    BY ONLY <1>25, b \in Nat
  <2> QED BY ONLY <1>23, <1>24, <1>25, <2>1, tk \in Tokens DEF Enough
<1>27. Agent!Becomes(f) /\ 0 \in Nat /\ {} \subseteq 0 .. (file_xfer_task_id - 1)
  BY <1>5, <1>7, <1>13
<1> QED BY ONLY <1>1, <1>2, <1>21, <1>26, <1>27, NowTransfers

\* An agent that leaves in the middle of nothing leaves nothing behind.
LEMMA AgentLeaves ==
  ASSUME AgentInv, Agent!AgentDisconnected
  PROVE  AgentInv'
<1> SUFFICES ASSUME ~broken' PROVE AgentInv'
  BY DEF AgentInv
<1>1. /\ ~broken /\ agent_msg_queue = <<>> /\ DOMAIN file_xfer_tasks = {}
      /\ file_xfer_read_queue = <<>> /\ readers = {} /\ agent_connected /\ ~agent_connected'
  BY DEF Agent!AgentDisconnected
<1>2. /\ agent_tokens' = agent_tokens /\ agent_msg_queue' = agent_msg_queue
      /\ file_xfer_tasks' = file_xfer_tasks /\ file_xfer_task_id' = file_xfer_task_id
      /\ file_xfer_read_queue' = file_xfer_read_queue /\ readers' = readers /\ sent' = sent
      /\ answered' = answered
  BY DEF Agent!AgentDisconnected
<1>3. PICK c, k, n : UnderWay(c, k, n)
  BY <1>1, IsUnderWay
<1>4. /\ Typed(Agent!Main, file_xfer_task_id) /\ c \in [Nat -> Nat]
      /\ Chunks(sent \o agent_msg_queue, c)
      /\ file_xfer_task_id \in Nat /\ answered \subseteq 0 .. (file_xfer_task_id - 1)
  BY ONLY <1>3, PartsOfMain DEF UnderWay, Transfers
<1>5. Agent!Main' = Agent!Main
  BY <1>2 DEF Agent!Main
<1> QED BY <1>1, <1>2, <1>4, <1>5 DEF AgentInv

\* The tasks change, and which of them have been answered.
LEMMA TasksChange ==
  ASSUME NEW m, NEW c, NEW ans, NEW id, Transfers(m, c, ans, id, {}),
         NEW T, NEW j, DOMAIN T \subseteq 0 .. (j - 1),
         T \in [DOMAIN T -> [size : Nat \ {0}, cancelled : BOOLEAN]],
         NEW all_answered, ans \subseteq all_answered, NEW free,
         \A t \in DOMAIN T : t \in all_answered /\ t \notin free =>
           t \in ans /\ t \in DOMAIN m.tasks /\ T[t].size = m.tasks[t].size,
         NEW r, r = [tokens |-> m.tokens, queue |-> m.queue, sent |-> m.sent, tasks |-> T,
                     waiting |-> m.waiting, readers |-> m.readers]
  PROVE  Transfers(r, c, all_answered, j, free)
<1>1. /\ Typed(m, id) /\ c \in [Nat -> Nat] /\ Chunks(m.sent \o m.queue, c)
      /\ Going(m, c, ans, {}) /\ (m.queue # <<>> => m.tokens = 0)
  BY DEF Transfers
<1>2. /\ r.tokens = m.tokens /\ r.queue = m.queue /\ r.sent = m.sent /\ r.tasks = T
      /\ r.waiting = m.waiting /\ r.readers = m.readers
  OBVIOUS
<1>3. r = [tokens |-> r.tokens, queue |-> r.queue, sent |-> r.sent, tasks |-> r.tasks,
           waiting |-> r.waiting, readers |-> r.readers]
  OBVIOUS
<1>4. Typed(r, j)
  <2>1. /\ m.tokens \in Nat /\ m.queue \in Seq(AgentPiece) /\ m.sent \in Seq(AgentPiece)
        /\ m.waiting \in Seq([task : Nat, read_bytes : Nat])
        /\ m.readers \in SUBSET [task : Nat, sb : Nat]
    BY ONLY <1>1 DEF Typed
  <2> QED BY ONLY <1>2, <1>3, <2>1, DOMAIN T \subseteq 0 .. (j - 1),
                  T \in [DOMAIN T -> [size : Nat \ {0}, cancelled : BOOLEAN]] DEF Typed
<1>5. \A v : (Reads(r, v) <=> Reads(m, v)) /\ (Waits(r, v) <=> Waits(m, v))
  BY ONLY <1>2 DEF Reads, Waits
<1>6. Going(r, c, all_answered, free)
  <2>1. \A t \in DOMAIN T : t \in all_answered /\ t \notin free =>
          Reads(r, t) \/ Waits(r, t) \/ c[t] = T[t].size
    <3>1. \A t \in DOMAIN m.tasks : t \in ans =>
            Reads(m, t) \/ Waits(m, t) \/ c[t] = m.tasks[t].size
      BY ONLY <1>1 DEF Going
    <3> QED BY <1>5, <3>1
  <2>2. \A t \in Nat : t \notin all_answered => c[t] = 0
    BY ONLY <1>1, ans \subseteq all_answered DEF Going
  <2>3. /\ \A q \in r.readers : q.task \in all_answered /\ q.sb = c[q.task]
        /\ \A p, q \in r.readers : p.task = q.task => p = q
    BY ONLY <1>1, <1>2, ans \subseteq all_answered DEF Going
  <2>4. /\ \A i \in 1 .. Len(r.waiting) :
             /\ r.waiting[i].task \in all_answered
             /\ r.waiting[i].read_bytes = c[r.waiting[i].task]
             /\ ~Reads(r, r.waiting[i].task)
        /\ \A i, k \in 1 .. Len(r.waiting) : r.waiting[i].task = r.waiting[k].task => i = k
    BY ONLY <1>1, <1>2, <1>5, ans \subseteq all_answered DEF Going
  <2> QED BY ONLY <1>2, <2>1, <2>2, <2>3, <2>4 DEF Going
<1> QED BY ONLY <1>1, <1>2, <1>4, <1>6 DEF Transfers

\* The main connection of a client whose transfers are under way.
LEMMA MainUnderWay ==
  ASSUME NEW c, NEW k, NEW n, UnderWay(c, k, n)
  PROVE  /\ Transfers(Agent!Main, c, answered, file_xfer_task_id, {})
         /\ Typed(Agent!Main, file_xfer_task_id)
         /\ file_xfer_task_id \in Nat /\ answered \subseteq 0 .. (file_xfer_task_id - 1)
         /\ DOMAIN file_xfer_tasks \subseteq 0 .. (file_xfer_task_id - 1)
         /\ file_xfer_tasks \in [DOMAIN file_xfer_tasks ->
                                  [size : Nat \ {0}, cancelled : BOOLEAN]]
         /\ c \in [Nat -> Nat] /\ Going(Agent!Main, c, answered, {})
         /\ Agent!Main = [tokens |-> agent_tokens, queue |-> agent_msg_queue, sent |-> sent,
                          tasks |-> file_xfer_tasks, waiting |-> file_xfer_read_queue,
                          readers |-> readers]
<1>1. /\ Transfers(Agent!Main, c, answered, file_xfer_task_id, {})
      /\ file_xfer_task_id \in Nat /\ answered \subseteq 0 .. (file_xfer_task_id - 1)
  BY ONLY UnderWay(c, k, n) DEF UnderWay
<1>2. /\ Typed(Agent!Main, file_xfer_task_id) /\ c \in [Nat -> Nat]
      /\ Going(Agent!Main, c, answered, {})
  BY ONLY <1>1 DEF Transfers
<1>3. /\ DOMAIN file_xfer_tasks \subseteq 0 .. (file_xfer_task_id - 1)
      /\ file_xfer_tasks \in [DOMAIN file_xfer_tasks -> [size : Nat \ {0}, cancelled : BOOLEAN]]
  BY ONLY <1>2, PartsOfMain DEF Typed
<1> QED BY ONLY <1>1, <1>2, <1>3 DEF Agent!Main

\* The tokens that come back go out with what waits, and tasks go on.
LEMMA TokensCome ==
  ASSUME AgentInv, Agent!AgentToken
  PROVE  AgentInv'
<1> SUFFICES ASSUME ~broken PROVE AgentInv'
  BY DEF AgentInv, Agent!AgentToken
<1>1. /\ agent_connected /\ agent_connected' /\ answered' = answered
      /\ file_xfer_task_id' = file_xfer_task_id
  BY DEF Agent!AgentToken
<1>2. PICK c, k, n : UnderWay(c, k, n)
  BY <1>1, IsUnderWay
<1>3. /\ Transfers(Agent!Main, c, answered, file_xfer_task_id, {})
      /\ Typed(Agent!Main, file_xfer_task_id)
      /\ file_xfer_task_id \in Nat /\ answered \subseteq 0 .. (file_xfer_task_id - 1)
  BY ONLY <1>2, MainUnderWay
<1>4. /\ k \in Nat /\ k = returned /\ n \in Nat /\ n = Len(sent) /\ k <= n
      /\ agent_tokens \in Nat /\ agent_tokens + n - k \in Tokens
  BY ONLY <1>2 DEF UnderWay
<1>5. PICK e \in 1 .. (Len(sent) - returned) :
        /\ returned' = returned + e
        /\ Agent!Becomes(Agent!Resume(Agent!Flush([Agent!Main EXCEPT !.tokens = @ + e])))
  BY DEF Agent!AgentToken
<1>6. e \in Nat /\ k + e <= n /\ k + e \in Nat
  BY ONLY <1>4, e \in 1 .. (Len(sent) - returned)
<1>7. PICK a \in Nat : a = agent_tokens
  BY <1>4
<1>8. PICK g : g = [Agent!Main EXCEPT !.tokens = @ + e]
  OBVIOUS
<1>9. PICK b \in Nat : b = a + e
  BY <1>6
<1>10. g = [tokens |-> b, queue |-> agent_msg_queue, sent |-> sent, tasks |-> file_xfer_tasks,
            waiting |-> file_xfer_read_queue, readers |-> readers]
  BY ONLY <1>7, <1>8, <1>9 DEF Agent!Main
<1>11. /\ g.tokens = b /\ g.queue = agent_msg_queue /\ g.sent = sent
       /\ g.tasks = file_xfer_tasks /\ g.waiting = file_xfer_read_queue /\ g.readers = readers
  BY ONLY <1>10
<1>12. Typed(g, file_xfer_task_id)
  <2>1. /\ agent_msg_queue \in Seq(AgentPiece) /\ sent \in Seq(AgentPiece)
        /\ DOMAIN file_xfer_tasks \subseteq 0 .. (file_xfer_task_id - 1)
        /\ file_xfer_tasks \in [DOMAIN file_xfer_tasks ->
                                  [size : Nat \ {0}, cancelled : BOOLEAN]]
        /\ file_xfer_read_queue \in Seq([task : Nat, read_bytes : Nat])
        /\ readers \in SUBSET [task : Nat, sb : Nat]
    BY ONLY <1>3, PartsOfMain DEF Typed
  <2> QED BY ONLY <1>10, <1>11, <2>1, b \in Nat DEF Typed
<1>13. PICK f : f = Agent!Flush(g)
  OBVIOUS
<1>14. SentOff(f, g, <<>>)
  <2>1. /\ g = [tokens |-> g.tokens, queue |-> g.queue, sent |-> g.sent, tasks |-> g.tasks,
                waiting |-> g.waiting, readers |-> g.readers]
        /\ g.tokens \in Nat /\ g.queue \in Seq(AgentPiece) /\ g.sent \in Seq(AgentPiece)
    BY ONLY <1>12 DEF Typed
  <2> QED BY ONLY <1>13, <2>1, Flushes
<1>15. /\ Typed(f, file_xfer_task_id) /\ f.tasks = g.tasks /\ f.waiting = g.waiting
       /\ f.readers = g.readers
  BY ONLY <1>12, <1>14, StaysTyped
<1>16. /\ f.sent \o f.queue = (g.sent \o g.queue) \o <<>>
       /\ f.tokens + Len(f.sent) = b + n /\ f.tokens <= b /\ f.tokens \in Nat
       /\ f.queue # <<>> => f.tokens = 0
  BY ONLY <1>4, <1>11, <1>14 DEF SentOff
<1>17. Transfers(f, c, answered, file_xfer_task_id, {})
  <2>1. /\ c \in [Nat -> Nat] /\ Chunks(sent \o agent_msg_queue, c)
        /\ Going(Agent!Main, c, answered, {})
    BY ONLY <1>3, PartsOfMain DEF Transfers
  <2>2. sent \o agent_msg_queue \in Seq(AgentPiece)
    <3>1. sent \in Seq(AgentPiece) /\ agent_msg_queue \in Seq(AgentPiece)
      BY ONLY <1>3, PartsOfMain DEF Typed
    <3> QED BY ONLY <3>1, ConcatProperties
  <2>3. (sent \o agent_msg_queue) \o <<>> = sent \o agent_msg_queue
    BY ONLY <2>2, ConcatEmptySeq
  <2>4. Chunks(f.sent \o f.queue, c)
    BY ONLY <1>11, <1>16, <2>1, <2>3
  <2>5. Going(f, c, answered, {})
    <3>1. /\ f.tasks = Agent!Main.tasks /\ f.waiting = Agent!Main.waiting
          /\ f.readers = Agent!Main.readers
      BY ONLY <1>11, <1>15, PartsOfMain
    <3> QED BY ONLY <2>1, <3>1, GoesOnSame
  <2> QED BY ONLY <1>15, <1>16, <2>1, <2>4, <2>5 DEF Transfers
<1>18. PICK r : r = Agent!Resume(f)
  OBVIOUS
<1>19. Resumed(r, f, c, answered, file_xfer_task_id)
  BY ONLY <1>1, <1>17, <1>18, Resumes
<1>20. /\ Transfers(r, c, answered, file_xfer_task_id, {})
       /\ r.tokens \in Nat /\ r.tokens <= f.tokens
       /\ r.tokens + Len(r.sent) = b + n
       /\ Len(r.waiting) = 0 \/ Len(r.waiting) + f.tokens = Len(f.waiting)
  BY ONLY <1>16, <1>19 DEF Resumed
<1>21. /\ Len(r.waiting) \in Nat
       /\ Len(f.waiting) \in Nat /\ Len(f.waiting) <= file_xfer_task_id
  BY ONLY <1>3, <1>17, <1>20, WaitsFew
<1>22. Len(r.sent) \in Nat
  <2>1. r.sent \in Seq(AgentPiece)
    BY ONLY <1>20 DEF Transfers, Typed
  <2> QED BY ONLY <2>1, LenProperties
<1>23. PICK rt \in Nat : rt = r.tokens
  BY <1>20
<1>24. PICK rs \in Nat : rs = Len(r.sent)
  BY <1>22
<1>25. PICK rw \in Nat : rw = Len(r.waiting)
  BY <1>21
<1>26. PICK ft \in Nat : ft = f.tokens
  BY <1>16
<1>27. PICK fw \in Nat : fw = Len(f.waiting)
  BY <1>21
<1>28. PICK i \in Nat : i = file_xfer_task_id
  BY <1>3
<1>29. /\ rt <= ft /\ ft <= b /\ rt + rs = b + n /\ (rw = 0 \/ rw + ft = fw) /\ fw <= i
  BY ONLY <1>16, <1>20, <1>21, <1>23, <1>24, <1>25, <1>26, <1>27, <1>28
<1>30. /\ k + e <= rs /\ rt + rs - (k + e) = a + n - k
       /\ i <= rt + rs - (k + e) => rw + rt <= rt + rs - (k + e)
  BY ONLY <1>4, <1>6, <1>9, <1>29, a \in Nat, b \in Nat, rt \in Nat, rs \in Nat, rw \in Nat,
          ft \in Nat, fw \in Nat, i \in Nat
<1>31. /\ k + e <= Len(r.sent) /\ r.tokens + Len(r.sent) - (k + e) \in Tokens
       /\ Enough(r, r.tokens + Len(r.sent) - (k + e), file_xfer_task_id)
  BY ONLY <1>4, <1>7, <1>23, <1>24, <1>25, <1>28, <1>30 DEF Enough
<1>32. Agent!Becomes(r) /\ returned' = k + e
  BY ONLY <1>4, <1>5, <1>8, <1>13, <1>18
<1> QED BY ONLY <1>1, <1>3, <1>6, <1>20, <1>31, <1>32, NowTransfers

\* The agent answers the start of a task, which goes on with its first chunk.
LEMMA DataCanBeSent ==
  ASSUME AgentInv, Agent!CanSendData
  PROVE  AgentInv'
<1> SUFFICES ASSUME ~broken PROVE AgentInv'
  BY DEF AgentInv, Agent!CanSendData
<1>1. /\ agent_connected /\ agent_connected' /\ returned' = returned
      /\ file_xfer_task_id' = file_xfer_task_id
  BY DEF Agent!CanSendData
<1>2. PICK c, k, n : UnderWay(c, k, n)
  BY <1>1, IsUnderWay
<1>3. PICK t \in 0 .. (file_xfer_task_id - 1) :
        /\ t \notin answered /\ answered' = answered \cup {t}
        /\ Agent!Becomes(Agent!file_xfer_read(Agent!Main, t, 0))
  BY DEF Agent!CanSendData
<1>4. /\ Transfers(Agent!Main, c, answered, file_xfer_task_id, {})
      /\ Typed(Agent!Main, file_xfer_task_id)
      /\ file_xfer_task_id \in Nat /\ answered \subseteq 0 .. (file_xfer_task_id - 1)
      /\ DOMAIN file_xfer_tasks \subseteq 0 .. (file_xfer_task_id - 1)
      /\ file_xfer_tasks \in [DOMAIN file_xfer_tasks -> [size : Nat \ {0}, cancelled : BOOLEAN]]
      /\ Going(Agent!Main, c, answered, {})
      /\ Agent!Main = [tokens |-> agent_tokens, queue |-> agent_msg_queue, sent |-> sent,
                       tasks |-> file_xfer_tasks, waiting |-> file_xfer_read_queue,
                       readers |-> readers]
  BY ONLY <1>2, MainUnderWay
<1>5. PICK ans : ans = answered \cup {t}
  OBVIOUS
<1>6. t \in Nat /\ ans \subseteq 0 .. (file_xfer_task_id - 1)
  BY <1>4, <1>5
<1>7. PICK m : m = Agent!Main
  OBVIOUS
<1>8. /\ m.tokens = agent_tokens /\ m.queue = agent_msg_queue /\ m.sent = sent
      /\ m.tasks = file_xfer_tasks /\ m.waiting = file_xfer_read_queue /\ m.readers = readers
  BY ONLY <1>7, PartsOfMain
<1>9. Transfers(m, c, ans, file_xfer_task_id, {t})
  <2>1. m = [tokens |-> m.tokens, queue |-> m.queue, sent |-> m.sent, tasks |-> m.tasks,
             waiting |-> m.waiting, readers |-> m.readers]
    BY ONLY <1>4, <1>7, <1>8
  <2>2. \A u \in DOMAIN m.tasks : u \in ans /\ u \notin {t} =>
          u \in answered /\ u \in DOMAIN m.tasks /\ m.tasks[u].size = m.tasks[u].size
    BY <1>5
  <2>3. answered \subseteq ans
    BY <1>5
  <2>4. /\ Transfers(m, c, answered, file_xfer_task_id, {})
        /\ DOMAIN m.tasks \subseteq 0 .. (file_xfer_task_id - 1)
        /\ m.tasks \in [DOMAIN m.tasks -> [size : Nat \ {0}, cancelled : BOOLEAN]]
    BY ONLY <1>4, <1>7, <1>8
  <2> QED BY ONLY <2>1, <2>2, <2>3, <2>4, TasksChange
<1>10. c[t] = 0 /\ ~Reads(m, t) /\ ~Waits(m, t)
  <2>1. Going(m, c, answered, {})
    BY ONLY <1>4, <1>7
  <2> QED BY ONLY <1>3, <1>6, <2>1 DEF Going, Reads, Waits
<1>11. PICK r : r = Agent!file_xfer_read(m, t, c[t])
  OBVIOUS
<1>12. GoneOn(r, m, c, ans, file_xfer_task_id)
  <2>1. t \in ans
    BY <1>5
  <2> QED BY ONLY <1>1, <1>6, <1>9, <1>10, <1>11, <2>1, ReadsOn
<1>13. Agent!Becomes(r)
  BY ONLY <1>3, <1>7, <1>10, <1>11
<1>14. /\ Transfers(r, c, ans, file_xfer_task_id, {}) /\ r.tokens <= agent_tokens
       /\ r.tokens + Len(r.sent) = agent_tokens + Len(sent)
       /\ r.tokens \in Nat /\ agent_tokens \in Nat
       /\ agent_tokens # 0 => Len(r.waiting) = Len(file_xfer_read_queue)
  BY ONLY <1>8, <1>12 DEF GoneOn
<1>15. /\ Len(file_xfer_read_queue) \in Nat /\ file_xfer_task_id <= file_xfer_task_id
  <2>1. Len(file_xfer_read_queue) \in Nat
    BY ONLY <1>2 DEF UnderWay
  <2> QED BY ONLY <1>4, <2>1
<1>16. r.tokens # 0 => Len(r.waiting) <= Len(file_xfer_read_queue)
  BY ONLY <1>14, <1>15
<1>17. answered' = ans
  BY ONLY <1>3, <1>5
<1> QED BY ONLY <1>1, <1>2, <1>4, <1>6, <1>13, <1>14, <1>15, <1>16, <1>17, StillUnderWay

\* A task that has ended is deleted.
LEMMA TransferEnds ==
  ASSUME AgentInv, Agent!TransferStatus
  PROVE  AgentInv'
<1> SUFFICES ASSUME ~broken PROVE AgentInv'
  BY DEF AgentInv, Agent!TransferStatus
<1>1. /\ agent_connected /\ agent_connected' /\ returned' = returned
      /\ file_xfer_task_id' = file_xfer_task_id
  BY DEF Agent!TransferStatus
<1>2. PICK c, k, n : UnderWay(c, k, n)
  BY <1>1, IsUnderWay
<1>3. PICK t \in DOMAIN file_xfer_tasks :
        /\ answered' = answered \cup {t}
        /\ Agent!Becomes([Agent!Main EXCEPT !.tasks = [u \in DOMAIN @ \ {t} |-> @[u]]])
  BY DEF Agent!TransferStatus
<1>4. /\ Transfers(Agent!Main, c, answered, file_xfer_task_id, {})
      /\ Typed(Agent!Main, file_xfer_task_id)
      /\ file_xfer_task_id \in Nat /\ answered \subseteq 0 .. (file_xfer_task_id - 1)
      /\ DOMAIN file_xfer_tasks \subseteq 0 .. (file_xfer_task_id - 1)
      /\ file_xfer_tasks \in [DOMAIN file_xfer_tasks -> [size : Nat \ {0}, cancelled : BOOLEAN]]
      /\ Agent!Main = [tokens |-> agent_tokens, queue |-> agent_msg_queue, sent |-> sent,
                       tasks |-> file_xfer_tasks, waiting |-> file_xfer_read_queue,
                       readers |-> readers]
  BY ONLY <1>2, MainUnderWay
<1>5. PICK ans : ans = answered \cup {t}
  OBVIOUS
<1>6. t \in Nat /\ ans \subseteq 0 .. (file_xfer_task_id - 1)
  BY <1>4, <1>5
<1>7. PICK T : T = [u \in DOMAIN file_xfer_tasks \ {t} |-> file_xfer_tasks[u]]
  OBVIOUS
<1>8. /\ DOMAIN T \subseteq DOMAIN file_xfer_tasks
      /\ T \in [DOMAIN T -> [size : Nat \ {0}, cancelled : BOOLEAN]]
      /\ \A u \in DOMAIN T : u # t /\ T[u] = file_xfer_tasks[u]
  BY <1>4, <1>7
<1>9. PICK r : r = [Agent!Main EXCEPT !.tasks = [u \in DOMAIN @ \ {t} |-> @[u]]]
  OBVIOUS
<1>10. r = [tokens |-> agent_tokens, queue |-> agent_msg_queue, sent |-> sent, tasks |-> T,
            waiting |-> file_xfer_read_queue, readers |-> readers]
  BY ONLY <1>4, <1>7, <1>9
<1>11. Transfers(r, c, ans, file_xfer_task_id, {})
  <2>1. \A u \in DOMAIN T : u \in ans /\ u \notin {} =>
          /\ u \in answered /\ u \in DOMAIN Agent!Main.tasks
          /\ T[u].size = Agent!Main.tasks[u].size
    BY <1>5, <1>8, PartsOfMain
  <2>2. answered \subseteq ans /\ DOMAIN T \subseteq 0 .. (file_xfer_task_id - 1)
    BY <1>4, <1>5, <1>8
  <2>3. r = [tokens |-> Agent!Main.tokens, queue |-> Agent!Main.queue, sent |-> Agent!Main.sent,
             tasks |-> T, waiting |-> Agent!Main.waiting, readers |-> Agent!Main.readers]
    BY ONLY <1>10, PartsOfMain
  <2>4. /\ Transfers(Agent!Main, c, answered, file_xfer_task_id, {})
        /\ T \in [DOMAIN T -> [size : Nat \ {0}, cancelled : BOOLEAN]]
    BY ONLY <1>4, <1>8
  <2> QED BY ONLY <2>1, <2>2, <2>3, <2>4, TasksChange, ZenonT(60)
<1>12. /\ r.tokens = agent_tokens /\ r.sent = sent /\ r.waiting = file_xfer_read_queue
       /\ Agent!Becomes(r) /\ answered' = ans
  <2>1. r.tokens = agent_tokens /\ r.sent = sent /\ r.waiting = file_xfer_read_queue
    BY ONLY <1>10
  <2> QED BY ONLY <1>3, <1>5, <1>9, <2>1
<1>13. /\ Len(file_xfer_read_queue) \in Nat /\ agent_tokens \in Nat
  BY ONLY <1>2 DEF UnderWay
<1>14. /\ r.tokens <= agent_tokens /\ r.tokens + Len(r.sent) = agent_tokens + Len(sent)
       /\ r.tokens # 0 => Len(r.waiting) <= Len(file_xfer_read_queue)
       /\ file_xfer_task_id <= file_xfer_task_id
  BY ONLY <1>4, <1>12, <1>13
<1> QED BY ONLY <1>1, <1>2, <1>4, <1>6, <1>11, <1>12, <1>14, StillUnderWay

\* The Cancel button marks a task.
LEMMA TaskMarked ==
  ASSUME AgentInv, Agent!Cancel
  PROVE  AgentInv'
<1> SUFFICES ASSUME ~broken PROVE AgentInv'
  BY DEF AgentInv, Agent!Cancel
<1>1. PICK t \in DOMAIN file_xfer_tasks :
        Agent!Becomes([Agent!Main EXCEPT !.tasks[t].cancelled = TRUE])
  BY DEF Agent!Cancel
<1>2. /\ agent_connected' = agent_connected /\ returned' = returned /\ answered' = answered
      /\ file_xfer_task_id' = file_xfer_task_id
  BY DEF Agent!Cancel
<1>3. agent_connected /\ agent_connected'
  BY <1>1, <1>2 DEF AgentInv
<1>4. PICK c, k, n : UnderWay(c, k, n)
  BY <1>3, IsUnderWay
<1>5. /\ Transfers(Agent!Main, c, answered, file_xfer_task_id, {})
      /\ file_xfer_task_id \in Nat /\ answered \subseteq 0 .. (file_xfer_task_id - 1)
      /\ DOMAIN file_xfer_tasks \subseteq 0 .. (file_xfer_task_id - 1)
      /\ file_xfer_tasks \in [DOMAIN file_xfer_tasks -> [size : Nat \ {0}, cancelled : BOOLEAN]]
      /\ Agent!Main = [tokens |-> agent_tokens, queue |-> agent_msg_queue, sent |-> sent,
                       tasks |-> file_xfer_tasks, waiting |-> file_xfer_read_queue,
                       readers |-> readers]
  BY ONLY <1>4, MainUnderWay
<1>6. PICK T : T = [file_xfer_tasks EXCEPT ![t].cancelled = TRUE]
  OBVIOUS
<1>7. /\ DOMAIN T = DOMAIN file_xfer_tasks
      /\ T \in [DOMAIN T -> [size : Nat \ {0}, cancelled : BOOLEAN]]
      /\ \A u \in DOMAIN T : T[u].size = file_xfer_tasks[u].size
  BY ONLY <1>5, <1>6, t \in DOMAIN file_xfer_tasks
<1>8. PICK r : r = [Agent!Main EXCEPT !.tasks[t].cancelled = TRUE]
  OBVIOUS
<1>9. r = [tokens |-> agent_tokens, queue |-> agent_msg_queue, sent |-> sent, tasks |-> T,
           waiting |-> file_xfer_read_queue, readers |-> readers]
  BY ONLY <1>5, <1>6, <1>8
<1>10. Transfers(r, c, answered, file_xfer_task_id, {})
  <2>1. \A u \in DOMAIN T : u \in answered /\ u \notin {} =>
          /\ u \in answered /\ u \in DOMAIN Agent!Main.tasks
          /\ T[u].size = Agent!Main.tasks[u].size
    BY <1>7, PartsOfMain
  <2>2. answered \subseteq answered /\ DOMAIN T \subseteq 0 .. (file_xfer_task_id - 1)
    BY <1>5, <1>7
  <2>3. r = [tokens |-> Agent!Main.tokens, queue |-> Agent!Main.queue, sent |-> Agent!Main.sent,
             tasks |-> T, waiting |-> Agent!Main.waiting, readers |-> Agent!Main.readers]
    BY ONLY <1>9, PartsOfMain
  <2>4. /\ Transfers(Agent!Main, c, answered, file_xfer_task_id, {})
        /\ T \in [DOMAIN T -> [size : Nat \ {0}, cancelled : BOOLEAN]]
    BY ONLY <1>5, <1>7
  <2> QED BY ONLY <2>1, <2>2, <2>3, <2>4, TasksChange, ZenonT(60)
<1>11. /\ r.tokens = agent_tokens /\ r.sent = sent /\ r.waiting = file_xfer_read_queue
  BY ONLY <1>9
<1>12. Agent!Becomes(r)
  BY ONLY <1>1, <1>8
<1>13. /\ Len(file_xfer_read_queue) \in Nat /\ agent_tokens \in Nat
  BY ONLY <1>4 DEF UnderWay
<1>14. /\ r.tokens <= agent_tokens /\ r.tokens + Len(r.sent) = agent_tokens + Len(sent)
       /\ r.tokens # 0 => Len(r.waiting) <= Len(file_xfer_read_queue)
       /\ file_xfer_task_id <= file_xfer_task_id
  BY ONLY <1>5, <1>11, <1>13
<1> QED BY ONLY <1>2, <1>3, <1>4, <1>5, <1>10, <1>12, <1>14, StillUnderWay

\* A file that is dropped waits for the agent to answer its start.
LEMMA FileDropped ==
  ASSUME AgentInv, Agent!DropFile
  PROVE  AgentInv'
<1> SUFFICES ASSUME ~broken' PROVE AgentInv'
  BY DEF AgentInv
<1>1. /\ ~broken /\ agent_connected /\ agent_connected' /\ returned' = returned
      /\ answered' = answered /\ file_xfer_task_id' = file_xfer_task_id + 1
  BY DEF Agent!DropFile
<1>2. PICK c, k, n : UnderWay(c, k, n)
  BY <1>1, IsUnderWay
<1>3. PICK t : t = file_xfer_task_id
  OBVIOUS
<1>4. PICK j : j = t + 1
  OBVIOUS
<1>5. PICK size_dropped \in Sizes :
        Agent!Becomes(Agent!send_agent_message(
          [Agent!Main EXCEPT !.tasks = [u \in DOMAIN @ \cup {t} |->
              IF u = t THEN [size |-> size_dropped, cancelled |-> FALSE] ELSE @[u]]],
          Agent!FileStart(t)))
  BY <1>3 DEF Agent!DropFile
<1>6. size_dropped \in Nat \ {0}
  BY SpiceClientAssumption
<1>7. /\ Transfers(Agent!Main, c, answered, file_xfer_task_id, {})
      /\ file_xfer_task_id \in Nat /\ answered \subseteq 0 .. (file_xfer_task_id - 1)
      /\ DOMAIN file_xfer_tasks \subseteq 0 .. (file_xfer_task_id - 1)
      /\ file_xfer_tasks \in [DOMAIN file_xfer_tasks -> [size : Nat \ {0}, cancelled : BOOLEAN]]
      /\ Agent!Main = [tokens |-> agent_tokens, queue |-> agent_msg_queue, sent |-> sent,
                       tasks |-> file_xfer_tasks, waiting |-> file_xfer_read_queue,
                       readers |-> readers]
  BY ONLY <1>2, MainUnderWay
<1>8. /\ t \in Nat /\ t \notin answered /\ j \in Nat /\ file_xfer_task_id <= j
      /\ answered \subseteq 0 .. (j - 1) /\ DOMAIN file_xfer_tasks \subseteq 0 .. (j - 1)
      /\ t \in 0 .. (j - 1) /\ t \notin DOMAIN file_xfer_tasks
  BY ONLY <1>3, <1>4, <1>7
<1>9. PICK T : T = [u \in DOMAIN file_xfer_tasks \cup {t} |->
                      IF u = t THEN [size |-> size_dropped, cancelled |-> FALSE]
                               ELSE file_xfer_tasks[u]]
  OBVIOUS
<1>10. /\ DOMAIN T = DOMAIN file_xfer_tasks \cup {t}
       /\ \A u \in DOMAIN T : u # t => u \in DOMAIN file_xfer_tasks /\ T[u] = file_xfer_tasks[u]
       /\ T \in [DOMAIN T -> [size : Nat \ {0}, cancelled : BOOLEAN]]
  <2>1. DOMAIN T = DOMAIN file_xfer_tasks \cup {t}
    BY ONLY <1>9
  <2>2. \A u \in DOMAIN T : u # t => u \in DOMAIN file_xfer_tasks /\ T[u] = file_xfer_tasks[u]
    BY ONLY <1>9
  <2>3. \A u \in DOMAIN file_xfer_tasks \cup {t} :
          (IF u = t THEN [size |-> size_dropped, cancelled |-> FALSE] ELSE file_xfer_tasks[u])
            \in [size : Nat \ {0}, cancelled : BOOLEAN]
    BY ONLY <1>6, <1>7
  <2>4. T \in [DOMAIN file_xfer_tasks \cup {t} -> [size : Nat \ {0}, cancelled : BOOLEAN]]
    BY ONLY <1>9, <2>3
  <2> QED BY ONLY <2>1, <2>2, <2>4
<1>11. PICK g : g = [Agent!Main EXCEPT !.tasks = [u \in DOMAIN @ \cup {t} |->
                       IF u = t THEN [size |-> size_dropped, cancelled |-> FALSE] ELSE @[u]]]
  OBVIOUS
<1>12. g = [tokens |-> agent_tokens, queue |-> agent_msg_queue, sent |-> sent, tasks |-> T,
            waiting |-> file_xfer_read_queue, readers |-> readers]
  BY ONLY <1>7, <1>9, <1>11
<1>13. Transfers(g, c, answered, j, {})
  <2>1. \A u \in DOMAIN T : u \in answered /\ u \notin {} =>
          /\ u \in answered /\ u \in DOMAIN Agent!Main.tasks
          /\ T[u].size = Agent!Main.tasks[u].size
    BY <1>8, <1>10, PartsOfMain
  <2>2. answered \subseteq answered /\ DOMAIN T \subseteq 0 .. (j - 1)
    BY ONLY <1>8, <1>10
  <2>3. g = [tokens |-> Agent!Main.tokens, queue |-> Agent!Main.queue, sent |-> Agent!Main.sent,
             tasks |-> T, waiting |-> Agent!Main.waiting, readers |-> Agent!Main.readers]
    BY ONLY <1>12, PartsOfMain
  <2>4. /\ Transfers(Agent!Main, c, answered, file_xfer_task_id, {})
        /\ T \in [DOMAIN T -> [size : Nat \ {0}, cancelled : BOOLEAN]]
    BY ONLY <1>7, <1>10, Zenon
  <2> QED BY ONLY <2>1, <2>2, <2>3, <2>4, TasksChange, ZenonT(60)
<1>14. PICK p : p = Agent!Piece("start", t, 0, 1)
  OBVIOUS
<1>15. p \in AgentPiece /\ p.what # "data" /\ p.number = 1 /\ Agent!FileStart(t) = <<p>>
  <2>1. p \in AgentPiece /\ p.what = "start" /\ p.number = 1
    BY ONLY <1>8, <1>14, PieceTyped
  <2> QED BY ONLY <1>14, <2>1 DEF Agent!FileStart
<1>16. PICK f : f = Agent!send_agent_message(g, <<p>>)
  OBVIOUS
<1>17. Transfers(f, c, answered, j, {}) /\ SentOff(f, g, <<p>>)
  BY ONLY <1>1, <1>13, <1>15, <1>16, SendsOther
<1>18. /\ g.tokens = agent_tokens /\ g.sent = sent /\ g.waiting = file_xfer_read_queue
  BY ONLY <1>12
<1>19. /\ f.tokens <= agent_tokens /\ f.tokens + Len(f.sent) = agent_tokens + Len(sent)
       /\ f.waiting = file_xfer_read_queue
  BY ONLY <1>17, <1>18 DEF SentOff
<1>20. Agent!Becomes(f) /\ file_xfer_task_id' = j
  BY ONLY <1>1, <1>3, <1>5, <1>4, <1>11, <1>15, <1>16
<1>21. f.tokens # 0 => Len(f.waiting) <= Len(file_xfer_read_queue)
  <2>1. Len(file_xfer_read_queue) \in Nat
    BY ONLY <1>2 DEF UnderWay
  <2> QED BY ONLY <1>19, <2>1
<1> QED BY ONLY <1>1, <1>2, <1>8, <1>17, <1>19, <1>20, <1>21, StillUnderWay

\* The chunk that has been read is the next one of its file, which goes on.
LEMMA ChunkRead ==
  ASSUME AgentInv, Agent!FileReaderLoad
  PROVE  AgentInv'
<1> SUFFICES ASSUME ~broken PROVE AgentInv'
  BY DEF AgentInv, Agent!FileReaderLoad
<1>1. /\ agent_connected' = agent_connected /\ returned' = returned /\ answered' = answered
      /\ file_xfer_task_id' = file_xfer_task_id
  BY DEF Agent!FileReaderLoad
<1>2. PICK q \in readers :
        Agent!Becomes(Agent!file_xfer_read(
          Agent!send_agent_message([Agent!Main EXCEPT !.readers = @ \ {q}],
                                   Agent!FileData(q.task, q.sb)),
          q.task, q.sb + 1))
  BY DEF Agent!FileReaderLoad
<1>3. agent_connected /\ agent_connected'
  BY <1>1, <1>2 DEF AgentInv
<1>4. PICK c, k, n : UnderWay(c, k, n)
  BY <1>3, IsUnderWay
<1>5. /\ Transfers(Agent!Main, c, answered, file_xfer_task_id, {})
      /\ Typed(Agent!Main, file_xfer_task_id)
      /\ file_xfer_task_id \in Nat /\ answered \subseteq 0 .. (file_xfer_task_id - 1)
      /\ c \in [Nat -> Nat] /\ Going(Agent!Main, c, answered, {})
      /\ Agent!Main = [tokens |-> agent_tokens, queue |-> agent_msg_queue, sent |-> sent,
                       tasks |-> file_xfer_tasks, waiting |-> file_xfer_read_queue,
                       readers |-> readers]
  BY ONLY <1>4, MainUnderWay
<1>6. readers \in SUBSET [task : Nat, sb : Nat]
  BY ONLY <1>5, PartsOfMain DEF Typed
<1>7. PICK t \in Nat : t = q.task
  BY <1>6
<1>8. PICK R : R = readers \ {q}
  OBVIOUS
<1>9. PICK m : m = Agent!Main
  OBVIOUS
<1>10. /\ m.tokens = agent_tokens /\ m.queue = agent_msg_queue /\ m.sent = sent
       /\ m.tasks = file_xfer_tasks /\ m.waiting = file_xfer_read_queue /\ m.readers = readers
  BY ONLY <1>9, PartsOfMain
<1>11. PICK g : g = [m EXCEPT !.readers = @ \ {q}]
  OBVIOUS
<1>12. g = [tokens |-> m.tokens, queue |-> m.queue, sent |-> m.sent, tasks |-> m.tasks,
            waiting |-> m.waiting, readers |-> R]
  BY ONLY <1>5, <1>8, <1>9, <1>10, <1>11
<1>13. /\ g.tokens = m.tokens /\ g.queue = m.queue /\ g.sent = m.sent /\ g.tasks = m.tasks
       /\ g.waiting = m.waiting /\ g.readers = R
  BY ONLY <1>12
<1>14. /\ Typed(m, file_xfer_task_id) /\ Chunks(m.sent \o m.queue, c)
       /\ Going(m, c, answered, {}) /\ (m.queue # <<>> => m.tokens = 0)
  BY ONLY <1>5, <1>9 DEF Transfers
<1>15. t \in answered /\ q.sb = c[t] /\ q \in m.readers
  BY ONLY <1>7, <1>10, <1>14, q \in readers DEF Going
<1>16. /\ R \subseteq readers /\ \A v \in R : v.task # t
       /\ \A v \in readers : v = q \/ v \in R
  BY ONLY <1>7, <1>8, <1>10, <1>14, q \in readers DEF Going
<1>17. ~Reads(g, t) /\ ~Waits(g, t)
  <2>1. Reads(m, t)
    BY ONLY <1>7, <1>15 DEF Reads
  <2>2. \A i \in 1 .. Len(m.waiting) : ~Reads(m, m.waiting[i].task)
    BY ONLY <1>14 DEF Going
  <2>3. \A i \in 1 .. Len(m.waiting) : m.waiting[i].task # t
    BY ONLY <2>1, <2>2
  <2> QED BY ONLY <1>13, <1>16, <2>3 DEF Reads, Waits
<1>18. Typed(g, file_xfer_task_id)
  <2>1. /\ m.tokens \in Nat /\ m.queue \in Seq(AgentPiece) /\ m.sent \in Seq(AgentPiece)
        /\ DOMAIN m.tasks \subseteq 0 .. (file_xfer_task_id - 1)
        /\ m.tasks \in [DOMAIN m.tasks -> [size : Nat \ {0}, cancelled : BOOLEAN]]
        /\ m.waiting \in Seq([task : Nat, read_bytes : Nat])
    BY ONLY <1>14 DEF Typed
  <2>2. R \in SUBSET [task : Nat, sb : Nat]
    BY ONLY <1>6, <1>16
  <2>3. g = [tokens |-> g.tokens, queue |-> g.queue, sent |-> g.sent, tasks |-> g.tasks,
             waiting |-> g.waiting, readers |-> g.readers]
    BY ONLY <1>12, <1>13
  <2> QED BY ONLY <1>13, <2>1, <2>2, <2>3 DEF Typed
<1>19. Going(g, c, answered, {t})
  <2>1. \A v : Reads(g, v) => Reads(m, v)
    BY ONLY <1>10, <1>13, <1>16 DEF Reads
  <2>2. \A v : v # t /\ Reads(m, v) => Reads(g, v)
    BY ONLY <1>7, <1>10, <1>13, <1>16 DEF Reads
  <2>3. \A v : Waits(g, v) <=> Waits(m, v)
    BY ONLY <1>13 DEF Waits
  <2>4. \A v \in {t} : v = t
    OBVIOUS
  <2>5. t \in {t}
    OBVIOUS
  <2>6. \A v \in DOMAIN g.tasks : v \in answered /\ v \notin {t} =>
          Reads(g, v) \/ Waits(g, v) \/ c[v] = g.tasks[v].size
    <3>1. \A v \in DOMAIN m.tasks : v \in answered =>
            Reads(m, v) \/ Waits(m, v) \/ c[v] = m.tasks[v].size
      BY ONLY <1>14 DEF Going
    <3> QED BY ONLY <1>13, <2>2, <2>3, <2>5, <3>1
  <2>7. /\ \A r \in g.readers : r.task \in answered /\ r.sb = c[r.task]
        /\ \A p, r \in g.readers : p.task = r.task => p = r
    BY ONLY <1>10, <1>13, <1>14, <1>16 DEF Going
  <2>8. /\ \A i \in 1 .. Len(g.waiting) :
             /\ g.waiting[i].task \in answered
             /\ g.waiting[i].read_bytes = c[g.waiting[i].task]
             /\ ~Reads(g, g.waiting[i].task)
        /\ \A i, j \in 1 .. Len(g.waiting) : g.waiting[i].task = g.waiting[j].task => i = j
    BY ONLY <1>13, <1>14, <2>1 DEF Going
  <2>9. \A v \in Nat : v \notin answered => c[v] = 0
    BY ONLY <1>14 DEF Going
  <2> QED BY ONLY <2>6, <2>7, <2>8, <2>9 DEF Going
<1>20. Transfers(g, c, answered, file_xfer_task_id, {t})
  BY ONLY <1>5, <1>13, <1>14, <1>18, <1>19 DEF Transfers
<1>21. PICK f : f = Agent!send_agent_message(g, Agent!FileData(t, c[t]))
  OBVIOUS
<1>22. PICK d : d = [c EXCEPT ![t] = @ + 1]
  OBVIOUS
<1>23. /\ Transfers(f, d, answered, file_xfer_task_id, {t})
       /\ SentOff(f, g, Agent!FileData(t, c[t]))
  BY ONLY <1>3, <1>15, <1>17, <1>20, <1>21, <1>22, t \in Nat, SendsChunk
<1>24. d[t] = q.sb + 1
  BY ONLY <1>5, <1>15, <1>22, t \in Nat
<1>25. /\ f.tokens <= agent_tokens /\ f.tokens + Len(f.sent) = agent_tokens + Len(sent)
       /\ f.tokens \in Nat /\ f.waiting = file_xfer_read_queue /\ f.readers = R
  BY ONLY <1>10, <1>13, <1>23 DEF SentOff
<1>26. ~Reads(f, t) /\ ~Waits(f, t)
  BY ONLY <1>10, <1>13, <1>17, <1>25 DEF Reads, Waits
<1>27. PICK r : r = Agent!file_xfer_read(f, t, d[t])
  OBVIOUS
<1>28. GoneOn(r, f, d, answered, file_xfer_task_id)
  BY ONLY <1>3, <1>15, <1>23, <1>26, <1>27, t \in Nat, ReadsOn
<1>29. /\ Transfers(r, d, answered, file_xfer_task_id, {})
       /\ r.tokens \in Nat /\ r.tokens <= f.tokens
       /\ r.tokens + Len(r.sent) = agent_tokens + Len(sent)
       /\ f.tokens # 0 => Len(r.waiting) = Len(file_xfer_read_queue)
  BY ONLY <1>25, <1>28 DEF GoneOn
<1>30. Agent!Becomes(r)
  BY ONLY <1>2, <1>7, <1>9, <1>11, <1>15, <1>21, <1>24, <1>27
<1>31. Len(file_xfer_read_queue) \in Nat /\ agent_tokens \in Nat
  BY ONLY <1>4 DEF UnderWay
<1>32. /\ r.tokens <= agent_tokens /\ file_xfer_task_id <= file_xfer_task_id
       /\ r.tokens # 0 => Len(r.waiting) <= Len(file_xfer_read_queue)
  <2>1. PICK a \in Nat : a = agent_tokens
    BY <1>31
  <2>2. PICK b \in Nat : b = f.tokens
    BY <1>25
  <2>3. PICK e \in Nat : e = r.tokens
    BY <1>29
  <2>4. b <= a /\ e <= b
    BY ONLY <1>25, <1>29, <2>1, <2>2, <2>3
  <2>5. e <= a /\ (e # 0 => b # 0)
    BY ONLY <2>4, a \in Nat, b \in Nat, e \in Nat
  <2>6. file_xfer_task_id <= file_xfer_task_id
    BY ONLY <1>5
  <2>7. Len(file_xfer_read_queue) <= Len(file_xfer_read_queue)
    BY ONLY <1>31
  <2> QED BY ONLY <1>29, <2>1, <2>2, <2>3, <2>5, <2>6, <2>7
<1> QED BY ONLY <1>1, <1>3, <1>4, <1>5, <1>29, <1>30, <1>32, StillUnderWay

\* A step of another part leaves the agent as it is.
LEMMA AgentKept ==
  ASSUME AgentInv, UNCHANGED Agent!avars
  PROVE  AgentInv'
<1>1. /\ agent_connected' = agent_connected /\ agent_tokens' = agent_tokens
      /\ agent_msg_queue' = agent_msg_queue /\ file_xfer_tasks' = file_xfer_tasks
      /\ file_xfer_task_id' = file_xfer_task_id /\ file_xfer_read_queue' = file_xfer_read_queue
      /\ readers' = readers /\ sent' = sent /\ returned' = returned /\ answered' = answered
      /\ broken' = broken
  BY DEF Agent!avars
<1>2. Agent!Main' = Agent!Main /\ Agent!Given' = Agent!Given
  BY <1>1 DEF Agent!Main, Agent!Given
<1> QED BY <1>1, <1>2 DEF AgentInv

\* Every step of the agent keeps its invariant.
LEMMA AgentStep ==
  ASSUME AgentInv, Agent!Next
  PROVE  AgentInv'
BY AgentConnects, AgentLeaves, TokensCome, DataCanBeSent, TransferEnds, FileDropped, TaskMarked,
   ChunkRead DEF Agent!Next

\* Transfers that go on are in order and under way.
LEMMA AgentMeans ==
  ASSUME AgentInv
  PROVE  Agent!ChunksInOrder /\ Agent!TransferUnderWay
<1> SUFFICES ASSUME ~broken PROVE Agent!ChunksInOrder /\ Agent!TransferUnderWay
  BY DEF Agent!ChunksInOrder, Agent!TransferUnderWay
<1>1. PICK s : s = sent \o agent_msg_queue
  OBVIOUS
<1>2. PICK c : /\ s \in Seq(AgentPiece) /\ Chunks(s, c)
               /\ agent_connected => Going(Agent!Main, c, answered, {}) /\ c \in [Nat -> Nat]
  <2>1. CASE agent_connected
    <3>1. PICK c, k, n : UnderWay(c, k, n)
      BY <2>1, IsUnderWay
    <3>2. Typed(Agent!Main, file_xfer_task_id) /\ c \in [Nat -> Nat]
          /\ Going(Agent!Main, c, answered, {}) /\ Chunks(sent \o agent_msg_queue, c)
      BY ONLY <3>1, PartsOfMain DEF UnderWay, Transfers
    <3>3. sent \in Seq(AgentPiece) /\ agent_msg_queue \in Seq(AgentPiece)
      BY ONLY <3>2, PartsOfMain DEF Typed
    <3>4. s \in Seq(AgentPiece)
      BY ONLY <1>1, <3>3, ConcatProperties
    <3> QED BY <1>1, <3>2, <3>4
  <2>2. CASE ~agent_connected
    <3>1. PICK c \in [Nat -> Nat] : Chunks(sent \o agent_msg_queue, c)
      BY <2>2 DEF AgentInv
    <3>2. Typed(Agent!Main, file_xfer_task_id)
      BY <2>2 DEF AgentInv
    <3>3. sent \in Seq(AgentPiece) /\ agent_msg_queue \in Seq(AgentPiece)
      BY ONLY <3>2, PartsOfMain DEF Typed
    <3>4. s \in Seq(AgentPiece)
      BY ONLY <1>1, <3>3, ConcatProperties
    <3> QED BY <1>1, <2>2, <3>1, <3>4
  <2> QED BY <2>1, <2>2
<1>3. DOMAIN s = 1 .. Len(s)
  BY <1>2, LenProperties
<1>4. Agent!ChunksInOrder
  <2>1. \A i, j \in 1 .. Len(s) : s[i].what = "data" /\ s[i] = s[j] => i = j
    BY ONLY <1>2 DEF Chunks
  <2>2. \A i \in 1 .. Len(s) : s[i].what = "data" /\ s[i].number = 1 /\ s[i].chunk > 0 =>
          \E j \in 1 .. (i - 1) : s[j] = Agent!Piece("data", s[i].task, s[i].chunk - 1, Pieces)
    BY ONLY <1>2 DEF Chunks
  <2>3. \A i \in 1 .. Len(s) : s[i].number > 1 =>
          i > 1 /\ s[i - 1] = [s[i] EXCEPT !.number = @ - 1]
    BY ONLY <1>2 DEF Chunks
  <2>4. Agent!Stream = s
    BY <1>1 DEF Agent!Stream
  <2>5. DOMAIN Agent!Stream = 1 .. Len(s)
    BY ONLY <1>3, <2>4
  <2>6. \A i, j \in DOMAIN Agent!Stream :
          Agent!Stream[i].what = "data" /\ Agent!Stream[i] = Agent!Stream[j] => i = j
    BY ONLY <2>1, <2>4, <2>5
  <2>7. \A i \in DOMAIN Agent!Stream :
          /\ Agent!Stream[i].what = "data" /\ Agent!Stream[i].number = 1
               /\ Agent!Stream[i].chunk > 0 =>
               \E j \in 1 .. (i - 1) : Agent!Stream[j] =
                 Agent!Piece("data", Agent!Stream[i].task, Agent!Stream[i].chunk - 1, Pieces)
          /\ Agent!Stream[i].number > 1 =>
               i > 1 /\ Agent!Stream[i - 1] = [Agent!Stream[i] EXCEPT !.number = @ - 1]
    BY ONLY <2>2, <2>3, <2>4, <2>5, Zenon
  <2> QED BY ONLY <2>6, <2>7, Zenon DEF Agent!ChunksInOrder
<1>5. Agent!TransferUnderWay
  <2> SUFFICES ASSUME agent_connected PROVE Agent!TransferUnderWay
    BY DEF Agent!TransferUnderWay
  <2>1. PICK e, k, n : UnderWay(e, k, n)
    BY IsUnderWay
  <2>2. /\ k \in Nat /\ k = returned /\ n \in Nat /\ n = Len(sent) /\ k <= n
        /\ agent_tokens \in Nat /\ agent_tokens + n - k \in Tokens
        /\ agent_msg_queue # <<>> => agent_tokens = 0
        /\ Len(file_xfer_read_queue) \in Nat
        /\ file_xfer_task_id <= agent_tokens + n - k
             => Len(file_xfer_read_queue) + agent_tokens <= agent_tokens + n - k
    BY ONLY <2>1, PartsOfMain DEF UnderWay, Enough, Transfers
  <2>3. Agent!Given = agent_tokens + n - k
    BY ONLY <2>2 DEF Agent!Given
  <2>4. agent_tokens = 0 /\ 0 \notin Tokens => returned < Len(sent)
    <3>1. agent_tokens = 0 /\ ~(k < n) => agent_tokens + n - k = 0
      BY ONLY <2>2
    <3> QED BY ONLY <2>2, <3>1
  <2>5. file_xfer_task_id <= Agent!Given => Len(file_xfer_read_queue) <= Len(sent) - returned
    <3>1. PICK w \in Nat : w = Len(file_xfer_read_queue)
      BY <2>2
    <3>2. PICK a \in Nat : a = agent_tokens
      BY <2>2
    <3>3. w + a <= a + n - k => w <= n - k
      BY ONLY <2>2, w \in Nat, a \in Nat
    <3> QED BY ONLY <2>2, <2>3, <3>1, <3>2, <3>3
  <2>6. ASSUME NEW t \in DOMAIN file_xfer_tasks
        PROVE  \/ t \notin answered
               \/ \E r \in readers : r.task = t
               \/ \E i \in DOMAIN file_xfer_read_queue : file_xfer_read_queue[i].task = t
               \/ \E i \in DOMAIN s : s[i] = Agent!Piece("data", t, file_xfer_tasks[t].size - 1,
                                                         Pieces)
    <3>1. /\ Typed(Agent!Main, file_xfer_task_id)
          /\ file_xfer_task_id \in Nat
          /\ DOMAIN file_xfer_tasks \subseteq 0 .. (file_xfer_task_id - 1)
          /\ file_xfer_tasks \in [DOMAIN file_xfer_tasks ->
                                    [size : Nat \ {0}, cancelled : BOOLEAN]]
      BY ONLY <2>1, MainUnderWay
    <3>2. t \in Nat /\ file_xfer_tasks[t].size \in Nat \ {0}
      BY ONLY <3>1, t \in DOMAIN file_xfer_tasks
    <3>3. PICK z \in Nat : z = file_xfer_tasks[t].size - 1 /\ z + 1 = file_xfer_tasks[t].size
      BY <3>2
    <3>4. \/ t \notin answered
          \/ Reads(Agent!Main, t) \/ Waits(Agent!Main, t)
          \/ c[t] = file_xfer_tasks[t].size
      BY <1>2, PartsOfMain DEF Going
    <3>5. Reads(Agent!Main, t) => \E r \in readers : r.task = t
      BY ONLY PartsOfMain DEF Reads
    <3>6. Waits(Agent!Main, t) =>
            \E i \in DOMAIN file_xfer_read_queue : file_xfer_read_queue[i].task = t
      <4>1. file_xfer_read_queue \in Seq([task : Nat, read_bytes : Nat])
        BY ONLY <3>1, PartsOfMain DEF Typed
      <4>2. DOMAIN file_xfer_read_queue = 1 .. Len(file_xfer_read_queue)
        BY <4>1, LenProperties
      <4> QED BY ONLY <4>2, PartsOfMain DEF Waits
    <3>7. c[t] = file_xfer_tasks[t].size =>
            \E i \in DOMAIN s : s[i] = Agent!Piece("data", t, z, Pieces)
      <4>1. \A v \in Nat : \A x \in Nat : x < c[v] =>
              \E i \in 1 .. Len(s) : s[i] = Agent!Piece("data", v, x, Pieces)
        BY ONLY <1>2 DEF Chunks
      <4>2. c[t] = file_xfer_tasks[t].size => z < c[t]
        <5>1. z < z + 1
          BY ONLY z \in Nat
        <5> QED BY ONLY <3>3, <5>1
      <4> QED BY ONLY <1>3, <3>2, <4>1, <4>2, z \in Nat, Zenon
    <3> QED BY ONLY <3>3, <3>4, <3>5, <3>6, <3>7
  <2> QED BY ONLY <1>1, <2>2, <2>3, <2>4, <2>5, <2>6 DEF Agent!TransferUnderWay, Agent!Stream
<1> QED BY <1>4, <1>5

-----------------------------------------------------------------------------

\* The inductive invariant of the client.
Inv ==
  /\ SessionInv /\ ButtonInv /\ MotionInv /\ ModifierInv /\ DisplayInv /\ SoundInv /\ WireInv
  /\ AgentInv

\* A step of another part leaves the session as it is,
LEMMA SessionKept ==
  ASSUME SessionInv, UNCHANGED session
  PROVE  SessionInv'
<1>1. UNCHANGED <<conns, slots, extra, progress, told>>
  BY DEF session
<1>2. Session!Displaced' = Session!Displaced
  BY <1>1, SameDisplaced
<1> QED BY <1>1, <1>2 DEF SessionInv, MainInStep, Session!NothingLeftOpen, Reached

\* and the inputs,
LEMMA InputsKept ==
  ASSUME ButtonInv, MotionInv, ModifierInv, UNCHANGED inputs
  PROVE  ButtonInv' /\ MotionInv' /\ ModifierInv'
<1>1. UNCHANGED <<ready, held, known, modifiers, guest, muddled, waiting_for_ack, motions, acks,
                  down, buttons_state, several>>
  BY DEF inputs
<1> QED BY <1>1 DEF ButtonInv, MotionInv, ModifierInv, Inputs!ModifiersAgree, Inputs!Keys

\* and the display.
LEMMA DisplayKept ==
  ASSUME DisplayInv, UNCHANGED display
  PROVE  DisplayInv'
<1>1. UNCHANGED <<surfaces, primary_surface, hooked, cache, has_cache, streams, loading, open,
                  draws, sv, astray, unclear>>
  BY DEF display
<1>2. draws' \in Nat /\ LoadingType' /\ sv' = [surfaces |-> sv'.surfaces, cache |-> sv'.cache]
  BY <1>1 DEF DisplayInv, LoadingType
<1>3. open => SurfaceInv'
  <2> SUFFICES ASSUME open PROVE SurfaceInv'
    OBVIOUS
  <2>1. SurfaceInv
    BY WhileOpen
  <2> QED BY <1>1, <2>1, SameBoxes
<1>4. open => KeyInv'
  <2> SUFFICES ASSUME open PROVE KeyInv'
    OBVIOUS
  <2>1. \A k \in {0, 1} : LoadsFor(k)' = LoadsFor(k)
    BY <1>1 DEF LoadsFor
  <2>2. KeyInv
    BY WhileOpen
  <2> QED BY <1>1, <2>1, <2>2, SameKeys
<1>5. open => StreamsOn'
  BY <1>1, WhileOpen DEF StreamsOn
<1> QED BY <1>1, <1>2, <1>3, <1>4, <1>5, StillOpen

\* The invariant holds at first.
LEMMA SpiceInitInv ==
  ASSUME SpiceInit
  PROVE  Inv
BY SessionInit, InputsInit, DisplayInit, SoundInit, WireInit, AgentInit DEF SpiceInit, Inv

\* Every step keeps the invariant, and a session that is ready.
LEMMA SpiceStep ==
  ASSUME Inv, [SpiceNext]_all
  PROVE  Inv' /\ (Ends \/ UNCHANGED conns)
<1>1. /\ SessionInv /\ ButtonInv /\ MotionInv /\ ModifierInv /\ DisplayInv /\ SoundInv /\ WireInv
      /\ AgentInv
  BY DEF Inv
<1>2. /\ UNCHANGED session => SessionInv' /\ UNCHANGED conns
      /\ UNCHANGED inputs => ButtonInv' /\ MotionInv' /\ ModifierInv'
      /\ UNCHANGED display => DisplayInv'
      /\ UNCHANGED pvars => SoundInv'
      /\ UNCHANGED wires => WireInv'
      /\ UNCHANGED agent => AgentInv'
  BY <1>1, SessionKept, InputsKept, DisplayKept, SoundKept, WireKept, AgentKept
  DEF session, agent, Agent!avars
<1>3. CASE UNCHANGED <<session, inputs, display, pvars, wires, agent>>
  BY <1>2, <1>3 DEF Inv
<1>4. CASE Session!Next /\ UNCHANGED <<inputs, display, pvars, wires, agent>>
  BY <1>1, <1>2, <1>4, SessionStep DEF Inv
<1>5. CASE Inputs!Next /\ UNCHANGED <<session, display, pvars, wires, agent>>
  BY <1>1, <1>2, <1>5, ButtonStep, MotionStep, ModifierStep DEF Inv
<1>6. CASE Display!Next /\ UNCHANGED <<session, inputs, pvars, wires, agent>>
  BY <1>1, <1>2, <1>6, DisplayStep DEF Inv
<1>7. CASE Next /\ UNCHANGED <<session, inputs, display, wires, agent>>
  BY <1>1, <1>2, <1>7, SoundStep DEF Inv
<1>8. CASE Wire!Next /\ UNCHANGED <<session, inputs, display, pvars, agent>>
  BY <1>1, <1>2, <1>8, WireStep DEF Inv
<1>9. CASE Agent!Next /\ UNCHANGED <<session, inputs, display, pvars, wires>>
  BY <1>1, <1>2, <1>9, AgentStep DEF Inv
<1>10. CASE SpiceNext
  BY <1>3, <1>4, <1>5, <1>6, <1>7, <1>8, <1>9, <1>10 DEF SpiceNext
<1>11. CASE UNCHANGED all
  BY <1>3, <1>11 DEF all
<1> QED BY <1>10, <1>11

\* The invariant holds in every state of the client.
THEOREM SpiceInductive == SpiceSpec => []Inv
<1>1. SpiceInit => Inv
  BY SpiceInitInv
<1>2. Inv /\ [SpiceNext]_all => Inv'
  BY SpiceStep
<1> QED BY <1>1, <1>2, PTL DEF SpiceSpec

\* When a session has been stopped, in whatever state its channels are, every
\* socket that was not displaced is closed or closing and its timer is cleared
\* (SpiceMainConn.stop).
THEOREM SessionStops == SpiceSpec => []NothingLeftOpen
<1>1. Inv => NothingLeftOpen
  BY DEF Inv, SessionInv, NothingLeftOpen
<1> QED BY <1>1, SpiceInductive, PTL

\* No timer of the handshake and no other channel ends a session that is ready:
\* its own socket does (SpiceConn's report_error).
THEOREM ReadyLasts == SpiceSpec => ReadyUntilClosed
<1>1. Inv /\ [SpiceNext]_all =>
        [conns[0].state = "ready" /\ conns'[0].state # "ready"
           => conns'[0].ws = "closed"]_(Session!svars)
  <2> SUFFICES ASSUME Inv, [SpiceNext]_all
               PROVE  conns[0].state = "ready" /\ conns'[0].state # "ready"
                        => conns'[0].ws = "closed"
    OBVIOUS
  <2> QED BY SpiceStep DEF Ends
<1> QED BY <1>1, SpiceInductive, PTL DEF SpiceSpec, ReadyUntilClosed, Session!ReadyUntilClosed

\* The modifiers of the guest are those of the page once it knows them, motions
\* are not held back without an acknowledgement to come, and the button reported
\* is the one that is down (inputs.js).
THEOREM InputsFollow == SpiceSpec => []InputsAgree
<1>1. Inv => InputsAgree
  BY InputsMeans DEF Inv
<1> QED BY <1>1, SpiceInductive, PTL

\* Surfaces and cache are what the server takes them for, except where a message
\* came in the way of an image that was still loading (display.js).
THEOREM DisplayFollows == SpiceSpec => []DisplayAsServer
<1>1. Inv => DisplayAsServer
  BY DisplayMeans DEF Inv
<1> QED BY <1>1, SpiceInductive, PTL

\* While the browser has room and the source buffer is the one that the stream
\* was begun with, what has been made is appended in its order, one buffer at
\* a time, and what waits has an append under way to fetch it; the stream that
\* is made is one a player can read, its elements being as long as they
\* declare for packets of any length (playback.js, webm.js).
THEOREM SoundFollows == SpiceSpec => []SoundPlays
<1>1. Inv => SoundPlays
  BY SoundMeans, AllWhole DEF Inv, SoundPlays, StreamWellFormed
<1> QED BY <1>1, SpiceInductive, PTL

\* However the socket cuts the stream, the messages handled are the first of
\* those that were sent, each once and in order; when nothing is on the wire
\* they are all of them, and no window of messages goes without its
\* acknowledgement (wire.js, spiceconn.js).
THEOREM PiecesFollow == SpiceSpec => []AnyPieces
<1>1. Inv => AnyPieces
  BY WireMeans DEF Inv, AnyPieces
<1> QED BY <1>1, SpiceInductive, PTL

\* Unless an agent left in the middle of something: it gets the chunks of each
\* file whole, in order and once, no token is lost, and a transfer that is not
\* finished waits for a reader, for a token that is to come, or for the agent's
\* answer (main.js, filexfer.js).
THEOREM FilesFollow == SpiceSpec => []AgentTransfers
<1>1. Inv => AgentTransfers
  BY AgentMeans DEF Inv, AgentTransfers
<1> QED BY <1>1, SpiceInductive, PTL
=============================================================================
