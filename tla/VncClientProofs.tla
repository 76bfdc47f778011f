--------------------------- MODULE VncClientProofs ---------------------------
(***************************************************************************)
(* Theorems about the VNC client of MCVncClient, for any keys, buttons,    *)
(* pixels, sizes of the framebuffer and of the window, and any number of   *)
(* changes, moves, requests and drawing actions.                           *)
(***************************************************************************)
EXTENDS MCVncClient, WellFoundedInduction, SequenceTheorems, TLAPS

(* Induction: a set of natural numbers has a least element, and one that   *)
(* is bounded a greatest, the one Max chooses.                             *)

\* The order of the natural numbers, as a set of pairs.
Smaller == {p \in Nat \X Nat : p[1] < p[2]}

\* No sequence of natural numbers decreases for ever.
LEMMA SmallerWellFounded == IsWellFoundedOn(Smaller, Nat)
BY NatLessThanWellFounded, Zenon DEF Smaller, OpToRel

\* A set of natural numbers has a least element.
LEMMA LeastNat ==
  ASSUME NEW I, I \subseteq Nat, I # {}
  PROVE  \E x \in I : \A y \in I : x <= y
<1>1. PICK x \in I : \A y \in I : ~(<<y, x>> \in Smaller)
  BY SmallerWellFounded, WFMin
<1>2. ASSUME NEW y \in I PROVE x <= y
  <2>1. x \in Nat /\ y \in Nat /\ <<y, x>> \in Nat \X Nat
    OBVIOUS
  <2>2. ~(y < x)
    BY <1>1, <2>1 DEF Smaller
  <2> QED BY <2>1, <2>2
<1> QED BY <1>2

\* A bounded set of natural numbers has a greatest element, and Max is it.
LEMMA Greatest ==
  ASSUME NEW n \in Nat, NEW I, I \subseteq 1..n, I # {}
  PROVE  Max(I) \in I /\ \A y \in I : y <= Max(I)
<1> DEFINE Left == {n - i : i \in I}
<1>1. \E x \in Left : \A y \in Left : x <= y
  <2>1. \A i \in I : n - i \in Nat
    OBVIOUS
  <2>2. Left \subseteq Nat /\ Left # {}
    BY <2>1
  <2> QED BY ONLY <2>2, LeastNat
<1>2. PICK x \in I : \A y \in I : n - x <= n - y
  BY <1>1
<1>3. \A y \in I : x >= y
  BY <1>2
<1>4. /\ (CHOOSE z \in I : \A y \in I : z >= y) \in I
      /\ \A y \in I : (CHOOSE z \in I : \A u \in I : z >= u) >= y
  BY <1>3
<1> QED BY <1>4 DEF Max

-----------------------------------------------------------------------------
(* The devices.                                                            *)

\* What the client may send for a key, and an entry of keyDownList.
Keysyms == {Input!None} \cup {Input!Sym(k, mods) : k \in Input!Keys, mods \in SUBSET Input!Keys}
Event == [key : Input!Keys, keysym : Keysyms]

\* The last entry is the one a keypress event is awaited for, unless a dead key
\* has none.
Awaited ==
  \/ pending = Input!None
  \/ \E k \in Input!Keys :
       /\ pending = <<k>> /\ grabbed
       /\ k \notin Dead => /\ keyDownList # <<>>
                           /\ keyDownList[Len(keyDownList)] = Input!Entry(k, Input!None)

\* Each entry is of a key the user holds, and no two of the same.
ListHeld ==
  \A i \in DOMAIN keyDownList :
    /\ keyDownList[i].key \in held
    /\ \A j \in DOMAIN keyDownList : keyDownList[j].key = keyDownList[i].key => i = j

\* The list is empty unless the keyboard is grabbed, what is pressed on the
\* server is in it, and the keys in it are held unless a blur came between.
KeyboardInv ==
  /\ held \subseteq Input!Keys /\ keyDownList \in Seq(Event)
  /\ ~grabbed => keyDownList = <<>>
  /\ Awaited
  /\ Input!None \notin remote
  /\ Input!PressedIsListed
  /\ grabbed /\ ~uneven => ListHeld

\* At most one button is down, and the server and the drag know of it only while
\* the mouse is captured for it.
MouseInv ==
  ~odd =>
    IF mouseCaptured
    THEN /\ grabbed
         /\ \E b \in Buttons :
              /\ pushed = {b} /\ mouse_buttonMask = {b}
              /\ viewportDragging => viewportDrag
    ELSE /\ \A a, b \in pushed : a = b
         /\ mouse_buttonMask = {} /\ remoteMask = {} /\ ~viewportDragging

\* getKeyEvent finds the last entry of a key, if there is one.
LEMMA KeyEvent ==
  ASSUME keyDownList \in Seq(Event), NEW k
  PROVE  /\ Input!getKeyEvent(k) \in 0..Len(keyDownList)
         /\ Input!getKeyEvent(k) = 0 =>
              \A i \in 1..Len(keyDownList) : keyDownList[i].key # k
         /\ Input!getKeyEvent(k) # 0 => keyDownList[Input!getKeyEvent(k)].key = k
<1> DEFINE I == {i \in 1..Len(keyDownList) : keyDownList[i].key = k}
<1>1. Input!getKeyEvent(k) = IF I # {} THEN Max(I) ELSE 0
  BY DEF Input!getKeyEvent, Input!SelectLastInSeq, Input!Max, Max
<1>2. Len(keyDownList) \in Nat /\ I \subseteq 1..Len(keyDownList)
  OBVIOUS
<1>3. I # {} => Max(I) \in I /\ \A y \in I : y <= Max(I)
  BY <1>2, Greatest
<1> QED BY <1>1, <1>2, <1>3

\* RemoveAt drops one entry and keeps the order of the others.
LEMMA RemoveIs ==
  ASSUME NEW E, NEW s \in Seq(E), NEW i \in 1..Len(s), NEW r, r = Input!RemoveAt(s, i)
  PROVE  /\ r \in Seq(E) /\ Len(r) = Len(s) - 1
         /\ \A j \in 1..Len(s) - 1 : r[j] = IF j < i THEN s[j] ELSE s[j + 1]
<1>1. Len(s) \in Nat /\ SubSeq(s, 1, i - 1) \in Seq(E) /\ SubSeq(s, i + 1, Len(s)) \in Seq(E)
  OBVIOUS
<1>2. Len(SubSeq(s, 1, i - 1)) = i - 1 /\ Len(SubSeq(s, i + 1, Len(s))) = Len(s) - i
  BY <1>1
<1>3. /\ \A j \in 1..(i - 1) : SubSeq(s, 1, i - 1)[j] = s[j]
      /\ \A j \in 1..(Len(s) - i) : SubSeq(s, i + 1, Len(s))[j] = s[i + j]
  BY <1>1
<1> DEFINE a == SubSeq(s, 1, i - 1)
           b == SubSeq(s, i + 1, Len(s))
<1>4. r = a \o b
  BY DEF Input!RemoveAt
<1>5. /\ a \in Seq(E) /\ b \in Seq(E) /\ Len(a) = i - 1 /\ Len(b) = Len(s) - i
      /\ \A j \in 1..(i - 1) : a[j] = s[j]
      /\ \A j \in 1..(Len(s) - i) : b[j] = s[i + j]
  BY <1>1, <1>2, <1>3
<1>6. i \in Nat /\ i >= 1 /\ i <= Len(s)
  BY <1>1
<1> HIDE DEF a, b
<1>7. r \in Seq(E) /\ Len(r) = Len(s) - 1
  BY <1>1, <1>4, <1>5, <1>6
<1>8. ASSUME NEW j \in 1..(Len(s) - 1)
      PROVE  r[j] = IF j < i THEN s[j] ELSE s[j + 1]
  <2>1. CASE j < i
    <3>1. r[j] = a[j]
      BY <1>1, <1>4, <1>5, <1>6, <2>1
    <3> QED BY <1>5, <1>6, <2>1, <3>1
  <2>2. CASE ~(j < i)
    <3>1. j - (i - 1) \in 1..(Len(s) - i) /\ i + (j - (i - 1)) = j + 1
      BY <1>1, <1>6, <2>2
    <3>2. r[j] = b[j - (i - 1)]
      BY <1>1, <1>4, <1>5, <1>6, <2>2, <3>1
    <3> QED BY <1>5, <2>2, <3>1, <3>2
  <2> QED BY <2>1, <2>2
<1> QED BY <1>7, <1>8

\* The keysyms that are sent are keysyms, and never None.
LEMMA SymIs ==
  ASSUME NEW k \in Input!Keys, NEW mods \in SUBSET Input!Keys
  PROVE  /\ Input!Sym(k, mods) \in Keysyms /\ Input!Sym(k, mods) # Input!None
         /\ Input!getKeysymSpecial(k, mods) \in Keysyms
         /\ Input!None \in Keysyms
<1>1. Input!Sym(k, mods) \in Keysyms /\ Input!None \in Keysyms
  BY DEF Keysyms
<1>2. Input!Sym(k, mods) # Input!None
  <2>1. <<k>> # <<>> /\ <<k, "Shift" \in mods>> # <<>>
    OBVIOUS
  <2> QED BY <2>1 DEF Input!Sym, Input!None
<1> QED BY <1>1, <1>2 DEF Input!getKeysymSpecial

\* The devices at the start.
LEMMA InputInit ==
  ASSUME Input!Init
  PROVE  KeyboardInv /\ MouseInv
BY DEF Input!Init, KeyboardInv, Awaited, Input!PressedIsListed, ListHeld, MouseInv

\* A keydown adds one entry for the key, or refreshes the one it has.
LEMMA KeyDownStep ==
  ASSUME KeyboardInv, NEW k \in Input!Keys, Input!onKeyDown(k)
  PROVE  KeyboardInv'
<1>1. /\ grabbed /\ grabbed' /\ pending = Input!None /\ held' = held \cup {k}
      /\ UNCHANGED <<functions, focused>>
  BY DEF Input!onKeyDown
<1>2. held' \subseteq Input!Keys /\ keyDownList \in Seq(Event) /\ Input!None \notin remote
  BY <1>1 DEF KeyboardInv
<1>3. CASE ~focused
  BY <1>1, <1>2, <1>3 DEF Input!onKeyDown, KeyboardInv, Awaited, Input!PressedIsListed
<1>4. CASE focused
  <2> DEFINE keysym == Input!getKeysymSpecial(k, held')
  <2>1. /\ remote' = IF keysym # Input!None THEN remote \cup {keysym} ELSE remote
        /\ IF Input!ignoreKeyEvent(k)
           THEN keyDownList' = keyDownList
           ELSE keyDownList' = Append(keyDownList, Input!Entry(k, keysym))
        /\ \/ keysym = Input!None /\ pending' = <<k>>
           \/ (keysym # Input!None \/ k \in Dead) /\ pending' = pending
        /\ uneven' = (uneven \/ k \in held) /\ composed' = composed
    BY <1>4 DEF Input!onKeyDown, Input!pushKeyEvent
  <2>2. keysym \in Keysyms /\ (k \in Dead => keysym = Input!None)
    BY <1>2, SymIs, ClientAssumption DEF Input!getKeysymSpecial
  <2> HIDE DEF keysym
  <2>3. Input!Entry(k, keysym) \in Event /\ Input!Entry(k, keysym).key = k
        /\ Input!Entry(k, keysym).keysym = keysym
    BY <2>2 DEF Input!Entry, Event
  <2>4. Input!None \notin remote'
    BY <1>2, <2>1
  <2>5. CASE k \in Dead
    BY <1>1, <1>2, <2>1, <2>2, <2>4, <2>5
       DEF Input!ignoreKeyEvent, KeyboardInv, Awaited, Input!PressedIsListed, ListHeld
  <2>6. CASE k \notin Dead
    <3>1. keyDownList' = Append(keyDownList, Input!Entry(k, keysym))
      BY <2>1, <2>6 DEF Input!ignoreKeyEvent
    <3>2. /\ keyDownList' \in Seq(Event) /\ Len(keyDownList') = Len(keyDownList) + 1
          /\ Len(keyDownList) \in Nat
          /\ keyDownList'[Len(keyDownList')] = Input!Entry(k, keysym)
          /\ \A i \in 1..Len(keyDownList) : keyDownList'[i] = keyDownList[i]
      BY <1>2, <2>3, <3>1
    <3>3. Awaited'
      BY <1>1, <2>1, <2>6, <3>2 DEF Awaited
    <3>4. Input!PressedIsListed'
      <4> SUFFICES ASSUME ~composed', ~functions', NEW x \in remote'
                   PROVE  x \in {f.keysym : f \in Input!ToSet(keyDownList')}
        BY DEF Input!PressedIsListed
      <4>1. CASE x \in remote
        <5>1. PICK i \in 1..Len(keyDownList) : x = keyDownList[i].keysym
          BY <1>1, <1>2, <2>1, <4>1 DEF KeyboardInv, Input!PressedIsListed, Input!ToSet
        <5>2. i \in DOMAIN keyDownList' /\ keyDownList'[i].keysym = x
          BY <3>2, <5>1
        <5> QED BY <5>2 DEF Input!ToSet
      <4>2. CASE x = keysym
        <5>1. Len(keyDownList') \in DOMAIN keyDownList'
          BY <3>2
        <5> QED BY <2>3, <3>2, <4>2, <5>1 DEF Input!ToSet
      <4> QED BY <2>1, <4>1, <4>2
    <3>5. ~uneven' => ListHeld'
      <4> SUFFICES ASSUME ~uneven' PROVE ListHeld'
        OBVIOUS
      <4>1. ListHeld /\ k \notin held
        BY <1>1, <2>1 DEF KeyboardInv
      <4>2. ASSUME NEW i \in 1..Len(keyDownList)
            PROVE  keyDownList'[i].key \in held /\ keyDownList'[i] = keyDownList[i]
        BY <1>2, <3>2, <4>1 DEF ListHeld
      <4>3. DOMAIN keyDownList' = 1..(Len(keyDownList) + 1)
            /\ DOMAIN keyDownList = 1..Len(keyDownList)
        BY <1>2, <3>2
      <4> QED BY <1>1, <2>3, <3>2, <4>1, <4>2, <4>3 DEF ListHeld
    <3> QED BY <1>1, <1>2, <2>4, <3>2, <3>3, <3>4, <3>5 DEF KeyboardInv
  <2> QED BY <2>5, <2>6
<1> QED BY <1>3, <1>4

\* A keypress gives the entry that awaits it its keysym.
LEMMA KeyPressStep ==
  ASSUME KeyboardInv, Input!onKeyPress
  PROVE  KeyboardInv'
<1>1. PICK k \in Input!Keys :
        /\ pending = <<k>> /\ grabbed
        /\ k \notin Dead => /\ keyDownList # <<>>
                            /\ keyDownList[Len(keyDownList)] = Input!Entry(k, Input!None)
  BY DEF Input!onKeyPress, KeyboardInv, Awaited
<1> DEFINE keysym == Input!Sym(k, held)
           n == Len(keyDownList)
<1>2. /\ keyDownList' = IF n > 0 THEN [keyDownList EXCEPT ![n].keysym = keysym] ELSE keyDownList
      /\ remote' = remote \cup {keysym} /\ composed' = (composed \/ k \in Dead)
      /\ pending' = Input!None
      /\ UNCHANGED <<held, focused, grabbed, uneven, functions>>
  BY <1>1 DEF Input!onKeyPress
<1>3. /\ keysym \in Keysyms /\ keysym # Input!None
      /\ held \subseteq Input!Keys /\ keyDownList \in Seq(Event) /\ Input!None \notin remote
  BY SymIs DEF KeyboardInv
<1> HIDE DEF keysym
<1>4. /\ keyDownList' \in Seq(Event) /\ Len(keyDownList') = Len(keyDownList)
      /\ DOMAIN keyDownList' = DOMAIN keyDownList /\ DOMAIN keyDownList = 1..n /\ n \in Nat
      /\ \A i \in 1..n : /\ keyDownList'[i].key = keyDownList[i].key
                         /\ i # n => keyDownList'[i] = keyDownList[i]
      /\ n > 0 => keyDownList'[n].keysym = keysym
  <2>1. CASE n > 0
    <3>1. keyDownList[n] \in Event /\ n \in 1..n
      BY <1>3, <2>1
    <3>2. [keyDownList[n] EXCEPT !.keysym = keysym] \in Event
      BY <1>3, <3>1 DEF Event
    <3>3. keyDownList' = [keyDownList EXCEPT ![n] = [keyDownList[n] EXCEPT !.keysym = keysym]]
      BY <1>2, <2>1
    <3>4. /\ [keyDownList[n] EXCEPT !.keysym = keysym].key = keyDownList[n].key
          /\ [keyDownList[n] EXCEPT !.keysym = keysym].keysym = keysym
      BY <3>1 DEF Event
    <3> QED BY <1>3, <2>1, <3>1, <3>2, <3>3, <3>4
  <2>2. CASE ~(n > 0)
    BY <1>2, <1>3, <2>2
  <2> QED BY <2>1, <2>2
<1>5. Input!PressedIsListed'
  <2> SUFFICES ASSUME ~composed', ~functions', NEW x \in remote'
               PROVE  x \in {f.keysym : f \in Input!ToSet(keyDownList')}
    BY DEF Input!PressedIsListed
  <2>1. /\ ~composed /\ k \notin Dead /\ n \in DOMAIN keyDownList' /\ n > 0
        /\ keyDownList[n].keysym = Input!None
    <3>1. ~composed /\ k \notin Dead
      BY <1>2
    <3>2. keyDownList # <<>> /\ keyDownList[n] = Input!Entry(k, Input!None)
      BY <1>1, <3>1
    <3>3. n > 0
      BY <1>3, <3>2
    <3>4. n \in DOMAIN keyDownList'
      <4>1. n \in Nat /\ DOMAIN keyDownList' = 1..n
        BY ONLY <1>4
      <4>2. n \in 1..n
        BY <3>3, <4>1
      <4> QED BY ONLY <4>1, <4>2
    <3>5. Input!Entry(k, Input!None).keysym = Input!None
      BY DEF Input!Entry
    <3> QED BY <3>1, <3>2, <3>3, <3>4, <3>5
  <2>2. CASE x \in remote
    <3>1. PICK i \in 1..n : x = keyDownList[i].keysym
      BY <1>1, <1>2, <1>4, <2>1, <2>2 DEF KeyboardInv, Input!PressedIsListed, Input!ToSet
    <3>2. i # n
      BY <1>3, <2>1, <2>2, <3>1
    <3>3. i \in DOMAIN keyDownList' /\ keyDownList'[i].keysym = x
      BY <1>4, <3>1, <3>2
    <3> QED BY <3>3 DEF Input!ToSet
  <2>3. CASE x = keysym
    BY <1>4, <2>1, <2>3 DEF Input!ToSet
  <2> QED BY <1>2, <2>2, <2>3
<1>6. grabbed' /\ ~uneven' => ListHeld'
  BY <1>2, <1>4 DEF KeyboardInv, ListHeld
<1> QED BY <1>1, <1>2, <1>3, <1>4, <1>5, <1>6 DEF KeyboardInv, Awaited

\* A keyup releases what the entry of the key says, and drops the entry.
LEMMA KeyUpStep ==
  ASSUME KeyboardInv, NEW k \in Input!Keys, Input!onKeyUp(k)
  PROVE  KeyboardInv'
<1>1. /\ k \in held /\ pending = Input!None /\ held' = held \ {k}
      /\ UNCHANGED <<pending, focused, grabbed, composed, functions>>
      /\ held \subseteq Input!Keys /\ keyDownList \in Seq(Event) /\ Input!None \notin remote
  BY DEF Input!onKeyUp, KeyboardInv
<1>2. CASE ~(grabbed /\ focused)
  <2>1. UNCHANGED <<keyDownList, remote>> /\ uneven' = (uneven \/ grabbed)
    BY <1>2 DEF Input!onKeyUp
  <2>2. Input!PressedIsListed'
    BY <1>1, <2>1 DEF KeyboardInv, Input!PressedIsListed
  <2> QED BY <1>1, <2>1, <2>2 DEF KeyboardInv, Awaited
<1>3. CASE grabbed /\ focused
  <2> DEFINE i == Input!getKeyEvent(k)
  <2>1. /\ remote' = IF i = 0 THEN remote ELSE remote \ {keyDownList[i].keysym}
        /\ keyDownList' = IF i = 0 THEN keyDownList ELSE Input!RemoveAt(keyDownList, i)
        /\ UNCHANGED uneven
    BY <1>3 DEF Input!onKeyUp
  <2>2. /\ i \in 0..Len(keyDownList) /\ Len(keyDownList) \in Nat
        /\ DOMAIN keyDownList = 1..Len(keyDownList)
        /\ i = 0 => \A j \in 1..Len(keyDownList) : keyDownList[j].key # k
        /\ i # 0 => keyDownList[i].key = k
    BY <1>1, KeyEvent
  <2> HIDE DEF i
  <2>3. CASE i = 0
    <3>1. UNCHANGED <<keyDownList, remote, uneven>>
      BY <2>1, <2>3
    <3>2. Input!PressedIsListed'
      BY <1>1, <3>1 DEF KeyboardInv, Input!PressedIsListed
    <3>3. ListHeld => ListHeld'
      BY <1>1, <2>2, <2>3, <3>1 DEF ListHeld
    <3> QED BY <1>1, <1>3, <3>1, <3>2, <3>3 DEF KeyboardInv, Awaited
  <2>4. CASE i # 0
    <3>1. i \in 1..Len(keyDownList) /\ keyDownList' = Input!RemoveAt(keyDownList, i)
      BY <2>1, <2>2, <2>4
    <3>2. /\ keyDownList' \in Seq(Event) /\ Len(keyDownList') = Len(keyDownList) - 1
          /\ \A j \in 1..Len(keyDownList) - 1 :
               keyDownList'[j] = IF j < i THEN keyDownList[j] ELSE keyDownList[j + 1]
      <4>1. keyDownList \in Seq(Event)
        BY <1>1
      <4> QED BY ONLY <3>1, <4>1, RemoveIs
    <3>3. DOMAIN keyDownList' = 1..Len(keyDownList) - 1
      BY <3>2
    <3>4. Input!PressedIsListed'
      <4> SUFFICES ASSUME ~composed', ~functions', NEW x \in remote'
                   PROVE  x \in {f.keysym : f \in Input!ToSet(keyDownList')}
        BY DEF Input!PressedIsListed
      <4>1. x \in remote /\ x # keyDownList[i].keysym
        BY <2>1, <2>4
      <4>2. PICK j \in 1..Len(keyDownList) : x = keyDownList[j].keysym
        BY <1>1, <1>3, <4>1 DEF KeyboardInv, Input!PressedIsListed, Input!ToSet
      <4>3. j # i
        BY <4>1, <4>2
      <4>4. \E u \in DOMAIN keyDownList' : keyDownList'[u] = keyDownList[j]
        <5>1. CASE j < i
          <6>1. j \in 1..Len(keyDownList) - 1
            BY <2>2, <3>1, <5>1
          <6> QED BY <3>2, <3>3, <5>1, <6>1
        <5>2. CASE j > i
          <6>1. j - 1 \in 1..Len(keyDownList) - 1 /\ ~(j - 1 < i) /\ (j - 1) + 1 = j
            BY <2>2, <3>1, <5>2
          <6> QED BY <3>2, <3>3, <6>1
        <5> QED BY <2>2, <3>1, <4>3, <5>1, <5>2
      <4> QED BY <4>2, <4>4 DEF Input!ToSet
    <3>5. ListHeld => ListHeld'
      <4> SUFFICES ASSUME ListHeld PROVE ListHeld'
        OBVIOUS
      <4>1. ASSUME NEW u \in DOMAIN keyDownList'
            PROVE  \E j \in DOMAIN keyDownList \ {i} :
                     keyDownList'[u] = keyDownList[j] /\ j = IF u < i THEN u ELSE u + 1
        <5>1. u \in 1..Len(keyDownList) - 1
          BY <3>3
        <5> QED BY <2>2, <3>1, <3>2, <5>1
      <4>2. \A j \in DOMAIN keyDownList \ {i} : keyDownList[j].key # k
        BY <2>2, <2>4, <3>1 DEF ListHeld
      <4>3. ASSUME NEW u \in DOMAIN keyDownList'
            PROVE  keyDownList'[u].key \in held'
        BY <1>1, <4>1, <4>2 DEF ListHeld
      <4>4. ASSUME NEW u \in DOMAIN keyDownList', NEW v \in DOMAIN keyDownList',
                   keyDownList'[v].key = keyDownList'[u].key
            PROVE  u = v
        <5>1. PICK j \in DOMAIN keyDownList \ {i} :
                keyDownList'[u] = keyDownList[j] /\ j = IF u < i THEN u ELSE u + 1
          BY <4>1
        <5>2. PICK l \in DOMAIN keyDownList \ {i} :
                keyDownList'[v] = keyDownList[l] /\ l = IF v < i THEN v ELSE v + 1
          BY <4>1
        <5>3. j = l
          BY <4>4, <5>1, <5>2 DEF ListHeld
        <5>4. u \in Nat /\ v \in Nat /\ i \in Nat
          BY <2>2, <3>3
        <5> QED BY <5>1, <5>2, <5>3, <5>4
      <4> QED BY <4>3, <4>4 DEF ListHeld
    <3>6. Input!None \notin remote'
      BY <1>1, <2>1
    <3> QED BY <1>1, <1>3, <2>1, <3>2, <3>4, <3>5, <3>6 DEF KeyboardInv, Awaited
  <2> QED BY <2>3, <2>4
<1> QED BY <1>2, <1>3

\* A step that ends with no key on the list, or leaves the list alone.
LEMMA BlurStep ==
  ASSUME KeyboardInv, Input!blur
  PROVE  KeyboardInv'
<1>1. /\ grabbed /\ pending = Input!None /\ keyDownList' = <<>>
      /\ remote' = remote \ {f.keysym : f \in Input!ToSet(keyDownList)}
      /\ held' \in {held, {}} /\ UNCHANGED <<pending, grabbed, composed, functions>>
  BY DEF Input!blur, Input!allKeysUp
<1>2. /\ held' \subseteq Input!Keys /\ keyDownList' \in Seq(Event) /\ Input!None \notin remote'
      /\ (~composed /\ ~functions => remote' = {})
  BY <1>1 DEF KeyboardInv, Input!PressedIsListed
<1>3. ListHeld'
  BY <1>1 DEF ListHeld
<1> QED BY <1>1, <1>2, <1>3 DEF KeyboardInv, Awaited, Input!PressedIsListed

\* A grab starts with an empty list.
LEMMA GrabStep ==
  ASSUME KeyboardInv, Input!grab
  PROVE  KeyboardInv'
<1>1. /\ keyDownList = <<>> /\ pending = Input!None /\ remote' = {} /\ grabbed'
      /\ UNCHANGED <<held, keyDownList, pending>>
  BY DEF Input!grab, KeyboardInv, Awaited
<1>2. ListHeld'
  BY <1>1 DEF ListHeld
<1> QED BY <1>1, <1>2 DEF KeyboardInv, Awaited, Input!PressedIsListed

\* An ungrab leaves an empty list.
LEMMA UngrabStep ==
  ASSUME KeyboardInv, Input!ungrab
  PROVE  KeyboardInv'
<1>1. /\ ~grabbed' /\ pending' = Input!None /\ keyDownList' = <<>>
      /\ remote' = remote \ {f.keysym : f \in Input!ToSet(keyDownList)}
      /\ held' = held
  BY DEF Input!ungrab, Input!allKeysUp
<1>2. held' \subseteq Input!Keys /\ keyDownList' \in Seq(Event) /\ Input!None \notin remote'
  BY <1>1 DEF KeyboardInv
<1> QED BY <1>1, <1>2 DEF KeyboardInv, Awaited, Input!PressedIsListed

\* Ctrl-Alt-Del and Ctrl-Alt-Fn send keys past the list.
LEMMA KeysSent ==
  ASSUME KeyboardInv, Input!sendCtrlAltDel \/ Input!sendCtrlAltFN
  PROVE  KeyboardInv'
<1>1. /\ UNCHANGED <<held, keyDownList, pending, grabbed, uneven, composed>>
      /\ Input!None \notin remote'
      /\ ~functions' => ~functions /\ remote' \subseteq remote
  <2>1. <<"Control">> # <<>> /\ <<"Alt">> # <<>> /\ <<"Fn">> # <<>>
    OBVIOUS
  <2> QED BY <2>1 DEF Input!sendCtrlAltDel, Input!sendCtrlAltFN, KeyboardInv, Input!None,
                      Input!history
<1>2. Input!PressedIsListed'
  BY <1>1 DEF KeyboardInv, Input!PressedIsListed
<1>3. ListHeld => ListHeld'
  BY <1>1 DEF ListHeld
<1> QED BY <1>1, <1>2, <1>3 DEF KeyboardInv, Awaited

\* Steps that touch no key keep the invariant of the keyboard.
LEMMA KeyboardKept ==
  ASSUME KeyboardInv, UNCHANGED <<held, keyDownList, pending, remote, grabbed, uneven, composed,
                                  functions>>
  PROVE  KeyboardInv'
<1>1. Input!PressedIsListed' /\ (ListHeld => ListHeld') /\ Awaited'
  BY DEF KeyboardInv, Input!PressedIsListed, ListHeld, Awaited
<1> QED BY <1>1 DEF KeyboardInv

\* Every step of the devices keeps the invariant of the keyboard.
LEMMA KeyboardStep ==
  ASSUME KeyboardInv, Input!Next
  PROVE  KeyboardInv'
<1>1. CASE Input!Mouse
  <2>1. UNCHANGED <<held, keyDownList, pending, remote, grabbed, uneven, composed, functions>>
    BY <1>1 DEF Input!Mouse, Input!onMouseDown, Input!PushElsewhere, Input!onMouseUp,
                Input!setViewDrag, Input!keyboard, Input!history
  <2> QED BY <2>1, KeyboardKept
<1>2. CASE Input!displayBlur
  <2>1. UNCHANGED <<held, keyDownList, pending, remote, grabbed, uneven, composed, functions>>
    BY <1>2 DEF Input!displayBlur, Input!keyboard, Input!history
  <2> QED BY <2>1, KeyboardKept
<1>3. CASE Input!Keyboard
  BY <1>3, KeyDownStep, KeyUpStep, KeyPressStep, BlurStep, KeysSent DEF Input!Keyboard
<1> QED BY <1>1, <1>2, <1>3, GrabStep, UngrabStep DEF Input!Next

\* Buttons keep the invariant of the mouse.
LEMMA MouseButtonStep ==
  ASSUME MouseInv, NEW b \in Buttons,
         Input!onMouseDown(b) \/ Input!PushElsewhere(b) \/ Input!onMouseUp(b)
  PROVE  MouseInv'
<1> SUFFICES ASSUME ~odd' PROVE MouseInv'
  BY DEF MouseInv
<1>1. CASE Input!onMouseDown(b)
  <2>1. /\ ~odd /\ pushed = {} /\ pushed' = {b} /\ mouseCaptured' = TRUE
        /\ Input!mouseButton(b, TRUE) /\ UNCHANGED <<grabbed, viewportDrag>> /\ grabbed
    BY <1>1 DEF Input!onMouseDown
  <2>2. mouse_buttonMask = {} /\ ~viewportDragging
    BY <2>1 DEF MouseInv
  <2>3. mouse_buttonMask' = {b} /\ (viewportDragging' => viewportDrag)
    BY <2>1, <2>2 DEF Input!mouseButton
  <2> QED BY <2>1, <2>3 DEF MouseInv
<1>2. CASE Input!PushElsewhere(b)
  <2>1. /\ ~odd /\ pushed = {} /\ pushed' = {b}
        /\ UNCHANGED <<mouseCaptured, mouse_buttonMask, remoteMask, viewportDragging>>
    BY <1>2 DEF Input!PushElsewhere, Input!drag
  <2> QED BY <2>1 DEF MouseInv
<1>3. CASE Input!onMouseUp(b)
  <2>1. /\ b \in pushed /\ pushed' = pushed \ {b} /\ UNCHANGED <<grabbed, viewportDrag>>
    BY <1>3 DEF Input!onMouseUp
  <2>2. CASE grabbed /\ mouseCaptured
    <3>1. focused /\ ~mouseCaptured' /\ Input!mouseButton(b, FALSE) /\ ~odd
      BY <1>3, <2>2 DEF Input!onMouseUp
    <3>2. pushed = {b} /\ mouse_buttonMask = {b} /\ (viewportDragging => viewportDrag)
      BY <2>1, <2>2, <3>1 DEF MouseInv
    <3>3. Input!SymDiff({b}, {b}) = {}
      BY DEF Input!SymDiff
    <3>4. mouse_buttonMask' = {} /\ remoteMask' = {} /\ ~viewportDragging'
      BY <3>1, <3>2, <3>3 DEF Input!mouseButton
    <3> QED BY <2>1, <3>1, <3>2, <3>4 DEF MouseInv
  <2>3. CASE ~(grabbed /\ mouseCaptured)
    <3>1. UNCHANGED <<mouseCaptured, mouse_buttonMask, remoteMask, viewportDragging, odd>>
      BY <1>3, <2>3 DEF Input!onMouseUp
    <3> QED BY <2>1, <2>3, <3>1 DEF MouseInv
  <2> QED BY <2>2, <2>3
<1> QED BY <1>1, <1>2, <1>3

\* Every step of the devices keeps the invariant of the mouse.
LEMMA MouseStep ==
  ASSUME MouseInv, Input!Next
  PROVE  MouseInv'
<1>1. CASE Input!Keyboard \/ Input!displayBlur
  <2>1. UNCHANGED <<pushed, mouseCaptured, mouse_buttonMask, remoteMask, viewportDrag,
                    viewportDragging, odd, grabbed>>
    BY <1>1 DEF Input!Keyboard, Input!displayBlur, Input!onKeyDown, Input!onKeyUp,
                Input!onKeyPress, Input!blur, Input!sendCtrlAltDel, Input!sendCtrlAltFN,
                Input!mouse, Input!drag, Input!history
  <2> QED BY <2>1 DEF MouseInv
<1>2. CASE Input!setViewDrag
  <2>1. /\ pushed = {}
        /\ UNCHANGED <<pushed, mouseCaptured, mouse_buttonMask, remoteMask,
                       viewportDragging, odd, grabbed>>
    BY <1>2 DEF Input!setViewDrag, Input!mouse, Input!history
  <2> QED BY <2>1 DEF MouseInv
<1>3. CASE Input!grab
  <2>1. /\ ~grabbed /\ mouse_buttonMask' = {} /\ remoteMask' = {} /\ odd' = (odd \/ pushed # {})
        /\ UNCHANGED <<pushed, mouseCaptured, viewportDrag, viewportDragging>>
    BY <1>3 DEF Input!grab, Input!drag
  <2> QED BY <2>1 DEF MouseInv
<1>4. CASE Input!ungrab
  <2>1. /\ odd' = (odd \/ pushed # {})
        /\ UNCHANGED <<pushed, mouseCaptured, mouse_buttonMask, remoteMask, viewportDragging>>
    BY <1>4 DEF Input!ungrab, Input!mouse
  <2> QED BY <2>1 DEF MouseInv
<1> QED BY <1>1, <1>2, <1>3, <1>4, MouseButtonStep DEF Input!Next, Input!Mouse

\* What the parts of the invariant say of the devices.
LEMMA InputMeans ==
  ASSUME KeyboardInv, MouseInv
  PROVE  KeysAsHeld /\ ButtonsAsHeld
<1>1. Input!KeysReleased
  <2> SUFFICES ASSUME grabbed, held = {}, ~uneven, ~composed, ~functions
               PROVE  remote = {}
    BY DEF Input!KeysReleased
  <2>1. DOMAIN keyDownList = {}
    BY DEF KeyboardInv, ListHeld
  <2> QED BY <2>1 DEF KeyboardInv, Input!PressedIsListed, Input!ToSet
<1>2. Input!ButtonsReleased
  BY DEF Input!ButtonsReleased, MouseInv
<1>3. Input!DragEnds
  BY DEF Input!DragEnds, MouseInv
<1> QED BY <1>1, <1>2, <1>3 DEF KeysAsHeld, ButtonsAsHeld, KeyboardInv

-----------------------------------------------------------------------------
(* The screen.                                                             *)

\* What is under way to the client, and what is queued there.
Drawing == [via : {"direct", "img", "fill", "copy", "broken"},
            px : UNION {[D -> Int] : D \in SUBSET Pixels},
            from : SUBSET Pixels, ready : BOOLEAN]
Resizing == [via : {"size"}, size : Sizes]
\* A request, a size of the framebuffer, the clean rectangle, the viewport.
Asked == [clean : SUBSET Pixels, dirty : SUBSET Pixels]
Size == (Nat \ {0}) \X (Nat \ {0})
Corners == [x1 : Int, x2 : Int, y1 : Int, y2 : Int]
Port == [x : Nat, y : Nat, w : Nat \ {0}, h : Nat \ {0}]

\* Only a copy takes pixels from the canvas.
Act == {a \in Drawing : a.via = "copy" \/ a.from = {}} \cup Resizing

\* The types of the screen's variables.
ScreenType ==
  /\ fb \in [Pixels -> Int] /\ canvas \in [Pixels -> Int]
  /\ screen \in Sizes /\ fb_size \in Sizes
  /\ changed \subseteq Pixels /\ requests \in Seq(Asked)
  /\ actions \in Seq(Act) /\ renderQ \in Seq(Drawing)
  /\ viewport \in Port /\ cleanRect \in Corners

\* The viewport v is in a framebuffer, and what is clean of it is in it.
Inside(v, size) == v.x + v.w <= size[1] /\ v.y + v.h <= size[2]
CleanInside(c, v) ==
  /\ c.x1 >= v.x /\ c.x2 <= v.x + v.w - 1
  /\ c.y1 >= v.y /\ c.y2 <= v.y + v.h - 1

\* A move is clamped so that the viewport stays in the framebuffer.
LEMMA ClampInside ==
  ASSUME NEW pos \in Nat, NEW len \in Nat \ {0}, NEW delta \in Int, NEW max \in Nat,
         len <= max
  PROVE  /\ Screen!Clamp(pos, len, delta, max) \in Int
         /\ pos + Screen!Clamp(pos, len, delta, max) >= 0
         /\ pos + Screen!Clamp(pos, len, delta, max) + len <= max
BY DEF Screen!Clamp

\* What a move and a new size do to the viewport and the clean rectangle: it
\* stays in the framebuffer, and for clean only what was clean and is in view.
StaysIn(r, v, c, size, w, h) ==
  /\ r.v \in Port /\ r.c \in Corners
  /\ Inside(r.v, size) /\ CleanInside(r.c, r.v)
  /\ r.v.w = w /\ r.v.h = h
  /\ r.c.x1 >= c.x1 /\ r.c.y1 >= c.y1 /\ r.c.x2 <= c.x2 /\ r.c.y2 <= c.y2
  /\ r.c.x2 <= v.x + w - 1 /\ r.c.y2 <= v.y + h - 1

\* A change of the viewport leaves it in the framebuffer.
LEMMA ChangeInside ==
  ASSUME NEW v \in Port, NEW c \in Corners, NEW size \in Size, CleanInside(c, v),
         NEW dx \in Int, NEW dy \in Int, NEW w \in Nat \ {0}, NEW h \in Nat \ {0},
         w <= size[1], h <= size[2], NEW r, r = Screen!Change(v, c, size, dx, dy, w, h)
  PROVE  StaysIn(r, v, c, size, w, h)
<1> USE DEF StaysIn
<1> DEFINE u == [v EXCEPT !.w = w, !.h = h]
           s == Screen!Shrunk(v, c, w, h)
           a == Screen!Clamp(v.x, w, dx, size[1])
           b == Screen!Clamp(v.y, h, dy, size[2])
<1>1. /\ v.x \in Nat /\ v.y \in Nat /\ v.w \in Nat \ {0} /\ v.h \in Nat \ {0}
      /\ size[1] \in Nat /\ size[2] \in Nat
      /\ c.x1 \in Int /\ c.x2 \in Int /\ c.y1 \in Int /\ c.y2 \in Int
  BY DEF Port, Corners, Size
<1>2. /\ u \in Port /\ u.x = v.x /\ u.y = v.y /\ u.w = w /\ u.h = h
  BY <1>1 DEF Port
<1>3. /\ s \in Corners /\ s.x1 = c.x1 /\ s.y1 = c.y1
      /\ s.x2 = IF w < v.w THEN Screen!Least(c.x2, v.x + w - 1) ELSE c.x2
      /\ s.y2 = IF h < v.h THEN Screen!Least(c.y2, v.y + h - 1) ELSE c.y2
  <2> DEFINE x2 == IF w < v.w THEN Screen!Least(c.x2, v.x + w - 1) ELSE c.x2
             y2 == IF h < v.h THEN Screen!Least(c.y2, v.y + h - 1) ELSE c.y2
  <2>1. x2 \in Int /\ y2 \in Int
    BY <1>1 DEF Screen!Least
  <2>2. s = [c EXCEPT !.x2 = x2, !.y2 = y2]
    BY DEF Screen!Shrunk
  <2>3. c \in Corners
    OBVIOUS
  <2> HIDE DEF x2, y2, s
  <2>4. s \in Corners /\ s.x1 = c.x1 /\ s.y1 = c.y1 /\ s.x2 = x2 /\ s.y2 = y2
    BY ONLY <2>1, <2>2, <2>3 DEF Corners
  <2> QED BY <2>4 DEF x2, y2
<1>4. /\ s.x2 <= c.x2 /\ s.x2 <= v.x + w - 1
      /\ s.y2 <= c.y2 /\ s.y2 <= v.y + h - 1
  BY <1>1, <1>3 DEF Screen!Least, CleanInside
<1>5. /\ a \in Int /\ v.x + a >= 0 /\ v.x + a + w <= size[1]
      /\ b \in Int /\ v.y + b >= 0 /\ v.y + b + h <= size[2]
  BY <1>1, ClampInside
<1>6. r = Screen!Moved(u, s, a, b)
  BY DEF Screen!Change
<1> HIDE DEF u, s, a, b
<1>7. CASE a = 0 /\ b = 0
  <2>1. r = [v |-> u, c |-> s]
    BY <1>6, <1>7 DEF Screen!Moved
  <2>2. r.v = u /\ r.c = s
    BY <2>1
  <2> QED BY <1>1, <1>2, <1>3, <1>4, <1>5, <1>7, <2>2 DEF Inside, CleanInside
<1>8. CASE ~(a = 0 /\ b = 0)
  <2> DEFINE n == [u EXCEPT !.x = @ + a, !.y = @ + b]
             d == [x1 |-> Screen!Most(s.x1, n.x), x2 |-> Screen!Least(s.x2, n.x + n.w - 1),
                   y1 |-> Screen!Most(s.y1, n.y), y2 |-> Screen!Least(s.y2, n.y + n.h - 1)]
  <2>1. r = [v |-> n, c |-> d]
    BY <1>6, <1>8 DEF Screen!Moved
  <2>2. n \in Port /\ n.x = v.x + a /\ n.y = v.y + b /\ n.w = w /\ n.h = h
    <3>1. /\ v.x + a \in Nat /\ v.y + b \in Nat
          /\ n = [u EXCEPT !.x = v.x + a, !.y = v.y + b]
      BY <1>1, <1>2, <1>5
    <3> HIDE DEF n
    <3>2. n \in Port /\ n.x = v.x + a /\ n.y = v.y + b /\ n.w = u.w /\ n.h = u.h
      BY ONLY <1>2, <3>1 DEF Port
    <3> QED BY <1>2, <3>2
  <2> HIDE DEF n
  <2>3. /\ s.x1 \in Int /\ s.x2 \in Int /\ s.y1 \in Int /\ s.y2 \in Int
        /\ n.x \in Int /\ n.y \in Int /\ n.w \in Int /\ n.h \in Int
    BY <1>3, <2>2 DEF Port, Corners
  <2>4. /\ d.x1 = Screen!Most(s.x1, n.x) /\ d.x2 = Screen!Least(s.x2, n.x + n.w - 1)
        /\ d.y1 = Screen!Most(s.y1, n.y) /\ d.y2 = Screen!Least(s.y2, n.y + n.h - 1)
    OBVIOUS
  <2>5. d \in Corners
    BY <2>3 DEF Corners, Screen!Most, Screen!Least
  <2> HIDE DEF d
  <2>6. r.v = n /\ r.c = d
    BY <2>1
  <2>7. /\ d.x1 >= s.x1 /\ d.x1 >= n.x /\ d.x2 <= s.x2 /\ d.x2 <= n.x + n.w - 1
        /\ d.y1 >= s.y1 /\ d.y1 >= n.y /\ d.y2 <= s.y2 /\ d.y2 <= n.y + n.h - 1
    BY <2>3, <2>4 DEF Screen!Most, Screen!Least
  <2>8. d.x1 \in Int /\ d.x2 \in Int /\ d.y1 \in Int /\ d.y2 \in Int
    BY <2>5 DEF Corners
  <2>9. Inside(n, size) /\ CleanInside(d, n)
    BY <1>1, <1>5, <2>2, <2>3, <2>7, <2>8 DEF Inside, CleanInside
  <2>10. /\ d.x1 >= c.x1 /\ d.y1 >= c.y1 /\ d.x2 <= c.x2 /\ d.y2 <= c.y2
         /\ d.x2 <= v.x + w - 1 /\ d.y2 <= v.y + h - 1
    BY <1>1, <1>3, <1>4, <2>3, <2>7, <2>8
  <2> QED BY <2>2, <2>5, <2>6, <2>9, <2>10
<1> QED BY <1>7, <1>8

\* What is asked for is what is in view, and it leaves no hole.
LEMMA AsksForView ==
  ASSUME NEW v \in Port, NEW c \in Corners, CleanInside(c, v), ClientAssumption,
         NEW r, r = Screen!fbUpdateRequests(v, c)
  PROVE  /\ r.clean = Screen!Rect(c) /\ r.clean \subseteq Screen!View(v)
         /\ r.clean \cup r.dirty = Screen!View(v) /\ r \in Asked
<1>1. r.clean = Screen!Rect(c) /\ r.dirty = Screen!DirtyBoxes(v, c)
      /\ r = [clean |-> Screen!Rect(c), dirty |-> Screen!DirtyBoxes(v, c)]
  BY DEF Screen!fbUpdateRequests
<1>2. /\ v.x \in Nat /\ v.y \in Nat /\ v.w \in Nat \ {0} /\ v.h \in Nat \ {0}
      /\ c.x1 \in Int /\ c.x2 \in Int /\ c.y1 \in Int /\ c.y2 \in Int
  BY DEF Port, Corners
<1>3. \A p \in Pixels : p[1] \in Nat /\ p[2] \in Nat
  BY DEF ClientAssumption
<1>4. Screen!Rect(c) \subseteq Screen!View(v) /\ Screen!View(v) \subseteq Pixels
  BY <1>2, <1>3 DEF Screen!Rect, Screen!View, Screen!Box, CleanInside
<1>5. /\ Screen!DirtyBoxes(v, c) \subseteq Screen!View(v)
      /\ Screen!View(v) \subseteq Screen!Rect(c) \cup Screen!DirtyBoxes(v, c)
  <2>1. CASE c.x1 >= c.x2 \/ c.y1 >= c.y2
    BY <2>1 DEF Screen!DirtyBoxes
  <2>2. CASE ~(c.x1 >= c.x2 \/ c.y1 >= c.y2)
    <3> DEFINE left == IF v.x < c.x1 THEN Screen!Box(v.x, v.y, c.x1 - v.x + 1, v.h) ELSE {}
               right == IF v.x + v.w - 1 > c.x2
                        THEN Screen!Box(c.x2 + 1, v.y, v.x + v.w - 1 - c.x2, v.h) ELSE {}
               top == IF v.y < c.y1
                      THEN Screen!Box(c.x1, v.y, c.x2 - c.x1 + 1, c.y1 - v.y) ELSE {}
               below == IF v.y + v.h - 1 > c.y2
                        THEN Screen!Box(c.x1, c.y2 + 1, c.x2 - c.x1 + 1, v.y + v.h - 1 - c.y2)
                        ELSE {}
    <3>1. Screen!DirtyBoxes(v, c) = left \cup right \cup top \cup below
      <4>1. Screen!Beside(v, c) = UNION {left, right, top, below}
        BY ONLY Zenon DEF Screen!Beside
      <4>2. Screen!DirtyBoxes(v, c) = Screen!Beside(v, c)
        BY <2>2 DEF Screen!DirtyBoxes
      <4> HIDE DEF left, right, top, below
      <4> QED BY <4>1, <4>2
    <3>2. /\ left \subseteq Screen!View(v) /\ right \subseteq Screen!View(v)
          /\ top \subseteq Screen!View(v) /\ below \subseteq Screen!View(v)
      BY <1>2, <1>3, <2>2 DEF Screen!Box, Screen!View, CleanInside
    <3>3. ASSUME NEW p \in Screen!View(v), p \notin Screen!Rect(c)
          PROVE  p \in left \cup right \cup top \cup below
      <4>1. /\ p \in Pixels /\ p[1] \in Nat /\ p[2] \in Nat
            /\ p[1] >= v.x /\ p[1] <= v.x + v.w - 1
            /\ p[2] >= v.y /\ p[2] <= v.y + v.h - 1
        BY <1>2, <1>3, <3>3 DEF Screen!View, Screen!Box
      <4>2. p[1] < c.x1 \/ p[1] > c.x2 \/ p[2] < c.y1 \/ p[2] > c.y2
        BY <1>2, <3>3, <4>1 DEF Screen!Rect, Screen!Box
      <4>3. CASE p[1] < c.x1
        BY <1>2, <4>1, <4>3 DEF Screen!Box
      <4>4. CASE p[1] > c.x2
        BY <1>2, <4>1, <4>4 DEF Screen!Box
      <4>5. CASE p[1] >= c.x1 /\ p[1] <= c.x2 /\ p[2] < c.y1
        BY <1>2, <4>1, <4>5 DEF Screen!Box
      <4>6. CASE p[1] >= c.x1 /\ p[1] <= c.x2 /\ p[2] > c.y2
        BY <1>2, <4>1, <4>6 DEF Screen!Box
      <4>7. p[1] < c.x1 \/ p[1] > c.x2 \/ (p[1] >= c.x1 /\ p[1] <= c.x2)
        BY <1>2, <4>1
      <4> HIDE DEF left, right, top, below
      <4> QED BY ONLY <4>2, <4>3, <4>4, <4>5, <4>6, <4>7
    <3> HIDE DEF left, right, top, below
    <3> QED BY <3>1, <3>2, <3>3
  <2> QED BY <2>1, <2>2
<1> QED BY <1>1, <1>4, <1>5 DEF Asked

-----------------------------------------------------------------------------
(* The drawing queue.                                                      *)

\* An action draws a pixel; what a queue leaves of a pixel that shows c.
On(a, p) == a.via # "size" /\ p \in DOMAIN a.px
Leaves(q, p, c) == IF Screen!LastOn(q, p) # 0 THEN q[Screen!LastOn(q, p)].px[p] ELSE c

\* LastOn is the last action of the queue that draws the pixel.
LEMMA LastOnIs ==
  ASSUME NEW E, NEW q \in Seq(E), NEW p
  PROVE  /\ Screen!LastOn(q, p) \in 0..Len(q)
         /\ Screen!LastOn(q, p) # 0 => On(q[Screen!LastOn(q, p)], p)
         /\ \A i \in 1..Len(q) : On(q[i], p) => i <= Screen!LastOn(q, p)
<1> DEFINE I == {i \in 1..Len(q) : On(q[i], p)}
<1>1. Screen!LastOn(q, p) = IF I # {} THEN Max(I) ELSE 0
  BY DEF Screen!LastOn, Screen!SelectLastInSeq, Screen!Max, Max, On
<1>2. Len(q) \in Nat /\ I \subseteq 1..Len(q)
  OBVIOUS
<1>3. I # {} => Max(I) \in I /\ \A y \in I : y <= Max(I)
  BY <1>2, Greatest
<1> QED BY <1>1, <1>2, <1>3

\* LastOn is the only index that is as LastOnIs says.
LEMMA LastOnOnly ==
  ASSUME NEW E, NEW q \in Seq(E), NEW p, NEW l \in 0..Len(q),
         l # 0 => On(q[l], p), \A i \in 1..Len(q) : On(q[i], p) => i <= l
  PROVE  Screen!LastOn(q, p) = l
<1> DEFINE n == Screen!LastOn(q, p)
<1>1. n \in 0..Len(q) /\ (n # 0 => On(q[n], p)) /\ \A i \in 1..Len(q) : On(q[i], p) => i <= n
  BY LastOnIs
<1>2. Len(q) \in Nat
  OBVIOUS
<1> HIDE DEF n
<1>3. n <= l
  BY <1>1, <1>2
<1>4. l <= n
  BY <1>1, <1>2
<1>5. n = l
  BY <1>1, <1>2, <1>3, <1>4
<1> QED BY <1>5 DEF n

\* What is queued last is what is left.
LEMMA LeavesAppended ==
  ASSUME NEW E, NEW q \in Seq(E), NEW a \in E, NEW p, NEW c
  PROVE  Leaves(Append(q, a), p, c) = IF On(a, p) THEN a.px[p] ELSE Leaves(q, p, c)
<1> DEFINE r == Append(q, a)
<1>1. /\ r \in Seq(E) /\ Len(r) = Len(q) + 1 /\ Len(q) \in Nat
      /\ r[Len(q) + 1] = a /\ \A i \in 1..Len(q) : r[i] = q[i]
  OBVIOUS
<1> HIDE DEF r
<1>2. CASE On(a, p)
  <2>1. Len(r) # 0 /\ Len(r) \in 0..Len(r) /\ r[Len(r)] = a
        /\ \A i \in 1..Len(r) : i <= Len(r)
    BY <1>1
  <2>2. Screen!LastOn(r, p) = Len(r)
    BY <1>1, <1>2, <2>1, LastOnOnly
  <2> QED BY <1>2, <2>1, <2>2 DEF Leaves, r
<1>3. CASE ~On(a, p)
  <2> DEFINE l == Screen!LastOn(q, p)
  <2>1. /\ l \in 0..Len(q) /\ (l # 0 => On(q[l], p))
        /\ \A i \in 1..Len(q) : On(q[i], p) => i <= l
    BY LastOnIs
  <2> HIDE DEF l
  <2>2. l \in 0..Len(r) /\ (l # 0 => l \in 1..Len(q) /\ r[l] = q[l])
    BY <1>1, <2>1
  <2>3. \A i \in 1..Len(r) : On(r[i], p) => i <= l
    BY <1>1, <1>3, <2>1
  <2>4. Screen!LastOn(r, p) = l
    BY <1>1, <2>1, <2>2, <2>3, LastOnOnly
  <2> QED BY <1>3, <2>2, <2>4 DEF Leaves, l, r
<1> QED BY <1>2, <1>3

\* Drawing the first action of a queue leaves the rest.
LEMMA LeavesDrawn ==
  ASSUME NEW E, NEW q \in Seq(E), q # <<>>, NEW p, NEW c
  PROVE  Leaves(q, p, c) = Leaves(Tail(q), p, IF On(Head(q), p) THEN Head(q).px[p] ELSE c)
<1> DEFINE t == Tail(q)
           l == Screen!LastOn(t, p)
<1>1. /\ t \in Seq(E) /\ Len(t) = Len(q) - 1 /\ Len(q) \in Nat \ {0} /\ Head(q) = q[1]
      /\ \A i \in 1..(Len(q) - 1) : t[i] = q[i + 1]
  OBVIOUS
<1> HIDE DEF t
<1>2. /\ l \in 0..Len(t) /\ (l # 0 => On(t[l], p))
      /\ \A i \in 1..Len(t) : On(t[i], p) => i <= l
  BY <1>1, LastOnIs
<1> HIDE DEF l
<1>3. CASE l # 0
  <2>1. l + 1 \in 1..Len(q) /\ q[l + 1] = t[l]
    BY <1>1, <1>2, <1>3
  <2>2. ASSUME NEW i \in 1..Len(q), On(q[i], p) PROVE i <= l + 1
    <3>1. CASE i = 1
      BY <1>1, <1>2, <1>3, <3>1
    <3>2. CASE i # 1
      <4>1. i - 1 \in 1..Len(t) /\ q[i] = t[i - 1]
        BY <1>1, <3>2
      <4> QED BY <1>1, <1>2, <2>2, <4>1
    <3> QED BY <3>1, <3>2
  <2>3. Screen!LastOn(q, p) = l + 1
    BY <1>1, <1>2, <1>3, <2>1, <2>2, LastOnOnly
  <2>4. l + 1 # 0
    BY <1>2
  <2> QED BY <1>3, <2>1, <2>3, <2>4 DEF Leaves, l, t
<1>4. CASE l = 0
  <2>1. \A i \in 2..Len(q) : ~On(q[i], p)
    <3> SUFFICES ASSUME NEW i \in 2..Len(q), On(q[i], p) PROVE FALSE
      OBVIOUS
    <3>1. i - 1 \in 1..Len(t) /\ q[i] = t[i - 1]
      BY <1>1
    <3> QED BY <1>1, <1>2, <1>4, <3>1
  <2>2. CASE On(q[1], p)
    <3>1. 1 \in 0..Len(q) /\ \A i \in 1..Len(q) : On(q[i], p) => i <= 1
      BY <1>1, <2>1
    <3>2. Screen!LastOn(q, p) = 1
      BY <2>2, <3>1, LastOnOnly
    <3> QED BY <1>1, <1>4, <2>2, <3>2 DEF Leaves, l, t
  <2>3. CASE ~On(q[1], p)
    <3>1. 0 \in 0..Len(q) /\ \A i \in 1..Len(q) : On(q[i], p) => i <= 0
      BY <1>1, <2>1, <2>3
    <3>2. Screen!LastOn(q, p) = 0
      BY <3>1, LastOnOnly
    <3> QED BY <1>1, <1>4, <2>3, <3>2 DEF Leaves, l, t
  <2> QED BY <2>2, <2>3
<1> QED BY <1>3, <1>4

\* After is what its definition says, for any queue.
LEMMA AfterIs ==
  ASSUME NEW E, NEW q \in Seq(E)
  PROVE  /\ Screen!After(q)[0] = canvas
         /\ \A i \in 1..Len(q) : Screen!After(q)[i] = Screen!Draw(Screen!After(q)[i - 1], q[i])
<1> DEFINE Of(n, f) ==
             f = [i \in 0..n |-> IF i = 0 THEN canvas ELSE Screen!Draw(f[i - 1], q[i])]
           I == {n \in Nat : ~\E f : Of(n, f)}
<1>1. I = {}
  <2> SUFFICES ASSUME I # {} PROVE FALSE
    OBVIOUS
  <2>1. PICK n \in I : \A m \in I : n <= m
    <3>1. I \subseteq Nat /\ I # {}
      OBVIOUS
    <3> HIDE DEF I
    <3> QED BY <3>1, LeastNat
  <2>2. n \in Nat /\ ~\E f : Of(n, f)
    OBVIOUS
  <2>3. CASE n = 0
    <3> DEFINE f == [i \in 0..0 |-> canvas]
    <3>1. f = [i \in 0..0 |-> IF i = 0 THEN canvas ELSE Screen!Draw(f[i - 1], q[i])]
      <4>1. \A i \in 0..0 : i = 0
        OBVIOUS
      <4> QED BY <4>1
    <3> QED BY <2>2, <2>3, <3>1
  <2>4. CASE n # 0
    <3>1. n - 1 \in Nat /\ n - 1 \notin I
      <4>1. n - 1 \in Nat /\ ~(n <= n - 1)
        BY ONLY <2>2, <2>4
      <4> HIDE DEF I
      <4> QED BY ONLY <2>1, <4>1
    <3>2. PICK g : Of(n - 1, g)
      BY <3>1
    <3> DEFINE f == [i \in 0..n |-> IF i = n THEN Screen!Draw(g[n - 1], q[n]) ELSE g[i]]
               h == [i \in 0..n |-> IF i = 0 THEN canvas ELSE Screen!Draw(f[i - 1], q[i])]
    <3>3. ASSUME NEW i \in 0..n PROVE f[i] = h[i]
      <4>1. i \in Int /\ n \in Int /\ n > 0 /\ i >= 0 /\ i <= n
        BY <2>2, <2>4
      <4>2. CASE i = n
        <5>1. n - 1 \in 0..n /\ n - 1 # n /\ n # 0
          BY <4>1
        <5>2. f[n - 1] = g[n - 1]
          BY <5>1
        <5> QED BY <4>2, <5>1, <5>2
      <4>3. CASE i # n /\ i # 0
        <5>1. i - 1 \in 0..n /\ i - 1 # n /\ i \in 0..(n - 1)
          BY <4>1, <4>3
        <5>2. g[i] = Screen!Draw(g[i - 1], q[i])
          BY <3>2, <4>3, <5>1
        <5> QED BY <4>3, <5>1, <5>2
      <4>4. CASE i = 0
        <5>1. 0 \in 0..(n - 1) /\ 0 # n
          BY <4>1
        <5>2. g[0] = canvas
          BY <3>2, <5>1
        <5> QED BY <4>4, <5>1, <5>2
      <4> QED BY <4>2, <4>3, <4>4
    <3>4. f = h
      BY <3>3
    <3>5. Of(n, f)
      BY <3>4
    <3> QED BY <2>2, <3>5
  <2> QED BY <2>3, <2>4
<1>2. Len(q) \in Nat
  OBVIOUS
<1>3. \E f : Of(Len(q), f)
  BY <1>1, <1>2
<1>4. Of(Len(q), Screen!After(q))
  BY <1>3 DEF Screen!After
<1> DEFINE a == Screen!After(q)
<1> HIDE DEF a
<1>5. a = [i \in 0..Len(q) |-> IF i = 0 THEN canvas ELSE Screen!Draw(a[i - 1], q[i])]
  BY <1>4 DEF a
<1>6. a[0] = canvas /\ \A i \in 1..Len(q) : a[i] = Screen!Draw(a[i - 1], q[i])
  BY <1>2, <1>5
<1> QED BY <1>6 DEF a

\* What a drawing action sets, unless it is a copy of what is not there.
LEMMA DrawSets ==
  ASSUME ScreenType, NEW a \in Drawing, NEW c \in [Pixels -> Int]
  PROVE  /\ Screen!Draw(c, a) \in [Pixels -> Int]
         /\ a.from = {} \/ ~Screen!Blind(c, a) =>
              \A p \in Screen!View(viewport) :
                Screen!Draw(c, a)[p] = IF On(a, p) THEN a.px[p] ELSE c[p]
<1>1. /\ a.px \in UNION {[D -> Int] : D \in SUBSET Pixels} /\ a.from \in SUBSET Pixels
      /\ a.via # "size"
  BY DEF Drawing
<1>2. PICK D \in SUBSET Pixels : a.px \in [D -> Int]
  BY <1>1
<1>3. DOMAIN a.px = D /\ \A p \in D : a.px[p] \in Int
  BY <1>2
<1>4. (CHOOSE q \in a.from : TRUE) \in a.from \/ a.from = {}
  OBVIOUS
<1> DEFINE q0 == CHOOSE q \in a.from : TRUE
           d == Screen!Draw(c, a)
<1>5. d = [p \in Pixels |->
        IF p \notin DOMAIN a.px \cap Screen!View(viewport) THEN c[p]
        ELSE IF a.from = {} THEN a.px[p]
        ELSE IF a.from \subseteq Screen!View(viewport) THEN c[q0]
        ELSE c[p]]
  BY DEF Screen!Draw
<1>6. a.from # {} => q0 \in a.from /\ q0 \in Pixels
  BY <1>1, <1>4
<1> HIDE DEF q0, d
<1>7. d \in [Pixels -> Int]
  BY <1>1, <1>3, <1>5, <1>6
<1>8. ASSUME a.from = {} \/ ~Screen!Blind(c, a), NEW p \in Screen!View(viewport)
      PROVE  d[p] = IF On(a, p) THEN a.px[p] ELSE c[p]
  <2>1. p \in Pixels
    BY DEF Screen!View, Screen!Box
  <2>2. CASE ~On(a, p)
    BY <1>1, <1>5, <2>1, <2>2 DEF On
  <2>3. CASE On(a, p) /\ a.from = {}
    BY <1>1, <1>5, <2>1, <2>3 DEF On
  <2>4. CASE On(a, p) /\ a.from # {}
    <3>1. a.from \subseteq Screen!View(viewport) /\ c[q0] = a.px[p]
      BY <1>6, <1>8, <2>4 DEF Screen!Blind, On
    <3> QED BY <1>1, <1>5, <2>1, <2>4, <3>1 DEF On
  <2> QED BY <2>2, <2>3, <2>4
<1> QED BY <1>7, <1>8 DEF d

\* What is left of a queue from its i-th action on.
LEMMA Suffix ==
  ASSUME NEW E, NEW q \in Seq(E), NEW i \in 1..(Len(q) + 1), NEW r, r = SubSeq(q, i, Len(q))
  PROVE  /\ r \in Seq(E) /\ Len(r) = Len(q) - i + 1
         /\ i = Len(q) + 1 => r = <<>>
         /\ i <= Len(q) => /\ r # <<>> /\ Head(r) = q[i] /\ q[i] \in E
                           /\ Tail(r) = SubSeq(q, i + 1, Len(q))
<1>1. Len(q) \in Nat /\ i \in Nat /\ i >= 1 /\ i <= Len(q) + 1
  OBVIOUS
<1>2. r \in Seq(E)
  OBVIOUS
<1>3. Len(r) = Len(q) - i + 1
  <2>1. CASE i <= Len(q)
    BY <1>1, <2>1
  <2>2. CASE i = Len(q) + 1
    BY <1>1, <2>2
  <2> QED BY <1>1, <2>1, <2>2
<1>4. \A j \in 1..(Len(q) - i + 1) : r[j] = q[i + j - 1]
  BY <1>1
<1>5. ASSUME i <= Len(q)
      PROVE  /\ r # <<>> /\ Head(r) = q[i] /\ q[i] \in E
             /\ Tail(r) = SubSeq(q, i + 1, Len(q))
  <2>1. Len(r) \in Nat \ {0} /\ q[i] \in E
    BY <1>1, <1>3, <1>5
  <2>2. r # <<>> /\ Head(r) = q[i]
    <3>1. r # <<>>
      BY ONLY <1>2, <2>1
    <3>2. 1 \in 1..(Len(q) - i + 1) /\ i + 1 - 1 = i
      BY <1>1, <1>5
    <3>3. r[1] = q[i]
      BY <1>4, <3>2
    <3> QED BY ONLY <1>2, <3>1, <3>3
  <2> DEFINE t == Tail(r)
             u == SubSeq(q, i + 1, Len(q))
  <2>3. /\ t \in Seq(E) /\ Len(t) = Len(q) - i
        /\ \A j \in 1..(Len(q) - i) : t[j] = r[j + 1]
    BY <1>1, <1>2, <1>3, <2>1, <2>2
  <2>4. u \in Seq(E)
    OBVIOUS
  <2>5. Len(u) = Len(q) - i
    <3>1. CASE i + 1 <= Len(q)
      BY <1>1, <3>1
    <3>2. CASE i = Len(q)
      BY <1>1, <3>2
    <3> QED BY <1>1, <1>5, <3>1, <3>2
  <2>6. \A j \in 1..(Len(q) - i) : u[j] = q[i + j]
    BY <1>1, <1>5, <2>5
  <2>7. \A j \in 1..(Len(q) - i) : t[j] = u[j]
    BY <1>1, <1>4, <1>5, <2>3, <2>6
  <2> HIDE DEF t, u
  <2>8. t = u
    BY <1>1, <1>5, <2>3, <2>4, <2>5, <2>7
  <2> QED BY <2>1, <2>2, <2>8 DEF t, u
<1>6. i = Len(q) + 1 => r = <<>>
  BY <1>1, <1>2, <1>3
<1> QED BY <1>2, <1>3, <1>5, <1>6

\* A scan draws a prefix of the queue: it asks to be called again when it
\* leaves something, and what the queue leaves of a pixel in view is the same.
LEMMA ScanDraws ==
  ASSUME ScreenType, NEW q \in Seq(Drawing), Screen!scan_renderQ(q)
  PROVE  /\ renderQ' \in Seq(Drawing) /\ (renderQ' = <<>> \/ frame')
         /\ blind => blind'
         /\ canvas' \in [Pixels -> Int]
         /\ ~blind' => \A p \in Screen!View(viewport) :
                         Leaves(renderQ', p, canvas'[p]) = Leaves(q, p, canvas[p])
<1> DEFINE n == Screen!SelectInSeq(q, LAMBDA a : ~a.ready)
           k == IF n = 0 THEN Len(q) ELSE n - 1
           c == Screen!After(q)
<1>1. n \in 0..Len(q)
  <2> DEFINE I == {i \in 1..Len(q) : ~q[i].ready}
  <2>1. n = IF I # {} THEN Screen!Min(I) ELSE 0
    BY DEF Screen!SelectInSeq
  <2>2. I # {} => Screen!Min(I) \in I
    <3>1. I # {} => \E x \in I : \A y \in I : x <= y
      <4>1. I \subseteq Nat
        OBVIOUS
      <4> HIDE DEF I
      <4> QED BY <4>1, LeastNat
    <3> QED BY <3>1 DEF Screen!Min
  <2> QED BY <2>1, <2>2
<1>2. k \in 0..Len(q) /\ Len(q) \in Nat
  BY <1>1
<1>3. /\ canvas' = c[k] /\ renderQ' = SubSeq(q, k + 1, Len(q)) /\ frame' = (k < Len(q))
      /\ blind' = (blind \/ \E i \in 1..k : Screen!Blind(c[i - 1], q[i]))
  BY DEF Screen!scan_renderQ
<1>4. c[0] = canvas /\ \A i \in 1..Len(q) : c[i] = Screen!Draw(c[i - 1], q[i])
  BY AfterIs
<1> HIDE DEF n, k, c
<1>5. renderQ' \in Seq(Drawing) /\ (renderQ' = <<>> \/ frame')
  <2>1. k + 1 \in 1..(Len(q) + 1) /\ (k < Len(q) \/ k + 1 = Len(q) + 1)
    BY <1>2
  <2>2. /\ SubSeq(q, k + 1, Len(q)) \in Seq(Drawing)
        /\ k + 1 = Len(q) + 1 => SubSeq(q, k + 1, Len(q)) = <<>>
    BY ONLY q \in Seq(Drawing), <2>1, Suffix
  <2> QED BY <1>3, <2>1, <2>2
<1>6. /\ canvas' \in [Pixels -> Int]
      /\ ~blind' => \A p \in Screen!View(viewport) :
                      Leaves(renderQ', p, canvas'[p]) = Leaves(q, p, canvas[p])
  <2> DEFINE Good(i) == /\ c[i] \in [Pixels -> Int]
                        /\ ~blind' =>
                             \A p \in Screen!View(viewport) :
                               Leaves(SubSeq(q, i + 1, Len(q)), p, c[i][p])
                                 = Leaves(q, p, canvas[p])
             I == {i \in 0..k : ~Good(i)}
  <2>1. Good(0)
    <3>1. SubSeq(q, 0 + 1, Len(q)) = q
      BY <1>2
    <3> QED BY <1>4, <3>1 DEF ScreenType
  <2>2. ASSUME NEW i \in 1..k, Good(i - 1) PROVE Good(i)
    <3> DEFINE r == SubSeq(q, i, Len(q))
    <3>1. /\ i \in Int /\ i >= 1 /\ i <= Len(q) /\ i - 1 + 1 = i
      BY <1>2
    <3>2. /\ r \in Seq(Drawing) /\ r # <<>> /\ Head(r) = q[i] /\ q[i] \in Drawing
          /\ Tail(r) = SubSeq(q, i + 1, Len(q))
      <4>1. i \in 1..(Len(q) + 1)
        BY <1>2, <3>1
      <4> QED BY <3>1, <4>1, Suffix
    <3> HIDE DEF r
    <3>3. c[i - 1] \in [Pixels -> Int] /\ (~blind' => ~Screen!Blind(c[i - 1], q[i]))
          /\ c[i] = Screen!Draw(c[i - 1], q[i])
      <4>1. i \in 1..Len(q) /\ i \in 1..k
        BY <1>2, <3>1
      <4>2. c[i] = Screen!Draw(c[i - 1], q[i])
        BY <1>4, <4>1
      <4>3. ~blind' => ~Screen!Blind(c[i - 1], q[i])
        BY <1>3, <4>1
      <4> QED BY <2>2, <4>2, <4>3
    <3>4. /\ c[i] \in [Pixels -> Int]
          /\ ~blind' => \A p \in Screen!View(viewport) :
                          c[i][p] = IF On(q[i], p) THEN q[i].px[p] ELSE c[i - 1][p]
      <4>1. q[i] \in Drawing /\ c[i - 1] \in [Pixels -> Int]
        BY <3>2, <3>3
      <4>2. /\ Screen!Draw(c[i - 1], q[i]) \in [Pixels -> Int]
            /\ ~Screen!Blind(c[i - 1], q[i]) =>
                 \A p \in Screen!View(viewport) :
                   Screen!Draw(c[i - 1], q[i])[p]
                     = IF On(q[i], p) THEN q[i].px[p] ELSE c[i - 1][p]
        BY ONLY ScreenType, <4>1, DrawSets
      <4> QED BY <3>3, <4>2
    <3>5. ASSUME ~blind', NEW p \in Screen!View(viewport)
          PROVE  Leaves(SubSeq(q, i + 1, Len(q)), p, c[i][p]) = Leaves(q, p, canvas[p])
      <4>1. Leaves(r, p, c[i - 1][p]) = Leaves(q, p, canvas[p])
        BY <2>2, <3>1, <3>5 DEF r
      <4>2. Leaves(r, p, c[i - 1][p])
              = Leaves(Tail(r), p, IF On(Head(r), p) THEN Head(r).px[p] ELSE c[i - 1][p])
        BY <3>2, LeavesDrawn
      <4>3. c[i][p] = IF On(Head(r), p) THEN Head(r).px[p] ELSE c[i - 1][p]
        BY <3>2, <3>4, <3>5
      <4> QED BY <3>2, <4>1, <4>2, <4>3
    <3> QED BY <3>4, <3>5
  <2> HIDE DEF Good
  <2>3. I = {}
    <3> SUFFICES ASSUME I # {} PROVE FALSE
      OBVIOUS
    <3>1. I \subseteq Nat
      BY <1>2
    <3>2. PICK i \in I : \A j \in I : i <= j
      <4> HIDE DEF I
      <4> QED BY <3>1, LeastNat
    <3>3. i # 0 /\ i \in 0..k /\ ~Good(i)
      BY <2>1, <3>2
    <3>4. i \in 1..k /\ i - 1 \in 0..k /\ i - 1 < i
      BY <1>2, <3>3
    <3>5. Good(i - 1)
      BY <1>2, <3>2, <3>4
    <3> QED BY <2>2, <3>3, <3>4, <3>5
  <2>4. Good(k)
    BY <1>2, <2>3
  <2> QED BY <1>3, <2>4 DEF Good
<1> QED BY <1>3, <1>5, <1>6

-----------------------------------------------------------------------------
(* The invariant of the screen.                                            *)

\* The server owes a pixel or the client will ask for it; or all that is under
\* way will show it as the server has it.
Owed(p) ==
  \/ p \in changed \/ p \notin Screen!Rect(cleanRect)
  \/ \E i \in DOMAIN requests : p \in requests[i].dirty
Shown(p) == Leaves(actions, p, Leaves(renderQ, p, canvas[p])) = fb[p]

\* The inductive invariant of the screen.
PixelsKept ==
  blind \/ bypassed \/ broken \/
  \A p \in Screen!View(viewport) \cap Screen!Screen : Owed(p) \/ Shown(p)

ScreenInv ==
  /\ ScreenType
  /\ Inside(viewport, fb_size) /\ CleanInside(cleanRect, viewport)
  /\ PixelsKept /\ Screen!QueueIsScanned

\* At the start the whole of the framebuffer is asked for.
LEMMA ScreenInit ==
  ASSUME ClientAssumption, Screen!Init
  PROVE  ScreenInv
<1>1. /\ screen \in Sizes /\ fb = [p \in Pixels |-> 0] /\ changed = {} /\ actions = <<>>
      /\ fb_size = screen /\ canvas = [p \in Pixels |-> Screen!Blank] /\ renderQ = <<>>
      /\ viewport = [x |-> 0, y |-> 0, w |-> screen[1], h |-> screen[2]]
      /\ requests = <<[clean |-> {}, dirty |-> Screen!View(viewport)]>>
      /\ cleanRect = Screen!Reset(viewport)
  BY DEF Screen!Init
<1>2. screen[1] \in Nat \ {0} /\ screen[2] \in Nat \ {0}
  BY <1>1 DEF ClientAssumption
<1>3. viewport \in Port /\ Inside(viewport, fb_size)
  BY <1>1, <1>2 DEF Port, Inside
<1>4. cleanRect \in Corners /\ CleanInside(cleanRect, viewport)
  BY <1>1, <1>2 DEF Corners, CleanInside, Screen!Reset
<1>5. [clean |-> {}, dirty |-> Screen!View(viewport)] \in Asked
  BY DEF Asked, Screen!View, Screen!Box
<1>6. ScreenType
  BY <1>1, <1>3, <1>4, <1>5 DEF ScreenType, Screen!Blank
<1>7. PixelsKept
  <2>1. 1 \in DOMAIN requests /\ requests[1].dirty = Screen!View(viewport)
    BY <1>1
  <2> QED BY <2>1 DEF PixelsKept, Owed
<1> QED BY <1>1, <1>3, <1>4, <1>6, <1>7 DEF ScreenInv, Screen!QueueIsScanned

\* A pixel that changes is owed.
LEMMA ServerChanges ==
  ASSUME ScreenInv, NEW x \in Pixels, Screen!ServerChange(x)
  PROVE  ScreenInv'
<1>1. /\ fb' = [fb EXCEPT ![x] = fb[x] + 1] /\ changed' = changed \cup {x}
      /\ UNCHANGED <<screen, requests, actions, fb_size, viewport, cleanRect, canvas, renderQ,
                     frame, blind, bypassed, broken>>
  BY DEF Screen!ServerChange, Screen!viewVars, Screen!history
<1>2. ScreenType'
  <2>1. fb[x] + 1 \in Int
    BY DEF ScreenInv, ScreenType
  <2> QED BY <1>1, <2>1 DEF ScreenInv, ScreenType
<1>3. PixelsKept'
  <2> SUFFICES ASSUME ~blind, ~bypassed, ~broken,
                      NEW p \in Screen!View(viewport) \cap Screen!Screen
               PROVE  Owed(p)' \/ Shown(p)'
    BY <1>1 DEF PixelsKept, Screen!Screen
  <2>1. Owed(p) \/ Shown(p)
    BY DEF ScreenInv, PixelsKept
  <2>2. Owed(p) => Owed(p)'
    BY <1>1 DEF Owed
  <2>3. p = x => Owed(p)'
    BY <1>1 DEF Owed
  <2>4. p # x /\ Shown(p) => Shown(p)'
    BY <1>1 DEF Shown, ScreenInv, ScreenType
  <2> QED BY <2>1, <2>2, <2>3, <2>4
<1> QED BY <1>1, <1>2, <1>3 DEF ScreenInv, Inside, CleanInside, Screen!QueueIsScanned

\* After a new size all of the framebuffer is owed.
LEMMA ServerResizes ==
  ASSUME ScreenInv, NEW s \in Sizes, Screen!ServerResize(s)
  PROVE  ScreenInv'
<1>1. /\ screen' = s /\ changed' = Screen!Box(0, 0, s[1], s[2])
      /\ actions' = Append(actions, [via |-> "size", size |-> s])
      /\ UNCHANGED <<fb, requests, fb_size, viewport, cleanRect, canvas, renderQ,
                     frame, blind, bypassed, broken>>
  BY DEF Screen!ServerResize, Screen!viewVars, Screen!history
<1>2. ScreenType'
  <2>1. [via |-> "size", size |-> s] \in Act
    BY DEF Act, Resizing
  <2>2. actions' \in Seq(Act)
    BY <1>1, <2>1 DEF ScreenInv, ScreenType
  <2> QED BY <1>1, <2>2 DEF ScreenInv, ScreenType, Screen!Box
<1>3. PixelsKept'
  <2>1. Screen!Screen' = changed'
    BY <1>1 DEF Screen!Screen
  <2> QED BY <2>1 DEF PixelsKept, Owed
<1> QED BY <1>1, <1>2, <1>3 DEF ScreenInv, Inside, CleanInside, Screen!QueueIsScanned

\* The server answers a request with drawing that sets what it sends as it is.
LEMMA ServerOwesLess ==
  ASSUME ScreenInv, NEW a \in Act, a.via # "size", requests # <<>>,
         \A p \in DOMAIN a.px : a.px[p] = fb[p],
         Head(requests).dirty \cap Screen!Screen \subseteq DOMAIN a.px,
         actions' = Append(actions, a), changed' = changed \ DOMAIN a.px,
         requests' = Tail(requests),
         UNCHANGED <<fb, screen, fb_size, viewport, cleanRect, canvas, renderQ, frame,
                     blind, bypassed, broken>>
  PROVE  ScreenInv'
<1>1. ScreenType'
  BY DEF ScreenInv, ScreenType
<1>2. PixelsKept'
  <2> SUFFICES ASSUME ~blind, ~bypassed, ~broken,
                      NEW p \in Screen!View(viewport) \cap Screen!Screen
               PROVE  Owed(p)' \/ Shown(p)'
    BY DEF PixelsKept, Screen!Screen
  <2>1. Owed(p) \/ Shown(p)
    BY DEF ScreenInv, PixelsKept
  <2>2. Leaves(actions', p, Leaves(renderQ', p, canvas'[p]))
          = IF On(a, p) THEN a.px[p] ELSE Leaves(actions, p, Leaves(renderQ, p, canvas[p]))
    BY LeavesAppended DEF ScreenInv, ScreenType
  <2>3. CASE p \in DOMAIN a.px
    BY <2>2, <2>3 DEF Shown, On
  <2>4. CASE p \notin DOMAIN a.px
    <3>1. Shown(p) => Shown(p)'
      BY <2>2, <2>4 DEF Shown, On
    <3>2. ASSUME NEW i \in DOMAIN requests, p \in requests[i].dirty
          PROVE  \E j \in DOMAIN requests' : p \in requests'[j].dirty
      <4>1. requests \in Seq(Asked)
        BY DEF ScreenInv, ScreenType
      <4>2. i # 1
        BY <2>4, <3>2, <4>1
      <4>3. i - 1 \in DOMAIN requests' /\ requests'[i - 1] = requests[i]
        BY <4>1, <4>2
      <4> QED BY <3>2, <4>3
    <3>3. Owed(p) => Owed(p)'
      BY <2>4, <3>2 DEF Owed
    <3> QED BY <2>1, <3>1, <3>3
  <2> QED BY <2>3, <2>4
<1> QED BY <1>1, <1>2 DEF ScreenInv, Inside, CleanInside, Screen!QueueIsScanned

\* The answer to a request.
LEMMA ServerAnswers ==
  ASSUME ScreenInv, NEW via \in {"direct", "img", "fill"}, Screen!ServerAnswer(via)
  PROVE  ScreenInv'
<1> DEFINE r == Head(requests)
           taken == (r.dirty \cup (r.clean \cap changed)) \cap Screen!Screen
           px == [p \in taken |-> fb[p]]
           a == [via |-> via, px |-> px, from |-> {}, ready |-> via # "img"]
<1>1. /\ requests # <<>> /\ actions' = Append(actions, a) /\ changed' = changed \ taken
      /\ requests' = Tail(requests)
      /\ UNCHANGED <<fb, screen, fb_size, viewport, cleanRect, canvas, renderQ,
                     frame, blind, bypassed, broken>>
  BY DEF Screen!ServerAnswer, Screen!viewVars, Screen!history, Screen!Draws
<1>2. taken \subseteq Pixels /\ r.dirty \cap Screen!Screen \subseteq taken
  BY DEF Screen!Screen, Screen!Box
<1> HIDE DEF taken
<1>3. px \in [taken -> Int] /\ DOMAIN px = taken /\ \A p \in taken : px[p] = fb[p]
  BY <1>2 DEF ScreenInv, ScreenType
<1> HIDE DEF px
<1>4. px \in UNION {[D -> Int] : D \in SUBSET Pixels}
  BY <1>2, <1>3
<1>5. a \in Act /\ a.via # "size" /\ a.px = px
  BY <1>4 DEF Act, Drawing
<1> HIDE DEF a
<1> QED BY <1>1, <1>2, <1>3, <1>5, ServerOwesLess

\* An answer that is a copy.
LEMMA ServerCopied ==
  ASSUME ScreenInv, NEW to \in Pixels, NEW from \in Pixels, Screen!ServerCopies(from, to)
  PROVE  ScreenInv'
<1> DEFINE px == [p \in {to} |-> fb[p]]
           a == [via |-> "copy", px |-> px, from |-> {from}, ready |-> TRUE]
<1>1. /\ requests # <<>> /\ Head(requests).dirty = {}
      /\ actions' = Append(actions, a) /\ changed' = changed \ {to}
      /\ requests' = Tail(requests)
      /\ UNCHANGED <<fb, screen, fb_size, viewport, cleanRect, canvas, renderQ,
                     frame, blind, bypassed, broken>>
  BY DEF Screen!ServerCopies, Screen!viewVars, Screen!history, Screen!Copies
<1>2. px \in [{to} -> Int] /\ DOMAIN px = {to} /\ \A p \in {to} : px[p] = fb[p]
  BY DEF ScreenInv, ScreenType
<1> HIDE DEF px
<1>3. px \in UNION {[D -> Int] : D \in SUBSET Pixels}
  BY <1>2
<1>4. a \in Act /\ a.via # "size" /\ a.px = px
  BY <1>3 DEF Act, Drawing
<1> HIDE DEF a
<1> QED BY <1>1, <1>2, <1>4, ServerOwesLess

\* A pixel that stays clean when the viewport changes was clean, and is still
\* on the canvas.
LEMMA ViewChanges ==
  ASSUME ScreenInv, ClientAssumption, NEW size \in Sizes, NEW clipped,
         NEW dx \in Int, NEW dy \in Int, NEW w, NEW h,
         clipped => w \in Nat \ {0} /\ h \in Nat \ {0},
         NEW r, r = Screen!Changed(size, clipped, dx, dy, w, h)
  PROVE  /\ r.v \in Port /\ r.c \in Corners /\ Inside(r.v, size) /\ CleanInside(r.c, r.v)
         /\ Screen!Shifted(r.v) \in [Pixels -> Int]
         /\ \A p \in Screen!Rect(r.c) :
              /\ p \in Screen!View(viewport) /\ p \in Screen!Rect(cleanRect)
              /\ Screen!Shifted(r.v)[p] = canvas[p]
<1>1. /\ viewport \in Port /\ cleanRect \in Corners /\ CleanInside(cleanRect, viewport)
      /\ canvas \in [Pixels -> Int]
  BY DEF ScreenInv, ScreenType
<1>2. /\ viewport.x \in Nat /\ viewport.y \in Nat
      /\ viewport.w \in Nat \ {0} /\ viewport.h \in Nat \ {0}
      /\ cleanRect.x1 \in Int /\ cleanRect.x2 \in Int
      /\ cleanRect.y1 \in Int /\ cleanRect.y2 \in Int
  BY <1>1 DEF Port, Corners
<1>3. size \in Size /\ size[1] \in Nat \ {0} /\ size[2] \in Nat \ {0}
  BY DEF ClientAssumption, Size
<1>4. \E mx, my \in Int : \E nw, nh \in Nat \ {0} :
        /\ nw <= size[1] /\ nh <= size[2]
        /\ r = Screen!Change(viewport, cleanRect, size, mx, my, nw, nh)
  <2>1. CASE clipped
    <3>1. r = Screen!Change(viewport, cleanRect, size, dx, dy,
                            Screen!Least(w, size[1]), Screen!Least(h, size[2]))
      BY <2>1 DEF Screen!Changed
    <3>2. /\ Screen!Least(w, size[1]) \in Nat \ {0} /\ Screen!Least(w, size[1]) <= size[1]
          /\ Screen!Least(h, size[2]) \in Nat \ {0} /\ Screen!Least(h, size[2]) <= size[2]
      BY <1>3, <2>1 DEF Screen!Least
    <3> QED BY <3>1, <3>2
  <2>2. CASE ~clipped
    <3>1. r = Screen!Change(viewport, cleanRect, size, -viewport.w, -viewport.h,
                            size[1], size[2])
      BY <2>2 DEF Screen!Changed
    <3>2. -viewport.w \in Int /\ -viewport.h \in Int /\ size[1] <= size[1] /\ size[2] <= size[2]
      BY <1>2, <1>3
    <3> QED BY <1>3, <3>1, <3>2
  <2> QED BY <2>1, <2>2
<1>5. PICK mx \in Int, my \in Int, nw \in Nat \ {0}, nh \in Nat \ {0} :
        /\ nw <= size[1] /\ nh <= size[2]
        /\ r = Screen!Change(viewport, cleanRect, size, mx, my, nw, nh)
  BY <1>4
<1>6. /\ r.v \in Port /\ r.c \in Corners
      /\ Inside(r.v, size) /\ CleanInside(r.c, r.v)
      /\ r.v.w = nw /\ r.v.h = nh
      /\ r.c.x1 >= cleanRect.x1 /\ r.c.y1 >= cleanRect.y1
      /\ r.c.x2 <= cleanRect.x2 /\ r.c.y2 <= cleanRect.y2
      /\ r.c.x2 <= viewport.x + nw - 1 /\ r.c.y2 <= viewport.y + nh - 1
  <2>1. /\ nw <= size[1] /\ nh <= size[2] /\ mx \in Int /\ my \in Int
        /\ r = Screen!Change(viewport, cleanRect, size, mx, my, nw, nh)
    BY <1>5
  <2>2. nw \in Nat \ {0} /\ nh \in Nat \ {0}
    OBVIOUS
  <2>3. StaysIn(r, viewport, cleanRect, size, nw, nh)
    BY ONLY <1>1, <1>3, <2>1, <2>2, ChangeInside
  <2> QED BY <2>3 DEF StaysIn
<1> DEFINE u == [viewport EXCEPT !.w = r.v.w, !.h = r.v.h]
           kept == Screen!View(viewport) \cap Screen!View(u) \cap Screen!View(r.v)
<1>7. u \in Port /\ u.x = viewport.x /\ u.y = viewport.y /\ u.w = nw /\ u.h = nh
  BY <1>1, <1>6 DEF Port
<1>8. Screen!Shifted(r.v) = [p \in Pixels |-> IF p \in kept THEN canvas[p] ELSE Screen!Blank]
  BY DEF Screen!Shifted
<1>9. Screen!Shifted(r.v) \in [Pixels -> Int]
  BY <1>1, <1>8 DEF Screen!Blank
<1> HIDE DEF u
<1>10. ASSUME NEW p \in Screen!Rect(r.c)
       PROVE  /\ p \in Screen!View(viewport) /\ p \in Screen!Rect(cleanRect)
              /\ Screen!Shifted(r.v)[p] = canvas[p]
  <2>1. /\ r.v.x \in Nat /\ r.v.y \in Nat /\ r.v.w \in Nat /\ r.v.h \in Nat
        /\ r.c.x1 \in Int /\ r.c.x2 \in Int /\ r.c.y1 \in Int /\ r.c.y2 \in Int
    BY <1>6 DEF Port, Corners
  <2>2. p \in Pixels /\ p[1] \in Nat /\ p[2] \in Nat
    BY DEF Screen!Rect, Screen!Box, ClientAssumption
  <2>3. p[1] >= r.c.x1 /\ p[1] <= r.c.x2 /\ p[2] >= r.c.y1 /\ p[2] <= r.c.y2
    BY <2>1, <2>2 DEF Screen!Rect, Screen!Box
  <2>4. /\ p[1] >= cleanRect.x1 /\ p[1] <= cleanRect.x2
        /\ p[2] >= cleanRect.y1 /\ p[2] <= cleanRect.y2
    BY <1>2, <1>6, <2>1, <2>2, <2>3
  <2>5. p \in Screen!Rect(cleanRect)
    BY <1>2, <2>2, <2>4 DEF Screen!Rect, Screen!Box
  <2>6. /\ p[1] >= viewport.x /\ p[1] <= viewport.x + viewport.w - 1
        /\ p[2] >= viewport.y /\ p[2] <= viewport.y + viewport.h - 1
    BY <1>1, <1>2, <2>2, <2>4 DEF CleanInside
  <2>7. p \in Screen!View(viewport)
    BY <1>2, <2>2, <2>6 DEF Screen!View, Screen!Box
  <2>8. p \in Screen!View(u)
    BY <1>2, <1>6, <1>7, <2>1, <2>2, <2>3, <2>6 DEF Screen!View, Screen!Box
  <2>9. p \in Screen!View(r.v)
    BY <1>6, <2>1, <2>2, <2>3 DEF Screen!View, Screen!Box, CleanInside
  <2> QED BY <1>8, <2>2, <2>5, <2>7, <2>8, <2>9
<1> QED BY <1>6, <1>9, <1>10

\* Nothing but the viewport, the clean rectangle and the canvas changes.
StaysElse ==
  UNCHANGED <<fb, screen, changed, requests, actions, fb_size, renderQ, frame,
              blind, bypassed, broken>>

\* Any change of the viewport keeps the invariant.
LEMMA ViewMoves ==
  ASSUME ScreenInv, ClientAssumption, StaysElse, NEW c, NEW dx \in Int, NEW dy \in Int,
         NEW w, NEW h, c => w \in Nat \ {0} /\ h \in Nat \ {0},
         Screen!viewportChange(fb_size, c, dx, dy, w, h)
  PROVE  ScreenInv'
<1> USE DEF StaysElse
<1>1. PICK r : r = Screen!Changed(fb_size, c, dx, dy, w, h)
  OBVIOUS
<1>2. viewport' = r.v /\ cleanRect' = r.c /\ canvas' = Screen!Shifted(r.v)
  BY <1>1 DEF Screen!viewportChange
<1>3. fb_size \in Sizes
  BY DEF ScreenInv, ScreenType
<1>4. /\ r.v \in Port /\ r.c \in Corners /\ Inside(r.v, fb_size) /\ CleanInside(r.c, r.v)
      /\ Screen!Shifted(r.v) \in [Pixels -> Int]
      /\ \A p \in Screen!Rect(r.c) :
           /\ p \in Screen!View(viewport) /\ p \in Screen!Rect(cleanRect)
           /\ Screen!Shifted(r.v)[p] = canvas[p]
  BY <1>1, <1>3, ViewChanges
<1>5. ScreenType' /\ Inside(viewport, fb_size)' /\ CleanInside(cleanRect, viewport)'
  BY <1>2, <1>4 DEF ScreenInv, ScreenType, Inside, CleanInside
<1>6. PixelsKept'
  <2> SUFFICES ASSUME ~blind, ~bypassed, ~broken,
                      NEW p \in Screen!Rect(r.c), p \in Screen!Screen
               PROVE  Owed(p)' \/ Shown(p)'
    BY <1>2 DEF PixelsKept, Screen!Screen, Owed
  <2>1. p \in Screen!Rect(cleanRect) /\ (Owed(p) \/ Shown(p))
    BY <1>4 DEF ScreenInv, PixelsKept
  <2>2. Owed(p) => Owed(p)'
    BY <2>1 DEF Owed
  <2>3. Shown(p) => Shown(p)'
    BY <1>2, <1>4 DEF Shown
  <2> QED BY <2>1, <2>2, <2>3
<1> QED BY <1>5, <1>6 DEF ScreenInv, Screen!QueueIsScanned

\* The user drags the viewport, or clips it or clips it no more.
LEMMA UserMoves ==
  ASSUME ScreenInv, ClientAssumption,
         Screen!setViewClip \/ \E dx, dy \in -1..1 : Screen!Drag(dx, dy)
  PROVE  ScreenInv'
<1>1. CASE \E dx, dy \in -1..1 : Screen!Drag(dx, dy)
  <2>1. PICK dx \in -1..1, dy \in -1..1 : Screen!Drag(dx, dy)
    BY <1>1
  <2>2. Screen!viewportChange(fb_size, TRUE, dx, dy, viewport.w, viewport.h) /\ StaysElse
    BY <2>1 DEF Screen!Drag, Screen!serverVars, Screen!history, StaysElse
  <2>3. viewport.w \in Nat \ {0} /\ viewport.h \in Nat \ {0} /\ dx \in Int /\ dy \in Int
    BY DEF ScreenInv, ScreenType, Port
  <2> QED BY <2>2, <2>3, ViewMoves
<1>2. CASE Screen!setViewClip
  <2>1. /\ StaysElse
        /\ \/ \E s \in Views : Screen!viewportChange(fb_size, TRUE, 0, 0, s[1], s[2])
           \/ Screen!viewportChange(fb_size, FALSE, 0, 0, 0, 0)
    BY <1>2 DEF Screen!setViewClip, Screen!serverVars, Screen!history, StaysElse
  <2>2. CASE \E s \in Views : Screen!viewportChange(fb_size, TRUE, 0, 0, s[1], s[2])
    <3>1. PICK s \in Views : Screen!viewportChange(fb_size, TRUE, 0, 0, s[1], s[2])
      BY <2>2
    <3>2. s[1] \in Nat \ {0} /\ s[2] \in Nat \ {0}
      BY DEF ClientAssumption
    <3>3. 0 \in Int
      OBVIOUS
    <3> QED BY <2>1, <3>1, <3>2, <3>3, ViewMoves, Zenon
  <2>3. CASE Screen!viewportChange(fb_size, FALSE, 0, 0, 0, 0)
    <3>1. 0 \in Int
      OBVIOUS
    <3> QED BY <2>1, <2>3, <3>1, ViewMoves, Zenon
  <2> QED BY <2>1, <2>2, <2>3
<1> QED BY <1>1, <1>2

\* The clean rectangle after a request is the viewport.
LEMMA ResetInside ==
  ASSUME NEW v \in Port
  PROVE  Screen!Reset(v) \in Corners /\ CleanInside(Screen!Reset(v), v)
BY DEF Port, Corners, CleanInside, Screen!Reset

\* What is dirty in one of the requests stays so when one is added.
LEMMA DirtyAppended ==
  ASSUME NEW q \in Seq(Asked), NEW r \in Asked, NEW p
  PROVE  /\ p \in r.dirty => \E i \in DOMAIN Append(q, r) : p \in Append(q, r)[i].dirty
         /\ (\E i \in DOMAIN q : p \in q[i].dirty)
              => \E i \in DOMAIN Append(q, r) : p \in Append(q, r)[i].dirty
<1>1. /\ Len(q) \in Nat /\ DOMAIN q = 1..Len(q) /\ DOMAIN Append(q, r) = 1..(Len(q) + 1)
      /\ Append(q, r)[Len(q) + 1] = r /\ \A i \in 1..Len(q) : Append(q, r)[i] = q[i]
  OBVIOUS
<1>2. Len(q) + 1 \in 1..(Len(q) + 1) /\ \A i \in 1..Len(q) : i \in 1..(Len(q) + 1)
  BY <1>1
<1> QED BY ONLY <1>1, <1>2

\* The client asks for what is not clean, and takes it for clean.
LEMMA ClientAsks ==
  ASSUME ScreenInv, ClientAssumption, Screen!AskUpdate
  PROVE  ScreenInv'
<1> DEFINE r == Screen!fbUpdateRequests(viewport, cleanRect)
<1>1. /\ requests' = Append(requests, r) /\ cleanRect' = Screen!Reset(viewport)
      /\ UNCHANGED <<fb, screen, changed, actions, fb_size, viewport, canvas, renderQ, frame,
                     blind, bypassed, broken>>
  BY DEF Screen!AskUpdate, Screen!serverVars, Screen!history
<1>2. /\ r.clean = Screen!Rect(cleanRect) /\ r.clean \cup r.dirty = Screen!View(viewport)
      /\ r \in Asked
  BY AsksForView DEF ScreenInv, ScreenType
<1> HIDE DEF r
<1>3. cleanRect' \in Corners /\ CleanInside(cleanRect, viewport)'
  BY <1>1, ResetInside DEF ScreenInv, ScreenType, CleanInside
<1>4. ScreenType'
  BY <1>1, <1>2, <1>3 DEF ScreenInv, ScreenType
<1>5. PixelsKept'
  <2> SUFFICES ASSUME ~blind, ~bypassed, ~broken,
                      NEW p \in Screen!View(viewport) \cap Screen!Screen
               PROVE  Owed(p)' \/ Shown(p)'
    BY <1>1 DEF PixelsKept, Screen!Screen
  <2>1. requests \in Seq(Asked)
    BY DEF ScreenInv, ScreenType
  <2>2. CASE p \in r.dirty
    BY <1>1, <1>2, <2>1, <2>2, DirtyAppended DEF Owed
  <2>3. CASE p \notin r.dirty
    <3>1. p \in Screen!Rect(cleanRect) /\ (Owed(p) \/ Shown(p))
      BY <1>2, <2>3 DEF ScreenInv, PixelsKept
    <3>2. Owed(p) => Owed(p)'
      BY <1>1, <1>2, <2>1, <3>1, DirtyAppended DEF Owed
    <3>3. Shown(p) => Shown(p)'
      BY <1>1 DEF Shown
    <3> QED BY <3>1, <3>2, <3>3
  <2> QED BY <2>2, <2>3
<1> QED BY <1>1, <1>3, <1>4, <1>5 DEF ScreenInv, Inside, Screen!QueueIsScanned

\* An image is loaded, or cannot be: what the queue will show is the same.
LEMMA ImageComes ==
  ASSUME ScreenInv, NEW i, NEW well \in BOOLEAN, Screen!ImageLoads(i, well)
  PROVE  ScreenInv'
<1> DEFINE a == renderQ[i]
           b == [a EXCEPT !.ready = TRUE, !.via = IF well THEN a.via ELSE "broken"]
<1>1. /\ i \in DOMAIN renderQ /\ renderQ' = [renderQ EXCEPT ![i] = b]
      /\ UNCHANGED <<fb, screen, changed, requests, actions, fb_size, viewport, cleanRect,
                     canvas, frame, blind, bypassed, broken>>
  BY DEF Screen!ImageLoads, Screen!serverVars, Screen!viewVars, Screen!history
<1>2. renderQ \in Seq(Drawing) /\ a \in Drawing
  BY <1>1 DEF ScreenInv, ScreenType
<1>3. b \in Drawing /\ b.px = a.px /\ b.via # "size" /\ a.via # "size"
  <2>1. (IF well THEN a.via ELSE "broken") \in {"direct", "img", "fill", "copy", "broken"}
    BY <1>2 DEF Drawing
  <2> QED BY <1>2, <2>1 DEF Drawing
<1> HIDE DEF a, b
<1>4. /\ renderQ' \in Seq(Drawing) /\ DOMAIN renderQ' = DOMAIN renderQ
      /\ \A j \in DOMAIN renderQ : renderQ'[j] = IF j = i THEN b ELSE renderQ[j]
  BY <1>1, <1>2, <1>3
<1>5. ScreenType'
  BY <1>1, <1>4 DEF ScreenInv, ScreenType
<1>6. ASSUME NEW p, NEW c PROVE Leaves(renderQ', p, c) = Leaves(renderQ, p, c)
  <2> DEFINE l == Screen!LastOn(renderQ, p)
  <2>1. /\ l \in 0..Len(renderQ) /\ (l # 0 => On(renderQ[l], p))
        /\ \A j \in 1..Len(renderQ) : On(renderQ[j], p) => j <= l
    BY <1>2, LastOnIs
  <2>2. /\ Len(renderQ') = Len(renderQ) /\ Len(renderQ) \in Nat
        /\ DOMAIN renderQ = 1..Len(renderQ)
    BY <1>2, <1>4
  <2> HIDE DEF l
  <2>3. \A j \in 1..Len(renderQ) : /\ On(renderQ'[j], p) <=> On(renderQ[j], p)
                                   /\ renderQ'[j].px = renderQ[j].px
    BY <1>3, <1>4, <2>2 DEF On, a
  <2>4. l # 0 => l \in 1..Len(renderQ)
    BY <2>1, <2>2
  <2>5. /\ l \in 0..Len(renderQ') /\ (l # 0 => On(renderQ'[l], p))
        /\ \A j \in 1..Len(renderQ') : On(renderQ'[j], p) => j <= l
    BY <2>1, <2>2, <2>3, <2>4
  <2>6. Screen!LastOn(renderQ', p) = l
    BY ONLY <1>4, <2>5, LastOnOnly
  <2> QED BY <2>3, <2>4, <2>6 DEF Leaves, l
<1>7. PixelsKept'
  <2> SUFFICES ASSUME ~blind, ~bypassed, ~broken,
                      NEW p \in Screen!View(viewport) \cap Screen!Screen
               PROVE  Owed(p)' \/ Shown(p)'
    BY <1>1 DEF PixelsKept, Screen!Screen
  <2>1. Owed(p) \/ Shown(p)
    BY DEF ScreenInv, PixelsKept
  <2>2. Owed(p) => Owed(p)'
    BY <1>1 DEF Owed
  <2>3. Shown(p) => Shown(p)'
    BY <1>1, <1>6 DEF Shown
  <2> QED BY <2>1, <2>2, <2>3
<1>8. Screen!QueueIsScanned'
  <2>1. renderQ # <<>>
    BY <1>1
  <2> QED BY <1>1, <2>1 DEF ScreenInv, Screen!QueueIsScanned
<1> QED BY <1>1, <1>5, <1>7, <1>8 DEF ScreenInv, Inside, CleanInside

\* What no action, and what a single one, leaves of a pixel.
LEMMA LeavesOne ==
  ASSUME NEW a \in Act, NEW p, NEW c
  PROVE  /\ Leaves(<<>>, p, c) = c
         /\ Leaves(<<a>>, p, c) = IF On(a, p) THEN a.px[p] ELSE c
<1>1. PICK e : e = <<>>
  OBVIOUS
<1>2. e \in Seq(Act) /\ Len(e) = 0 /\ Append(e, a) = <<a>>
  BY <1>1
<1>3. Leaves(e, p, c) = c
  <2>1. Screen!LastOn(e, p) \in 0..Len(e)
    BY ONLY <1>2, LastOnIs
  <2>2. Screen!LastOn(e, p) = 0
    BY <1>2, <2>1
  <2> QED BY <2>2 DEF Leaves
<1>4. Leaves(Append(e, a), p, c) = IF On(a, p) THEN a.px[p] ELSE Leaves(e, p, c)
  <2>1. a \in Act /\ e \in Seq(Act)
    BY <1>2
  <2> QED BY ONLY <2>1, LeavesAppended
<1> QED BY <1>1, <1>2, <1>3, <1>4

\* An image that is broken stops the queue; otherwise what is ready is drawn.
LEMMA QueueAdvances ==
  ASSUME ScreenInv, Screen!AnimFrame
  PROVE  ScreenInv'
<1>1. /\ frame
      /\ UNCHANGED <<fb, screen, changed, requests, actions, fb_size, viewport, cleanRect,
                     bypassed>>
  BY DEF Screen!AnimFrame, Screen!serverVars, Screen!viewVars
<1>2. CASE broken' /\ UNCHANGED <<canvas, renderQ>>
  <2>1. ScreenType'
    BY <1>1, <1>2 DEF ScreenInv, ScreenType
  <2> QED BY <1>1, <1>2, <2>1
          DEF ScreenInv, Inside, CleanInside, PixelsKept, Screen!QueueIsScanned
<1>3. CASE Screen!scan_renderQ(renderQ) /\ UNCHANGED broken
  <2>1. /\ renderQ' \in Seq(Drawing) /\ (renderQ' = <<>> \/ frame')
        /\ blind => blind'
        /\ canvas' \in [Pixels -> Int]
        /\ ~blind' => \A p \in Screen!View(viewport) :
                        Leaves(renderQ', p, canvas'[p]) = Leaves(renderQ, p, canvas[p])
    BY <1>3, ScanDraws DEF ScreenInv, ScreenType
  <2>2. ScreenType'
    BY <1>1, <2>1 DEF ScreenInv, ScreenType
  <2>3. PixelsKept'
    <3> SUFFICES ASSUME ~blind, ~blind', ~bypassed, ~broken,
                        NEW p \in Screen!View(viewport) \cap Screen!Screen
                 PROVE  Owed(p)' \/ Shown(p)'
      BY <1>1, <1>3, <2>1 DEF PixelsKept, Screen!Screen
    <3>1. Owed(p) \/ Shown(p)
      BY DEF ScreenInv, PixelsKept
    <3>2. Owed(p) => Owed(p)'
      BY <1>1 DEF Owed
    <3>3. Shown(p) => Shown(p)'
      BY <1>1, <2>1 DEF Shown
    <3> QED BY <3>1, <3>2, <3>3
  <2> QED BY <1>1, <2>1, <2>2, <2>3 DEF ScreenInv, Inside, CleanInside, Screen!QueueIsScanned
<1> QED BY <1>2, <1>3 DEF Screen!AnimFrame

\* What the client takes from the stream.
LEMMA ClientHandles ==
  ASSUME ScreenInv, ClientAssumption, Screen!Handle
  PROVE  ScreenInv'
<1> DEFINE a == Head(actions)
<1>1. /\ actions # <<>> /\ actions' = Tail(actions)
      /\ UNCHANGED <<fb, screen, changed, broken>>
  BY DEF Screen!Handle, Screen!serverVars
<1>2. actions \in Seq(Act) /\ a \in Act /\ actions' \in Seq(Act)
  BY <1>1 DEF ScreenInv, ScreenType
<1>3. ASSUME NEW p, NEW c
      PROVE  Leaves(actions, p, c)
               = Leaves(actions', p, IF On(a, p) THEN a.px[p] ELSE c)
  <2>1. actions # <<>>
    BY <1>1
  <2>2. Leaves(actions, p, c)
          = Leaves(Tail(actions), p, IF On(Head(actions), p) THEN Head(actions).px[p] ELSE c)
    BY ONLY <1>2, <2>1, LeavesDrawn
  <2> QED BY <1>1, <2>2
<1> HIDE DEF a
<1>4. CASE a.via = "direct"
  <2>1. /\ canvas' = Screen!Draw(canvas, a)
        /\ bypassed' = (bypassed \/ renderQ # <<>>)
        /\ UNCHANGED <<renderQ, frame, blind, requests, fb_size, viewport, cleanRect>>
    BY <1>4 DEF Screen!Handle, Screen!viewVars, a
  <2>2. a \in Drawing /\ a.from = {}
    BY <1>2, <1>4 DEF Act, Resizing
  <2>3. ScreenType /\ canvas \in [Pixels -> Int]
    BY DEF ScreenInv, ScreenType
  <2>4. /\ Screen!Draw(canvas, a) \in [Pixels -> Int]
        /\ \A p \in Screen!View(viewport) :
             Screen!Draw(canvas, a)[p] = IF On(a, p) THEN a.px[p] ELSE canvas[p]
    BY ONLY <2>2, <2>3, DrawSets
  <2>5. ScreenType'
    BY <1>1, <1>2, <2>1, <2>4 DEF ScreenInv, ScreenType
  <2>6. PixelsKept'
    <3> SUFFICES ASSUME ~blind, ~bypassed, ~broken, renderQ = <<>>,
                        NEW p \in Screen!View(viewport) \cap Screen!Screen
                 PROVE  Owed(p)' \/ Shown(p)'
      BY <1>1, <2>1 DEF PixelsKept, Screen!Screen
    <3>1. Owed(p) \/ Shown(p)
      BY DEF ScreenInv, PixelsKept
    <3>2. Owed(p) => Owed(p)'
      BY <1>1, <2>1 DEF Owed
    <3>3. /\ Leaves(renderQ, p, canvas[p]) = canvas[p]
          /\ Leaves(renderQ', p, canvas'[p]) = canvas'[p]
      BY <1>2, <2>1, LeavesOne
    <3>4. Shown(p) => Shown(p)'
      BY <1>1, <1>3, <2>1, <2>4, <3>3 DEF Shown
    <3> QED BY <3>1, <3>2, <3>4
  <2> QED BY <1>1, <2>1, <2>5, <2>6
          DEF ScreenInv, Inside, CleanInside, Screen!QueueIsScanned
<1>5. CASE a.via \in {"img", "fill", "copy"}
  <2>1. /\ Screen!renderQ_push(a)
        /\ UNCHANGED <<bypassed, requests, fb_size, viewport, cleanRect>>
    BY <1>5 DEF Screen!Handle, Screen!viewVars, a
  <2>2. a \in Drawing
    BY <1>2, <1>5 DEF Act, Resizing
  <2>3. /\ renderQ' \in Seq(Drawing) /\ canvas' \in [Pixels -> Int] /\ (blind => blind')
        /\ renderQ' = <<>> \/ frame' \/ broken
        /\ ~blind' => \A p \in Screen!View(viewport) :
                        Leaves(renderQ', p, canvas'[p])
                          = IF On(a, p) THEN a.px[p] ELSE Leaves(renderQ, p, canvas[p])
    <3>1. /\ ScreenType /\ renderQ \in Seq(Drawing) /\ canvas \in [Pixels -> Int]
          /\ renderQ = <<>> \/ frame \/ broken
      BY DEF ScreenInv, ScreenType, Screen!QueueIsScanned
    <3>2. CASE renderQ = <<>>
      <4>1. Screen!scan_renderQ(<<a>>)
        BY <2>1, <3>2 DEF Screen!renderQ_push
      <4>2. PICK q : q = <<a>>
        OBVIOUS
      <4>3. q \in Seq(Drawing) /\ Screen!scan_renderQ(q)
        BY <2>2, <4>1, <4>2
      <4>4. /\ renderQ' \in Seq(Drawing) /\ (renderQ' = <<>> \/ frame')
            /\ blind => blind'
            /\ canvas' \in [Pixels -> Int]
            /\ ~blind' => \A p \in Screen!View(viewport) :
                            Leaves(renderQ', p, canvas'[p]) = Leaves(q, p, canvas[p])
        BY ONLY <3>1, <4>3, ScanDraws
      <4>5. \A p : /\ Leaves(q, p, canvas[p]) = IF On(a, p) THEN a.px[p] ELSE canvas[p]
                   /\ Leaves(renderQ, p, canvas[p]) = canvas[p]
        BY <1>2, <3>2, <4>2, LeavesOne
      <4> QED BY <4>4, <4>5
    <3>3. CASE renderQ # <<>>
      <4>1. renderQ' = Append(renderQ, a) /\ UNCHANGED <<canvas, frame, blind>>
        BY <2>1, <3>3 DEF Screen!renderQ_push
      <4>2. \A p, c : Leaves(Append(renderQ, a), p, c)
                        = IF On(a, p) THEN a.px[p] ELSE Leaves(renderQ, p, c)
        BY <2>2, <3>1, LeavesAppended
      <4>3. renderQ' \in Seq(Drawing)
        BY <2>2, <3>1, <4>1
      <4> QED BY <3>1, <3>3, <4>1, <4>2, <4>3
    <3> QED BY <3>2, <3>3
  <2>4. ScreenType'
    BY <1>1, <1>2, <2>1, <2>3 DEF ScreenInv, ScreenType
  <2>5. PixelsKept'
    <3> SUFFICES ASSUME ~blind, ~blind', ~bypassed, ~broken,
                        NEW p \in Screen!View(viewport) \cap Screen!Screen
                 PROVE  Owed(p)' \/ Shown(p)'
      BY <1>1, <2>1, <2>3 DEF PixelsKept, Screen!Screen
    <3>1. Owed(p) \/ Shown(p)
      BY DEF ScreenInv, PixelsKept
    <3>2. Owed(p) => Owed(p)'
      BY <1>1, <2>1 DEF Owed
    <3>3. Shown(p) => Shown(p)'
      BY <1>1, <1>3, <2>3 DEF Shown
    <3> QED BY <3>1, <3>2, <3>3
  <2> QED BY <1>1, <2>1, <2>3, <2>4, <2>5
          DEF ScreenInv, Inside, CleanInside, Screen!QueueIsScanned
<1>6. CASE a.via = "size"
  <2>1. /\ Screen!DesktopSize(a.size)
        /\ UNCHANGED <<renderQ, frame, blind, bypassed>>
    BY <1>6 DEF Screen!Handle, a
  <2>2. a.size \in Sizes
    BY <1>2, <1>6 DEF Act, Drawing, Resizing
  <2>3. PICK s \in Sizes : s = a.size
    BY <2>2
  <2>4. PICK r : r = Screen!Changed(s, clip, 0, 0, viewport.w, viewport.h)
    OBVIOUS
  <2> DEFINE f == Screen!fbUpdateRequests(r.v, r.c)
  <2>5. /\ fb_size' = s /\ viewport' = r.v /\ canvas' = Screen!Shifted(r.v)
        /\ requests' = Append(requests, f) /\ cleanRect' = Screen!Reset(r.v)
    BY <2>1, <2>3, <2>4 DEF Screen!DesktopSize
  <2>6. viewport.w \in Nat \ {0} /\ viewport.h \in Nat \ {0} /\ 0 \in Int
    BY DEF ScreenInv, ScreenType, Port
  <2>7. /\ r.v \in Port /\ r.c \in Corners /\ Inside(r.v, s) /\ CleanInside(r.c, r.v)
        /\ Screen!Shifted(r.v) \in [Pixels -> Int]
        /\ \A p \in Screen!Rect(r.c) :
             /\ p \in Screen!View(viewport) /\ p \in Screen!Rect(cleanRect)
             /\ Screen!Shifted(r.v)[p] = canvas[p]
    BY <2>4, <2>6, ViewChanges
  <2>8. /\ f.clean = Screen!Rect(r.c) /\ f.clean \cup f.dirty = Screen!View(r.v)
        /\ f \in Asked
    BY <2>7, AsksForView
  <2> HIDE DEF f
  <2>9. Screen!Reset(r.v) \in Corners /\ CleanInside(Screen!Reset(r.v), r.v)
    BY <2>7, ResetInside
  <2>10. Inside(viewport, fb_size)' /\ CleanInside(cleanRect, viewport)'
    BY <2>5, <2>7, <2>9 DEF Inside, CleanInside
  <2>11. ScreenType'
    <3>1. requests' \in Seq(Asked)
      BY <2>5, <2>8 DEF ScreenInv, ScreenType
    <3>2. fb_size' \in Sizes /\ viewport' \in Port /\ cleanRect' \in Corners
          /\ canvas' \in [Pixels -> Int]
      BY <2>5, <2>7, <2>9
    <3> QED BY <1>1, <1>2, <2>1, <3>1, <3>2 DEF ScreenInv, ScreenType
  <2>12. PixelsKept'
    <3> SUFFICES ASSUME ~blind, ~bypassed, ~broken,
                        NEW p \in Screen!View(r.v), p \in Screen!Screen
                 PROVE  Owed(p)' \/ Shown(p)'
      BY <1>1, <2>1, <2>5 DEF PixelsKept, Screen!Screen
    <3>1. requests \in Seq(Asked)
      BY DEF ScreenInv, ScreenType
    <3>2. CASE p \in f.dirty
      BY <2>5, <2>8, <3>1, <3>2, DirtyAppended DEF Owed
    <3>3. CASE p \notin f.dirty
      <4>1. p \in Screen!Rect(r.c)
        BY <2>8, <3>3
      <4>2. p \in Screen!Rect(cleanRect) /\ (Owed(p) \/ Shown(p))
        BY <2>7, <4>1 DEF ScreenInv, PixelsKept
      <4>3. Owed(p) => Owed(p)'
        BY <1>1, <2>5, <2>8, <3>1, <4>2, DirtyAppended DEF Owed
      <4>4. ~On(a, p) /\ canvas'[p] = canvas[p]
        BY <1>6, <2>5, <2>7, <4>1 DEF On
      <4>5. Shown(p) => Shown(p)'
        BY <1>1, <1>3, <2>1, <4>4 DEF Shown
      <4> QED BY <4>2, <4>3, <4>5
    <3> QED BY <3>2, <3>3
  <2> QED BY <1>1, <2>1, <2>10, <2>11, <2>12 DEF ScreenInv, Screen!QueueIsScanned
<1> QED BY <1>4, <1>5, <1>6 DEF Screen!Handle, a

\* Every step of the screen keeps its invariant.
LEMMA ScreenStep ==
  ASSUME ScreenInv, ClientAssumption, Screen!Next
  PROVE  ScreenInv'
<1>1. CASE \E p \in Pixels : Screen!ServerChange(p) \/ \E q \in Pixels : Screen!ServerCopies(q, p)
  BY <1>1, ServerChanges, ServerCopied
<1>2. CASE \E s \in Sizes : Screen!ServerResize(s)
  BY <1>2, ServerResizes
<1>3. CASE \E via \in {"direct", "img", "fill"} : Screen!ServerAnswer(via)
  BY <1>3, ServerAnswers
<1>4. CASE \E i \in 1..MaxWaiting, well \in BOOLEAN : Screen!ImageLoads(i, well)
  BY <1>4, ImageComes
<1>5. CASE Screen!setViewClip \/ \E dx, dy \in -1..1 : Screen!Drag(dx, dy)
  BY <1>5, UserMoves
<1> QED BY <1>1, <1>2, <1>3, <1>4, <1>5, ClientAsks, ClientHandles, QueueAdvances
        DEF Screen!Next

\* What the invariant says of the screen.
LEMMA ScreenMeans ==
  ASSUME ScreenInv, ClientAssumption
  PROVE  ScreenFollows /\ DrawingGoesOn
<1>1. Screen!NoPixelForgotten
  BY DEF ScreenInv, PixelsKept, Owed, Shown, Leaves,
         Screen!NoPixelForgotten, Screen!WillShow
<1>2. Screen!ViewportInside
  <2>1. viewport \in Port /\ cleanRect \in Corners /\ CleanInside(cleanRect, viewport)
    BY DEF ScreenInv, ScreenType
  <2> DEFINE r == Screen!fbUpdateRequests(viewport, cleanRect)
  <2>2. /\ r.clean = Screen!Rect(cleanRect) /\ r.clean \subseteq Screen!View(viewport)
        /\ r.clean \cup r.dirty = Screen!View(viewport)
    BY <2>1, AsksForView
  <2> HIDE DEF r
  <2>3. viewport.x >= 0 /\ viewport.y >= 0
    BY <2>1 DEF Port
  <2> QED BY <2>2, <2>3 DEF Screen!ViewportInside, ScreenInv, Inside, r
<1> QED BY <1>1, <1>2 DEF ScreenFollows, DrawingGoesOn, ScreenInv

-----------------------------------------------------------------------------
(* The client: its parts share no state.                                   *)

\* The inductive invariant of the client; the stream needs none for it.
Inv == KeyboardInv /\ MouseInv /\ ScreenInv

\* The invariants of the devices are about the devices only.
LEMMA DevicesStay ==
  ASSUME KeyboardInv, MouseInv, UNCHANGED devices
  PROVE  KeyboardInv' /\ MouseInv'
BY DEF KeyboardInv, MouseInv, devices, Awaited, ListHeld, Input!PressedIsListed

\* The invariant of the screen is about the screen only.
LEMMA ScreenStays ==
  ASSUME ScreenInv, UNCHANGED screens
  PROVE  ScreenInv'
<1>1. ScreenType'
  BY DEF ScreenInv, ScreenType, screens
<1>2. PixelsKept'
  BY DEF ScreenInv, PixelsKept, Owed, Shown, screens, Screen!Screen
<1> QED BY <1>1, <1>2
        DEF ScreenInv, screens, Inside, CleanInside, Screen!QueueIsScanned

\* The inductive invariant of the client: the keys and buttons pressed on the
\* server are those the client keeps for pressed, the clean rectangle is in the
\* viewport and the viewport in the framebuffer, and every pixel in view is
\* owed by the server, or will be asked for, or will be shown as it is.
THEOREM ClientInductive == ClientSpec => []Inv
<1>1. ClientInit => Inv
  BY ClientAssumption, InputInit, ScreenInit DEF ClientInit, Inv
<1>2. Inv /\ [ClientNext]_<<part, vars, screens, devices>> => Inv'
  <2> SUFFICES ASSUME Inv, [ClientNext]_<<part, vars, screens, devices>>
               PROVE  Inv'
    OBVIOUS
  <2> USE DEF Inv
  <2>1. CASE UNCHANGED <<screens, devices>>
    BY <2>1, DevicesStay, ScreenStays
  <2>2. CASE Screen!Next /\ UNCHANGED devices
    BY <2>2, ClientAssumption, DevicesStay, ScreenStep
  <2>3. CASE Input!Next /\ UNCHANGED screens
    BY <2>3, KeyboardStep, MouseStep, ScreenStays
  <2> QED BY <2>1, <2>2, <2>3 DEF ClientNext
<1> QED BY <1>1, <1>2, PTL DEF ClientSpec

\* However the viewport is dragged, clipped and resized between a request and
\* its answer, and whatever waits in the drawing queue, no pixel in view is
\* given up, and the viewport stays in the framebuffer (getCleanDirtyReset,
\* viewportChange and scan_renderQ of display.js).
THEOREM ScreenKept == ClientSpec => []ScreenFollows
<1>1. Inv => ScreenFollows
  BY ClientAssumption, ScreenMeans DEF Inv
<1> QED BY <1>1, ClientInductive, PTL

\* While a drawing action waits for its image, a scan of the queue is asked for,
\* unless an image is broken (renderQ_push and scan_renderQ of display.js).
THEOREM QueueGoesOn == ClientSpec => []DrawingGoesOn
<1>1. Inv => DrawingGoesOn
  BY ClientAssumption, ScreenMeans DEF Inv
<1> QED BY <1>1, ClientInductive, PTL

\* What is pressed on the server is in keyDownList, from which it is released,
\* and nothing is pressed there when the user holds no key (input.js).
THEOREM KeysReleasedAsHeld == ClientSpec => []KeysAsHeld
<1>1. Inv => KeysAsHeld
  BY InputMeans DEF Inv
<1> QED BY <1>1, ClientInductive, PTL

\* No button is pressed on the server, and no drag of the viewport holds back
\* its events, when the user holds no button (Mouse of input.js and mouseButton
\* of rfb.js).
THEOREM ButtonsReleasedAsHeld == ClientSpec => []ButtonsAsHeld
<1>1. Inv => ButtonsAsHeld
  BY InputMeans DEF Inv
<1> QED BY <1>1, ClientInductive, PTL

-----------------------------------------------------------------------------
(* The handshake.                                                          *)

\* The messages of the client.
Messages == {"repeater", "version", "scheme1", "scheme2", "response", "init", "setup", "request"}

\* What is under way to the server, and how many bytes are to the client, or
\* have come and are not read; the i-th of them.
Upwards == wire \o sQ
Unread(n) == /\ rQ \in Seq(Int) /\ net \in Seq(Int) /\ rQi \in 0..Len(rQ)
             /\ rQlen + Len(net) = n
NextByte(i) == IF i <= rQlen THEN rQ[rQi + i] ELSE net[i - rQlen]
NextNumber(k) == NextByte(1) = 0 /\ NextByte(2) = 0 /\ NextByte(3) = 0 /\ NextByte(4) = k

\* The server has admitted the client, or not, and says so.
ResultComes ==
  /\ phase = AfterResult /\ Upwards = <<>>
  /\ Unread(Len(Result)) /\ NextNumber(IF server.admits THEN 0 ELSE 1)

\* The stages of the client, with those of the server that go with each.
\* The versions.
VersionStage ==
  \/ phase = "version" /\ Upwards = <<>> /\ Unread(0)
  \/ phase = "repeater" /\ Upwards = <<>> /\ Unread(12) /\ NextByte(1) = 0
  \/ phase = "repeater" /\ Upwards = <<"repeater">> /\ Unread(0)
  \/ phase = "greeted" /\ Upwards = <<>> /\ Unread(12) /\ NextByte(1) # 0

\* The schemes.
SecurityStage ==
  \/ phase = "greeted" /\ Upwards = <<"version">> /\ Unread(0)
  \/ /\ server.version >= 7 /\ Upwards = <<>>
     /\ \/ /\ phase = "choice" /\ server.types # <<>>
           /\ Unread(1 + Len(server.types)) /\ NextByte(1) = Len(server.types)
        \/ phase = "refused" /\ Unread(7) /\ NextByte(1) = 0
  \/ /\ server.version < 7 /\ Upwards = <<>>
     /\ \/ phase = "init" /\ Unread(4) /\ NextNumber(1)
        \/ phase = "response" /\ Unread(20) /\ NextNumber(2)
        \/ phase = "refused" /\ Unread(10) /\ NextNumber(0)
        \/ phase = "refused" /\ Unread(4) /\ NextNumber(16)

\* No scheme that the client has; the scheme without a password; that with one.
NoScheme == rfb_auth_scheme \in {0, 16} /\ phase = "refused" /\ Upwards = <<>>
SchemeNone ==
  /\ rfb_auth_scheme = 1
  /\ \/ phase = "choice" /\ Upwards = <<"scheme1">> /\ Unread(0)
     \/ server.version >= 8 /\ ResultComes
     \/ server.version < 8 /\ phase = "init" /\ Upwards = <<>> /\ Unread(0)
SchemePassword ==
  /\ rfb_auth_scheme = 2
  /\ \/ phase = "choice" /\ Upwards = <<"scheme2">> /\ Unread(0)
     \/ phase = "response" /\ Upwards = <<>> /\ Unread(16)

\* The verdict.
ResultStage ==
  \/ server.version >= 8 /\ SchemeNone
  \/ /\ rfb_auth_scheme = 2
     /\ \/ phase = "response" /\ Upwards = <<"response">> /\ Unread(0)
        \/ ResultComes

Admitted == rfb_auth_scheme = 2 => server.admits

\* The sizes, and the connection.
InitStage ==
  /\ Admitted
  /\ \/ phase = "init" /\ Upwards = <<>> /\ Unread(0)
     \/ server.version < 8 /\ phase = "choice" /\ Upwards = <<"scheme1">> /\ Unread(0)

ReadyStage ==
  /\ Admitted
  /\ \/ server.version < 8 /\ phase = "choice" /\ Upwards = <<"scheme1", "init">> /\ Unread(0)
     \/ phase = "init" /\ Upwards = <<"init">> /\ Unread(0)
     \/ phase = "ready" /\ Upwards = <<>>

\* Both are connected: the client asks for updates.
Asks == \A i \in DOMAIN Upwards : Upwards[i] = "request"
Talk ==
  \/ /\ phase = "ready" /\ Upwards # <<>> /\ Head(Upwards) = "setup"
     /\ \A i \in DOMAIN Upwards : i > 1 => Upwards[i] = "request"
  \/ phase \in {"owes", "normal"} /\ Asks

Stage ==
  \/ rfb_state = "ProtocolVersion" /\ VersionStage
  \/ rfb_state = "Security" /\ SecurityStage
  \/ rfb_state = "Authentication" /\ (NoScheme \/ SchemeNone \/ SchemePassword)
  \/ rfb_state = "password" /\ SchemePassword
  \/ rfb_state = "SecurityResult" /\ ResultStage
  \/ rfb_state = "ClientInitialisation" /\ InitStage
  \/ rfb_state = "ServerInitialisation" /\ ReadyStage
  \/ rfb_state = "normal" /\ Admitted /\ Talk
  \/ rfb_state = "failed" /\ (Upwards = <<>> \/ Talk)

\* The inductive invariant of the handshake.
HandshakeInv ==
  /\ server \in Handshakes
  /\ wire \in Seq(Messages) /\ sQ \in Seq(Messages)
  /\ pc \in {"msg", "fbu", "rect"} => rfb_state = "normal"
  /\ torn = {} => Stage

-----------------------------------------------------------------------------

\* What the reader looks at is what comes next.
LEMMA Peeked ==
  ASSUME NEW n, Unread(n), NEW k \in Nat, k < rQlen
  PROVE  rQpeek(k) = NextByte(k + 1)
BY rQmaxAssumption DEF Unread, rQpeek, Here, NextByte, rQlen

\* A number of four bytes.
LEMMA NumberPeeked ==
  ASSUME NEW n, Unread(n), NEW k \in Nat, NextNumber(k), rQlen >= 4
  PROVE  rQpeek32(0) = k
<1>1. rQlen \in Int
  BY DEF Unread, rQlen
<1>2. rQpeek(0) = 0 /\ rQpeek(1) = 0 /\ rQpeek(2) = 0 /\ rQpeek(3) = k
  BY <1>1, Peeked DEF NextNumber
<1>3. Here(0 + 3)
  BY DEF Here, Unread, rQlen
<1> QED BY <1>2, <1>3 DEF rQpeek32

\* What is read does not come any more.
LEMMA Shifted ==
  ASSUME NEW n, Unread(n), NEW k \in Nat, k <= rQlen, rQshift(k), UNCHANGED net
  PROVE  Unread(n - k)'
BY DEF Unread, rQlen, rQshift

\* Bytes that move from the end of one sequence to another keep their places.
LEMMA PieceMoves ==
  ASSUME NEW q \in Seq(Int), NEW s \in Seq(Int), NEW r \in 0..Len(q), NEW m \in 1..Len(s)
  PROVE  LET p == q \o SubSeq(s, 1, m)
             u == SubSeq(s, m + 1, Len(s))
         IN  /\ p \in Seq(Int) /\ u \in Seq(Int)
             /\ Len(p) = Len(q) + m /\ Len(u) = Len(s) - m
             /\ \A i \in 1..(Len(q) - r + Len(s)) :
                  (IF i <= Len(p) - r THEN p[r + i] ELSE u[i - (Len(p) - r)]) =
                  (IF i <= Len(q) - r THEN q[r + i] ELSE s[i - (Len(q) - r)])
<1> DEFINE h == SubSeq(s, 1, m)
           p == q \o h
           u == SubSeq(s, m + 1, Len(s))
<1>0. /\ Len(q) \in Nat /\ Len(s) \in Nat /\ m \in Nat /\ r \in Nat
      /\ 1 <= m /\ m <= Len(s) /\ r <= Len(q)
  OBVIOUS
<1>1. h \in Seq(Int) /\ Len(h) = m /\ \A i \in 1..m : h[i] = s[i]
  BY SubSeqProperties
<1>2. \A i \in (m + 1)..Len(s) : s[i] \in Int
  OBVIOUS
<1>3. /\ u \in Seq(Int)
      /\ Len(u) = IF m + 1 <= Len(s) THEN Len(s) - (m + 1) + 1 ELSE 0
      /\ \A i \in 1..(Len(s) - (m + 1) + 1) : u[i] = s[m + 1 + i - 1]
  <2>1. m + 1 \in Int /\ Len(s) \in Int
    BY <1>0
  <2> QED BY ONLY <2>1, <1>2, SubSeqProperties
<1> HIDE DEF u
<1>4. Len(u) = Len(s) - m /\ \A i \in 1..(Len(s) - m) : u[i] = s[i + m]
  BY ONLY <1>0, <1>3
<1> HIDE DEF h
<1>5. /\ p \in Seq(Int) /\ Len(p) = Len(q) + m
      /\ \A i \in 1..(Len(q) + m) : p[i] = IF i <= Len(q) THEN q[i] ELSE h[i - Len(q)]
  BY <1>1, ConcatProperties
<1> HIDE DEF p
<1>l. Len(p) = Len(q) + m
  BY ONLY <1>5
<1>6. ASSUME NEW i \in 1..(Len(q) - r + Len(s))
      PROVE  (IF i <= Len(p) - r THEN p[r + i] ELSE u[i - (Len(p) - r)]) =
             (IF i <= Len(q) - r THEN q[r + i] ELSE s[i - (Len(q) - r)])
  <2>0. i \in Nat /\ i >= 1 /\ i <= Len(q) - r + Len(s)
    BY <1>0
  <2>1. CASE i <= Len(q) - r
    <3>1. r + i \in 1..(Len(q) + m) /\ r + i <= Len(q) /\ i <= Len(p) - r
      BY ONLY <1>0, <1>l, <2>0, <2>1
    <3> QED BY ONLY <1>5, <2>1, <3>1
  <2>2. CASE i > Len(q) - r /\ i <= Len(q) - r + m
    <3>1. /\ r + i \in 1..(Len(q) + m) /\ ~(r + i <= Len(q)) /\ i <= Len(p) - r
          /\ ~(i <= Len(q) - r)
          /\ r + i - Len(q) \in 1..m /\ i - (Len(q) - r) = r + i - Len(q)
      BY ONLY <1>0, <1>l, <2>0, <2>2
    <3>2. p[r + i] = h[r + i - Len(q)]
      BY ONLY <1>5, <3>1
    <3>3. h[r + i - Len(q)] = s[r + i - Len(q)]
      BY ONLY <1>1, <3>1
    <3> QED BY ONLY <3>1, <3>2, <3>3
  <2>3. CASE i > Len(q) - r + m
    <3>1. /\ ~(i <= Len(p) - r) /\ ~(i <= Len(q) - r)
          /\ i - (Len(p) - r) \in 1..(Len(s) - m)
          /\ i - (Len(q) - r) = i - (Len(p) - r) + m
      BY ONLY <1>0, <1>l, <2>0, <2>3
    <3> QED BY ONLY <1>4, <3>1
  <2> QED BY ONLY <1>0, <2>0, <2>1, <2>2, <2>3
<1> QED BY ONLY <1>3, <1>4, <1>5, <1>6 DEF p, u, h

\* A piece that arrives changes nothing of what comes next.
LEMMA Received ==
  ASSUME NEW n \in Nat, Unread(n), NEW m \in 1..Len(net),
         decode_message(SubSeq(net, 1, m)), net' = SubSeq(net, m + 1, Len(net))
  PROVE  Unread(n)' /\ \A i \in 1..n : NextByte(i)' = NextByte(i)
<1>1. /\ rQ \in Seq(Int) /\ net \in Seq(Int) /\ rQi \in 0..Len(rQ) /\ rQi' = rQi
      /\ Len(rQ) - rQi + Len(net) = n
  BY DEF Unread, decode_message, rQlen
<1>2. /\ rQ' \in Seq(Int) /\ net' \in Seq(Int)
      /\ Len(rQ') = Len(rQ) + m /\ Len(net') = Len(net) - m
      /\ \A i \in 1..(Len(rQ) - rQi + Len(net)) :
           (IF i <= Len(rQ') - rQi THEN rQ'[rQi + i] ELSE net'[i - (Len(rQ') - rQi)]) =
           (IF i <= Len(rQ) - rQi THEN rQ[rQi + i] ELSE net[i - (Len(rQ) - rQi)])
  BY <1>1, PieceMoves DEF decode_message
<1>3. rQi' \in 0..Len(rQ') /\ Len(rQ') - rQi' + Len(net') = n
  <2>1. Len(rQ') = Len(rQ) + m /\ Len(net') = Len(net) - m
    BY ONLY <1>2
  <2>2. /\ m \in Nat /\ Len(rQ) \in Nat /\ Len(net) \in Nat /\ rQi \in Nat /\ rQi <= Len(rQ)
        /\ rQi' = rQi /\ Len(rQ) - rQi + Len(net) = n
    BY <1>1
  <2> QED BY ONLY <2>1, <2>2
<1> QED BY <1>1, <1>2, <1>3 DEF Unread, NextByte, rQlen

\* Compaction drops what was read and nothing else.
LEMMA Compacted ==
  ASSUME NEW n \in Nat, Unread(n), compact, UNCHANGED net
  PROVE  Unread(n)' /\ \A i \in 1..n : NextByte(i)' = NextByte(i)
<1>1. /\ rQ \in Seq(Int) /\ net \in Seq(Int) /\ rQi \in 0..Len(rQ) /\ rQlen + Len(net) = n
  BY DEF Unread
<1>2. CASE rQ' = SubSeq(rQ, rQi + 1, Len(rQ)) /\ rQi' = 0
  <2>1. /\ rQ' \in Seq(Int) /\ Len(rQ') = Len(rQ) - rQi
        /\ \A i \in 1..(Len(rQ) - rQi) : rQ'[i] = rQ[i + rQi]
    BY <1>1, <1>2, SubSeqProperties
  <2>2. /\ Len(rQ') = Len(rQ) - rQi /\ rQi' = 0 /\ net' = net /\ rQ' \in Seq(Int)
        /\ Len(rQ) - rQi + Len(net) = n
        /\ rQi \in Nat /\ Len(rQ) \in Nat /\ Len(net) \in Nat /\ rQi <= Len(rQ)
    BY <1>1, <1>2, <2>1 DEF rQlen
  <2>3. rQi' \in 0..Len(rQ') /\ Len(rQ') - rQi' + Len(net') = n
    BY ONLY <2>2
  <2>4. ASSUME NEW i \in 1..n
        PROVE  (IF i <= Len(rQ') - rQi' THEN rQ'[rQi' + i] ELSE net'[i - (Len(rQ') - rQi')]) =
               (IF i <= Len(rQ) - rQi THEN rQ[rQi + i] ELSE net[i - (Len(rQ) - rQi)])
    <3>1. i \in Nat /\ i >= 1 /\ i <= n
      OBVIOUS
    <3>2. CASE i <= Len(rQ) - rQi
      <4>1. /\ i \in 1..(Len(rQ) - rQi) /\ i <= Len(rQ') - rQi'
            /\ rQi' + i = i /\ rQi + i = i + rQi
        BY ONLY <2>2, <3>1, <3>2
      <4> QED BY ONLY <2>1, <3>2, <4>1
    <3>3. CASE ~(i <= Len(rQ) - rQi)
      <4>1. ~(i <= Len(rQ') - rQi') /\ i - (Len(rQ') - rQi') = i - (Len(rQ) - rQi)
        BY ONLY <2>2, <3>1, <3>3
      <4> QED BY ONLY <2>2, <3>3, <4>1
    <3> QED BY ONLY <3>2, <3>3
  <2> QED BY ONLY <1>1, <2>2, <2>3, <2>4 DEF Unread, NextByte, rQlen
<1>3. CASE UNCHANGED recvVars
  BY <1>1, <1>3 DEF Unread, NextByte, rQlen, recvVars
<1> QED BY <1>2, <1>3 DEF compact

\* When all has been read, what comes is what the server sends.
LEMMA Served ==
  ASSUME Unread(0), NEW bytes \in Seq(Int), NEW n \in Nat, Len(bytes) = n,
         net' = net \o bytes, UNCHANGED recvVars
  PROVE  Unread(n)' /\ \A i \in 1..n : NextByte(i)' = bytes[i]
<1>1. /\ rQ \in Seq(Int) /\ net \in Seq(Int) /\ rQi \in 0..Len(rQ)
      /\ rQlen = 0 /\ Len(net) = 0
  BY DEF Unread, rQlen
<1>2. /\ net' \in Seq(Int) /\ Len(net') = n
      /\ \A i \in 1..n : net'[i] = bytes[i]
  BY <1>1, ConcatProperties
<1>3. rQ' = rQ /\ rQi' = rQi
  BY DEF recvVars
<1>4. Unread(n)'
  <2>1. /\ rQi \in Nat /\ Len(rQ) \in Nat /\ rQi <= Len(rQ) /\ Len(rQ) - rQi = 0
    BY <1>1 DEF rQlen
  <2>2. /\ Len(rQ') = Len(rQ) /\ rQi' = rQi /\ Len(net') = n
        /\ rQ' \in Seq(Int) /\ net' \in Seq(Int)
    BY ONLY <1>1, <1>2, <1>3
  <2>3. rQi' \in 0..Len(rQ') /\ Len(rQ') - rQi' + Len(net') = n
    <3>1. rQi' \in Nat /\ Len(rQ') \in Nat /\ rQi' <= Len(rQ')
      BY ONLY <2>1, <2>2
    <3>2. Len(rQ') - rQi' = 0 /\ Len(net') \in Nat /\ Len(net') = n
      BY ONLY <2>1, <2>2, n \in Nat
    <3>3. rQi' \in 0..Len(rQ')
      BY ONLY <3>1
    <3>4. Len(rQ') - rQi' + Len(net') = 0 + Len(net') /\ 0 + Len(net') = Len(net')
      BY ONLY <3>2
    <3> QED BY ONLY <3>2, <3>3, <3>4
  <2> QED BY ONLY <2>2, <2>3 DEF Unread, rQlen
<1>5. ASSUME NEW i \in 1..n PROVE NextByte(i)' = bytes[i]
  <2>1. rQlen' = 0 /\ i \in Nat /\ ~(i <= 0) /\ i - 0 = i
    BY <1>1, <1>3 DEF rQlen
  <2>2. net'[i] = bytes[i]
    BY ONLY <1>2, i \in 1..n
  <2> QED BY ONLY <2>1, <2>2 DEF NextByte
<1> QED BY <1>4, <1>5

\* Messages are put behind those under way.
LEMMA Sent ==
  ASSUME HandshakeInv, NEW msgs \in Seq(Messages), send(msgs)
  PROVE  /\ wire' \in Seq(Messages) /\ sQ' \in Seq(Messages)
         /\ Upwards' = Upwards \o msgs
<1>1. wire \in Seq(Messages) /\ sQ \in Seq(Messages)
  BY DEF HandshakeInv
<1>2. CASE wire' = wire \o sQ \o msgs /\ sQ' = <<>>
  BY <1>1, <1>2 DEF Upwards
<1>3. CASE sQ' = sQ \o msgs /\ UNCHANGED wire
  <2>1. wire \o (sQ \o msgs) = (wire \o sQ) \o msgs
    BY <1>1, ConcatAssociative
  <2> QED BY <1>1, <1>3, <2>1 DEF Upwards
<1> QED BY <1>2, <1>3 DEF send

\* The server takes the first of them.
LEMMA Taken ==
  ASSUME HandshakeInv, NEW token, Takes(token), UNCHANGED sQ
  PROVE  /\ wire' \in Seq(Messages) /\ sQ' \in Seq(Messages) /\ Upwards \in Seq(Messages)
         /\ Upwards # <<>> /\ Head(Upwards) = token /\ Upwards' = Tail(Upwards)
<1>1. /\ wire \in Seq(Messages) /\ sQ \in Seq(Messages) /\ wire # <<>> /\ Head(wire) = token
      /\ wire' = Tail(wire) /\ sQ' = sQ
  BY DEF HandshakeInv, Takes
<1>2. Tail(wire \o sQ) = Tail(wire) \o sQ
  BY <1>1
<1> QED BY <1>1, <1>2 DEF Upwards

\* The server's record.
LEMMA ServerFields ==
  ASSUME HandshakeInv
  PROVE  /\ server.version \in Nat \ {0} /\ server.types \in Seq(Nat)
         /\ server.admits \in BOOLEAN /\ server.repeater \in BOOLEAN
<1>1. server \in Handshake
  BY HandshakesAssumption DEF HandshakeInv
<1>2. /\ server.version \in {3, 7, 8} /\ server.types \in Seq(Nat)
      /\ server.admits \in BOOLEAN /\ server.repeater \in BOOLEAN
  BY ONLY <1>1 DEF Handshake
<1> QED BY ONLY <1>2

\* Bytes that are not looked at.
LEMMA Padding ==
  ASSUME NEW n \in Nat
  PROVE  Pads(n) \in Seq(Int) /\ Len(Pads(n)) = n
<1>1. Pads(n) \in [1..n -> Int]
  BY DEF Pads, Pad
<1> QED BY <1>1

\* A number of four bytes, and what follows it.
LEMMA NumberFirst ==
  ASSUME NEW k \in Nat, NEW rest \in Seq(Int)
  PROVE  /\ <<0, 0, 0, k>> \o rest \in Seq(Int)
         /\ Len(<<0, 0, 0, k>> \o rest) = 4 + Len(rest)
         /\ (<<0, 0, 0, k>> \o rest)[1] = 0 /\ (<<0, 0, 0, k>> \o rest)[2] = 0
         /\ (<<0, 0, 0, k>> \o rest)[3] = 0 /\ (<<0, 0, 0, k>> \o rest)[4] = k
<1> DEFINE s == <<0, 0, 0, k>>
<1>1. s \in Seq(Int) /\ Len(s) = 4 /\ s[1] = 0 /\ s[2] = 0 /\ s[3] = 0 /\ s[4] = k
  OBVIOUS
<1> HIDE DEF s
<1>2. Len(rest) \in Nat
  OBVIOUS
<1>3. /\ s \o rest \in Seq(Int) /\ Len(s \o rest) = Len(s) + Len(rest)
      /\ \A i \in 1..(Len(s) + Len(rest)) :
           (s \o rest)[i] = IF i <= Len(s) THEN s[i] ELSE rest[i - Len(s)]
  BY <1>1, ConcatProperties
<1>4. \A i \in 1..4 : (s \o rest)[i] = s[i]
  <2>1. \A i \in 1..4 : i \in 1..(Len(s) + Len(rest)) /\ i <= Len(s)
    BY ONLY <1>1, <1>2
  <2> QED BY ONLY <2>1, <1>3
<1> QED BY ONLY <1>1, <1>3, <1>4 DEF s

\* The lengths of what the server sends.
LEMMA ReasonLength == Reason \in Seq(Int) /\ Len(Reason) = 6
<1> DEFINE p == Pads(2)
           k == 2
<1>1. p \in Seq(Int) /\ Len(p) = 2
  BY Padding
<1>2. Reason = <<0, 0, 0, k>> \o p /\ k \in Nat
  BY DEF Reason
<1> HIDE DEF p, k
<1>3. Reason \in Seq(Int) /\ Len(Reason) = 4 + Len(p)
  BY ONLY <1>1, <1>2, NumberFirst
<1> QED BY ONLY <1>1, <1>3

\* The security result is a number of four bytes, and a reason since version 3.8.
LEMMA ResultLength ==
  ASSUME HandshakeInv
  PROVE  /\ Result \in Seq(Int)
         /\ Len(Result) = IF server.admits \/ server.version < 8 THEN 4 ELSE 10
         /\ Result[1] = 0 /\ Result[2] = 0 /\ Result[3] = 0
         /\ Result[4] = IF server.admits THEN 0 ELSE 1
<1> DEFINE rest == IF server.admits \/ server.version < 8 THEN <<>> ELSE Reason
           k == IF server.admits THEN 0 ELSE 1
<1>1. rest \in Seq(Int) /\ Len(rest) = IF server.admits \/ server.version < 8 THEN 0 ELSE 6
  <2>1. CASE server.admits \/ server.version < 8
    BY <2>1
  <2>2. CASE ~(server.admits \/ server.version < 8)
    BY ReasonLength, <2>2
  <2> QED BY <2>1, <2>2
<1>2. Result = <<0, 0, 0, k>> \o rest /\ k \in Nat
  BY DEF Result
<1> HIDE DEF rest
<1>3. /\ Result \in Seq(Int) /\ Len(Result) = 4 + Len(rest)
      /\ Result[1] = 0 /\ Result[2] = 0 /\ Result[3] = 0 /\ Result[4] = k
  <2> HIDE DEF k
  <2> QED BY ONLY <1>1, <1>2, NumberFirst
<1> QED BY ONLY <1>1, <1>3 DEF k

\* Neither the reader nor the server's bytes ahead of it have changed.
BytesStay ==
  \A n \in Nat : Unread(n) => Unread(n)' /\ \A i \in 1..n : NextByte(i)' = NextByte(i)

\* The stage depends on what is to be read, not on how far it has come.
LEMMA StageKept ==
  ASSUME HandshakeInv, Stage, BytesStay, Upwards' = Upwards,
         UNCHANGED <<rfb_state, rfb_auth_scheme, server, phase>>
  PROVE  Stage'
<1>1. \A n \in Nat : Unread(n) => Unread(n)' /\ \A i \in 1..n : NextByte(i)' = NextByte(i)
  BY DEF BytesStay
<1>2. \A n \in Nat, k \in Nat : n >= 4 /\ Unread(n) /\ NextNumber(k) => NextNumber(k)'
  BY <1>1 DEF NextNumber
<1>3. Result' = Result /\ AfterResult' = AfterResult
  BY DEF Result, AfterResult, Reason, Pads, Pad
<1>4. Len(Result) \in Nat /\ Len(Result) >= 4
  BY ResultLength
<1>5. ResultComes => ResultComes'
  BY <1>1, <1>2, <1>3, <1>4, ServerFields DEF ResultComes
<1>6. Len(server.types) \in Nat
  BY ServerFields
<1>7. SecurityStage => SecurityStage'
  BY <1>1, <1>2, <1>6 DEF SecurityStage
<1>8. VersionStage => VersionStage'
  BY <1>1 DEF VersionStage
<1>9. (SchemeNone => SchemeNone') /\ (SchemePassword => SchemePassword')
  BY <1>1, <1>5 DEF SchemeNone, SchemePassword
<1>10. ResultStage => ResultStage'
  BY <1>1, <1>5, <1>9 DEF ResultStage
<1>11. /\ InitStage => InitStage'
       /\ ReadyStage => ReadyStage'
  BY <1>1 DEF InitStage, ReadyStage, Admitted
<1>12. (Talk => Talk') /\ (NoScheme => NoScheme') /\ (Admitted => Admitted')
  BY DEF Talk, Asks, NoScheme, Admitted
<1> QED BY <1>7, <1>8, <1>9, <1>10, <1>11, <1>12 DEF Stage

\* The client does nothing but read, or move within its handlers.
LEMMA ClientReads ==
  ASSUME HandshakeInv, BytesStay, UNCHANGED <<sendVars, client, server, phase, torn>>,
         pc' \in {"msg", "fbu", "rect"} => rfb_state = "normal"
  PROVE  HandshakeInv'
BY StageKept DEF HandshakeInv, sendVars, client, Upwards

\* Nothing of the stream has changed.
LEMMA NothingRead ==
  ASSUME UNCHANGED <<recvVars, net>>
  PROVE  BytesStay
BY DEF BytesStay, Unread, NextByte, rQlen, recvVars

\* Pieces that arrive, timers, and the ends of a handler read nothing of it.
LEMMA Events ==
  ASSUME HandshakeInv, Receive \/ MsgTimer \/ InitTimer \/ handle_message \/ Return
  PROVE  HandshakeInv'
<1>1. CASE Receive
  <2>1. PICK m \in 1..Len(net) :
          /\ decode_message(SubSeq(net, 1, m)) /\ net' = SubSeq(net, m + 1, Len(net))
          /\ pc' \in {"handle", "idle"}
    BY <1>1 DEF Receive
  <2>2. BytesStay
    BY <2>1, Received DEF BytesStay
  <2> QED BY <1>1, <2>1, <2>2, ClientReads DEF Receive
<1>2. CASE MsgTimer
  <2>1. BytesStay
    BY <1>2, NothingRead DEF MsgTimer, world
  <2> QED BY <1>2, <2>1, ClientReads DEF MsgTimer, world
<1>3. CASE InitTimer
  <2>1. BytesStay
    BY <1>3, NothingRead DEF InitTimer, world
  <2>2. UNCHANGED <<rfb_state, rfb_auth_scheme, server, phase, torn, wire, sQ>> /\ pc' = "init"
    BY <1>3 DEF InitTimer, world, sendVars
  <2> QED BY <2>1, <2>2, StageKept DEF HandshakeInv, Upwards
<1>4. CASE handle_message
  <2>1. BytesStay
    BY <1>4, NothingRead DEF handle_message, world
  <2>2. pc' \in {"msg", "fbu", "rect"} => rfb_state = "normal"
    BY <1>4 DEF handle_message
  <2> QED BY <1>4, <2>1, <2>2, ClientReads DEF handle_message, world
<1>5. CASE Return
  <2>1. BytesStay
    BY <1>5, NothingRead, Compacted DEF Return, world, BytesStay
  <2> QED BY <1>5, <2>1, ClientReads DEF Return, world
<1> QED BY <1>1, <1>2, <1>3, <1>4, <1>5

\* What the browser is handed later was under way before.
LEMMA Flushed ==
  ASSUME HandshakeInv, SendTimer
  PROVE  HandshakeInv'
<1>1. wire \in Seq(Messages) /\ sQ \in Seq(Messages)
  BY DEF HandshakeInv
<1>2. wire' \in Seq(Messages) /\ sQ' \in Seq(Messages) /\ Upwards' = Upwards
  <2>1. CASE wire' = wire \o sQ /\ sQ' = <<>>
    BY <1>1, <2>1 DEF Upwards
  <2>2. CASE UNCHANGED sendVars
    BY <1>1, <2>2 DEF Upwards, sendVars
  <2> QED BY <2>1, <2>2 DEF SendTimer, flush
<1>3. BytesStay
  BY NothingRead DEF SendTimer, world
<1>4. UNCHANGED <<rfb_state, rfb_auth_scheme, server, phase, torn, pc>>
  BY DEF SendTimer, world, client, control
<1> QED BY <1>2, <1>3, <1>4, StageKept DEF HandshakeInv

\* No more is read than there is.
LEMMA AllThereIs ==
  ASSUME NEW n \in Nat, Unread(n)
  PROVE  rQlen \in Int /\ rQlen <= n
BY DEF Unread, rQlen

\* The last of what comes is read.
LEMMA ReadAll ==
  ASSUME NEW n \in Nat, Unread(n), rQshift(n), n <= rQlen, UNCHANGED net
  PROVE  Unread(0)'
<1>1. Unread(n - n)'
  BY Shifted
<1> QED BY <1>1

\* A reader that waits has read nothing.
LEMMA Waited ==
  ASSUME rQgoback(0), UNCHANGED net
  PROVE  BytesStay
BY DEF BytesStay, Unread, NextByte, rQlen, rQgoback

\* Any message may be sent.
LEMMA Sends ==
  ASSUME HandshakeInv, NEW token \in Messages, send(<<token>>)
  PROVE  /\ wire' \in Seq(Messages) /\ sQ' \in Seq(Messages)
         /\ Upwards' = Upwards \o <<token>>
<1>1. <<token>> \in Seq(Messages)
  OBVIOUS
<1> QED BY <1>1, Sent

\* When none was under way it is the only one.
LEMMA SendsFirst ==
  ASSUME HandshakeInv, Upwards = <<>>, NEW token \in Messages, send(<<token>>)
  PROVE  wire' \in Seq(Messages) /\ sQ' \in Seq(Messages) /\ Upwards' = <<token>>
<1>1. <<token>> \in Seq(Messages)
  OBVIOUS
<1>2. wire' \in Seq(Messages) /\ sQ' \in Seq(Messages) /\ Upwards' = Upwards \o <<token>>
  BY Sends
<1> QED BY <1>1, <1>2, ConcatEmptySeq

\* ProtocolVersion: the first twelve bytes of a server or of a repeater.
LEMMA VersionRead ==
  ASSUME HandshakeInv, InitProtocolVersion
  PROVE  HandshakeInv'
<1>1. CASE rQlen < 12 /\ Fail /\ torn' = torn \cup {"version"}
  BY <1>1 DEF InitProtocolVersion, Fail, Leave, quiet, HandshakeInv, world, sendVars
<1>2. CASE /\ rQlen >= 12 /\ rQshift(12) /\ torn' = torn /\ pc' = "ret"
           /\ \/ rQpeek(0) = 0 /\ send(<<"repeater">>) /\ UNCHANGED client
              \/ rQpeek(0) # 0 /\ send(<<"version">>) /\ Goto("Security")
  <2>1. /\ UNCHANGED <<server, phase, net, rfb_auth_scheme>>
        /\ rfb_state = "ProtocolVersion"
    BY <1>2 DEF InitProtocolVersion, quiet, world, Goto, client
  <2>2. wire' \in Seq(Messages) /\ sQ' \in Seq(Messages)
    BY <1>2, Sends DEF Messages
  <2>3. ASSUME torn = {} PROVE Stage'
    <3>1. VersionStage
      BY <2>1, <2>3 DEF HandshakeInv, Stage
    <3>2. ~Unread(0)
      BY <1>2, AllThereIs
    <3>3. Unread(12) /\ Upwards = <<>>
      BY <3>1, <3>2 DEF VersionStage
    <3>4. Unread(0)'
      BY <1>2, <2>1, <3>3, ReadAll
    <3>5. rQpeek(0) = NextByte(1)
      BY <1>2, <3>3, Peeked, AllThereIs
    <3>6. CASE rQpeek(0) = 0
      <4>1. Upwards' = <<"repeater">>
        BY <1>2, <3>3, <3>6, SendsFirst DEF Messages
      <4>2. phase' = "repeater" /\ rfb_state' = "ProtocolVersion"
        BY <1>2, <2>1, <3>1, <3>2, <3>5, <3>6 DEF VersionStage, client
      <4> QED BY <3>4, <4>1, <4>2 DEF Stage, VersionStage
    <3>7. CASE rQpeek(0) # 0
      <4>1. Upwards' = <<"version">>
        BY <1>2, <3>3, <3>7, SendsFirst DEF Messages
      <4>2. phase' = "greeted" /\ rfb_state' = "Security"
        BY <1>2, <2>1, <3>1, <3>2, <3>5, <3>7 DEF VersionStage, Goto
      <4> QED BY <3>4, <4>1, <4>2 DEF Stage, SecurityStage
    <3> QED BY <3>6, <3>7
  <2> QED BY <1>2, <2>1, <2>2, <2>3 DEF HandshakeInv
<1> QED BY <1>1, <1>2 DEF InitProtocolVersion, Leave

\* Security: the list of the schemes, or the one scheme before version 3.7.
LEMMA SecurityRead ==
  ASSUME HandshakeInv, InitSecurity
  PROVE  HandshakeInv'
<1> DEFINE n == rQpeek(0)
<1>0. /\ UNCHANGED <<server, phase, net, torn>> /\ rfb_state = "Security"
      /\ wire \in Seq(Messages) /\ sQ \in Seq(Messages) /\ server \in Handshakes
  BY DEF InitSecurity, quiet, world, HandshakeInv
<1>1. CASE Wait(0)
  BY <1>0, <1>1, Waited, ClientReads DEF Wait, Leave
<1>2. CASE /\ server.version >= 7 /\ rQlen >= 1 + n /\ Known(n) = {} /\ Fail
  <2>1. rfb_state' = "failed" /\ Upwards' = Upwards /\ UNCHANGED <<wire, sQ>> /\ pc' = "ret"
    BY <1>2 DEF Fail, Leave, Upwards, sendVars
  <2>2. ASSUME torn = {} PROVE Upwards = <<>>
    <3>1. SecurityStage
      BY <1>0, <2>2 DEF HandshakeInv, Stage
    <3>2. ~Unread(0)
      <4>1. SUFFICES ASSUME Unread(0) PROVE FALSE
        OBVIOUS
      <4>2. rQlen <= 0 /\ rQi \in Nat /\ Len(rQ) \in Nat
        BY <4>1, AllThereIs DEF Unread
      <4>3. n = 0
        BY <4>2 DEF rQpeek, Here, rQlen
      <4> QED BY <1>2, <4>2, <4>3 DEF rQlen
    <3> QED BY <1>2, <3>1, <3>2 DEF SecurityStage
  <2> QED BY <1>0, <2>1, <2>2 DEF HandshakeInv, Stage
<1>3. ASSUME NEW t \in Known(n), server.version >= 7, rQlen >= 1 + n, rQshift(1 + n),
             rfb_auth_scheme' = t, rfb_state' = "Authentication", pc' = "init",
             send(<<IF t = 1 THEN "scheme1" ELSE "scheme2">>)
      PROVE  HandshakeInv'
  <2> DEFINE token == IF t = 1 THEN "scheme1" ELSE "scheme2"
  <2>0. token \in Messages /\ send(<<token>>)
    BY <1>3 DEF Messages
  <2>1. wire' \in Seq(Messages) /\ sQ' \in Seq(Messages)
    <3> HIDE DEF token
    <3> QED BY <2>0, Sends
  <2>2. ASSUME torn = {} PROVE Stage'
    <3>1. SecurityStage
      BY <1>0, <2>2 DEF HandshakeInv, Stage
    <3>2. t \in {1, 2}
      BY DEF Known
    <3>3. ~Unread(0)
      <4>1. SUFFICES ASSUME Unread(0) PROVE FALSE
        OBVIOUS
      <4>2. rQlen <= 0 /\ rQi \in Nat /\ Len(rQ) \in Nat
        BY <4>1, AllThereIs DEF Unread
      <4>3. n = 0
        BY <4>2 DEF rQpeek, Here, rQlen
      <4> QED BY <1>3, <4>2, <4>3 DEF rQlen
    <3>4. \/ /\ phase = "choice" /\ Upwards = <<>>
             /\ Unread(1 + Len(server.types)) /\ NextByte(1) = Len(server.types)
          \/ phase = "refused" /\ Unread(7) /\ NextByte(1) = 0
      BY <1>3, <3>1, <3>3, ServerFields DEF SecurityStage
    <3>5. \A k \in Nat : Unread(k) => rQlen \in Int
      BY AllThereIs
    <3>6. Len(server.types) \in Nat
      BY ServerFields
    <3>7. rQlen \in Int /\ rQi \in Nat /\ Len(rQ) \in Nat
      BY <3>4, <3>6 DEF Unread, rQlen
    <3>8. rQlen > 0
      <4>1. SUFFICES ASSUME rQlen <= 0 PROVE FALSE
        BY <3>7
      <4>2. n = 0
        BY <3>7, <4>1 DEF rQpeek, Here, rQlen
      <4> QED BY <1>3, <4>1, <4>2, <3>7
    <3>9. n = NextByte(1)
      BY <3>4, <3>7, <3>8, Peeked
    <3>10. phase # "refused"
      <4>1. SUFFICES ASSUME phase = "refused" PROVE FALSE
        OBVIOUS
      <4>2. n = 0
        BY <3>4, <3>9, <4>1
      <4> QED BY <4>2 DEF Known
    <3>11. Unread(1 + n) /\ Upwards = <<>> /\ phase = "choice" /\ 1 + n \in Nat
      BY <3>4, <3>6, <3>9, <3>10
    <3>12. Unread(0)'
      <4> HIDE DEF n
      <4> QED BY <1>0, <1>3, <3>11, ReadAll
    <3>13. Upwards' = <<token>>
      <4> HIDE DEF token
      <4> QED BY <2>0, <3>11, SendsFirst
    <3> QED BY <1>0, <1>3, <3>2, <3>11, <3>12, <3>13 DEF Stage, SchemeNone, SchemePassword
  <2> QED BY <1>0, <1>3, <2>1, <2>2 DEF HandshakeInv
<1>4. CASE /\ server.version < 7 /\ ~rQwait(4) /\ rQshift(4)
           /\ rfb_auth_scheme' = rQpeek32(0) /\ rfb_state' = "Authentication"
           /\ pc' = "init" /\ UNCHANGED sendVars
  <2>1. Upwards' = Upwards /\ UNCHANGED <<wire, sQ>>
    BY <1>4 DEF Upwards, sendVars
  <2>2. ASSUME torn = {} PROVE Stage'
    <3>1. SecurityStage
      BY <1>0, <2>2 DEF HandshakeInv, Stage
    <3>2. ~Unread(0)
      BY <1>4, AllThereIs DEF rQwait, NaN
    <3>3. server.version \in Nat
      BY ServerFields
    <3>4. /\ Upwards = <<>>
          /\ \/ phase = "init" /\ Unread(4) /\ NextNumber(1)
             \/ phase = "response" /\ Unread(20) /\ NextNumber(2)
             \/ phase = "refused" /\ Unread(10) /\ NextNumber(0)
             \/ phase = "refused" /\ Unread(4) /\ NextNumber(16)
      BY <1>4, <3>1, <3>2, <3>3 DEF SecurityStage
    <3>5. rQlen >= 4 /\ rQlen \in Int
      BY <1>4, <3>4, AllThereIs DEF rQwait, NaN
    <3>6. CASE phase = "init" /\ Unread(4) /\ NextNumber(1)
      <4>1. rfb_auth_scheme' = 1 /\ Unread(0)'
        BY <1>0, <1>4, <3>5, <3>6, NumberPeeked, ReadAll
      <4> QED BY <1>0, <1>4, <2>1, <3>3, <3>4, <3>6, <4>1 DEF Stage, SchemeNone
    <3>7. CASE phase = "response" /\ Unread(20) /\ NextNumber(2)
      <4>1. rfb_auth_scheme' = 2
        BY <1>4, <3>5, <3>7, NumberPeeked
      <4>2. Unread(20 - 4)'
        BY <1>0, <1>4, <3>5, <3>7, Shifted
      <4>3. Unread(16)'
        BY <4>2
      <4> QED BY <1>0, <1>4, <2>1, <3>4, <3>7, <4>1, <4>3 DEF Stage, SchemePassword
    <3>8. CASE phase = "refused"
      <4>1. rfb_auth_scheme' \in {0, 16}
        BY <1>4, <3>4, <3>5, <3>8, NumberPeeked
      <4> QED BY <1>0, <1>4, <2>1, <3>4, <3>8, <4>1 DEF Stage, NoScheme
    <3> QED BY <3>4, <3>6, <3>7, <3>8
  <2> QED BY <1>0, <1>4, <2>1, <2>2 DEF HandshakeInv
<1>5. CASE server.version >= 7
  <2> HIDE DEF n
  <2>1. \/ Wait(0)
        \/ rQlen >= 1 + n /\ Known(n) = {} /\ Fail
        \/ \E t \in Known(n) :
             /\ rQlen >= 1 + n /\ rQshift(1 + n) /\ rfb_auth_scheme' = t
             /\ rfb_state' = "Authentication" /\ pc' = "init"
             /\ send(<<IF t = 1 THEN "scheme1" ELSE "scheme2">>)
    BY <1>5 DEF InitSecurity, Stay, n
  <2> QED BY <1>1, <1>2, <1>3, <1>5, <2>1
<1>6. CASE ~(server.version >= 7)
  <2>1. server.version < 7
    BY <1>6, ServerFields
  <2> QED BY <1>1, <1>4, <1>6, <2>1 DEF InitSecurity, Stay
<1> QED BY <1>5, <1>6

\* Schemes stay what they are when nothing is read or sent.
LEMMA SchemesStay ==
  ASSUME UNCHANGED <<rQ, rQi, net, wire, sQ, server, phase, rfb_auth_scheme>>
  PROVE  /\ SchemeNone => SchemeNone'
         /\ SchemePassword => SchemePassword'
         /\ Upwards' = Upwards /\ (Unread(0) => Unread(0)')
BY DEF SchemeNone, SchemePassword, ResultComes, Upwards, Unread, NextNumber, NextByte,
       Result, AfterResult, Reason, Pads, Pad, rQlen

\* Authentication: the scheme is none, or a password, or unknown.
LEMMA AuthenticationRead ==
  ASSUME HandshakeInv, InitAuthentication
  PROVE  HandshakeInv'
<1>0. /\ UNCHANGED <<server, phase, net, torn>> /\ rfb_state = "Authentication"
      /\ wire \in Seq(Messages) /\ sQ \in Seq(Messages) /\ server \in Handshakes
      /\ torn = {} => NoScheme \/ SchemeNone \/ SchemePassword
  BY DEF InitAuthentication, quiet, world, HandshakeInv, Stage
<1>1. CASE Wait(0)
  BY <1>0, <1>1, Waited, ClientReads DEF Wait, Leave
<1>2. CASE rfb_auth_scheme \notin {1, 2} /\ Fail
  <2>1. rfb_state' = "failed" /\ Upwards' = Upwards /\ UNCHANGED <<wire, sQ>> /\ pc' = "ret"
    BY <1>2 DEF Fail, Leave, Upwards, sendVars
  <2>2. torn = {} => Upwards = <<>>
    BY <1>0, <1>2 DEF NoScheme, SchemeNone, SchemePassword
  <2> QED BY <1>0, <2>1, <2>2 DEF HandshakeInv, Stage
<1>3. CASE /\ rfb_auth_scheme = 1 /\ UNCHANGED <<recvVars, sendVars>>
           /\ IF server.version >= 8
              THEN Goto("SecurityResult") /\ Leave(FALSE)
              ELSE Goto("ClientInitialisation") /\ Stay("init")
  <2>1. UNCHANGED <<rQ, rQi, net, wire, sQ, server, phase, rfb_auth_scheme>>
    BY <1>0, <1>3 DEF recvVars, sendVars, Goto
  <2>2. torn = {} => SchemeNone
    BY <1>0, <1>3 DEF NoScheme, SchemePassword
  <2>3. server.version \in Nat
    BY ServerFields
  <2>4. CASE server.version >= 8
    <3>1. rfb_state' = "SecurityResult" /\ pc' = "ret"
      BY <1>3, <2>4 DEF Goto, Leave
    <3>2. torn = {} => ResultStage'
      BY <2>1, <2>2, <2>4, SchemesStay DEF ResultStage
    <3> QED BY <1>0, <2>1, <3>1, <3>2 DEF HandshakeInv, Stage
  <2>5. CASE ~(server.version >= 8)
    <3>1. rfb_state' = "ClientInitialisation" /\ pc' = "init"
      BY <1>3, <2>5 DEF Goto, Stay
    <3>2. torn = {} => InitStage'
      BY <1>3, <2>1, <2>2, <2>3, <2>5, SchemesStay DEF InitStage, SchemeNone, Admitted
    <3> QED BY <1>0, <2>1, <3>1, <3>2 DEF HandshakeInv, Stage
  <2> QED BY <2>4, <2>5
<1>4. CASE rfb_auth_scheme = 2 /\ Goto("password") /\ Leave(FALSE) /\ UNCHANGED <<recvVars, sendVars>>
  <2>1. UNCHANGED <<rQ, rQi, net, wire, sQ, server, phase, rfb_auth_scheme>>
    BY <1>0, <1>4 DEF recvVars, sendVars, Goto
  <2>2. torn = {} => SchemePassword
    BY <1>0, <1>4 DEF NoScheme, SchemeNone
  <2>3. rfb_state' = "password" /\ pc' = "ret"
    BY <1>4 DEF Goto, Leave
  <2> QED BY <1>0, <2>1, <2>2, <2>3, SchemesStay DEF HandshakeInv, Stage
<1>5. CASE /\ rfb_auth_scheme = 2 /\ ~rQwait(16) /\ rQshift(16) /\ send(<<"response">>)
           /\ Goto("SecurityResult") /\ Leave(FALSE)
  <2>1. rfb_state' = "SecurityResult" /\ pc' = "ret" /\ rfb_auth_scheme' = 2
    BY <1>5 DEF Goto, Leave
  <2>2. wire' \in Seq(Messages) /\ sQ' \in Seq(Messages)
    BY <1>5, Sends DEF Messages
  <2>3. ASSUME torn = {} PROVE ResultStage'
    <3>1. ~Unread(0)
      BY <1>5, AllThereIs DEF rQwait, NaN
    <3>2. phase = "response" /\ Upwards = <<>> /\ Unread(16)
      BY <1>0, <1>5, <2>3, <3>1 DEF NoScheme, SchemeNone, SchemePassword
    <3>3. rQlen >= 16
      BY <1>5, <3>2, AllThereIs DEF rQwait, NaN
    <3>4. Unread(0)'
      BY <1>0, <1>5, <3>2, <3>3, ReadAll
    <3>5. Upwards' = <<"response">>
      BY <1>5, <3>2, SendsFirst DEF Messages
    <3> QED BY <1>0, <2>1, <3>2, <3>4, <3>5 DEF ResultStage
  <2> QED BY <1>0, <2>1, <2>2, <2>3 DEF HandshakeInv, Stage
<1>6. \/ rfb_auth_scheme = 0 /\ (Wait(0) \/ Fail)
      \/ /\ rfb_auth_scheme = 1 /\ UNCHANGED <<recvVars, sendVars, sendTimer>>
         /\ IF server.version >= 8
            THEN Goto("SecurityResult") /\ Leave(FALSE)
            ELSE Goto("ClientInitialisation") /\ Stay("init")
      \/ /\ rfb_auth_scheme = 2 /\ Goto("password") /\ Leave(FALSE)
         /\ UNCHANGED <<recvVars, sendVars, sendTimer>>
      \/ rfb_auth_scheme = 2 /\ Wait(0)
      \/ /\ rfb_auth_scheme = 2 /\ ~rQwait(16) /\ rQshift(16) /\ send(<<"response">>)
         /\ Goto("SecurityResult") /\ Leave(FALSE)
      \/ rfb_auth_scheme > 2 /\ Fail
  BY Zenon DEF InitAuthentication
<1>7. rfb_auth_scheme = 0 \/ rfb_auth_scheme > 2 => rfb_auth_scheme \notin {1, 2}
  OBVIOUS
<1>8. UNCHANGED <<recvVars, sendVars, sendTimer>> => UNCHANGED <<recvVars, sendVars>>
  OBVIOUS
<1> QED BY <1>1, <1>2, <1>3, <1>4, <1>5, <1>6, <1>7, <1>8, Zenon

\* SecurityResult: the verdict is read when it is there.
LEMMA ResultRead ==
  ASSUME HandshakeInv, InitSecurityResult
  PROVE  HandshakeInv'
<1>0. /\ UNCHANGED <<server, phase, net, torn>> /\ rfb_state = "SecurityResult"
      /\ wire \in Seq(Messages) /\ sQ \in Seq(Messages) /\ server \in Handshakes
      /\ torn = {} => ResultStage
  BY DEF InitSecurityResult, quiet, world, HandshakeInv, Stage
<1>1. CASE Wait(0)
  BY <1>0, <1>1, Waited, ClientReads DEF Wait, Leave
<1>2. ASSUME torn = {}, ~rQwait(4)
      PROVE  ResultComes /\ rQlen >= 4 /\ rQlen \in Int
  <2>1. ~Unread(0)
    BY <1>2, AllThereIs DEF rQwait, NaN
  <2>2. ResultComes
    BY <1>0, <1>2, <2>1, ServerFields DEF ResultStage, SchemeNone
  <2> QED BY <1>2, <2>2, ResultLength, AllThereIs DEF rQwait, NaN, ResultComes
<1>3. CASE ~rQwait(4) /\ Fail
  <2>1. rfb_state' = "failed" /\ Upwards' = Upwards /\ UNCHANGED <<wire, sQ>> /\ pc' = "ret"
    BY <1>3 DEF Fail, Leave, Upwards, sendVars
  <2>2. torn = {} => Upwards = <<>>
    BY <1>2, <1>3 DEF ResultComes
  <2> QED BY <1>0, <2>1, <2>2 DEF HandshakeInv, Stage
<1>4. CASE /\ ~rQwait(4) /\ rQpeek32(0) = 0 /\ rQshift(4) /\ UNCHANGED sendVars
           /\ Goto("ClientInitialisation") /\ Stay("init")
  <2>1. /\ rfb_state' = "ClientInitialisation" /\ pc' = "init" /\ Upwards' = Upwards
        /\ UNCHANGED <<wire, sQ, rfb_auth_scheme>>
    BY <1>4 DEF Goto, Stay, Upwards, sendVars
  <2>2. ASSUME torn = {} PROVE InitStage'
    <3>1. ResultComes /\ rQlen >= 4 /\ rQlen \in Int
      BY <1>2, <1>4, <2>2
    <3>2. rQpeek32(0) = IF server.admits THEN 0 ELSE 1
      BY <3>1, NumberPeeked DEF ResultComes
    <3>3. server.admits
      BY <1>4, <3>2
    <3>4. Unread(4) /\ phase = "init" /\ Upwards = <<>>
      BY <3>1, <3>3, ResultLength DEF ResultComes, AfterResult
    <3>5. Unread(0)'
      BY <1>0, <1>4, <3>1, <3>4, ReadAll
    <3> QED BY <1>0, <2>1, <3>3, <3>4, <3>5 DEF InitStage, Admitted
  <2> QED BY <1>0, <2>1, <2>2 DEF HandshakeInv, Stage
<1> QED BY <1>1, <1>3, <1>4 DEF InitSecurityResult

\* ClientInitialisation: sent behind the scheme, or when the verdict is read.
LEMMA InitSent ==
  ASSUME HandshakeInv, InitClientInitialisation
  PROVE  HandshakeInv'
<1>0. /\ UNCHANGED <<server, phase, net, torn, rfb_auth_scheme, recvVars>>
      /\ rfb_state = "ClientInitialisation" /\ rfb_state' = "ServerInitialisation"
      /\ pc' = "ret" /\ send(<<"init">>) /\ server \in Handshakes
      /\ torn = {} => InitStage
  BY DEF InitClientInitialisation, quiet, world, HandshakeInv, Stage, Goto, Leave
<1>1. /\ wire' \in Seq(Messages) /\ sQ' \in Seq(Messages)
      /\ Upwards' = Upwards \o <<"init">>
  BY <1>0, Sends DEF Messages
<1>2. ASSUME torn = {} PROVE ReadyStage'
  <2>1. Unread(0)'
    BY <1>0, <1>2 DEF InitStage, Unread, rQlen, recvVars
  <2>2. CASE phase = "init" /\ Upwards = <<>>
    <3>1. Upwards' = <<"init">>
      BY <1>0, <2>2, SendsFirst DEF Messages
    <3> QED BY <1>0, <1>2, <2>1, <2>2, <3>1 DEF InitStage, ReadyStage, Admitted
  <2>3. CASE server.version < 8 /\ phase = "choice" /\ Upwards = <<"scheme1">>
    <3>1. <<"scheme1">> \o <<"init">> = <<"scheme1", "init">>
      <4> DEFINE s == <<"scheme1">>
                 u == <<"init">>
                 v == <<"scheme1", "init">>
      <4>1. /\ s \in Seq(Messages) /\ u \in Seq(Messages) /\ v \in Seq(Messages)
            /\ Len(s) = 1 /\ Len(u) = 1 /\ Len(v) = 2
            /\ s[1] = v[1] /\ u[1] = v[2]
        BY DEF Messages
      <4> HIDE DEF s, u, v
      <4>2. /\ s \o u \in Seq(Messages) /\ Len(s \o u) = 2
            /\ \A i \in 1..2 : (s \o u)[i] = v[i]
        BY ONLY <4>1, ConcatProperties
      <4> QED BY <4>1, <4>2, SeqEqual DEF s, u, v
    <3>2. Upwards' = <<"scheme1", "init">>
      BY ONLY <1>1, <2>3, <3>1
    <3> QED BY <1>0, <1>2, <2>1, <2>3, <3>2 DEF InitStage, ReadyStage, Admitted
  <2> QED BY <1>0, <1>2, <2>2, <2>3 DEF InitStage
<1> QED BY <1>0, <1>1, <1>2 DEF HandshakeInv, Stage

\* ServerInitialisation: the client is connected, and asks for an update.
LEMMA ServerInitRead ==
  ASSUME HandshakeInv, InitServerInitialisation
  PROVE  HandshakeInv'
<1>0. /\ UNCHANGED <<server, phase, net, torn>> /\ rfb_state = "ServerInitialisation"
      /\ wire \in Seq(Messages) /\ sQ \in Seq(Messages) /\ server \in Handshakes
      /\ torn = {} => ReadyStage
  BY DEF InitServerInitialisation, quiet, world, HandshakeInv, Stage
<1>1. CASE Wait(0)
  BY <1>0, <1>1, Waited, ClientReads DEF Wait, Leave
<1>2. CASE ~rQwait(24) /\ send(<<"setup">>) /\ Goto("normal") /\ Leave(FALSE)
  <2>1. rfb_state' = "normal" /\ pc' = "ret" /\ rfb_auth_scheme' = rfb_auth_scheme
    BY <1>2 DEF Goto, Leave
  <2>2. wire' \in Seq(Messages) /\ sQ' \in Seq(Messages)
    BY <1>2, Sends DEF Messages
  <2>3. ASSUME torn = {} PROVE Admitted' /\ Talk'
    <3>1. ~Unread(0)
      BY <1>2, AllThereIs DEF rQwait, NaN
    <3>2. phase = "ready" /\ Upwards = <<>> /\ Admitted
      BY <1>0, <2>3, <3>1 DEF ReadyStage
    <3>3. Upwards' = <<"setup">>
      BY <1>2, <3>2, SendsFirst DEF Messages
    <3>4. phase' = "ready" /\ server' = server
      BY <1>0, <3>2
    <3>5. Upwards' # <<>> /\ Head(Upwards') = "setup" /\ DOMAIN Upwards' = {1}
      BY <3>3
    <3> QED BY <2>1, <3>2, <3>4, <3>5 DEF Talk, Admitted
  <2> QED BY <1>0, <2>1, <2>2, <2>3 DEF HandshakeInv, Stage
<1> QED BY <1>1, <1>2 DEF InitServerInitialisation

\* Nothing of the handshake is due.
LEMMA NothingToRead ==
  ASSUME HandshakeInv, InitNothing
  PROVE  HandshakeInv'
<1>1. BytesStay
  BY NothingRead DEF InitNothing, quiet, world
<1> QED BY <1>1, ClientReads DEF InitNothing, quiet, world, Leave

\* The user's password.
LEMMA PasswordGiven ==
  ASSUME HandshakeInv, sendPassword
  PROVE  HandshakeInv'
<1>1. /\ UNCHANGED <<rQ, rQi, net, wire, sQ, server, phase, rfb_auth_scheme, torn, pc>>
      /\ rfb_state = "password" /\ rfb_state' = "Authentication" /\ pc = "idle"
  BY DEF sendPassword, world, control, recvVars, sendVars
<1>2. torn = {} => SchemePassword
  BY <1>1 DEF HandshakeInv, Stage
<1> QED BY <1>1, <1>2, SchemesStay DEF HandshakeInv, Stage

\* Once connected, the client sends nothing but requests, or fails.
LEMMA Connected ==
  ASSUME HandshakeInv, normal_msg \/ framebufferUpdate \/ encHandlers
  PROVE  HandshakeInv'
<1>1. /\ rfb_state = "normal" /\ rfb_state' \in {"normal", "failed"}
      /\ pc' \in {"msg", "fbu", "rect"} => rfb_state' = "normal"
      /\ UNCHANGED <<server, phase, rfb_auth_scheme>>
      /\ torn' = {} => torn = {}
      /\ UNCHANGED sendVars \/ send(<<"request">>)
  <2>1. CASE normal_msg
    BY <2>1 DEF normal_msg, HandshakeInv, session, calm, world, Leave, Stay
  <2>2. CASE framebufferUpdate
    BY <2>2 DEF framebufferUpdate, HandshakeInv, session, calm, world, Leave, Stay
  <2>3. CASE encHandlers
    BY <2>3 DEF encHandlers, HandshakeInv, session, world
  <2> QED BY <2>1, <2>2, <2>3
<1>2. ASSUME torn = {} PROVE Admitted' /\ Talk'
  <2>1. Admitted /\ Talk
    BY <1>1, <1>2 DEF HandshakeInv, Stage
  <2>2. CASE UNCHANGED sendVars
    BY <1>1, <2>1, <2>2 DEF Admitted, Talk, Asks, Upwards, sendVars
  <2>3. CASE send(<<"request">>)
    <3>1. Upwards \in Seq(Messages)
      BY ConcatProperties DEF HandshakeInv, Upwards
    <3>2. Upwards' = Upwards \o <<"request">>
      BY <2>3, Sends DEF Messages
    <3> DEFINE u == Upwards
               w == u \o <<"request">>
    <3>3. /\ w \in Seq(Messages) /\ Len(w) = Len(u) + 1
          /\ \A i \in 1..(Len(u) + 1) : w[i] = IF i <= Len(u) THEN u[i] ELSE "request"
      <4>1. Append(u, "request") = w
        BY <3>1, AppendIsConcat DEF Messages
      <4> QED BY <3>1, <4>1, AppendProperties DEF Messages
    <3>4. w # <<>> /\ (u # <<>> => Head(w) = Head(u))
      BY <3>1, <3>3
    <3>5. u \in Seq(Messages) /\ Upwards = u /\ Upwards' = w
      BY <3>1, <3>2
    <3> HIDE DEF u, w
    <3>6. CASE /\ phase = "ready" /\ u # <<>> /\ Head(u) = "setup"
               /\ \A i \in DOMAIN u : i > 1 => u[i] = "request"
      <4>1. phase' = "ready" /\ w # <<>> /\ Head(w) = "setup"
        BY <1>1, <3>4, <3>6
      <4>2. \A i \in DOMAIN w : i > 1 => w[i] = "request"
        BY <3>3, <3>5, <3>6
      <4> QED BY <1>1, <2>1, <3>5, <4>1, <4>2 DEF Talk, Admitted
    <3>7. CASE phase \in {"owes", "normal"} /\ \A i \in DOMAIN u : u[i] = "request"
      <4>1. \A i \in DOMAIN w : w[i] = "request"
        BY <3>3, <3>5, <3>7
      <4> QED BY <1>1, <2>1, <3>5, <3>7, <4>1 DEF Talk, Asks, Admitted
    <3> QED BY <2>1, <3>5, <3>6, <3>7 DEF Talk, Asks
  <2> QED BY <1>1, <2>2, <2>3
<1>3. wire' \in Seq(Messages) /\ sQ' \in Seq(Messages)
  BY <1>1, Sends DEF HandshakeInv, sendVars, Messages
<1> QED BY <1>1, <1>2, <1>3 DEF HandshakeInv, Stage

-----------------------------------------------------------------------------
(* The server. *)

\* What a server does not change.
LEMMA ServerOnly ==
  ASSUME NEW to, NEW bytes, Serve(to, bytes)
  PROVE  /\ UNCHANGED <<recvVars, sQ, rfb_state, rfb_auth_scheme, pc, server, torn>>
         /\ phase' = to /\ net' = net \o bytes
BY DEF Serve, client, control

\* A byte, and what follows it.
LEMMA ByteFirst ==
  ASSUME NEW k \in Nat, NEW rest \in Seq(Int)
  PROVE  /\ <<k>> \o rest \in Seq(Int)
         /\ Len(<<k>> \o rest) = 1 + Len(rest)
         /\ (<<k>> \o rest)[1] = k
<1> DEFINE s == <<k>>
<1>1. s \in Seq(Int) /\ Len(s) = 1 /\ s[1] = k /\ Len(rest) \in Nat
  OBVIOUS
<1> HIDE DEF s
<1>2. /\ s \o rest \in Seq(Int) /\ Len(s \o rest) = Len(s) + Len(rest)
      /\ \A i \in 1..(Len(s) + Len(rest)) :
           (s \o rest)[i] = IF i <= Len(s) THEN s[i] ELSE rest[i - Len(s)]
  BY <1>1, ConcatProperties
<1>3. (s \o rest)[1] = s[1]
  <2>1. 1 \in 1..(Len(s) + Len(rest)) /\ 1 <= Len(s)
    BY ONLY <1>1
  <2> QED BY ONLY <2>1, <1>2
<1> QED BY ONLY <1>1, <1>2, <1>3 DEF s

\* The server sends when all that it sent has been read.
LEMMA Serves ==
  ASSUME Unread(0), NEW to, NEW bytes \in Seq(Int), NEW n, Len(bytes) = n, Serve(to, bytes)
  PROVE  Unread(n)' /\ \A i \in 1..n : NextByte(i)' = bytes[i]
<1>1. net' = net \o bytes /\ UNCHANGED recvVars /\ n \in Nat
  BY ServerOnly
<1> QED BY <1>1, Served

\* A byte first.
LEMMA ByteServed ==
  ASSUME Unread(0), NEW to, NEW k \in Nat, NEW rest \in Seq(Int), NEW m \in Nat, Len(rest) = m,
         Serve(to, <<k>> \o rest)
  PROVE  Unread(1 + m)' /\ NextByte(1)' = k
<1>1. PICK bytes : bytes = <<k>> \o rest
  OBVIOUS
<1>2. bytes \in Seq(Int) /\ Len(bytes) = 1 + m /\ bytes[1] = k /\ Serve(to, bytes)
  BY ONLY <1>1, ByteFirst, k \in Nat, rest \in Seq(Int), Len(rest) = m, Serve(to, <<k>> \o rest)
<1>3. Unread(1 + m)' /\ \A i \in 1..(1 + m) : NextByte(i)' = bytes[i]
  BY ONLY <1>2, Serves, Unread(0)
<1>4. 1 \in 1..(1 + m)
  OBVIOUS
<1> QED BY ONLY <1>2, <1>3, <1>4

\* A number first.
LEMMA NumberServed ==
  ASSUME Unread(0), NEW to, NEW k \in Nat, NEW rest \in Seq(Int), NEW m \in Nat, Len(rest) = m,
         Serve(to, <<0, 0, 0, k>> \o rest)
  PROVE  Unread(4 + m)' /\ NextNumber(k)'
<1>1. PICK bytes : bytes = <<0, 0, 0, k>> \o rest
  OBVIOUS
<1>2. /\ bytes \in Seq(Int) /\ Len(bytes) = 4 + m /\ Serve(to, bytes)
      /\ bytes[1] = 0 /\ bytes[2] = 0 /\ bytes[3] = 0 /\ bytes[4] = k
  BY ONLY <1>1, NumberFirst, k \in Nat, rest \in Seq(Int), Len(rest) = m,
          Serve(to, <<0, 0, 0, k>> \o rest)
<1>3. Unread(4 + m)' /\ \A i \in 1..(4 + m) : NextByte(i)' = bytes[i]
  BY ONLY <1>2, Serves, Unread(0)
<1>4. \A i \in 1..4 : i \in 1..(4 + m)
  OBVIOUS
<1>5. NextByte(1)' = 0 /\ NextByte(2)' = 0 /\ NextByte(3)' = 0 /\ NextByte(4)' = k
  BY ONLY <1>2, <1>3, <1>4
<1> QED BY ONLY <1>3, <1>5 DEF NextNumber

\* A number and nothing else.
LEMMA NumberAlone ==
  ASSUME Unread(0), NEW to, NEW k \in Nat, Serve(to, <<0, 0, 0, k>>)
  PROVE  Unread(4)' /\ NextNumber(k)'
<1>1. PICK s : s = <<0, 0, 0, k>>
  OBVIOUS
<1>2. s \in Seq(Int) /\ <<>> \in Seq(Int) /\ Len(<<>>) = 0
  BY <1>1
<1>3. s \o <<>> = s
  BY ONLY <1>2, ConcatEmptySeq
<1>4. Serve(to, <<0, 0, 0, k>> \o <<>>)
  BY ONLY <1>1, <1>3, Serve(to, <<0, 0, 0, k>>)
<1>5. Unread(4 + 0)' /\ NextNumber(k)'
  <2>1. 0 \in Nat
    OBVIOUS
  <2> QED BY ONLY <1>2, <1>4, <2>1, NumberServed, Unread(0), k \in Nat
<1> QED BY <1>5

\* Nothing.
LEMMA NothingServed ==
  ASSUME Unread(0), NEW to, Serve(to, <<>>)
  PROVE  Unread(0)'
<1>1. <<>> \in Seq(Int) /\ Len(<<>>) = 0
  OBVIOUS
<1> QED BY ONLY <1>1, Serves, Unread(0), Serve(to, <<>>)

\* A version.
LEMMA VersionServed ==
  ASSUME Unread(0), NEW to, NEW v \in Nat, Serve(to, VersionBytes(v))
  PROVE  Unread(12)' /\ NextByte(1)' = v
<1>1. Pads(11) \in Seq(Int) /\ Len(Pads(11)) = 11
  BY Padding
<1>2. Serve(to, <<v>> \o Pads(11))
  BY DEF VersionBytes
<1>3. Unread(1 + 11)' /\ NextByte(1)' = v
  <2>1. 11 \in Nat
    OBVIOUS
  <2> QED BY ONLY <1>1, <1>2, <2>1, ByteServed, Unread(0), v \in Nat
<1> QED BY <1>3

\* The result.
LEMMA ResultServed ==
  ASSUME HandshakeInv, Unread(0), Serve(AfterResult, Result), Upwards' = <<>>
  PROVE  ResultComes'
<1>1. PICK bytes : bytes = Result
  OBVIOUS
<1>2. PICK k : k = IF server.admits THEN 0 ELSE 1
  OBVIOUS
<1>3. PICK n : n = Len(Result)
  OBVIOUS
<1>4. /\ bytes \in Seq(Int) /\ Len(bytes) = n /\ n \in Nat /\ n >= 4
      /\ bytes[1] = 0 /\ bytes[2] = 0 /\ bytes[3] = 0 /\ bytes[4] = k
  BY <1>1, <1>2, <1>3, ResultLength
<1>5. Serve(AfterResult, bytes)
  BY <1>1
<1>6. Unread(n)' /\ \A i \in 1..n : NextByte(i)' = bytes[i]
  BY ONLY <1>4, <1>5, Serves, Unread(0)
<1>7. 1 \in 1..n /\ 2 \in 1..n /\ 3 \in 1..n /\ 4 \in 1..n
  BY ONLY <1>4
<1>8. NextNumber(k)'
  BY ONLY <1>4, <1>6, <1>7 DEF NextNumber
<1>9. server' = server /\ phase' = AfterResult
  BY ServerOnly
<1>10. n = Len(Result)' /\ phase' = AfterResult' /\ k = (IF server.admits THEN 0 ELSE 1)'
  BY <1>2, <1>3, <1>9 DEF Result, AfterResult, Reason, Pads, Pad
<1>11. NextNumber(IF server.admits THEN 0 ELSE 1)'
  BY <1>8, <1>10 DEF NextNumber
<1>12. Unread(Len(Result))'
  BY <1>6, <1>10 DEF Unread
<1> QED BY <1>10, <1>11, <1>12 DEF ResultComes

\* The stage when the server takes a message, by what it is.
LEMMA StageOfServer ==
  ASSUME HandshakeInv, Stage, Upwards \in Seq(Messages)
  PROVE  /\ \/ phase \in {"repeater", "greeted", "choice", "response", "init", "ready",
                          "owes", "normal", "refused", "version"}
            \/ Upwards = <<>> /\ rfb_state = "failed"
         /\ Upwards # <<>> /\ phase = "repeater" =>
              rfb_state = "ProtocolVersion" /\ Upwards = <<"repeater">> /\ Unread(0)
         /\ Upwards # <<>> /\ phase = "greeted" =>
              rfb_state = "Security" /\ Upwards = <<"version">> /\ Unread(0)
         /\ Upwards # <<>> /\ phase = "choice" =>
              /\ Unread(0)
              /\ \/ /\ Upwards = <<"scheme1">> /\ rfb_auth_scheme = 1
                    /\ \/ rfb_state = "Authentication"
                       \/ server.version >= 8 /\ rfb_state = "SecurityResult"
                 \/ /\ Upwards = <<"scheme2">> /\ rfb_auth_scheme = 2
                    /\ rfb_state \in {"Authentication", "password"}
                 \/ /\ server.version < 8 /\ Admitted
                    /\ \/ Upwards = <<"scheme1">> /\ rfb_state = "ClientInitialisation"
                       \/ Upwards = <<"scheme1", "init">> /\ rfb_state = "ServerInitialisation"
         /\ Upwards # <<>> /\ phase = "response" =>
              /\ rfb_state = "SecurityResult" /\ rfb_auth_scheme = 2
              /\ Upwards = <<"response">> /\ Unread(0)
         /\ Upwards # <<>> /\ phase = "init" =>
              rfb_state = "ServerInitialisation" /\ Admitted /\ Upwards = <<"init">>
         /\ Upwards # <<>> /\ phase = "ready" =>
              /\ rfb_state \in {"normal", "failed"} /\ Talk
              /\ rfb_state = "normal" => Admitted
         /\ phase \in {"owes", "normal"} =>
              /\ rfb_state \in {"normal", "failed"}
              /\ rfb_state = "normal" => Talk /\ Admitted
              /\ Upwards # <<>> => Talk
         /\ phase = "refused" => Upwards = <<>>
         /\ phase = "version" =>
              /\ Upwards = <<>>
              /\ \/ rfb_state = "ProtocolVersion" /\ Unread(0)
                 \/ rfb_state = "failed"
         /\ phase = "ready" /\ Upwards = <<>> =>
              \/ rfb_state = "ServerInitialisation" /\ Admitted
              \/ rfb_state = "failed"
<1>1. CASE rfb_state = "ProtocolVersion"
  BY <1>1 DEF Stage, VersionStage
<1>2. CASE rfb_state = "Security"
  BY <1>2 DEF Stage, SecurityStage
<1>3. CASE rfb_state = "Authentication"
  BY <1>3 DEF Stage, NoScheme, SchemeNone, SchemePassword, ResultComes, AfterResult
<1>4. CASE rfb_state = "password"
  BY <1>4 DEF Stage, SchemePassword
<1>5. CASE rfb_state = "SecurityResult"
  BY <1>5 DEF Stage, ResultStage, SchemeNone, ResultComes, AfterResult
<1>6. CASE rfb_state = "ClientInitialisation"
  BY <1>6 DEF Stage, InitStage
<1>7. CASE rfb_state = "ServerInitialisation"
  BY <1>7 DEF Stage, ReadyStage
<1>8. CASE rfb_state = "normal"
  BY <1>8 DEF Stage, Talk
<1>9. CASE rfb_state = "failed"
  BY <1>9 DEF Stage, Talk
<1> QED BY <1>1, <1>2, <1>3, <1>4, <1>5, <1>6, <1>7, <1>8, <1>9 DEF Stage

\* The server greets the client, or the repeater before it does.
LEMMA VersionSent ==
  ASSUME HandshakeInv, ServerVersion
  PROVE  HandshakeInv'
<1>0. PICK v \in Nat, to \in {"repeater", "greeted"} :
        /\ Serve(to, VersionBytes(v)) /\ phase = "version" /\ wire' = wire
        /\ (v = 0 /\ to = "repeater") \/ (v # 0 /\ to = "greeted")
  <2>1. CASE server.repeater
    <3>1. Serve("repeater", VersionBytes(0)) /\ phase = "version" /\ wire' = wire
      BY <2>1 DEF ServerVersion
    <3> QED BY <3>1
  <2>2. CASE ~server.repeater
    BY <2>2, ServerFields DEF ServerVersion
  <2> QED BY <2>1, <2>2
<1>2. UNCHANGED <<sQ, rfb_state, rfb_auth_scheme, pc, server, torn>> /\ phase' = to
  BY <1>0, ServerOnly
<1>3. Upwards' = Upwards
  BY <1>0, <1>2 DEF Upwards
<1>4. ASSUME torn = {} PROVE Stage'
  <2>1. /\ Upwards = <<>>
        /\ (rfb_state = "ProtocolVersion" /\ Unread(0)) \/ rfb_state = "failed"
    <3>1. Stage /\ Upwards \in Seq(Messages)
      BY <1>4, ConcatProperties DEF HandshakeInv, Upwards
    <3> QED BY <1>0, <3>1, StageOfServer
  <2>2. CASE rfb_state = "ProtocolVersion" /\ Unread(0)
    <3>1. Unread(12)' /\ NextByte(1)' = v
      BY ONLY <1>0, <2>2, VersionServed
    <3> QED BY <1>0, <1>2, <1>3, <2>1, <2>2, <3>1 DEF Stage, VersionStage
  <2>3. CASE rfb_state = "failed"
    BY <1>2, <1>3, <2>1, <2>3 DEF Stage
  <2> QED BY <2>1, <2>2, <2>3
<1> QED BY <1>0, <1>2, <1>4 DEF HandshakeInv

\* The server takes a message: what is under way now, and where the client is.
LEMMA ServerTakes ==
  ASSUME HandshakeInv, NEW token, Takes(token), NEW to, NEW bytes, Serve(to, bytes),
         torn = {} => Stage'
  PROVE  HandshakeInv'
<1>1. UNCHANGED <<sQ, rfb_state, rfb_auth_scheme, pc, server, torn>> /\ phase' = to
  BY ServerOnly
<1>2. wire' \in Seq(Messages) /\ sQ' \in Seq(Messages)
  BY <1>1, Taken
<1> QED BY <1>1, <1>2 DEF HandshakeInv

\* The server behind the repeater greets the client.
LEMMA VersionRepeated ==
  ASSUME HandshakeInv, ServerRepeats
  PROVE  HandshakeInv'
<1> DEFINE v == server.version
<1>0. /\ Serve("greeted", VersionBytes(v)) /\ v \in Nat /\ v # 0 /\ phase = "repeater"
      /\ Takes("repeater")
  BY ServerFields DEF ServerRepeats
<1>1. PICK u \in Nat : Serve("greeted", VersionBytes(u)) /\ u # 0
  BY <1>0
<1> HIDE DEF v
<1>2. UNCHANGED <<sQ, rfb_state, rfb_auth_scheme, pc, server, torn>> /\ phase' = "greeted"
  BY <1>0, ServerOnly
<1>3. Upwards \in Seq(Messages) /\ Upwards # <<>> /\ Upwards' = Tail(Upwards)
  BY <1>0, <1>2, Taken
<1>4. ASSUME torn = {} PROVE Stage'
  <2>1. Stage
    BY <1>4 DEF HandshakeInv
  <2>2. rfb_state = "ProtocolVersion" /\ Upwards = <<"repeater">> /\ Unread(0)
    BY <1>0, <1>3, <2>1, StageOfServer
  <2>3. Unread(12)' /\ NextByte(1)' = u
    BY ONLY <1>1, <2>2, VersionServed
  <2>4. Upwards' = <<>>
    BY ONLY <1>3, <2>2
  <2> QED BY <1>1, <1>2, <2>2, <2>3, <2>4 DEF Stage, VersionStage
<1> QED BY <1>0, <1>4, ServerTakes

\* The server offers its schemes, or refuses.
LEMMA SecuritySent ==
  ASSUME HandshakeInv, ServerSecurity
  PROVE  HandshakeInv'
<1>0. PICK to, bytes :
        /\ phase = "greeted" /\ Takes("version") /\ Serve(to, bytes)
        /\ \/ /\ server.version >= 7 /\ server.types = <<>>
              /\ to = "refused" /\ bytes = <<0>> \o Reason
           \/ /\ server.version >= 7 /\ server.types # <<>>
              /\ to = "choice" /\ bytes = <<Len(server.types)>> \o server.types
           \/ server.version < 7 /\ to = "refused" /\ bytes = <<0, 0, 0, 0>> \o Reason
           \/ server.version < 7 /\ to = "init" /\ bytes = <<0, 0, 0, 1>>
           \/ server.version < 7 /\ to = "response" /\ bytes = <<0, 0, 0, 2>> \o Pads(16)
           \/ server.version < 7 /\ to = "refused" /\ bytes = <<0, 0, 0, 16>>
  <2>1. CASE server.version >= 7 /\ server.types = <<>>
    BY <2>1 DEF ServerSecurity
  <2>2. CASE server.version >= 7 /\ server.types # <<>>
    BY <2>2 DEF ServerSecurity
  <2>3. CASE ~(server.version >= 7)
    <3>1. server.version < 7
      BY <2>3, ServerFields
    <3>2. CASE server.types = <<>>
      BY <2>3, <3>1, <3>2 DEF ServerSecurity
    <3>3. CASE server.types = <<1>>
      <4>1. ~(server.types = <<>>) /\ ~(server.types = <<2>>)
        BY <3>3
      <4> QED BY <2>3, <3>1, <3>3, <4>1 DEF ServerSecurity
    <3>4. CASE server.types = <<2>>
      <4>1. ~(server.types = <<>>) /\ ~(server.types = <<1>>)
        BY <3>4
      <4> QED BY <2>3, <3>1, <3>4, <4>1 DEF ServerSecurity
    <3>5. CASE server.types \notin {<<>>, <<1>>, <<2>>}
      BY <2>3, <3>1, <3>5 DEF ServerSecurity
    <3> QED BY <3>2, <3>3, <3>4, <3>5
  <2> QED BY <2>1, <2>2, <2>3
<1>1. UNCHANGED <<sQ, rfb_state, rfb_auth_scheme, pc, server, torn>> /\ phase' = to
  BY <1>0, ServerOnly
<1>2. Upwards \in Seq(Messages) /\ Upwards # <<>> /\ Upwards' = Tail(Upwards)
  BY <1>0, <1>1, Taken
<1>3. ASSUME torn = {} PROVE Stage'
  <2>1. Stage
    BY <1>3 DEF HandshakeInv
  <2>2. rfb_state = "Security" /\ Upwards = <<"version">> /\ Unread(0)
    BY <1>0, <1>2, <2>1, StageOfServer
  <2>3. Upwards' = <<>>
    BY ONLY <1>2, <2>2
  <2>4. PICK types \in Seq(Nat) : types = server.types
    BY ServerFields
  <2>5. Len(types) \in Nat /\ types \in Seq(Int)
    OBVIOUS
  <2>6. \A i \in {0, 1, 2, 6, 16} : i \in Nat
    OBVIOUS
  <2>7. CASE /\ server.version >= 7 /\ server.types = <<>>
             /\ to = "refused" /\ bytes = <<0>> \o Reason
    <3>1. Serve(to, <<0>> \o Reason)
      BY <1>0, <2>7
    <3>2. Unread(1 + 6)' /\ NextByte(1)' = 0
      BY ONLY <2>2, <2>6, <3>1, ByteServed, ReasonLength
    <3>3. Unread(7)'
      BY <3>2
    <3> QED BY <1>1, <2>2, <2>3, <2>7, <3>2, <3>3 DEF Stage, SecurityStage
  <2>8. CASE /\ server.version >= 7 /\ server.types # <<>>
             /\ to = "choice" /\ bytes = <<Len(server.types)>> \o server.types
    <3>1. Serve(to, <<Len(types)>> \o types)
      BY <1>0, <2>4, <2>8
    <3>2. Unread(1 + Len(types))' /\ NextByte(1)' = Len(types)
      BY ONLY <2>2, <2>5, <3>1, ByteServed
    <3>3. types = server.types'
      BY <1>1, <2>4
    <3>4. Unread(1 + Len(server.types))' /\ (NextByte(1) = Len(server.types))'
      BY <3>2, <3>3 DEF Unread
    <3>5. (phase = "choice" /\ server.types # <<>> /\ server.version >= 7)'
      BY <1>1, <2>8
    <3> QED BY <1>1, <2>2, <2>3, <3>4, <3>5 DEF Stage, SecurityStage
  <2>9. CASE server.version < 7 /\ to = "refused" /\ bytes = <<0, 0, 0, 0>> \o Reason
    <3>1. Serve(to, <<0, 0, 0, 0>> \o Reason)
      BY <1>0, <2>9
    <3>2. Unread(4 + 6)' /\ NextNumber(0)'
      BY ONLY <2>2, <2>6, <3>1, NumberServed, ReasonLength
    <3>3. Unread(10)'
      BY <3>2
    <3> QED BY <1>1, <2>2, <2>3, <2>9, <3>2, <3>3 DEF Stage, SecurityStage
  <2>10. CASE server.version < 7 /\ to = "init" /\ bytes = <<0, 0, 0, 1>>
    <3>1. Serve(to, <<0, 0, 0, 1>>)
      BY <1>0, <2>10
    <3>2. Unread(4)' /\ NextNumber(1)'
      BY ONLY <2>2, <2>6, <3>1, NumberAlone
    <3> QED BY <1>1, <2>2, <2>3, <2>10, <3>2 DEF Stage, SecurityStage
  <2>11. CASE server.version < 7 /\ to = "response" /\ bytes = <<0, 0, 0, 2>> \o Pads(16)
    <3>1. Serve(to, <<0, 0, 0, 2>> \o Pads(16))
      BY <1>0, <2>11
    <3>2. Pads(16) \in Seq(Int) /\ Len(Pads(16)) = 16
      BY Padding
    <3>3. Unread(4 + 16)' /\ NextNumber(2)'
      BY ONLY <2>2, <2>6, <3>1, <3>2, NumberServed
    <3>4. Unread(20)'
      BY <3>3
    <3> QED BY <1>1, <2>2, <2>3, <2>11, <3>3, <3>4 DEF Stage, SecurityStage
  <2>12. CASE server.version < 7 /\ to = "refused" /\ bytes = <<0, 0, 0, 16>>
    <3>1. Serve(to, <<0, 0, 0, 16>>)
      BY <1>0, <2>12
    <3>2. Unread(4)' /\ NextNumber(16)'
      BY ONLY <2>2, <2>6, <3>1, NumberAlone
    <3> QED BY <1>1, <2>2, <2>3, <2>12, <3>2 DEF Stage, SecurityStage
  <2> QED BY <1>0, <2>7, <2>8, <2>9, <2>10, <2>11, <2>12
<1> QED BY <1>0, <1>3, ServerTakes

\* The server takes the scheme that the client chose.
LEMMA SchemeTaken ==
  ASSUME HandshakeInv, ServerChosen
  PROVE  HandshakeInv'
<1>0. PICK token, to, bytes :
        /\ phase = "choice" /\ Takes(token) /\ Serve(to, bytes)
        /\ \/ /\ token = "scheme1" /\ server.version >= 8
              /\ to = AfterResult /\ bytes = Result
           \/ /\ token = "scheme1" /\ ~(server.version >= 8)
              /\ to = "init" /\ bytes = <<>>
           \/ token = "scheme2" /\ to = "response" /\ bytes = Pads(16)
  BY DEF ServerChosen
<1>1. UNCHANGED <<sQ, rfb_state, rfb_auth_scheme, pc, server, torn>> /\ phase' = to
  BY <1>0, ServerOnly
<1>2. /\ Upwards \in Seq(Messages) /\ Upwards # <<>> /\ Upwards' = Tail(Upwards)
      /\ Head(Upwards) = token
  BY <1>0, <1>1, Taken
<1>3. ASSUME torn = {} PROVE Stage'
  <2>1. Stage
    BY <1>3 DEF HandshakeInv
  <2>2. /\ Unread(0)
        /\ \/ /\ Upwards = <<"scheme1">> /\ rfb_auth_scheme = 1
              /\ \/ rfb_state = "Authentication"
                 \/ server.version >= 8 /\ rfb_state = "SecurityResult"
           \/ /\ Upwards = <<"scheme2">> /\ rfb_auth_scheme = 2
              /\ rfb_state \in {"Authentication", "password"}
           \/ /\ server.version < 8 /\ Admitted
              /\ \/ Upwards = <<"scheme1">> /\ rfb_state = "ClientInitialisation"
                 \/ Upwards = <<"scheme1", "init">> /\ rfb_state = "ServerInitialisation"
    BY <1>0, <1>2, <2>1, StageOfServer
  <2>3. server.version \in Nat
    BY ServerFields
  <2>4. CASE token = "scheme1" /\ server.version >= 8 /\ to = AfterResult /\ bytes = Result
    <3>1. /\ Upwards = <<"scheme1">> /\ rfb_auth_scheme = 1
          /\ rfb_state \in {"Authentication", "SecurityResult"}
      BY <1>2, <2>2, <2>3, <2>4
    <3>2. Upwards' = <<>>
      BY ONLY <1>2, <3>1
    <3>3. ResultComes'
      BY <1>0, <2>2, <2>4, <3>2, ResultServed
    <3>4. SchemeNone' /\ ResultStage'
      BY <1>1, <2>4, <3>1, <3>3 DEF SchemeNone, ResultStage
    <3> QED BY <1>1, <3>1, <3>4 DEF Stage
  <2>5. CASE token = "scheme1" /\ ~(server.version >= 8) /\ to = "init" /\ bytes = <<>>
    <3>1. Unread(0)'
      <4>1. Serve(to, <<>>)
        BY <1>0, <2>5
      <4> QED BY ONLY <2>2, <4>1, NothingServed
    <3>2. server.version < 8
      BY <2>3, <2>5
    <3>3. CASE Upwards = <<"scheme1">> /\ rfb_auth_scheme = 1 /\ rfb_state = "Authentication"
      <4>1. Upwards' = <<>>
        BY ONLY <1>2, <3>3
      <4> QED BY <1>1, <2>5, <3>1, <3>2, <3>3, <4>1 DEF Stage, SchemeNone
    <3>4. CASE Admitted /\ Upwards = <<"scheme1">> /\ rfb_state = "ClientInitialisation"
      <4>1. Upwards' = <<>>
        BY ONLY <1>2, <3>4
      <4> QED BY <1>1, <2>5, <3>1, <3>2, <3>4, <4>1 DEF Stage, InitStage, Admitted
    <3>5. CASE Admitted /\ Upwards = <<"scheme1", "init">> /\ rfb_state = "ServerInitialisation"
      <4>1. Upwards' = <<"init">>
        BY ONLY <1>2, <3>5
      <4> QED BY <1>1, <2>5, <3>1, <3>2, <3>5, <4>1 DEF Stage, ReadyStage, Admitted
    <3> QED BY <1>2, <2>2, <2>5, <3>3, <3>4, <3>5
  <2>6. CASE token = "scheme2" /\ to = "response" /\ bytes = Pads(16)
    <3>1. /\ Upwards = <<"scheme2">> /\ rfb_auth_scheme = 2
          /\ rfb_state \in {"Authentication", "password"}
      BY <1>2, <2>2, <2>6
    <3>2. Upwards' = <<>>
      BY ONLY <1>2, <3>1
    <3>3. Unread(16)'
      <4>1. bytes \in Seq(Int) /\ Len(bytes) = 16
        BY <2>6, Padding
      <4> QED BY ONLY <1>0, <2>2, <4>1, Serves
    <3> QED BY <1>1, <2>6, <3>1, <3>2, <3>3 DEF Stage, SchemePassword
  <2> QED BY <1>0, <2>4, <2>5, <2>6
<1> QED BY <1>0, <1>3, ServerTakes

\* The server takes the response to its challenge.
LEMMA ResponseTaken ==
  ASSUME HandshakeInv, ServerResult
  PROVE  HandshakeInv'
<1>0. phase = "response" /\ Takes("response") /\ Serve(AfterResult, Result)
  BY DEF ServerResult
<1>1. UNCHANGED <<sQ, rfb_state, rfb_auth_scheme, pc, server, torn>>
  BY <1>0, ServerOnly
<1>2. Upwards \in Seq(Messages) /\ Upwards # <<>> /\ Upwards' = Tail(Upwards)
  BY <1>0, <1>1, Taken
<1>3. ASSUME torn = {} PROVE Stage'
  <2>1. Stage
    BY <1>3 DEF HandshakeInv
  <2>2. /\ rfb_state = "SecurityResult" /\ rfb_auth_scheme = 2
        /\ Upwards = <<"response">> /\ Unread(0)
    BY <1>0, <1>2, <2>1, StageOfServer
  <2>3. Upwards' = <<>>
    BY ONLY <1>2, <2>2
  <2>4. ResultComes'
    BY <1>0, <2>2, <2>3, ResultServed
  <2> QED BY <1>1, <2>2, <2>4 DEF Stage, ResultStage
<1> QED BY <1>0, <1>3, ServerTakes

\* The server takes ClientInitialisation and tells its size.
LEMMA InitTaken ==
  ASSUME HandshakeInv, ServerInit
  PROVE  HandshakeInv'
<1>0. PICK bytes : phase = "init" /\ Takes("init") /\ Serve("ready", bytes)
  BY DEF ServerInit
<1>1. UNCHANGED <<sQ, rfb_state, rfb_auth_scheme, pc, server, torn>> /\ phase' = "ready"
  BY <1>0, ServerOnly
<1>2. Upwards \in Seq(Messages) /\ Upwards # <<>> /\ Upwards' = Tail(Upwards)
  BY <1>0, <1>1, Taken
<1>3. ASSUME torn = {} PROVE Stage'
  <2>1. Stage
    BY <1>3 DEF HandshakeInv
  <2>2. rfb_state = "ServerInitialisation" /\ Admitted /\ Upwards = <<"init">>
    BY <1>0, <1>2, <2>1, StageOfServer
  <2>3. Upwards' = <<>>
    BY ONLY <1>2, <2>2
  <2> QED BY <1>1, <2>2, <2>3 DEF Stage, ReadyStage, Admitted
<1> QED BY <1>0, <1>3, ServerTakes

\* The server takes the client's set-up, and owes an update.
LEMMA SetupTaken ==
  ASSUME HandshakeInv, ServerSetup
  PROVE  HandshakeInv'
<1>0. phase = "ready" /\ Takes("setup") /\ Serve("owes", <<>>)
  BY DEF ServerSetup
<1>1. UNCHANGED <<sQ, rfb_state, rfb_auth_scheme, pc, server, torn>> /\ phase' = "owes"
  BY <1>0, ServerOnly
<1>2. Upwards \in Seq(Messages) /\ Upwards # <<>> /\ Upwards' = Tail(Upwards)
  BY <1>0, <1>1, Taken
<1>3. ASSUME torn = {} PROVE Stage'
  <2>1. Stage
    BY <1>3 DEF HandshakeInv
  <2>2. /\ rfb_state \in {"normal", "failed"} /\ Talk
        /\ rfb_state = "normal" => Admitted
    BY <1>0, <1>2, <2>1, StageOfServer
  <2>3. \A i \in DOMAIN Upwards : i > 1 => Upwards[i] = "request"
    BY <1>0, <2>2 DEF Talk
  <2>4. \A i \in DOMAIN Tail(Upwards) : Tail(Upwards)[i] = "request"
    <3>1. \A i \in 1..Len(Tail(Upwards)) : Tail(Upwards)[i] = Upwards[i + 1]
      BY <1>2, HeadTailProperties
    <3>2. Len(Tail(Upwards)) = Len(Upwards) - 1 /\ Tail(Upwards) \in Seq(Messages)
      BY <1>2, HeadTailProperties
    <3> QED BY <1>2, <2>3, <3>1, <3>2
  <2>5. Talk'
    BY <1>1, <1>2, <2>4 DEF Talk, Asks
  <2> QED BY <1>1, <2>2, <2>5 DEF Stage, Admitted
<1> QED BY <1>0, <1>3, ServerTakes

\* The server takes a request.
LEMMA RequestTaken ==
  ASSUME HandshakeInv, ServerTakesRequest
  PROVE  HandshakeInv'
<1>0. phase \in {"owes", "normal"} /\ Takes("request") /\ Serve(phase, <<>>)
  BY DEF ServerTakesRequest
<1>1. UNCHANGED <<sQ, rfb_state, rfb_auth_scheme, pc, server, torn>> /\ phase' = phase
  BY <1>0, ServerOnly
<1>2. Upwards \in Seq(Messages) /\ Upwards # <<>> /\ Upwards' = Tail(Upwards)
  BY <1>0, <1>1, Taken
<1>3. ASSUME torn = {} PROVE Stage'
  <2>1. Stage
    BY <1>3 DEF HandshakeInv
  <2>2. /\ rfb_state \in {"normal", "failed"} /\ Talk
        /\ rfb_state = "normal" => Admitted
    BY <1>0, <1>2, <2>1, StageOfServer
  <2>3. \A i \in DOMAIN Upwards : Upwards[i] = "request"
    BY <1>0, <2>2 DEF Talk, Asks
  <2>4. \A i \in DOMAIN Tail(Upwards) : Tail(Upwards)[i] = "request"
    <3>1. \A i \in 1..Len(Tail(Upwards)) : Tail(Upwards)[i] = Upwards[i + 1]
      BY <1>2, HeadTailProperties
    <3>2. Len(Tail(Upwards)) = Len(Upwards) - 1 /\ Tail(Upwards) \in Seq(Messages)
      BY <1>2, HeadTailProperties
    <3> QED BY <1>2, <2>3, <3>1, <3>2
  <2>5. Talk'
    BY <1>0, <1>1, <1>2, <2>4 DEF Talk, Asks
  <2> QED BY <1>1, <2>2, <2>5 DEF Stage, Admitted
<1> QED BY <1>0, <1>3, ServerTakes

\* The server sends an item of the session.
LEMMA ItemSent ==
  ASSUME HandshakeInv, ServerSends
  PROVE  HandshakeInv'
<1>1. /\ UNCHANGED <<wire, sQ, rfb_state, rfb_auth_scheme, pc, server, torn>>
      /\ \/ phase = "ready" /\ phase' = "ready"
         \/ phase \in {"owes", "normal"} /\ phase' \in {"owes", "normal"}
  BY DEF ServerSends, sendVars, client, control
<1>2. Upwards' = Upwards
  BY <1>1 DEF Upwards
<1>3. ASSUME torn = {} PROVE Stage'
  <2>1. Stage /\ Upwards \in Seq(Messages)
    BY <1>3, ConcatProperties DEF HandshakeInv, Upwards
  <2>2. CASE Upwards # <<>> \/ phase \in {"owes", "normal"}
    <3>1. /\ rfb_state \in {"normal", "failed"}
          /\ rfb_state = "normal" => Talk /\ Admitted
          /\ Upwards # <<>> => Talk
      BY <1>1, <2>1, <2>2, StageOfServer
    <3>2. Talk => Talk'
      BY <1>1, <1>2 DEF Talk, Asks
    <3>3. Admitted => Admitted'
      BY <1>1 DEF Admitted
    <3> QED BY <1>1, <1>2, <3>1, <3>2, <3>3 DEF Stage
  <2>3. CASE Upwards = <<>> /\ phase = "ready"
    <3>1. (rfb_state = "ServerInitialisation" /\ Admitted) \/ rfb_state = "failed"
      BY <2>1, <2>3, StageOfServer
    <3> QED BY <1>1, <1>2, <2>3, <3>1 DEF Stage, ReadyStage, Admitted
  <2> QED BY <1>1, <2>2, <2>3
<1> QED BY <1>1, <1>3 DEF HandshakeInv

-----------------------------------------------------------------------------

\* Every step keeps the stages of both sides together.
LEMMA HandshakeStep ==
  ASSUME HandshakeInv, [ClientNext]_<<part, vars, screens, devices>>
  PROVE  HandshakeInv'
<1>1. CASE Next
  <2>1. CASE Server
    BY <2>1, VersionSent, VersionRepeated, SecuritySent, SchemeTaken, ResponseTaken, InitTaken,
       SetupTaken, RequestTaken, ItemSent DEF Server
  <2>2. CASE init_msg
    BY <2>2, VersionRead, SecurityRead, AuthenticationRead, ResultRead, InitSent,
       ServerInitRead, NothingToRead DEF init_msg
  <2> QED BY <1>1, <2>1, <2>2, Events, Flushed, PasswordGiven, Connected DEF Next
<1>2. CASE UNCHANGED vars
  <2>1. /\ UNCHANGED <<rQ, rQi, net, wire, sQ, server, phase, rfb_state, rfb_auth_scheme,
                       torn, pc, recvVars, sendVars, client>>
    BY <1>2 DEF vars, world, client, control, recvVars, sendVars
  <2>2. BytesStay
    BY <2>1, NothingRead
  <2>3. pc' \in {"msg", "fbu", "rect"} => rfb_state = "normal"
    BY <2>1 DEF HandshakeInv
  <2> QED BY <2>1, <2>2, <2>3, ClientReads
<1> QED BY <1>1, <1>2 DEF ClientNext

\* Both sides begin at the version.
LEMMA HandshakeInit ==
  ASSUME ClientInit
  PROVE  HandshakeInv
<1>1. /\ rQ = <<>> /\ rQi = 0 /\ sQ = <<>> /\ wire = <<>> /\ net = <<>>
      /\ rfb_state = "ProtocolVersion" /\ pc = "idle" /\ phase = "version"
      /\ server \in Handshakes
  BY DEF ClientInit, Init, InitQueues
<1>2. <<>> \o <<>> = <<>> /\ <<>> \in Seq(Messages) /\ <<>> \in Seq(Int) /\ Len(<<>>) = 0
  OBVIOUS
<1>3. Upwards = <<>>
  BY <1>1, <1>2 DEF Upwards
<1>4. Unread(0)
  BY <1>1, <1>2 DEF Unread, rQlen
<1> QED BY <1>1, <1>2, <1>3, <1>4 DEF HandshakeInv, Stage, VersionStage

\* The stages imply what the run checks.
LEMMA HandshakeHolds ==
  ASSUME HandshakeInv
  PROVE  HandshakeInStep
<1>1. SUFFICES ASSUME torn = {}
      PROVE  /\ rfb_state = "normal" => phase \in {"ready", "owes", "normal"}
             /\ rfb_state = "normal" /\ rfb_auth_scheme = 2 => server.admits
             /\ wire # <<>> =>
                  Head(wire) \in
                    CASE phase = "repeater" -> {"repeater"}
                      [] phase = "greeted"  -> {"version"}
                      [] phase = "choice"   -> {"scheme1", "scheme2"}
                      [] phase = "response" -> {"response"}
                      [] phase = "init"     -> {"init"}
                      [] phase = "ready"    -> {"setup"}
                      [] OTHER              -> {"request"}
  BY DEF HandshakeInStep
<1>2. Stage
  BY <1>1 DEF HandshakeInv
<1>3. rfb_state = "normal" => Admitted /\ Talk
  BY <1>2 DEF Stage
<1>4. ASSUME wire # <<>>
      PROVE  Upwards \in Seq(Messages) /\ Upwards # <<>> /\ Head(wire) = Head(Upwards)
  BY <1>4, ConcatProperties DEF HandshakeInv, Upwards
<1>5. ASSUME wire # <<>>
      PROVE  /\ phase \notin {"refused", "version"}
             /\ phase = "repeater" => Upwards = <<"repeater">>
             /\ phase = "greeted" => Upwards = <<"version">>
             /\ phase = "choice" =>
                  Upwards \in {<<"scheme1">>, <<"scheme2">>, <<"scheme1", "init">>}
             /\ phase = "response" => Upwards = <<"response">>
             /\ phase = "init" => Upwards = <<"init">>
             /\ phase \in {"ready", "owes", "normal"} => Talk
  BY <1>2, <1>4, <1>5, StageOfServer
<1>6. phase \in {"repeater", "greeted", "choice", "response", "init", "ready", "owes", "normal",
                 "refused", "version"} \/ (Upwards = <<>> /\ rfb_state = "failed")
  <2>1. Upwards \in Seq(Messages)
    BY ConcatProperties DEF HandshakeInv, Upwards
  <2> QED BY <1>2, <2>1, StageOfServer
<1>7. ASSUME wire # <<>>, phase \in {"ready", "owes", "normal"}
      PROVE  Head(Upwards) = IF phase = "ready" THEN "setup" ELSE "request"
  <2>1. Talk /\ Upwards \in Seq(Messages) /\ Upwards # <<>>
    BY <1>4, <1>5, <1>7
  <2>2. Head(Upwards) = Upwards[1] /\ 1 \in DOMAIN Upwards
    BY <2>1
  <2> QED BY <1>7, <2>1, <2>2 DEF Talk, Asks
<1>8. rfb_state = "normal" => phase \in {"ready", "owes", "normal"}
  BY <1>3 DEF Talk
<1>9. rfb_state = "normal" /\ rfb_auth_scheme = 2 => server.admits
  BY <1>3 DEF Admitted
<1>10. ASSUME wire # <<>>
       PROVE  /\ phase = "repeater" => Head(wire) = "repeater"
              /\ phase = "greeted" => Head(wire) = "version"
              /\ phase = "choice" => Head(wire) \in {"scheme1", "scheme2"}
              /\ phase = "response" => Head(wire) = "response"
              /\ phase = "init" => Head(wire) = "init"
              /\ phase = "ready" => Head(wire) = "setup"
              /\ phase \in {"owes", "normal"} => Head(wire) = "request"
  BY <1>4, <1>5, <1>7, <1>10
<1>11. wire # <<>> => phase \in {"repeater", "greeted", "choice", "response", "init", "ready",
                               "owes", "normal"}
  BY <1>4, <1>5, <1>6
<1> QED BY <1>8, <1>9, <1>10, <1>11

\* The handshake keeps in step (HandshakeInStep) for every server, schemes,
\* passwords and queue limit, whatever pieces the bytes of either come in.
THEOREM HandshakesInStep == ClientSpec => []HandshakeInStep
<1>1. ClientInit => HandshakeInv
  BY HandshakeInit
<1>2. HandshakeInv /\ [ClientNext]_<<part, vars, screens, devices>> => HandshakeInv'
  BY HandshakeStep
<1>3. HandshakeInv => HandshakeInStep
  BY HandshakeHolds
<1> QED BY <1>1, <1>2, <1>3, PTL DEF ClientSpec

=============================================================================
