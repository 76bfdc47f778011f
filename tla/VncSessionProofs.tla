-------------------------- MODULE VncSessionProofs --------------------------
(***************************************************************************)
(* Theorems about VncSession, for either page and any number of            *)
(* connections.  None of them needs the fairness of Spec.                  *)
(***************************************************************************)
EXTENDS VncSession, SequenceTheorems, TLAPS

States == Handshake \cup Closing \cup {"normal"}
SocketStates == Live \cup {"closing", "closed"}
Panels == {"connect", "settings", "clipboard", "dialog"}
Stopped == Closing \ {"connect"}

\* ws.close() leaves as many websockets, closes the last, touches no other.
LEMMA CloseGives ==
  ASSUME NEW ss \in Seq(SocketStates)
  PROVE  /\ close(ss) \in Seq(SocketStates) /\ Len(close(ss)) = Len(ss)
         /\ \A i \in 1..Len(ss) :
              /\ close(ss)[i] = IF i = Len(ss) /\ ss[i] \in Live THEN "closing" ELSE ss[i]
              /\ close(ss)[i] \in Live => i # Len(ss) /\ ss[i] \in Live
              /\ ss[i] = "closed" => close(ss)[i] = "closed"
<1> DEFINE c == close(ss)
<1>1. Len(ss) \in Nat /\ DOMAIN ss = 1..Len(ss) /\ \A i \in 1..Len(ss) : ss[i] \in SocketStates
  BY LenProperties, ElementOfSeq
<1>2. c \in [1..Len(ss) -> SocketStates]
  BY <1>1 DEF close, SocketStates, Live
<1>3. c \in Seq(SocketStates) /\ Len(c) = Len(ss)
  BY <1>1, <1>2, SeqDef, LenProperties
<1>4. \A i \in 1..Len(ss) : c[i] = IF i = Len(ss) /\ ss[i] \in Live THEN "closing" ELSE ss[i]
  BY <1>1 DEF close
<1>5. QED BY <1>3, <1>4 DEF Live

-----------------------------------------------------------------------------
(* The invariant *)

\* Without a connection so far, everything is as it was loaded.
Loaded ==
  cur = 0 =>
    /\ rfb_state = "loaded" /\ told = "loaded" /\ button # "password" /\ "dialog" \notin panels
    /\ ~connTimer /\ ~disconnTimer /\ failTimers = {} /\ ~initTimer /\ reqTimer = {} /\ ~grabbed

OnlyLast == \A i \in 1..cur : sockets[i] \in Live => i = cur
StoppedMeansClosed == rfb_state \in Stopped => \A i \in 1..cur : sockets[i] \notin Live

\* The button of ui.js sends a password only while one is asked for, or the
\* session is over; events are caught in the state "normal" alone.
UiInv ==
  page = "ui" =>
    /\ button = "password" => rfb_state \in Stopped \cup {"password"}
    /\ grabbed => rfb_state = "normal"

\* As long as each connection began when the earlier ones were over, nothing of
\* an earlier one is left, and a request waits only in a session.
CleanInv ==
  page = "ui" /\ ~leftover =>
    /\ \A i \in 1..cur : i # cur => sockets[i] = "closed"
    /\ failTimers \subseteq {cur} /\ reqTimer \subseteq {cur}
    /\ reqTimer # {} /\ sockets[cur] \in Live => rfb_state = "normal"
    /\ ~killed /\ ~intruded

Inv == TypeOK /\ cur <= MaxSockets /\ Loaded /\ OnlyLast /\ StoppedMeansClosed /\ UiInv /\ CleanInv

LEMMA Cur == ASSUME TypeOK PROVE cur \in Nat /\ DOMAIN sockets = 1..cur
                                 /\ sockets \in Seq(SocketStates)
                                 /\ \A i \in 1..cur : sockets[i] \in SocketStates
<1>1. sockets \in Seq(SocketStates)
  BY DEF TypeOK, SocketStates
<1>2. QED BY <1>1, LenProperties, ElementOfSeq DEF cur

LEMMA InvInit == Init => Inv
<1> SUFFICES ASSUME Init PROVE Inv
  OBVIOUS
<1>1. sockets = <<>> /\ sockets \in Seq(SocketStates) /\ cur = 0
  BY DEF Init, cur
<1>2. TypeOK
  BY <1>1, SessionAssumption DEF Init, TypeOK, SocketStates, Handshake, Closing
<1>3. cur <= MaxSockets
  BY <1>1, SessionAssumption
<1>4. Loaded /\ OnlyLast /\ StoppedMeansClosed /\ UiInv /\ CleanInv
  BY <1>1 DEF Init, Loaded, OnlyLast, StoppedMeansClosed, UiInv, CleanInv
<1>5. QED BY <1>2, <1>3, <1>4 DEF Inv

-----------------------------------------------------------------------------
(* updateState *)

\* The part of the type invariant updateState has to keep.
Typed ==
  /\ rfb_state \in States /\ sockets \in Seq(SocketStates)
  /\ connTimer \in BOOLEAN /\ disconnTimer \in BOOLEAN /\ failTimers \subseteq 0..MaxSockets
  /\ grabbed \in BOOLEAN /\ told \in States /\ button \in {"connect", "password", "none"}
  /\ panels \subseteq Panels

\* A step to any state but "connect", with websockets of which the event opened
\* none and left the closed ones closed.
LEMMA UpdateInv ==
  ASSUME Inv, cur > 0,
         NEW s \in States \ {"connect"}, NEW ss \in Seq(SocketStates), NEW shown \in SUBSET Panels,
         Len(ss) = cur,
         \A i \in 1..cur : ss[i] \in Live => sockets[i] \in Live,
         \A i \in 1..cur : sockets[i] = "closed" => ss[i] = "closed",
         rfb_state = "normal" => s \in Stopped \cup {"normal"},
         page = "ui" /\ button = "password" => s \in Stopped \cup {"password"},
         updateState(s, ss, shown), page' = page
  PROVE  /\ Typed' /\ cur' = cur /\ OnlyLast' /\ StoppedMeansClosed' /\ UiInv'
         /\ failTimers' \subseteq failTimers \cup {cur}
         /\ \A i \in 1..cur : sockets[i] = "closed" => sockets'[i] = "closed"
         /\ sockets'[cur] \in Live => sockets[cur] \in Live /\ rfb_state' = s /\ s \notin Stopped
<1>1. /\ cur \in Nat /\ cur <= MaxSockets /\ sockets \in Seq(SocketStates) /\ TypeOK
      /\ OnlyLast /\ StoppedMeansClosed /\ UiInv
  BY Cur DEF Inv
<1>2. CASE s = rfb_state
  <2>1. /\ sockets' = ss /\ panels' = shown
        /\ UNCHANGED <<rfb_state, connTimer, disconnTimer, failTimers, told, button, grabbed>>
    BY <1>2 DEF updateState, timers
  <2>2. Typed'
    BY <1>1, <2>1 DEF TypeOK, Typed, States, Panels
  <2>3. cur' = cur
    BY <2>1 DEF cur
  <2>4. OnlyLast' /\ StoppedMeansClosed'
    BY <1>1, <2>1, <2>3 DEF OnlyLast, StoppedMeansClosed
  <2>5. UiInv'
    BY <1>1, <2>1 DEF UiInv
  <2>6. sockets'[cur] \in Live => sockets[cur] \in Live /\ rfb_state' = s /\ s \notin Stopped
    BY <1>1, <1>2, <2>1 DEF StoppedMeansClosed
  <2>7. QED BY <2>1, <2>2, <2>3, <2>4, <2>5, <2>6
<1>3. CASE s # rfb_state
  <2>1. /\ rfb_state' = IF rfb_state = "failed" /\ s = "disconnected" THEN "failed" ELSE s
        /\ sockets' = IF s \in Stopped THEN close(ss) ELSE ss
        /\ connTimer' = (s = "connect") /\ disconnTimer' = (s = "disconnect")
        /\ failTimers' = IF s = "failed" THEN failTimers \cup {Len(ss)} ELSE failTimers
        /\ grabbed' = Grabs(s)
    BY <1>3 DEF updateState, Stopped
  <2>2. told' = s /\ button' \in {button, "password"} /\ panels' \subseteq Panels
        /\ (button' = "password" => button = "password" \/ s = "password")
    BY <1>3 DEF updateState, uiUpdateState, toggleConnectPanel, Panels
  <2>3. /\ sockets' \in Seq(SocketStates) /\ Len(sockets') = cur
        /\ \A i \in 1..cur : /\ sockets'[i] \in Live => ss[i] \in Live /\ ~(s \in Stopped /\ i = cur)
                             /\ ss[i] = "closed" => sockets'[i] = "closed"
    BY <2>1, CloseGives
  <2>4. cur' = cur
    BY <2>3 DEF cur
  <2>5. rfb_state' \in States /\ (rfb_state' \in Stopped <=> s \in Stopped) /\ (s \notin Stopped => rfb_state' = s)
    BY <2>1 DEF States, Stopped, Closing
  <2>6. Typed'
    BY <1>1, <2>1, <2>2, <2>3, <2>5 DEF TypeOK, Typed, States, Grabs
  <2>7. OnlyLast' /\ StoppedMeansClosed'
    BY <1>1, <2>3, <2>4, <2>5 DEF OnlyLast, StoppedMeansClosed
  <2>8. UiInv'
    <3>1. page' = "ui" /\ button' = "password" => rfb_state' \in Stopped \cup {"password"}
      BY <2>2, <2>5
    <3>2. page' = "ui" /\ grabbed' => rfb_state' = "normal"
      BY <1>1, <2>1, <2>5 DEF Grabs, UiInv, Stopped, Closing
    <3>3. QED BY <3>1, <3>2 DEF UiInv
  <2>9. QED BY <1>1, <2>1, <2>3, <2>4, <2>5, <2>6, <2>7, <2>8
<1>4. QED BY <1>2, <1>3

\* Such a step keeps the invariant, if it leaves the requests that wait and
\* what began beside what was left over, and ends nothing for an earlier
\* connection.
LEMMA UpdateKeeps ==
  ASSUME Inv, cur > 0,
         NEW s \in States \ {"connect"}, NEW ss \in Seq(SocketStates), NEW shown \in SUBSET Panels,
         Len(ss) = cur,
         \A i \in 1..cur : ss[i] \in Live => sockets[i] \in Live,
         \A i \in 1..cur : sockets[i] = "closed" => ss[i] = "closed",
         rfb_state = "normal" => s \in Stopped \cup {"normal"},
         page = "ui" /\ button = "password" => s \in Stopped \cup {"password"},
         updateState(s, ss, shown),
         page' = page, reqTimer' = reqTimer, leftover' = leftover, intruded' = intruded,
         initTimer' \in BOOLEAN, password' \in BOOLEAN, unread' \in BOOLEAN, killed' \in BOOLEAN,
         page = "ui" /\ ~leftover => killed' = killed
  PROVE  Inv'
<1>1. /\ Typed' /\ cur' = cur /\ OnlyLast' /\ StoppedMeansClosed' /\ UiInv'
      /\ failTimers' \subseteq failTimers \cup {cur}
      /\ \A i \in 1..cur : sockets[i] = "closed" => sockets'[i] = "closed"
      /\ sockets'[cur] \in Live => sockets[cur] \in Live /\ rfb_state' = s /\ s \notin Stopped
  BY UpdateInv
<1>2. TypeOK /\ cur <= MaxSockets /\ CleanInv
  BY DEF Inv
<1>3. TypeOK'
  BY <1>1, <1>2 DEF TypeOK, Typed, States, SocketStates, Panels
<1>4. cur' <= MaxSockets /\ Loaded'
  BY <1>1, <1>2 DEF Loaded
<1>5. CleanInv'
  <2> SUFFICES ASSUME page' = "ui", ~leftover' PROVE
        /\ \A i \in 1..cur' : i # cur' => sockets'[i] = "closed"
        /\ failTimers' \subseteq {cur'} /\ reqTimer' \subseteq {cur'}
        /\ reqTimer' # {} /\ sockets'[cur'] \in Live => rfb_state' = "normal"
        /\ ~killed' /\ ~intruded'
    BY DEF CleanInv
  <2>1. page = "ui" /\ ~leftover
    OBVIOUS
  <2>2. /\ \A i \in 1..cur : i # cur => sockets[i] = "closed"
        /\ failTimers \subseteq {cur} /\ reqTimer \subseteq {cur}
        /\ reqTimer # {} /\ sockets[cur] \in Live => rfb_state = "normal"
        /\ ~killed /\ ~intruded
    BY <1>2, <2>1 DEF CleanInv
  <2>3. reqTimer' # {} /\ sockets'[cur] \in Live => rfb_state' = "normal"
    BY <1>1, <2>2
  <2>4. QED BY <1>1, <2>1, <2>2, <2>3
<1>6. QED BY <1>1, <1>3, <1>4, <1>5 DEF Inv

-----------------------------------------------------------------------------
(* The steps *)

LEMMA onopenInv == ASSUME Inv, onopen PROVE Inv'
<1> DEFINE ss == [sockets EXCEPT ![cur] = "open"]
           s == IF rfb_state = "connect" THEN "ProtocolVersion" ELSE "failed"
<1>1. cur > 0 /\ sockets[cur] \in Live /\ updateState(s, ss, panels)
      /\ UNCHANGED <<page, initTimer, reqTimer, password, unread, leftover, killed, intruded>>
  BY DEF onopen, fail, history, Live
<1>2. /\ cur \in Nat /\ DOMAIN sockets = 1..cur /\ sockets \in Seq(SocketStates) /\ TypeOK
      /\ panels \in SUBSET Panels /\ rfb_state \notin Stopped /\ UiInv
  BY <1>1, Cur DEF Inv, TypeOK, Panels, StoppedMeansClosed
<1>3. ss \in Seq(SocketStates) /\ Len(ss) = cur
      /\ \A i \in 1..cur : ss[i] = IF i = cur THEN "open" ELSE sockets[i]
  <2>1. "open" \in SocketStates
    BY DEF SocketStates, Live
  <2>2. QED BY <1>1, <1>2, <2>1, ExceptSeq, LenProperties DEF cur
<1>4. s \in States \ {"connect"} /\ (rfb_state = "normal" => s \in Stopped)
      /\ (page = "ui" /\ button = "password" => s \in Stopped)
  BY <1>2 DEF States, Handshake, Stopped, Closing, UiInv
<1>5. \A i \in 1..cur : /\ ss[i] \in Live => sockets[i] \in Live
                        /\ sockets[i] = "closed" => ss[i] = "closed"
  BY <1>1, <1>3 DEF Live
<1> HIDE DEF ss, s
<1>6. QED BY <1>1, <1>2, <1>3, <1>4, <1>5, UpdateKeeps DEF TypeOK

\* A message leaves the state, or moves it to one that is never "connect", and
\* from "normal" only to "failed".
LEMMA MessageInv ==
  ASSUME Inv, cur > 0, NEW data \in BOOLEAN, handle_message(data),
         initTimer' \in BOOLEAN, unread' \in BOOLEAN
  PROVE  Inv'
<1>1. PICK s \in {rfb_state} \cup IF data THEN Reaches(rfb_state) ELSE {} :
                   updateState(s, sockets, panels)
  BY DEF handle_message
<1>2. UNCHANGED <<page, reqTimer, password, leftover, killed, intruded>>
  BY DEF handle_message, history
<1>3. /\ cur \in Nat /\ sockets \in Seq(SocketStates) /\ TypeOK /\ UiInv
      /\ panels \in SUBSET Panels /\ Len(sockets) = cur
  BY Cur DEF Inv, TypeOK, Panels, cur
<1>4. CASE s = rfb_state
  <2>1. UNCHANGED <<rfb_state, sockets, panels, connTimer, disconnTimer, failTimers, told,
                    button, grabbed>>
    BY <1>1, <1>4 DEF updateState, timers
  <2>2. cur' = cur
    BY <2>1 DEF cur
  <2>3. TypeOK'
    BY <1>2, <1>3, <2>1 DEF TypeOK
  <2>4. (cur <= MaxSockets)' /\ Loaded' /\ OnlyLast' /\ StoppedMeansClosed' /\ UiInv'
    BY <1>2, <2>1, <2>2 DEF Inv, Loaded, OnlyLast, StoppedMeansClosed, UiInv
  <2>5. CleanInv'
    BY <1>2, <2>1, <2>2 DEF Inv, CleanInv
  <2>6. QED BY <2>2, <2>3, <2>4, <2>5 DEF Inv
<1>5. CASE s # rfb_state
  <2>1. s \in Reaches(rfb_state)
    BY <1>1, <1>5
  <2>2. /\ s \in States \ {"connect"} /\ (rfb_state = "normal" => s \in Stopped)
        /\ rfb_state \notin Stopped \cup {"password"}
    BY <1>3, <2>1 DEF Reaches, States, Handshake, Stopped, Closing, TypeOK
  <2>3. ~(page = "ui" /\ button = "password")
    BY <1>3, <2>2 DEF UiInv
  <2>4. QED BY <1>1, <1>2, <1>3, <2>2, <2>3, UpdateKeeps DEF TypeOK
<1>6. QED BY <1>4, <1>5

LEMMA oncloseInv == ASSUME Inv, NEW i \in DOMAIN sockets, onclose(i) PROVE Inv'
<1> DEFINE ss == [sockets EXCEPT ![i] = "closed"]
<1>1. UNCHANGED <<page, initTimer, reqTimer, password, unread, leftover, intruded>>
  BY DEF onclose
<1>2. /\ cur \in Nat /\ DOMAIN sockets = 1..cur /\ sockets \in Seq(SocketStates) /\ TypeOK
      /\ panels \in SUBSET Panels /\ cur > 0 /\ cur <= MaxSockets /\ i \in 1..cur
      /\ OnlyLast /\ StoppedMeansClosed /\ UiInv /\ Loaded /\ CleanInv
  BY Cur DEF Inv, TypeOK, Panels
<1>3. ss \in Seq(SocketStates) /\ Len(ss) = cur
      /\ \A j \in 1..cur : ss[j] = IF j = i THEN "closed" ELSE sockets[j]
  <2>1. "closed" \in SocketStates
    BY DEF SocketStates
  <2>2. QED BY <1>2, <2>1, ExceptSeq, LenProperties DEF cur
<1>4. \A j \in 1..cur : /\ ss[j] \in Live => sockets[j] \in Live
                        /\ sockets[j] = "closed" => ss[j] = "closed"
  BY <1>3 DEF Live
<1>5. killed' \in BOOLEAN /\ (page = "ui" /\ ~leftover => killed' = killed)
  BY <1>2 DEF onclose, CleanInv, TypeOK
<1>6. CASE rfb_state \notin {"failed", "disconnected"}
  <2> DEFINE s == IF rfb_state = "disconnect" THEN "disconnected" ELSE "failed"
  <2>1. updateState(s, ss, panels)
    BY <1>6 DEF onclose, fail
  <2>2. s \in States \ {"connect"} /\ s \in Stopped
    BY DEF States, Stopped, Closing
  <2> HIDE DEF ss, s
  <2>3. QED BY <1>1, <1>2, <1>3, <1>4, <1>5, <2>1, <2>2, UpdateKeeps DEF TypeOK
<1>7. CASE rfb_state \in {"failed", "disconnected"}
  <2>1. sockets' = ss /\ UNCHANGED <<rfb_state, connTimer, disconnTimer, failTimers,
                                     grabbed, told, button, panels>>
    BY <1>7 DEF onclose, timers, ui
  <2>2. cur' = cur
    BY <1>3, <2>1 DEF cur
  <2>3. TypeOK'
    BY <1>1, <1>2, <1>3, <1>5, <2>1 DEF TypeOK, SocketStates
  <2>4. (cur <= MaxSockets)' /\ Loaded' /\ UiInv'
    BY <1>1, <1>2, <2>1, <2>2 DEF Loaded, UiInv
  <2>5. OnlyLast' /\ StoppedMeansClosed'
    BY <1>2, <1>4, <2>1, <2>2 DEF OnlyLast, StoppedMeansClosed
  <2>6. CleanInv'
    BY <1>1, <1>2, <1>4, <1>5, <2>1, <2>2 DEF CleanInv
  <2>7. QED BY <2>3, <2>4, <2>5, <2>6 DEF Inv
<1>8. QED BY <1>6, <1>7

\* The two timers that end a connection that does not open or close in time.
LEMMA TimerInv == ASSUME Inv, ConnTimer \/ DisconnTimer PROVE Inv'
<1>1. updateState("failed", sockets, panels)
      /\ UNCHANGED <<page, initTimer, reqTimer, password, unread, leftover, killed, intruded>>
  BY DEF ConnTimer, DisconnTimer, fail, history
<1>2. /\ cur \in Nat /\ sockets \in Seq(SocketStates) /\ TypeOK /\ Len(sockets) = cur
      /\ panels \in SUBSET Panels /\ cur > 0
  BY Cur DEF Inv, TypeOK, Panels, cur, Loaded, ConnTimer, DisconnTimer
<1>3. "failed" \in States \ {"connect"} /\ "failed" \in Stopped
  BY DEF States, Stopped, Closing
<1>4. QED BY <1>1, <1>2, <1>3, UpdateKeeps DEF TypeOK

LEMMA FailTimerInv == ASSUME Inv, NEW i \in 0..cur, FailTimer(i) PROVE Inv'
<1>1. /\ UNCHANGED <<page, initTimer, reqTimer, password, unread, leftover, intruded>>
      /\ i \in failTimers /\ failTimers' = failTimers \ {i}
  BY DEF FailTimer
<1>2. /\ cur \in Nat /\ sockets \in Seq(SocketStates) /\ TypeOK /\ Len(sockets) = cur
      /\ cur > 0 /\ cur <= MaxSockets /\ OnlyLast /\ StoppedMeansClosed /\ UiInv /\ CleanInv
  BY <1>1, Cur DEF Inv, cur, Loaded
<1>3. killed' \in BOOLEAN /\ (page = "ui" /\ ~leftover => killed' = killed)
  BY <1>1, <1>2 DEF FailTimer, CleanInv, TypeOK
<1>4. CASE rfb_state = "disconnected"
  <2>1. UNCHANGED <<rfb_state, sockets, connTimer, disconnTimer, grabbed, told, button, panels>>
    BY <1>4 DEF FailTimer, ui
  <2>2. cur' = cur
    BY <2>1 DEF cur
  <2>3. TypeOK'
    BY <1>1, <1>2, <1>3, <2>1 DEF TypeOK
  <2>4. (cur <= MaxSockets)' /\ Loaded' /\ OnlyLast' /\ StoppedMeansClosed' /\ UiInv'
    BY <1>1, <1>2, <2>1, <2>2 DEF Loaded, OnlyLast, StoppedMeansClosed, UiInv
  <2>5. CleanInv'
    BY <1>1, <1>2, <1>3, <2>1, <2>2 DEF CleanInv
  <2>6. QED BY <2>3, <2>4, <2>5 DEF Inv
<1>5. CASE rfb_state # "disconnected"
  <2>1. /\ rfb_state' \in {"failed", "disconnected"} /\ sockets' = close(sockets)
        /\ connTimer' = FALSE /\ disconnTimer' = FALSE /\ grabbed' = FALSE
        /\ told' = "disconnected" /\ UNCHANGED <<button, panels>>
    BY <1>5 DEF FailTimer, Grabs, Closing, uiUpdateState
  <2>2. /\ sockets' \in Seq(SocketStates) /\ Len(sockets') = cur
        /\ \A j \in 1..cur : /\ sockets'[j] \in Live => sockets[j] \in Live /\ j # cur
                             /\ sockets[j] = "closed" => sockets'[j] = "closed"
    BY <1>2, <2>1, CloseGives
  <2>3. cur' = cur
    BY <2>2 DEF cur
  <2>4. TypeOK'
    BY <1>1, <1>2, <1>3, <2>1, <2>2 DEF TypeOK, SocketStates, Closing
  <2>5. \A j \in 1..cur : sockets'[j] \notin Live
    BY <1>2, <2>2 DEF OnlyLast
  <2>6. (cur <= MaxSockets)' /\ Loaded' /\ OnlyLast' /\ StoppedMeansClosed' /\ UiInv'
    BY <1>2, <2>1, <2>3, <2>5 DEF Loaded, OnlyLast, StoppedMeansClosed, UiInv, Stopped, Closing
  <2>7. CleanInv'
    BY <1>1, <1>2, <1>3, <2>2, <2>3, <2>5 DEF CleanInv
  <2>8. QED BY <2>3, <2>4, <2>6, <2>7 DEF Inv
<1>6. QED BY <1>4, <1>5

LEMMA flushClientInv == ASSUME Inv, flushClient PROVE Inv'
<1>1. /\ UNCHANGED <<page, rfb_state, sockets, connTimer, disconnTimer, failTimers, initTimer,
                     password, unread, grabbed, told, button, panels, leftover, killed, intruded>>
      /\ reqTimer' = reqTimer \cup {cur} /\ (grabbed \/ rfb_state = "normal")
  BY DEF flushClient, timers, ui, history
<1>2. /\ cur \in Nat /\ TypeOK /\ cur <= MaxSockets /\ cur > 0 /\ MaxSockets \in Nat
      /\ OnlyLast /\ StoppedMeansClosed /\ UiInv /\ CleanInv
  BY <1>1, Cur, SessionAssumption DEF Inv, Loaded
<1>3. cur' = cur
  BY <1>1 DEF cur
<1>4. TypeOK'
  <2>1. reqTimer' \subseteq 1..MaxSockets
    BY <1>1, <1>2 DEF TypeOK
  <2>2. QED BY <1>1, <1>2, <2>1 DEF TypeOK
<1>5. (cur <= MaxSockets)' /\ Loaded' /\ OnlyLast' /\ StoppedMeansClosed' /\ UiInv'
  BY <1>1, <1>2, <1>3 DEF Loaded, OnlyLast, StoppedMeansClosed, UiInv
<1>6. CleanInv'
  BY <1>1, <1>2, <1>3 DEF CleanInv, UiInv
<1>7. QED BY <1>4, <1>5, <1>6 DEF Inv

LEMMA ReqTimerInv == ASSUME Inv, NEW i \in 1..cur, ReqTimer(i) PROVE Inv'
<1>1. /\ UNCHANGED <<page, rfb_state, sockets, connTimer, disconnTimer, failTimers, initTimer,
                     password, unread, grabbed, told, button, panels, leftover, killed>>
      /\ i \in reqTimer /\ reqTimer' = reqTimer \ {i}
  BY DEF ReqTimer, timers, ui
<1>2. /\ cur \in Nat /\ TypeOK /\ cur <= MaxSockets
      /\ Loaded /\ OnlyLast /\ StoppedMeansClosed /\ UiInv /\ CleanInv
  BY Cur DEF Inv
<1>3. intruded' = (intruded \/ (sockets[cur] \in Live /\ rfb_state \in Handshake \cup {"connect"}))
  BY DEF ReqTimer
<1>4. cur' = cur
  BY <1>1 DEF cur
<1>5. TypeOK'
  <2>1. intruded' \in BOOLEAN
    BY <1>2, <1>3 DEF TypeOK
  <2>2. QED BY <1>1, <1>2, <2>1 DEF TypeOK
<1>6. (cur <= MaxSockets)' /\ Loaded' /\ OnlyLast' /\ StoppedMeansClosed' /\ UiInv'
  BY <1>1, <1>2, <1>4 DEF Loaded, OnlyLast, StoppedMeansClosed, UiInv
<1>7. CleanInv'
  <2>1. ASSUME page = "ui", ~leftover PROVE intruded' = intruded
    BY <1>1, <1>2, <1>3, <2>1 DEF CleanInv, Handshake, TypeOK
  <2>2. QED BY <1>1, <1>2, <1>4, <2>1 DEF CleanInv
<1>8. QED BY <1>5, <1>6, <1>7 DEF Inv

\* A new connection: one websocket more, and what is left of the earlier ones
\* is remembered in leftover.
LEMMA ConnectInv ==
  ASSUME Inv, NEW shown \in SUBSET Panels, connect(shown), button # "password" \/ page # "ui"
  PROVE  Inv'
<1>1. /\ UNCHANGED <<page, initTimer, reqTimer, killed, intruded>>
      /\ cur < MaxSockets /\ password' \in BOOLEAN /\ updateState("connect", sockets, shown)
      /\ unread' = (unread /\ rfb_state = "connect")
      /\ leftover' = (leftover \/ (rfb_state # "connect" /\
                        (failTimers # {} \/ reqTimer # {} \/ initTimer
                         \/ \E i \in DOMAIN sockets : sockets[i] # "closed")))
  BY DEF connect
<1>2. /\ cur \in Nat /\ DOMAIN sockets = 1..cur /\ sockets \in Seq(SocketStates)
      /\ Len(sockets) = cur /\ MaxSockets \in Nat
      /\ TypeOK /\ Loaded /\ OnlyLast /\ StoppedMeansClosed /\ UiInv /\ CleanInv
  BY Cur, SessionAssumption DEF Inv, cur
<1>3. unread' \in BOOLEAN /\ leftover' \in BOOLEAN /\ (~leftover' => ~leftover)
  BY <1>1, <1>2 DEF TypeOK
<1>4. CASE rfb_state = "connect"
  <2>1. UNCHANGED <<rfb_state, sockets, connTimer, disconnTimer, failTimers, told, button, grabbed>>
        /\ panels' = shown
    BY <1>1, <1>4 DEF updateState, timers
  <2>2. cur' = cur
    BY <2>1 DEF cur
  <2>3. TypeOK'
    BY <1>1, <1>2, <1>3, <2>1 DEF TypeOK, Panels
  <2>4. (cur <= MaxSockets)' /\ Loaded' /\ OnlyLast' /\ StoppedMeansClosed' /\ UiInv'
    BY <1>1, <1>2, <1>4, <2>1, <2>2 DEF Loaded, OnlyLast, StoppedMeansClosed, UiInv
  <2>5. CleanInv'
    BY <1>1, <1>2, <1>3, <2>1, <2>2 DEF CleanInv
  <2>6. QED BY <2>3, <2>4, <2>5 DEF Inv
<1>5. CASE rfb_state # "connect"
  <2>1. /\ rfb_state' = "connect" /\ sockets' = open(sockets) /\ connTimer' = TRUE
        /\ disconnTimer' = FALSE /\ failTimers' = failTimers /\ grabbed' = FALSE
        /\ told' = "connect" /\ panels' = shown /\ button' = button
    BY <1>1, <1>5 DEF updateState, uiUpdateState, Grabs, Closing
  <2>2. /\ close(sockets) \in Seq(SocketStates) /\ Len(close(sockets)) = cur
        /\ \A i \in 1..cur : /\ close(sockets)[i] \in Live => i # cur /\ sockets[i] \in Live
                             /\ sockets[i] = "closed" => close(sockets)[i] = "closed"
    BY <1>2, CloseGives
  <2>3. "connecting" \in SocketStates
    BY DEF SocketStates, Live
  <2>4. /\ sockets' \in Seq(SocketStates) /\ Len(sockets') = cur + 1
        /\ \A i \in 1..cur : sockets'[i] = close(sockets)[i]
    BY <2>1, <2>2, <2>3, AppendProperties DEF open
  <2>5. cur' = cur + 1
    BY <2>4 DEF cur
  <2>6. \A i \in 1..cur : sockets'[i] \notin Live
    BY <1>2, <2>2, <2>4 DEF OnlyLast
  <2>7. TypeOK'
    BY <1>1, <1>2, <1>3, <2>1, <2>4 DEF TypeOK, SocketStates, Panels, Closing
  <2>8. (cur <= MaxSockets)' /\ Loaded' /\ OnlyLast' /\ StoppedMeansClosed'
    BY <1>1, <1>2, <2>1, <2>5, <2>6 DEF Loaded, OnlyLast, StoppedMeansClosed, Stopped
  <2>9. UiInv'
    BY <1>1, <2>1 DEF UiInv
  <2>10. CleanInv'
    <3> SUFFICES ASSUME page' = "ui", ~leftover' PROVE
          /\ \A i \in 1..cur' : i # cur' => sockets'[i] = "closed"
          /\ failTimers' \subseteq {cur'} /\ reqTimer' \subseteq {cur'}
          /\ reqTimer' # {} /\ sockets'[cur'] \in Live => rfb_state' = "normal"
          /\ ~killed' /\ ~intruded'
      BY DEF CleanInv
    <3>1. failTimers = {} /\ reqTimer = {} /\ (\A i \in 1..cur : sockets[i] = "closed")
          /\ page = "ui" /\ ~leftover
      BY <1>1, <1>2, <1>5
    <3>2. \A i \in 1..cur : sockets'[i] = "closed"
      BY <2>2, <2>4, <3>1
    <3>3. \A i \in 1..cur' : i # cur' => i \in 1..cur
      BY <1>2, <2>5
    <3>4. QED BY <1>1, <1>2, <2>1, <3>1, <3>2, <3>3 DEF CleanInv
  <2>11. QED BY <2>7, <2>8, <2>9, <2>10 DEF Inv
<1>6. QED BY <1>4, <1>5

LEMMA UiDisconnectInv == ASSUME Inv, UiDisconnect PROVE Inv'
<1>1. /\ updateState("disconnect", sockets, {"connect"}) /\ told \notin Offline
      /\ UNCHANGED <<page, initTimer, reqTimer, password, unread, leftover, killed, intruded>>
  BY DEF UiDisconnect, history
<1>2. /\ cur \in Nat /\ sockets \in Seq(SocketStates) /\ TypeOK /\ Len(sockets) = cur
      /\ cur > 0 /\ {"connect"} \in SUBSET Panels
  BY <1>1, Cur DEF Inv, cur, Loaded, Offline, Panels
<1>3. "disconnect" \in States \ {"connect"} /\ "disconnect" \in Stopped
  BY DEF States, Stopped, Closing
<1>4. QED BY <1>1, <1>2, <1>3, UpdateKeeps DEF TypeOK

\* The password of ui.js goes out only in the state that asks for it, or after
\* the session, when no websocket is live.
LEMMA PasswordInv == ASSUME Inv, UiSetPassword \/ ConsoleSetPassword PROVE Inv'
<1>1. /\ UNCHANGED <<page, sockets, connTimer, disconnTimer, failTimers, reqTimer, unread,
                     grabbed, told, leftover, killed, intruded>>
      /\ rfb_state' = "Authentication" /\ password' = TRUE /\ initTimer' = TRUE
  BY DEF UiSetPassword, ConsoleSetPassword, sendPassword, timers
<1>2. /\ TypeOK /\ cur <= MaxSockets /\ OnlyLast /\ UiInv /\ CleanInv /\ Loaded
      /\ cur > 0 /\ cur \in Nat
  BY Cur DEF Inv, Loaded, UiSetPassword, ConsoleSetPassword
<1>3. /\ button' \in {button, "none"} /\ panels' \subseteq Panels
      /\ page = "ui" => button' = "none" /\ rfb_state \in Stopped \cup {"password"}
  BY <1>2 DEF UiSetPassword, ConsoleSetPassword, toggleConnectPanel, Panels, UiInv
<1>4. cur' = cur
  BY <1>1 DEF cur
<1>5. TypeOK'
  BY <1>1, <1>2, <1>3 DEF TypeOK, Panels, Handshake
<1>6. (cur <= MaxSockets)' /\ Loaded' /\ OnlyLast' /\ StoppedMeansClosed'
  BY <1>1, <1>2, <1>4 DEF Loaded, OnlyLast, StoppedMeansClosed, Stopped, Closing
<1>7. UiInv' /\ CleanInv'
  BY <1>1, <1>2, <1>3, <1>4 DEF UiInv, CleanInv, Stopped, Closing
<1>8. QED BY <1>5, <1>6, <1>7 DEF Inv

LEMMA ToggleInv == ASSUME Inv, Toggle PROVE Inv'
<1>1. /\ UNCHANGED <<page, rfb_state, sockets, connTimer, disconnTimer, failTimers, initTimer,
                     reqTimer, password, unread, grabbed, told, button, leftover, killed, intruded>>
      /\ panels' \subseteq Panels /\ "dialog" \notin panels'
  BY DEF Toggle, timers, history, toggleConnectPanel, toggleClipboardPanel,
         toggleSettingsPanel, Panels
<1>2. cur' = cur
  BY <1>1 DEF cur
<1>3. TypeOK'
  BY <1>1 DEF Inv, TypeOK, Panels
<1>4. QED BY <1>1, <1>2, <1>3 DEF Inv, Loaded, OnlyLast, StoppedMeansClosed, UiInv, CleanInv

LEMMA Step == Inv /\ [Next]_vars => Inv'
<1> SUFFICES ASSUME Inv, [Next]_vars PROVE Inv'
  OBVIOUS
<1>1. panels \subseteq Panels
  BY DEF Inv, TypeOK, Panels
<1>2. CASE onopen
  BY <1>2, onopenInv
<1>3. CASE onmessage \/ InitTimer
  <2>1. unread \in BOOLEAN /\ initTimer \in BOOLEAN
    BY DEF Inv, TypeOK
  <2>2. cur > 0
    <3>1. cur \in Nat /\ Loaded
      BY Cur DEF Inv
    <3>2. cur > 0 \/ initTimer
      BY <1>3 DEF onmessage, InitTimer
    <3>3. QED BY <3>1, <3>2 DEF Loaded
  <2>3. \E data \in BOOLEAN : handle_message(data)
    BY <1>3, <2>1 DEF onmessage, InitTimer
  <2>4. initTimer' \in BOOLEAN /\ unread' \in BOOLEAN
    BY <1>3, <2>1 DEF onmessage, InitTimer
  <2>5. QED BY <2>2, <2>3, <2>4, MessageInv
<1>4. CASE \E i \in DOMAIN sockets : onclose(i)
  BY <1>4, oncloseInv
<1>5. CASE \E i \in 0..cur : FailTimer(i)
  BY <1>5, FailTimerInv
<1>6. CASE \E i \in 1..cur : ReqTimer(i)
  BY <1>6, ReqTimerInv
<1>7. CASE ConnTimer \/ DisconnTimer
  BY <1>7, TimerInv
<1>8. CASE flushClient
  BY <1>8, flushClientInv
<1>9. CASE UiConnect \/ ConsoleLoad
  <2>1. \E shown \in SUBSET Panels : connect(shown)
    BY <1>1, <1>9 DEF UiConnect, ConsoleLoad, toggleConnectPanel, closeSettingsMenu, Panels
  <2>2. button # "password" \/ page # "ui"
    BY <1>9 DEF UiConnect, ConsoleLoad
  <2>3. QED BY <2>1, <2>2, ConnectInv
<1>10. CASE UiDisconnect
  BY <1>10, UiDisconnectInv
<1>11. CASE UiSetPassword \/ ConsoleSetPassword
  BY <1>11, PasswordInv
<1>12. CASE Toggle
  BY <1>12, ToggleInv
<1>13. CASE UNCHANGED vars
  <2>1. UNCHANGED <<page, rfb_state, sockets, connTimer, disconnTimer, failTimers, initTimer,
                    reqTimer, password, unread, grabbed, told, button, panels, leftover, killed,
                    intruded>>
    BY <1>13 DEF vars, timers, ui, history
  <2>2. cur' = cur
    BY <2>1 DEF cur
  <2>3. QED BY <2>1, <2>2 DEF Inv, TypeOK, Loaded, OnlyLast, StoppedMeansClosed, UiInv, CleanInv
<1>14. QED BY <1>2, <1>3, <1>4, <1>5, <1>6, <1>7, <1>8, <1>9, <1>10, <1>11, <1>12, <1>13 DEF Next

-----------------------------------------------------------------------------
(* What follows from it *)

THEOREM Invariant == Spec => []Inv
<1>1. QED BY InvInit, Step, PTL DEF Spec

\* There is at most one connection at a time, the current one, and none in a
\* state in which updateState has closed the websocket (rfb.js).
THEOREM OneLiveSocketHolds == Spec => []OneLiveSocket
<1>1. Inv => OneLiveSocket
  BY Cur DEF Inv, OneLiveSocket, OnlyLast, StoppedMeansClosed, Stopped, NoneLive
<1>2. QED BY <1>1, Invariant, PTL

\* With ui.js, a connection that began after everything of the earlier ones was
\* over is never ended, nor its handshake disturbed, by what they left: a
\* timer, a request that waits, the close of a websocket.
THEOREM CleanRestartHolds == Spec => []CleanRestart
<1>1. Inv => CleanRestart
  BY DEF Inv, CleanRestart, CleanInv
<1>2. QED BY <1>1, Invariant, PTL

\* The states a session that is connected may go to.
AfterNormal == {"normal", "connect", "disconnect", "failed", "disconnected"}

\* updateState never leaves "normal" for a state of the handshake.
LEMMA UpdateFromNormal ==
  ASSUME rfb_state = "normal", NEW s \in AfterNormal, NEW ss, NEW shown, updateState(s, ss, shown)
  PROVE  rfb_state' \in AfterNormal
BY DEF updateState, AfterNormal

\* With ui.js, no part of the handshake runs again in a session that is
\* connected, whatever the server, the timers and the user do.
THEOREM NormalHolds == Spec => NormalUntilTheEnd
<1> DEFINE Keeps == page = "ui" /\ rfb_state = "normal" => rfb_state' \in AfterNormal
<1>1. ASSUME Inv, [Next]_vars PROVE Keeps
  <2> SUFFICES ASSUME page = "ui", rfb_state = "normal" PROVE rfb_state' \in AfterNormal
    OBVIOUS
  <2>1. CASE onopen \/ ConnTimer \/ DisconnTimer
    BY <2>1, UpdateFromNormal DEF onopen, ConnTimer, DisconnTimer, fail, AfterNormal
  <2>2. CASE onmessage \/ InitTimer
    <3>1. \E s \in {"normal", "failed"} : updateState(s, sockets, panels)
      BY <2>2 DEF onmessage, InitTimer, handle_message, Reaches
    <3>2. QED BY <3>1, UpdateFromNormal DEF AfterNormal
  <2>3. CASE \E i \in DOMAIN sockets : onclose(i)
    <3>1. \E ss : updateState("failed", ss, panels)
      BY <2>3 DEF onclose, fail
    <3>2. QED BY <3>1, UpdateFromNormal DEF AfterNormal
  <2>4. CASE \E i \in 0..cur : FailTimer(i)
    BY <2>4 DEF FailTimer, AfterNormal
  <2>5. CASE flushClient \/ Toggle \/ \E i \in 1..cur : ReqTimer(i)
    BY <2>5 DEF flushClient, Toggle, ReqTimer, AfterNormal
  <2>6. CASE UiConnect \/ UiDisconnect
    BY <2>6, UpdateFromNormal DEF UiConnect, UiDisconnect, connect, AfterNormal
  <2>7. CASE ConsoleLoad \/ UiSetPassword \/ ConsoleSetPassword
    BY <1>1, <2>7 DEF ConsoleLoad, UiSetPassword, ConsoleSetPassword, Inv, UiInv, Stopped, Closing
  <2>8. CASE UNCHANGED vars
    BY <2>8 DEF vars, AfterNormal
  <2>9. QED BY <1>1, <2>1, <2>2, <2>3, <2>4, <2>5, <2>6, <2>7, <2>8 DEF Next
<1>2. [][Keeps]_vars => NormalUntilTheEnd
  BY PTL DEF NormalUntilTheEnd, AfterNormal
<1>3. QED BY <1>1, <1>2, Invariant, PTL DEF Spec

=============================================================================
