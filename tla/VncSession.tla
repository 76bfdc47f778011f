----------------------------- MODULE VncSession -----------------------------
(***************************************************************************)
(* The life of a VNC session in the browser: the states of                 *)
(* static/js/novnc/rfb.js with its timers, the websockets of websock.js,   *)
(* and the two pages that drive it: ui.js, where a user connects again and *)
(* again, and console-vnc.html, which connects once and asks for a         *)
(* password in a dialog that stays.                                        *)
(*                                                                         *)
(* What a server's message says is left to RfbStream: a message moves the  *)
(* handshake to any state it may lead to.                                  *)
(***************************************************************************)
EXTENDS Integers, Sequences, FiniteSets

CONSTANTS
    Pages,        \* {"ui", "console"} or one of them
    MaxSockets    \* bound: connections of one page

ASSUME SessionAssumption == Pages \subseteq {"ui", "console"} /\ MaxSockets \in Nat

VARIABLES
    page,
    rfb_state,
    sockets,      \* the websockets made so far, the last one is the current
    connTimer, disconnTimer,
    failTimers,   \* attempts whose timer to "disconnected" is running
    initTimer,    \* sendPassword's timer
    reqTimer,     \* attempts whose flushClient has a request to send
    password,     \* rfb_password is not empty
    unread,       \* there may be bytes in rQ
    grabbed,      \* keyboard and mouse events are caught
    told,         \* UI.rfb_state, the last state the page was told
    button,       \* what noVNC_connect_button does
    panels,       \* the open panels of ui.js; the dialog of console-vnc.html
    leftover,     \* a connection began while an earlier one left something
    killed,       \* ... and was ended by it
    intruded      \* ... or had a request of it in its handshake
                  \* (these three are not in the code)

timers == <<connTimer, disconnTimer, failTimers>>
ui == <<told, button, panels>>
history == <<leftover, killed, intruded>>
vars == <<page, rfb_state, sockets, timers, initTimer, reqTimer, password,
          unread, grabbed, ui, history>>

Live == {"connecting", "open"}
Offline == {"fatal", "failed", "loaded", "disconnected"}
Handshake == {"ProtocolVersion", "Security", "Authentication", "password",
              "SecurityResult", "ServerInitialisation"}
Closing == {"disconnected", "loaded", "connect", "disconnect", "failed", "fatal"}
cur == Len(sockets)
NoneLive(ss) == \A i \in DOMAIN ss : ss[i] \notin Live

TypeOK ==
    /\ page \in {"ui", "console"}
    /\ rfb_state \in Handshake \cup Closing \cup {"normal"}
    /\ sockets \in Seq(Live \cup {"closing", "closed"})
    /\ connTimer \in BOOLEAN /\ disconnTimer \in BOOLEAN
    /\ failTimers \subseteq 0..MaxSockets
    /\ initTimer \in BOOLEAN /\ reqTimer \subseteq 1..MaxSockets
    /\ password \in BOOLEAN /\ unread \in BOOLEAN /\ grabbed \in BOOLEAN
    /\ told \in Handshake \cup Closing \cup {"normal"}
    /\ button \in {"connect", "password", "none"}
    /\ panels \subseteq {"connect", "settings", "clipboard", "dialog"}
    /\ {leftover, killed, intruded} \subseteq BOOLEAN

Init ==
    /\ page \in Pages
    /\ rfb_state = "loaded"
    /\ sockets = <<>>
    /\ connTimer = FALSE /\ disconnTimer = FALSE /\ failTimers = {}
    /\ initTimer = FALSE /\ reqTimer = {}
    /\ password = FALSE /\ unread = FALSE /\ grabbed = FALSE
    /\ told = "loaded"
    /\ button = "connect"
    /\ panels = IF page = "ui" THEN {"connect"} ELSE {}
    /\ leftover = FALSE /\ killed = FALSE /\ intruded = FALSE

-----------------------------------------------------------------------------
(* Panels of ui.js *)

toggleConnectPanel(open) == IF "connect" \in open THEN {} ELSE {"connect"}
toggleClipboardPanel(open) == IF "clipboard" \in open THEN {} ELSE {"clipboard"}
toggleSettingsPanel(open) == IF "settings" \in open THEN {} ELSE {"settings"}
closeSettingsMenu(open) == open \ {"settings"}

-----------------------------------------------------------------------------
(* rfb.js: updateState, with the state of the websockets after the event    *)

\* Mutant: a websocket that is not open yet is left as it is.
close_Open(ss) == [i \in DOMAIN ss |->
                      IF i = Len(ss) /\ ss[i] = "open" THEN "closing" ELSE ss[i]]

\* ws.close(): the current websocket is closed, which it will tell later.
close(ss) == [i \in DOMAIN ss |->
                 IF i = Len(ss) /\ ss[i] \in Live THEN "closing" ELSE ss[i]]

\* init_vars and connect(): a new websocket with empty queues.
open(ss) == Append(close(ss), "connecting")

\* What a page does when it is told a state, or asked for the password.
uiUpdateState(s, shown) ==
    /\ told' = s
    /\ IF s # "password"
       THEN UNCHANGED button /\ panels' = shown
       ELSE IF page = "ui"
       THEN button' = "password" /\ panels' = toggleConnectPanel(shown)
       ELSE UNCHANGED button /\ panels' = {"dialog"}

\* Mutant: the events are caught for good.
Grabs_Kept(s) == grabbed \/ s = "normal"

\* Events are caught from "normal" on, until the connection is closed.
Grabs(s) == s \notin Closing /\ (grabbed \/ s = "normal")

updateState(s, ss, shown) ==
    IF s = rfb_state
    THEN /\ sockets' = ss
         /\ panels' = shown
         /\ UNCHANGED <<rfb_state, timers, told, button, grabbed>>
    ELSE /\ rfb_state' = IF rfb_state = "failed" /\ s = "disconnected" THEN "failed" ELSE s
         /\ sockets' = CASE s = "connect" -> open(ss)
                         [] s \in Closing \ {"connect"} -> close(ss)
                         [] OTHER -> ss
         /\ connTimer' = (s = "connect")
         /\ disconnTimer' = (s = "disconnect")
         /\ failTimers' = IF s = "failed" THEN failTimers \cup {Len(ss)} ELSE failTimers
         /\ grabbed' = Grabs(s)
         /\ uiUpdateState(s, shown)

fail(ss) == updateState("failed", ss, panels)

-----------------------------------------------------------------------------
(* Events of a websocket *)

onopen ==
    /\ cur > 0
    /\ sockets[cur] = "connecting"
    /\ LET ss == [sockets EXCEPT ![cur] = "open"]
       IN  IF rfb_state = "connect"
           THEN updateState("ProtocolVersion", ss, panels)
           ELSE fail(ss)
    /\ UNCHANGED <<page, initTimer, reqTimer, password, unread, history>>

\* The handlers are those of the Websock object: the close of a websocket
\* of an earlier connection is taken for the current one's.
onclose(i) ==
    /\ sockets[i] # "closed"
    /\ LET ss == [sockets EXCEPT ![i] = "closed"]
       IN  CASE rfb_state = "disconnect" -> updateState("disconnected", ss, panels)
             [] rfb_state \in {"failed", "disconnected"} ->
                  sockets' = ss /\ UNCHANGED <<rfb_state, timers, grabbed, ui>>
             [] OTHER -> fail(ss)
    /\ killed' = (killed \/ (i < cur /\ rfb_state \notin Closing \ {"connect"}))
    /\ UNCHANGED <<page, initTimer, reqTimer, password, unread, leftover, intruded>>

\* The states init_msg and normal_msg may go to with what a server sends.
Reaches(s) ==
    CASE s = "ProtocolVersion" -> {"Security", "failed"}
      [] s = "Security" -> {"SecurityResult", "ServerInitialisation", "failed",
                            IF password THEN "Authentication" ELSE "password"}
      [] s = "Authentication" -> {"SecurityResult"}
      [] s = "SecurityResult" -> {"ServerInitialisation", "failed"}
      [] s = "ServerInitialisation" -> {"normal"}
      [] s = "normal" -> {"failed"}
      [] OTHER -> {}

handle_message(data) ==
    /\ \E s \in {rfb_state} \cup IF data THEN Reaches(rfb_state) ELSE {} :
          updateState(s, sockets, panels)
    /\ UNCHANGED <<page, reqTimer, password, history>>

onmessage ==
    /\ cur > 0
    /\ sockets[cur] = "open"
    /\ handle_message(TRUE)
    /\ unread' \in BOOLEAN
    /\ UNCHANGED initTimer

\* The timer of sendPassword: only what is in rQ is there to be read.
InitTimer ==
    /\ initTimer
    /\ initTimer' = FALSE
    /\ handle_message(unread)
    /\ UNCHANGED unread

-----------------------------------------------------------------------------
(* Timers *)

ConnTimer ==
    /\ connTimer
    /\ fail(sockets)
    /\ UNCHANGED <<page, initTimer, reqTimer, password, unread, history>>

\* Mutant: the timer of a disconnection only logs.
DisconnTimer_Logs ==
    /\ disconnTimer
    /\ disconnTimer' = FALSE
    /\ UNCHANGED <<page, rfb_state, sockets, connTimer, failTimers, grabbed, ui,
                   initTimer, reqTimer, password, unread, history>>

DisconnTimer ==
    /\ disconnTimer
    /\ fail(sockets)
    /\ UNCHANGED <<page, initTimer, reqTimer, password, unread, history>>

\* 50 ms after a failure, whatever has begun since.
FailTimer(i) ==
    /\ i \in failTimers
    /\ IF rfb_state = "disconnected"
       THEN failTimers' = failTimers \ {i}
            /\ UNCHANGED <<rfb_state, sockets, connTimer, disconnTimer, grabbed, ui>>
       ELSE /\ rfb_state' = IF rfb_state = "failed" THEN "failed" ELSE "disconnected"
            /\ sockets' = close(sockets)
            /\ connTimer' = FALSE /\ disconnTimer' = FALSE
            /\ failTimers' = failTimers \ {i}
            /\ grabbed' = Grabs("disconnected")
            /\ uiUpdateState("disconnected", panels)
    /\ killed' = (killed \/ (i < cur /\ rfb_state \notin Closing \ {"connect"}))
    /\ UNCHANGED <<page, initTimer, reqTimer, password, unread, leftover, intruded>>

\* A button of the mouse, or checkEvents with movements to send: the request
\* for an update follows 50 ms later.
flushClient ==
    /\ grabbed \/ rfb_state = "normal"
    /\ reqTimer' = reqTimer \cup {cur}
    /\ UNCHANGED <<page, rfb_state, sockets, timers, initTimer, password,
                   unread, grabbed, ui, history>>

ReqTimer(i) ==
    /\ i \in reqTimer
    /\ reqTimer' = reqTimer \ {i}
    /\ intruded' = (intruded \/ (sockets[cur] \in Live /\
                                 rfb_state \in Handshake \cup {"connect"}))
    /\ UNCHANGED <<page, rfb_state, sockets, timers, initTimer, password,
                   unread, grabbed, ui, leftover, killed>>

-----------------------------------------------------------------------------
(* What the pages do *)

\* that.connect: does nothing if the state is already "connect".
connect(shown) ==
    /\ cur < MaxSockets
    /\ updateState("connect", sockets, shown)
    /\ password' \in BOOLEAN
    /\ unread' = (unread /\ rfb_state = "connect")
    /\ leftover' = (leftover \/ (rfb_state # "connect" /\
                      (failTimers # {} \/ reqTimer # {} \/ initTimer
                       \/ \E i \in DOMAIN sockets : sockets[i] # "closed")))
    /\ UNCHANGED <<page, initTimer, reqTimer, killed, intruded>>

\* UI.connect: the button is on the connection panel.
UiConnect ==
    /\ page = "ui"
    /\ button = "connect"
    /\ "connect" \in panels
    /\ connect(toggleConnectPanel(closeSettingsMenu(panels)))

ConsoleLoad ==
    /\ page = "console"
    /\ sockets = <<>>
    /\ connect(panels)

\* UI.disconnect ends with the connection panel open.
UiDisconnect ==
    /\ page = "ui"
    /\ told \notin Offline
    /\ updateState("disconnect", sockets, {"connect"})
    /\ UNCHANGED <<page, initTimer, reqTimer, password, unread, history>>

\* that.sendPassword: the state is set without updateState.
sendPassword ==
    /\ rfb_state' = "Authentication"
    /\ password' = TRUE
    /\ initTimer' = TRUE
    /\ UNCHANGED <<page, sockets, timers, reqTimer, unread, grabbed, told,
                   leftover, killed, intruded>>

\* Mutant: the button goes on sending passwords.
UiSetPassword_Again ==
    /\ page = "ui"
    /\ button = "password"
    /\ "connect" \in panels
    /\ sendPassword
    /\ UNCHANGED button
    /\ panels' = toggleConnectPanel(panels)

\* UI.setPassword: the button is given UI.Connect, which there is not.
UiSetPassword ==
    /\ page = "ui"
    /\ button = "password"
    /\ "connect" \in panels
    /\ sendPassword
    /\ button' = "none"
    /\ panels' = toggleConnectPanel(panels)

\* setPassword of console-vnc.html: Enter sends the password and leaves the
\* dialog, whose button sends it again.
ConsoleSetPassword ==
    /\ page = "console"
    /\ "dialog" \in panels
    /\ sendPassword
    /\ panels' \in {{"dialog"}, {}}
    /\ UNCHANGED button

\* The buttons that open and close a panel.
Toggle ==
    /\ page = "ui"
    /\ panels' \in {toggleConnectPanel(panels), toggleClipboardPanel(panels),
                    toggleSettingsPanel(panels)}
    /\ UNCHANGED <<page, rfb_state, sockets, timers, initTimer, reqTimer,
                   password, unread, grabbed, told, button, history>>

Next ==
    \/ onopen \/ onmessage
    \/ \E i \in DOMAIN sockets : onclose(i)
    \/ \E i \in 0..cur : FailTimer(i)
    \/ \E i \in 1..cur : ReqTimer(i)
    \/ InitTimer \/ ConnTimer \/ DisconnTimer
    \/ flushClient
    \/ UiConnect \/ ConsoleLoad \/ UiDisconnect
    \/ UiSetPassword \/ ConsoleSetPassword
    \/ Toggle

ClosingHeard(i) == i \in 1..cur /\ sockets[i] = "closing" /\ onclose(i)

\* Timers fire, and a websocket that is closed says so.
Fairness ==
    /\ WF_vars(DisconnTimer)
    /\ WF_vars(InitTimer)
    /\ \A i \in 0..MaxSockets : WF_vars(FailTimer(i)) /\ WF_vars(ClosingHeard(i))

Spec == Init /\ [][Next]_vars /\ Fairness

-----------------------------------------------------------------------------
(* Properties *)

\* With every variable in its type, there is at most one connection at a time,
\* the current one, and none in the states in which updateState makes "sure we
\* are closed".
OneLiveSocket ==
    /\ TypeOK
    /\ \A i \in DOMAIN sockets : sockets[i] \in Live => i = cur
    /\ rfb_state \in Closing \ {"connect"} => NoneLive(sockets)

\* With ui.js, a connection that began after everything of the earlier ones
\* was over is never ended, nor its handshake disturbed, by one of them.
CleanRestart == page = "ui" /\ ~leftover => ~killed /\ ~intruded

\* With ui.js, a session that is connected stays so until it ends: no part
\* of the handshake runs in it again.
NormalUntilTheEnd ==
    [][page = "ui" /\ rfb_state = "normal"
         => rfb_state' \in {"normal", "connect", "disconnect", "failed", "disconnected"}]_vars

\* Whoever disconnects is told, soon, that the session is over, whether the
\* server answers or not.
DisconnectEnds == told = "disconnect" ~> told # "disconnect"

=============================================================================
