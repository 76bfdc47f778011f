---------------------------- MODULE SpiceSession ----------------------------
(***************************************************************************)
(* A SPICE session of the console page: the connection of the main channel *)
(* and those of the channels the server lists (main.js, spiceconn.js), and *)
(* what the page does with them (console-spice.html).  Each connection has *)
(* a socket, the states of the link handshake, and a timer of 30 seconds.  *)
(*                                                                         *)
(* Connection 0 is the main channel; the others are numbered in the order  *)
(* of the list.  The network may close a socket or fail it at any time.    *)
(* The bytes are those of module SpiceWire; here a message is one event.   *)
(***************************************************************************)
EXTENDS Naturals, FiniteSets

CONSTANTS
  Types,         \* types of the channels the server may list: "display",
                 \* "inputs", "cursor", "playback", "other"
  MaxChannels    \* channels in a list

VARIABLES
  conns,       \* connections by number: [type, state, ws, timer]
  slots,       \* sc.display, sc.inputs, sc.cursor: the connection, if any
  extra,       \* extra_channels
  progress,    \* what the main channel has done: "none", "init", "attached", "listed"
  derailed,    \* an exception in a handler has left the reader of the main
               \* channel with the header of the message it was handling
  told         \* the page has logged an error of the session

svars == <<conns, slots, extra, progress, derailed, told>>

Conn(type) == [type |-> type, state |-> "connecting", ws |-> "connecting", timer |-> TRUE]

Init ==
  /\ conns = [c \in {0} |-> Conn("main")] /\ slots = <<>> /\ extra = {}
  /\ progress = "none" /\ derailed = FALSE /\ told = FALSE

-----------------------------------------------------------------------------
(* The end of a session.                                                   *)

\* SpiceConn.cleanup: the timer is cleared and the socket closed.
cleanup(conn) ==
  [conn EXCEPT !.timer = FALSE, !.ws = IF @ = "closed" THEN @ ELSE "closing"]

\* SpiceMainConn.stop, called by disconnect() of the page.
stop_MainOnly(cs) == [cs EXCEPT ![0] = cleanup([@ EXCEPT !.state = "closing"])]

stop(cs) ==
  [c \in DOMAIN cs |->
     IF c = 0 THEN cleanup([cs[0] EXCEPT !.state = "closing"])
     ELSE IF c \in extra \/ \E s \in DOMAIN slots : slots[s] = c THEN cleanup(cs[c])
     ELSE cs[c]]

\* report_error: onerror of the main channel is spice_error of the page, which
\* disconnects; the other channels have none, and the error is an exception.
report_error(cs, c) ==
  IF c = 0
  THEN conns' = stop(cs) /\ slots' = <<>> /\ extra' = {} /\ told' = TRUE
  ELSE conns' = cs /\ UNCHANGED <<slots, extra, told>>

Fails(c) == report_error([conns EXCEPT ![c].state = "error"], c)

Enters(c, state) ==
  /\ conns' = [conns EXCEPT ![c].state = state]
  /\ UNCHANGED <<slots, extra, told>>

-----------------------------------------------------------------------------
(* Events of the sockets.                                                  *)

\* 'open': the link header goes out.
Opened ==
  /\ \E c \in DOMAIN conns :
       /\ conns[c].ws = "connecting"
       /\ conns' = [conns EXCEPT ![c].ws = "open", ![c].state = "start"]
  /\ UNCHANGED <<slots, extra, progress, derailed, told>>

\* The header of the reply, and the reply: magic mismatch or a link error fail.
LinkHeader ==
  /\ \E c \in DOMAIN conns :
       /\ conns[c].ws = "open" /\ conns[c].state = "start"
       /\ Enters(c, "link") \/ Fails(c)
  /\ UNCHANGED <<progress, derailed>>

LinkReply ==
  /\ \E c \in DOMAIN conns :
       /\ conns[c].ws = "open" /\ conns[c].state = "link"
       /\ Enters(c, "ticket") \/ Fails(c)
  /\ UNCHANGED <<progress, derailed>>

\* The answer to the ticket: the channel is ready and its timer cleared, or
\* permission is denied.
Ready(c) ==
  /\ conns' = [conns EXCEPT ![c].state = "ready", ![c].timer = FALSE]
  /\ UNCHANGED <<slots, extra, told>>

AuthReply_Ticking ==
  /\ \E c \in DOMAIN conns :
       /\ conns[c].ws = "open" /\ conns[c].state = "ticket"
       /\ Enters(c, "ready") \/ Fails(c)
  /\ UNCHANGED <<progress, derailed>>

AuthReply ==
  /\ \E c \in DOMAIN conns :
       /\ conns[c].ws = "open" /\ conns[c].state = "ticket"
       /\ Ready(c) \/ Fails(c)
  /\ UNCHANGED <<progress, derailed>>

\* 'error', which the event 'close' follows: report_error of the event.
SocketError ==
  /\ \E c \in DOMAIN conns :
       /\ conns[c].ws # "closed"
       /\ report_error([conns EXCEPT ![c].ws = "closed"], c)
  /\ UNCHANGED <<progress, derailed>>

\* 'close': an error of the session unless it was closing or in error; the
\* close of another channel goes unnoticed.
SocketClose ==
  /\ \E c \in DOMAIN conns :
       /\ conns[c].ws # "closed"
       /\ LET closed == [conns EXCEPT ![c].ws = "closed"]
          IN IF c = 0 /\ conns[c].state \notin {"closing", "error"}
             THEN report_error(closed, c)
             ELSE conns' = closed /\ UNCHANGED <<slots, extra, told>>
  /\ UNCHANGED <<progress, derailed>>

\* spiceconn_timeout, handle_timeout.
Timeout_Logged(c) ==
  /\ conns[c].timer
  /\ conns' = [conns EXCEPT ![c].timer = FALSE] /\ UNCHANGED <<slots, extra, told>>
  /\ UNCHANGED <<progress, derailed>>

Timeout(c) ==
  /\ conns[c].timer
  /\ report_error([conns EXCEPT ![c].timer = FALSE], c)
  /\ UNCHANGED <<progress, derailed>>

-----------------------------------------------------------------------------
(* Messages of the main channel.                                           *)

Hears == conns[0].ws = "open" /\ conns[0].state = "ready" /\ ~derailed

\* connect_agent calls onagent, which is agent_connected of the page.  Its
\* resize_helper reads the offset of the element sc.message_id; the page gives
\* none, and the handler ends with an exception.
connect_agent == derailed' = TRUE

\* SPICE_MSG_MAIN_INIT, and ATTACH_CHANNELS, which follows connect_agent when
\* the guest has an agent.
MainInit ==
  /\ Hears /\ progress = "none"
  /\ \/ progress' = "attached" /\ UNCHANGED derailed
     \/ progress' = "init" /\ connect_agent
  /\ UNCHANGED <<conns, slots, extra, told>>

\* SPICE_MSG_MAIN_AGENT_CONNECTED or AGENT_CONNECTED_TOKENS.
AgentConnected ==
  /\ Hears /\ progress # "none"
  /\ connect_agent
  /\ UNCHANGED <<conns, slots, extra, progress, told>>

\* Where the connection of a channel is kept; playback has the slot of cursor.
SlotOf(type) == IF type = "playback" THEN "cursor" ELSE type

\* SPICE_MSG_MAIN_CHANNELS_LIST: a connection for each channel of the list; a
\* later one takes the slot of an earlier one.
ChannelsList ==
  /\ Hears /\ progress = "attached"
  /\ \E n \in 0..MaxChannels : \E list \in [1..n -> Types] :
       LET kept   == {c \in 1..n : list[c] # "other"}
           used   == {SlotOf(list[c]) : c \in kept}
           Last(s) == CHOOSE c \in kept : SlotOf(list[c]) = s /\
                        \A d \in kept : SlotOf(list[d]) = s => d <= c
       IN /\ conns' = [c \in 0..n |-> IF c = 0 THEN conns[0] ELSE Conn(list[c])]
          /\ slots' = [s \in used |-> Last(s)]
          /\ extra' = (1..n) \ kept
  /\ progress' = "listed"
  /\ UNCHANGED <<derailed, told>>

Next ==
  \/ Opened \/ LinkHeader \/ LinkReply \/ AuthReply \/ SocketError \/ SocketClose
  \/ \E c \in DOMAIN conns : Timeout(c)
  \/ MainInit \/ AgentConnected \/ ChannelsList

\* A timer of the browser fires unless it is cleared.
Spec == Init /\ [][Next]_svars /\ WF_svars(Timeout(0))

-----------------------------------------------------------------------------

\* Connections that lost their slot to a later one of the list.
Displaced ==
  {c \in DOMAIN conns \ {0} : \E d \in DOMAIN conns :
     /\ d > c /\ conns[c].type # "other" /\ SlotOf(conns[d].type) = SlotOf(conns[c].type)}

\* When the session has been stopped, for whatever reason and in whatever
\* state its channels were, no socket of it stays open and no timer of it is
\* left to go off, except those of a connection that lost its slot (a second
\* display, or the cursor when the guest has sound).
NothingLeftOpen ==
  conns[0].state = "closing" =>
    /\ told
    /\ \A c \in DOMAIN conns \ Displaced :
         conns[c].ws \in {"closing", "closed"} /\ ~conns[c].timer

\* A session that is ready ends only with its socket: no timer of the
\* handshake, and nothing that happens to another channel, takes it down.
ReadyUntilClosed ==
  [][conns[0].state = "ready" /\ conns'[0].state # "ready" => conns'[0].ws = "closed"]_svars

\* A handler the page passes for the agent (onagent) does not stop the channel
\* that calls it.
AgentWelcome == ~derailed
=============================================================================
