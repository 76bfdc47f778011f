----------------------------- MODULE SpiceWire -----------------------------
(***************************************************************************)
(* One channel of the SPICE client from its socket to its messages: the    *)
(* reader that cuts the stream into the parts the client asks for          *)
(* (wire.js), and the link, the ticket and the acknowledgements that every *)
(* channel shares (spiceconn.js).  The socket delivers the bytes of the    *)
(* server in pieces of any size.                                           *)
(*                                                                         *)
(* What is read is determined by where in the stream it lies, so a buffer  *)
(* is a number of bytes and the client knows how many it has consumed.     *)
(***************************************************************************)
EXTENDS Naturals, Sequences, SequencesExt

CONSTANTS
  LINK_HEADER, LINK_REPLY, AUTH_REPLY, MINI_DATA,   \* sizes, in some unit
  Messages,     \* what the server may send: [kind, size]
  Windows,      \* windows of SPICE_MSG_SET_ACK
  MaxMessages   \* messages the server sends at most

None == [kind |-> "none", size |-> 0]

VARIABLES
  stream,     \* parts the server has written: [part, size, message, at]
  written,    \* messages among them
  wire,       \* bytes of them not delivered
  state,      \* "connecting", "start", "link", "ticket", "ready", "error"
  needed, saved_msg_header, buffers,   \* the SpiceWireReader
  consumed,   \* bytes handed to process_inbound
  handled,    \* messages handed to process_message, "garbage" included
  ack_window, msgs_until_ack,
  replies,    \* acks, pongs and ack-syncs sent
  unacked,    \* messages since the last ack or SET_ACK
  raised      \* an exception left the socket's handler

wvars == <<stream, written, wire, state, needed, saved_msg_header, buffers, consumed, handled,
           ack_window, msgs_until_ack, replies, unacked, raised>>

Init ==
  /\ stream = <<>> /\ written = <<>> /\ wire = 0 /\ state = "connecting" /\ needed = 0
  /\ saved_msg_header = None /\ buffers = <<>> /\ consumed = 0 /\ handled = <<>>
  /\ ack_window = 0 /\ msgs_until_ack = 0 /\ replies = <<>> /\ unacked = 0 /\ raised = FALSE

-----------------------------------------------------------------------------
(* The server (external): it links, checks the ticket and sends messages.  *)

End(parts) == IF parts = <<>> THEN 0 ELSE Last(parts).at + Last(parts).size

Part(part, size, message) == [part |-> part, size |-> size, message |-> message, at |-> 0]

\* A part goes behind what has been written.
Behind(parts, p) == Append(parts, [p EXCEPT !.at = End(parts)])

Wrote(parts) ==
  /\ stream' = parts
  /\ wire' = wire + End(parts) - End(stream)

\* good: the magic, the reply and the ticket are in order.
ServerLinks ==
  /\ state = "start" /\ stream = <<>>
  /\ \E good \in BOOLEAN, fine \in BOOLEAN :
       Wrote(Behind(Behind(stream, Part(IF good THEN "linkheader" ELSE "nomagic", LINK_HEADER, None)),
                    Part(IF fine THEN "linkreply" ELSE "linkerror", LINK_REPLY, None)))
  /\ UNCHANGED <<written, state, needed, saved_msg_header, buffers, consumed, handled, ack_window,
                 msgs_until_ack, replies, unacked, raised>>

ServerAuthenticates ==
  /\ state = "ticket" /\ Len(stream) = 2
  /\ \E good \in BOOLEAN :
       Wrote(Behind(stream, Part(IF good THEN "auth" ELSE "denied", AUTH_REPLY, None)))
  /\ UNCHANGED <<written, state, needed, saved_msg_header, buffers, consumed, handled, ack_window,
                 msgs_until_ack, replies, unacked, raised>>

\* The server does not wait to be told that the client is ready.
ServerSends ==
  /\ Len(stream) >= 3 /\ stream[3].part = "auth"
  /\ Len(written) < MaxMessages
  /\ \E m \in Messages :
       LET header == Behind(stream, Part("header", MINI_DATA, m))
       IN /\ Wrote(IF m.size = 0 THEN header ELSE Behind(header, Part("body", m.size, m)))
          /\ written' = Append(written, m)
  /\ UNCHANGED <<state, needed, saved_msg_header, buffers, consumed, handled, ack_window,
                 msgs_until_ack, replies, unacked, raised>>

-----------------------------------------------------------------------------
(* process_inbound, on the fields of the connection r.                     *)

Conn == [state |-> state, needed |-> needed, saved |-> saved_msg_header, buffers |-> buffers,
         consumed |-> consumed, handled |-> handled, window |-> ack_window,
         until |-> msgs_until_ack, replies |-> replies, unacked |-> unacked, raised |-> raised]

\* The part of the stream that lies at a position, if one begins there and
\* has that size.
At(pos, size) ==
  LET begins == {i \in DOMAIN stream : stream[i].at = pos /\ stream[i].size = size}
  IN IF begins = {} THEN Part("garbage", size, None) ELSE stream[CHOOSE i \in begins : TRUE]

Reply(r, what) == [r EXCEPT !.replies = Append(@, what)]

\* The messages every channel takes: SPICE_MSG_SET_ACK, SPICE_MSG_PING, and
\* SPICE_MSG_NOTIFY, which only logs.
process_common_messages(r, m) ==
  CASE m.kind = "set_ack" ->
         Reply([r EXCEPT !.window = m.window, !.until = m.window, !.unacked = 0], "ack_sync")
    [] m.kind = "ping"    -> Reply(r, "pong")
    [] OTHER              -> r

\* The end of process_message: the ack that is due after a window.
CountAck(r, m) ==
  IF r.window = 0 THEN r
  ELSE IF r.until - 1 <= 0
  THEN [Reply(r, "ack") EXCEPT !.until = r.window, !.unacked = 0]
  ELSE [r EXCEPT !.until = @ - 1]

\* A channel's own handler may raise: what follows it is not done, neither
\* here nor in inbound.
process_message(r, m) ==
  LET s == [r EXCEPT !.handled = Append(@, m), !.unacked = @ + 1]
  IN IF m.kind = "raises" THEN [s EXCEPT !.raised = TRUE]
     ELSE CountAck(process_common_messages(s, m), m)

Request(r, n) == IF r.raised THEN r ELSE [r EXCEPT !.needed = n]
SaveHeader(r, m) == IF r.raised THEN r ELSE [r EXCEPT !.saved = m]

process_ready(r, part) ==
  IF r.saved = None
  THEN IF part.message.size = 0
       THEN Request(process_message(r, part.message), MINI_DATA)
       ELSE SaveHeader(Request(r, part.message.size), part.message)
  ELSE SaveHeader(Request(process_message(r, r.saved), MINI_DATA), None)

Failed(r) == [r EXCEPT !.state = "error", !.replies = Append(@, "error")]

process_inbound(r, part) ==
  CASE r.state = "ready"  -> process_ready(r, part)
    [] r.state = "start"  -> IF part.part = "linkheader"
                             THEN Request([r EXCEPT !.state = "link"], LINK_REPLY)
                             ELSE Failed(r)
    [] r.state = "link"   -> IF part.part = "linkreply"
                             THEN Request(Reply([r EXCEPT !.state = "ticket"], "ticket"), AUTH_REPLY)
                             ELSE Failed(r)
    [] r.state = "ticket" -> IF part.part = "auth"
                             THEN Request([r EXCEPT !.state = "ready"], MINI_DATA)
                             ELSE Failed(r)
    [] OTHER              -> r

-----------------------------------------------------------------------------
(* The reader.                                                             *)

\* The callback on the next needed bytes.
Call(r) == process_inbound([r EXCEPT !.consumed = @ + r.needed], At(r.consumed, r.needed))

\* The fragments at the front are combined until there is enough.
Combined(parts, n) ==
  LET upto[i \in 1..Len(parts)] ==
        IF i = 1 THEN <<parts[1]>>
        ELSE IF Len(upto[i - 1]) = 1 /\ upto[i - 1][1] < n THEN <<upto[i - 1][1] + parts[i]>>
        ELSE Append(upto[i - 1], parts[i])
  IN  IF parts = <<>> THEN parts ELSE upto[Len(parts)]

Rest(n, needs) == IF n > needs THEN <<n - needs>> ELSE <<>>

\* A part that is complete is taken.
Turn(r) ==
  IF r.raised \/ r.buffers = <<>> \/ Head(r.buffers) < r.needed THEN r
  ELSE Call([r EXCEPT !.buffers = Rest(Head(@), r.needed) \o Tail(@)])

\* The loop takes every part that is complete; an exception leaves it and
\* inbound.  Each turn takes a byte at least of those that were written.
Drain(r) ==
  LET after[turn \in 0..End(stream)] == IF turn = 0 THEN r ELSE Turn(after[turn - 1])
  IN  after[End(stream)]

\* A fragment that holds a whole part is cut at once, if none is before it.
Arrives(r, n) ==
  IF r.buffers = <<>> /\ n >= r.needed
  THEN Call([r EXCEPT !.buffers = Rest(n, r.needed)])
  ELSE [r EXCEPT !.buffers = Append(@, n)]

\* The fragments at the front are combined, unless an exception left before.
Gather(r) ==
  IF r.raised THEN r ELSE Drain([r EXCEPT !.buffers = Combined(@, r.needed)])

\* The first fragment is looked at alone.
inbound_Uncombined(r, n) ==
  IF r.needed = 0 THEN [r EXCEPT !.buffers = Append(@, n)] ELSE Drain(Arrives(r, n))

inbound(r, n) ==
  IF r.needed = 0 THEN [r EXCEPT !.buffers = Append(@, n)] ELSE Gather(Arrives(r, n))

-----------------------------------------------------------------------------

\* The open event: send_hdr, and the first request.
Open ==
  /\ state = "connecting"
  /\ state' = "start" /\ needed' = LINK_HEADER /\ replies' = Append(replies, "link")
  /\ UNCHANGED <<stream, written, wire, saved_msg_header, buffers, consumed, handled, ack_window,
                 msgs_until_ack, unacked, raised>>

\* wire_blob_catcher on the next n bytes.  After an exception the reader no
\* longer knows what it needs; the model stops there.
Deliver ==
  /\ ~raised
  /\ \E n \in 1..wire :
       LET r == inbound(Conn, n)
       IN /\ wire' = wire - n
          /\ state' = r.state /\ needed' = r.needed /\ saved_msg_header' = r.saved
          /\ buffers' = r.buffers /\ consumed' = r.consumed /\ handled' = r.handled
          /\ ack_window' = r.window /\ msgs_until_ack' = r.until /\ replies' = r.replies
          /\ unacked' = r.unacked /\ raised' = r.raised
  /\ UNCHANGED <<stream, written>>

Next == ServerLinks \/ ServerAuthenticates \/ ServerSends \/ Open \/ Deliver

-----------------------------------------------------------------------------

\* Whatever the pieces, process_message gets the messages of the server, each
\* once and in order, and none that has arrived whole is left in the reader.
ReadsAnyPieces ==
  /\ IsPrefix(handled, written)
  /\ wire = 0 /\ state = "ready" /\ ~raised => handled = written

\* No window of messages after SET_ACK goes without an ack (the first comes one
\* message early, as SET_ACK counts itself).
AcksEveryWindow ==
  ack_window > 0 /\ ~raised =>
    unacked < ack_window /\ msgs_until_ack \in 1..(ack_window - unacked)
=============================================================================
