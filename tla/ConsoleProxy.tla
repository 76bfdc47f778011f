---------------------------- MODULE ConsoleProxy ----------------------------
(***************************************************************************)
(* One console session: the websocket of the browser, the TCP socket to    *)
(* the display server of the domain, and the four callbacks Ws::index      *)
(* connects to relay bytes between them.                                   *)
(*                                                                         *)
(* The k-th byte the client sends is the number k; frames have 1 to        *)
(* FrameMax bytes.  Of what the server sends only one thing matters here:  *)
(* that a VNC client says nothing before the server spoke (novnc/rfb.js),  *)
(* while a SPICE client speaks first, as soon as its websocket is open     *)
(* (spice-html5/spiceconn.js).                                             *)
(***************************************************************************)
EXTENDS Naturals, Sequences

CONSTANTS FrameMax,    \* the longest frame
          ByteMax      \* where the client stops

ASSUME FrameMaxAssumption == FrameMax \in Nat \ {0}
ASSUME ByteMaxAssumption == ByteMax \in Nat

VARIABLES
  kind,      \* the display of the domain, which chose the page's client
  ws,        \* the websocket
  sock,      \* the TCP socket
  buf,       \* the QBuffer for frames that come before the connection
  sent,      \* how many bytes the client sent
  greeted,   \* whether bytes of the server reached the client
  toServer,  \* the bytes written to the socket, in order
  mark       \* sent and Len(toServer) once connected (not in the code)

vars == <<kind, ws, sock, buf, sent, greeted, toServer, mark>>

Kind == {"vnc", "spice"}
Ws   == {"new", "refused", "open", "closing", "gone"}

\* "unheard": the connection failed inside connectToHost, before the callback
\* for errors was there to hear of it.
Sock == {"none", "connecting", "connected", "off", "unheard"}

Buffer == [open : BOOLEAN, data : Seq(Nat), pos : Nat]

TypeOK ==
  /\ kind \in Kind
  /\ ws \in Ws
  /\ sock \in Sock
  /\ buf \in Buffer
  /\ buf.pos <= Len(buf.data)
  /\ sent \in 0..ByteMax
  /\ greeted \in BOOLEAN
  /\ toServer \in Seq(1..ByteMax)
  /\ mark \in [sent : 0..ByteMax, len : 0..ByteMax]

-----------------------------------------------------------------------------
(* QBuffer (external)                                                      *)

\* open(ReadWrite) goes back to the start and truncates nothing.
Open(b) == [b EXCEPT !.open = TRUE, !.pos = 0]

\* write goes over what is there, and leaves the position behind its last byte.
Write(b, bytes) ==
  LET end == b.pos + Len(bytes)
      len == IF end > Len(b.data) THEN end ELSE Len(b.data)
  IN [b EXCEPT !.pos = end,
               !.data = [i \in 1..len |-> IF b.pos < i /\ i <= end
                                          THEN bytes[i - b.pos] ELSE b.data[i]]]

\* readAll returns what lies behind the position.
ReadAll(b) == SubSeq(b.data, b.pos + 1, Len(b.data))

Close(b) == [b EXCEPT !.open = FALSE, !.pos = 0]

-----------------------------------------------------------------------------

\* Console::index picks the page by the type of the domain's display.
Init ==
  /\ kind \in Kind
  /\ ws = "new" /\ sock = "none"
  /\ buf = [open |-> FALSE, data |-> <<>>, pos |-> 0]
  /\ sent = 0 /\ greeted = FALSE /\ toServer = <<>>
  /\ mark = [sent |-> 0, len |-> 0]

\* Ws::index: no connection, no such domain, or no handshake.
Refuse ==
  /\ ws = "new" /\ ws' = "refused"
  /\ UNCHANGED <<kind, sock, buf, sent, greeted, toServer, mark>>

\* Ws::index: the handshake is answered and the socket starts to connect; an
\* outcome that is known at once precedes the callbacks.
Index ==
  /\ ws = "new" /\ ws' = "open"
  /\ sock' \in {"connecting", "connected", "unheard"}
  /\ UNCHANGED <<kind, buf, sent, greeted, toServer, mark>>

\* Callback of QTcpSocket::connected.
Connected ==
  /\ sock = "connecting" /\ sock' = "connected"
  /\ IF buf.open
     THEN toServer' = toServer \o ReadAll(buf) /\ buf' = Close(buf)
     ELSE UNCHANGED <<toServer, buf>>
  /\ mark' = [sent |-> sent, len |-> Len(toServer')]
  /\ UNCHANGED <<kind, ws, sent, greeted>>

CloseWs == ws' = IF ws = "open" THEN "closing" ELSE ws

\* Mutant: the callback of QTcpSocket::disconnected only logs.
Ended_Silent ==
  /\ sock \in {"connecting", "connected"} /\ sock' = "off"
  /\ IF sock = "connecting" THEN CloseWs ELSE UNCHANGED ws
  /\ UNCHANGED <<kind, buf, sent, greeted, toServer, mark>>

\* Callbacks of QAbstractSocket::error and QTcpSocket::disconnected.
Ended ==
  /\ sock \in {"connecting", "connected"} /\ sock' = "off"
  /\ CloseWs
  /\ UNCHANGED <<kind, buf, sent, greeted, toServer, mark>>

\* Callback of QTcpSocket::readyRead: the websocket gets all there is.
ReadyRead ==
  /\ sock = "connected" /\ ws = "open"
  /\ greeted' = TRUE
  /\ UNCHANGED <<kind, ws, sock, buf, sent, toServer, mark>>

\* The client (external): what it sends next, if it may speak.
NextFrame(n) == [i \in 1..n |-> sent + i]
MaySpeak == kind = "vnc" => greeted

\* Mutant: a frame is buffered until the server has spoken.
Frame_Late(n) ==
  /\ ws \in {"open", "closing"} /\ MaySpeak
  /\ sent + n <= ByteMax /\ sent' = sent + n
  /\ IF sock # "connected" \/ ~greeted
     THEN /\ buf' = Write(Open(buf), NextFrame(n))
          /\ UNCHANGED toServer
     ELSE /\ toServer' = toServer \o NextFrame(n)
          /\ UNCHANGED buf
  /\ UNCHANGED <<kind, ws, sock, greeted, mark>>

\* Mutant: the callback has the socket's state of when it was connected.
Frame_Stale(n) ==
  /\ ws \in {"open", "closing"} /\ MaySpeak
  /\ sent + n <= ByteMax /\ sent' = sent + n
  /\ buf' = Write(Open(buf), NextFrame(n))
  /\ UNCHANGED <<kind, ws, sock, greeted, toServer, mark>>

\* Callback of Request::webSocketBinaryFrame, with a frame of n bytes.
Frame(n) ==
  /\ ws \in {"open", "closing"} /\ MaySpeak
  /\ sent + n <= ByteMax /\ sent' = sent + n
  /\ IF sock # "connected"
     THEN /\ buf' = Write(Open(buf), NextFrame(n))
          /\ UNCHANGED toServer
     ELSE /\ toServer' = toServer \o NextFrame(n)
          /\ UNCHANGED buf
  /\ UNCHANGED <<kind, ws, sock, greeted, mark>>

\* The browser goes (external): the Context is destroyed, and with it the
\* socket, the buffer and the callbacks.
Leave ==
  /\ ws \in {"open", "closing"} /\ ws' = "gone"
  /\ sock' = "off"
  /\ UNCHANGED <<kind, buf, sent, greeted, toServer, mark>>

Next == \/ Refuse \/ Index \/ Connected \/ Ended \/ ReadyRead \/ Leave
        \/ \E n \in 1..FrameMax : Frame(n)

Spec == Init /\ [][Next]_vars

-----------------------------------------------------------------------------
(* Properties                                                              *)

Numbers(from, n) == [i \in 1..n |-> from + i]

\* The VNC server gets the client's bytes, all of them while the connection
\* lasts, each once and in order: since that client waits for the server, no
\* frame of it ever goes through the buffer before the connection stands.
VncStream ==
  kind = "vnc" =>
    /\ toServer = Numbers(0, Len(toServer))
    /\ sock = "connected" => Len(toServer) = sent

\* Whatever became of the earlier bytes, those sent once the socket is
\* connected reach the server in order and without a gap, behind what the
\* flush of the buffer wrote.
FifoOnceConnected ==
  sock = "connected" =>
    SubSeq(toServer, mark.len + 1, Len(toServer))
      = Numbers(mark.sent, sent - mark.sent)

\* No byte is written to the server twice, through the buffer and directly.
NoByteTwice ==
  \A i, j \in DOMAIN toServer : toServer[i] = toServer[j] => i = j

\* Nothing is relayed to the display out of order or twice once the connection
\* stands, through the buffer or past it.
RelayedOnce == TypeOK /\ FifoOnceConnected /\ NoByteTwice

\* The browser does not keep an open websocket to a display that is gone,
\* unless the connection failed before anything listened for that.
NoHalfOpen == sock = "off" => ws # "open"

=============================================================================
