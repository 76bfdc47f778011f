------------------------------ MODULE RfbStream ------------------------------
(***************************************************************************)
(* How the VNC client of static/js/novnc/rfb.js reads what a server sends. *)
(*                                                                         *)
(* A server's messages reach the client in pieces that respect no          *)
(* boundary: Receive delivers any part of what is under way.  Each piece   *)
(* runs handle_message to its end; a message that is not there yet must be *)
(* left, or remembered in FBU, so that a later piece continues it.  The    *)
(* bytes are numbers where the client looks at them, and Pad elsewhere, a  *)
(* number that is no message type, no encoding and no subencoding.         *)
(* Where the client does not wait for the bytes of a header it may take    *)
(* data for headers (torn says which); a subencoding that no server sends, *)
(* on which the client fails or throws, comes only from there, and what it *)
(* does with one is left out.                                              *)
(*                                                                         *)
(* The loops of a handler are steps of their own: pc is where the handler  *)
(* is, and nothing else happens before it is idle again.                   *)
(***************************************************************************)
EXTENDS Websock, SequencesExt

CONSTANTS
    Handshakes,  \* servers: records with the version, the schemes, the verdict,
                 \* and how many items they send once connected
    Items,       \* what a server may send once connected
    Passwords    \* {TRUE}, {FALSE}: whether the page knows the password

\* The version is the minor number of the protocol the client takes it for;
\* any other is refused at once.
Handshake == [version : {3, 7, 8}, types : Seq(Nat), admits : BOOLEAN,
              repeater : BOOLEAN, says : Nat]

ASSUME HandshakesAssumption == Handshakes \subseteq Handshake /\ Handshakes # {}

VARIABLES
    rfb_state, rfb_auth_scheme,
    rfb_password,       \* a password is known
    FBU,                \* the framebuffer update in progress
    initTimer,          \* sendPassword's timer that calls init_msg is set
    msgTimer,           \* the timer that calls handle_message again is set
    sendTimer,          \* the timer that calls ws.flush is running
    pc, ret,            \* where the handler is; what normal_msg returned
    inRecv,             \* it was called by recv_message, not by msgTimer
    server, phase,      \* the server, and what it is about to do
    net,                \* bytes under way to the client
    sent, out,          \* messages the server sent, and the client understood
    torn                \* headers that came in pieces and were not waited for
                        \* (not in the code)

client == <<rfb_state, rfb_auth_scheme, rfb_password, initTimer>>
control == <<pc, ret, inRecv>>
world == <<server, phase, net, sent>>
vars == <<recvVars, sendVars, client, FBU, msgTimer, sendTimer, control, world, out, torn>>

Pad == 200
Pads(n) == [i \in 1..n |-> Pad]
Bpp == 4        \* bytes of a pixel, fb_Bpp in true colour
Depth == 3      \* bytes of a TPIXEL, fb_depth
DivUp(a, b) == (a + b - 1) \div b
Least(a, b) == IF a < b THEN a ELSE b
Sum(s) == FoldLeft(LAMBDA a, b : a + b, 0, s)

-----------------------------------------------------------------------------
(* The server: what it sends, and what a client should understand.          *)

\* Encodings by the last byte of their number.
Code == [RAW |-> 0, COPYRECT |-> 1, RRE |-> 2, HEXTILE |-> 5, TIGHT |-> 7,
         last_rect |-> 32, DesktopSize |-> 33, Cursor |-> 17]
EncName(b) == {e \in DOMAIN Code : Code[e] = b}

\* The flags of a hextile subencoding.
Has(sub, flag) == (sub \div flag) % 2 = 1
Raw == 1
Background == 2
Foreground == 4
AnySubrects == 8
Coloured == 16

\* Bytes of a tile before the count of its subrectangles, and in all.
TileHead(sub) == 1 + (IF Has(sub, Background) THEN Bpp ELSE 0)
                   + (IF Has(sub, Foreground) THEN Bpp ELSE 0)
TileSize(sub, w, h, n) ==
    IF Has(sub, Raw)
    THEN 1 + (w * h * Bpp)
    ELSE TileHead(sub) + IF Has(sub, AnySubrects)
                         THEN 1 + (n * IF Has(sub, Coloured) THEN Bpp + 2 ELSE 2)
                         ELSE 0

\* A tile [sub, n]: its subencoding and the number of its subrectangles.
TileBytes(t, w, h) ==
    LET size == TileSize(t.sub, w, h, t.n)
        head == TileHead(t.sub)
    IN  <<t.sub>> \o
        IF ~Has(t.sub, Raw) /\ Has(t.sub, AnySubrects)
        THEN Pads(head - 1) \o <<t.n>> \o Pads(size - head - 1)
        ELSE Pads(size - 1)

\* The width and height of the i-th tile of a rectangle.
TileW(i, w) == Least(16, w - (16 * (i % DivUp(w, 16))))
TileH(i, w, h) == Least(16, h - (16 * (i \div DivUp(w, 16))))

RectBody(r) ==
    CASE r.enc = "RAW" -> Pads(r.w * r.h * Bpp)
      [] r.enc = "COPYRECT" -> Pads(4)
      [] r.enc = "RRE" -> <<0, 0, 0, r.n>> \o Pads(Bpp) \o Pads(r.n * (Bpp + 8))
      [] r.enc = "HEXTILE" ->
           FlattenSeq([i \in 1..Len(r.tiles) |->
               TileBytes(r.tiles[i], TileW(i - 1, r.w), TileH(i - 1, r.w, r.h))])
      [] r.enc = "TIGHT" -> r.body
      [] r.enc = "Cursor" -> Pads(r.w * r.h * Bpp + DivUp(r.w, 8) * r.h)
      [] OTHER -> <<>>

RectBytes(r) == <<0, 0, 0, 0, 0, r.w, 0, r.h, 0, 0, 0, Code[r.enc]>> \o RectBody(r)

ItemBytes(m) ==
    CASE m.type = "bell" -> <<2>>
      [] m.type = "cut"  -> <<3>> \o Pads(3) \o <<0, 0, 0, m.n>> \o Pads(m.n)
      [] m.type = "cmap" -> <<1, Pad, 0, 0, 0, m.n>> \o Pads(6 * m.n)
      [] m.type = "fbu"  -> <<0, Pad, 0, m.n>> \o
                            FlattenSeq([i \in 1..Len(m.rects) |-> RectBytes(m.rects[i])])

\* What the client should do for a rectangle: how many lines, subrectangles,
\* tiles or bytes of data it draws.
RectMeaning(r) ==
    [type |-> r.enc,
     n |-> CASE r.enc = "RAW" -> r.h
             [] r.enc = "RRE" -> r.n
             [] r.enc = "HEXTILE" -> Len(r.tiles)
             [] r.enc = "TIGHT" -> r.n
             [] OTHER -> 0]
Meaning(m) ==
    IF m.type = "fbu"
    THEN Append([i \in 1..Len(m.rects) |-> RectMeaning(m.rects[i])],
                [type |-> "fbu", n |-> 0])
    ELSE <<[type |-> m.type, n |-> IF m.type = "bell" THEN 0 ELSE m.n]>>

\* The server takes the message it waits for.
Takes(token) == wire # <<>> /\ Head(wire) = token /\ wire' = Tail(wire)
Serve(to, bytes) ==
    /\ phase' = to
    /\ net' = net \o bytes
    /\ UNCHANGED <<recvVars, sQ, client, FBU, msgTimer, sendTimer, control,
                   server, sent, out, torn>>

VersionBytes(v) == <<v>> \o Pads(11)
Reason == <<0, 0, 0, 2>> \o Pads(2)

ServerVersion ==
    /\ phase = "version"
    /\ UNCHANGED wire
    /\ IF server.repeater
       THEN Serve("repeater", VersionBytes(0))
       ELSE Serve("greeted", VersionBytes(server.version))

ServerRepeats ==
    /\ phase = "repeater"
    /\ Takes("repeater")
    /\ Serve("greeted", VersionBytes(server.version))

\* The security types: a list, or the server's choice before version 3.7.
ServerSecurity ==
    /\ phase = "greeted"
    /\ Takes("version")
    /\ IF server.version >= 7
       THEN IF server.types = <<>>
            THEN Serve("refused", <<0>> \o Reason)
            ELSE Serve("choice", <<Len(server.types)>> \o server.types)
       ELSE CASE server.types = <<>>  -> Serve("refused", <<0, 0, 0, 0>> \o Reason)
              [] server.types = <<1>> -> Serve("init", <<0, 0, 0, 1>>)
              [] server.types = <<2>> -> Serve("response", <<0, 0, 0, 2>> \o Pads(16))
              [] OTHER -> Serve("refused", <<0, 0, 0, 16>>)

Result == <<0, 0, 0, IF server.admits THEN 0 ELSE 1>> \o
          IF server.admits \/ server.version < 8 THEN <<>> ELSE Reason
AfterResult == IF server.admits THEN "init" ELSE "refused"

ServerChosen ==
    /\ phase = "choice"
    /\ \/ /\ Takes("scheme1")
          /\ IF server.version >= 8 THEN Serve(AfterResult, Result) ELSE Serve("init", <<>>)
       \/ /\ Takes("scheme2")
          /\ Serve("response", Pads(16))

ServerResult ==
    /\ phase = "response"
    /\ Takes("response")
    /\ Serve(AfterResult, Result)

\* ServerInitialisation: 20 bytes of sizes and pixel format, and the name.
ServerInit ==
    /\ phase = "init"
    /\ Takes("init")
    /\ Serve("ready", Pads(20) \o <<0, 0, 0, 3>> \o Pads(3))

\* The client's set-up ends in a request, which the server owes an answer.
ServerSetup ==
    /\ phase = "ready"
    /\ Takes("setup")
    /\ Serve("owes", <<>>)

ServerTakesRequest ==
    /\ phase \in {"owes", "normal"}
    /\ Takes("request")
    /\ Serve(phase, <<>>)

ServerSends ==
    /\ phase \in {"ready", "owes", "normal"}
    /\ Len(sent) < server.says
    /\ \E m \in Items :
          /\ m.type = "fbu" => phase # "ready"
          /\ phase = "owes" /\ Len(sent) = server.says - 1 => m.type = "fbu"
          /\ phase = "ready" => Len(sent) < server.says - 1
          /\ phase' = IF m.type = "fbu" THEN "normal" ELSE phase
          /\ net' = net \o ItemBytes(m)
          /\ sent' = Append(sent, m)
    /\ UNCHANGED <<recvVars, sendVars, client, FBU, msgTimer, sendTimer,
                   control, server, out, torn>>

-----------------------------------------------------------------------------
(* The client: events                                                       *)

NoFBU == [rects |-> 0, subrects |-> 0, lines |-> 0, tiles |-> 0, bytes |-> 0,
          enc |-> "RAW", w |-> 0, h |-> 0, done |-> 0]

Init ==
    /\ InitQueues
    /\ rfb_state = "ProtocolVersion"
    /\ rfb_auth_scheme = 0
    /\ rfb_password \in Passwords
    /\ FBU = NoFBU
    /\ msgTimer = FALSE
    /\ initTimer = FALSE
    /\ sendTimer = FALSE
    /\ pc = "idle"
    /\ ret = FALSE
    /\ inRecv = FALSE
    /\ server \in Handshakes
    /\ phase = "version"
    /\ net = <<>>
    /\ sent = <<>>
    /\ out = <<>>
    /\ torn = {}

\* recv_message: a piece of what is under way.  After a failure the socket
\* is closed, and its onmessage does nothing.
Receive ==
    /\ pc = "idle"
    /\ rfb_state # "failed"
    /\ \E n \in 1..Len(net) :
          /\ decode_message(SubSeq(net, 1, n))
          /\ net' = SubSeq(net, n + 1, Len(net))
          /\ pc' = IF Len(rQ) + n > rQi THEN "handle" ELSE "idle"
    /\ inRecv' = TRUE
    /\ UNCHANGED <<sendVars, client, FBU, msgTimer, sendTimer, ret, server,
                   phase, sent, out, torn>>

MsgTimer ==
    /\ pc = "idle"
    /\ msgTimer
    /\ msgTimer' = FALSE
    /\ pc' = "handle"
    /\ inRecv' = FALSE
    /\ UNCHANGED <<recvVars, sendVars, client, FBU, sendTimer, ret, world, out, torn>>

SendTimer ==
    /\ pc = "idle"
    /\ sendTimer
    /\ sQ # <<>>
    /\ flush
    /\ UNCHANGED <<recvVars, client, FBU, msgTimer, sendTimer, control, world, out, torn>>

\* The user answers the password dialog, and init_msg runs a moment later.
sendPassword ==
    /\ pc = "idle"
    /\ rfb_state = "password"
    /\ rfb_password' = TRUE
    /\ rfb_state' = "Authentication"
    /\ initTimer' = TRUE
    /\ UNCHANGED <<recvVars, sendVars, rfb_auth_scheme, FBU, msgTimer,
                   sendTimer, control, world, out, torn>>

InitTimer ==
    /\ pc = "idle"
    /\ initTimer
    /\ initTimer' = FALSE
    /\ pc' = "init"
    /\ inRecv' = FALSE
    /\ UNCHANGED <<recvVars, sendVars, rfb_state, rfb_auth_scheme, rfb_password,
                   FBU, msgTimer, sendTimer, ret, world, out, torn>>

handle_message ==
    /\ pc = "handle"
    /\ pc' = CASE rQlen = 0 -> "idle"
               [] rfb_state = "failed" -> "idle"
               [] rfb_state = "normal" -> "msg"
               [] OTHER -> "init"
    /\ UNCHANGED <<recvVars, sendVars, client, FBU, msgTimer, sendTimer, ret,
                   inRecv, world, out, torn>>

\* Mutant: no timer for what is left in the queue.
Return_Unscheduled ==
    /\ pc = "ret"
    /\ pc' = "idle"
    /\ IF inRecv THEN compact ELSE UNCHANGED recvVars
    /\ UNCHANGED <<sendVars, client, FBU, msgTimer, sendTimer, ret, inRecv, world, out, torn>>

\* The end of handle_message, and of recv_message if that is the caller.
Return ==
    /\ pc = "ret"
    /\ pc' = "idle"
    /\ msgTimer' = (msgTimer \/ (rfb_state = "normal" /\ ret /\ rQlen > 0))
    /\ IF inRecv THEN compact ELSE UNCHANGED recvVars
    /\ UNCHANGED <<sendVars, client, FBU, sendTimer, ret, inRecv, world, out, torn>>

-----------------------------------------------------------------------------
(* The client: init_msg                                                     *)

quiet == UNCHANGED <<FBU, msgTimer, inRecv, world, out>>

\* return: r is what normal_msg returns; init_msg's result is not used.
Leave(r) == pc' = "ret" /\ ret' = r
Stay(at) == pc' = at /\ UNCHANGED ret

\* fail(): the state is "failed", its timers stop and its socket is closed.
Fail ==
    /\ rfb_state' = "failed"
    /\ sendTimer' = FALSE
    /\ Leave(FALSE)
    /\ UNCHANGED <<rfb_auth_scheme, rfb_password, initTimer, sendVars>>

\* rQwait is true: nothing is read, and what was read is given back.
Wait(goback) ==
    /\ rQgoback(goback)
    /\ Leave(FALSE)
    /\ UNCHANGED <<client, sendVars, sendTimer>>

Goto(state) == rfb_state' = state /\ UNCHANGED <<rfb_auth_scheme, rfb_password, initTimer>>

InitProtocolVersion ==
    /\ pc = "init"
    /\ rfb_state = "ProtocolVersion"
    /\ \/ /\ rQlen < 12
          /\ Fail
          /\ torn' = torn \cup {"version"}
          /\ UNCHANGED recvVars
       \/ /\ rQlen >= 12
          /\ rQshift(12)
          /\ IF rQpeek(0) = 0
             THEN /\ send(<<"repeater">>)
                  /\ UNCHANGED <<client, sendTimer>>
             ELSE /\ send(<<"version">>)
                  /\ sendTimer' = TRUE
                  /\ Goto("Security")
          /\ Leave(FALSE)
          /\ UNCHANGED torn
    /\ quiet

\* The types of this list that the client knows: none, and VNC.
Known(n) == {t \in {rQpeek(k) : k \in 1..n} : t \in 1..2}

InitSecurity ==
    /\ pc = "init"
    /\ rfb_state = "Security"
    /\ LET n == rQpeek(0) IN
       IF server.version >= 7
       THEN \/ /\ rQlen < 1 + n
               /\ Wait(0)
            \/ /\ rQlen >= 1 + n
               /\ \/ /\ Known(n) = {}
                     /\ IF n = 0 THEN rQshiftStr(5, rQpeek32(1)) ELSE rQshift(1 + n)
                     /\ Fail
                  \/ \E t \in Known(n) :
                     /\ \A u \in Known(n) : u <= t
                     /\ rQshift(1 + n)
                     /\ rfb_auth_scheme' = t
                     /\ send(<<IF t = 1 THEN "scheme1" ELSE "scheme2">>)
                     /\ rfb_state' = "Authentication"
                     /\ Stay("init")
                     /\ UNCHANGED <<rfb_password, initTimer, sendTimer>>
       ELSE \/ rQwait(4) /\ Wait(0)
            \/ /\ ~rQwait(4)
               /\ rQshift(4)
               /\ rfb_auth_scheme' = rQpeek32(0)
               /\ rfb_state' = "Authentication"
               /\ Stay("init")
               /\ UNCHANGED <<rfb_password, initTimer, sendVars, sendTimer>>
    /\ quiet
    /\ UNCHANGED torn

InitAuthentication ==
    /\ pc = "init"
    /\ rfb_state = "Authentication"
    /\ \/ /\ rfb_auth_scheme = 0
          /\ \/ rQwait(4) /\ Wait(0)
             \/ /\ ~rQwait(4)
                /\ rQshift(4 + rQpeek32(0))
                /\ Fail
       \/ /\ rfb_auth_scheme = 1
          /\ IF server.version >= 8
             THEN Goto("SecurityResult") /\ Leave(FALSE)
             ELSE Goto("ClientInitialisation") /\ Stay("init")
          /\ UNCHANGED <<recvVars, sendVars, sendTimer>>
       \/ /\ rfb_auth_scheme = 2
          /\ \/ /\ ~rfb_password
                /\ Goto("password")
                /\ Leave(FALSE)
                /\ UNCHANGED <<recvVars, sendVars, sendTimer>>
             \/ rfb_password /\ rQwait(16) /\ Wait(0)
             \/ /\ rfb_password
                /\ ~rQwait(16)
                /\ rQshift(16)
                /\ send(<<"response">>)
                /\ Goto("SecurityResult")
                /\ Leave(FALSE)
                /\ UNCHANGED sendTimer
       \/ /\ rfb_auth_scheme > 2
          /\ Fail
          /\ UNCHANGED recvVars
    /\ quiet
    /\ UNCHANGED torn

\* Mutant: the result is read and not looked at.
InitSecurityResult_Unread ==
    /\ pc = "init"
    /\ rfb_state = "SecurityResult"
    /\ \/ rQwait(4) /\ Wait(0)
       \/ /\ ~rQwait(4)
          /\ rQshift(4)
          /\ Goto("ClientInitialisation")
          /\ Stay("init")
          /\ UNCHANGED <<sendVars, sendTimer>>
    /\ quiet
    /\ UNCHANGED torn

\* A result of 1 is a refusal, with its reason since version 3.8.  The length
\* of the reason is not waited for: without it the reason is empty.
InitSecurityResult ==
    /\ pc = "init"
    /\ rfb_state = "SecurityResult"
    /\ \/ rQwait(4) /\ Wait(0)
       \/ /\ ~rQwait(4)
          /\ \/ /\ rQpeek32(0) = 0
                /\ rQshift(4)
                /\ Goto("ClientInitialisation")
                /\ Stay("init")
                /\ UNCHANGED <<sendVars, sendTimer>>
             \/ /\ rQpeek32(0) = 1
                /\ server.version < 8
                /\ rQshift(4)
                /\ Fail
             \/ /\ rQpeek32(0) = 1
                /\ server.version >= 8
                /\ LET length == rQpeek32(4) IN
                   IF length # NaN /\ rQwait(8 + length)
                   THEN Wait(0)
                   ELSE rQshiftStr(8, length) /\ Fail
    /\ quiet
    /\ UNCHANGED torn

InitClientInitialisation ==
    /\ pc = "init"
    /\ rfb_state = "ClientInitialisation"
    /\ send(<<"init">>)
    /\ Goto("ServerInitialisation")
    /\ Leave(FALSE)
    /\ quiet
    /\ UNCHANGED <<recvVars, sendTimer, torn>>

\* The name is not waited for: rQi moves over what has yet to come of it.
InitServerInitialisation ==
    /\ pc = "init"
    /\ rfb_state = "ServerInitialisation"
    /\ \/ rQwait(24) /\ Wait(0)
       \/ /\ ~rQwait(24)
          /\ rQshift(24 + rQpeek32(20))
          /\ send(<<"setup">>)
          /\ Goto("normal")
          /\ Leave(FALSE)
          /\ UNCHANGED sendTimer
    /\ quiet
    /\ UNCHANGED torn

\* No case of init_msg: what came while the password is asked for stays,
\* and a late timer finds nothing to do.
InitNothing ==
    /\ pc = "init"
    /\ rfb_state \in {"password", "normal", "failed"}
    /\ Leave(FALSE)
    /\ quiet
    /\ UNCHANGED <<recvVars, sendVars, client, sendTimer, torn>>

init_msg ==
    \/ InitProtocolVersion \/ InitSecurity \/ InitAuthentication
    \/ InitSecurityResult \/ InitClientInitialisation
    \/ InitServerInitialisation \/ InitNothing

-----------------------------------------------------------------------------
(* The client: normal_msg and framebufferUpdate                             *)

session == UNCHANGED <<msgTimer, inRecv, world, initTimer, rfb_auth_scheme, rfb_password>>
calm == UNCHANGED <<rfb_state, sendVars, sendTimer>>
Understands(what, n) == out' = Append(out, [type |-> what, n |-> n])

\* SetColourMapEntries waits for its entries and not for its own header: when
\* the number of entries is not there it sets none, and rQi moves past the end,
\* over header bytes that have yet to come; the entries will be read as
\* messages.
normal_msg ==
    /\ pc = "msg"
    /\ LET type == IF FBU.rects > 0 THEN 0 ELSE rQpeek8(0)
           num_colours == rQpeek16(4)
       IN
       \/ /\ type = 0
          /\ IF FBU.rects > 0
             THEN Stay("fbu") /\ UNCHANGED <<recvVars, FBU>>
             ELSE IF rQwait(4)
             THEN Leave(FALSE) /\ UNCHANGED <<recvVars, FBU>>  \* rQunshift8
             ELSE /\ rQshift(4)
                  /\ FBU' = [FBU EXCEPT !.rects = rQpeek16(2), !.bytes = 0]
                  /\ Stay("fbu")
          /\ UNCHANGED <<out, torn>>
          /\ calm
       \/ /\ type = 1
          /\ num_colours = NaN
          /\ rQshift(6)
          /\ Understands("cmap", 0)
          /\ Leave(TRUE)
          /\ torn' = torn \cup {"SetColourMapEntries"}
          /\ UNCHANGED FBU
          /\ calm
       \/ /\ type = 1
          /\ num_colours # NaN
          /\ IF rQwait(6 + (6 * num_colours))
             THEN Leave(FALSE) /\ UNCHANGED <<recvVars, out>>
             ELSE /\ rQshift(6 + (6 * num_colours))
                  /\ Understands("cmap", num_colours)
                  /\ Leave(TRUE)
          /\ UNCHANGED <<FBU, torn>>
          /\ calm
       \/ /\ type = 2
          /\ rQshift(1)
          /\ Understands("bell", 0)
          /\ Leave(TRUE)
          /\ UNCHANGED <<FBU, torn>>
          /\ calm
       \/ /\ type = 3
          /\ IF rQwait(8) \/ rQwait(8 + rQpeek32(4))
             THEN Leave(FALSE) /\ UNCHANGED <<recvVars, out>>
             ELSE /\ rQshift(8 + rQpeek32(4))
                  /\ Understands("cut", rQpeek32(4))
                  /\ Leave(TRUE)
          /\ UNCHANGED <<FBU, torn>>
          /\ calm
       \/ /\ type \notin 0..3        \* unknown, or undefined
          /\ rQshift(1)
          /\ rfb_state' = "failed"
          /\ sendTimer' = FALSE
          /\ Leave(TRUE)
          /\ UNCHANGED <<sendVars, FBU, out, torn>>
    /\ session

\* The head of the loop of framebufferUpdate: the end of the update, a wait
\* for the rest of a rectangle, or the header of the next rectangle.
framebufferUpdate ==
    /\ pc = "fbu"
    /\ \/ /\ FBU.rects = 0
          /\ Understands("fbu", 0)
          /\ Leave(TRUE)
          /\ UNCHANGED <<recvVars, FBU>>
          /\ calm
       \/ /\ FBU.rects > 0
          /\ rQwait(IF FBU.bytes = 0 THEN 12 ELSE FBU.bytes)
          /\ Leave(FALSE)
          /\ UNCHANGED <<recvVars, FBU, out>>
          /\ calm
       \/ /\ FBU.rects > 0
          /\ FBU.bytes > 0
          /\ ~rQwait(FBU.bytes)
          /\ Stay("rect")
          /\ UNCHANGED <<recvVars, FBU, out>>
          /\ calm
       \/ /\ FBU.rects > 0
          /\ FBU.bytes = 0
          /\ ~rQwait(12)
          /\ rQshift(12)
          /\ \/ /\ EncName(rQpeek(11)) = {} \/ rQpeek(8) # 0
                /\ rfb_state' = "failed"
                /\ sendTimer' = FALSE
                /\ Leave(FALSE)
                /\ UNCHANGED <<sendVars, FBU>>
             \/ \E e \in EncName(rQpeek(11)) :
                /\ rQpeek(8) = 0
                /\ FBU' = [FBU EXCEPT !.enc = e, !.w = rQpeek16(4), !.h = rQpeek16(6)]
                /\ Stay("rect")
                /\ calm
          /\ UNCHANGED out
    /\ session
    /\ UNCHANGED torn

-----------------------------------------------------------------------------
(* The client: the encodings.  A handler that returns false waits for more; *)
(* after one that returns true the loop goes on.                            *)

RectEnd(f) == [f EXCEPT !.rects = @ - 1, !.bytes = 0, !.done = 0]
More == Leave(FALSE) /\ UNCHANGED <<recvVars, out>>

\* Mutant: a rectangle that goes on forgets how many lines are drawn.
RAW_FromTheTop ==
    LET f == [FBU EXCEPT !.lines = FBU.h, !.bytes = FBU.w * Bpp]
        k == Least(f.lines, rQlen \div f.bytes)
        g == [f EXCEPT !.lines = @ - k, !.done = @ + k]
    IN  IF rQwait(f.bytes)
        THEN FBU' = f /\ More
        ELSE /\ rQshift(f.bytes * k)
             /\ Stay("fbu")
             /\ IF g.lines > 0
                THEN FBU' = g /\ UNCHANGED out
                ELSE FBU' = RectEnd(g) /\ Understands("RAW", g.done)

\* As many lines as are there, at least one.
RAW ==
    LET f == [FBU EXCEPT !.lines = IF @ = 0 THEN FBU.h ELSE @,
                         !.bytes = FBU.w * Bpp]
        k == Least(f.lines, rQlen \div f.bytes)
        g == [f EXCEPT !.lines = @ - k, !.done = @ + k]
    IN  IF rQwait(f.bytes)
        THEN FBU' = f /\ More
        ELSE /\ rQshift(f.bytes * k)
             /\ Stay("fbu")
             /\ IF g.lines > 0
                THEN FBU' = g /\ UNCHANGED out
                ELSE FBU' = RectEnd(g) /\ Understands("RAW", g.done)

\* FBU.bytes stays 0: if this waits, the loop takes the rest for a header.
COPYRECT ==
    IF rQwait(4)
    THEN More /\ UNCHANGED FBU
    ELSE /\ rQshift(4)
         /\ FBU' = RectEnd(FBU)
         /\ Understands("COPYRECT", 0)
         /\ Stay("fbu")

\* The first wait leaves FBU.bytes at 0 too.
RRE ==
    LET first == FBU.subrects = 0
        head == IF first THEN 4 + Bpp ELSE 0
        n == IF first THEN rQpeek32(0) ELSE FBU.subrects
        k == Least(n, (rQlen - head) \div (Bpp + 8))
        f == [FBU EXCEPT !.subrects = n - k, !.done = @ + k]
    IN  IF first /\ rQwait(4 + Bpp)
        THEN More /\ UNCHANGED FBU
        ELSE /\ rQshift(head + (k * (Bpp + 8)))
             /\ Stay("fbu")
             /\ IF f.subrects > 0
                THEN /\ FBU' = [f EXCEPT !.bytes = (Bpp + 8) * Least(100, f.subrects)]
                     /\ UNCHANGED out
                ELSE FBU' = RectEnd(f) /\ Understands("RRE", f.done)

\* One turn of the loop over the tiles; a turn reads its tile whole.
HEXTILE ==
    LET total == DivUp(FBU.w, 16) * DivUp(FBU.h, 16)
        f == [FBU EXCEPT !.tiles = IF @ = 0 THEN total ELSE @, !.bytes = 1]
        cur == total - f.tiles
        sub == rQpeek(0)
        head == TileHead(sub) + 1
        counted == ~Has(sub, Raw) /\ Has(sub, AnySubrects)
        n == IF counted THEN rQpeek(head - 1) ELSE 0
        size == TileSize(sub, TileW(cur, FBU.w), TileH(cur, FBU.w, FBU.h), n)
        g == [f EXCEPT !.tiles = @ - 1, !.bytes = 0, !.done = @ + 1]
    IN  IF rQwait(1)
        THEN FBU' = f /\ More
        ELSE IF counted /\ rQwait(head)
        THEN FBU' = [f EXCEPT !.bytes = head] /\ More
        ELSE IF rQwait(size)
        THEN FBU' = [f EXCEPT !.bytes = size] /\ More
        ELSE /\ rQshift(size)
             /\ IF g.tiles > 0
                THEN FBU' = g /\ Stay("rect") /\ UNCHANGED out
                ELSE FBU' = RectEnd(g) /\ Stay("fbu") /\ Understands("HEXTILE", g.done)

\* [header, data] of the compact length k places ahead; a byte that is not
\* there counts as 0, so the header is never taken for complete.
getTightCLength(k) ==
    LET a == rQpeek(k)
        b == rQpeek(k + 1)
    IN  IF a < 128 THEN [header |-> 1, data |-> a]
        ELSE IF b < 128 THEN [header |-> 2, data |-> (a - 128) + (128 * b)]
        ELSE [header |-> 3, data |-> (a - 128) + (128 * (b - 128)) + (16384 * rQpeek(k + 2))]

\* Bytes of data that are not compressed have no length before them.
Sized(k, size) == IF size < 12 THEN [header |-> 0, data |-> size] ELSE getTightCLength(k)

\* What is known of a rectangle's size: the bytes waited for so far, and if
\* that is all, the bytes of its data.
Unknown(bytes) == [bytes |-> bytes, data |-> -1]
Whole(bytes, data) == [bytes |-> bytes, data |-> data]
TightSize ==
    LET ctl == rQpeek(0) \div 16
        colours == rQpeek(2) + 1
        rowSize == DivUp(FBU.w * IF colours <= 2 THEN 1 ELSE 8, 8)
        palette == 3 + (colours * Depth)
        filtered == Sized(palette, rowSize * FBU.h)
        plain == Sized(1, FBU.w * FBU.h * Depth)
        image == getTightCLength(1)
    IN  IF rQwait(1) THEN Unknown(1)
        ELSE CASE ctl = 8 -> Whole(1 + Depth, Depth)
               [] ctl \in {9, 10} ->
                    IF rQwait(4) THEN Unknown(4)
                    ELSE Whole(1 + image.header + image.data, image.data)
               [] ctl \in 4..7 ->
                    IF rQwait(3) THEN Unknown(3)
                    ELSE IF rQwait(palette) THEN Unknown(palette)
                    ELSE Whole(palette + filtered.header + filtered.data, filtered.data)
               [] ctl \in 0..3 -> Whole(1 + plain.header + plain.data, plain.data)
               [] OTHER -> Unknown(1)

TIGHT ==
    LET t == TightSize
    IN  IF t.data = -1 \/ rQwait(t.bytes)
        THEN FBU' = [FBU EXCEPT !.bytes = t.bytes] /\ More
        ELSE /\ rQshift(t.bytes)
             /\ FBU' = RectEnd(FBU)
             /\ Understands("TIGHT", t.data)
             /\ Stay("fbu")

last_rect ==
    /\ FBU' = [FBU EXCEPT !.rects = 0]
    /\ Understands("last_rect", 0)
    /\ Stay("fbu")
    /\ UNCHANGED recvVars

DesktopSize ==
    /\ FBU' = RectEnd(FBU)
    /\ Understands("DesktopSize", 0)
    /\ Stay("fbu")
    /\ UNCHANGED recvVars

Cursor ==
    LET size == (FBU.w * FBU.h * Bpp) + (DivUp(FBU.w, 8) * FBU.h)
    IN  IF rQwait(size)
        THEN FBU' = [FBU EXCEPT !.bytes = size] /\ More
        ELSE /\ rQshift(size)
             /\ FBU' = RectEnd(FBU)
             /\ Understands("Cursor", 0)
             /\ Stay("fbu")

encHandlers ==
    /\ pc = "rect"
    /\ \/ FBU.enc = "RAW" /\ RAW
       \/ FBU.enc = "COPYRECT" /\ COPYRECT
       \/ FBU.enc = "RRE" /\ RRE
       \/ FBU.enc = "HEXTILE" /\ HEXTILE
       \/ FBU.enc = "TIGHT" /\ TIGHT
       \/ FBU.enc = "last_rect" /\ last_rect
       \/ FBU.enc = "DesktopSize" /\ DesktopSize
       \/ FBU.enc = "Cursor" /\ Cursor
    /\ IF FBU.enc = "DesktopSize" THEN send(<<"request">>) ELSE UNCHANGED sendVars
    /\ torn' = torn \cup {e \in {FBU.enc} : e \in {"COPYRECT", "RRE"} /\ FBU.bytes = 0 /\ pc' = "ret"}
    /\ UNCHANGED <<rfb_state, sendTimer>>
    /\ session

Server ==
    \/ ServerVersion \/ ServerRepeats \/ ServerSecurity \/ ServerChosen
    \/ ServerResult \/ ServerInit \/ ServerSetup \/ ServerTakesRequest
    \/ ServerSends

Next ==
    \/ Server
    \/ Receive \/ MsgTimer \/ SendTimer \/ InitTimer \/ sendPassword
    \/ handle_message \/ Return
    \/ init_msg
    \/ normal_msg \/ framebufferUpdate \/ encHandlers

Spec == Init /\ [][Next]_vars

-----------------------------------------------------------------------------
(* Properties *)

Meanings == FlattenSeq([i \in 1..Len(sent) |-> Meaning(sent[i])])

\* Whatever the pieces a server's messages come in, the client understands
\* what the server sent, in order, each rectangle drawn once and whole, and
\* fails only if the server refuses it or has no scheme in common with it;
\* provided no header that the client does not wait for was itself in pieces.
DecodesAnyPieces ==
    torn = {} => /\ IsPrefix(out, Meanings)
                 /\ rfb_state = "failed" =>
                      phase = "refused" \/ ToSet(server.types) \cap {1, 2} = {}

\* When nothing is under way, no timer is set and the server has answered the
\* first request, nothing that came is left in the queue undecoded: a message
\* is never stuck until more data comes.
NothingLeftBehind ==
    pc = "idle" /\ net = <<>> /\ ~msgTimer /\ rfb_state = "normal" /\
    phase = "normal" /\ torn = {}
        => out = Meanings

\* Both sides go through the handshake together: the client reports itself
\* connected only when the server has admitted it, and no message of either
\* is one the other does not expect.
HandshakeInStep ==
    torn = {} =>
    /\ rfb_state = "normal" => phase \in {"ready", "owes", "normal"}
    /\ rfb_state = "normal" /\ rfb_auth_scheme = 2 => server.admits
    /\ wire # <<>> =>
         Head(wire) \in
           CASE phase = "repeater" -> {"repeater"}
             [] phase = "greeted"  -> {"version"}
             [] phase = "choice"   -> {"scheme1", "scheme2"}
             [] phase = "response" -> {"response"}
             [] phase = "init"     -> {"init"}
             [] phase = "ready"    -> {"setup"}
             [] OTHER              -> {"request"}

=============================================================================
