------------------------------ MODULE SpiceMsg ------------------------------
(***************************************************************************)
(* The messages of the SPICE client (spicemsg.js, spicetype.js): one       *)
(* definition per class.  The classes the client writes carry the size     *)
(* their buffer_size computes; those it reads are layouts, with a          *)
(* parameter where the layout depends on a field (a count, a type, a null  *)
(* offset).  The state machine writes or reads one message at a time,      *)
(* field by field, the reader following offsets as the from_dv's do.       *)
(***************************************************************************)
EXTENDS SpiceLayout, FiniteSets

CONSTANTS
  TicketBytes,   \* SPICE_TICKET_KEY_PAIR_LENGTH / 8
  KeyBytes,      \* SPICE_TICKET_PUBKEY_BYTES
  Lengths        \* lengths of the variable parts

-----------------------------------------------------------------------------
(* What the client writes.                                                 *)

SpiceLinkHeader ==
  Class(Bytes("magic", 4) \o U32("major_version") \o U32("minor_version") \o U32("size"), 16)

\* caps_offset is the distance from the start, 18, where the caps follow.
SpiceLinkMess(common, channel) ==
  Class(U32("connection_id") \o U8("channel_type") \o U8("channel_id")
        \o U32("num_common_caps") \o U32("num_channel_caps") \o U32("caps_offset")
        \o Repeat(common, U32("cap")) \o Repeat(channel, U32("cap")),
        18 + 4 * common + 4 * channel)

SpiceLinkAuthTicket ==
  Class(U32("auth_mechanism") \o Repeat(TicketBytes, U8("encrypted_data")), 4 + TicketBytes)

\* build_msg: the header and the message of a class in one buffer.
SpiceMiniData(c) ==
  Class(U16("type") \o U32("size") \o c.layout, 6 + c.size)

SpiceMsgcAckSync == Class(U32("generation"), 4)

SpiceMsgcMainMouseModeRequest == Class(U16("mode"), 2)

SpiceMsgcMainAgentStart == Class(U32("num_tokens"), 4)

SpiceMsgcMainAgentData(c) ==
  Class(U32("protocol") \o U32("type") \o U64("opaque") \o U32("size") \o c.layout,
        4 + 4 + 8 + 4 + c.size)

VDAgentAnnounceCapabilities == Class(U32("request") \o U32("caps"), 8)

VDAgentMonitorsConfig ==
  Class(U32("num_mon") \o U32("flags") \o U32("height") \o U32("width") \o U32("depth")
        \o U32("x") \o U32("y"), 28)

VDAgentFileXferStatusMessage == Class(U32("id") \o U32("result"), 8)

\* The string is followed by a zero byte that is counted and never written.
VDAgentFileXferStartMessage(n) == Class(U32("id") \o Bytes("string", n), 4 + n + 1)

VDAgentFileXferDataMessage(n) == Class(U32("id") \o U64("size") \o Bytes("data", n), 12 + n)

SpiceMsgcDisplayInit ==
  Class(U8("pixmap_cache_id") \o U64("pixmap_cache_size") \o U8("glz_dictionary_id")
        \o U32("glz_dictionary_window_size"), 14)

\* SpiceMsgcMouseMotion takes the same functions.
SpiceMsgcMousePosition ==
  Class(U32("x") \o U32("y") \o U16("buttons_state") \o U8("display_id"), 11)

\* SpiceMsgcMouseRelease takes the same functions.
SpiceMsgcMousePress == Class(U8("button") \o U16("buttons_state"), 3)

\* SpiceMsgcKeyUp takes the same functions.
SpiceMsgcKeyDown == Class(U32("code"), 4)

-----------------------------------------------------------------------------
(* What the client reads.                                                  *)

SpiceLinkReply(common, channel) ==
  U32("error") \o Bytes("pub_key", KeyBytes) \o U32("num_common_caps")
  \o U32("num_channel_caps")
  \o Offset("caps_offset", Repeat(common, U32("cap")) \o Repeat(channel, U32("cap")))

SpiceLinkAuthReply == U32("auth_code")

SpiceChannelId == U8("type") \o U8("id")

SpiceMsgChannels(n) == U32("num_of_channels") \o Repeat(n, SpiceChannelId)

SpiceMsgMainInit ==
  U32("session_id") \o U32("display_channels_hint") \o U32("supported_mouse_modes")
  \o U32("current_mouse_mode") \o U32("agent_connected") \o U32("agent_tokens")
  \o U32("multi_media_time") \o U32("ram_hint")

SpiceMsgMainMouseMode == U16("supported_modes") \o U16("current_mode")

SpiceMsgMainAgentData(n) ==
  U32("protocol") \o U32("type") \o U64("opaque") \o U32("size") \o Bytes("data", n)

SpiceMsgMainAgentTokens == U32("num_tokens")

SpiceMsgSetAck == U32("generation") \o U32("window")

SpiceMsgNotify(n) ==
  U64("time_stamp") \o U32("severity") \o U32("visibility") \o U32("what")
  \o U32("message_len") \o Repeat(n, U8("message"))

SpiceRect == U32("top") \o U32("left") \o U32("bottom") \o U32("right")

SpicePoint == U32("x") \o U32("y")

SpicePoint16 == U16("x") \o U16("y")

SpiceClipRects(n) == U32("num_rects") \o Repeat(n, SpiceRect)

\* rects = <<>>: the type is not SPICE_CLIP_TYPE_RECTS.
SpiceClip(rects) == U8("type") \o (IF rects = <<>> THEN <<>> ELSE SpiceClipRects(rects[1]))

SpiceImageDescriptor ==
  U64("id") \o U8("type") \o U8("flags") \o U32("width") \o U32("height")

SpicePalette(n) == U64("unique") \o U16("num_ents") \o Repeat(n, U32("ents"))

\* palette: "cached", or the layout at the offset (<<>> when it is 0).  The
\* data is the rest of the message.
SpiceBitmap(cached, palette, n) ==
  U8("format") \o U8("flags") \o U32("x") \o U32("y") \o U32("stride")
  \o (IF cached THEN U64("palette_id") ELSE Offset("palette", palette))
  \o Bytes("data", n)

\* The header of an LZ image, in the other byte order.
LzHeader ==
  Bytes("magic", 4) \o U32("version") \o U32("type") \o U32("width") \o U32("height")
  \o U32("stride") \o U32("top_down")

\* What follows the descriptor, by its type.
SpiceImage(type, n) ==
  SpiceImageDescriptor \o
    CASE type = "LZ_RGB"     -> U32("length") \o LzHeader \o Bytes("data", n)
      [] type = "BITMAP"     -> SpiceBitmap(FALSE, <<>>, n)
      [] type = "PALETTE"    -> SpiceBitmap(FALSE, SpicePalette(n), 0)
      [] type = "CACHED"     -> SpiceBitmap(TRUE, <<>>, n)
      [] type = "SURFACE"    -> U32("surface_id")
      [] type = "JPEG"       -> U32("data_size") \o Bytes("data", n)
      [] type = "JPEG_ALPHA" -> U8("flags") \o U32("jpeg_size") \o U32("data_size")
                                \o Bytes("data", n) \o LzHeader \o Bytes("alpha", n)
      [] type = "FROM_CACHE" -> <<>>

SpiceQMask(bitmap) == U8("flags") \o SpicePoint \o Offset("bitmap", bitmap)

SpicePattern(pat) == Offset("pat", pat) \o SpicePoint

\* type: "SOLID", "PATTERN", or another, with nothing behind the type.
SpiceBrush(type, pat) ==
  U8("type") \o CASE type = "SOLID"   -> U32("color")
                  [] type = "PATTERN" -> SpicePattern(pat)
                  [] OTHER            -> <<>>

SpiceFill(brush, mask) == brush \o U16("rop_descriptor") \o SpiceQMask(mask)

SpiceCopy(src_bitmap, mask) ==
  Offset("src_bitmap", src_bitmap) \o SpiceRect \o U16("rop_descriptor")
  \o U8("scale_mode") \o SpiceQMask(mask)

SpiceMsgDisplayBase(rects) == U32("surface_id") \o SpiceRect \o SpiceClip(rects)

SpiceMsgDisplayDrawCopy(rects, image, mask) ==
  SpiceMsgDisplayBase(rects) \o SpiceCopy(image, mask)

SpiceMsgDisplayDrawFill(rects, brush, mask) ==
  SpiceMsgDisplayBase(rects) \o SpiceFill(brush, mask)

SpiceMsgDisplayCopyBits(rects) == SpiceMsgDisplayBase(rects) \o SpicePoint

SpiceSurface ==
  U32("surface_id") \o U32("width") \o U32("height") \o U32("format") \o U32("flags")

SpiceMsgSurfaceDestroy == U32("surface_id")

SpiceMsgInputsInit == U16("keyboard_modifiers")

SpiceCursorHeader ==
  U64("unique") \o U8("type") \o U16("width") \o U16("height") \o U16("hot_spot_x")
  \o U16("hot_spot_y")

\* none: SPICE_CURSOR_FLAGS_NONE is among the flags.
SpiceCursor(none, n) ==
  U16("flags") \o (IF none THEN <<>> ELSE SpiceCursorHeader \o Bytes("data", n))

SpiceMsgCursorInit(none, n) ==
  SpicePoint16 \o U16("trail_length") \o U16("trail_frequency") \o U8("visible")
  \o SpiceCursor(none, n)

SpiceMsgCursorSet(none, n) == SpicePoint16 \o U8("visible") \o SpiceCursor(none, n)

SpiceMsgPlaybackData(n) == U32("time") \o Bytes("data", n)

SpiceMsgPlaybackMode(n) == U32("time") \o U16("mode") \o Bytes("data", n)

SpiceMsgPlaybackStart == U32("channels") \o U16("format") \o U32("frequency") \o U32("time")

SpiceMsgDisplayStreamCreate(rects) ==
  U32("surface_id") \o U32("id") \o U8("flags") \o U8("codec_type") \o U64("stamp")
  \o U32("stream_width") \o U32("stream_height") \o U32("src_width") \o U32("src_height")
  \o SpiceRect \o SpiceClip(rects)

SpiceStreamDataHeader == U32("id") \o U32("multi_media_time")

SpiceMsgDisplayStreamData(n) == SpiceStreamDataHeader \o U32("data_size") \o Bytes("data", n)

SpiceMsgDisplayStreamClip(rects) == U32("id") \o SpiceClip(rects)

SpiceMsgDisplayStreamDestroy == U32("id")

SpiceMsgDisplayInvalList(n) == U16("count") \o Repeat(n, U8("type") \o U64("id"))

-----------------------------------------------------------------------------
(* One message at a time.                                                  *)

\* What send_hdr, send_ticket and the callers of send_msg write.
Outgoing ==
  {SpiceLinkHeader, SpiceLinkAuthTicket}
  \cup {SpiceLinkMess(1, n) : n \in {0, 1}}
  \cup {SpiceMiniData(c) : c \in
          {SpiceMsgcAckSync, SpiceMsgcMainMouseModeRequest, SpiceMsgcMainAgentStart,
           SpiceMsgcDisplayInit, SpiceMsgcMousePosition, SpiceMsgcMousePress, SpiceMsgcKeyDown}
          \cup {SpiceMsgcMainAgentData(a) : a \in
                  {VDAgentAnnounceCapabilities, VDAgentMonitorsConfig,
                   VDAgentFileXferStatusMessage}
                  \cup {VDAgentFileXferStartMessage(n) : n \in Lengths}
                  \cup {VDAgentFileXferDataMessage(n) : n \in Lengths}}}

Clips == {<<>>} \cup {<<n>> : n \in Lengths}
ImageTypes ==
  {"LZ_RGB", "BITMAP", "PALETTE", "CACHED", "SURFACE", "JPEG", "JPEG_ALPHA", "FROM_CACHE"}
Images == {<<>>} \cup {SpiceImage(t, n) : t \in ImageTypes, n \in Lengths}
Masks  == {<<>>} \cup {SpiceImage("BITMAP", n) : n \in Lengths}
Brushes ==
  {SpiceBrush("SOLID", <<>>), SpiceBrush("NONE", <<>>)}
  \cup {SpiceBrush("PATTERN", i) : i \in Masks}

Incoming ==
  {SpiceLinkReply(1, n) : n \in {0, 1}}
  \cup {SpiceLinkAuthReply, SpiceMsgMainInit, SpiceMsgMainMouseMode, SpiceMsgMainAgentTokens,
        SpiceMsgSetAck, SpiceMsgSurfaceDestroy, SpiceMsgInputsInit, SpiceMsgPlaybackStart,
        SpiceMsgDisplayStreamDestroy, SpiceSurface}
  \cup UNION {{SpiceMsgChannels(n), SpiceMsgMainAgentData(n), SpiceMsgNotify(n),
               SpiceMsgPlaybackData(n), SpiceMsgPlaybackMode(n), SpiceMsgDisplayStreamData(n),
               SpiceMsgDisplayInvalList(n)} : n \in Lengths}
  \cup {SpiceMsgCursorInit(b, n) : b \in BOOLEAN, n \in Lengths}
  \cup {SpiceMsgCursorSet(b, n) : b \in BOOLEAN, n \in Lengths}
  \cup {SpiceMsgDisplayDrawCopy(c, i, m) : c \in Clips, i \in Images, m \in Masks}
  \cup {SpiceMsgDisplayDrawFill(c, b, m) : c \in Clips, b \in Brushes, m \in Masks}
  \cup UNION {{SpiceMsgDisplayCopyBits(c), SpiceMsgDisplayStreamCreate(c),
               SpiceMsgDisplayStreamClip(c)} : c \in Clips}

VARIABLES
  doing,   \* "nothing", "writing" or "reading"
  size,    \* of the buffer being written
  starts,  \* where the server has put each part of the message being read
  stack    \* the to_buffer or from_dv calls under way, innermost first

vars == <<doing, size, starts, stack>>

Frame(path, layout, at) == [path |-> path, layout |-> layout, i |-> 1, at |-> at]

\* The parts of a part, each with the path of fields that leads to it.
Within(p) ==
  LET with == SelectSeq([i \in DOMAIN p.layout |-> i], LAMBDA i : p.layout[i].part # <<>>)
  IN [k \in DOMAIN with |->
        [path |-> Append(p.path, with[k]), layout |-> p.layout[with[k]].part]]

\* Bound: parts of a message.  No message has more.
MostParts == 8

\* The server puts the parts of a message one after the other, those of the
\* first level first: [path |-> start].
Packed(message) ==
  FoldLeft(LAMBDA done, turn :
             IF done.queue = <<>> THEN done
             ELSE LET p == Head(done.queue)
                  IN [queue  |-> Tail(done.queue) \o Within(p),
                      at     |-> done.at + Width(p.layout),
                      starts |-> (p.path :> done.at) @@ done.starts],
           [queue |-> <<[path |-> <<>>, layout |-> message]>>, at |-> 0, starts |-> <<>>],
           [turn \in 1..MostParts |-> turn]).starts

Init == doing = "nothing" /\ size = 0 /\ starts = <<>> /\ stack = <<>>

\* new ArrayBuffer(m.buffer_size()); m.to_buffer(mb)
Write ==
  /\ doing = "nothing"
  /\ \E c \in Outgoing : size' = c.size /\ stack' = <<Frame(<<>>, c.layout, 0)>>
  /\ doing' = "writing"
  /\ UNCHANGED starts

\* from_buffer of the message's class.
Read ==
  /\ doing = "nothing"
  /\ \E m \in Incoming :
       /\ starts' = Packed(m)
       /\ stack' = <<Frame(<<>>, m, 0)>>
  /\ doing' = "reading"
  /\ UNCHANGED size

Unread == stack # <<>> /\ Head(stack).i <= Len(Head(stack).layout)
Passed(f) == [f EXCEPT !.i = @ + 1, !.at = @ + f.layout[f.i].width]

\* A field: its value is stored, and at moves past it.  What an offset points
\* to is read before the rest, from a position of its own.
Visit ==
  /\ Unread
  /\ LET f == Head(stack)
         g == f.layout[f.i]
     IN stack' = (IF g.part = <<>> THEN <<>>
                  ELSE <<Frame(Append(f.path, f.i), g.part, starts[Append(f.path, f.i)])>>)
                 \o <<Passed(f)>> \o Tail(stack)
  /\ UNCHANGED <<doing, size, starts>>

\* The caller goes on at the position the callee has returned.
Return_At ==
  /\ doing # "nothing" /\ ~Unread
  /\ LET rest == Tail(stack)
     IN /\ stack' = IF rest = <<>> THEN rest
                    ELSE <<[rest[1] EXCEPT !.at = Head(stack).at]>> \o Tail(rest)
        /\ doing' = IF rest = <<>> THEN "nothing" ELSE doing
        /\ size' = IF rest = <<>> THEN 0 ELSE size
        /\ starts' = IF rest = <<>> THEN <<>> ELSE starts

\* The end of a class.  A part read at an offset does not move its caller.
Return ==
  /\ doing # "nothing" /\ ~Unread
  /\ stack' = Tail(stack)
  /\ doing' = IF Tail(stack) = <<>> THEN "nothing" ELSE doing
  /\ size' = IF Tail(stack) = <<>> THEN 0 ELSE size
  /\ starts' = IF Tail(stack) = <<>> THEN <<>> ELSE starts

Next == Write \/ Read \/ Visit \/ Return

Spec == Init /\ [][Next]_vars

-----------------------------------------------------------------------------
(* A SpiceDataView drops what is written past the end of its buffer and    *)
(* gives nothing for what is read past it, without an error: a wrong size  *)
(* shows only as a wrong message.                                          *)

\* The buffer of a message that is sent takes all its fields, and no byte of
\* it is left unwritten but the zero that ends the string of a transfer.
WrittenWhole ==
  doing = "writing" =>
    LET f == Head(stack)
    IN IF Unread THEN f.at + f.layout[f.i].width <= size
       ELSE size - f.at \in (IF \E i \in DOMAIN f.layout : f.layout[i].name = "string"
                             THEN {1} ELSE {0})

\* Each field is read where the server put it, whatever lies behind the
\* offsets that were followed before.
ReadInPlace ==
  doing = "reading" /\ Unread =>
    LET f == Head(stack)
    IN f.at = starts[f.path] + Width(SubSeq(f.layout, 1, f.i - 1))
=============================================================================
