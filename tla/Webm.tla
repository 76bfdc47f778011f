------------------------------- MODULE Webm -------------------------------
(***************************************************************************)
(* The WebM stream the playback channel builds (webm.js).  An element is   *)
(* an id, a length and a body, and the client computes the length and the  *)
(* size of the buffer by sums of their own, apart from what to_buffer      *)
(* writes.  As in SpiceLayout, values are left out and widths kept.        *)
(***************************************************************************)
EXTENDS SpiceLayout, Integers

\* A length of its own width, or the one byte 0xff: until the end.
Unknown == -1

\* What an element is: the width of its id and of its length, the length it
\* declares, the layout of its body, and what its buffer_size gives.
Element(id, length, declared, body, size) ==
  [head |-> id + length, declared |-> declared, size |-> size,
   layout |-> Bytes("id", id) \o Bytes("length", length) \o body]

\* Elements written whole by the EBML_write functions: id, length, value.
EBML_write_u8_value(name, id)    == Bytes(name, id) \o U8("length") \o U8(name)
EBML_write_u16_value(name, id)   == Bytes(name, id) \o U8("length") \o U16(name)
EBML_write_u32_value(name, id)   == Bytes(name, id) \o U8("length") \o U32(name)
EBML_write_float_value(name, id) == Bytes(name, id) \o U8("length") \o U32(name)
EBML_write_data(name, id, n) ==
  Bytes(name, id) \o (IF n < 127 THEN U8("length") ELSE U64("length")) \o Bytes(name, n)

EBMLHeader ==
  Element(4, 8, 31,
    EBML_write_u8_value("Version", 2) \o EBML_write_u8_value("ReadVersion", 2)
    \o EBML_write_u8_value("MaxIDLength", 2) \o EBML_write_u8_value("MaxSizeLength", 2)
    \o EBML_write_data("DocType", 2, 4) \o EBML_write_u8_value("DocTypeVersion", 2)
    \o EBML_write_u8_value("DocTypeReadVersion", 2),
    31 + 8 + 4)

webm_Segment == Element(4, 1, Unknown, <<>>, 4 + 1)

\* The names are "spice" and "spice-html5".
SegmentInformationSize == 4 + 8 + (3 + 1 + 4) + (2 + 1 + 5) + (2 + 1 + 11)
webm_SegmentInformation ==
  Element(4, 8, SegmentInformationSize - 8 - 4,
    EBML_write_u32_value("timecode_scale", 3) \o EBML_write_data("muxing_app", 2, 5)
    \o EBML_write_data("writing_app", 2, 11),
    SegmentInformationSize)

AudioSize == 1 + 8 + (1 + 1 + 4) + (1 + 1 + 1)
webm_Audio ==
  Element(1, 8, AudioSize - 8 - 1,
    EBML_write_u8_value("channels", 1) \o EBML_write_float_value("sampling_frequency", 1),
    AudioSize)

\* Only the positions of the elements behind it are computed from it.
webm_Seek ==
  Element(2, 1, (2 + 1 + (2 + 1 + 4) + (2 + 1 + 2)) - 1 - 2,
    EBML_write_data("seekid", 2, 4) \o EBML_write_u16_value("pos", 2),
    2 + 1 + (2 + 1 + 4) + (2 + 1 + 2))

SeekHeadSize == 4 + 8 + webm_Seek.size + webm_Seek.size
webm_SeekHead ==
  Element(4, 8, SeekHeadSize - 8 - 4, webm_Seek.layout \o webm_Seek.layout, SeekHeadSize)

\* codec_id is "A_OPUS", codec_private the 19 bytes of OpusHead.
TrackEntrySize ==
  1 + 8 + (1 + 1 + 1) + (2 + 1 + 1) + (1 + 1 + 1) + (1 + 1 + 1) + (1 + 1 + 1) + (2 + 1 + 1)
  + (1 + 1 + 1) + (2 + 1 + 1) + (2 + 1 + 1) + (1 + 1 + 1) + (2 + 1 + 4) + (2 + 1 + 4)
  + (1 + 6 + 1) + (2 + 1 + 19) + AudioSize
webm_TrackEntry ==
  Element(1, 8, TrackEntrySize - 8 - 1,
    EBML_write_u8_value("number", 1) \o EBML_write_u8_value("uid", 2)
    \o EBML_write_u8_value("flag_enabled", 1) \o EBML_write_u8_value("flag_default", 1)
    \o EBML_write_u8_value("flag_forced", 2) \o EBML_write_u8_value("flag_lacing", 1)
    \o EBML_write_data("codec_id", 1, 6) \o EBML_write_u8_value("min_cache", 2)
    \o EBML_write_u8_value("max_block_addition_id", 2)
    \o EBML_write_u8_value("codec_decode_all", 1) \o EBML_write_u32_value("codec_delay", 2)
    \o EBML_write_u32_value("seek_pre_roll", 2) \o EBML_write_u8_value("type", 1)
    \o EBML_write_data("codec_private", 2, 19) \o webm_Audio.layout,
    TrackEntrySize)

webm_Tracks ==
  Element(4, 8, (4 + 8 + TrackEntrySize) - 8 - 4, webm_TrackEntry.layout,
          4 + 8 + TrackEntrySize)

webm_Cluster == Element(4, 1, Unknown, EBML_write_u32_value("timecode", 1), 4 + 1 + (1 + 1 + 4))

webm_SimpleBlock(n) ==
  Element(1, 8, n + 4, U8("track") \o U16("timecode") \o U8("flags") \o Bytes("data", n),
          1 + 8 + 1 + 2 + 1 + n)

\* The elements webm_Header writes one after the other in one buffer; the
\* seek head is made and not written.
webm_Header == <<EBMLHeader, webm_Segment, webm_SegmentInformation, webm_Tracks>>

\* An element is as long as it says, and so is its buffer.
Whole(e) ==
  /\ Width(e.layout) = e.size
  /\ e.declared \in {Unknown, Width(e.layout) - e.head}
=============================================================================
