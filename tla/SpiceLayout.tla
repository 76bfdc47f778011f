---------------------------- MODULE SpiceLayout ----------------------------
(***************************************************************************)
(* How the SPICE client lays a message out in a buffer.  A layout is the   *)
(* sequence of the fields that a from_buffer, from_dv or to_buffer of      *)
(* spice-html5 visits, each with its width in bytes; a field may instead   *)
(* be the offset of a part that lies elsewhere in the message.  The values *)
(* of the fields are not modelled, only which bytes they take.             *)
(***************************************************************************)
EXTENDS Naturals, Sequences, SequencesExt

Field(name, width) == <<[name |-> name, width |-> width, part |-> <<>>]>>

\* dv.getUint8, setUint8 and so on, each with its  at += width.
U8(name)  == Field(name, 1)
U16(name) == Field(name, 2)
U32(name) == Field(name, 4)
U64(name) == Field(name, 8)

\* mb.slice(at), mb.slice(at, at + width), and the loops that copy bytes.
Bytes(name, width) == Field(name, width)

\* A 32-bit offset: 0 when the part is absent (<<>>), the place of the part
\* from the start of the message otherwise.
Offset(name, part) == <<[name |-> name, width |-> 4, part |-> part]>>

Width(layout) ==
  LET upto[i \in 0 .. Len(layout)] == IF i = 0 THEN 0 ELSE upto[i - 1] + layout[i].width
  IN  upto[Len(layout)]

\* n copies of a layout one after the other: the loops over rectangles,
\* capabilities, channels.
Repeat(n, layout) ==
  LET copies[i \in 0 .. n] == IF i = 0 THEN <<>> ELSE copies[i - 1] \o layout
  IN  copies[n]

\* A class the client writes: what to_buffer writes and what buffer_size says.
Class(layout, size) == [layout |-> layout, size |-> size]
=============================================================================
