------------------------------- MODULE Websock -------------------------------
(***************************************************************************)
(* The queues of static/js/novnc/websock.js.                               *)
(*                                                                         *)
(* What arrives is appended to rQ, and rQi is the index of the first byte  *)
(* not yet read.  Readers move rQi, also past the end of rQ: a reader that *)
(* did not wait for its bytes skips bytes that have yet to arrive.  What   *)
(* is sent goes through sQ, which is handed to the browser only while the  *)
(* browser buffers little.                                                 *)
(***************************************************************************)
EXTENDS Integers, Sequences

CONSTANTS
    rQmax,              \* rQ longer than this is compacted (10000 in the code)
    maxBufferedAmount   \* messages in the browser's buffer that hold sQ back

ASSUME rQmaxAssumption == rQmax \in Nat
ASSUME maxBufferedAssumption == maxBufferedAmount \in Nat \ {0}

VARIABLES
    rQ, rQi,    \* received bytes, and the index of the next to read
    sQ,         \* messages not yet handed to the browser
    wire        \* messages the browser holds, first to be sent first

recvVars == <<rQ, rQi>>
sendVars == <<sQ, wire>>

InitQueues ==
    /\ rQ = <<>>
    /\ rQi = 0
    /\ sQ = <<>>
    /\ wire = <<>>

-----------------------------------------------------------------------------
(* Reading *)

rQlen == Len(rQ) - rQi

\* What arithmetic makes of a byte that is not there, and the byte itself where
\* it is only compared: undefined or NaN, which equals nothing and is less than
\* nothing.
NaN == -1

Here(k) == rQi + k < Len(rQ)

\* The byte k places after the next one.  One that is not there is undefined,
\* which the shifts and the masks of the callers turn into 0.
rQpeek(k) == IF Here(k) THEN rQ[rQi + k + 1] ELSE 0

\* The numbers that rQshift8, 16 and 32 return when k bytes were read before:
\* their last byte is not shifted, and without it there is no number.
rQpeek8(k) == IF Here(k) THEN rQpeek(k) ELSE NaN
rQpeek16(k) == IF Here(k + 1) THEN 256 * rQpeek(k) + rQpeek(k + 1) ELSE NaN
rQpeek32(k) == IF Here(k + 3)
               THEN (65536 * ((256 * rQpeek(k)) + rQpeek(k + 1)))
                    + (256 * rQpeek(k + 2)) + rQpeek(k + 3)
               ELSE NaN

\* A reader that asks for NaN bytes does not wait.
rQwait(n) == n # NaN /\ rQlen < n

\* rQshift8, 16, 32, Str and Bytes, and set_rQi: n bytes are read.
rQshift(n) == rQi' = rQi + n /\ UNCHANGED rQ

\* A text of n bytes behind k others.  One of NaN bytes would make rQi NaN: its
\* readers fail at once, after which nobody reads.
rQshiftStr(k, n) == rQshift(k + IF n = NaN THEN 0 ELSE n)

\* rQwait with its third argument, and rQunshift8 of the byte that was read.
rQgoback(n) == rQi' = rQi - n /\ UNCHANGED rQ

decode_message(bytes) == rQ' = rQ \o bytes /\ UNCHANGED rQi

compact ==
    IF Len(rQ) > rQmax
    THEN rQ' = SubSeq(rQ, rQi + 1, Len(rQ)) /\ rQi' = 0
    ELSE UNCHANGED recvVars

-----------------------------------------------------------------------------
(* Sending *)

bufferedAmount == Len(wire)

flush ==
    IF bufferedAmount < maxBufferedAmount
    THEN wire' = wire \o sQ /\ sQ' = <<>>
    ELSE UNCHANGED sendVars

send(msgs) ==
    IF bufferedAmount < maxBufferedAmount
    THEN wire' = wire \o sQ \o msgs /\ sQ' = <<>>
    ELSE sQ' = sQ \o msgs /\ UNCHANGED wire

=============================================================================
