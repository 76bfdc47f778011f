--------------------------- MODULE SpicePlayback ---------------------------
(***************************************************************************)
(* The playback channel of the SPICE client (playback.js): the sound the   *)
(* server sends becomes a WebM stream that is fed, one buffer at a time,   *)
(* to the SourceBuffer of an audio element.  The browser opens the source  *)
(* and finishes each append when it likes; sound that arrives meanwhile    *)
(* waits in a queue.                                                       *)
(***************************************************************************)
EXTENDS Webm

CONSTANTS
  GAP_DETECTION_THRESHOLD,   \* 50 in the code
  MAX_CLUSTER_TIME,          \* 1000 in the code
  Lengths,    \* lengths of a packet's data
  MaxTime,    \* the latest time of a packet
  MaxData,    \* packets the server sends
  MaxStarts   \* starts it sends

None == 0

VARIABLES
  sources,         \* media sources made so far; audio shows the last one
  opened,          \* those whose sourceopen has been handled
  source_buffer,   \* the source it belongs to, or None
  heard,           \* source buffers whose updateend is listened to
  updating,        \* source buffers that are taking an append
  full,            \* the browser refuses to store more sound
  append_okay, queue,
  appended, made,  \* what has been appended, and what has been made for it
  lost,            \* an append was refused: its buffer is gone
  start_time, cluster_time, last_data_time, gap_time,
  data,            \* packets received
  buffered,        \* end of the sound in the source buffer, or None
  threw            \* the handler of a message has thrown (see SpiceWire)

pvars == <<sources, opened, source_buffer, heard, updating, full, append_okay, queue, appended,
           made, lost, start_time, cluster_time, last_data_time, gap_time,
           data, buffered, threw>>

Init ==
  /\ sources = 0 /\ opened = {} /\ source_buffer = None /\ heard = {} /\ updating = {}
  /\ full = FALSE /\ append_okay = FALSE /\ queue = <<>> /\ appended = <<>> /\ made = <<>>
  /\ lost = FALSE /\ start_time = 0 /\ cluster_time = 0 /\ last_data_time = 0 /\ gap_time = 0
  /\ data = 0
  /\ buffered = None /\ threw = FALSE

-----------------------------------------------------------------------------
(* The buffers on their way to the source buffer.                          *)

Feed == [okay |-> append_okay, queue |-> queue, appended |-> appended, made |-> made,
         updating |-> updating, lost |-> lost]

Header     == [what |-> "header", time |-> 0]
Cluster(t) == [what |-> "cluster", time |-> t]
Block(t)   == [what |-> "block", time |-> t]

\* appendBuffer throws while an earlier append is under way, when the source
\* buffer is full, and when there is none; the error is logged and the
\* buffer forgotten.
playback_append_buffer(p, b) ==
  IF source_buffer = None \/ source_buffer \in p.updating \/ full
  THEN [p EXCEPT !.lost = TRUE]
  ELSE [p EXCEPT !.updating = @ \cup {source_buffer}, !.okay = FALSE,
                 !.appended = Append(@, b)]

Make(p, b) == [p EXCEPT !.made = Append(@, b)]

\* Appended without a look at append_okay.
Offer_Always(p, b) == playback_append_buffer(Make(p, b), b)

Offer(p, b) ==
  IF p.okay THEN playback_append_buffer(Make(p, b), b)
  ELSE [Make(p, b) EXCEPT !.queue = Append(@, b)]

simple_block(p, time, cluster) == Offer(p, Block(time - cluster))

new_cluster(p, time, cluster) == simple_block(Offer(p, Cluster(cluster)), time, time)

start_playback(p, time) ==
  new_cluster(playback_append_buffer(Make(p, Header), Header), time, 0)

Fed(p) ==
  /\ append_okay' = p.okay /\ queue' = p.queue /\ appended' = p.appended /\ made' = p.made
  /\ updating' = p.updating /\ lost' = p.lost

Unfed == UNCHANGED <<append_okay, queue, appended, made, updating, lost>>

-----------------------------------------------------------------------------
(* Messages of the server.                                                 *)

\* SPICE_MSG_PLAYBACK_START, of a format the player can handle.  With a
\* source buffer there, the message falls through to  return false.
PlaybackStart ==
  /\ ~threw /\ sources < MaxStarts
  /\ source_buffer = None
  /\ sources' = sources + 1
  /\ Unfed
  /\ UNCHANGED <<opened, source_buffer, heard, full, start_time, cluster_time,
                 last_data_time, gap_time, data, buffered, threw>>

\* SPICE_MSG_PLAYBACK_DATA.  A packet that is late by GAP_DETECTION_THRESHOLD
\* asks the source buffer where its sound ends, which throws when there is no
\* source buffer or no sound in it yet.
PlaybackData ==
  /\ ~threw /\ data < MaxData
  /\ \E t \in 1..MaxTime :
       LET time == IF last_data_time # 0 /\ t <= last_data_time THEN last_data_time + 1 ELSE t
           gap  == /\ last_data_time # 0
                   /\ time - last_data_time >= GAP_DETECTION_THRESHOLD
           skipped == IF gap THEN time - start_time - buffered ELSE gap_time
           first == start_time = 0
           next  == time - cluster_time >= MAX_CLUSTER_TIME \/ gap
       IN /\ t >= last_data_time
          /\ data' = data + 1
          /\ IF gap /\ (source_buffer = None \/ buffered = None)
             THEN /\ threw' = TRUE
                  /\ Unfed
                  /\ UNCHANGED <<start_time, cluster_time, last_data_time, gap_time, heard>>
             ELSE /\ last_data_time' = time /\ gap_time' = skipped
                  /\ UNCHANGED threw
                  /\ IF source_buffer = None
                     THEN Unfed /\ UNCHANGED <<start_time, cluster_time, heard>>
                     ELSE /\ start_time' = IF first THEN time ELSE start_time
                          /\ cluster_time' = IF first \/ next THEN time ELSE cluster_time
                          /\ heard' = IF first THEN heard \cup {source_buffer} ELSE heard
                          /\ Fed(IF first THEN start_playback(Feed, time)
                                 ELSE IF next
                                 THEN new_cluster(Feed, time, time - start_time - skipped)
                                 ELSE simple_block(Feed, time, cluster_time))
  /\ UNCHANGED <<sources, opened, source_buffer, full, buffered>>

\* SPICE_MSG_PLAYBACK_MODE of a mode that is not OPUS.
PlaybackMode ==
  /\ ~threw /\ source_buffer # None
  /\ source_buffer' = None
  /\ Unfed
  /\ UNCHANGED <<sources, opened, heard, full, start_time, cluster_time, last_data_time, gap_time,
                 data, buffered, threw>>

-----------------------------------------------------------------------------
(* Events of the browser.                                                  *)

\* handle_source_open: the first source to open gives the source buffer.
SourceOpen ==
  /\ \E s \in (1..sources) \ opened :
       /\ opened' = opened \cup {s}
       /\ source_buffer' = IF source_buffer = None THEN s ELSE source_buffer
       /\ buffered' = IF source_buffer = None THEN None ELSE buffered
  /\ Unfed
  /\ UNCHANGED <<sources, heard, full, start_time, cluster_time, last_data_time, gap_time,
                 data, threw>>

\* Where the sound in a source buffer ends: its last block, in its cluster.
End(stored) ==
  LET Latest(w) == CHOOSE i \in DOMAIN stored :
                   stored[i].what = w /\ \A j \in DOMAIN stored : j > i => stored[j].what # w
  IN IF \E i \in DOMAIN stored : stored[i].what = "block"
     THEN stored[Latest("cluster")].time + stored[Latest("block")].time + 1 ELSE None

\* handle_append_buffer_done, when it is the listener of the source buffer.
AppendDone ==
  /\ \E s \in updating :
       /\ LET p == [Feed EXCEPT !.updating = @ \ {s}]
          IN Fed(IF s \notin heard THEN p
                 ELSE IF queue = <<>> THEN [p EXCEPT !.okay = TRUE]
                 ELSE playback_append_buffer([p EXCEPT !.queue = Tail(@)], Head(queue)))
       /\ buffered' = IF s = source_buffer THEN End(appended) ELSE buffered
  /\ UNCHANGED <<sources, opened, source_buffer, heard, full, start_time, cluster_time,
                 last_data_time, gap_time, data, threw>>

\* From here on the browser has no room: appendBuffer throws.
Fill ==
  /\ ~full /\ source_buffer # None
  /\ full' = TRUE
  /\ Unfed
  /\ UNCHANGED <<sources, opened, source_buffer, heard, start_time, cluster_time,
                 last_data_time, gap_time, data, buffered, threw>>

Next == PlaybackStart \/ PlaybackData \/ PlaybackMode \/ SourceOpen \/ AppendDone \/ Fill

-----------------------------------------------------------------------------

\* The browser has room and the source buffer is the one start_playback saw.
Usual == source_buffer # None /\ ~full /\ heard = {source_buffer}

\* Until the browser refuses one, every buffer that has been made is appended
\* or waits, in the order in which it was made, and nothing is appended on top
\* of an append that is under way.
FedInOrder == Usual => ~lost /\ appended \o queue = made

\* What waits is not forgotten: the end of an append will fetch it.
QueueIsServed == Usual /\ queue # <<>> => source_buffer \in updating

\* The elements the client makes are as long as they declare.
ElementsWhole ==
  /\ \A e \in ToSet(webm_Header) \cup {webm_Cluster} : Whole(e)
  /\ \A n \in Lengths : Whole(webm_SimpleBlock(n))

\* The stream is well formed: every element is as long as it declares (which
\* does not depend on the state, and is looked at before the first source),
\* it begins with the header and a cluster, and a block lies in its cluster,
\* whose 16-bit time code would not hold a later one.
StreamWellFormed ==
  /\ sources = 0 => ElementsWhole
  /\ \A i \in DOMAIN made :
       /\ i = 1 <=> made[i].what = "header"
       /\ i = 2 => made[i].what = "cluster"
       /\ made[i].what = "block" => made[i].time \in 0..(MAX_CLUSTER_TIME - 1)
=============================================================================
