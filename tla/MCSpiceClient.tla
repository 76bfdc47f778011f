---------------------------- MODULE MCSpiceClient ----------------------------
(***************************************************************************)
(* The SPICE client for TLC.  Its parts share no state but the sockets of  *)
(* the session, so a behaviour takes the steps of one of them: the session *)
(* with all its channels, the classes of messages, the stream below every  *)
(* channel, the agent, the display, the sound, or the inputs.  The sound   *)
(* is extended and not instantiated, so that TLC evaluates its constants   *)
(* once.                                                                   *)
(***************************************************************************)
EXTENDS SpicePlayback, FiniteSets

CONSTANTS
  Types, MaxChannels,
  TicketBytes, KeyBytes, MsgLengths,
  LINK_HEADER, LINK_REPLY, AUTH_REPLY, MINI_DATA, Windows, MaxMessages,
  Pieces, Tokens, Sizes, MaxFiles, MaxAgents,
  Surfaces, Boxes, Streams, MaxDraws,
  Mods, Meta, CtrlAlt, Buttons, SPICE_INPUT_MOTION_ACK_BUNCH, MaxMotions

ASSUME SpiceClientAssumption ==
  /\ Types \subseteq {"display", "inputs", "cursor", "playback", "other"}
  /\ {MaxChannels, TicketBytes, KeyBytes, MaxMessages, MaxTime, MaxMotions} \subseteq Nat
  /\ MsgLengths \cup Lengths \cup Windows \cup Tokens \subseteq Nat
  /\ {LINK_HEADER, LINK_REPLY, AUTH_REPLY, MINI_DATA, Pieces, GAP_DETECTION_THRESHOLD,
      MAX_CLUSTER_TIME, SPICE_INPUT_MOTION_ACK_BUNCH} \cup Sizes \subseteq Nat \ {0}
  /\ 0 \in Surfaces /\ CtrlAlt \subseteq Mods

VARIABLES
  part,
  conns, slots, extra, progress, derailed, told,
  doing, size, starts, stack,
  stream, written, wire, state, needed, saved_msg_header, buffers, consumed, handled, ack_window,
  msgs_until_ack, replies, unacked, raised,
  agent_connected, agent_tokens, agent_msg_queue, file_xfer_tasks, file_xfer_task_id,
  file_xfer_read_queue, readers, sent, returned, answered, agents, broken,
  surfaces, primary_surface, hooked, cache, has_cache, streams, loading, open, draws, sv,
  astray, unclear,
  ready, held, focus, known, modifiers, guest, muddled, waiting_for_ack, motions, acks, down,
  buttons_state, several

session == <<conns, slots, extra, progress, derailed, told>>
msgs == <<doing, size, starts, stack>>
wires == <<stream, written, wire, state, needed, saved_msg_header, buffers, consumed, handled,
           ack_window, msgs_until_ack, replies, unacked, raised>>
agent == <<agent_connected, agent_tokens, agent_msg_queue, file_xfer_tasks, file_xfer_task_id,
           file_xfer_read_queue, readers, sent, returned, answered, agents, broken>>
display == <<surfaces, primary_surface, hooked, cache, has_cache, streams, loading, open, draws, sv,
           astray, unclear>>
inputs == <<ready, held, focus, known, modifiers, guest, muddled, waiting_for_ack, motions, acks, down,
           buttons_state, several>>

Messages ==
  {[kind |-> "plain", size |-> 0], [kind |-> "plain", size |-> 3], [kind |-> "ping", size |-> 1],
   [kind |-> "raises", size |-> 1]} \cup {[kind |-> "set_ack", size |-> 1, window |-> w] : w \in Windows}

ImageIds == {<<0, 1>>, <<1, 0>>}

Session  == INSTANCE SpiceSession
Msg      == INSTANCE SpiceMsg WITH Lengths <- MsgLengths
Wire     == INSTANCE SpiceWire
Agent    == INSTANCE SpiceAgent
Display  == INSTANCE SpiceDisplay
Inputs   == INSTANCE SpiceInputs WITH state <- modifiers

SpiceInit ==
  /\ part \in {"session", "msg", "wire", "agent", "display", "playback", "inputs"}
  /\ Session!Init /\ Msg!Init /\ Wire!Init /\ Agent!Init /\ Display!Init /\ Init /\ Inputs!Init
  /\ part # "inputs" => held = [m \in Mods |-> 0]

SpiceNext ==
  \/ /\ part = "session" /\ Session!Next
     /\ UNCHANGED <<part, msgs, wires, agent, display, pvars, inputs>>
  \/ /\ part = "msg" /\ Msg!Next
     /\ UNCHANGED <<part, session, wires, agent, display, pvars, inputs>>
  \/ /\ part = "wire" /\ Wire!Next
     /\ UNCHANGED <<part, session, msgs, agent, display, pvars, inputs>>
  \/ /\ part = "agent" /\ Agent!Next
     /\ UNCHANGED <<part, session, msgs, wires, display, pvars, inputs>>
  \/ /\ part = "display" /\ Display!Next
     /\ UNCHANGED <<part, session, msgs, wires, agent, pvars, inputs>>
  \/ /\ part = "playback" /\ Next
     /\ UNCHANGED <<part, session, msgs, wires, agent, display, inputs>>
  \/ /\ part = "inputs" /\ Inputs!Next
     /\ UNCHANGED <<part, session, msgs, wires, agent, display, pvars>>

all == <<part, session, msgs, wires, agent, display, pvars, inputs>>

\* A timer of the browser fires unless it is cleared.
SpiceSpec ==
  /\ SpiceInit /\ [][SpiceNext]_all
  /\ WF_all(part = "session" /\ Session!Timeout(0)
             /\ UNCHANGED <<part, msgs, wires, agent, display, pvars, inputs>>)

-----------------------------------------------------------------------------

\* When a session has been stopped no socket of it stays open and no timer is
\* left, except those of a connection that lost its slot.
NothingLeftOpen == Session!NothingLeftOpen

\* A session that is ready ends only with its socket.
ReadyUntilClosed == Session!ReadyUntilClosed

\* Every attempt to open a session ends ready, or stopped with an error.
SessionSettles ==
  part = "session" /\ conns[0].state = "connecting" ~>
    conns[0].state = "ready" \/ (conns[0].state = "closing" /\ told)

\* Every message is written whole into the buffer made for it, and every field
\* of one that is read is read where the server put it.
MessagesWhole ==
  part = "msg" => Msg!WrittenWhole /\ Msg!ReadInPlace

\* However the socket cuts the stream, each message is handled once and in
\* order, and the server gets the acknowledgements its window asks for.
AnyPieces ==
  part = "wire" => Wire!ReadsAnyPieces /\ Wire!AcksEveryWindow

\* Files reach the agent chunk by chunk, and what waits for a token gets one.
AgentTransfers ==
  part = "agent" => Agent!ChunksInOrder /\ Agent!TransferUnderWay

\* Canvases and image cache are what the server takes them for.
DisplayAsServer ==
  part = "display" => Display!DisplayAsServer

\* The sound is fed in order, never left in the queue, and a stream a player
\* can read.
SoundPlays ==
  part = "playback" => FedInOrder /\ QueueIsServed /\ StreamWellFormed

\* Modifiers, motions and buttons of the guest are those of the user.
InputsAgree ==
  part = "inputs" => Inputs!ModifiersAgree /\ Inputs!MotionsAcked /\ Inputs!ButtonsAgree
=============================================================================
