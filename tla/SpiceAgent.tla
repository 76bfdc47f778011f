----------------------------- MODULE SpiceAgent -----------------------------
(***************************************************************************)
(* The agent part of the SPICE main channel (main.js, filexfer.js): the    *)
(* tokens that allow messages to the agent of the guest, the queue of      *)
(* messages that wait for one, and the transfer of files, which are read   *)
(* chunk by chunk with FileReaders.                                        *)
(*                                                                         *)
(* A chunk of a file makes a message of Pieces pieces of at most           *)
(* VD_AGENT_MAX_DATA_SIZE; the other messages fit in one.  File sizes are  *)
(* in chunks and none is empty.                                            *)
(***************************************************************************)
EXTENDS Naturals, Sequences, SequencesExt, FiniteSets, FiniteSetsExt

CONSTANTS
  Pieces,      \* pieces of the message of a chunk
  Tokens,      \* numbers of tokens the server starts an agent with
  Sizes,       \* sizes of files
  MaxFiles,    \* files dropped on the page
  MaxAgents    \* agents that connect

VARIABLES
  agent_connected, agent_tokens, agent_msg_queue,
  file_xfer_tasks,        \* tasks by id: [size, cancelled]; deleted ones are out
  file_xfer_task_id, file_xfer_read_queue,
  readers,                \* FileReaders whose onload has not run: [task, sb, eb]
  sent,                   \* pieces sent to this agent
  returned,               \* tokens the server has given back for them
  answered,               \* tasks whose start the agent has answered
  agents,                 \* agents connected so far
  broken                  \* an agent left while transfers or pieces were waiting

avars == <<agent_connected, agent_tokens, agent_msg_queue, file_xfer_tasks, file_xfer_task_id,
           file_xfer_read_queue, readers, sent, returned, answered, agents, broken>>

Init ==
  /\ agent_connected = FALSE /\ agent_tokens = 0 /\ agent_msg_queue = <<>>
  /\ file_xfer_tasks = <<>> /\ file_xfer_task_id = 0 /\ file_xfer_read_queue = <<>>
  /\ readers = {} /\ sent = <<>> /\ returned = 0 /\ answered = {} /\ agents = 0
  /\ broken = FALSE

-----------------------------------------------------------------------------
(* Messages to the agent.  main is the part of the connection they change. *)

Main == [tokens |-> agent_tokens, queue |-> agent_msg_queue, sent |-> sent,
         tasks |-> file_xfer_tasks, waiting |-> file_xfer_read_queue, readers |-> readers]

Becomes(m) ==
  /\ agent_tokens' = m.tokens /\ agent_msg_queue' = m.queue /\ sent' = m.sent
  /\ file_xfer_tasks' = m.tasks /\ file_xfer_read_queue' = m.waiting /\ readers' = m.readers

\* The loop of send_agent_message_queue, over all pieces of a message: as many
\* of those that wait as there are tokens.
Flush(m) ==
  LET n == Min({m.tokens, Len(m.queue)})
  IN [m EXCEPT !.sent = @ \o SubSeq(m.queue, 1, n),
               !.queue = SubSeq(@, n + 1, Len(@)),
               !.tokens = @ - n]

\* Without an agent the message is dropped.
send_agent_message(m, message) ==
  IF agent_connected THEN Flush([m EXCEPT !.queue = @ \o message]) ELSE m

Piece(what, task, chunk, number) ==
  [what |-> what, task |-> task, chunk |-> chunk, number |-> number]

Announce         == <<Piece("announce", 0, 0, 1)>>
FileStart(task)  == <<Piece("start", task, 0, 1)>>
Cancelled(task)  == <<Piece("cancelled", task, 0, 1)>>
FileData(task, chunk) == [i \in 1..Pieces |-> Piece("data", task, chunk, i)]

\* A task that waited goes on with the chunk behind the one it waited for.
file_xfer_read_Next(m, task, start) ==
  IF task \notin DOMAIN m.tasks \/ (start > 0 /\ start = m.tasks[task].size)
  THEN m
  ELSE IF m.tasks[task].cancelled
  THEN [send_agent_message(m, Cancelled(task)) EXCEPT
          !.tasks = [t \in DOMAIN @ \ {task} |-> @[t]]]
  ELSE IF m.tokens = 0
  THEN [m EXCEPT !.waiting = Append(@, [task |-> task,
                   read_bytes |-> Min({start + 1, m.tasks[task].size})])]
  ELSE [m EXCEPT !.readers = @ \cup {[task |-> task, sb |-> start]}]

\* The next chunk of a file: nothing when the file is done, the end of a
\* cancelled one, a wait without tokens, else a FileReader.
file_xfer_read(m, task, start) ==
  IF task \notin DOMAIN m.tasks \/ (start > 0 /\ start = m.tasks[task].size)
  THEN m
  ELSE IF m.tasks[task].cancelled
  THEN [send_agent_message(m, Cancelled(task)) EXCEPT
          !.tasks = [t \in DOMAIN @ \ {task} |-> @[t]]]
  ELSE IF m.tokens = 0
  THEN [m EXCEPT !.waiting = Append(@, [task |-> task, read_bytes |-> start])]
  ELSE [m EXCEPT !.readers = @ \cup {[task |-> task, sb |-> start]}]

\* The task that has waited longest goes on.
ReadNext(m) ==
  IF m.waiting = <<>> THEN m
  ELSE file_xfer_read([m EXCEPT !.waiting = Tail(@)],
                      Head(m.waiting).task, Head(m.waiting).read_bytes)

\* The loop of SPICE_MSG_MAIN_AGENT_TOKEN: a task for each token there is.
Resume(m) ==
  LET after[turn \in 0..m.tokens] == IF turn = 0 THEN m ELSE ReadNext(after[turn - 1])
  IN  after[m.tokens]

-----------------------------------------------------------------------------
(* What the server and its agent send.                                     *)

\* SPICE_MSG_MAIN_AGENT_CONNECTED_TOKENS, and SPICE_MSG_MAIN_INIT of a guest
\* whose agent is there: the tokens, then connect_agent.
AgentConnected ==
  /\ ~agent_connected /\ agents < MaxAgents
  /\ agents' = agents + 1
  /\ agent_connected' = TRUE
  /\ \E n \in Tokens :
       Becomes(Flush([Main EXCEPT !.tokens = n, !.sent = <<>>, !.queue = @ \o Announce]))
  /\ returned' = 0 /\ answered' = {}
  /\ UNCHANGED <<file_xfer_task_id, broken>>

\* SPICE_MSG_MAIN_AGENT_DISCONNECTED: queues and tasks are left as they are.
AgentDisconnected ==
  /\ agent_connected
  /\ agent_connected' = FALSE
  /\ broken' = (broken \/ agent_msg_queue # <<>> \/ DOMAIN file_xfer_tasks # {}
                       \/ file_xfer_read_queue # <<>> \/ readers # {})
  /\ UNCHANGED <<agent_tokens, agent_msg_queue, file_xfer_tasks, file_xfer_task_id,
                 file_xfer_read_queue, readers, sent, returned, answered, agents>>

\* SPICE_MSG_MAIN_AGENT_TOKEN: tokens of pieces the agent has consumed.
AgentToken ==
  /\ agent_connected
  /\ \E n \in 1..(Len(sent) - returned) :
       /\ returned' = returned + n
       /\ Becomes(Resume(Flush([Main EXCEPT !.tokens = @ + n])))
  /\ UNCHANGED <<agent_connected, file_xfer_task_id, answered, agents, broken>>

Got(what, task) == \E i \in DOMAIN sent : sent[i].what = what /\ sent[i].task = task

\* VD_AGENT_FILE_XFER_STATUS_CAN_SEND_DATA, once for a start.
CanSendData ==
  /\ agent_connected
  /\ \E t \in 0..(file_xfer_task_id - 1) :
       /\ t \notin answered /\ Got("start", t)
       /\ answered' = answered \cup {t}
       /\ Becomes(file_xfer_read(Main, t, 0))
  /\ UNCHANGED <<agent_connected, file_xfer_task_id, returned, agents, broken>>

Complete(task) ==
  Cardinality({i \in DOMAIN sent : sent[i].what = "data" /\ sent[i].task = task})
    = Pieces * file_xfer_tasks[task].size

\* SUCCESS for all the data, or ERROR or CANCELLED at any time:
\* file_xfer_completed.
TransferStatus ==
  /\ agent_connected
  /\ \E t \in DOMAIN file_xfer_tasks, done \in BOOLEAN :
       /\ Got("start", t) /\ (done => Complete(t))
       /\ answered' = answered \cup {t}
       /\ Becomes([Main EXCEPT !.tasks = [u \in DOMAIN @ \ {t} |-> @[u]]])
  /\ UNCHANGED <<agent_connected, file_xfer_task_id, returned, agents, broken>>

-----------------------------------------------------------------------------
(* What the page does.                                                     *)

\* handle_file_drop, for one of the files: file_xfer_start.
DropFile ==
  /\ file_xfer_task_id < MaxFiles
  /\ agents > 0
  /\ \E size \in Sizes :
       LET t == file_xfer_task_id
       IN Becomes(send_agent_message(
            [Main EXCEPT !.tasks = [u \in DOMAIN @ \cup {t} |->
                IF u = t THEN [size |-> size, cancelled |-> FALSE] ELSE @[u]]],
            FileStart(t)))
  /\ file_xfer_task_id' = file_xfer_task_id + 1
  /\ broken' = (broken \/ ~agent_connected)
  /\ UNCHANGED <<agent_connected, returned, answered, agents>>

\* The Cancel button of the progress bar.
Cancel ==
  /\ \E t \in DOMAIN file_xfer_tasks :
       /\ ~file_xfer_tasks[t].cancelled
       /\ Becomes([Main EXCEPT !.tasks[t].cancelled = TRUE])
  /\ UNCHANGED <<agent_connected, file_xfer_task_id, returned, answered, agents, broken>>

\* reader.onload: the chunk is sent, whatever has become of the task, and the
\* next one is read.
FileReaderLoad ==
  /\ \E r \in readers :
       Becomes(file_xfer_read(
         send_agent_message([Main EXCEPT !.readers = @ \ {r}], FileData(r.task, r.sb)),
         r.task, r.sb + 1))
  /\ UNCHANGED <<agent_connected, file_xfer_task_id, returned, answered, agents, broken>>

Next ==
  \/ AgentConnected \/ AgentDisconnected \/ AgentToken \/ CanSendData \/ TransferStatus
  \/ DropFile \/ Cancel \/ FileReaderLoad

-----------------------------------------------------------------------------

Stream == sent \o agent_msg_queue

\* Unless an agent left in the middle of something: the agent gets the chunks
\* of each file from the first on, none twice and none left out, and the
\* pieces of a chunk together, however the tokens come and the readers finish.
ChunksInOrder ==
  ~broken =>
    /\ \A i, j \in DOMAIN Stream : Stream[i].what = "data" /\ Stream[i] = Stream[j] => i = j
    /\ \A i \in DOMAIN Stream :
         LET p == Stream[i]
         IN /\ p.what = "data" /\ p.number = 1 /\ p.chunk > 0 =>
                 \E j \in 1..(i - 1) : Stream[j] = Piece("data", p.task, p.chunk - 1, Pieces)
            /\ p.number > 1 => i > 1 /\ Stream[i - 1] = [p EXCEPT !.number = @ - 1]

\* The tokens that the client has or that are out with its pieces.
Given == agent_tokens + Len(sent) - returned

\* Unless an agent left: no token is lost; a message that waits for one, and a
\* file that does, will have one, as the server is to give back as many as
\* there are files that wait (with tokens for all files: with less, a task that
\* has ended may have taken the turn of one that waits); and a transfer that is
\* not finished waits for a reader, for a token, or for the agent.
TransferUnderWay ==
  ~broken /\ agent_connected =>
    /\ Given \in Tokens
    /\ agent_msg_queue # <<>> => agent_tokens = 0 /\ (0 \notin Tokens => returned < Len(sent))
    /\ file_xfer_task_id <= Given => Len(file_xfer_read_queue) <= Len(sent) - returned
    /\ \A t \in DOMAIN file_xfer_tasks :
         \/ t \notin answered
         \/ \E r \in readers : r.task = t
         \/ \E i \in DOMAIN file_xfer_read_queue : file_xfer_read_queue[i].task = t
         \/ \E i \in DOMAIN Stream :
              Stream[i] = Piece("data", t, file_xfer_tasks[t].size - 1, Pieces)
=============================================================================
