-------------------------------- MODULE Fleet --------------------------------
(***************************************************************************)
(* The worker processes of Virtlyst, the table servers_compute they share, *)
(* and the registry of servers (m_connections) each one rebuilds from that *)
(* table at the start of every request (Root::Auto calls                   *)
(* Virtlyst::updateConnections).                                           *)
(*                                                                         *)
(* A step of a worker is one SQL statement with the code that runs up to   *)
(* the next one: statements of different workers interleave, nothing else  *)
(* is shared.  A row is [name, type]; host name, login, password and       *)
(* customer number are carried along by the code and decide nothing but    *)
(* whether the UNIQUE host name refuses an edit (see Refused).             *)
(***************************************************************************)
EXTENDS Naturals, FiniteSets

CONSTANTS Proc,        \* worker processes (config.ini: processes = auto)
          Id,          \* primary keys
          Name,        \* server names
          Type,        \* connection types; "ssh" is treated apart
          None,        \* no row, or no entry
          MayFail,     \* whether an SQL statement may fail
          OrphanCap    \* where the count of lost objects stops

ASSUME MayFailAssumption == MayFail \in BOOLEAN
ASSUME OrphanCapAssumption == OrphanCap \in Nat

VARIABLES
  db,       \* servers_compute: the row of each key, or None
  fresh,    \* keys of the rows identified within the last 7 minutes
  pc,       \* where each worker is
  op,       \* what its current request asks for
  snap,     \* the rows its last SELECT returned ("ids" and the columns)
  todo,     \* the keys the running loop has still to visit
  reg,      \* m_connections
  page,     \* the servers (or the one connection) handed to the page
  orphans,  \* ServerConn objects no pointer leads to, up to OrphanCap
  quiet     \* no statement failed, and the table did not change, since
            \* the request began (the code has no such variable)

vars == <<db, fresh, pc, op, snap, todo, reg, page, orphans, quiet>>

Row == [name : Name, type : Type]

(* The "conn" of an entry: a null pointer, a Connection without a libvirt  *)
(* handle, one with a handle, or a pointer to a deleted Connection.        *)
Conn  == {"null", "unopened", "open", "dangling"}
Entry == [name : Name, type : Type, conn : Conn]

ASSUME NoneAssumption == None \notin Row \cup Entry

Op == {"list", "host", "add", "rename", "delete", "other"}
Pc == {"idle", "select", "load", "handle", "clone", "reply", "crashed"}

Empty == [id \in Id |-> None]
Keys(f) == {id \in Id : f[id] # None}

\* The entry without its connection: the row it was made from.
Bare(e) == IF e = None THEN None ELSE [name |-> e.name, type |-> e.type]

TypeOK ==
  /\ db \in [Id -> Row \cup {None}]
  /\ fresh \in SUBSET Keys(db)
  /\ pc \in [Proc -> Pc]
  /\ op \in [Proc -> Op \cup {"boot", "none"}]
  /\ snap \in [Proc -> [Id -> Row \cup {None}]]
  /\ todo \in [Proc -> SUBSET Id]
  /\ reg \in [Proc -> [Id -> Entry \cup {None}]]
  /\ page \in [Proc -> [Id -> Entry \cup {None}]]
  /\ orphans \in [Proc -> 0..OrphanCap]
  /\ quiet \in [Proc -> BOOLEAN]

-----------------------------------------------------------------------------
(* Helpers of the code                                                     *)

\* Mutant: the WHERE clause without the name.
NameOnline_Any(name) == fresh # {}

\* ServerConn::isonline looks the server up by NAME, whatever its key is.
NameOnline(name) == \E id \in fresh : db[id] # None /\ db[id].name = name

\* What isonline may answer: a statement that fails reads as "offline".
Answers(name) == {NameOnline(name)} \cup (IF MayFail THEN {FALSE} ELSE {})

\* new Connection(url, ...): the call that opens the handle is commented out.
NewConn == "unopened"

\* Mutant: as the commented-out code has it, with no handle to ask.
IsAlive_Handle(conn) == conn = "open"

\* Connection::isAlive, whose libvirt call is commented out as well.
IsAlive(conn) == TRUE

\* The entry updateConnections builds for a row.
LoadedEntry(row, online) ==
  [name |-> row.name, type |-> row.type,
   conn |-> IF online THEN NewConn ELSE "null"]

\* "server->conn && server->conn->isAlive()"
Usable(e) == e.conn # "null" /\ IsAlive(e.conn)

\* Virtlyst::connection drops a connection that is not alive and opens a new
\* one, except over SSH: there the pointer keeps its old value.
Reconnect(e, online) ==
  IF Usable(e) THEN e
  ELSE IF e.type = "ssh"
  THEN [e EXCEPT !.conn = IF e.conn = "null" THEN "null" ELSE "dangling"]
  ELSE [e EXCEPT !.conn = IF online THEN NewConn ELSE "null"]

\* Whether Virtlyst::connection gets as far as isonline.
AsksOnline(e) == ~Usable(e) /\ e.type # "ssh"

\* name is UNIQUE in servers_compute.
NameTaken(name) == \E id \in Keys(db) : db[id].name = name

-----------------------------------------------------------------------------
(* Steps of worker p                                                       *)

Goto(p, from, to) == pc[p] = from /\ pc' = [pc EXCEPT ![p] = to]

\* What p learns from one isonline: a wrong answer ends the quiet.
Ask(p, name, online) ==
  /\ online \in Answers(name)
  /\ quiet' = [quiet EXCEPT ![p] = @ /\ online = NameOnline(name)]

\* The process starts (postFork): its first refresh is like a request's.
Init ==
  /\ db \in [Id -> Row \cup {None}]
  /\ \A i, j \in Keys(db) : db[i].name = db[j].name => i = j
  /\ fresh \in SUBSET Keys(db)
  /\ pc = [p \in Proc |-> "select"]
  /\ op = [p \in Proc |-> "boot"]
  /\ snap = [p \in Proc |-> Empty]
  /\ todo = [p \in Proc |-> {}]
  /\ reg = [p \in Proc |-> Empty]
  /\ page = [p \in Proc |-> Empty]
  /\ orphans = [p \in Proc |-> 0]
  /\ quiet = [p \in Proc |-> TRUE]

\* Root::Auto lets the request through: it goes on to updateConnections.
Request(p) ==
  /\ Goto(p, "idle", "select")
  /\ quiet' = [quiet EXCEPT ![p] = TRUE]
  /\ UNCHANGED <<db, fresh, op, snap, todo, reg, page, orphans>>

\* The login page, and whoever is sent there: no refresh.
TurnAway(p) ==
  /\ Goto(p, "idle", "reply")
  /\ op' = [op EXCEPT ![p] = "other"]
  /\ quiet' = [quiet EXCEPT ![p] = TRUE]
  /\ UNCHANGED <<db, fresh, snap, todo, reg, page, orphans>>

\* updateConnections: the SELECT.  A failure is logged, and reads as no rows.
Select(p) ==
  /\ Goto(p, "select", "load")
  /\ \E rows \in {db} \cup (IF MayFail THEN {Empty} ELSE {}) :
       /\ snap' = [snap EXCEPT ![p] = rows]
       /\ todo' = [todo EXCEPT ![p] = Keys(rows)]
       /\ quiet' = [quiet EXCEPT ![p] = @ /\ rows = db]
  /\ UNCHANGED <<db, fresh, op, reg, page, orphans>>

\* Mutant: the commented-out branch that keeps an entry equal to its row.
LoadRow_Keep(p, id) ==
  /\ pc[p] = "load" /\ id \in todo[p]
  /\ \E online \in BOOLEAN :
       IF Bare(reg[p][id]) = snap[p][id] THEN UNCHANGED <<reg, quiet>>
       ELSE /\ Ask(p, snap[p][id].name, online)
            /\ reg' = [reg EXCEPT ![p][id] = LoadedEntry(snap[p][id], online)]
  /\ todo' = [todo EXCEPT ![p] = @ \ {id}]
  /\ UNCHANGED <<db, fresh, pc, op, snap, page, orphans>>

\* Mutant: an entry is made only for a key the registry does not have.
LoadRow_NewOnly(p, id) ==
  /\ pc[p] = "load" /\ id \in todo[p]
  /\ \E online \in BOOLEAN :
       /\ Ask(p, snap[p][id].name, online)
       /\ reg' = [reg EXCEPT ![p][id] =
                    IF @ # None THEN @ ELSE LoadedEntry(snap[p][id], online)]
  /\ todo' = [todo EXCEPT ![p] = @ \ {id}]
  /\ UNCHANGED <<db, fresh, pc, op, snap, page, orphans>>

\* updateConnections: one row.  The entry is always new; the one it replaces
\* is neither deleted nor reachable.
LoadRow(p, id) ==
  /\ pc[p] = "load" /\ id \in todo[p]
  /\ \E online \in BOOLEAN :
       /\ Ask(p, snap[p][id].name, online)
       /\ reg' = [reg EXCEPT ![p][id] = LoadedEntry(snap[p][id], online)]
  /\ orphans' = [orphans EXCEPT ![p] =
                   IF reg[p][id] # None /\ @ < OrphanCap THEN @ + 1 ELSE @]
  /\ todo' = [todo EXCEPT ![p] = @ \ {id}]
  /\ UNCHANGED <<db, fresh, pc, op, snap, page>>

\* Mutant: nothing is pruned.
Prune_Nothing(p) ==
  /\ Goto(p, "load", "handle")
  /\ todo[p] = {}
  /\ IF op[p] = "boot" THEN UNCHANGED op
     ELSE \E o \in Op : op' = [op EXCEPT ![p] = o]
  /\ UNCHANGED <<db, fresh, snap, todo, reg, page, orphans, quiet>>

\* updateConnections: entries whose key the SELECT did not return go.  The
\* request is then dispatched; nothing has read what it asks for until here.
Prune(p) ==
  /\ Goto(p, "load", "handle")
  /\ todo[p] = {}
  /\ reg' = [reg EXCEPT ![p] = [id \in Id |->
               IF snap[p][id] = None THEN None ELSE reg[p][id]]]
  /\ IF op[p] = "boot" THEN UNCHANGED op
     ELSE \E o \in Op : op' = [op EXCEPT ![p] = o]
  /\ UNCHANGED <<db, fresh, snap, todo, page, orphans, quiet>>

\* Virtlyst::servers, called by the server list and by the infrastructure page.
List(p) ==
  /\ Goto(p, "handle", "clone")
  /\ op[p] = "list"
  /\ todo' = [todo EXCEPT ![p] = Keys(reg[p])]
  /\ UNCHANGED <<db, fresh, op, snap, reg, page, orphans, quiet>>

\* Mutant: the loop of servers() does not advance past an offline server.
CloneServer_Stuck(p, id) ==
  /\ pc[p] = "clone" /\ id \in todo[p]
  /\ \E online \in BOOLEAN :
       /\ Ask(p, reg[p][id].name, online)
       /\ online => reg[p][id].conn # "null"
       /\ page' = [page EXCEPT ![p][id] =
            IF online THEN reg[p][id] ELSE [reg[p][id] EXCEPT !.conn = "null"]]
       /\ todo' = [todo EXCEPT ![p] = IF online THEN @ \ {id} ELSE @]
  /\ UNCHANGED <<db, fresh, pc, op, snap, reg, orphans>>

\* ServerConn::clone, which asks once more whether the server is online.
CloneServer(p, id) ==
  /\ pc[p] = "clone" /\ id \in todo[p]
  /\ \E online \in BOOLEAN :
       /\ Ask(p, reg[p][id].name, online)
       /\ online => reg[p][id].conn # "null"
       /\ page' = [page EXCEPT ![p][id] =
            IF online THEN reg[p][id] ELSE [reg[p][id] EXCEPT !.conn = "null"]]
  /\ todo' = [todo EXCEPT ![p] = @ \ {id}]
  /\ UNCHANGED <<db, fresh, pc, op, snap, reg, orphans>>

\* The same call when the entry has no connection and the answer is "online":
\* conn->clone(ret) goes through a null pointer, and the process dies.
CloneNull(p, id) ==
  /\ Goto(p, "clone", "crashed")
  /\ id \in todo[p]
  /\ reg[p][id].conn = "null"
  /\ Ask(p, reg[p][id].name, TRUE)
  /\ snap' = [snap EXCEPT ![p] = Empty]
  /\ todo' = [todo EXCEPT ![p] = {}]
  /\ reg' = [reg EXCEPT ![p] = Empty]
  /\ page' = [page EXCEPT ![p] = Empty]
  /\ orphans' = [orphans EXCEPT ![p] = 0]
  /\ UNCHANGED <<db, fresh, op>>

ListDone(p) ==
  /\ Goto(p, "clone", "reply")
  /\ todo[p] = {}
  /\ UNCHANGED <<db, fresh, op, snap, todo, reg, page, orphans, quiet>>

\* Virtlyst::connection(id), called by every page about one host.
Host(p, id) ==
  /\ Goto(p, "handle", "reply")
  /\ op[p] = "host"
  /\ LET e == reg[p][id] IN
     \/ /\ e = None
        /\ UNCHANGED <<reg, page, quiet>>
     \/ /\ e # None
        /\ \E online \in BOOLEAN :
             /\ IF AsksOnline(e) THEN Ask(p, e.name, online)
                ELSE online = FALSE /\ UNCHANGED quiet
             /\ LET f == Reconnect(e, online) IN
                /\ reg' = [reg EXCEPT ![p][id] = f]
                /\ page' = [page EXCEPT ![p][id] =
                     IF Usable(f) THEN f ELSE [f EXCEPT !.conn = "null"]]
  /\ UNCHANGED <<db, fresh, op, snap, todo, orphans>>

\* An INSERT, UPDATE or DELETE leaves the table new; the answer is a redirect.
Edit(p, o, new) ==
  /\ Goto(p, "handle", "reply")
  /\ op[p] = o
  /\ db' = new
  /\ fresh' = {id \in fresh : new[id] # None}
  /\ quiet' = [q \in Proc |-> quiet[q] /\ new = db]
  /\ UNCHANGED <<op, snap, todo, reg, page, orphans>>

\* Server::createServer, for each of the four kinds of connection.
Add(p, id, name, type) ==
  /\ db[id] = None
  /\ ~NameTaken(name)
  /\ Edit(p, "add", [db EXCEPT ![id] = [name |-> name, type |-> type]])

\* Server::updateName, and Server::updateServer as far as the model sees it:
\* neither changes the type.  No row has the key: nothing happens.
Rename(p, id, name) ==
  /\ NameTaken(name) => db[id] # None /\ db[id].name = name
  /\ Edit(p, "rename", IF db[id] = None THEN db
                       ELSE [db EXCEPT ![id].name = name])

\* Server::deleteServer.
Delete(p, id) == Edit(p, "delete", [db EXCEPT ![id] = None])

\* A statement that fails, or that UNIQUE (name or host name) refuses: logged,
\* and the answer is the same redirect.
Refused(p) ==
  \E o \in {"add", "rename"} \cup (IF MayFail THEN {"delete"} ELSE {}) :
    Edit(p, o, db)

\* Every other page, and the end of the refresh at start-up.
Other(p) ==
  /\ Goto(p, "handle", "reply")
  /\ op[p] \in {"boot", "other"}
  /\ UNCHANGED <<db, fresh, op, snap, todo, reg, page, orphans, quiet>>

\* The answer is sent, and everything whose parent is the Context goes.
Done(p) ==
  /\ Goto(p, "reply", "idle")
  /\ op' = [op EXCEPT ![p] = "none"]
  /\ snap' = [snap EXCEPT ![p] = Empty]
  /\ page' = [page EXCEPT ![p] = Empty]
  /\ UNCHANGED <<db, fresh, todo, reg, orphans, quiet>>

\* The master (config.ini: master = true) replaces a worker that died.
Restart(p) ==
  /\ Goto(p, "crashed", "select")
  /\ op' = [op EXCEPT ![p] = "boot"]
  /\ quiet' = [quiet EXCEPT ![p] = TRUE]
  /\ UNCHANGED <<db, fresh, snap, todo, reg, page, orphans>>

-----------------------------------------------------------------------------
(* Whoever writes last_identity_update (no code of this repository does)   *)

Identify(id) ==
  /\ db[id] # None /\ id \notin fresh
  /\ fresh' = fresh \cup {id}
  /\ quiet' = [q \in Proc |-> FALSE]
  /\ UNCHANGED <<db, pc, op, snap, todo, reg, page, orphans>>

Expire(id) ==
  /\ id \in fresh
  /\ fresh' = fresh \ {id}
  /\ quiet' = [q \in Proc |-> FALSE]
  /\ UNCHANGED <<db, pc, op, snap, todo, reg, page, orphans>>

-----------------------------------------------------------------------------

Refresh(p) == Select(p) \/ (\E id \in Id : LoadRow(p, id)) \/ Prune(p)

Serve(p) ==
  \/ List(p) \/ ListDone(p) \/ Other(p) \/ Refused(p)
  \/ \E id \in Id : CloneServer(p, id) \/ CloneNull(p, id) \/ Host(p, id)
                    \/ Delete(p, id)
  \/ \E id \in Id, name \in Name : Rename(p, id, name)
  \/ \E id \in Id, name \in Name, type \in Type : Add(p, id, name, type)

Next ==
  \/ \E p \in Proc : Request(p) \/ TurnAway(p) \/ Refresh(p) \/ Serve(p)
                     \/ Done(p) \/ Restart(p)
  \/ \E id \in Id : Identify(id) \/ Expire(id)

Spec == Init /\ [][Next]_vars

\* The event loop runs a request it has read to its end, and the master
\* restarts a dead worker.  Requests, edits of the fleet and the freshness of
\* rows come from outside: nothing says that they ever happen.
FairSpec ==
  /\ Spec
  /\ \A p \in Proc : WF_vars(Refresh(p) \/ Serve(p) \/ Done(p) \/ Restart(p))

-----------------------------------------------------------------------------
(* Properties                                                              *)

\* What the infrastructure page shows of Virtlyst::servers: the entries that
\* have a connection.
Shown(p) == {id \in Keys(page[p]) : page[p][id].conn # "null"}

\* The registry a request works with is the table its own SELECT returned:
\* same keys, same names, same types, whatever the registry was before and
\* whatever the other workers did to the table during the row-by-row refresh
\* (updateConnections replaces each entry and prunes the others).
RegistryMirrorsSelect ==
  \A p \in Proc : pc[p] \in {"handle", "clone"} =>
    \A id \in Id : Bare(reg[p][id]) = snap[p][id]

\* A worker dies in ServerConn::clone only if, during that very request, the
\* table or the freshness of a row changed, or a statement failed: the two
\* calls of isonline, one in the refresh and one in the copy, must disagree.
QuietRequestSafe ==
  \A p \in Proc : pc[p] = "crashed" => ~quiet[p]

\* In a quiet request the infrastructure page shows exactly the servers that
\* were identified recently, and a page about one host gets a connection
\* exactly if that host was: isonline asks by name, and is right by key.
QuietAnswersOnline ==
  \A p \in Proc : pc[p] = "reply" /\ quiet[p] =>
    /\ op[p] = "list" => Shown(p) = fresh
    /\ op[p] = "host" =>
         \A id \in Keys(page[p]) : (id \in Shown(p)) <=> (id \in fresh)

\* No entry keeps a pointer to a Connection that Virtlyst::connection deleted.
NoDangling ==
  \A p \in Proc : \A id \in Keys(reg[p]) : reg[p][id].conn # "dangling"

\* A request that was let through is answered, by this process or, when it
\* dies, by none, but then the worker is replaced: either way the worker is
\* ready for the next request again.
WorkerReadyAgain == \A p \in Proc : pc[p] = "select" ~> pc[p] = "idle"

\* Each request is answered from the table as it stood at one instant of it.
BarePage(p) ==
  IF pc[p] = "reply" THEN [id \in Id |-> Bare(page[p][id])] ELSE Empty

PhaseOf(p) ==
  CASE pc[p] = "idle"                       -> "out"
    [] pc[p] = "select"                     -> "reading"
    [] pc[p] \in {"load", "handle", "clone"} -> "serving"
    [] pc[p] = "reply"                      -> "replied"
    [] pc[p] = "crashed"                    -> "down"

Directory == INSTANCE ServerDirectory WITH
  table <- db, view <- snap,
  phase <- [p \in Proc |-> PhaseOf(p)],
  page  <- [p \in Proc |-> BarePage(p)]

\* The detailed workers implement ServerDirectory.
AnswersFromOneInstant == Directory!Spec

(* What documents and comments of the repository say, and the code does not *)

\* virtlyst.cpp:564 has the copy use "conn" only where "conn" is set.
NoNullClone == \A p \in Proc : pc[p] # "crashed"

=============================================================================
