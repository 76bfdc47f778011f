----------------------------- MODULE FleetProofs -----------------------------
(***************************************************************************)
(* Theorems about Fleet, for any number of workers, keys, names and types, *)
(* with or without failing statements.                                     *)
(***************************************************************************)
EXTENDS Fleet, TLAPS

LEMMA EmptyType ==
  Empty \in [Id -> Row \cup {None}] /\ Empty \in [Id -> Entry \cup {None}]
  BY DEF Empty

\* A loaded entry is an entry, and shows the row it was made from.
LEMMA LoadedEntryType ==
  ASSUME NEW row \in Row, NEW online \in BOOLEAN
  PROVE  LoadedEntry(row, online) \in Entry /\ Bare(LoadedEntry(row, online)) = row
<1>1. LoadedEntry(row, online) \in Entry
  BY DEF LoadedEntry, Row, Entry, Conn, NewConn
<1>2. LoadedEntry(row, online) # None
  BY <1>1, NoneAssumption
<1>3. QED BY <1>1, <1>2 DEF Bare, LoadedEntry, Row

\* Changing the connection of an entry leaves an entry with the same row.
LEMMA ConnOnly ==
  ASSUME NEW e \in Entry, NEW c \in Conn
  PROVE  /\ [e EXCEPT !.conn = c] \in Entry
         /\ Bare([e EXCEPT !.conn = c]) = Bare(e)
<1>1. [e EXCEPT !.conn = c] \in Entry
  BY DEF Entry
<1>2. e # None /\ [e EXCEPT !.conn = c] # None
  BY <1>1, NoneAssumption
<1>3. QED BY <1>1, <1>2 DEF Bare, Entry

LEMMA ReconnectType ==
  ASSUME NEW e \in Entry, NEW online \in BOOLEAN
  PROVE  Reconnect(e, online) \in Entry /\ Bare(Reconnect(e, online)) = Bare(e)
  BY ConnOnly DEF Reconnect, Conn, NewConn

-----------------------------------------------------------------------------

\* Each loop of a worker visits keys its list or map has.
Loops ==
  \A p \in Proc :
    /\ pc[p] = "load"  => todo[p] \subseteq Keys(snap[p])
    /\ pc[p] = "clone" => todo[p] \subseteq Keys(reg[p])

TypeInv == TypeOK /\ Loops

LEMMA TypeInvInit == Init => TypeInv
<1> SUFFICES ASSUME Init PROVE TypeInv
  OBVIOUS
<1>1. TypeOK
  BY EmptyType, OrphanCapAssumption DEF Init, TypeOK, Pc
<1>2. Loops
  BY DEF Init, Loops
<1>3. QED BY <1>1, <1>2 DEF TypeInv

LEMMA TypeInvStep == TypeInv /\ [Next]_vars => TypeInv'
<1> SUFFICES ASSUME TypeInv, [Next]_vars PROVE TypeInv'
  OBVIOUS
<1> USE DEF TypeInv, TypeOK, Loops
<1>0. CASE UNCHANGED vars
  BY <1>0 DEF vars, Keys
<1>1. ASSUME NEW p \in Proc, Request(p) \/ TurnAway(p) \/ Other(p) \/ Restart(p)
      PROVE  TypeInv'
  BY <1>1 DEF Request, TurnAway, Other, Restart, Goto, Op, Pc, Keys
<1>2. ASSUME NEW p \in Proc, Select(p) PROVE TypeInv'
  BY <1>2, EmptyType DEF Select, Goto, Pc, Keys
<1>3. ASSUME NEW p \in Proc, NEW id \in Id, LoadRow(p, id) PROVE TypeInv'
  <2>1. snap[p][id] \in Row
    BY <1>3 DEF LoadRow, Keys
  <2>2. PICK online \in BOOLEAN :
          /\ Ask(p, snap[p][id].name, online)
          /\ reg' = [reg EXCEPT ![p][id] = LoadedEntry(snap[p][id], online)]
    BY <1>3 DEF LoadRow
  <2>3. LoadedEntry(snap[p][id], online) \in Entry
    BY <2>1, LoadedEntryType
  <2>4. reg' \in [Proc -> [Id -> Entry \cup {None}]]
    BY <2>2, <2>3
  <2>5. quiet' \in [Proc -> BOOLEAN]
    BY <2>2 DEF Ask
  <2>6. orphans' \in [Proc -> 0..OrphanCap]
    BY <1>3, OrphanCapAssumption DEF LoadRow
  <2>7. todo' \in [Proc -> SUBSET Id]
    BY <1>3 DEF LoadRow
  <2>8. Loops'
    BY <1>3, <2>2 DEF LoadRow, Keys
  <2> QED BY <1>3, <2>4, <2>5, <2>6, <2>7, <2>8 DEF LoadRow, Keys
<1>4. ASSUME NEW p \in Proc, Prune(p) PROVE TypeInv'
  BY <1>4 DEF Prune, Goto, Pc, Op, Keys
<1>5. ASSUME NEW p \in Proc, List(p) PROVE TypeInv'
  BY <1>5 DEF List, Goto, Pc, Keys
<1>6. ASSUME NEW p \in Proc, NEW id \in Id, CloneServer(p, id) PROVE TypeInv'
  <2>1. reg[p][id] \in Entry
    BY <1>6 DEF CloneServer, Keys
  <2>2. [reg[p][id] EXCEPT !.conn = "null"] \in Entry
    BY <2>1, ConnOnly DEF Conn
  <2>3. page' \in [Proc -> [Id -> Entry \cup {None}]]
    BY <1>6, <2>1, <2>2 DEF CloneServer
  <2>4. quiet' \in [Proc -> BOOLEAN]
    BY <1>6 DEF CloneServer, Ask
  <2> QED BY <1>6, <2>3, <2>4 DEF CloneServer, Keys
<1>7. ASSUME NEW p \in Proc, NEW id \in Id, CloneNull(p, id) PROVE TypeInv'
  BY <1>7, EmptyType, OrphanCapAssumption DEF CloneNull, Goto, Pc, Ask, Keys
<1>8. ASSUME NEW p \in Proc, ListDone(p) PROVE TypeInv'
  BY <1>8 DEF ListDone, Goto, Pc, Keys
<1>9. ASSUME NEW p \in Proc, NEW id \in Id, Host(p, id) PROVE TypeInv'
  <2>1. CASE reg[p][id] = None
    BY <1>9, <2>1 DEF Host, Goto, Pc, Keys
  <2>2. CASE reg[p][id] # None
    <3>1. PICK online \in BOOLEAN :
            /\ IF AsksOnline(reg[p][id]) THEN Ask(p, reg[p][id].name, online)
               ELSE online = FALSE /\ UNCHANGED quiet
            /\ LET f == Reconnect(reg[p][id], online) IN
               /\ reg' = [reg EXCEPT ![p][id] = f]
               /\ page' = [page EXCEPT ![p][id] =
                    IF Usable(f) THEN f ELSE [f EXCEPT !.conn = "null"]]
      BY <1>9, <2>2 DEF Host
    <3> DEFINE f == Reconnect(reg[p][id], online)
    <3>2. f \in Entry
      BY <2>2, ReconnectType
    <3>3. [f EXCEPT !.conn = "null"] \in Entry
      BY <3>2, ConnOnly DEF Conn
    <3> HIDE DEF f
    <3>4. /\ reg' = [reg EXCEPT ![p][id] = f]
          /\ page' = [page EXCEPT ![p][id] =
               IF Usable(f) THEN f ELSE [f EXCEPT !.conn = "null"]]
      BY <3>1 DEF f
    <3>5. /\ reg' \in [Proc -> [Id -> Entry \cup {None}]]
          /\ page' \in [Proc -> [Id -> Entry \cup {None}]]
      BY <3>2, <3>3, <3>4
    <3>6. quiet' \in [Proc -> BOOLEAN]
      BY <3>1 DEF Ask
    <3>7. Loops'
      BY <1>9, <3>4 DEF Host, Goto, Keys
    <3> QED BY <1>9, <3>5, <3>6, <3>7 DEF Host, Goto, Pc, Keys
  <2> QED BY <2>1, <2>2
<1>10. ASSUME NEW p \in Proc, NEW o, NEW new \in [Id -> Row \cup {None}],
              Edit(p, o, new)
       PROVE  TypeInv'
  BY <1>10 DEF Edit, Goto, Pc, Keys
<1>11. ASSUME NEW p \in Proc, Refused(p) PROVE TypeInv'
  BY <1>11, <1>10 DEF Refused
<1>12. ASSUME NEW p \in Proc, NEW id \in Id, Delete(p, id) PROVE TypeInv'
  <2>1. [db EXCEPT ![id] = None] \in [Id -> Row \cup {None}]
    OBVIOUS
  <2> QED BY <2>1, <1>12, <1>10 DEF Delete
<1>13. ASSUME NEW p \in Proc, NEW id \in Id, NEW name \in Name, Rename(p, id, name)
       PROVE  TypeInv'
  <2> DEFINE new == IF db[id] = None THEN db ELSE [db EXCEPT ![id].name = name]
  <2>1. new \in [Id -> Row \cup {None}]
    BY DEF Row
  <2> QED BY <2>1, <1>13, <1>10 DEF Rename
<1>14. ASSUME NEW p \in Proc, NEW id \in Id, NEW name \in Name, NEW type \in Type,
              Add(p, id, name, type)
       PROVE  TypeInv'
  <2>1. [db EXCEPT ![id] = [name |-> name, type |-> type]] \in [Id -> Row \cup {None}]
    BY DEF Row
  <2> QED BY <2>1, <1>14, <1>10 DEF Add
<1>15. ASSUME NEW p \in Proc, Done(p) PROVE TypeInv'
  BY <1>15, EmptyType DEF Done, Goto, Pc, Keys
<1>16. ASSUME NEW id \in Id, Identify(id) \/ Expire(id) PROVE TypeInv'
  BY <1>16 DEF Identify, Expire, Keys
<1>17. QED
  BY <1>0, <1>1, <1>2, <1>3, <1>4, <1>5, <1>6, <1>7, <1>8, <1>9, <1>11, <1>12,
     <1>13, <1>14, <1>15, <1>16 DEF Next, Refresh, Serve

\* The state of every worker and of the table keeps its type: what a page or
\* a registry holds is an entry or nothing, and only a key that has a row is
\* known to be fresh, through every interleaving of edits and refreshes.
THEOREM TypeCorrect == Spec => []TypeOK
<1>1. TypeInv => TypeOK
  BY DEF TypeInv
<1>2. QED BY <1>1, TypeInvInit, TypeInvStep, PTL DEF Spec

-----------------------------------------------------------------------------
(* The registry and the page follow the request's own SELECT               *)

\* Row by row, the registry becomes the table the SELECT returned.
Mirror ==
  /\ \A p \in Proc : pc[p] = "load" =>
       \A id \in Keys(snap[p]) \ todo[p] : Bare(reg[p][id]) = snap[p][id]
  /\ RegistryMirrorsSelect

\* Entry by entry, the page becomes the registry; and what a request has
\* seen and shown is forgotten when it ends.
Pages ==
  \A p \in Proc :
    /\ pc[p] \notin {"clone", "reply"} => page[p] = Empty
    /\ pc[p] \in {"idle", "select", "crashed"} => snap[p] = Empty
    /\ pc[p] = "clone" =>
         \A id \in Id : IF id \in todo[p] THEN page[p][id] = None
                        ELSE Bare(page[p][id]) = snap[p][id]

LEMMA MirrorInit == Init => Mirror /\ Pages
  BY DEF Init, Mirror, Pages, RegistryMirrorsSelect

LEMMA MirrorStep == TypeInv /\ Mirror /\ Pages /\ [Next]_vars => Mirror' /\ Pages'
<1> SUFFICES ASSUME TypeInv, Mirror, Pages, [Next]_vars PROVE Mirror' /\ Pages'
  OBVIOUS
<1> USE DEF TypeInv, TypeOK, Loops, Mirror, Pages, RegistryMirrorsSelect
<1>0. CASE UNCHANGED vars
  BY <1>0 DEF vars, Keys
<1>1. ASSUME NEW p \in Proc, Request(p) \/ TurnAway(p) \/ Other(p) \/ Restart(p)
      PROVE  Mirror' /\ Pages'
  <2>1. CASE Request(p)
    BY <2>1 DEF Request, Goto
  <2>2. CASE TurnAway(p)
    BY <2>2 DEF TurnAway, Goto
  <2>3. CASE Other(p)
    BY <2>3 DEF Other, Goto
  <2>4. CASE Restart(p)
    BY <2>4 DEF Restart, Goto
  <2> QED BY <1>1, <2>1, <2>2, <2>3, <2>4
<1>2. ASSUME NEW p \in Proc, Select(p) PROVE Mirror' /\ Pages'
  BY <1>2, EmptyType DEF Select, Goto, Keys
<1>3. ASSUME NEW p \in Proc, NEW id \in Id, LoadRow(p, id) PROVE Mirror' /\ Pages'
  <2>1. snap[p][id] \in Row
    BY <1>3 DEF LoadRow, Keys
  <2>2. PICK online \in BOOLEAN :
          reg' = [reg EXCEPT ![p][id] = LoadedEntry(snap[p][id], online)]
    BY <1>3 DEF LoadRow
  <2>3. Bare(reg'[p][id]) = snap[p][id]
    BY <2>1, <2>2, LoadedEntryType
  <2>4. \A q \in Proc, i \in Id : q # p \/ i # id => reg'[q][i] = reg[q][i]
    BY <2>2
  <2>5. Mirror'
    BY <1>3, <2>3, <2>4 DEF LoadRow, Keys
  <2> QED BY <1>3, <2>5 DEF LoadRow
<1>4. ASSUME NEW p \in Proc, Prune(p) PROVE Mirror' /\ Pages'
  <2>1. \A id \in Id : Bare(reg'[p][id]) = snap[p][id]
    BY <1>4 DEF Prune, Goto, Keys, Bare
  <2>2. \A q \in Proc : q # p => reg'[q] = reg[q] /\ pc'[q] = pc[q]
    BY <1>4 DEF Prune, Goto
  <2> QED BY <1>4, <2>1, <2>2 DEF Prune, Goto, Keys
<1>5. ASSUME NEW p \in Proc, List(p) PROVE Mirror' /\ Pages'
  <2>1. \A id \in Id : IF id \in todo'[p] THEN page[p][id] = None
                       ELSE Bare(page[p][id]) = snap[p][id]
    <3>1. page[p] = Empty /\ todo'[p] = Keys(reg[p])
      BY <1>5 DEF List, Goto
    <3>2. \A id \in Id : Bare(reg[p][id]) = snap[p][id]
      BY <1>5 DEF List, Goto
    <3> QED BY <3>1, <3>2 DEF Keys, Bare, Empty
  <2> QED BY <1>5, <2>1 DEF List, Goto
<1>6. ASSUME NEW p \in Proc, NEW id \in Id, CloneServer(p, id)
      PROVE  Mirror' /\ Pages'
  <2>1. reg[p][id] \in Entry
    BY <1>6 DEF CloneServer, Keys
  <2> DEFINE cut == [reg[p][id] EXCEPT !.conn = "null"]
  <2>2. Bare(cut) = snap[p][id] /\ Bare(reg[p][id]) = snap[p][id]
    BY <1>6, <2>1, ConnOnly DEF CloneServer, Conn
  <2>3. \E e \in {reg[p][id], cut} : page' = [page EXCEPT ![p][id] = e]
    BY <1>6 DEF CloneServer
  <2> HIDE DEF cut
  <2>4. /\ Bare(page'[p][id]) = snap[p][id]
        /\ \A q \in Proc, i \in Id : q # p \/ i # id => page'[q][i] = page[q][i]
        /\ \A q \in Proc : q # p => page'[q] = page[q]
    BY <2>2, <2>3
  <2>5. /\ todo' = [todo EXCEPT ![p] = @ \ {id}]
        /\ UNCHANGED <<pc, reg, snap>> /\ pc[p] = "clone"
    BY <1>6 DEF CloneServer
  <2>6. Mirror'
    BY <2>5 DEF Keys
  <2>7. Pages'
    BY <2>4, <2>5
  <2> QED BY <2>6, <2>7
<1>7. ASSUME NEW p \in Proc, NEW id \in Id, CloneNull(p, id) PROVE Mirror' /\ Pages'
  BY <1>7 DEF CloneNull, Goto
<1>8. ASSUME NEW p \in Proc, ListDone(p) PROVE Mirror' /\ Pages'
  BY <1>8 DEF ListDone, Goto
<1>9. ASSUME NEW p \in Proc, NEW id \in Id, Host(p, id) PROVE Mirror' /\ Pages'
  <2>1. \A q \in Proc : q # p => reg'[q] = reg[q] /\ page'[q] = page[q] /\ pc'[q] = pc[q]
    BY <1>9 DEF Host, Goto
  <2> QED BY <1>9, <2>1 DEF Host, Goto
<1>10. ASSUME NEW p \in Proc, NEW o, NEW new, Edit(p, o, new)
       PROVE  Mirror' /\ Pages'
  BY <1>10 DEF Edit, Goto
<1>11. ASSUME NEW p \in Proc, Done(p) PROVE Mirror' /\ Pages'
  BY <1>11 DEF Done, Goto
<1>12. ASSUME NEW id \in Id, Identify(id) \/ Expire(id) PROVE Mirror' /\ Pages'
  BY <1>12 DEF Identify, Expire
<1>13. QED
  BY <1>0, <1>1, <1>2, <1>3, <1>4, <1>5, <1>6, <1>7, <1>8, <1>9, <1>10, <1>11,
     <1>12 DEF Next, Refresh, Serve, Refused, Delete, Rename, Add

\* When the refresh is over the registry is the table the request's SELECT
\* returned, whatever the other workers did to the table meanwhile.
THEOREM RegistryCorrect == Spec => []RegistryMirrorsSelect
<1>1. Mirror => RegistryMirrorsSelect
  BY DEF Mirror
<1>2. QED
  BY <1>1, TypeInvInit, TypeInvStep, MirrorInit, MirrorStep, PTL DEF Spec

-----------------------------------------------------------------------------
(* What a quiet request learns is true                                     *)

NamesUnique == \A i, j \in Keys(db) : db[i].name = db[j].name => i = j

LEMMA NamesUniqueInit == Init => NamesUnique
  BY DEF Init, NamesUnique

LEMMA NamesUniqueStep == TypeInv /\ NamesUnique /\ [Next]_vars => NamesUnique'
<1> SUFFICES ASSUME TypeInv, NamesUnique, [Next]_vars PROVE NamesUnique'
  OBVIOUS
<1> USE DEF NamesUnique, Keys
<1>0. CASE UNCHANGED db
  BY <1>0
<1>1. ASSUME NEW p \in Proc, NEW id \in Id, Delete(p, id) PROVE NamesUnique'
  BY <1>1 DEF Delete, Edit, TypeInv, TypeOK
<1>2. ASSUME NEW p \in Proc, NEW id \in Id, NEW name \in Name, Rename(p, id, name)
      PROVE  NamesUnique'
  <2>1. CASE db[id] = None
    BY <2>1, <1>2 DEF Rename, Edit
  <2>2. CASE db[id] # None
    <3>1. db' = [db EXCEPT ![id].name = name]
      BY <2>2, <1>2 DEF Rename, Edit
    <3>2. \A i \in Keys(db) : i # id => db[i].name # name
      BY <2>2, <1>2 DEF Rename, NameTaken
    <3>3. /\ \A i \in Id : i # id => db'[i] = db[i]
          /\ db'[id].name = name
      BY <3>1, <2>2 DEF TypeInv, TypeOK, Row
    <3> QED BY <3>2, <3>3
  <2> QED BY <2>1, <2>2
<1>3. ASSUME NEW p \in Proc, NEW id \in Id, NEW name \in Name, NEW type \in Type,
             Add(p, id, name, type)
      PROVE  NamesUnique'
  <2>1. db' = [db EXCEPT ![id] = [name |-> name, type |-> type]]
    BY <1>3 DEF Add, Edit
  <2>2. \A i \in Keys(db) : i # id /\ db[i].name # name
    BY <1>3 DEF Add, NameTaken
  <2>3. /\ \A i \in Id : i # id => db'[i] = db[i]
        /\ db'[id].name = name
    BY <2>1 DEF TypeInv, TypeOK
  <2> QED BY <2>2, <2>3
<1>4. ASSUME NEW p \in Proc, NEW o, Edit(p, o, db) PROVE UNCHANGED db
  BY <1>4 DEF Edit
<1>5. ASSUME NEW p \in Proc, Serve(p) PROVE NamesUnique'
  BY <1>0, <1>1, <1>2, <1>3, <1>4, <1>5
  DEF Serve, List, CloneServer, CloneNull, ListDone, Host, Refused, Other
<1>6. ASSUME NEW p \in Proc, Refresh(p) PROVE UNCHANGED db
  BY <1>6 DEF Refresh, Select, LoadRow, Prune
<1>7. ASSUME NEW p \in Proc, Request(p) \/ TurnAway(p) \/ Done(p) \/ Restart(p)
      PROVE  UNCHANGED db
  BY <1>7 DEF Request, TurnAway, Done, Restart
<1>8. ASSUME NEW id \in Id, Identify(id) \/ Expire(id) PROVE UNCHANGED db
  BY <1>8 DEF Identify, Expire
<1>9. CASE UNCHANGED vars
  BY <1>9, <1>0 DEF vars
<1> QED
  BY <1>0, <1>5, <1>6, <1>7, <1>8, <1>9 DEF Next

\* Asking by name is asking by key, since names are unique.
LEMMA OnlineByKey ==
  ASSUME TypeInv, NamesUnique, NEW id \in Keys(db)
  PROVE  NameOnline(db[id].name) <=> id \in fresh
  BY DEF TypeInv, TypeOK, NamesUnique, NameOnline, Keys

\* "Entry e knows whether the server with key id is online."
Knows(e, id) == (e.conn # "null") <=> (id \in fresh)

\* As long as nothing has changed and nothing failed, the worker sees the
\* table as it is, and every isonline it has run still holds.
QuietOf(p) ==
  quiet[p] =>
    /\ pc[p] \in {"load", "handle", "clone"} => snap[p] = db
    /\ pc[p] = "load" =>
         \A id \in Keys(snap[p]) \ todo[p] : Knows(reg[p][id], id)
    /\ pc[p] \in {"handle", "clone"} =>
         \A id \in Keys(reg[p]) : Knows(reg[p][id], id)
    /\ pc[p] = "clone" =>
         \A id \in Keys(reg[p]) \ todo[p] :
           page[p][id] # None /\ Knows(page[p][id], id)
    /\ pc[p] = "reply" /\ op[p] = "list" => Shown(p) = fresh
    /\ pc[p] = "reply" /\ op[p] = "host" =>
         \A id \in Keys(page[p]) : Knows(page[p][id], id)
    /\ pc[p] # "crashed"

QuietInv == \A p \in Proc : QuietOf(p)

LEMMA QuietInit == Init => QuietInv
  BY DEF Init, QuietInv, QuietOf

\* A step of p that leaves the table alone cannot disturb what another worker knows.
LEMMA OthersKeepQuiet ==
  ASSUME NEW p \in Proc, QuietInv, QuietOf(p)',
         UNCHANGED <<db, fresh>>,
         \A q \in Proc : q # p =>
           /\ pc'[q] = pc[q] /\ op'[q] = op[q] /\ snap'[q] = snap[q]
           /\ todo'[q] = todo[q] /\ reg'[q] = reg[q] /\ page'[q] = page[q]
           /\ quiet'[q] = quiet[q]
  PROVE  QuietInv'
<1> SUFFICES ASSUME NEW q \in Proc, q # p PROVE QuietOf(q)'
  BY DEF QuietInv
<1>1. QuietOf(q)
  BY DEF QuietInv
<1> QED BY <1>1 DEF QuietOf, Knows, Shown, Keys

LEMMA LoadedEntryKnows ==
  ASSUME TypeInv, NamesUnique, NEW id \in Keys(db), NEW online \in BOOLEAN,
         online = NameOnline(db[id].name)
  PROVE  Knows(LoadedEntry(db[id], online), id)
<1>1. online <=> id \in fresh
  BY OnlineByKey
<1>2. CASE online
  BY <1>1, <1>2 DEF Knows, LoadedEntry, NewConn
<1>3. CASE ~online
  BY <1>1, <1>3 DEF Knows, LoadedEntry, NewConn
<1> QED BY <1>2, <1>3

\* Where the registry mirrors the SELECT, an entry has its row's name.
LEMMA EntryName ==
  ASSUME TypeInv, Mirror, NEW p \in Proc, pc[p] \in {"handle", "clone"},
         NEW id \in Id, reg[p][id] # None
  PROVE  /\ reg[p][id] \in Entry
         /\ snap[p][id] # None
         /\ snap[p][id].name = reg[p][id].name
<1>1. reg[p][id] \in Entry
  BY DEF TypeInv, TypeOK
<1>2. snap[p][id] = [name |-> reg[p][id].name, type |-> reg[p][id].type]
  BY DEF Mirror, RegistryMirrorsSelect, Bare
<1>3. snap[p][id] \in Row
  BY <1>1, <1>2 DEF Row, Entry
<1> QED BY <1>1, <1>2, <1>3, NoneAssumption

LEMMA QuietStep ==
  TypeInv /\ NamesUnique /\ Mirror /\ Pages /\ QuietInv /\ [Next]_vars => QuietInv'
<1> SUFFICES ASSUME TypeInv, NamesUnique, Mirror, Pages, QuietInv, [Next]_vars
             PROVE  QuietInv'
  OBVIOUS
<1> USE DEF TypeInv, TypeOK, Loops
<1>0. CASE UNCHANGED vars
  BY <1>0 DEF vars, QuietInv, QuietOf, Knows, Shown, Keys
<1>1. ASSUME NEW p \in Proc, Request(p) \/ TurnAway(p) \/ Restart(p) \/ Done(p)
      PROVE  QuietInv'
  <2>1. QuietOf(p)'
    BY <1>1 DEF Request, TurnAway, Restart, Done, Goto, QuietOf
  <2>2. UNCHANGED <<db, fresh, todo, reg>>
    BY <1>1 DEF Request, TurnAway, Restart, Done
  <2>3. \A q \in Proc : q # p =>
          /\ pc'[q] = pc[q] /\ op'[q] = op[q] /\ snap'[q] = snap[q]
          /\ page'[q] = page[q] /\ quiet'[q] = quiet[q]
    BY <1>1 DEF Request, TurnAway, Restart, Done, Goto
  <2> QED BY <2>1, <2>2, <2>3, OthersKeepQuiet
<1>2. ASSUME NEW p \in Proc, Other(p) PROVE QuietInv'
  <2>1. QuietOf(p)'
    BY <1>2 DEF Other, Goto, QuietOf
  <2> QED BY <1>2, <2>1, OthersKeepQuiet DEF Other, Goto
<1>3. ASSUME NEW p \in Proc, Select(p) PROVE QuietInv'
  <2>1. PICK rows \in {db, Empty} :
          /\ snap' = [snap EXCEPT ![p] = rows]
          /\ todo' = [todo EXCEPT ![p] = Keys(rows)]
          /\ quiet' = [quiet EXCEPT ![p] = @ /\ rows = db]
    BY <1>3 DEF Select
  <2>2. pc'[p] = "load" /\ UNCHANGED <<db, fresh, op, reg, page>>
    BY <1>3 DEF Select, Goto
  <2>3. QuietOf(p)'
    BY <2>1, <2>2 DEF QuietOf, Keys
  <2>4. \A q \in Proc : q # p => pc'[q] = pc[q]
    BY <1>3 DEF Select, Goto
  <2> QED BY <2>1, <2>2, <2>3, <2>4, OthersKeepQuiet
<1>4. ASSUME NEW p \in Proc, NEW id \in Id, LoadRow(p, id) PROVE QuietInv'
  <2>1. PICK online \in BOOLEAN :
          /\ Ask(p, snap[p][id].name, online)
          /\ reg' = [reg EXCEPT ![p][id] = LoadedEntry(snap[p][id], online)]
    BY <1>4 DEF LoadRow
  <2>2. /\ id \in Keys(snap[p]) /\ pc[p] = "load"
        /\ todo' = [todo EXCEPT ![p] = @ \ {id}]
        /\ UNCHANGED <<db, fresh, pc, op, snap, page>>
    BY <1>4 DEF LoadRow, Keys
  <2>3. QuietOf(p)
    BY DEF QuietInv
  <2>4. quiet'[p] => quiet[p] /\ online = NameOnline(snap[p][id].name)
    BY <2>1 DEF Ask
  <2>5. quiet'[p] => snap[p] = db
    BY <2>2, <2>3, <2>4 DEF QuietOf
  <2>6. quiet'[p] => Knows(reg'[p][id], id)
    BY <2>1, <2>2, <2>4, <2>5, LoadedEntryKnows
  <2>7. \A i \in Id : i # id => reg'[p][i] = reg[p][i]
    BY <2>1
  <2>8. QuietOf(p)'
    BY <2>2, <2>3, <2>4, <2>5, <2>6, <2>7 DEF QuietOf, Knows, Keys
  <2>9. \A q \in Proc : q # p => /\ reg'[q] = reg[q] /\ todo'[q] = todo[q]
                                 /\ quiet'[q] = quiet[q]
    BY <2>1, <2>2 DEF Ask
  <2> QED BY <2>2, <2>8, <2>9, OthersKeepQuiet
<1>5. ASSUME NEW p \in Proc, Prune(p) PROVE QuietInv'
  <2>1. \A id \in Keys(reg'[p]) :
          id \in Keys(snap[p]) \ todo[p] /\ reg'[p][id] = reg[p][id]
    BY <1>5 DEF Prune, Keys
  <2>2. \A q \in Proc : q # p => /\ reg'[q] = reg[q] /\ pc'[q] = pc[q]
                                 /\ op'[q] = op[q]
    BY <1>5 DEF Prune, Goto
  <2>3. /\ pc[p] = "load" /\ pc'[p] = "handle"
        /\ UNCHANGED <<db, fresh, snap, todo, page, quiet>>
    BY <1>5 DEF Prune, Goto
  <2>4. QuietOf(p)
    BY DEF QuietInv
  <2>5. QuietOf(p)'
    BY <2>1, <2>3, <2>4 DEF QuietOf, Knows
  <2> QED BY <2>2, <2>3, <2>5, OthersKeepQuiet
<1>6. ASSUME NEW p \in Proc, List(p) PROVE QuietInv'
  <2>1. /\ pc[p] = "handle" /\ pc'[p] = "clone" /\ todo'[p] = Keys(reg[p])
        /\ UNCHANGED <<db, fresh, op, snap, reg, page, quiet>>
    BY <1>6 DEF List, Goto
  <2>2. QuietOf(p)
    BY DEF QuietInv
  <2>3. QuietOf(p)'
    BY <2>1, <2>2 DEF QuietOf, Knows, Keys
  <2>4. \A q \in Proc : q # p => pc'[q] = pc[q] /\ todo'[q] = todo[q]
    BY <1>6 DEF List, Goto
  <2> QED BY <2>1, <2>3, <2>4, OthersKeepQuiet
<1>7. ASSUME NEW p \in Proc, NEW id \in Id, CloneServer(p, id) PROVE QuietInv'
  <2> DEFINE cut == [reg[p][id] EXCEPT !.conn = "null"]
  <2>1. PICK online \in BOOLEAN :
          /\ Ask(p, reg[p][id].name, online)
          /\ online => reg[p][id].conn # "null"
          /\ page' = [page EXCEPT ![p][id] = IF online THEN reg[p][id] ELSE cut]
    BY <1>7 DEF CloneServer
  <2>2. /\ pc[p] = "clone" /\ id \in Keys(reg[p])
        /\ todo' = [todo EXCEPT ![p] = @ \ {id}]
        /\ UNCHANGED <<db, fresh, pc, op, snap, reg>>
    BY <1>7 DEF CloneServer, Keys
  <2>3. /\ reg[p][id] \in Entry /\ snap[p][id] # None
        /\ snap[p][id].name = reg[p][id].name
    BY <2>2, EntryName DEF Keys
  <2>4. cut # None /\ cut.conn = "null"
    BY <2>3, ConnOnly, NoneAssumption DEF Conn, Entry
  <2>5. QuietOf(p)
    BY DEF QuietInv
  <2>6. quiet'[p] => /\ quiet[p] /\ snap[p] = db
                     /\ online = NameOnline(reg[p][id].name)
    BY <2>1, <2>2, <2>5 DEF Ask, QuietOf
  <2>7. quiet'[p] => (online <=> id \in fresh)
    BY <2>3, <2>6, OnlineByKey DEF Keys
  <2>8. page'[p][id] = IF online THEN reg[p][id] ELSE cut
    BY <2>1
  <2> HIDE DEF cut
  <2>9. quiet'[p] => page'[p][id] # None /\ Knows(page'[p][id], id)
    BY <2>1, <2>2, <2>4, <2>7, <2>8 DEF Knows, Keys
  <2>10. \A i \in Id : i # id => page'[p][i] = page[p][i]
    BY <2>1
  <2>11. QuietOf(p)'
    BY <2>2, <2>5, <2>6, <2>9, <2>10 DEF QuietOf, Knows, Keys
  <2>12. \A q \in Proc : q # p => /\ page'[q] = page[q] /\ todo'[q] = todo[q]
                                  /\ quiet'[q] = quiet[q]
    BY <2>1, <2>2 DEF Ask
  <2> QED BY <2>2, <2>11, <2>12, OthersKeepQuiet
<1>8. ASSUME NEW p \in Proc, NEW id \in Id, CloneNull(p, id) PROVE QuietInv'
  <2>1. pc[p] = "clone" /\ id \in Keys(reg[p]) /\ reg[p][id].conn = "null"
    BY <1>8 DEF CloneNull, Goto
  <2>2. snap[p][id] # None /\ snap[p][id].name = reg[p][id].name
    BY <2>1, EntryName DEF Keys
  <2>3. quiet[p] => id \notin fresh /\ snap[p] = db
    BY <2>1 DEF QuietInv, QuietOf, Knows
  <2>4. quiet[p] => ~NameOnline(reg[p][id].name)
    BY <2>2, <2>3, OnlineByKey DEF Keys
  <2>5. ~quiet'[p]
    BY <1>8, <2>4 DEF CloneNull, Ask
  <2>6. QuietOf(p)'
    BY <2>5 DEF QuietOf
  <2>7. \A q \in Proc : q # p =>
          /\ pc'[q] = pc[q] /\ snap'[q] = snap[q] /\ todo'[q] = todo[q]
          /\ reg'[q] = reg[q] /\ page'[q] = page[q] /\ quiet'[q] = quiet[q]
    BY <1>8 DEF CloneNull, Goto, Ask
  <2>8. UNCHANGED <<db, fresh, op>>
    BY <1>8 DEF CloneNull
  <2> QED BY <2>6, <2>7, <2>8, OthersKeepQuiet
<1>9. ASSUME NEW p \in Proc, ListDone(p) PROVE QuietInv'
  <2>1. /\ pc[p] = "clone" /\ todo[p] = {} /\ pc'[p] = "reply"
        /\ UNCHANGED <<db, fresh, op, snap, todo, reg, page, quiet>>
    BY <1>9 DEF ListDone, Goto
  <2>2. ASSUME quiet[p] PROVE /\ Shown(p) = fresh
                              /\ \A id \in Keys(page[p]) : Knows(page[p][id], id)
    <3>1. snap[p] = db /\ \A id \in Keys(reg[p]) : page[p][id] # None /\ Knows(page[p][id], id)
      BY <2>1, <2>2 DEF QuietInv, QuietOf
    <3>2. \A id \in Id : id \notin Keys(reg[p]) => page[p][id] = None /\ id \notin fresh
      <4> SUFFICES ASSUME NEW id \in Id, reg[p][id] = None
                   PROVE  page[p][id] = None /\ id \notin fresh
        BY DEF Keys
      <4>1. snap[p][id] = None
        BY <2>1 DEF Mirror, RegistryMirrorsSelect, Bare
      <4>2. Bare(page[p][id]) = None
        BY <2>1, <4>1 DEF Pages
      <4>3. page[p][id] = None
        BY <4>2, NoneAssumption DEF Bare, Row, Entry
      <4> QED BY <4>1, <4>3, <3>1 DEF Keys
    <3> QED BY <3>1, <3>2 DEF Shown, Knows, Keys
  <2>3. QuietOf(p)'
    BY <2>1, <2>2 DEF QuietOf, Knows, Shown, Keys
  <2>4. \A q \in Proc : q # p => pc'[q] = pc[q]
    BY <1>9 DEF ListDone, Goto
  <2> QED BY <2>1, <2>3, <2>4, OthersKeepQuiet
<1>10. ASSUME NEW p \in Proc, NEW id \in Id, Host(p, id) PROVE QuietInv'
  <2>1. /\ pc[p] = "handle" /\ pc'[p] = "reply" /\ op[p] = "host"
        /\ page[p] = Empty
        /\ UNCHANGED <<db, fresh, op, snap, todo>>
        /\ \A q \in Proc : q # p => pc'[q] = pc[q]
    BY <1>10 DEF Host, Goto, Pages
  <2>2. CASE reg[p][id] = None
    <3>1. UNCHANGED <<reg, page, quiet>>
      BY <1>10, <2>2 DEF Host
    <3>2. QuietOf(p)'
      BY <2>1, <3>1 DEF QuietOf, Keys, Empty
    <3> QED BY <2>1, <3>1, <3>2, OthersKeepQuiet
  <2>3. CASE reg[p][id] # None
    <3>1. PICK online \in BOOLEAN :
            /\ IF AsksOnline(reg[p][id]) THEN Ask(p, reg[p][id].name, online)
               ELSE online = FALSE /\ UNCHANGED quiet
            /\ LET f == Reconnect(reg[p][id], online) IN
               /\ reg' = [reg EXCEPT ![p][id] = f]
               /\ page' = [page EXCEPT ![p][id] =
                    IF Usable(f) THEN f ELSE [f EXCEPT !.conn = "null"]]
      BY <1>10, <2>3 DEF Host
    <3> DEFINE f == Reconnect(reg[p][id], online)
               g == IF Usable(f) THEN f ELSE [f EXCEPT !.conn = "null"]
    <3>2. reg[p][id] \in Entry /\ snap[p][id] # None
          /\ snap[p][id].name = reg[p][id].name
      BY <2>1, <2>3, EntryName
    <3>3. f \in Entry
      BY <3>2, ReconnectType
    <3>4. g # None
      BY <3>3, ConnOnly, NoneAssumption DEF Conn
    <3>5. quiet'[p] => quiet[p]
      BY <3>1 DEF Ask
    <3>6. quiet[p] => snap[p] = db /\ Knows(reg[p][id], id)
      BY <2>1, <2>3 DEF QuietInv, QuietOf, Keys
    <3>7. quiet'[p] /\ AsksOnline(reg[p][id]) => (online <=> id \in fresh)
      <4>1. quiet'[p] /\ AsksOnline(reg[p][id]) => online = NameOnline(reg[p][id].name)
        BY <3>1 DEF Ask
      <4> QED BY <4>1, <3>2, <3>5, <3>6, OnlineByKey DEF Keys
    <3>8. quiet'[p] => Knows(f, id)
      BY <3>2, <3>5, <3>6, <3>7
      DEF Knows, Reconnect, AsksOnline, Usable, IsAlive, NewConn, Entry
    <3>9. g.conn = f.conn
      BY <3>3 DEF Usable, IsAlive, Entry
    <3>10. quiet'[p] => Knows(g, id)
      BY <3>8, <3>9 DEF Knows
    <3> HIDE DEF f, g
    <3>11. /\ reg' = [reg EXCEPT ![p][id] = f]
           /\ page' = [page EXCEPT ![p][id] = g]
      BY <3>1 DEF f, g
    <3>12. page'[p][id] = g /\ \A i \in Id : i # id => page'[p][i] = None
      BY <2>1, <3>11 DEF Empty
    <3>13. QuietOf(p)'
      BY <2>1, <3>10, <3>12 DEF QuietOf, Knows, Keys
    <3>14. \A q \in Proc : q # p => /\ reg'[q] = reg[q] /\ page'[q] = page[q]
                                    /\ quiet'[q] = quiet[q]
      BY <3>1, <3>11 DEF Ask
    <3> QED BY <2>1, <3>13, <3>14, OthersKeepQuiet
  <2> QED BY <2>2, <2>3
<1>11. ASSUME NEW p \in Proc, NEW o \in {"add", "rename", "delete"}, NEW new,
              Edit(p, o, new)
       PROVE  QuietInv'
  <2>1. CASE new = db
    <3>1. /\ fresh' = fresh /\ db' = db
          /\ UNCHANGED <<op, snap, todo, reg, page>>
      BY <1>11, <2>1 DEF Edit, Keys
    <3>2. \A q \in Proc : quiet'[q] = quiet[q]
      BY <1>11, <2>1 DEF Edit
    <3>3. pc'[p] = "reply" /\ op[p] \notin {"list", "host"}
      BY <1>11 DEF Edit, Goto
    <3>4. QuietOf(p)'
      BY <3>1, <3>3 DEF QuietOf
    <3>5. \A q \in Proc : q # p => pc'[q] = pc[q]
      BY <1>11 DEF Edit, Goto
    <3> QED BY <3>1, <3>2, <3>4, <3>5, OthersKeepQuiet
  <2>2. CASE new # db
    <3>1. \A q \in Proc : ~quiet'[q]
      BY <1>11, <2>2 DEF Edit
    <3> QED BY <3>1 DEF QuietInv, QuietOf
  <2> QED BY <2>1, <2>2
<1>12. ASSUME NEW id \in Id, Identify(id) \/ Expire(id) PROVE QuietInv'
  <2>1. \A q \in Proc : ~quiet'[q]
    BY <1>12 DEF Identify, Expire
  <2> QED BY <2>1 DEF QuietInv, QuietOf
<1>13. ASSUME NEW p \in Proc, Serve(p) PROVE QuietInv'
  BY <1>2, <1>6, <1>7, <1>8, <1>9, <1>10, <1>11, <1>13
  DEF Serve, Refused, Delete, Rename, Add
<1> QED
  BY <1>0, <1>1, <1>3, <1>4, <1>5, <1>12, <1>13 DEF Next, Refresh

-----------------------------------------------------------------------------

\* The inductive invariant.
IInv == TypeInv /\ NamesUnique /\ Mirror /\ Pages /\ QuietInv

LEMMA Inductive == Spec => []IInv
<1>1. Init => IInv
  BY TypeInvInit, NamesUniqueInit, MirrorInit, QuietInit DEF IInv
<1>2. IInv /\ [Next]_vars => IInv'
  BY TypeInvStep, NamesUniqueStep, MirrorStep, QuietStep DEF IInv
<1>3. QED BY <1>1, <1>2, PTL DEF Spec

\* A worker can die in ServerConn::clone only when the table or the freshness
\* of a row changed during its request, or a statement of its own failed.
THEOREM QuietSafe == Spec => []QuietRequestSafe
<1>1. IInv => QuietRequestSafe
  BY DEF IInv, QuietInv, QuietOf, QuietRequestSafe
<1>2. QED BY <1>1, Inductive, PTL

\* In a quiet request the pages are right about which servers are online,
\* although isonline asks by name and the registry is kept by key.
THEOREM QuietCorrect == Spec => []QuietAnswersOnline
<1>1. IInv => QuietAnswersOnline
  BY DEF IInv, QuietInv, QuietOf, QuietAnswersOnline, Knows, Shown
<1>2. QED BY <1>1, Inductive, PTL

\* No registry entry keeps a pointer to a Connection that was deleted: the
\* only branch that would, for SSH, needs an isAlive that can say no.
THEOREM NeverDangling == Spec => []NoDangling
<1>1. Init => NoDangling
  BY DEF Init, NoDangling, Keys, Empty
<1>2. TypeInv /\ NoDangling /\ [Next]_vars => NoDangling'
  <2> SUFFICES ASSUME TypeInv, NoDangling, [Next]_vars PROVE NoDangling'
    OBVIOUS
  <2> USE DEF TypeInv, TypeOK, NoDangling, Keys
  <2>1. CASE UNCHANGED reg
    BY <2>1
  <2>2. ASSUME NEW p \in Proc, NEW id \in Id, LoadRow(p, id) PROVE NoDangling'
    <3>1. \A row, online : LoadedEntry(row, online).conn # "dangling"
      BY DEF LoadedEntry, NewConn
    <3>2. PICK online \in BOOLEAN :
            reg' = [reg EXCEPT ![p][id] = LoadedEntry(snap[p][id], online)]
      BY <2>2 DEF LoadRow
    <3> QED BY <3>1, <3>2
  <2>3. ASSUME NEW p \in Proc, Prune(p) PROVE NoDangling'
    BY <2>3 DEF Prune
  <2>4. ASSUME NEW p \in Proc, NEW id \in Id, CloneNull(p, id) PROVE NoDangling'
    BY <2>4 DEF CloneNull, Empty
  <2>5. ASSUME NEW p \in Proc, NEW id \in Id, Host(p, id) PROVE NoDangling'
    <3>1. CASE reg[p][id] = None
      BY <2>5, <3>1 DEF Host
    <3>2. CASE reg[p][id] # None
      <4>1. PICK online \in BOOLEAN :
              reg' = [reg EXCEPT ![p][id] = Reconnect(reg[p][id], online)]
        BY <2>5, <3>2 DEF Host
      <4>2. reg[p][id] \in Entry /\ reg[p][id].conn # "dangling"
        BY <3>2
      <4>3. Reconnect(reg[p][id], online).conn # "dangling"
        BY <4>2 DEF Reconnect, Usable, IsAlive, NewConn, Entry
      <4> QED BY <4>1, <4>3
    <3> QED BY <3>1, <3>2
  <2>6. CASE UNCHANGED vars
    BY <2>6, <2>1 DEF vars
  <2>7. ASSUME NEW p \in Proc, Serve(p) PROVE NoDangling'
    BY <2>1, <2>4, <2>5, <2>7
    DEF Serve, List, ListDone, Other, Refused, CloneServer, Delete, Rename, Add, Edit
  <2>8. ASSUME NEW p \in Proc, Request(p) \/ TurnAway(p) \/ Select(p) \/ Done(p)
                               \/ Restart(p)
        PROVE  UNCHANGED reg
    BY <2>8 DEF Request, TurnAway, Select, Done, Restart
  <2>9. ASSUME NEW id \in Id, Identify(id) \/ Expire(id) PROVE UNCHANGED reg
    BY <2>9 DEF Identify, Expire
  <2> QED BY <2>1, <2>2, <2>3, <2>6, <2>7, <2>8, <2>9 DEF Next, Refresh
<1>3. QED BY <1>1, <1>2, TypeInvInit, TypeInvStep, PTL DEF Spec

-----------------------------------------------------------------------------
(* The workers implement ServerDirectory                                   *)

LEMMA PhaseIs ==
  ASSUME TypeInv, NEW p \in Proc
  PROVE  /\ PhaseOf(p) = "out"     <=> pc[p] = "idle"
         /\ PhaseOf(p) = "reading" <=> pc[p] = "select"
         /\ PhaseOf(p) = "serving" <=> pc[p] \in {"load", "handle", "clone"}
         /\ PhaseOf(p) = "replied" <=> pc[p] = "reply"
         /\ PhaseOf(p) = "down"    <=> pc[p] = "crashed"
  BY DEF TypeInv, TypeOK, Pc, PhaseOf

\* A step of p alone moves no other worker to another phase.
LEMMA MoveMaps ==
  ASSUME TypeInv, TypeInv', NEW p \in Proc, NEW from \in Pc, NEW to \in Pc,
         Goto(p, from, to), NEW A, NEW z, PhaseOf(p) \in A, PhaseOf(p)' = z
  PROVE  Directory!Move(p, A, z)
<1>1. \A q \in Proc : q # p => PhaseOf(q)' = PhaseOf(q)
  BY DEF Goto, PhaseOf, TypeInv, TypeOK
<1> QED BY <1>1 DEF Directory!Move

LEMMA PhaseStays ==
  ASSUME TypeInv, NEW p \in Proc, NEW from, NEW to, Goto(p, from, to),
         PhaseOf(p)' = PhaseOf(p)
  PROVE  [q \in Proc |-> PhaseOf(q)]' = [q \in Proc |-> PhaseOf(q)]
<1>1. \A q \in Proc : PhaseOf(q)' = PhaseOf(q)
  BY DEF Goto, PhaseOf, TypeInv, TypeOK
<1> QED BY <1>1

\* The pages of a step that touches no other worker's page.
LEMMA PageOnly ==
  ASSUME NEW p \in Proc,
         \A q \in Proc : q # p => pc'[q] = pc[q] /\ page'[q] = page[q]
  PROVE  [q \in Proc |-> BarePage(q)]'
           = [[q \in Proc |-> BarePage(q)] EXCEPT ![p] = BarePage(p)']
<1>1. \A q \in Proc : q # p => BarePage(q)' = BarePage(q)
  BY DEF BarePage, Bare
<1> QED BY <1>1

LEMMA PagesStay ==
  ASSUME NEW p \in Proc,
         \A q \in Proc : q # p => pc'[q] = pc[q] /\ page'[q] = page[q],
         BarePage(p)' = BarePage(p)
  PROVE  [q \in Proc |-> BarePage(q)]' = [q \in Proc |-> BarePage(q)]
<1>1. \A q \in Proc : BarePage(q)' = BarePage(q)
  BY DEF BarePage, Bare
<1> QED BY <1>1

LEMMA EmptyIsEmpty == Directory!Empty = Empty
  BY DEF Directory!Empty, Empty

LEMMA StepMaps ==
  TypeInv /\ TypeInv' /\ Mirror /\ Pages /\ Pages' /\ [Next]_vars
    => [Directory!Next]_(Directory!vars)
<1> SUFFICES ASSUME TypeInv, TypeInv', Mirror, Pages, Pages', [Next]_vars
             PROVE  [Directory!Next]_(Directory!vars)
  OBVIOUS
<1> DEFINE AP == [q \in Proc |-> PhaseOf(q)]
           AB == [q \in Proc |-> BarePage(q)]
<1>0. ASSUME UNCHANGED <<db, snap>>, AP' = AP, AB' = AB
      PROVE  UNCHANGED Directory!vars
  BY <1>0 DEF Directory!vars
<1>1. CASE UNCHANGED vars
  <2>1. AP' = AP /\ AB' = AB
    BY <1>1 DEF vars, PhaseOf, BarePage, Bare
  <2> QED BY <2>1, <1>0, <1>1 DEF vars
<1>2. ASSUME NEW p \in Proc, Request(p) PROVE Directory!Begin(p)
  <2>1. Goto(p, "idle", "select") /\ UNCHANGED <<db, snap, page>>
    BY <1>2 DEF Request
  <2>2. PhaseOf(p) = "out" /\ PhaseOf(p)' = "reading"
    BY <2>1, PhaseIs DEF Goto, TypeInv, TypeOK, PhaseOf
  <2>3. Directory!Move(p, {"out"}, "reading")
    BY <2>1, <2>2, MoveMaps DEF Pc
  <2>4. AB' = AB
    BY <2>1 DEF Goto, BarePage, Bare, TypeInv, TypeOK
  <2> QED BY <2>1, <2>3, <2>4 DEF Directory!Begin
<1>3. ASSUME NEW p \in Proc, TurnAway(p) PROVE Directory!Begin(p)
  <2>1. Goto(p, "idle", "reply") /\ UNCHANGED <<db, snap, page>>
    BY <1>3 DEF TurnAway
  <2>2. PhaseOf(p) = "out" /\ PhaseOf(p)' = "replied"
    BY <2>1 DEF Goto, TypeInv, TypeOK, PhaseOf
  <2>3. Directory!Move(p, {"out"}, "replied")
    BY <2>1, <2>2, MoveMaps DEF Pc
  <2>4. page[p] = Empty
    BY <2>1 DEF Goto, Pages
  <2>5. BarePage(p)' = Empty /\ BarePage(p) = Empty
    BY <2>1, <2>4 DEF BarePage, Bare, Empty
  <2>6. AB' = AB
    <3>1. \A q \in Proc : q # p => pc'[q] = pc[q]
      BY <2>1 DEF Goto
    <3> QED BY <2>1, <2>5, <3>1, PagesStay
  <2> QED BY <2>1, <2>3, <2>6 DEF Directory!Begin
<1>4. ASSUME NEW p \in Proc, Select(p) PROVE Directory!Read(p)
  <2>1. Goto(p, "select", "load") /\ UNCHANGED <<db, page>>
    BY <1>4 DEF Select
  <2>2. PhaseOf(p) = "reading" /\ PhaseOf(p)' = "serving"
    BY <2>1 DEF Goto, TypeInv, TypeOK, PhaseOf
  <2>3. Directory!Move(p, {"reading"}, "serving")
    BY <2>1, <2>2, MoveMaps DEF Pc
  <2>4. \E v \in {db, Empty} : snap' = [snap EXCEPT ![p] = v]
    BY <1>4 DEF Select
  <2>5. AB' = AB
    BY <2>1 DEF Goto, BarePage, Bare, TypeInv, TypeOK
  <2> QED BY <2>1, <2>3, <2>4, <2>5, EmptyIsEmpty DEF Directory!Read
\* The loops of the refresh and of the copy are not visible.
<1>5. ASSUME NEW p \in Proc, NEW id \in Id, LoadRow(p, id) \/ CloneServer(p, id)
      PROVE  UNCHANGED Directory!vars
  <2>1. UNCHANGED <<db, snap, pc>> /\ pc[p] # "reply"
    BY <1>5 DEF LoadRow, CloneServer
  <2>2. AP' = AP
    BY <2>1 DEF PhaseOf
  <2>3. \A q \in Proc : q # p => page'[q] = page[q]
    <3>1. CASE LoadRow(p, id)
      BY <3>1 DEF LoadRow
    <3>2. CASE CloneServer(p, id)
      <4>1. \E e : page' = [page EXCEPT ![p][id] = e]
        BY <3>2 DEF CloneServer
      <4> QED BY <4>1 DEF TypeInv, TypeOK
    <3> QED BY <1>5, <3>1, <3>2
  <2>4. BarePage(p)' = BarePage(p)
    BY <2>1 DEF BarePage
  <2>5. AB' = AB
    BY <2>1, <2>3, <2>4, PagesStay
  <2> QED BY <2>1, <2>2, <2>5, <1>0
<1>6. ASSUME NEW p \in Proc, Prune(p) \/ List(p) PROVE UNCHANGED Directory!vars
  <2>1. PICK from \in {"load", "handle"}, to \in {"handle", "clone"} : Goto(p, from, to)
    BY <1>6 DEF Prune, List
  <2>2. UNCHANGED <<db, snap, page>>
    BY <1>6 DEF Prune, List
  <2>3. PhaseOf(p)' = PhaseOf(p)
    BY <2>1 DEF Goto, PhaseOf, TypeInv, TypeOK
  <2>4. AP' = AP
    BY <2>1, <2>3, PhaseStays
  <2>5. AB' = AB
    BY <2>1, <2>2 DEF Goto, BarePage, Bare, TypeInv, TypeOK
  <2> QED BY <2>2, <2>4, <2>5, <1>0
<1>7. ASSUME NEW p \in Proc, NEW id \in Id, CloneNull(p, id) PROVE Directory!Die(p)
  <2>1. Goto(p, "clone", "crashed") /\ UNCHANGED db
    BY <1>7 DEF CloneNull
  <2>2. PhaseOf(p) = "serving" /\ PhaseOf(p)' = "down"
    BY <2>1 DEF Goto, TypeInv, TypeOK, PhaseOf
  <2>3. Directory!Move(p, {"serving"}, "down")
    BY <2>1, <2>2, MoveMaps DEF Pc
  <2>4. snap' = [snap EXCEPT ![p] = Directory!Empty]
    BY <1>7, EmptyIsEmpty DEF CloneNull
  <2>5. \A q \in Proc : q # p => page'[q] = page[q]
    BY <1>7 DEF CloneNull
  <2>6. AB' = AB
    <3>1. \A q \in Proc : q # p => pc'[q] = pc[q]
      BY <2>1 DEF Goto
    <3>2. BarePage(p)' = BarePage(p)
      BY <2>1 DEF Goto, BarePage, TypeInv, TypeOK
    <3> QED BY <2>5, <3>1, <3>2, PagesStay
  <2> QED BY <2>1, <2>3, <2>4, <2>6 DEF Directory!Die
\* A step that answers with the part of the view that concerns the keys of S.
<1>8. ASSUME NEW p \in Proc, NEW from \in {"handle", "clone"}, Goto(p, from, "reply"),
             UNCHANGED <<db, snap>>,
             \A q \in Proc : q # p => page'[q] = page[q],
             NEW S \in {Id, {}} \cup {{i} : i \in Id},
             \A i \in Id : Bare(page'[p][i]) = IF i \in S THEN snap[p][i] ELSE None
      PROVE  Directory!Reply(p)
  <2>1. PhaseOf(p) = "serving" /\ PhaseOf(p)' = "replied"
    BY <1>8 DEF Goto, TypeInv, TypeOK, PhaseOf
  <2>2. Directory!Move(p, {"serving"}, "replied")
    BY <1>8, <2>1, MoveMaps DEF Pc
  <2>3. BarePage(p)' = Directory!Part(snap[p], S)
    BY <1>8 DEF Goto, TypeInv, TypeOK, BarePage, Directory!Part
  <2>4. AB' = [AB EXCEPT ![p] = Directory!Part(snap[p], S)]
    BY <1>8, <2>3, PageOnly DEF Goto, TypeInv, TypeOK
  <2> QED BY <1>8, <2>2, <2>4 DEF Directory!Reply
\* One that answers with no server.
<1>81. ASSUME NEW p \in Proc, Goto(p, "handle", "reply"), UNCHANGED <<db, snap, page>>
       PROVE  Directory!Reply(p)
  <2>1. \A i \in Id : Bare(page'[p][i]) = None
    BY <1>81 DEF Goto, Pages, Empty, Bare
  <2>2. PICK S \in {Id, {}} \cup {{i} : i \in Id} : S = {}
    OBVIOUS
  <2>3. \A i \in Id : Bare(page'[p][i]) = IF i \in S THEN snap[p][i] ELSE None
    BY <2>1, <2>2
  <2> QED BY <1>81, <2>3, <1>8
<1>9. ASSUME NEW p \in Proc, ListDone(p) PROVE Directory!Reply(p)
  <2>1. \A i \in Id : Bare(page'[p][i]) = snap[p][i]
    BY <1>9 DEF ListDone, Goto, Pages
  <2> QED BY <1>9, <2>1, <1>8 DEF ListDone
<1>10. ASSUME NEW p \in Proc, Other(p) PROVE Directory!Reply(p)
  BY <1>10, <1>81 DEF Other
<1>11. ASSUME NEW p \in Proc, NEW id \in Id, Host(p, id) PROVE Directory!Reply(p)
  <2>1. /\ Goto(p, "handle", "reply") /\ UNCHANGED <<db, snap>>
        /\ \E e : page' = page \/ page' = [page EXCEPT ![p][id] = e]
    BY <1>11 DEF Host
  <2>5. \A q \in Proc : q # p => page'[q] = page[q]
    BY <2>1 DEF TypeInv, TypeOK
  <2>2. /\ page[p] = Empty
        /\ Bare(reg[p][id]) = snap[p][id]
    BY <2>1 DEF Goto, Pages, Mirror, RegistryMirrorsSelect
  <2>3. CASE reg[p][id] = None
    <3>1. UNCHANGED page
      BY <1>11, <2>3 DEF Host
    <3> QED BY <2>1, <3>1, <1>81
  <2>4. CASE reg[p][id] # None
    <3>1. PICK online \in BOOLEAN :
            LET f == Reconnect(reg[p][id], online) IN
              page' = [page EXCEPT ![p][id] =
                         IF Usable(f) THEN f ELSE [f EXCEPT !.conn = "null"]]
      BY <1>11, <2>4 DEF Host
    <3> DEFINE f == Reconnect(reg[p][id], online)
               g == IF Usable(f) THEN f ELSE [f EXCEPT !.conn = "null"]
    <3>2. f \in Entry /\ Bare(f) = snap[p][id]
      BY <2>2, <2>4, ReconnectType DEF TypeInv, TypeOK
    <3>3. Bare(g) = snap[p][id]
      BY <3>2, ConnOnly DEF Conn
    <3> HIDE DEF f, g
    <3>4. page' = [page EXCEPT ![p][id] = g]
      BY <3>1 DEF f, g
    <3>5. \A i \in Id : Bare(page'[p][i]) = IF i \in {id} THEN snap[p][i] ELSE None
      BY <2>2, <3>3, <3>4 DEF Bare, Empty, TypeInv, TypeOK
    <3> QED BY <2>1, <2>5, <3>5, <1>8
  <2> QED BY <2>3, <2>4
<1>12. ASSUME NEW p \in Proc, NEW o, NEW id \in Id, NEW r \in Row \cup {None},
              Edit(p, o, [db EXCEPT ![id] = r])
       PROVE  Directory!Edit(p)
  <2>1. Goto(p, "handle", "reply") /\ UNCHANGED <<snap, page>>
    BY <1>12 DEF Edit
  <2>2. PhaseOf(p) = "serving" /\ PhaseOf(p)' = "replied"
    BY <2>1 DEF Goto, TypeInv, TypeOK, PhaseOf
  <2>3. Directory!Move(p, {"serving"}, "replied")
    BY <2>1, <2>2, MoveMaps DEF Pc
  <2>4. page[p] = Empty
    BY <2>1 DEF Goto, Pages
  <2>5. BarePage(p)' = Empty /\ BarePage(p) = Empty
    BY <2>1, <2>4 DEF BarePage, Bare, Empty
  <2>6. AB' = AB
    <3>1. \A q \in Proc : q # p => pc'[q] = pc[q]
      BY <2>1 DEF Goto
    <3> QED BY <2>1, <2>5, <3>1, PagesStay
  <2>7. db' = [db EXCEPT ![id] = r]
    BY <1>12 DEF Edit
  <2> QED BY <2>1, <2>3, <2>6, <2>7 DEF Directory!Edit
<1>13. ASSUME NEW p \in Proc, NEW o, Edit(p, o, db) PROVE Directory!Reply(p)
  BY <1>13, <1>81 DEF Edit
<1>14. ASSUME NEW p \in Proc, NEW id \in Id, NEW name \in Name, Rename(p, id, name)
       PROVE  Directory!Edit(p) \/ Directory!Reply(p)
  <2>1. CASE db[id] = None
    BY <2>1, <1>13, <1>14 DEF Rename
  <2>2. CASE db[id] # None
    <3>3. [db[id] EXCEPT !.name = name] = [name |-> name, type |-> db[id].type]
      BY <2>2 DEF TypeInv, TypeOK, Row
    <3>1. [db EXCEPT ![id].name = name]
            = [db EXCEPT ![id] = [name |-> name, type |-> db[id].type]]
      BY <3>3
    <3>2. [name |-> name, type |-> db[id].type] \in Row
      BY <2>2 DEF TypeInv, TypeOK, Row
    <3> QED BY <2>2, <3>1, <3>2, <1>12, <1>14 DEF Rename
  <2> QED BY <2>1, <2>2
<1>15. ASSUME NEW p \in Proc, Serve(p)
       PROVE  \/ UNCHANGED Directory!vars \/ Directory!Die(p)
              \/ Directory!Reply(p) \/ Directory!Edit(p)
  <2>1. ASSUME NEW id \in Id, NEW name \in Name, NEW type \in Type,
               Add(p, id, name, type)
        PROVE  Directory!Edit(p)
    BY <2>1, <1>12 DEF Add, Row
  <2>2. ASSUME NEW id \in Id, Delete(p, id) PROVE Directory!Edit(p)
    BY <2>2, <1>12 DEF Delete
  <2>3. ASSUME Refused(p) PROVE Directory!Reply(p)
    BY <2>3, <1>13 DEF Refused
  <2> QED BY <1>15, <2>1, <2>2, <2>3, <1>5, <1>6, <1>7, <1>9, <1>10, <1>11, <1>14
          DEF Serve
<1>16. ASSUME NEW p \in Proc, Done(p) PROVE Directory!Leave(p)
  <2>1. Goto(p, "reply", "idle") /\ UNCHANGED db
    BY <1>16 DEF Done
  <2>2. PhaseOf(p) = "replied" /\ PhaseOf(p)' = "out"
    BY <2>1 DEF Goto, TypeInv, TypeOK, PhaseOf
  <2>3. Directory!Move(p, {"serving", "replied"}, "out")
    BY <2>1, <2>2, MoveMaps DEF Pc
  <2>4. snap' = [snap EXCEPT ![p] = Directory!Empty]
    BY <1>16, EmptyIsEmpty DEF Done
  <2>5. \A q \in Proc : q # p => page'[q] = page[q] /\ pc'[q] = pc[q]
    BY <1>16 DEF Done, Goto
  <2>6. BarePage(p)' = Directory!Empty
    BY <2>1, EmptyIsEmpty DEF Goto, BarePage, TypeInv, TypeOK
  <2>7. AB' = [AB EXCEPT ![p] = Directory!Empty]
    BY <2>5, <2>6, PageOnly
  <2> QED BY <2>1, <2>3, <2>4, <2>7 DEF Directory!Leave
<1>17. ASSUME NEW p \in Proc, Restart(p) PROVE Directory!Restart(p)
  <2>1. Goto(p, "crashed", "select") /\ UNCHANGED <<db, snap, page>>
    BY <1>17 DEF Restart
  <2>2. PhaseOf(p) = "down" /\ PhaseOf(p)' = "reading"
    BY <2>1 DEF Goto, TypeInv, TypeOK, PhaseOf
  <2>3. Directory!Move(p, {"down"}, "reading")
    BY <2>1, <2>2, MoveMaps DEF Pc
  <2>4. AB' = AB
    BY <2>1 DEF Goto, BarePage, Bare, TypeInv, TypeOK
  <2> QED BY <2>1, <2>3, <2>4 DEF Directory!Restart
<1>18. ASSUME NEW id \in Id, Identify(id) \/ Expire(id)
       PROVE  UNCHANGED Directory!vars
  <2>1. UNCHANGED <<db, snap, pc, page>>
    BY <1>18 DEF Identify, Expire
  <2>2. AP' = AP /\ AB' = AB
    BY <2>1 DEF PhaseOf, BarePage, Bare
  <2> QED BY <2>1, <2>2, <1>0
<1> QED
  BY <1>1, <1>2, <1>3, <1>4, <1>5, <1>6, <1>15, <1>16, <1>17, <1>18
  DEF Next, Refresh, Directory!Next

\* Every request is answered from the table as it stood at one instant between
\* its start and its answer: the workers implement ServerDirectory.
THEOREM Implements == Spec => AnswersFromOneInstant
<1>1. Init => Directory!Init
  <2> SUFFICES ASSUME Init PROVE Directory!Init
    OBVIOUS
  <2>1. /\ db \in [Id -> Row \cup {None}]
        /\ snap = [p \in Proc |-> Empty]
        /\ \A p \in Proc : PhaseOf(p) = "reading" /\ BarePage(p) = Empty
    BY DEF Init, PhaseOf, BarePage
  <2> QED BY <2>1, EmptyIsEmpty DEF Directory!Init
<1>2. IInv /\ IInv' /\ [Next]_vars => [Directory!Next]_(Directory!vars)
  BY StepMaps DEF IInv
<1>3. QED
  BY <1>1, <1>2, Inductive, PTL DEF Spec, AnswersFromOneInstant, Directory!Spec
=============================================================================
