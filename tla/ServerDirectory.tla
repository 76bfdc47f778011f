--------------------------- MODULE ServerDirectory ---------------------------
(***************************************************************************)
(* What the fleet of workers promises about the table of compute servers.  *)
(* A request is answered from the table as it stood at ONE instant between *)
(* its start and its answer (or from an empty table, when the statement    *)
(* that reads it fails): never from a mix of two versions, never from a    *)
(* version that was already replaced when the request started.  The        *)
(* registry each worker keeps, and the row-by-row loops that fill it and   *)
(* copy it, are not visible here.                                          *)
(***************************************************************************)
CONSTANTS Proc,     \* the workers
          Id,       \* primary keys of servers_compute
          Row,      \* the contents of a row, as the SELECT reads them
          None      \* no row

VARIABLES table,    \* servers_compute
          phase,    \* where each worker is in its request
          view,     \* the table each request is answered from
          page      \* the servers the answer names

vars == <<table, phase, view, page>>

Empty == [id \in Id |-> None]

\* The part of view v that concerns the servers of S.
Part(v, S) == [id \in Id |-> IF id \in S THEN v[id] ELSE None]

Phase == {"out", "reading", "serving", "replied", "down"}

TypeOK ==
  /\ table \in [Id -> Row \cup {None}]
  /\ phase \in [Proc -> Phase]
  /\ view \in [Proc -> [Id -> Row \cup {None}]]
  /\ page \in [Proc -> [Id -> Row \cup {None}]]

Init ==
  /\ table \in [Id -> Row \cup {None}]
  /\ phase = [p \in Proc |-> "reading"]      \* the refresh at start-up
  /\ view = [p \in Proc |-> Empty]
  /\ page = [p \in Proc |-> Empty]

Move(p, from, to) == phase[p] \in from /\ phase' = [phase EXCEPT ![p] = to]

\* A request arrives; one that needs no login is answered at once.
Begin(p) ==
  /\ Move(p, {"out"}, "reading") \/ Move(p, {"out"}, "replied")
  /\ UNCHANGED <<table, view, page>>

\* The one instant at which the request sees the table.
Read(p) ==
  /\ Move(p, {"reading"}, "serving")
  /\ \E v \in {table, Empty} : view' = [view EXCEPT ![p] = v]
  /\ UNCHANGED <<table, page>>

\* A request edits one row, and names no server in its answer.
Edit(p) ==
  /\ Move(p, {"serving"}, "replied")
  /\ \E id \in Id, r \in Row \cup {None} : table' = [table EXCEPT ![id] = r]
  /\ UNCHANGED <<view, page>>

\* The answer names every server of the view, or one of them, or none.
Reply(p) ==
  /\ Move(p, {"serving"}, "replied")
  /\ \E S \in {Id, {}} \cup {{id} : id \in Id} :
       page' = [page EXCEPT ![p] = Part(view[p], S)]
  /\ UNCHANGED <<table, view>>

\* The request ends, or the refresh at start-up does.
Leave(p) ==
  /\ Move(p, {"serving", "replied"}, "out")
  /\ view' = [view EXCEPT ![p] = Empty]
  /\ page' = [page EXCEPT ![p] = Empty]
  /\ UNCHANGED table

\* A worker may die while it serves; a new one starts by reading the table.
Die(p) ==
  /\ Move(p, {"serving"}, "down")
  /\ view' = [view EXCEPT ![p] = Empty]
  /\ UNCHANGED <<table, page>>

Restart(p) ==
  /\ Move(p, {"down"}, "reading")
  /\ UNCHANGED <<table, view, page>>

Next == \E p \in Proc : \/ Begin(p) \/ Read(p) \/ Edit(p) \/ Reply(p)
                        \/ Leave(p) \/ Die(p) \/ Restart(p)

Spec == Init /\ [][Next]_vars
=============================================================================
