-------------------------------- MODULE Create --------------------------------
(***************************************************************************)
(* Create::index (create.cpp): domains made from an XML text, or from a    *)
(* form that names a new volume, a template to clone or images that are    *)
(* there.                                                                  *)
(*                                                                         *)
(* Every libvirt call is one step; calls of other workers, and of the      *)
(* pages that delete domains and volumes, come between.  A volume is known *)
(* by its name, which is also its path: there is one pool, and it runs.    *)
(***************************************************************************)
EXTENDS Naturals, FiniteSets

CONSTANTS Worker,      \* the processes that serve requests
          Name,        \* the names users type
          Image,       \* volumes that were there before
          Uuid,        \* UUIDs a text may hold
          Fresh,       \* a UUID made for the occasion
          None,        \* no definition
          Letters,     \* drives createDomain has letters for (five in the code)
          MayFail      \* whether a libvirt call may fail that could succeed

ASSUME LettersAssumption == Letters \in Nat
ASSUME FreshAssumption == Fresh \notin Uuid

VARIABLES
  defs,      \* the definition of each domain
  disks,     \* the volumes that exist
  pc,        \* where each worker is
  req,       \* its request
  seen,      \* "domains": the names the request read first
  todo,      \* image-control, what is left of it
  volumes,   \* the volumes the new domain gets
  outcome,   \* what the answer says
  calm,      \* since the request began no call of it failed that could have
             \* succeeded, and nobody else changed anything
  replaced   \* a calm request replaced a definition
             \* (these two are not in the code)

host == <<defs, disks>>
local == <<req, seen, todo, volumes, outcome>>
vars == <<host, pc, local, calm, replaced>>

Volume == Name \cup Image
Definition == [uuid : Uuid \cup {Fresh}, disks : SUBSET Volume]
ASSUME NoneAssumption == None \notin Definition

\* The parameters of a POST the handler looks at.
Request ==
  [op : {"create_xml"}, name : Name, uuid : Uuid \cup {Fresh}, valid : BOOLEAN]
  \cup [op : {"create"}, from : {"hdd_size"}, name : Name]
  \cup [op : {"create"}, from : {"template"}, name : Name, template : Image]
  \cup [op : {"create"}, from : {"images"}, name : Name, images : SUBSET Image]
NoRequest == [op |-> "none"]

Pc == {"idle", "list", "volume", "template", "clone", "images", "define",
       "done", "crashed"}

TypeOK ==
  /\ defs \in [Name -> Definition \cup {None}] /\ disks \subseteq Volume
  /\ pc \in [Worker -> Pc]
  /\ req \in [Worker -> Request \cup {NoRequest}]
  /\ seen \in [Worker -> SUBSET Name] /\ todo \in [Worker -> SUBSET Image]
  /\ volumes \in [Worker -> SUBSET Volume]
  /\ outcome \in [Worker -> {"none", "made", "errors"}]
  /\ calm \in [Worker -> BOOLEAN] /\ replaced \in BOOLEAN

Init ==
  /\ defs = [n \in Name |-> None] /\ disks = Image
  /\ pc = [w \in Worker |-> "idle"] /\ req = [w \in Worker |-> NoRequest]
  /\ seen = [w \in Worker |-> {}] /\ todo = [w \in Worker |-> {}]
  /\ volumes = [w \in Worker |-> {}] /\ outcome = [w \in Worker |-> "none"]
  /\ calm = [w \in Worker |-> TRUE] /\ replaced = FALSE

-----------------------------------------------------------------------------

Taken == {n \in Name : defs[n] # None}

Goto(w, from, to) == pc[w] = from /\ pc' = [pc EXCEPT ![w] = to]
Ends(w, from, with) ==
  Goto(w, from, "done") /\ outcome' = [outcome EXCEPT ![w] = with]

\* A call of w ended; `failed' although it could have succeeded.
Called(w, failed) ==
  calm' = [v \in Worker |-> calm[v] /\ IF v = w THEN ~failed ELSE UNCHANGED host]

Post(w, r) ==
  /\ Goto(w, "idle", "list")
  /\ req' = [req EXCEPT ![w] = r]
  /\ calm' = [calm EXCEPT ![w] = TRUE]
  /\ UNCHANGED <<host, seen, todo, volumes, outcome, replaced>>

\* Mutant: the names are read and not compared.
After_Unasked(r, names) ==
  IF r.op = "create" THEN (IF r.from = "hdd_size" THEN "volume" ELSE r.from)
  ELSE IF r.valid THEN "define" ELSE "done"

\* Where a request goes from the names of the domains: a text is refused when
\* its name is one of them, a form is not.
After(r, names) ==
  IF r.op = "create" THEN (IF r.from = "hdd_size" THEN "volume" ELSE r.from)
  ELSE IF r.valid /\ r.name \notin names THEN "define" ELSE "done"

\* conn->domains(): a list that cannot be read is empty.
List(w) ==
  /\ UNCHANGED host
  /\ \E names \in {Taken} \cup IF MayFail THEN {{}} ELSE {} :
       /\ Goto(w, "list", After(req[w], names))
       /\ seen' = [seen EXCEPT ![w] = names]
       /\ outcome' = [outcome EXCEPT ![w] = IF After(req[w], names) = "done"
                                            THEN "errors" ELSE "none"]
       /\ Called(w, names # Taken)
  /\ todo' = [todo EXCEPT ![w] = IF After(req[w], {}) = "images" THEN req[w].images ELSE {}]
  /\ volumes' = [volumes EXCEPT ![w] = {}]
  /\ UNCHANGED <<req, replaced>>

-----------------------------------------------------------------------------
(* The disk of the domain                                                  *)

\* A new volume with the name of the domain, or an error.
Made(w, from, possible) ==
  \/ /\ Goto(w, from, "define") /\ possible
     /\ disks' = disks \cup {req[w].name}
     /\ volumes' = [volumes EXCEPT ![w] = {req[w].name}]
     /\ UNCHANGED <<defs, outcome>>
     /\ Called(w, FALSE)
  \/ /\ Ends(w, from, "errors")
     /\ ~possible \/ MayFail
     /\ UNCHANGED <<host, volumes>>
     /\ Called(w, possible)

\* getStoragePool and createStorageVolume.
MakeVolume(w) ==
  /\ Made(w, "volume", req[w].name \notin disks)
  /\ UNCHANGED <<req, seen, todo, replaced>>

\* getStorageVolByPath: without the template there is no disk, and no error.
FindTemplate(w) ==
  /\ pc[w] = "template"
  /\ \E found \in BOOLEAN :
       /\ found => req[w].template \in disks
       /\ ~found => MayFail \/ req[w].template \notin disks
       /\ pc' = [pc EXCEPT ![w] = IF found THEN "clone" ELSE "define"]
       /\ UNCHANGED host
       /\ Called(w, ~found /\ req[w].template \in disks)
  /\ UNCHANGED <<local, replaced>>

CloneTemplate(w) ==
  /\ Made(w, "clone", req[w].template \in disks /\ req[w].name \notin disks)
  /\ UNCHANGED <<req, seen, todo, replaced>>

\* getStorageVolByPath for one image (the order does not matter here): one that
\* is not found is left out.
FindImage(w, i) ==
  /\ i \in todo[w]
  /\ Goto(w, "images", "images")
  /\ todo' = [todo EXCEPT ![w] = @ \ {i}]
  /\ UNCHANGED host
  /\ \/ /\ i \in disks
        /\ volumes' = [volumes EXCEPT ![w] = @ \cup {i}]
        /\ Called(w, FALSE)
     \/ /\ i \notin disks \/ MayFail
        /\ UNCHANGED volumes
        /\ Called(w, i \in disks)
  /\ UNCHANGED <<req, seen, outcome, replaced>>

ImagesFound(w) ==
  /\ todo[w] = {}
  /\ Goto(w, "images", "define")
  /\ UNCHANGED <<host, local, calm, replaced>>

-----------------------------------------------------------------------------
(* The definition                                                          *)

\* virDomainDefineXML (external): a UUID that is known must come with its
\* name, a name that is taken with its UUID.
Accepts(n, u) ==
  /\ \A m \in Name \ {n} : defs[m] # None /\ defs[m].uuid = u => u = Fresh
  /\ defs[n] # None => defs[n].uuid = u /\ u # Fresh

IdOf(r) == IF r.op = "create" THEN Fresh ELSE r.uuid

\* domainDefineXml and createDomain.
Define(w) ==
  LET r == req[w]
      possible == Accepts(r.name, IdOf(r))
  IN  \/ /\ Ends(w, "define", "made") /\ possible
         /\ defs' = [defs EXCEPT ![r.name] = [uuid |-> IdOf(r), disks |-> volumes[w]]]
         /\ replaced' = (replaced \/ (calm[w] /\ defs[r.name] # None))
         /\ UNCHANGED disks
         /\ Called(w, FALSE)
         /\ UNCHANGED <<req, seen, todo, volumes>>
      \/ /\ Ends(w, "define", "errors")
         /\ ~possible \/ MayFail
         /\ UNCHANGED <<host, req, seen, todo, volumes, replaced>>
         /\ Called(w, possible)

\* letters.takeFirst() of an empty list may be the end of the process.
OutOfLetters(w) ==
  /\ Cardinality(volumes[w]) > Letters
  /\ Goto(w, "define", "crashed")
  /\ UNCHANGED <<host, local, calm, replaced>>

\* The answer is sent; or the process is replaced.
Over(w) ==
  /\ pc[w] \in {"done", "crashed"}
  /\ pc' = [pc EXCEPT ![w] = "idle"]
  /\ req' = [req EXCEPT ![w] = NoRequest]
  /\ seen' = [seen EXCEPT ![w] = {}] /\ todo' = [todo EXCEPT ![w] = {}]
  /\ volumes' = [volumes EXCEPT ![w] = {}]
  /\ outcome' = [outcome EXCEPT ![w] = "none"]
  /\ calm' = [calm EXCEPT ![w] = TRUE]
  /\ UNCHANGED <<host, replaced>>

\* What other pages do: Instances::instance undefines, Storages::storage
\* deletes and adds.
Elsewhere ==
  /\ \/ \E n \in Taken : defs' = [defs EXCEPT ![n] = None] /\ UNCHANGED disks
     \/ \E v \in Volume : UNCHANGED defs /\ disks' \in {disks \cup {v}, disks \ {v}}
  /\ calm' = [w \in Worker |-> calm[w] /\ UNCHANGED host]
  /\ UNCHANGED <<pc, local, replaced>>

Next ==
  \/ \E w \in Worker :
       \/ \E r \in Request : Post(w, r)
       \/ List(w) \/ MakeVolume(w) \/ FindTemplate(w) \/ CloneTemplate(w)
       \/ \E i \in Image : FindImage(w, i)
       \/ ImagesFound(w) \/ Define(w) \/ OutOfLetters(w) \/ Over(w)
  \/ Elsewhere

Spec == Init /\ [][Next]_vars

-----------------------------------------------------------------------------
(* Properties                                                              *)

\* The disks a form asks for that there are.
Asked(r) ==
  IF r.from = "images" THEN r.images \cap disks
  ELSE IF r.from = "template" /\ r.template \notin disks THEN {}
  ELSE {r.name}

\* As long as nothing fails and nobody interferes, a definition that is there
\* is not replaced; the domain that is made has the disks that were asked for;
\* and a volume is left over without its domain only if the name was taken.
CreationsWhole ==
  /\ TypeOK /\ ~replaced
  /\ \A w \in Worker : pc[w] = "done" /\ calm[w] /\ req[w].op = "create" =>
       /\ outcome[w] = "made" => defs[req[w].name] # None
                                 /\ defs[req[w].name].disks = Asked(req[w])
       /\ outcome[w] = "errors" /\ volumes[w] \ Image # {} => req[w].name \in seen[w]
=============================================================================
