----------------------------- MODULE PagesProofs -----------------------------
(***************************************************************************)
(* Theorems about the pages: the making of domains, for any number of      *)
(* workers, names and images, with calls that fail or without; the sorting *)
(* of a table of any rows, columns and texts; and the choice among any     *)
(* options.                                                                *)
(***************************************************************************)
EXTENDS MCPages, FiniteSetTheorems, SequenceTheorems, WellFoundedInduction, TLAPS

\* A worker that answers a form.
Form(w) == req[w] \in Request /\ req[w].op = "create"

\* The form, or the text, a worker is at work on.
At(w) ==
  /\ pc[w] # "idle" => req[w] \in Request
  /\ pc[w] = "volume" => Form(w) /\ req[w].from = "hdd_size"
  /\ pc[w] \in {"template", "clone"} => Form(w) /\ req[w].from = "template"
  /\ pc[w] = "images" => Form(w) /\ req[w].from = "images" /\ todo[w] \subseteq req[w].images
  /\ pc[w] = "define" /\ req[w].op # "create" => req[w].name \notin seen[w]

\* In calm the names that were read are still those that are taken, and the
\* volumes found so far are the ones asked for.
Knows(w) ==
  /\ pc[w] \in {"volume", "template", "clone", "images", "define"} => seen[w] = Taken
  /\ pc[w] \in {"volume", "template", "clone"} => volumes[w] = {}
  /\ pc[w] = "clone" => req[w].template \in disks
  /\ pc[w] = "images" => volumes[w] = (req[w].images \ todo[w]) \cap disks
  /\ pc[w] = "define" /\ req[w].op = "create" => volumes[w] = Asked(req[w])

Whole(w) ==
  pc[w] = "done" /\ req[w].op = "create" =>
    /\ outcome[w] = "made" => defs[req[w].name] # None
                              /\ defs[req[w].name].disks = Asked(req[w])
    /\ outcome[w] = "errors" /\ volumes[w] \ Image # {} => req[w].name \in seen[w]

Mine(w) == At(w) /\ (calm[w] => Knows(w) /\ Whole(w))

Inv == TypeOK /\ ~replaced /\ \A w \in Worker : Mine(w)

\* A request of which nothing changes keeps what it knows, for only as long as
\* it is calm: then the host has not changed either.
LEMMA Unmoved ==
  ASSUME NEW v \in Worker, Mine(v),
         pc'[v] = pc[v], req'[v] = req[v], seen'[v] = seen[v], todo'[v] = todo[v],
         volumes'[v] = volumes[v], outcome'[v] = outcome[v],
         calm'[v] => calm[v] /\ UNCHANGED host
  PROVE  Mine(v)'
<1>1. At(v)'
  BY DEF Mine, At, Form
<1>2. ASSUME calm'[v] PROVE Knows(v)' /\ Whole(v)'
  <2>1. calm[v] /\ defs' = defs /\ disks' = disks
    BY <1>2 DEF host
  <2>2. Knows(v) /\ Whole(v)
    BY <2>1 DEF Mine
  <2>3. QED BY <2>1, <2>2 DEF Knows, Whole, Taken, Asked
<1>3. QED BY <1>1, <1>2 DEF Mine

\* What the step of a worker does to the calm of all.
LEMMA CalmAfter ==
  ASSUME TypeOK, NEW w \in Worker, NEW failed \in BOOLEAN, Called(w, failed)
  PROVE  /\ calm' \in [Worker -> BOOLEAN]
         /\ calm'[w] => calm[w] /\ ~failed
         /\ \A v \in Worker : v # w => (calm'[v] => calm[v] /\ UNCHANGED host)
BY DEF Called, TypeOK

\* A step that moves no worker but w.
OnlyMoves(w) ==
  \A v \in Worker : v # w =>
    /\ pc'[v] = pc[v] /\ req'[v] = req[v] /\ seen'[v] = seen[v] /\ todo'[v] = todo[v]
    /\ volumes'[v] = volumes[v] /\ outcome'[v] = outcome[v]
    /\ calm'[v] => calm[v] /\ UNCHANGED host

LEMMA Moves ==
  ASSUME Inv, NEW w \in Worker, OnlyMoves(w), TypeOK', Mine(w)', ~replaced'
  PROVE  Inv'
<1>1. ASSUME NEW v \in Worker, v # w PROVE Mine(v)'
  BY <1>1, Unmoved DEF OnlyMoves, Inv
<1>2. QED BY <1>1 DEF Inv

-----------------------------------------------------------------------------
(* The steps *)

LEMMA InvInit == Init => Inv
BY DEF Init, Inv, TypeOK, Mine, At, Knows, Whole, Pc, Volume, NoRequest, Form

LEMMA PostInv == ASSUME Inv, NEW w \in Worker, NEW r \in Request, Post(w, r) PROVE Inv'
<1>1. TypeOK /\ pc[w] = "idle" /\ pc' = [pc EXCEPT ![w] = "list"]
      /\ req' = [req EXCEPT ![w] = r] /\ calm' = [calm EXCEPT ![w] = TRUE]
      /\ UNCHANGED <<defs, disks, seen, todo, volumes, outcome, replaced>>
  BY DEF Post, Goto, Inv, host
<1>2. TypeOK'
  BY <1>1 DEF TypeOK, Pc
<1>3. OnlyMoves(w)
  BY <1>1 DEF OnlyMoves, TypeOK, host
<1>4. pc'[w] = "list" /\ req'[w] = r
  BY <1>1 DEF TypeOK
<1>5. Mine(w)'
  BY <1>4 DEF Mine, At, Knows, Whole
<1>6. QED BY <1>1, <1>2, <1>3, <1>5, Moves DEF Inv

LEMMA ListInv == ASSUME Inv, NEW w \in Worker, List(w) PROVE Inv'
<1>1. TypeOK /\ Mine(w) /\ pc[w] = "list" /\ req[w] \in Request
  BY DEF List, Goto, Inv, Mine, At
<1>2. PICK names \in {Taken} \cup IF MayFail THEN {{}} ELSE {} :
        /\ pc' = [pc EXCEPT ![w] = After(req[w], names)]
        /\ seen' = [seen EXCEPT ![w] = names]
        /\ outcome' = [outcome EXCEPT ![w] = IF After(req[w], names) = "done"
                                             THEN "errors" ELSE "none"]
        /\ Called(w, names # Taken)
  BY DEF List, Goto
<1>3. /\ todo' = [todo EXCEPT ![w] = IF After(req[w], {}) = "images" THEN req[w].images ELSE {}]
      /\ volumes' = [volumes EXCEPT ![w] = {}]
      /\ UNCHANGED <<defs, disks, req, replaced>>
  BY DEF List, host
<1>4. /\ calm' \in [Worker -> BOOLEAN] /\ (calm'[w] => calm[w] /\ names = Taken)
      /\ \A v \in Worker : v # w => (calm'[v] => calm[v] /\ UNCHANGED host)
  BY <1>1, <1>2, CalmAfter
<1>5. /\ After(req[w], names) \in Pc
      /\ After(req[w], names) = "volume" => Form(w) /\ req[w].from = "hdd_size"
      /\ After(req[w], names) = "template" => Form(w) /\ req[w].from = "template"
      /\ After(req[w], names) = "images" => Form(w) /\ req[w].from = "images"
                                            /\ After(req[w], {}) = "images"
      /\ After(req[w], {}) = "images" => req[w].images \subseteq Image
      /\ After(req[w], names) = "define" => req[w].op # "create" /\ req[w].name \notin names
      /\ After(req[w], names) = "done" => req[w].op # "create"
      /\ After(req[w], names) # "clone"
  BY <1>1 DEF After, Request, Pc, Form
<1>6. names \subseteq Name
  BY DEF Taken
<1>7. TypeOK'
  <2>1. todo' \in [Worker -> SUBSET Image]
    BY <1>1, <1>3, <1>5 DEF TypeOK
  <2>2. QED BY <1>1, <1>2, <1>3, <1>4, <1>5, <1>6, <2>1 DEF TypeOK
<1>8. OnlyMoves(w)
  BY <1>1, <1>2, <1>3, <1>4 DEF OnlyMoves, TypeOK
<1>9. /\ pc'[w] = After(req[w], names) /\ seen'[w] = names /\ volumes'[w] = {}
      /\ req'[w] = req[w] /\ (After(req[w], {}) = "images" => todo'[w] = req[w].images)
  BY <1>1, <1>2, <1>3 DEF TypeOK
<1>10. At(w)'
  BY <1>1, <1>5, <1>9 DEF At, Form
<1>11. ASSUME calm'[w] PROVE Knows(w)' /\ Whole(w)'
  <2>1. seen'[w] = Taken'
    BY <1>3, <1>4, <1>9, <1>11 DEF Taken
  <2>2. pc'[w] = "images" => volumes'[w] = (req'[w].images \ todo'[w]) \cap disks'
    BY <1>5, <1>9
  <2>3. pc'[w] # "clone" /\ (pc'[w] \in {"define", "done"} => req'[w].op # "create")
    BY <1>5, <1>9
  <2>4. QED BY <1>9, <2>1, <2>2, <2>3 DEF Knows, Whole
<1>12. Mine(w)'
  BY <1>10, <1>11 DEF Mine
<1>13. QED BY <1>3, <1>7, <1>8, <1>12, Moves DEF Inv

\* A volume made for the domain is all it gets, and one that could not be made
\* leaves none.
LEMMA MadeInv ==
  ASSUME Inv, NEW w \in Worker, NEW from \in {"volume", "clone"}, NEW possible \in BOOLEAN,
         Made(w, from, possible), UNCHANGED <<req, seen, todo, replaced>>
  PROVE  Inv'
<1>1. /\ TypeOK /\ Mine(w) /\ pc[w] = from /\ Form(w) /\ req[w].from \in {"hdd_size", "template"}
      /\ req[w].name \in Name
  BY DEF Made, Ends, Goto, Inv, Mine, At, Form, Request
<1>2. CASE /\ pc' = [pc EXCEPT ![w] = "define"]
           /\ disks' = disks \cup {req[w].name}
           /\ volumes' = [volumes EXCEPT ![w] = {req[w].name}]
           /\ UNCHANGED <<defs, outcome>> /\ Called(w, FALSE)
  <2>1. TypeOK' /\ OnlyMoves(w)
    BY <1>1, <1>2, CalmAfter DEF TypeOK, Pc, Volume, OnlyMoves
  <2>2. /\ pc'[w] = "define" /\ req'[w] = req[w] /\ seen'[w] = seen[w]
        /\ volumes'[w] = {req[w].name} /\ (calm'[w] => calm[w]) /\ Taken' = Taken
    BY <1>1, <1>2, CalmAfter DEF TypeOK, Taken
  <2>3. At(w)'
    BY <1>1, <2>2 DEF At, Form
  <2>4. ASSUME calm'[w] PROVE Knows(w)' /\ Whole(w)'
    <3>1. seen[w] = Taken /\ (from = "clone" => req[w].template \in disks)
      BY <1>1, <2>2, <2>4 DEF Mine, Knows
    <3>2. Asked(req[w])' = {req[w].name}
      <4>1. req[w].from = "template" => from = "clone"
        BY <1>1 DEF Mine, At
      <4>2. req[w].from = "template" => req[w].template \in disks'
        BY <1>2, <3>1, <4>1
      <4>3. QED BY <1>1, <2>2, <4>2 DEF Asked
    <3>3. QED BY <2>2, <3>1, <3>2 DEF Knows, Whole, Asked
  <2>5. QED BY <2>1, <2>3, <2>4, Moves DEF Mine, Inv
<1>3. CASE /\ pc' = [pc EXCEPT ![w] = "done"] /\ outcome' = [outcome EXCEPT ![w] = "errors"]
           /\ UNCHANGED <<defs, disks, volumes>> /\ Called(w, possible)
  <2>1. TypeOK' /\ OnlyMoves(w)
    BY <1>1, <1>3, CalmAfter DEF TypeOK, Pc, OnlyMoves
  <2>2. /\ pc'[w] = "done" /\ req'[w] = req[w] /\ outcome'[w] = "errors"
        /\ volumes'[w] = volumes[w] /\ (calm'[w] => calm[w])
    BY <1>1, <1>3, CalmAfter DEF TypeOK
  <2>3. At(w)'
    BY <1>1, <2>2 DEF At, Form
  <2>4. ASSUME calm'[w] PROVE Knows(w)' /\ Whole(w)'
    BY <1>1, <2>2, <2>4 DEF Mine, Knows, Whole
  <2>5. QED BY <2>1, <2>3, <2>4, Moves DEF Mine, Inv
<1>4. QED BY <1>2, <1>3 DEF Made, Ends, Goto, host

LEMMA FindTemplateInv == ASSUME Inv, NEW w \in Worker, FindTemplate(w) PROVE Inv'
<1>1. TypeOK /\ Mine(w) /\ pc[w] = "template" /\ Form(w) /\ req[w].from = "template"
  BY DEF FindTemplate, Inv, Mine, At
<1>2. PICK found \in BOOLEAN :
        /\ found => req[w].template \in disks
        /\ pc' = [pc EXCEPT ![w] = IF found THEN "clone" ELSE "define"]
        /\ Called(w, ~found /\ req[w].template \in disks)
  BY DEF FindTemplate
<1>3. UNCHANGED <<defs, disks, req, seen, todo, volumes, outcome, replaced>>
  BY DEF FindTemplate, host, local
<1>4. /\ calm' \in [Worker -> BOOLEAN] /\ (calm'[w] => calm[w] /\ ~(~found /\ req[w].template \in disks))
      /\ \A v \in Worker : v # w => (calm'[v] => calm[v] /\ UNCHANGED host)
  BY <1>1, <1>2, CalmAfter
<1>5. TypeOK' /\ OnlyMoves(w)
  BY <1>1, <1>2, <1>3, <1>4 DEF TypeOK, Pc, OnlyMoves
<1>6. pc'[w] = (IF found THEN "clone" ELSE "define") /\ Taken' = Taken
  BY <1>1, <1>2, <1>3 DEF TypeOK, Taken
<1>7. At(w)'
  BY <1>1, <1>3, <1>6 DEF At, Form
<1>8. ASSUME calm'[w] PROVE Knows(w)' /\ Whole(w)'
  <2>1. seen[w] = Taken /\ volumes[w] = {} /\ (found <=> req[w].template \in disks)
    BY <1>1, <1>2, <1>4, <1>8 DEF Mine, Knows
  <2>2. Asked(req[w])' = IF found THEN {req[w].name} ELSE {}
    BY <1>1, <1>3, <2>1 DEF Asked
  <2>3. QED BY <1>3, <1>6, <2>1, <2>2 DEF Knows, Whole
<1>9. QED BY <1>3, <1>5, <1>7, <1>8, Moves DEF Mine, Inv

LEMMA FindImageInv ==
  ASSUME Inv, NEW w \in Worker, NEW i \in Image, FindImage(w, i) PROVE Inv'
<1>1. /\ TypeOK /\ Mine(w) /\ pc[w] = "images" /\ Form(w) /\ req[w].from = "images"
      /\ i \in todo[w] /\ todo[w] \subseteq req[w].images
  BY DEF FindImage, Goto, Inv, Mine, At
<1>2. /\ todo' = [todo EXCEPT ![w] = @ \ {i}] /\ pc' = [pc EXCEPT ![w] = "images"]
      /\ UNCHANGED <<defs, disks, req, seen, outcome, replaced>>
  BY DEF FindImage, Goto, host
<1>3. PICK found \in BOOLEAN :
        /\ found => i \in disks
        /\ volumes' = [volumes EXCEPT ![w] = IF found THEN @ \cup {i} ELSE @]
        /\ Called(w, ~found /\ i \in disks)
  <2>1. CASE i \in disks /\ volumes' = [volumes EXCEPT ![w] = @ \cup {i}] /\ Called(w, FALSE)
    <3>1. Called(w, ~TRUE /\ i \in disks)
      BY <2>1 DEF Called
    <3>2. WITNESS TRUE \in BOOLEAN
    <3>3. QED BY <2>1, <3>1
  <2>2. CASE UNCHANGED volumes /\ Called(w, i \in disks)
    <3>1. volumes' = [volumes EXCEPT ![w] = @]
      BY <1>1, <2>2 DEF TypeOK
    <3>2. Called(w, ~FALSE /\ i \in disks)
      BY <2>2 DEF Called
    <3>3. WITNESS FALSE \in BOOLEAN
    <3>4. QED BY <3>1, <3>2
  <2>3. QED BY <2>1, <2>2 DEF FindImage
<1>4. /\ calm' \in [Worker -> BOOLEAN] /\ (calm'[w] => calm[w] /\ ~(~found /\ i \in disks))
      /\ \A v \in Worker : v # w => (calm'[v] => calm[v] /\ UNCHANGED host)
  BY <1>1, <1>3, CalmAfter
<1>5. TypeOK' /\ OnlyMoves(w)
  BY <1>1, <1>2, <1>3, <1>4 DEF TypeOK, Pc, Volume, OnlyMoves
<1>6. /\ pc'[w] = "images" /\ Taken' = Taken /\ todo'[w] = todo[w] \ {i}
      /\ volumes'[w] = IF found THEN volumes[w] \cup {i} ELSE volumes[w]
  BY <1>1, <1>2, <1>3 DEF TypeOK, Taken
<1>7. At(w)'
  BY <1>1, <1>2, <1>6 DEF At, Form
<1>8. ASSUME calm'[w] PROVE Knows(w)' /\ Whole(w)'
  <2>1. seen[w] = Taken /\ volumes[w] = (req[w].images \ todo[w]) \cap disks
    BY <1>1, <1>4, <1>8 DEF Mine, Knows
  <2>2. i \in req[w].images /\ (found <=> i \in disks)
    BY <1>1, <1>3, <1>4, <1>8 DEF Mine, At
  <2>3. volumes'[w] = (req[w].images \ todo'[w]) \cap disks
    BY <1>1, <1>6, <2>1, <2>2
  <2>4. QED BY <1>2, <1>6, <2>1, <2>3 DEF Knows, Whole
<1>9. QED BY <1>2, <1>5, <1>7, <1>8, Moves DEF Mine, Inv

LEMMA ImagesFoundInv == ASSUME Inv, NEW w \in Worker, ImagesFound(w) PROVE Inv'
<1>1. /\ TypeOK /\ Mine(w) /\ pc[w] = "images" /\ Form(w) /\ req[w].from = "images" /\ todo[w] = {}
      /\ pc' = [pc EXCEPT ![w] = "define"]
      /\ UNCHANGED <<defs, disks, req, seen, todo, volumes, outcome, calm, replaced>>
  BY DEF ImagesFound, Goto, Inv, Mine, At, host, local
<1>2. TypeOK' /\ OnlyMoves(w)
  BY <1>1 DEF TypeOK, Pc, OnlyMoves, host
<1>3. pc'[w] = "define" /\ Taken' = Taken
  BY <1>1 DEF TypeOK, Taken
<1>4. At(w)'
  BY <1>1, <1>3 DEF At, Form
<1>5. ASSUME calm'[w] PROVE Knows(w)' /\ Whole(w)'
  <2>1. seen[w] = Taken /\ volumes[w] = req[w].images \cap disks
    BY <1>1, <1>5 DEF Mine, Knows
  <2>2. Asked(req[w])' = req[w].images \cap disks
    BY <1>1 DEF Asked
  <2>3. QED BY <1>1, <1>3, <2>1, <2>2 DEF Knows, Whole
<1>6. QED BY <1>1, <1>2, <1>4, <1>5, Moves DEF Mine, Inv

\* A fresh UUID is accepted for a name that is free alone, and a text was
\* compared with the names that were taken.
LEMMA DefineInv == ASSUME Inv, NEW w \in Worker, Define(w) PROVE Inv'
<1> DEFINE r == req[w]
<1>1. /\ TypeOK /\ Mine(w) /\ pc[w] = "define" /\ r \in Request /\ r.name \in Name
      /\ IdOf(r) \in Uuid \cup {Fresh}
  BY DEF Define, Ends, Goto, Inv, Mine, At, Request, IdOf
<1>2. /\ pc' = [pc EXCEPT ![w] = "done"] /\ UNCHANGED <<disks, req, seen, todo, volumes>>
      /\ \E o \in {"made", "errors"} : outcome' = [outcome EXCEPT ![w] = o]
  BY DEF Define, Ends, Goto, host
<1>3. pc'[w] = "done" /\ At(w)'
  BY <1>1, <1>2 DEF TypeOK, At, Form
<1>4. r.op = "create" /\ Accepts(r.name, IdOf(r)) => r.name \notin Taken
  BY DEF Accepts, IdOf, Taken
<1>5. CASE /\ Accepts(r.name, IdOf(r)) /\ outcome' = [outcome EXCEPT ![w] = "made"]
           /\ defs' = [defs EXCEPT ![r.name] = [uuid |-> IdOf(r), disks |-> volumes[w]]]
           /\ replaced' = (replaced \/ (calm[w] /\ defs[r.name] # None))
           /\ Called(w, FALSE)
  <2>1. [uuid |-> IdOf(r), disks |-> volumes[w]] \in Definition
    BY <1>1 DEF TypeOK, Definition
  <2>2. ~(calm[w] /\ defs[r.name] # None)
    <3>1. r.op # "create" => r.name \notin seen[w]
      BY <1>1 DEF Mine, At
    <3>2. calm[w] => seen[w] = Taken
      BY <1>1 DEF Mine, Knows
    <3>3. QED BY <1>1, <1>4, <1>5, <3>1, <3>2 DEF Taken
  <2>3. replaced' \in BOOLEAN /\ ~replaced'
    BY <1>5, <2>2 DEF Inv, TypeOK
  <2>4. TypeOK' /\ OnlyMoves(w)
    BY <1>1, <1>2, <1>5, <2>1, <2>3, CalmAfter DEF TypeOK, Pc, OnlyMoves
  <2>5. ASSUME calm'[w] PROVE Knows(w)' /\ Whole(w)'
    <3>1. calm[w] /\ (r.op = "create" => volumes[w] = Asked(r))
      BY <1>1, <1>5, <2>5, CalmAfter DEF Mine, Knows
    <3>2. outcome'[w] = "made" /\ (Asked(req[w])' = Asked(r))
      BY <1>1, <1>2, <1>5 DEF TypeOK, Asked
    <3>3. defs'[r.name] = [uuid |-> IdOf(r), disks |-> volumes[w]]
      BY <1>1, <1>5 DEF TypeOK
    <3>4. defs'[r.name] # None /\ defs'[r.name].disks = volumes[w]
      BY <2>1, <3>3, NoneAssumption
    <3>5. QED BY <1>2, <1>3, <3>1, <3>2, <3>4 DEF Knows, Whole
  <2>6. QED BY <1>3, <2>3, <2>4, <2>5, Moves DEF Mine
<1>6. CASE /\ outcome' = [outcome EXCEPT ![w] = "errors"]
           /\ UNCHANGED <<defs, replaced>> /\ Called(w, Accepts(r.name, IdOf(r)))
  <2>1. Accepts(r.name, IdOf(r)) \in BOOLEAN
    BY DEF Accepts
  <2>2. /\ calm' \in [Worker -> BOOLEAN] /\ (calm'[w] => calm[w] /\ ~Accepts(r.name, IdOf(r)))
        /\ \A v \in Worker : v # w => (calm'[v] => calm[v] /\ UNCHANGED host)
    BY <1>1, <1>6, <2>1, CalmAfter
  <2>3. TypeOK' /\ OnlyMoves(w)
    BY <1>1, <1>2, <1>6, <2>2 DEF TypeOK, Pc, OnlyMoves
  <2>4. ASSUME calm'[w] PROVE Knows(w)' /\ Whole(w)'
    <3>1. seen[w] = Taken
      BY <1>1, <2>2, <2>4 DEF Mine, Knows
    <3>2. r.op = "create" => r.name \in Taken
      BY <1>1, <2>2, <2>4 DEF Accepts, IdOf, Taken, TypeOK
    <3>3. outcome'[w] = "errors"
      BY <1>1, <1>6 DEF TypeOK
    <3>4. QED BY <1>2, <1>3, <3>1, <3>2, <3>3 DEF Knows, Whole
  <2>5. QED BY <1>3, <1>6, <2>3, <2>4, Moves DEF Mine, Inv
<1>7. QED BY <1>5, <1>6 DEF Define, Ends, host

LEMMA OverInv == ASSUME Inv, NEW w \in Worker, OutOfLetters(w) \/ Over(w) PROVE Inv'
<1>1. CASE OutOfLetters(w)
  <2>1. /\ TypeOK /\ pc' = [pc EXCEPT ![w] = "crashed"] /\ pc[w] = "define" /\ Mine(w)
        /\ UNCHANGED <<defs, disks, req, seen, todo, volumes, outcome, calm, replaced>>
    BY <1>1 DEF OutOfLetters, Goto, Inv, host, local
  <2>2. TypeOK' /\ OnlyMoves(w) /\ pc'[w] = "crashed"
    BY <2>1 DEF TypeOK, Pc, OnlyMoves, host
  <2>3. Mine(w)'
    BY <2>1, <2>2 DEF Mine, At, Knows, Whole, Form
  <2>4. QED BY <2>1, <2>2, <2>3, Moves DEF Inv
<1>2. CASE Over(w)
  <2>1. /\ TypeOK /\ pc' = [pc EXCEPT ![w] = "idle"]
        /\ req' = [req EXCEPT ![w] = NoRequest] /\ seen' = [seen EXCEPT ![w] = {}]
        /\ todo' = [todo EXCEPT ![w] = {}] /\ volumes' = [volumes EXCEPT ![w] = {}]
        /\ outcome' = [outcome EXCEPT ![w] = "none"] /\ calm' = [calm EXCEPT ![w] = TRUE]
        /\ UNCHANGED <<defs, disks, replaced>>
    BY <1>2 DEF Over, Inv, host
  <2>2. TypeOK' /\ OnlyMoves(w) /\ pc'[w] = "idle"
    BY <2>1 DEF TypeOK, Pc, OnlyMoves, host
  <2>3. Mine(w)'
    BY <2>2 DEF Mine, At, Knows, Whole
  <2>4. QED BY <2>1, <2>2, <2>3, Moves DEF Inv
<1>3. QED BY <1>1, <1>2

LEMMA ElsewhereInv == ASSUME Inv, Elsewhere PROVE Inv'
<1>1. /\ TypeOK /\ calm' = [w \in Worker |-> calm[w] /\ UNCHANGED host]
      /\ UNCHANGED <<pc, req, seen, todo, volumes, outcome, replaced>>
  BY DEF Elsewhere, Inv, local
<1>2. defs' \in [Name -> Definition \cup {None}] /\ disks' \subseteq Volume
  BY <1>1 DEF Elsewhere, TypeOK, Taken
<1>3. TypeOK'
  BY <1>1, <1>2 DEF TypeOK
<1>4. ASSUME NEW v \in Worker PROVE Mine(v)'
  BY <1>1, Unmoved DEF Inv
<1>5. QED BY <1>1, <1>3, <1>4 DEF Inv

LEMMA Step == Inv /\ [Next]_vars => Inv'
<1> SUFFICES ASSUME Inv, [Next]_vars PROVE Inv'
  OBVIOUS
<1>1. ASSUME NEW w \in Worker, MakeVolume(w) \/ CloneTemplate(w) PROVE Inv'
  BY <1>1, MadeInv DEF MakeVolume, CloneTemplate
<1>2. CASE UNCHANGED vars
  <2>1. UNCHANGED <<defs, disks, pc, req, seen, todo, volumes, outcome, calm, replaced>>
    BY <1>2 DEF vars, host, local
  <2>2. TypeOK'
    BY <2>1 DEF Inv, TypeOK
  <2>3. ASSUME NEW v \in Worker PROVE Mine(v)'
    BY <2>1, Unmoved DEF Inv, host
  <2>4. QED BY <2>1, <2>2, <2>3 DEF Inv
<1>3. QED
  BY <1>1, <1>2, PostInv, ListInv, FindTemplateInv, FindImageInv, ImagesFoundInv, DefineInv,
     OverInv, ElsewhereInv DEF Next

-----------------------------------------------------------------------------

\* As long as nothing fails and nobody interferes, Create::index replaces no
\* definition, gives a domain the disks that were asked for, and leaves a volume
\* without its domain only if the name was taken.
THEOREM Creations == Spec => []CreationsWhole
<1>1. Inv => CreationsWhole
  BY DEF Inv, Mine, Whole, CreationsWhole
<1>2. QED BY <1>1, InvInit, Step, PTL DEF Spec

-----------------------------------------------------------------------------
(* Orders of finite sets, which multisort and Without list.                *)

\* The order of the natural numbers, as a set of pairs.
Smaller == {p \in Nat \X Nat : p[1] < p[2]}

\* No sequence of natural numbers decreases for ever.
LEMMA SmallerWellFounded == IsWellFoundedOn(Smaller, Nat)
BY NatLessThanWellFounded, Zenon DEF Smaller, OpToRel

\* A set of natural numbers has a least element.
LEMMA LeastNat ==
  ASSUME NEW I, I \subseteq Nat, I # {}
  PROVE  \E x \in I : \A y \in I : x <= y
<1>1. PICK x \in I : \A y \in I : ~(<<y, x>> \in Smaller)
  BY SmallerWellFounded, WFMin
<1>2. ASSUME NEW y \in I PROVE x <= y
  <2>1. x \in Nat /\ y \in Nat /\ <<y, x>> \in Nat \X Nat
    OBVIOUS
  <2>2. ~(y < x)
    BY <1>1, <2>1 DEF Smaller
  <2> QED BY <2>1, <2>2
<1> QED BY <1>2

\* A strict order of all of S.
Total(S, R) ==
  /\ \A x \in S : <<x, x>> \notin R
  /\ \A x, y \in S : x # y => <<x, y>> \in R \/ <<y, x>> \in R
  /\ \A x, y, z \in S : <<x, y>> \in R /\ <<y, z>> \in R => <<x, z>> \in R

Below(S, R, x) == {y \in S : <<y, x>> \in R}

\* For every i there is exactly one with i - 1 before it, and what has more
\* before it comes later.
LEMMA Ranked ==
  ASSUME NEW S, IsFiniteSet(S), NEW R, Total(S, R)
  PROVE  /\ Cardinality(S) \in Nat
         /\ \A x \in S : Cardinality(Below(S, R, x)) \in 0 .. Cardinality(S) - 1
         /\ \A x, y \in S : <<x, y>> \in R =>
              Cardinality(Below(S, R, x)) < Cardinality(Below(S, R, y))
         /\ \A i \in 1 .. Cardinality(S) : \E x \in S :
              Cardinality(Below(S, R, x)) = i - 1
<1>1. Cardinality(S) \in Nat  BY FS_CardinalityType
<1>2. ASSUME NEW x \in S
      PROVE  /\ IsFiniteSet(Below(S, R, x))
             /\ Cardinality(Below(S, R, x)) \in Nat
             /\ Cardinality(Below(S, R, x)) < Cardinality(S)
  <2>1. Below(S, R, x) \in SUBSET S /\ Below(S, R, x) # S
    BY DEF Below, Total
  <2>2. IsFiniteSet(Below(S, R, x)) /\ Cardinality(Below(S, R, x)) <= Cardinality(S)
        /\ Cardinality(S) # Cardinality(Below(S, R, x))
    BY <2>1, FS_Subset
  <2>3. Cardinality(Below(S, R, x)) \in Nat  BY <2>2, FS_CardinalityType
  <2> QED BY <1>1, <2>2, <2>3
<1>3. ASSUME NEW x \in S, NEW y \in S, <<x, y>> \in R
      PROVE  Cardinality(Below(S, R, x)) < Cardinality(Below(S, R, y))
  <2>1. Below(S, R, x) \in SUBSET Below(S, R, y)  BY <1>3 DEF Below, Total
  <2>2. x \in Below(S, R, y) /\ x \notin Below(S, R, x)  BY <1>3 DEF Below, Total
  <2>3. Cardinality(Below(S, R, x)) <= Cardinality(Below(S, R, y))
        /\ Cardinality(Below(S, R, y)) # Cardinality(Below(S, R, x))
    BY <1>2, <2>1, <2>2, FS_Subset
  <2> QED BY <1>2, <2>3
<1> DEFINE rank == [x \in S |-> Cardinality(Below(S, R, x)) + 1]
           T == 1 .. Cardinality(S)
<1>4. rank \in [S -> T]  BY <1>1, <1>2
<1>5. ASSUME NEW x \in S, NEW y \in S, x # y
      PROVE  rank[x] # rank[y]
  <2>1. <<x, y>> \in R \/ <<y, x>> \in R  BY <1>5 DEF Total
  <2> QED BY <1>2, <1>3, <2>1
<1>6. rank \in Injection(S, T)  BY <1>4, <1>5 DEF Injection, IsInjective
<1>7. IsFiniteSet(T) /\ Cardinality(T) = Cardinality(S)
  BY <1>1, FS_Interval
<1>8. rank \in Surjection(S, T)
  <2> HIDE DEF rank, T
  <2> QED BY <1>6, <1>7, FS_Injection
<1>9. \A i \in T : \E x \in S : rank[x] = i
  BY <1>8 DEF Surjection
<1> QED BY <1>1, <1>2, <1>3, <1>9

\* f[i] is one that i - 1 are before.
ByRank(S, R, f) ==
  /\ f \in [1 .. Cardinality(S) -> S]
  /\ \A i \in 1 .. Cardinality(S) : Cardinality(Below(S, R, f[i])) = i - 1

\* So f lists all of S in the order.
LEMMA Placed ==
  ASSUME NEW S, IsFiniteSet(S), NEW R, Total(S, R),
         NEW f, ByRank(S, R, f)
  PROVE  /\ \A i, j \in 1 .. Cardinality(S) : i < j => <<f[i], f[j]>> \in R
         /\ \A x \in S : \E i \in 1 .. Cardinality(S) : f[i] = x
<1>1. Cardinality(S) \in Nat  BY Ranked
<1>2. ASSUME NEW i \in 1 .. Cardinality(S)
      PROVE  f[i] \in S /\ Cardinality(Below(S, R, f[i])) = i - 1
  BY DEF ByRank
<1>3. ASSUME NEW i \in 1 .. Cardinality(S), NEW j \in 1 .. Cardinality(S), i < j
      PROVE  <<f[i], f[j]>> \in R
  <2>1. f[i] # f[j]  BY <1>1, <1>2, <1>3
  <2>2. <<f[i], f[j]>> \in R \/ <<f[j], f[i]>> \in R  BY <1>2, <2>1 DEF Total
  <2>3. <<f[j], f[i]>> \in R => j - 1 < i - 1  BY <1>2, Ranked
  <2> QED BY <1>1, <1>3, <2>2, <2>3
<1>4. ASSUME NEW x \in S
      PROVE  \E i \in 1 .. Cardinality(S) : f[i] = x
  <2> DEFINE i == Cardinality(Below(S, R, x)) + 1
  <2>1. i \in 1 .. Cardinality(S)  BY <1>1, Ranked
  <2>2. f[i] \in S /\ Cardinality(Below(S, R, f[i])) = Cardinality(Below(S, R, x))
    BY <1>1, <1>2, <2>1, Ranked
  <2>3. f[i] = x
    <3>1. SUFFICES ASSUME f[i] # x PROVE FALSE  OBVIOUS
    <3>2. <<f[i], x>> \in R \/ <<x, f[i]>> \in R  BY <2>2, <3>1 DEF Total
    <3>3. Cardinality(Below(S, R, x)) \in Int  BY Ranked
    <3>4. Cardinality(Below(S, R, f[i])) < Cardinality(Below(S, R, x))
          \/ Cardinality(Below(S, R, x)) < Cardinality(Below(S, R, f[i]))
      BY <2>2, <3>2, Ranked
    <3> QED BY ONLY <2>2, <3>3, <3>4
  <2> QED BY <2>1, <2>3
<1> QED BY <1>3, <1>4

\* The instances count as this module does.
LEMMA SameCount ==
  \A S : Choice!Cardinality(S) = Cardinality(S) /\ Table!Cardinality(S) = Cardinality(S)
<1>1. \A S : Choice!Cardinality(S) = Cardinality(S)
  BY Zenon DEF Choice!Cardinality, Cardinality
<1>2. \A S : Table!Cardinality(S) = Cardinality(S)
  BY Zenon DEF Table!Cardinality, Cardinality
<1> QED BY <1>1, <1>2

\* The numbers of a finite set, in their order.
LEMMA AscendingWhole ==
  ASSUME NEW S \in SUBSET Nat, IsFiniteSet(S)
  PROVE  /\ Cardinality(S) \in Nat
         /\ Choice!Ascending(S) \in [1 .. Cardinality(S) -> S]
         /\ \A i, j \in 1 .. Cardinality(S) : i < j => Choice!Ascending(S)[i] < Choice!Ascending(S)[j]
         /\ \A x \in S : \E i \in 1 .. Cardinality(S) : Choice!Ascending(S)[i] = x
<1> DEFINE R == {p \in S \X S : p[1] < p[2]}
           f == Choice!Ascending(S)
<1>1. \A x, y \in S : <<x, y>> \in R <=> x < y  OBVIOUS
<1>2. Total(S, R)
  <2>1. \A x \in S : x \in Nat  OBVIOUS
  <2> HIDE DEF R
  <2> QED BY <1>1, <2>1 DEF Total
<1>3. \A x \in S : Below(S, R, x) = {k \in S : k < x}  BY <1>1 DEF Below
<1>4. ASSUME NEW i \in 1 .. Cardinality(S)
      PROVE  f[i] \in S /\ Cardinality(Below(S, R, f[i])) = i - 1
  <2> HIDE DEF R
  <2>1. \E x \in S : Cardinality(Below(S, R, x)) = i - 1  BY <1>2, Ranked
  <2>2. \E m \in S : Cardinality({k \in S : k < m}) = i - 1  BY <1>3, <2>1
  <2>3. f[i] = CHOOSE m \in S : Cardinality({k \in S : k < m}) = i - 1
    BY SameCount DEF Choice!Ascending
  <2>4. f[i] \in S /\ Cardinality({k \in S : k < f[i]}) = i - 1
    <3> HIDE DEF f
    <3> QED BY ONLY <2>2, <2>3
  <2> QED BY <1>3, <2>4
<1>5. f \in [1 .. Cardinality(S) -> S]  BY <1>4, SameCount DEF Choice!Ascending
<1> HIDE DEF R, f
<1>6. /\ \A i, j \in 1 .. Cardinality(S) : i < j => <<f[i], f[j]>> \in R
      /\ \A x \in S : \E i \in 1 .. Cardinality(S) : f[i] = x
  <2>1. ByRank(S, R, f)  BY <1>4, <1>5 DEF ByRank
  <2> QED BY <1>2, <2>1, Placed
<1>7. \A i, j \in 1 .. Cardinality(S) : i < j => f[i] < f[j]
  BY <1>1, <1>5, <1>6
<1> QED BY <1>5, <1>6, <1>7, FS_CardinalityType DEF f

-----------------------------------------------------------------------------
(* The order of the rows.                                                  *)

\* What a table may be told to sort by.
Lists == Seq(Columns \X {0, 1})

\* A list and its entries.
LEMMA OfList ==
  ASSUME NEW list \in Lists
  PROVE  /\ Len(list) \in Nat
         /\ \A i \in 1 .. Len(list) : /\ list[i] = <<list[i][1], list[i][2]>>
                                      /\ list[i][1] \in Columns /\ list[i][2] \in {0, 1}
  BY DEF Lists

\* A column tells rows apart exactly if their texts differ, and never turns
\* back.
LEMMA BeforeOrder ==
  ASSUME NEW c \in Columns, NEW d \in {0, 1}
  PROVE  /\ \A r, s \in Rows :
              Text[r][c] # Text[s][c] <=> Table!Before(r, s, c, d) \/ Table!Before(s, r, c, d)
         /\ \A r, s, t \in Rows :
              Table!Before(r, s, c, d) /\ Table!Before(s, t, c, d) => Table!Before(r, t, c, d)
<1>1. \A r \in Rows : Text[r][c] \in Nat  BY TableAssumption
<1>2. ASSUME NEW r \in Rows, NEW s \in Rows
      PROVE  Text[r][c] # Text[s][c] <=> Table!Before(r, s, c, d) \/ Table!Before(s, r, c, d)
  BY <1>1 DEF Table!Before, Table!SortText, Table!SortNatural
<1>3. ASSUME NEW r \in Rows, NEW s \in Rows, NEW t \in Rows,
             Table!Before(r, s, c, d), Table!Before(s, t, c, d)
      PROVE  Table!Before(r, t, c, d)
  BY <1>1, <1>3 DEF Table!Before, Table!SortText, Table!SortNatural
<1> QED BY <1>2, <1>3

\* The column that decides between two rows, if any does.
Decides(r, s, list, i) ==
  /\ \A k \in 1 .. i - 1 : Text[r][list[k][1]] = Text[s][list[k][1]]
  /\ Table!Before(r, s, list[i][1], list[i][2])

Same(r, s, list) == \A k \in 1 .. Len(list) : Text[r][list[k][1]] = Text[s][list[k][1]]

\* One row precedes another by the column that decides, or by its place.
LEMMA PrecedesIs ==
  ASSUME NEW r \in Rows, NEW s \in Rows, NEW list \in Lists
  PROVE  Table!Precedes(r, s, list) <=>
           \/ \E i \in 1 .. Len(list) : Decides(r, s, list, i)
           \/ Same(r, s, list) /\ r < s
  BY DEF Table!Precedes, Table!Ties, Decides, Same

\* Of two rows one precedes the other, by the first column whose texts differ.
LEMMA PrecedesTotal ==
  ASSUME NEW list \in Lists, NEW r \in Rows, NEW s \in Rows
  PROVE  /\ ~Table!Precedes(r, r, list)
         /\ r # s => Table!Precedes(r, s, list) \/ Table!Precedes(s, r, list)
<1>1. r \in Nat /\ s \in Nat  BY TableAssumption
<1>2. ~Table!Precedes(r, r, list)
  BY <1>1, OfList, BeforeOrder, PrecedesIs DEF Decides
<1>3. ASSUME r # s
      PROVE  Table!Precedes(r, s, list) \/ Table!Precedes(s, r, list)
  <2> DEFINE I == {k \in 1 .. Len(list) : Text[r][list[k][1]] # Text[s][list[k][1]]}
  <2>1. CASE I = {}
    <3>1. Same(r, s, list) /\ Same(s, r, list)  BY <2>1 DEF Same
    <3> QED BY <1>1, <1>3, <3>1, PrecedesIs
  <2>2. CASE I # {}
    <3>1. I \subseteq Nat  BY OfList
    <3>2. PICK i \in I : \A k \in I : i <= k
      <4> HIDE DEF I
      <4> QED BY <2>2, <3>1, LeastNat
    <3>3. i \in 1 .. Len(list) /\ Text[r][list[i][1]] # Text[s][list[i][1]]
      OBVIOUS
    <3>4. \A k \in 1 .. i - 1 : Text[r][list[k][1]] = Text[s][list[k][1]]
      BY <3>2, OfList
    <3>5. Table!Before(r, s, list[i][1], list[i][2]) \/ Table!Before(s, r, list[i][1], list[i][2])
      BY <3>3, OfList, BeforeOrder
    <3>6. Decides(r, s, list, i) \/ Decides(s, r, list, i)
      BY <3>4, <3>5 DEF Decides
    <3> QED BY <3>3, <3>6, PrecedesIs
  <2> QED BY <2>1, <2>2
<1> QED BY <1>2, <1>3

\* The earlier of the two columns that decide decides again.
LEMMA PrecedesTransitive ==
  ASSUME NEW list \in Lists, NEW r \in Rows, NEW s \in Rows, NEW t \in Rows,
         Table!Precedes(r, s, list), Table!Precedes(s, t, list)
  PROVE  Table!Precedes(r, t, list)
<1>1. r \in Nat /\ s \in Nat /\ t \in Nat  BY TableAssumption
<1>2. CASE Same(r, s, list) /\ r < s /\ Same(s, t, list) /\ s < t
  <2>1. Same(r, t, list)  BY <1>2 DEF Same
  <2> QED BY <1>1, <1>2, <2>1, PrecedesIs
<1>3. ASSUME NEW i \in 1 .. Len(list), Decides(r, s, list, i), Same(s, t, list)
      PROVE  Table!Precedes(r, t, list)
  <2>1. Text[s][list[i][1]] = Text[t][list[i][1]]  BY <1>3 DEF Same
  <2>2. \A k \in 1 .. i - 1 : Text[s][list[k][1]] = Text[t][list[k][1]]
    BY <1>3, OfList DEF Same
  <2>3. Table!Before(r, t, list[i][1], list[i][2])
    BY <1>3, <2>1 DEF Decides, Table!Before
  <2>4. Decides(r, t, list, i)  BY <1>3, <2>2, <2>3 DEF Decides
  <2> QED BY <2>4, PrecedesIs
<1>4. ASSUME NEW i \in 1 .. Len(list), Decides(s, t, list, i), Same(r, s, list)
      PROVE  Table!Precedes(r, t, list)
  <2>1. Text[s][list[i][1]] = Text[r][list[i][1]]  BY <1>4 DEF Same
  <2>2. \A k \in 1 .. i - 1 : Text[s][list[k][1]] = Text[r][list[k][1]]
    BY <1>4, OfList DEF Same
  <2>3. Table!Before(r, t, list[i][1], list[i][2])
    BY <1>4, <2>1 DEF Decides, Table!Before
  <2>4. Decides(r, t, list, i)  BY <1>4, <2>2, <2>3 DEF Decides
  <2> QED BY <2>4, PrecedesIs
<1>5. ASSUME NEW i \in 1 .. Len(list), Decides(r, s, list, i),
             NEW j \in 1 .. Len(list), Decides(s, t, list, j)
      PROVE  Table!Precedes(r, t, list)
  <2>1. i \in Nat /\ j \in Nat  BY OfList
  <2>2. CASE i < j
    <3>1. Text[s][list[i][1]] = Text[t][list[i][1]]  BY <1>5, <2>1, <2>2 DEF Decides
    <3>2. \A k \in 1 .. i - 1 : Text[r][list[k][1]] = Text[t][list[k][1]]
      BY <1>5, <2>1, <2>2 DEF Decides
    <3>3. Table!Before(r, t, list[i][1], list[i][2])
      BY <1>5, <3>1 DEF Decides, Table!Before
    <3> QED BY <3>2, <3>3, PrecedesIs DEF Decides
  <2>3. CASE j < i
    <3>1. Text[r][list[j][1]] = Text[s][list[j][1]]  BY <1>5, <2>1, <2>3 DEF Decides
    <3>2. \A k \in 1 .. j - 1 : Text[r][list[k][1]] = Text[t][list[k][1]]
      BY <1>5, <2>1, <2>3 DEF Decides
    <3>3. Table!Before(r, t, list[j][1], list[j][2])
      BY <1>5, <3>1 DEF Decides, Table!Before
    <3> QED BY <3>2, <3>3, PrecedesIs DEF Decides
  <2>4. CASE i = j
    <3>1. \A k \in 1 .. i - 1 : Text[r][list[k][1]] = Text[t][list[k][1]]
      BY <1>5, <2>4 DEF Decides
    <3>2. Table!Before(r, t, list[i][1], list[i][2])
      BY <1>5, <2>4, OfList, BeforeOrder DEF Decides
    <3> QED BY <3>1, <3>2, PrecedesIs DEF Decides
  <2> QED BY <2>1, <2>2, <2>3, <2>4
<1> QED BY <1>2, <1>3, <1>4, <1>5, PrecedesIs

\* The rows of the table, each once, in the order of the list.
LEMMA Sorted ==
  ASSUME NEW list \in Lists
  PROVE  /\ Cardinality(Rows) \in Nat
         /\ Table!multisort(list) \in [1 .. Cardinality(Rows) -> Rows]
         /\ \A i, j \in 1 .. Cardinality(Rows) : i < j =>
              Table!Precedes(Table!multisort(list)[i], Table!multisort(list)[j], list)
<1> DEFINE R == {p \in Rows \X Rows : Table!Precedes(p[1], p[2], list)}
           f == Table!multisort(list)
<1>1. \A x, y \in Rows : <<x, y>> \in R <=> Table!Precedes(x, y, list)  OBVIOUS
<1>2. IsFiniteSet(Rows)  BY TableAssumption
<1>3. Total(Rows, R)
  <2> HIDE DEF R
  <2> QED BY <1>1, PrecedesTotal, PrecedesTransitive DEF Total
<1>4. \A x \in Rows : Below(Rows, R, x) = {s \in Rows : Table!Precedes(s, x, list)}
  BY <1>1 DEF Below
<1>5. ASSUME NEW i \in 1 .. Cardinality(Rows)
      PROVE  f[i] \in Rows /\ Cardinality(Below(Rows, R, f[i])) = i - 1
  <2> HIDE DEF R
  <2>1. \E x \in Rows : Cardinality(Below(Rows, R, x)) = i - 1  BY <1>2, <1>3, Ranked
  <2>2. \E m \in Rows : Cardinality({s \in Rows : Table!Precedes(s, m, list)}) = i - 1
    BY <1>4, <2>1
  <2>3. f[i] = CHOOSE m \in Rows : Cardinality({s \in Rows : Table!Precedes(s, m, list)}) = i - 1
    BY SameCount DEF Table!multisort
  <2>4. f[i] \in Rows /\ Cardinality({s \in Rows : Table!Precedes(s, f[i], list)}) = i - 1
    <3> HIDE DEF f
    <3> QED BY ONLY <2>2, <2>3
  <2> QED BY <1>4, <2>4
<1>6. f \in [1 .. Cardinality(Rows) -> Rows]  BY <1>5, SameCount DEF Table!multisort
<1> HIDE DEF R, f
<1>7. \A i, j \in 1 .. Cardinality(Rows) : i < j => <<f[i], f[j]>> \in R
  <2>1. ByRank(Rows, R, f)  BY <1>5, <1>6 DEF ByRank
  <2> QED BY <1>2, <1>3, <2>1, Placed
<1>8. \A i, j \in 1 .. Cardinality(Rows) : i < j => Table!Precedes(f[i], f[j], list)
  BY <1>1, <1>6, <1>7
<1> QED BY <1>2, <1>6, <1>8, FS_CardinalityType DEF f

-----------------------------------------------------------------------------
(* The clicks.                                                             *)

\* A column is listed once, and the count of its header is its direction.
Fits(list, counts) ==
  /\ list \in Lists
  /\ \A i, j \in 1 .. Len(list) : list[i][1] = list[j][1] => i = j
  /\ counts \in [Columns -> {-1, 0, 1, 2}]
  /\ \A i \in 1 .. Len(list) : counts[list[i][1]] = list[i][2]

\* The place of a column that is listed.
LEMMA PlaceIs ==
  ASSUME NEW list \in Lists, NEW c, Table!Listed(c, list)
  PROVE  Table!PlaceOf(c, list) \in 1 .. Len(list) /\ list[Table!PlaceOf(c, list)][1] = c
  BY DEF Table!Listed, Table!PlaceOf

\* The directions in the order of a header are their own places in it.
LEMMA DirectionIs ==
  ASSUME NEW n \in {0, 1, 2}
  PROVE  Table!DirectionOf(n) = n
  BY DEF Table!DirectionOf, Table!order

\* A list that starts anew, or is emptied.
LEMMA FitsAlone ==
  ASSUME NEW counts \in [Columns -> {-1, 0, 1, 2}], NEW c \in Columns, NEW d \in {0, 1}
  PROVE  /\ Fits(<< <<c, d>> >>, [counts EXCEPT ![c] = d])
         /\ \A n \in {-1, 0, 1, 2} : Fits(<<>>, [counts EXCEPT ![c] = n])
<1> DEFINE one == << <<c, d>> >>
<1>1. one \in Lists /\ Len(one) = 1 /\ one[1] = <<c, d>> /\ <<>> \in Lists /\ Len(<<>>) = 0
  BY DEF Lists
<1>2. \A i \in 1 .. Len(one) : i = 1  BY <1>1
<1> HIDE DEF one
<1>3. Fits(one, [counts EXCEPT ![c] = d])  BY <1>1, <1>2 DEF Fits
<1>4. ASSUME NEW n \in {-1, 0, 1, 2} PROVE Fits(<<>>, [counts EXCEPT ![c] = n])
  BY <1>1 DEF Fits
<1> QED BY <1>3, <1>4 DEF one

\* A column joins the list.
LEMMA FitsAppend ==
  ASSUME NEW list, NEW counts, Fits(list, counts), NEW c \in Columns, NEW d \in {0, 1},
         ~Table!Listed(c, list)
  PROVE  Fits(Append(list, <<c, d>>), [counts EXCEPT ![c] = d])
<1> DEFINE more == Append(list, <<c, d>>)
<1>1. list \in Lists /\ Len(list) \in Nat  BY OfList DEF Fits
<1>2. /\ more \in Lists /\ Len(more) = Len(list) + 1 /\ more[Len(more)] = <<c, d>>
      /\ \A i \in 1 .. Len(list) : more[i] = list[i]
  BY <1>1 DEF Lists
<1>3. \A i \in 1 .. Len(list) : list[i][1] # c /\ list[i][1] \in Columns
  BY <1>1, OfList DEF Table!Listed
<1> HIDE DEF more
<1>4. \A i \in 1 .. Len(more) :
        \/ i \in 1 .. Len(list) /\ more[i] = list[i]
        \/ i = Len(more) /\ more[i] = <<c, d>>
  BY <1>1, <1>2
<1>5. \A i, j \in 1 .. Len(more) : more[i][1] = more[j][1] => i = j
  BY <1>3, <1>4 DEF Fits
<1>6. \A i \in 1 .. Len(more) : [counts EXCEPT ![c] = d][more[i][1]] = more[i][2]
  BY <1>3, <1>4 DEF Fits
<1>7. [counts EXCEPT ![c] = d] \in [Columns -> {-1, 0, 1, 2}]  BY DEF Fits
<1> QED BY <1>2, <1>5, <1>6, <1>7 DEF Fits, more

\* A column of the list is given a direction.
LEMMA FitsReplace ==
  ASSUME NEW list, NEW counts, Fits(list, counts), NEW c \in Columns, NEW d \in {0, 1},
         NEW i \in 1 .. Len(list), list[i][1] = c
  PROVE  Fits([list EXCEPT ![i] = <<c, d>>], [counts EXCEPT ![c] = d])
<1> DEFINE new == [list EXCEPT ![i] = <<c, d>>]
<1>1. list \in Seq(Columns \X {0, 1})  BY DEF Fits, Lists
<1>2. <<c, d>> \in Columns \X {0, 1}  OBVIOUS
<1>3. /\ new \in Lists /\ Len(new) = Len(list)
      /\ \A j \in 1 .. Len(list) : new[j] = IF j = i THEN <<c, d>> ELSE list[j]
  BY ONLY <1>1, <1>2, i \in 1 .. Len(list), ExceptSeq DEF Lists
<1> HIDE DEF new
<1>4. \A j \in 1 .. Len(new) : new[j][1] = list[j][1]
  BY <1>3
<1>5. \A j, k \in 1 .. Len(new) : new[j][1] = new[k][1] => j = k
  BY <1>3, <1>4 DEF Fits
<1>6. \A j \in 1 .. Len(new) : j # i => list[j][1] # c /\ list[j][1] \in Columns
  BY <1>1, <1>3, OfList DEF Fits, Lists
<1>7. \A j \in 1 .. Len(new) : [counts EXCEPT ![c] = d][new[j][1]] = new[j][2]
  BY <1>3, <1>6 DEF Fits
<1>8. [counts EXCEPT ![c] = d] \in [Columns -> {-1, 0, 1, 2}]  BY DEF Fits
<1> QED BY <1>3, <1>5, <1>7, <1>8 DEF Fits, new

\* A column leaves the list.
LEMMA FitsRemove ==
  ASSUME NEW list, NEW counts, Fits(list, counts), NEW c \in Columns,
         NEW i \in 1 .. Len(list), list[i][1] = c
  PROVE  Fits(Table!RemoveAt(list, i), [counts EXCEPT ![c] = -1])
<1> DEFINE E == Columns \X {0, 1}
           front == SubSeq(list, 1, i - 1)
           back == SubSeq(list, i + 1, Len(list))
           new == front \o back
<1>1. list \in Lists /\ Len(list) \in Nat /\ i \in Int  BY OfList DEF Fits
<1>2. \A j \in 1 .. Len(list) : list[j] \in E  BY <1>1 DEF Lists
<1>3. /\ front \in Seq(E) /\ Len(front) = i - 1
      /\ \A j \in 1 .. i - 1 : front[j] = list[j]
  <2>1. \A j \in 1 .. i - 1 : list[j] \in E  BY <1>1, <1>2
  <2>2. /\ front \in Seq(E)
        /\ Len(front) = IF 1 <= i - 1 THEN (i - 1) - 1 + 1 ELSE 0
        /\ \A j \in 1 .. (i - 1) - 1 + 1 : front[j] = list[1 + j - 1]
    <3>1. 1 \in Int /\ i - 1 \in Int  BY <1>1
    <3> HIDE DEF E
    <3> QED BY ONLY <2>1, <3>1, SubSeqProperties
  <2> HIDE DEF E, front
  <2> QED BY <1>1, <2>2
<1>4. /\ back \in Seq(E) /\ Len(back) = Len(list) - i
      /\ \A j \in 1 .. Len(list) - i : back[j] = list[i + j]
  <2>1. \A j \in i + 1 .. Len(list) : list[j] \in E  BY <1>1, <1>2
  <2>2. /\ back \in Seq(E)
        /\ Len(back) = IF i + 1 <= Len(list) THEN Len(list) - (i + 1) + 1 ELSE 0
        /\ \A j \in 1 .. Len(list) - (i + 1) + 1 : back[j] = list[(i + 1) + j - 1]
    <3>1. i + 1 \in Int /\ Len(list) \in Int  BY <1>1
    <3> HIDE DEF E
    <3> QED BY ONLY <2>1, <3>1, SubSeqProperties
  <2> HIDE DEF E, back
  <2> QED BY <1>1, <2>2
<1>5. /\ new \in Seq(E) /\ Len(new) = Len(front) + Len(back)
      /\ \A j \in 1 .. Len(front) + Len(back) :
           new[j] = IF j <= Len(front) THEN front[j] ELSE back[j - Len(front)]
  <2> HIDE DEF E, front, back
  <2> QED BY ONLY <1>3, <1>4, ConcatProperties
<1> DEFINE old(j) == IF j < i THEN j ELSE j + 1
<1> HIDE DEF E, front, back, new
<1>6. Len(new) = Len(list) - 1  BY <1>1, <1>3, <1>4, <1>5
<1>7. ASSUME NEW j \in 1 .. Len(new)
      PROVE  old(j) \in 1 .. Len(list) /\ old(j) # i /\ new[j] = list[old(j)]
  <2>1. j \in 1 .. Len(front) + Len(back)  BY <1>5
  <2>2. CASE j < i
    <3>1. j <= Len(front) /\ j \in 1 .. i - 1  BY <1>1, <1>3, <2>2
    <3>2. new[j] = list[j]  BY <1>3, <1>5, <2>1, <3>1
    <3> QED BY <1>1, <1>6, <2>2, <3>2
  <2>3. CASE ~(j < i)
    <3>1. ~(j <= Len(front)) /\ j - Len(front) \in 1 .. Len(list) - i
          /\ i + (j - Len(front)) = j + 1
      BY <1>1, <1>3, <1>6, <2>3
    <3>2. new[j] = list[j + 1]  BY <1>4, <1>5, <2>1, <3>1
    <3> QED BY <1>1, <1>6, <2>3, <3>2
  <2> QED BY <2>2, <2>3
<1>8. ASSUME NEW j \in 1 .. Len(new), NEW k \in 1 .. Len(new), new[j][1] = new[k][1]
      PROVE  j = k
  <2>1. PICK a \in 1 .. Len(list) : a = old(j) /\ new[j] = list[a]  BY <1>7
  <2>2. PICK b \in 1 .. Len(list) : b = old(k) /\ new[k] = list[b]  BY <1>7
  <2>3. a = b  BY <1>8, <2>1, <2>2 DEF Fits
  <2> QED BY <1>1, <1>6, <2>1, <2>2, <2>3
<1>9. ASSUME NEW j \in 1 .. Len(new)
      PROVE  [counts EXCEPT ![c] = -1][new[j][1]] = new[j][2]
  <2>1. PICK k \in 1 .. Len(list) : k # i /\ new[j] = list[k]  BY <1>7
  <2>2. list[k][1] # c /\ list[k][1] \in Columns  BY <1>1, <2>1, OfList DEF Fits
  <2> QED BY <2>1, <2>2 DEF Fits
<1>10. [counts EXCEPT ![c] = -1] \in [Columns -> {-1, 0, 1, 2}]  BY DEF Fits
<1>11. new \in Lists  BY <1>5 DEF E, Lists
<1>12. Fits(new, [counts EXCEPT ![c] = -1])  BY <1>8, <1>9, <1>10, <1>11 DEF Fits
<1> QED BY <1>12 DEF new, front, back, Table!RemoveAt

-----------------------------------------------------------------------------
(* The table.                                                              *)

\* As soon as no timer waits, the marks, the labels and the rows are those of
\* the list.
TableInv ==
  /\ Fits(sortList, count)
  /\ timers \in Nat
  /\ timers = 0 => /\ marks = Table!MarksOf(sortList)
                   /\ announced = Table!LabelsOf(count)
                   /\ body = Table!multisort(sortList)

\* The table as the page sets it up.
LEMMA TableInit == Table!Init => TableInv
<1> SUFFICES ASSUME Table!Init PROVE TableInv  OBVIOUS
<1>1. SortList \in Lists  BY TableAssumption DEF Lists
<1>2. \A i \in 1 .. Len(SortList) :
        /\ Table!Listed(SortList[i][1], SortList)
        /\ SortList[i][1] \in Columns /\ SortList[i][2] \in {0, 1}
        /\ Table!PlaceOf(SortList[i][1], SortList) = i
  <2> SUFFICES ASSUME NEW i \in 1 .. Len(SortList)
               PROVE  /\ Table!Listed(SortList[i][1], SortList)
                      /\ SortList[i][1] \in Columns /\ SortList[i][2] \in {0, 1}
                      /\ Table!PlaceOf(SortList[i][1], SortList) = i
    OBVIOUS
  <2>1. Table!Listed(SortList[i][1], SortList)  BY DEF Table!Listed
  <2>2. Table!PlaceOf(SortList[i][1], SortList) = i
    BY <1>1, <2>1, PlaceIs, TableAssumption
  <2> QED BY <1>1, <2>1, <2>2, OfList
<1>3. count = [c \in Columns |-> IF Table!Listed(c, SortList)
                 THEN SortList[Table!PlaceOf(c, SortList)][2] ELSE -1]
  BY DEF Table!Init, Table!updateHeaderSortCount
<1>4. \A c \in Columns : Table!Listed(c, SortList) =>
        SortList[Table!PlaceOf(c, SortList)][2] \in {0, 1}
  BY <1>1, PlaceIs, OfList
<1>5. count \in [Columns -> {-1, 0, 1, 2}]  BY <1>3, <1>4
<1>6. \A i \in 1 .. Len(SortList) : count[SortList[i][1]] = SortList[i][2]
  BY <1>2, <1>3
<1>7. Fits(SortList, count)  BY <1>1, <1>5, <1>6, TableAssumption DEF Fits
<1> QED BY <1>7 DEF TableInv, Table!Init

\* A click without the key for several columns.
LEMMA SingleSortFits ==
  ASSUME Fits(sortList, count), NEW c \in Columns, NEW ctrl \in BOOLEAN,
         Table!SingleSort(c, ctrl)
  PROVE  Fits(sortList', count')
<1> DEFINE n == Table!NextCount(c, ctrl)
<1>1. count \in [Columns -> {-1, 0, 1, 2}]  BY DEF Fits
<1>2. n = IF ctrl THEN 2 ELSE (count[c] + 1) % 2  BY DEF Table!NextCount
<1>3. n \in {0, 1, 2}
  <2>1. count[c] + 1 \in Nat  BY <1>1
  <2>2. (count[c] + 1) % 2 \in {0, 1}  BY <2>1
  <2> QED BY <1>2, <2>2
<1>4. Table!DirectionOf(n) = n  BY <1>3, DirectionIs
<1>5. /\ sortList' = IF n < 2 THEN << <<c, n>> >> ELSE <<>>
      /\ count' = [count EXCEPT ![c] = n]
  BY <1>4 DEF Table!SingleSort
<1> HIDE DEF n
<1>6. CASE n \in {0, 1}  BY <1>1, <1>5, <1>6, FitsAlone
<1>7. CASE n = 2
  <2>1. sortList' = <<>> /\ count' = [count EXCEPT ![c] = 2]  BY <1>5, <1>7
  <2>2. Fits(<<>>, [count EXCEPT ![c] = 2])  BY <1>1, FitsAlone
  <2> QED BY ONLY <2>1, <2>2
<1> QED BY <1>3, <1>6, <1>7

\* A click with it.
LEMMA MultiSortFits ==
  ASSUME Fits(sortList, count), NEW c \in Columns, NEW ctrl \in BOOLEAN,
         Table!MultiSort(c, ctrl)
  PROVE  Fits(sortList', count')
<1> DEFINE n == Table!NextCount(c, ctrl)
           i == Table!PlaceOf(c, sortList)
<1>1. count \in [Columns -> {-1, 0, 1, 2}] /\ sortList \in Lists  BY DEF Fits
<1>2. n = IF ctrl THEN 2 ELSE (count[c] + 1) % 2  BY DEF Table!NextCount
<1>3. n \in {0, 1, 2}
  <2>1. count[c] + 1 \in Nat  BY <1>1
  <2>2. (count[c] + 1) % 2 \in {0, 1}  BY <2>1
  <2> QED BY <1>2, <2>2
<1>4. Table!DirectionOf(n) = n  BY <1>3, DirectionIs
<1>5. CASE Table!Listed(c, sortList)
  <2>1. i \in 1 .. Len(sortList) /\ sortList[i][1] = c  BY <1>1, <1>5, PlaceIs
  <2>2. /\ sortList' = IF n = 2 THEN Table!RemoveAt(sortList, i)
                                ELSE [sortList EXCEPT ![i] = <<c, n>>]
        /\ count' = [count EXCEPT ![c] = IF n = 2 THEN -1 ELSE n]
    BY <1>4, <1>5 DEF Table!MultiSort
  <2> HIDE DEF n, i
  <2>3. CASE n = 2
    <3>1. sortList' = Table!RemoveAt(sortList, i) /\ count' = [count EXCEPT ![c] = -1]
      BY <2>2, <2>3
    <3>2. Fits(Table!RemoveAt(sortList, i), [count EXCEPT ![c] = -1])  BY <2>1, FitsRemove
    <3> QED BY ONLY <3>1, <3>2
  <2>4. CASE n \in {0, 1}
    <3>1. sortList' = [sortList EXCEPT ![i] = <<c, n>>] /\ count' = [count EXCEPT ![c] = n]
      <4>1. n # 2 /\ (IF n = 2 THEN -1 ELSE n) = n  BY <2>4
      <4> QED BY <2>2, <4>1, Zenon
    <3>2. Fits([sortList EXCEPT ![i] = <<c, n>>], [count EXCEPT ![c] = n])
      BY <2>1, <2>4, FitsReplace
    <3> QED BY ONLY <3>1, <3>2
  <2> QED BY <1>3, <2>3, <2>4
<1>6. CASE ~Table!Listed(c, sortList)
  <2>1. /\ sortList' = IF n < 2 THEN Append(sortList, <<c, n>>) ELSE sortList
        /\ count' = [count EXCEPT ![c] = n]
    BY <1>4, <1>6 DEF Table!MultiSort
  <2> HIDE DEF n
  <2>2. CASE n \in {0, 1}
    <3>1. sortList' = Append(sortList, <<c, n>>) /\ count' = [count EXCEPT ![c] = n]
      BY <2>1, <2>2
    <3>2. Fits(Append(sortList, <<c, n>>), [count EXCEPT ![c] = n])
      BY <1>6, <2>2, FitsAppend
    <3> QED BY ONLY <3>1, <3>2
  <2>3. CASE n = 2
    <3>1. sortList' = sortList /\ count' = [count EXCEPT ![c] = 2]  BY <2>1, <2>3
    <3>2. \A j \in 1 .. Len(sortList) : sortList[j][1] # c /\ sortList[j][1] \in Columns
      BY <1>1, <1>6, OfList DEF Table!Listed
    <3> QED BY <3>1, <3>2 DEF Fits
  <2> QED BY <1>3, <2>2, <2>3
<1> QED BY <1>5, <1>6

\* No step of the pages breaks what the table keeps.
LEMMA TableStep == TableInv /\ [PagesNext]_<<part, vars, choice, table>> => TableInv'
<1> SUFFICES ASSUME TableInv, [PagesNext]_<<part, vars, choice, table>> PROVE TableInv'
  OBVIOUS
<1>1. ASSUME UNCHANGED table PROVE TableInv'
  <2>1. UNCHANGED <<sortList, count, marks, announced, body, timers>>  BY <1>1 DEF table
  <2> QED BY <2>1 DEF TableInv
<1>2. ASSUME NEW c \in Columns, NEW shift \in BOOLEAN, NEW ctrl \in BOOLEAN,
             Table!initSort(c, shift, ctrl)
      PROVE  TableInv'
  <2>1. Fits(sortList', count')
    BY <1>2, SingleSortFits, MultiSortFits DEF TableInv, Table!initSort
  <2>2. timers' = timers + 1  BY <1>2 DEF Table!initSort
  <2>3. timers' \in Nat /\ timers' # 0  BY <2>2 DEF TableInv
  <2> QED BY <2>1, <2>3 DEF TableInv
<1>3. ASSUME Table!Timer PROVE TableInv'
  BY <1>3 DEF TableInv, Table!Timer, Table!setHeadersCss, Table!appendToTable
<1>4. ASSUME Table!Status PROVE TableInv'
  BY <1>4 DEF TableInv, Table!Status
<1>5. PagesNext => UNCHANGED table \/ Table!Next
  BY DEF PagesNext
<1> QED BY <1>1, <1>2, <1>3, <1>4, <1>5 DEF Table!Next

\* As soon as no timer waits the rows stand as the marks on the headers say.
LEMMA MarkedByInv == TableInv => Table!RowsAsMarked
<1> SUFFICES ASSUME TableInv, timers = 0,
                    NEW i \in 1 .. Len(body), NEW j \in 1 .. Len(body), i < j
             PROVE  LET marked == {c \in Columns : marks[c] # 2} IN
                    /\ marked = {} => body[i] < body[j]
                    /\ \A c \in Columns : marked = {c} =>
                         LET a == Text[body[i]][c]
                             b == Text[body[j]][c]
                         IN  IF a = b THEN body[i] < body[j]
                             ELSE IF 0 \in {a, b} /\ c \notin Plain THEN b = 0
                             ELSE IF marks[c] = 0 THEN a < b ELSE b < a
  BY DEF Table!RowsAsMarked
<1>1. /\ sortList \in Lists /\ Len(sortList) \in Nat
      /\ marks = Table!MarksOf(sortList) /\ body = Table!multisort(sortList)
  BY OfList DEF TableInv, Fits
<1>2. /\ body[i] \in Rows /\ body[j] \in Rows
      /\ Table!Precedes(body[i], body[j], sortList)
  <2>1. /\ Cardinality(Rows) \in Nat
        /\ body \in [1 .. Cardinality(Rows) -> Rows]
        /\ \A k, l \in 1 .. Cardinality(Rows) : k < l => Table!Precedes(body[k], body[l], sortList)
    BY <1>1, Sorted
  <2>2. Len(body) = Cardinality(Rows)  BY ONLY <2>1
  <2> QED BY <2>1, <2>2
<1>3. \A c \in Columns : marks[c] =
        IF Table!Listed(c, sortList) THEN sortList[Table!PlaceOf(c, sortList)][2] ELSE 2
  BY <1>1 DEF Table!MarksOf
<1>4. \A k \in 1 .. Len(sortList) :
        /\ sortList[k][1] \in Columns /\ sortList[k][2] \in {0, 1}
        /\ marks[sortList[k][1]] = sortList[k][2]
  <2> SUFFICES ASSUME NEW k \in 1 .. Len(sortList)
               PROVE  /\ sortList[k][1] \in Columns /\ sortList[k][2] \in {0, 1}
                      /\ marks[sortList[k][1]] = sortList[k][2]
    OBVIOUS
  <2>1. Table!Listed(sortList[k][1], sortList)  BY DEF Table!Listed
  <2>2. Table!PlaceOf(sortList[k][1], sortList) = k
    BY <1>1, <2>1, PlaceIs DEF TableInv, Fits
  <2> QED BY <1>1, <1>3, <2>1, <2>2, OfList
<1>5. body[i] \in Nat /\ body[j] \in Nat  BY <1>2, TableAssumption
<1> DEFINE marked == {c \in Columns : marks[c] # 2}
<1>6. ASSUME marked = {} PROVE body[i] < body[j]
  <2>1. \A k \in 1 .. Len(sortList) : FALSE  BY <1>4, <1>6
  <2> QED BY <1>1, <1>2, <2>1, PrecedesIs
<1>7. ASSUME NEW c \in Columns, marked = {c}
      PROVE  LET a == Text[body[i]][c]
                 b == Text[body[j]][c]
             IN  IF a = b THEN body[i] < body[j]
                 ELSE IF 0 \in {a, b} /\ c \notin Plain THEN b = 0
                 ELSE IF marks[c] = 0 THEN a < b ELSE b < a
  <2>1. \A k \in 1 .. Len(sortList) : sortList[k][1] = c  BY <1>4, <1>7
  <2>2. Table!Listed(c, sortList)  BY <1>3, <1>7
  <2>3. 1 \in 1 .. Len(sortList) /\ sortList[1] = <<c, marks[c]>> /\ marks[c] \in {0, 1}
    BY <1>1, <1>4, <2>1, <2>2, OfList DEF Table!Listed
  <2>4. \A k \in 1 .. Len(sortList) : k = 1
    BY <2>1, <2>3 DEF TableInv, Fits
  <2>5. \/ Table!Before(body[i], body[j], c, marks[c])
        \/ Text[body[i]][c] = Text[body[j]][c] /\ body[i] < body[j]
    BY <1>1, <1>2, <2>3, <2>4, PrecedesIs DEF Decides, Same
  <2>6. Text[body[i]][c] \in Nat /\ Text[body[j]][c] \in Nat  BY <1>2, TableAssumption
  <2>7. Table!Before(body[i], body[j], c, marks[c]) => Text[body[i]][c] # Text[body[j]][c]
    BY <1>2, <2>3, BeforeOrder
  <2> QED BY <2>3, <2>5, <2>6, <2>7 DEF Table!Before, Table!SortText, Table!SortNatural
<1> QED BY <1>6, <1>7

\* A click on a header does what its label announced.
LEMMA ClickByInv ==
  ASSUME TableInv, timers = 0, NEW c \in Columns, Table!initSort(c, FALSE, FALSE)
  PROVE  /\ sortList' = << <<c, announced[c]>> >>
         /\ marks[c] # 2 => announced[c] # marks[c]
<1>1. count \in [Columns -> {-1, 0, 1, 2}] /\ sortList \in Lists
  BY DEF TableInv, Fits
<1> DEFINE n == (count[c] + 1) % 2
<1>2. n \in {0, 1}
  <2>1. count[c] + 1 \in Nat  BY <1>1
  <2> QED BY <2>1
<1>3. Table!DirectionOf(n) = n  BY <1>2, DirectionIs
<1>4. announced[c] = n  BY <1>3 DEF TableInv, Table!LabelsOf
<1>5. sortList' = << <<c, n>> >>
  BY <1>2, <1>3 DEF Table!initSort, Table!SingleSort, Table!NextCount
<1>6. ASSUME marks[c] # 2 PROVE n # marks[c]
  <2>1. /\ Table!Listed(c, sortList)
        /\ marks[c] = sortList[Table!PlaceOf(c, sortList)][2]
    BY <1>6 DEF TableInv, Table!MarksOf
  <2>2. marks[c] = count[c] /\ marks[c] \in {0, 1}
    BY <1>1, <2>1, PlaceIs, OfList DEF TableInv, Fits
  <2> QED BY <2>2
<1> QED BY <1>4, <1>5, <1>6

-----------------------------------------------------------------------------
(* The choice of images.                                                   *)

Offered == {Values[o] : o \in Choice!Options}

\* No entry of the list is the same value as another that is w.
Once(list, w) == \A i, j \in 1 .. Len(list) : list[i] = w /\ list[j] = w => i = j

\* What is left without a value: all the others, as often as before.
LEMMA WithoutWhole ==
  ASSUME NEW E, NEW list \in Seq(E), NEW v
  PROVE  /\ Choice!Without(list, v) \in Seq(E)
         /\ Choice!ToSet(Choice!Without(list, v)) = Choice!ToSet(list) \ {v}
         /\ \A w : Once(list, w) => Once(Choice!Without(list, v), w)
<1> DEFINE kept == {i \in 1 .. Len(list) : list[i] # v}
           n == Cardinality(kept)
           a == Choice!Ascending(kept)
           new == Choice!Without(list, v)
<1>1. /\ Len(list) \in Nat /\ DOMAIN list = 1 .. Len(list)
      /\ \A i \in 1 .. Len(list) : list[i] \in E
  OBVIOUS
<1>2. kept \in SUBSET Nat /\ IsFiniteSet(kept)
  <2>1. IsFiniteSet(1 .. Len(list))  BY <1>1, FS_Interval
  <2>2. kept \in SUBSET (1 .. Len(list))  OBVIOUS
  <2> QED BY <1>1, <2>1, <2>2, FS_Subset
<1>3. /\ n \in Nat /\ a \in [1 .. n -> kept]
      /\ \A i, j \in 1 .. n : i < j => a[i] < a[j]
      /\ \A x \in kept : \E i \in 1 .. n : a[i] = x
  <2> HIDE DEF kept
  <2> QED BY <1>2, AscendingWhole
<1>4. new = [i \in 1 .. n |-> list[a[i]]]
  BY SameCount DEF Choice!Without
<1> HIDE DEF n, a, new
<1>5. \A i \in 1 .. n : a[i] \in 1 .. Len(list) /\ list[a[i]] # v /\ new[i] = list[a[i]]
  BY <1>3, <1>4
<1>6. new \in Seq(E) /\ Len(new) = n /\ DOMAIN new = 1 .. n
  BY <1>1, <1>3, <1>4, <1>5
<1>7. Choice!ToSet(new) = Choice!ToSet(list) \ {v}
  <2>1. ASSUME NEW i \in 1 .. n PROVE new[i] \in Choice!ToSet(list) \ {v}
    BY <1>1, <1>5 DEF Choice!ToSet
  <2>2. ASSUME NEW k \in 1 .. Len(list), list[k] # v PROVE \E i \in 1 .. n : new[i] = list[k]
    BY <1>3, <1>5, <2>2
  <2>3. \A x \in Choice!ToSet(list) : \E k \in 1 .. Len(list) : x = list[k]
    BY <1>1 DEF Choice!ToSet
  <2>4. \A x \in Choice!ToSet(list) \ {v} : \E i \in 1 .. n : new[i] = x
    BY <2>2, <2>3
  <2>5. Choice!ToSet(new) = {new[i] : i \in 1 .. n}  BY <1>6 DEF Choice!ToSet
  <2> QED BY <2>1, <2>4, <2>5
<1>8. ASSUME NEW w, Once(list, w), NEW i \in 1 .. n, NEW j \in 1 .. n, new[i] = w, new[j] = w
      PROVE  i = j
  <2>1. a[i] = a[j]  BY <1>5, <1>8 DEF Once
  <2>2. a[i] \in Nat /\ a[j] \in Nat /\ i \in Nat /\ j \in Nat  BY <1>1, <1>5
  <2> QED BY <1>3, <2>1, <2>2
<1> QED BY <1>6, <1>7, <1>8 DEF Once, new

\* One value more at the end of a list.
LEMMA AppendWhole ==
  ASSUME NEW E, NEW list \in Seq(E), NEW v \in E
  PROVE  /\ Append(list, v) \in Seq(E)
         /\ Choice!ToSet(Append(list, v)) = Choice!ToSet(list) \cup {v}
         /\ \A w : w # v /\ Once(list, w) => Once(Append(list, v), w)
         /\ v \notin Choice!ToSet(list) => Once(Append(list, v), v)
<1> DEFINE new == Append(list, v)
           n == Len(list)
<1>1. /\ n \in Nat /\ DOMAIN list = 1 .. n
      /\ new \in Seq(E) /\ DOMAIN new = 1 .. n + 1 /\ Len(new) = n + 1
      /\ (\A i \in 1 .. n : new[i] = list[i]) /\ new[n + 1] = v
  OBVIOUS
<1> HIDE DEF new, n
<1>2. \A i \in 1 .. n + 1 : i \in 1 .. n \/ i = n + 1  BY <1>1
<1>3. 1 .. n \subseteq 1 .. n + 1 /\ n + 1 \in 1 .. n + 1  BY <1>1
<1>4. Choice!ToSet(new) = Choice!ToSet(list) \cup {v}
  BY <1>1, <1>2, <1>3 DEF Choice!ToSet
<1>5. ASSUME NEW w, w # v, Once(list, w) PROVE Once(new, w)
  BY <1>1, <1>2, <1>5 DEF Once, n
<1>6. ASSUME v \notin Choice!ToSet(list) PROVE Once(new, v)
  <2>1. \A i \in 1 .. n : new[i] # v  BY <1>1, <1>6 DEF Choice!ToSet
  <2> QED BY <1>1, <1>2, <2>1 DEF Once
<1> QED BY <1>1, <1>4, <1>5, <1>6 DEF new

\* The four kinds of record agree, and hold nothing that is not offered.
ChoiceInv ==
  /\ selected \subseteq Choice!Options /\ checked \subseteq Choice!Options
  /\ field \in Seq(Offered)
  /\ Choice!FieldIsSelection

\* Nothing is chosen at first.
LEMMA ChoiceInit == Choice!Init => ChoiceInv
<1> SUFFICES ASSUME Choice!Init PROVE ChoiceInv  OBVIOUS
<1>1. selected = {} /\ checked = {} /\ field = <<>> /\ shown = <<>>  BY DEF Choice!Init
<1>2. Choice!ToSet(field) = {}  BY <1>1 DEF Choice!ToSet
<1> QED BY <1>1, <1>2 DEF ChoiceInv, Choice!FieldIsSelection

\* One value comes: o is checked, and every option of its value selected.
LEMMA ChangeOn ==
  ASSUME ChoiceInv, NEW o \in Choice!Options, o \notin checked, Choice!Change(o)
  PROVE  ChoiceInv'
<1> DEFINE v == Values[o]
<1>1. /\ checked' = checked \cup {o} /\ selected' = selected \cup Choice!getOptionByValue(v)
      /\ field' = Append(field, v) /\ shown' = Append(field, v)
  BY DEF Choice!Change, Choice!onChange, Choice!toggleValue
<1>2. /\ Append(field, v) \in Seq(Offered)
      /\ Choice!ToSet(Append(field, v)) = Choice!ToSet(field) \cup {v}
      /\ \A w : w # v /\ Once(field, w) => Once(Append(field, v), w)
      /\ v \notin Choice!ToSet(field) => Once(Append(field, v), v)
  <2>1. v \in Offered  BY DEF Offered
  <2> HIDE DEF v
  <2> QED BY <2>1, AppendWhole DEF ChoiceInv
<1>3. Choice!getOptionByValue(v) = {p \in Choice!Options : Values[p] = v}
      /\ o \in Choice!getOptionByValue(v)
  BY DEF Choice!getOptionByValue
<1>4. Choice!ToSet(field)' = {Values[p] : p \in selected'}
  <2>1. Choice!ToSet(field)' = {Values[p] : p \in selected} \cup {v}
    <3>1. Choice!ToSet(field)' = Choice!ToSet(Append(field, v))
      BY <1>1 DEF Choice!ToSet
    <3> QED BY ONLY <1>2, <3>1, ChoiceInv DEF ChoiceInv, Choice!FieldIsSelection
  <2>2. {Values[p] : p \in selected'} = {Values[p] : p \in selected} \cup {v}
    BY <1>1, <1>3
  <2> QED BY <2>1, <2>2
<1>5. ASSUME NEW p \in Choice!Options, Choice!getOptionByValue(Values[p]) = {p}
      PROVE  (p \in checked' <=> p \in selected') /\ Once(field', Values[p])
  <2>1. (p \in checked <=> p \in selected) /\ Once(field, Values[p])
    BY <1>5 DEF ChoiceInv, Choice!FieldIsSelection, Once
  <2>2. CASE p = o
    <3>1. p \in checked' /\ p \in selected'  BY <1>1, <1>3, <2>2
    <3>2. \A q \in selected : Values[q] # v
      BY <1>5, <2>1, <2>2 DEF ChoiceInv, Choice!getOptionByValue
    <3>3. v \notin Choice!ToSet(field)
      BY <3>2 DEF ChoiceInv, Choice!FieldIsSelection
    <3>4. Once(field', v)  BY <1>1, <1>2, <3>3
    <3> QED BY <2>2, <3>1, <3>4
  <2>3. CASE p # o
    <3>1. Values[p] # v
      BY <1>5, <2>3 DEF Choice!getOptionByValue
    <3> QED BY <1>1, <1>2, <1>3, <2>1, <2>3, <3>1
  <2> QED BY <2>2, <2>3
<1>6. selected' \subseteq Choice!Options /\ checked' \subseteq Choice!Options
  BY <1>1, <1>3 DEF ChoiceInv
<1> QED BY <1>1, <1>2, <1>4, <1>5, <1>6 DEF ChoiceInv, Choice!FieldIsSelection, Once

\* One value leaves: all its options, and the checkboxes C, among them the one
\* of every option that is alone with it.
LEMMA ValueLeaves ==
  ASSUME ChoiceInv, NEW v, NEW C,
         C \subseteq Choice!getOptionByValue(v),
         \A p \in Choice!Options : Choice!getOptionByValue(v) = {p} => p \in C,
         checked' = checked \ C,
         selected' = selected \ Choice!getOptionByValue(v),
         Choice!onChange(v, FALSE)
  PROVE  ChoiceInv'
<1>1. field' = Choice!Without(field, v) /\ shown' = Choice!Without(field, v)
  BY DEF Choice!onChange, Choice!toggleValue
<1>2. /\ field' \in Seq(Offered)
      /\ Choice!ToSet(field') = Choice!ToSet(field) \ {v}
      /\ \A w : Once(field, w) => Once(field', w)
  <2>1. field \in Seq(Offered)  BY DEF ChoiceInv
  <2> QED BY ONLY <1>1, <2>1, WithoutWhole
<1>3. Choice!getOptionByValue(v) = {p \in Choice!Options : Values[p] = v}
  BY DEF Choice!getOptionByValue
<1>4. Choice!ToSet(field)' = {Values[p] : p \in selected'}
  <2>1. Choice!ToSet(field)' = {Values[p] : p \in selected} \ {v}
    <3>1. Choice!ToSet(field)' = Choice!ToSet(field')  BY DEF Choice!ToSet
    <3> QED BY ONLY <1>2, <3>1, ChoiceInv DEF ChoiceInv, Choice!FieldIsSelection
  <2>2. {Values[p] : p \in selected'} = {Values[p] : p \in selected} \ {v}
    BY <1>3 DEF ChoiceInv
  <2> QED BY <2>1, <2>2
<1>5. ASSUME NEW p \in Choice!Options, Choice!getOptionByValue(Values[p]) = {p}
      PROVE  (p \in checked' <=> p \in selected') /\ Once(field', Values[p])
  <2>1. (p \in checked <=> p \in selected) /\ Once(field, Values[p])
    BY <1>5 DEF ChoiceInv, Choice!FieldIsSelection, Once
  <2>2. Values[p] = v => p \in C  BY <1>5
  <2>3. p \in C => Values[p] = v  BY <1>3
  <2> QED BY <1>2, <1>3, <2>1, <2>2, <2>3
<1>6. selected' \subseteq Choice!Options /\ checked' \subseteq Choice!Options
  BY DEF ChoiceInv
<1> QED BY <1>1, <1>2, <1>4, <1>5, <1>6 DEF ChoiceInv, Choice!FieldIsSelection, Once

\* No step of the pages breaks what the choice keeps.
LEMMA ChoiceStep == ChoiceInv /\ [PagesNext]_<<part, vars, choice, table>> => ChoiceInv'
<1> SUFFICES ASSUME ChoiceInv, [PagesNext]_<<part, vars, choice, table>> PROVE ChoiceInv'
  OBVIOUS
<1>1. ASSUME UNCHANGED choice PROVE ChoiceInv'
  <2>1. UNCHANGED <<selected, checked, field, shown>>  BY <1>1 DEF choice
  <2> QED BY <2>1 DEF ChoiceInv, Choice!FieldIsSelection, Choice!ToSet
<1>2. ASSUME NEW o \in Choice!Options, Choice!Change(o), o \in checked PROVE ChoiceInv'
  <2> DEFINE v == Values[o]
  <2>1. /\ checked' = checked \ {o} /\ selected' = selected \ Choice!getOptionByValue(v)
        /\ Choice!onChange(v, FALSE)
    BY <1>2 DEF Choice!Change, Choice!onChange, Choice!toggleValue
  <2>2. o \in Choice!getOptionByValue(v)  BY DEF Choice!getOptionByValue
  <2> HIDE DEF v
  <2> QED BY <2>1, <2>2, ValueLeaves
<1>3. ASSUME NEW v, Choice!deselect(v) PROVE ChoiceInv'
  <2>1. /\ checked' = checked \ Choice!getOptionByValue(v)
        /\ selected' = selected \ Choice!getOptionByValue(v)
        /\ Choice!onChange(v, FALSE)
    BY <1>3 DEF Choice!deselect, Choice!getInputByValue, Choice!getOptionByValue
  <2> QED BY <2>1, ValueLeaves
<1>4. PagesNext => UNCHANGED choice \/ Choice!Next
  BY DEF PagesNext
<1> QED BY <1>1, <1>2, <1>3, <1>4, ChangeOn DEF Choice!Next

-----------------------------------------------------------------------------

\* The rows of a table stand in the order the marks of its headers show, once no
\* timer of the sorter waits: for any rows, texts, columns and first order.
THEOREM Marked == PagesSpec => []RowsAsMarked
<1>1. PagesInit => TableInv  BY TableInit DEF PagesInit
<1>2. TableInv => RowsAsMarked  BY MarkedByInv DEF RowsAsMarked
<1> QED BY <1>1, <1>2, TableStep, PTL DEF PagesSpec

\* A click on a header does what the label of the header announced, whatever
\* was clicked before with whatever keys.
THEOREM Clicks == PagesSpec => ClickAsAnnounced
<1>1. PagesInit => TableInv  BY TableInit DEF PagesInit
<1>2. TableInv /\ [PagesNext]_<<part, vars, choice, table>> =>
        [\A c \in Columns :
           Table!initSort(c, FALSE, FALSE) /\ timers = 0 =>
             /\ sortList' = << <<c, announced[c]>> >>
             /\ marks[c] # 2 => announced[c] # marks[c]]_(Table!tvars)
  BY ClickByInv
<1> QED BY <1>1, <1>2, TableStep, PTL DEF PagesSpec, ClickAsAnnounced, Table!ClickAsAnnounced

\* What is posted is what is selected and what the page shows, for any options
\* and however many of them have the same value.
THEOREM Posted == PagesSpec => []FieldIsSelection
<1>1. PagesInit => ChoiceInv  BY ChoiceInit DEF PagesInit
<1>2. ChoiceInv => FieldIsSelection  BY DEF ChoiceInv, FieldIsSelection
<1> QED BY <1>1, <1>2, ChoiceStep, PTL DEF PagesSpec
=============================================================================
