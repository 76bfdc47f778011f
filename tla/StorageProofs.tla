---------------------------- MODULE StorageProofs ----------------------------
(***************************************************************************)
(* Theorems about Storage, for any number of workers, names and lengths of *)
(* files, with calls that fail or without.                                 *)
(***************************************************************************)
EXTENDS Storage, SequenceTheorems, TLAPS

\* The steps of the three kinds of requests.
Creates  == {"build", "start", "autostart"}
Storing  == {"file", "create", "upload", "read", "send", "finish"}
OfPool   == Storing \cup {"handle", "delete", "clone", "spinning", "crashed"}

\* The request a worker is at work on, and the volume and file it has in hand.
At(w) ==
  /\ pc[w] # "idle" => req[w] \in Request
  /\ pc[w] \in Creates => IsCreate(w)
  /\ pc[w] \in OfPool => ~IsCreate(w)
  /\ pc[w] \in {"delete", "clone", "upload"} => vol[w] \in Name
  /\ pc[w] \in Storing \ {"file"} => files[w] # <<>>

\* The stream is where the file is, or ahead of it after a send that took less
\* than it was given: what is left of the buffer is sent as a buffer again.
Level(u, at) == u.opened => u.off >= at /\ (u.whole => u.off = at)

InStep(w) ==
  /\ pc[w] \in {"create", "upload"} => up[w].pos = 0 /\ up[w].off = 0 /\ up[w].whole
  /\ pc[w] \in {"read", "finish"} => Level(up[w], up[w].pos)
  /\ pc[w] = "send" =>
       /\ up[w].written < up[w].bytes /\ (up[w].whole => up[w].written = 0)
       /\ Level(up[w], up[w].pos - up[w].bytes + up[w].written)
  /\ pc[w] = "finish" => up[w].pos = up[w].len

\* What the stream took is in the volume: cells of the file, each in its place
\* or, after such a send, behind it.
InPlace(u, d) ==
  \A i \in 1..u.off : /\ \E j \in 1..i : d[i] = <<u.len, j>>
                      /\ u.whole => d[i] = <<u.len, i>>
Stored(w) ==
  LET u == up[w] IN
  u.on # None =>
    /\ Len(vols[u.on]) >= u.off
    /\ InPlace(u, vols[u.on])
    /\ u.made => Len(vols[u.on]) = u.off

\* In calm the pool is as the request found or left it.
Knows(w) ==
  /\ pc[w] \in Creates \cup Storing \cup {"handle"} => w \in held
  /\ pc[w] \in {"build", "start"} => pool.state = "inactive"
  /\ pc[w] = "start" /\ pool.logical => group
  /\ pc[w] = "autostart" => Active
  /\ pc[w] = "done" /\ IsCreate(w) =>
       req[w].type = "rbd_without_secret" \/ (Active /\ pool.auto)
  /\ pc[w] = "create" => ~Exists(FileName(w))
  /\ pc[w] = "crashed" => ~Active
  /\ pc[w] = "upload" /\ up[w].made => vols[vol[w]] = <<>>
  /\ pc[w] \in {"read", "send", "finish"} => Stored(w)

Mine(w) ==
  /\ At(w) /\ InStep(w) /\ (calm[w] => Knows(w))
  /\ up[w].on # None => up[w].opened /\ vols[up[w].on] # None

Inv == TypeOK /\ \A w \in Worker : Mine(w)

-----------------------------------------------------------------------------
(* Numbers, requests, data *)

LEMMA MinOfTwo ==
  ASSUME NEW a \in Int, NEW b \in Int
  PROVE  Min({a, b}) = IF a <= b THEN a ELSE b
<1>1. \E x \in {a, b} : \A y \in {a, b} : x =< y
  OBVIOUS
<1>2. Min({a, b}) \in {a, b} /\ \A y \in {a, b} : Min({a, b}) =< y
  BY <1>1 DEF Min
<1>3. QED BY <1>2

LEMMA MaxOfTwo ==
  ASSUME NEW a \in Int, NEW b \in Int
  PROVE  Max({a, b}) = IF a >= b THEN a ELSE b
<1>1. \E x \in {a, b} : \A y \in {a, b} : x >= y
  OBVIOUS
<1>2. Max({a, b}) \in {a, b} /\ \A y \in {a, b} : Max({a, b}) >= y
  BY <1>1 DEF Max
<1>3. QED BY <1>2

\* The fields of a request.
LEMMA Fields ==
  ASSUME NEW r \in Request
  PROVE  /\ r.op = "add_volume" => r.name \in Typed
         /\ r.op = "del_volume" => r.name \in Name
         /\ r.op = "cln_volume" => r.name \in Typed /\ r.from \in Name
         /\ r.op = "iso_upload" => r.files \in Seq(Typed \X Length)
<1>1. r.op = "iso_upload" => r.files \in [1..1 -> Typed \X Length] \cup [1..2 -> Typed \X Length]
  BY DEF Request
<1>2. \A n \in Nat : [1..n -> Typed \X Length] \subseteq Seq(Typed \X Length)
  OBVIOUS
<1>3. r.op = "iso_upload" => r.files \in Seq(Typed \X Length)
  BY <1>1, <1>2
<1>4. QED BY <1>3 DEF Request

\* The names of volumes that requests make.
LEMMA NamesMade ==
  ASSUME NEW n \in Typed
  PROVE  /\ n \in Name /\ \A format : VolumeName(n, format) \in Name
         /\ \A format : VolumeName(Img(n), format) \in Name
<1>1. n \in Name /\ n.imgs = 0 /\ n.base \in Base
  BY DEF Typed, Name
<1>2. Img(n) \in Name /\ Img(Img(n)) \in Name
  <2>1. ASSUME NEW m \in Name, m.imgs < ImgMax
        PROVE  Img(m) \in Name /\ Img(m).imgs = m.imgs + 1
    BY <2>1 DEF Img, Name, ImgMax
  <2>2. Img(n) \in Name /\ Img(n).imgs = 1
    BY <1>1, <2>1 DEF ImgMax
  <2>3. QED BY <2>1, <2>2 DEF ImgMax
<1>3. QED BY <1>1, <1>2 DEF VolumeName

\* The cells of a file.
LEMMA CellsOf ==
  ASSUME NEW len \in Length, NEW from \in Nat, NEW n \in Nat, from + n <= len
  PROVE  /\ Cells(len, from, n) \in Seq(Cell) /\ Len(Cells(len, from, n)) = n
         /\ \A i \in 1..n : Cells(len, from, n)[i] = <<len, from + i>>
<1>1. \A i \in 1..n : <<len, from + i>> \in Cell
  BY LengthAssumption DEF Cell
<1>2. QED BY <1>1 DEF Cells

\* What is written stands where it was written, and the rest stays.
LEMMA OverwriteOf ==
  ASSUME NEW d \in Seq(Cell), NEW off \in Nat, NEW c \in Seq(Cell)
  PROVE  LET new == Overwrite(d, off, c)
             end == off + Len(c)
         IN /\ new \in Seq(Cell) /\ new # None
            /\ Len(new) = IF Len(d) >= end THEN Len(d) ELSE end
            /\ \A i \in 1..Len(new) :
                 new[i] = IF off < i /\ i <= end THEN c[i - off]
                          ELSE IF i <= Len(d) THEN d[i] ELSE <<0, 0>>
<1> DEFINE end == off + Len(c)
           m == Max({Len(d), end})
           at(i) == IF off < i /\ i <= end THEN c[i - off]
                    ELSE IF i <= Len(d) THEN d[i] ELSE <<0, 0>>
<1>1. m \in Nat /\ m = IF Len(d) >= end THEN Len(d) ELSE end
  BY MaxOfTwo
<1>2. Overwrite(d, off, c) = [i \in 1..m |-> at(i)]
  BY DEF Overwrite
<1>3. ASSUME NEW i \in 1..m PROVE at(i) \in Cell
  <2>1. CASE off < i /\ i <= end
    <3>1. i - off \in 1..Len(c)
      BY <1>1, <2>1
    <3>2. QED BY <2>1, <3>1
  <2>2. CASE ~(off < i /\ i <= end) /\ i <= Len(d)
    BY <1>1, <2>2
  <2>3. CASE ~(off < i /\ i <= end) /\ ~(i <= Len(d))
    BY <2>3 DEF Cell
  <2>4. QED BY <2>1, <2>2, <2>3
<1> HIDE DEF m, at
<1>4. Overwrite(d, off, c) \in Seq(Cell) /\ Len(Overwrite(d, off, c)) = m
  BY <1>1, <1>2, <1>3
<1>5. QED BY <1>1, <1>2, <1>4, NoneAssumption DEF at

\* Each file waiting to be stored has a name and a length.
LEMMA FilesOf ==
  ASSUME TypeOK, NEW w \in Worker, files[w] # <<>>
  PROVE  /\ FileName(w) \in Name /\ FileLen(w) \in Length
         /\ Tail(files[w]) \in Seq(Typed \X Length)
<1>1. files[w] \in Seq(Typed \X Length)
  BY DEF TypeOK
<1>2. files[w][1] \in Typed \X Length /\ Tail(files[w]) \in Seq(Typed \X Length)
  BY <1>1
<1>3. QED BY <1>2 DEF FileName, FileLen, Typed

LEMMA NoUploadTyped == NoUpload \in Transfer
BY BufLenAssumption DEF NoUpload, Transfer

\* An upload that begins.
LEMMA NewUpload ==
  ASSUME NEW len \in Length, NEW t, t = [NoUpload EXCEPT !.len = len]
  PROVE  t \in Transfer /\ t.on = None /\ t.pos = 0 /\ t.off = 0 /\ ~t.made /\ t.whole
<1>1. len \in Nat /\ NoUpload.off = 0 /\ NoUpload.pos = 0 /\ NoUpload.bytes = 0
  BY LengthAssumption DEF NoUpload
<1>2. t \in Transfer
  BY <1>1, NoUploadTyped DEF Transfer
<1>3. QED BY <1>2 DEF NoUpload

\* The numbers of an upload.
LEMMA Numbers ==
  ASSUME NEW u \in Transfer
  PROVE  /\ u.len \in Nat /\ u.pos \in Nat /\ u.off \in Nat /\ u.bytes \in Nat
         /\ u.written \in Nat /\ u.bytes <= u.pos /\ u.pos <= u.len /\ u.off <= u.len
         /\ u.len > 0 => u.len \in Length
         /\ u.on \in Name \cup {None} /\ u.opened \in BOOLEAN /\ u.made \in BOOLEAN
         /\ u.whole \in BOOLEAN
<1>1. u.bytes \in 0..BufLen /\ u.len \in Length \cup {0} /\ BufLen \in Nat
  BY BufLenAssumption DEF Transfer
<1>2. u.bytes \in Nat /\ u.len \in Nat
  <2>1. Length \cup {0} \subseteq Nat
    BY LengthAssumption
  <2>2. QED BY <1>1, <2>1
<1>3. u.len > 0 => u.len \in Length
  BY <1>1
<1>4. QED BY <1>2, <1>3 DEF Transfer

\* A buffer is filled.
Buffered(u, n) == [u EXCEPT !.bytes = n, !.written = 0, !.pos = @ + n]

LEMMA Filled ==
  ASSUME NEW u \in Transfer, NEW n \in 1..BufLen, u.pos + n <= u.len,
         NEW t, t = Buffered(u, n)
  PROVE  /\ t \in Transfer /\ t.bytes = n /\ t.written = 0 /\ t.pos = u.pos + n
         /\ t.off = u.off /\ t.on = u.on /\ t.opened = u.opened /\ t.len = u.len
         /\ t.made = u.made /\ t.whole = u.whole
<1>1. u.pos \in Nat /\ u.len \in Nat /\ n \in Nat /\ n \in 0..BufLen
  BY Numbers, BufLenAssumption
<1>2. u.pos + n \in Nat /\ n <= u.pos + n
  BY <1>1
<1>3. /\ t.bytes = n /\ t.written = 0 /\ t.pos = u.pos + n
      /\ t.off = u.off /\ t.on = u.on /\ t.opened = u.opened /\ t.len = u.len
      /\ t.made = u.made /\ t.whole = u.whole
  BY DEF Transfer, Buffered
<1>4. t \in [opened : BOOLEAN, on : Name \cup {None}, len : Length \cup {0},
             pos : Nat, off : Nat, bytes : 0..BufLen, written : Nat, made : BOOLEAN,
             whole : BOOLEAN]
  BY <1>1, <1>2 DEF Transfer, Buffered
<1>5. t.off <= t.len /\ t.bytes <= t.pos /\ t.pos <= t.len
  BY <1>2, <1>3 DEF Transfer
<1>6. QED BY <1>3, <1>4, <1>5 DEF Transfer

\* Some of it is taken.
After(u, n) ==
  [u EXCEPT !.off = @ + n, !.written = @ + n, !.whole = @ /\ n = u.bytes]

LEMMA Taken ==
  ASSUME NEW u \in Transfer, NEW n \in Nat, u.off + n <= u.len,
         NEW t, t = After(u, n)
  PROVE  /\ t \in Transfer /\ t.off = u.off + n /\ t.on = u.on /\ t.opened = u.opened
         /\ t.len = u.len /\ t.pos = u.pos /\ t.made = u.made /\ t.bytes = u.bytes
         /\ t.written = u.written + n /\ (t.whole => u.whole /\ n = u.bytes)
<1>1. u.off + n \in Nat /\ u.written + n \in Nat
  BY Numbers
<1>2. /\ t.off = u.off + n /\ t.on = u.on /\ t.opened = u.opened
      /\ t.len = u.len /\ t.pos = u.pos /\ t.made = u.made /\ t.bytes = u.bytes
      /\ t.written = u.written + n /\ (t.whole => u.whole /\ n = u.bytes)
  BY DEF Transfer, After
<1>3. t \in [opened : BOOLEAN, on : Name \cup {None}, len : Length \cup {0},
             pos : Nat, off : Nat, bytes : 0..BufLen, written : Nat, made : BOOLEAN,
             whole : BOOLEAN]
  BY <1>1 DEF Transfer, After
<1>4. t.off <= t.len /\ t.bytes <= t.pos /\ t.pos <= t.len
  BY <1>2 DEF Transfer
<1>5. QED BY <1>2, <1>3, <1>4 DEF Transfer

\* An empty volume is a volume.
LEMMA EmptyVolume == <<>> \in Seq(Cell) /\ <<>> # None
<1>1. <<>> \in Seq(Cell)
  OBVIOUS
<1>2. QED BY <1>1, NoneAssumption

-----------------------------------------------------------------------------
(* Workers *)

\* No volume goes, no step moves a worker but w, and a step that changes the
\* host ends the calm of the others.
Alive == \A n \in Name : vols[n] # None => vols'[n] # None

OnlyMoves(w) ==
  \A v \in Worker : v # w =>
    /\ pc'[v] = pc[v] /\ req'[v] = req[v] /\ files'[v] = files[v] /\ vol'[v] = vol[v]
    /\ up'[v] = up[v]

Calms(w) ==
  /\ calm' \in [Worker -> BOOLEAN]
  /\ \A v \in Worker : v # w /\ pc[v] # "idle" /\ calm'[v] =>
       calm[v] /\ UNCHANGED <<pool, group, vols>> /\ (v \in held => v \in held')

\* Of a worker that is left alone all that holds still does.
LEMMA Unmoved ==
  ASSUME TypeOK, NEW v \in Worker, Mine(v), Alive,
         pc'[v] = pc[v], req'[v] = req[v], files'[v] = files[v], vol'[v] = vol[v],
         up'[v] = up[v],
         pc[v] # "idle" /\ calm'[v] =>
           calm[v] /\ UNCHANGED <<pool, group, vols>> /\ (v \in held => v \in held')
  PROVE  Mine(v)'
<1>1. At(v)' /\ InStep(v)'
  BY DEF Mine, At, InStep, IsCreate
<1>2. ASSUME calm'[v] PROVE Knows(v)'
  <2>1. CASE pc[v] = "idle"
    BY <2>1 DEF Knows, Creates, Storing
  <2>2. CASE pc[v] # "idle"
    <3>1. Knows(v) /\ UNCHANGED <<pool, group, vols>> /\ (v \in held => v \in held')
      BY <1>2, <2>2 DEF Mine
    <3>2. Stored(v) => Stored(v)'
      BY <3>1 DEF Stored
    <3>3. QED BY <3>1, <3>2 DEF Knows, Creates, Storing, IsCreate, Active, Exists, FileName
  <2>3. QED BY <2>1, <2>2
<1>3. up'[v].on # None => up'[v].opened /\ vols'[up'[v].on] # None
  BY DEF TypeOK, Transfer, Mine, Alive
<1>4. QED BY <1>1, <1>2, <1>3 DEF Mine

LEMMA Moves ==
  ASSUME Inv, NEW w \in Worker, OnlyMoves(w), Calms(w), Alive, TypeOK', Mine(w)'
  PROVE  Inv'
<1>1. ASSUME NEW v \in Worker, v # w PROVE Mine(v)'
  BY <1>1, Unmoved DEF OnlyMoves, Calms, Inv
<1>2. QED BY <1>1 DEF Inv

LEMMA CalmAfter ==
  ASSUME TypeOK, NEW w \in Worker, NEW changed \in BOOLEAN, NEW failed \in BOOLEAN,
         Called(w, changed, failed),
         changed \/ (UNCHANGED <<pool, group, vols>> /\ held \subseteq held')
  PROVE  Calms(w) /\ (pc[w] # "idle" /\ calm'[w] => calm[w] /\ ~failed)
BY DEF Called, Calms, TypeOK

LEMMA CalmKept ==
  ASSUME TypeOK, NEW w \in Worker, UNCHANGED host, UNCHANGED calm
  PROVE  Calms(w) /\ (calm'[w] => calm[w])
BY DEF Calms, TypeOK, host

\* A call that can be made happens, in calm.
LEMMA CallAfter ==
  ASSUME TypeOK, NEW w \in Worker, pc[w] # "idle", NEW possible \in BOOLEAN,
         NEW ACTION effect, Call(w, possible, effect)
  PROVE  /\ Calms(w) /\ (calm'[w] => calm[w])
         /\ (possible /\ effect) \/ UNCHANGED host
         /\ calm'[w] /\ possible => effect
         /\ calm'[w] /\ ~possible => UNCHANGED host
<1>1. CASE possible /\ effect /\ Called(w, TRUE, FALSE)
  BY <1>1, CalmAfter
<1>2. CASE UNCHANGED host /\ Called(w, FALSE, possible)
  <2>1. Calms(w) /\ (calm'[w] => calm[w] /\ ~possible)
    BY <1>2, CalmAfter DEF host
  <2>2. QED BY <1>2, <2>1
<1>3. QED BY <1>1, <1>2 DEF Call

\* A step that moves w on, and no more of what w has at hand.
LEMMA Worked ==
  ASSUME Inv, NEW w \in Worker, NEW from, NEW to \in Pc, Goto(w, from, to),
         UNCHANGED <<req, files, vol, up>>, Calms(w), Alive,
         pool' \in Pool, held' \subseteq Worker, group' \in BOOLEAN,
         vols' \in [Name -> Seq(Cell) \cup {None}],
         pc'[w] = to => /\ At(w)' /\ InStep(w)' /\ (calm'[w] => Knows(w)')
  PROVE  Inv'
<1>1. TypeOK' /\ OnlyMoves(w) /\ pc'[w] = to
  BY DEF Inv, TypeOK, Goto, Calms, OnlyMoves
<1>2. up'[w].on # None => up'[w].opened /\ vols'[up'[w].on] # None
  BY DEF Inv, TypeOK, Transfer, Mine, Alive
<1>3. QED BY <1>1, <1>2, Moves DEF Mine

\* A step that ends a request for a pool that is there.
LEMMA Ended ==
  ASSUME Inv, NEW w \in Worker, NEW from \in OfPool \cup {"lookup"}, Goto(w, from, "done"),
         ~IsCreate(w), UNCHANGED <<req, files, vol, up>>, Calms(w), Alive,
         pool' \in Pool, held' \subseteq Worker, group' \in BOOLEAN,
         vols' \in [Name -> Seq(Cell) \cup {None}]
  PROVE  Inv'
<1>1. req'[w] = req[w] /\ req[w] \in Request
  BY DEF Inv, Mine, At, Goto, OfPool, Storing
<1>2. pc'[w] = "done" => At(w)' /\ InStep(w)' /\ Knows(w)'
  BY <1>1 DEF At, InStep, Knows, Creates, Storing, OfPool, IsCreate
<1>3. QED BY <1>2, Worked DEF Pc

\* What no call changes has its type.
LEMMA HostKept ==
  ASSUME TypeOK, UNCHANGED host
  PROVE  /\ Alive /\ pool' \in Pool /\ held' \subseteq Worker /\ group' \in BOOLEAN
         /\ vols' \in [Name -> Seq(Cell) \cup {None}]
BY DEF TypeOK, host, Alive

\* Nor does a call that changes the pool and no volume change others' types.
LEMMA PoolChanged ==
  ASSUME TypeOK, UNCHANGED vols, pool' \in Pool, held' \subseteq Worker, group' \in BOOLEAN
  PROVE  Alive /\ vols' \in [Name -> Seq(Cell) \cup {None}]
BY DEF TypeOK, Alive

-----------------------------------------------------------------------------
(* The steps of a pool *)

LEMMA InvInit == Init => Inv
<1> SUFFICES ASSUME Init PROVE Inv
  OBVIOUS
<1>1. TypeOK
  <2>1. pool \in Pool
    <3>1. /\ NoPool \in Pool
          /\ [state |-> "inactive", logical |-> FALSE, auto |-> FALSE] \in Pool
          /\ [state |-> "active", logical |-> FALSE, auto |-> TRUE] \in Pool
      BY DEF NoPool, Pool, PoolState
    <3>2. QED BY <3>1 DEF Init
  <2>2. /\ held \in SUBSET Worker /\ group \in BOOLEAN /\ vols \in [Name -> Seq(Cell) \cup {None}]
        /\ req \in [Worker -> Request \cup {NoRequest}]
        /\ vol \in [Worker -> Name \cup {None}] /\ calm \in [Worker -> BOOLEAN]
    BY DEF Init
  <2>3. pc \in [Worker -> Pc] /\ files \in [Worker -> Seq(Typed \X Length)]
    BY DEF Init, Pc
  <2>4. up \in [Worker -> Transfer]
    BY NoUploadTyped DEF Init
  <2>5. QED BY <2>1, <2>2, <2>3, <2>4 DEF TypeOK
<1>2. ASSUME NEW w \in Worker PROVE Mine(w)
  BY DEF Init, Mine, At, InStep, Knows, Creates, Storing, OfPool, NoUpload
<1>3. QED BY <1>1, <1>2 DEF Inv

LEMMA PostInv == ASSUME Inv, NEW w \in Worker, NEW r \in Request, Post(w, r) PROVE Inv'
<1>1. /\ TypeOK /\ Mine(w) /\ pc' = [pc EXCEPT ![w] = "lookup"]
      /\ req' = [req EXCEPT ![w] = r] /\ calm' = [calm EXCEPT ![w] = TRUE]
      /\ UNCHANGED <<pool, held, group, vols, files, vol, up>>
  BY DEF Inv, Post, Goto, host
<1>2. TypeOK'
  BY <1>1 DEF TypeOK, Pc
<1>3. OnlyMoves(w) /\ Calms(w) /\ Alive
  BY <1>1 DEF OnlyMoves, Calms, Alive, TypeOK
<1>4. pc'[w] = "lookup" /\ req'[w] = r /\ up'[w] = up[w]
  BY <1>1 DEF TypeOK
<1>5. At(w)' /\ InStep(w)' /\ Knows(w)'
  BY <1>4 DEF At, InStep, Knows, Creates, Storing, OfPool
<1>6. up'[w].on # None => up'[w].opened /\ vols'[up'[w].on] # None
  BY <1>1 DEF Mine
<1>7. QED BY <1>2, <1>3, <1>5, <1>6, Moves DEF Mine

\* The worker is idle again, and what it had at hand is gone.
LEMMA IdleInv == ASSUME Inv, NEW w \in Worker, Answer(w) \/ Restart(w) PROVE Inv'
<1>1. /\ TypeOK /\ Mine(w) /\ pc' = [pc EXCEPT ![w] = "idle"]
      /\ req' = [req EXCEPT ![w] = NoRequest] /\ vol' = [vol EXCEPT ![w] = None]
      /\ calm' = [calm EXCEPT ![w] = TRUE] /\ held' = held \ {w}
      /\ UNCHANGED <<pool, group, vols>>
  BY DEF Inv, Answer, Restart, Goto
<1>2. /\ files' = files \/ files' = [files EXCEPT ![w] = <<>>]
      /\ up' = up \/ up' = [up EXCEPT ![w] = NoUpload]
  BY DEF Answer, Restart
<1>3. TypeOK'
  <2>1. files' \in [Worker -> Seq(Typed \X Length)]
    <3>1. files \in [Worker -> Seq(Typed \X Length)] /\ <<>> \in Seq(Typed \X Length)
      BY <1>1 DEF TypeOK
    <3>2. QED BY <1>2, <3>1
  <2>2. up' \in [Worker -> Transfer]
    BY <1>1, <1>2, NoUploadTyped DEF TypeOK
  <2>3. QED BY <1>1, <2>1, <2>2 DEF TypeOK, Pc
<1>4. OnlyMoves(w) /\ Calms(w) /\ Alive
  BY <1>1, <1>2 DEF OnlyMoves, Calms, Alive, TypeOK
<1>5. pc'[w] = "idle"
  BY <1>1 DEF TypeOK
<1>6. At(w)' /\ InStep(w)' /\ Knows(w)'
  BY <1>5 DEF At, InStep, Knows, Creates, Storing, OfPool
<1>7. up'[w].on # None => up'[w].opened /\ vols'[up'[w].on] # None
  BY <1>1, <1>2 DEF Mine, TypeOK, NoUpload
<1>8. QED BY <1>3, <1>4, <1>6, <1>7, Moves DEF Mine

LEMMA NoSecretInv == ASSUME Inv, NEW w \in Worker, NoSecret(w) PROVE Inv'
<1>1. /\ TypeOK /\ req[w].type = "rbd_without_secret" /\ Goto(w, "lookup", "done")
      /\ UNCHANGED host /\ UNCHANGED <<req, files, vol, up>> /\ UNCHANGED calm
      /\ req[w] \in Request
  BY DEF Inv, Mine, At, NoSecret, Goto
<1>2. pc'[w] = "done" => At(w)' /\ InStep(w)' /\ Knows(w)'
  BY <1>1 DEF At, InStep, Knows, Creates, Storing, OfPool, IsCreate
<1>3. QED BY <1>1, <1>2, CalmKept, HostKept, Worked DEF Pc

\* A pool just defined is there, and the worker has a handle of it.
LEMMA DefineInv == ASSUME Inv, NEW w \in Worker, Define(w) PROVE Inv'
<1>1. /\ TypeOK /\ IsCreate(w) /\ pc[w] = "lookup" /\ UNCHANGED <<req, files, vol, up>>
      /\ req[w] \in Request
  BY DEF Inv, Mine, At, Define, Goto
<1>2. CASE /\ Goto(w, "lookup", IF req[w].type = "logical" THEN "build" ELSE "start")
           /\ pool' = [NoPool EXCEPT !.state = "inactive", !.logical = req[w].type = "logical"]
           /\ held' = {w} /\ UNCHANGED <<group, vols>> /\ Called(w, TRUE, FALSE)
  <2>1. PICK to \in {"build", "start"} :
          Goto(w, "lookup", to) /\ (to = "start" => req[w].type # "logical")
    BY <1>2
  <2>2. /\ pool' \in Pool /\ pool'.state = "inactive"
        /\ to = "start" => ~pool'.logical
    BY <1>2, <2>1 DEF Pool, NoPool, PoolState
  <2>3. Calms(w) /\ (calm'[w] => calm[w])
    BY <1>1, <1>2, CalmAfter
  <2>4. pc'[w] = to => At(w)' /\ InStep(w)' /\ Knows(w)'
    BY <1>1, <1>2, <2>1, <2>2 DEF At, InStep, Knows, Creates, Storing, OfPool, IsCreate
  <2>5. Alive /\ held' \subseteq Worker /\ group' \in BOOLEAN
        /\ vols' \in [Name -> Seq(Cell) \cup {None}]
    BY <1>1, <1>2 DEF Alive, TypeOK
  <2>6. QED BY <1>1, <2>1, <2>2, <2>3, <2>4, <2>5, Worked DEF Pc
<1>3. CASE Goto(w, "lookup", "done") /\ UNCHANGED host /\ Called(w, FALSE, TRUE)
  <2>1. Calms(w) /\ ~calm'[w]
    BY <1>1, <1>3, CalmAfter DEF host
  <2>2. pc'[w] = "done" => At(w)' /\ InStep(w)' /\ (calm'[w] => Knows(w)')
    BY <1>1, <2>1 DEF At, InStep, Knows, Creates, Storing, OfPool
  <2>3. QED BY <1>1, <1>3, <2>1, <2>2, HostKept, Worked DEF Pc
<1>4. QED BY <1>2, <1>3 DEF Define

\* A step of the creation of a pool: what the worker knows is the pool.
LEMMA CreateInv ==
  ASSUME Inv, NEW w \in Worker, NEW from \in Creates, NEW to \in {"start", "autostart", "done"},
         Goto(w, from, to), UNCHANGED <<req, files, vol, up>>, Calms(w), UNCHANGED vols,
         pool' \in Pool, held' = held, group' \in BOOLEAN,
         calm'[w] => /\ w \in held
                     /\ to = "start" => pool'.state = "inactive" /\ (pool'.logical => group')
                     /\ to \in {"autostart", "done"} => pool'.state = "active"
                     /\ to = "done" => pool'.auto
  PROVE  Inv'
<1>1. TypeOK /\ Mine(w) /\ pc[w] = from
  BY DEF Inv, Goto
<1>2. req'[w] = req[w] /\ req[w] \in Request /\ IsCreate(w)
  BY <1>1 DEF Mine, At, Creates
<1>3. pc'[w] = to => /\ At(w)' /\ InStep(w)' /\ (calm'[w] => Knows(w)')
  BY <1>2 DEF At, InStep, Knows, Creates, Storing, OfPool, IsCreate, Active
<1>4. Alive /\ vols' \in [Name -> Seq(Cell) \cup {None}] /\ held' \subseteq Worker
  BY <1>1 DEF Alive, TypeOK
<1>5. QED BY <1>1, <1>3, <1>4, Worked DEF Pc

LEMMA BuildInv == ASSUME Inv, NEW w \in Worker, Build(w) PROVE Inv'
<1>1. /\ TypeOK /\ Mine(w) /\ pc[w] = "build" /\ Goto(w, "build", "start")
      /\ UNCHANGED <<req, files, vol, up>>
      /\ Call(w, w \in held /\ pool.state = "inactive" /\ ~group,
              group' = TRUE /\ UNCHANGED <<pool, held, vols>>)
  BY DEF Inv, Build, Goto
<1>2. /\ Calms(w) /\ (calm'[w] => calm[w]) /\ UNCHANGED <<pool, held, vols>>
      /\ group' = TRUE \/ group' = group
      /\ calm'[w] /\ w \in held /\ pool.state = "inactive" => group'
  <2>1. CASE group' = TRUE /\ UNCHANGED <<pool, held, vols>> /\ Called(w, TRUE, FALSE)
    BY <1>1, <2>1, CalmAfter
  <2>2. CASE /\ UNCHANGED host
             /\ Called(w, FALSE, w \in held /\ pool.state = "inactive" /\ ~group)
    BY <1>1, <2>2, CalmAfter DEF host, TypeOK
  <2>3. QED BY <1>1, <2>1, <2>2 DEF Call
<1>3. calm[w] => w \in held /\ pool.state = "inactive"
  BY <1>1 DEF Mine, Knows, Creates
<1>4. pool' \in Pool /\ group' \in BOOLEAN
  BY <1>1, <1>2 DEF TypeOK
<1>5. QED BY <1>1, <1>2, <1>3, <1>4, CreateInv DEF Creates

\* What starting a pool does.
LEMMA StartPoolDoes ==
  ASSUME TypeOK, NEW w \in Worker, pc[w] # "idle", StartPool(w)
  PROVE  /\ Calms(w) /\ (calm'[w] => calm[w]) /\ UNCHANGED <<held, group, vols>>
         /\ pool' \in Pool /\ (pool' = pool \/ pool'.state = "active")
         /\ calm'[w] /\ w \in held /\ pool.state = "inactive" /\ (pool.logical => group)
              => pool'.state = "active"
<1> DEFINE possible == w \in held /\ pool.state = "inactive" /\ (pool.logical => group)
<1>1. pool \in Pool
  BY DEF TypeOK
<1>2. CASE /\ pool' = [pool EXCEPT !.state = "active"] /\ UNCHANGED <<held, group, vols>>
           /\ Called(w, TRUE, FALSE)
  BY <1>1, <1>2, CalmAfter DEF Pool, PoolState
<1>3. CASE UNCHANGED host /\ Called(w, FALSE, possible)
  <2>1. possible \in BOOLEAN
    OBVIOUS
  <2>2. Calms(w) /\ (calm'[w] => calm[w] /\ ~possible)
    BY <1>3, <2>1, CalmAfter DEF host
  <2>3. QED BY <1>1, <1>3, <2>2 DEF host
<1>4. QED BY <1>2, <1>3 DEF StartPool, Call

LEMMA SetAutostartDoes ==
  ASSUME TypeOK, NEW w \in Worker, pc[w] # "idle", NEW enable \in BOOLEAN,
         SetAutostart(w, enable)
  PROVE  /\ Calms(w) /\ (calm'[w] => calm[w]) /\ UNCHANGED <<held, group, vols>>
         /\ pool' \in Pool /\ pool'.state = pool.state
         /\ calm'[w] /\ w \in held => pool'.auto = enable
<1>1. pool \in Pool
  BY DEF TypeOK
<1>2. CASE /\ pool' = [pool EXCEPT !.auto = enable] /\ UNCHANGED <<held, group, vols>>
           /\ Called(w, TRUE, FALSE)
  BY <1>1, <1>2, CalmAfter DEF Pool
<1>3. CASE UNCHANGED host /\ Called(w, FALSE, w \in held)
  <2>1. (w \in held) \in BOOLEAN
    OBVIOUS
  <2>2. Calms(w) /\ (calm'[w] => calm[w] /\ w \notin held)
    BY <1>3, <2>1, CalmAfter DEF host
  <2>3. QED BY <1>1, <1>3, <2>2 DEF host
<1>4. QED BY <1>2, <1>3 DEF SetAutostart, Call

LEMMA CreateStartInv == ASSUME Inv, NEW w \in Worker, CreateStart(w) PROVE Inv'
<1>1. /\ TypeOK /\ Mine(w) /\ pc[w] = "start" /\ Goto(w, "start", "autostart")
      /\ UNCHANGED <<req, files, vol, up>> /\ StartPool(w)
  BY DEF Inv, CreateStart, Goto
<1>2. calm[w] => w \in held /\ pool.state = "inactive" /\ (pool.logical => group)
  BY <1>1 DEF Mine, Knows, Creates
<1>3. group \in BOOLEAN
  BY <1>1 DEF TypeOK
<1>4. QED BY <1>1, <1>2, <1>3, StartPoolDoes, CreateInv DEF Creates

LEMMA CreateAutostartInv == ASSUME Inv, NEW w \in Worker, CreateAutostart(w) PROVE Inv'
<1>1. /\ TypeOK /\ Mine(w) /\ pc[w] = "autostart" /\ Goto(w, "autostart", "done")
      /\ UNCHANGED <<req, files, vol, up>> /\ SetAutostart(w, TRUE)
  BY DEF Inv, CreateAutostart, Goto
<1>2. calm[w] => w \in held /\ pool.state = "active"
  BY <1>1 DEF Mine, Knows, Creates, Active
<1>3. group \in BOOLEAN
  BY <1>1 DEF TypeOK
<1>4. QED BY <1>1, <1>2, <1>3, SetAutostartDoes, CreateInv DEF Creates

LEMMA LookupPoolInv == ASSUME Inv, NEW w \in Worker, LookupPool(w) PROVE Inv'
<1>1. /\ TypeOK /\ ~IsCreate(w) /\ pc[w] = "lookup" /\ UNCHANGED <<req, files, vol, up>>
      /\ UNCHANGED <<pool, group, vols>> /\ req[w] \in Request
  BY DEF Inv, Mine, At, LookupPool, Goto
<1>2. PICK found \in BOOLEAN :
        /\ Goto(w, "lookup", IF found THEN "handle" ELSE "done")
        /\ Looked(w, pool.state # "absent", found)
        /\ held' = IF found THEN held \cup {w} ELSE held
  BY DEF LookupPool
<1>3. Calms(w)
  BY <1>1, <1>2, CalmAfter DEF Looked
<1>4. /\ Alive /\ pool' \in Pool /\ held' \subseteq Worker /\ group' \in BOOLEAN
      /\ vols' \in [Name -> Seq(Cell) \cup {None}]
  BY <1>1, <1>2 DEF Alive, TypeOK
<1>5. CASE found
  <2>1. pc'[w] = "handle" => At(w)' /\ InStep(w)' /\ Knows(w)'
    BY <1>1, <1>2, <1>5 DEF At, InStep, Knows, Creates, Storing, OfPool, IsCreate
  <2>2. QED BY <1>1, <1>2, <1>3, <1>4, <1>5, <2>1, Worked DEF Pc
<1>6. CASE ~found
  BY <1>1, <1>2, <1>3, <1>4, <1>6, Ended
<1>7. QED BY <1>5, <1>6

LEMMA PoolCallInv == ASSUME Inv, NEW w \in Worker, PoolCall(w) PROVE Inv'
<1>1. /\ TypeOK /\ pc[w] = "handle" /\ Goto(w, "handle", "done") /\ ~IsCreate(w)
      /\ UNCHANGED <<req, files, vol, up>>
  BY DEF Inv, Mine, At, PoolCall, Goto, OfPool
<1>2. /\ Calms(w) /\ UNCHANGED <<group, vols>> /\ pool' \in Pool /\ held' \subseteq held
  <2>1. ASSUME NEW possible \in BOOLEAN,
               Call(w, possible, pool' = [pool EXCEPT !.state = "inactive"]
                                 /\ UNCHANGED <<held, group, vols>>)
        PROVE  /\ Calms(w) /\ UNCHANGED <<group, vols>> /\ pool' \in Pool /\ held' \subseteq held
    <3>1. Calms(w)
      BY <1>1, <2>1, CalmAfter DEF Call, host
    <3>2. pool \in Pool
      BY <1>1 DEF TypeOK
    <3>3. QED BY <2>1, <3>1, <3>2 DEF Call, host, Pool, PoolState
  <2>2. ASSUME NEW possible \in BOOLEAN,
               Call(w, possible, pool' = NoPool /\ held' = {} /\ UNCHANGED <<group, vols>>)
        PROVE  /\ Calms(w) /\ UNCHANGED <<group, vols>> /\ pool' \in Pool /\ held' \subseteq held
    <3>1. Calms(w)
      BY <1>1, <2>2, CalmAfter DEF Call, host
    <3>2. pool \in Pool /\ NoPool \in Pool
      BY <1>1 DEF TypeOK, Pool, PoolState, NoPool
    <3>3. QED BY <2>2, <3>1, <3>2 DEF Call, host
  <2>3. QED BY <1>1, <2>1, <2>2, StartPoolDoes, SetAutostartDoes DEF PoolCall, Active
<1>3. Alive /\ held' \subseteq Worker /\ group' \in BOOLEAN
      /\ vols' \in [Name -> Seq(Cell) \cup {None}]
  BY <1>1, <1>2 DEF TypeOK, Alive
<1>4. QED BY <1>1, <1>2, <1>3, Ended DEF OfPool

-----------------------------------------------------------------------------
(* The steps of volumes *)

LEMMA CreateVolumeDoes ==
  ASSUME TypeOK, NEW w \in Worker, pc[w] # "idle", NEW name \in Name, NEW data \in Seq(Cell),
         CreateVolume(w, name, data)
  PROVE  /\ Calms(w) /\ Alive /\ UNCHANGED <<pool, held, group>>
         /\ vols' \in [Name -> Seq(Cell) \cup {None}]
<1>1. vols \in [Name -> Seq(Cell) \cup {None}] /\ data # None
  BY NoneAssumption DEF TypeOK
<1>2. CASE /\ vols' = [vols EXCEPT ![name] = data] /\ UNCHANGED <<pool, held, group>>
           /\ Called(w, TRUE, FALSE)
  BY <1>1, <1>2, CalmAfter DEF Alive
<1>3. ASSUME NEW failed \in BOOLEAN, UNCHANGED host, Called(w, FALSE, failed)
      PROVE  /\ Calms(w) /\ Alive /\ UNCHANGED <<pool, held, group>>
             /\ vols' \in [Name -> Seq(Cell) \cup {None}]
  BY <1>1, <1>3, CalmAfter DEF Alive, host
<1>4. QED BY <1>2, <1>3 DEF CreateVolume, Call, Active, Exists

LEMMA AddVolumeInv == ASSUME Inv, NEW w \in Worker, AddVolume(w) PROVE Inv'
<1>1. /\ TypeOK /\ pc[w] = "handle" /\ Goto(w, "handle", "done") /\ ~IsCreate(w)
      /\ UNCHANGED <<req, files, vol, up>> /\ req[w] \in Request /\ req[w].op = "add_volume"
  BY DEF Inv, Mine, At, AddVolume, Goto, OfPool
<1>2. VolumeName(req[w].name, req[w].format) \in Name /\ <<<<0, 0>>>> \in Seq(Cell)
  BY <1>1, Fields, NamesMade DEF Cell
<1>3. CreateVolume(w, VolumeName(req[w].name, req[w].format), <<<<0, 0>>>>)
  BY DEF AddVolume
<1>4. /\ Calms(w) /\ Alive /\ UNCHANGED <<pool, held, group>>
      /\ vols' \in [Name -> Seq(Cell) \cup {None}]
  BY <1>1, <1>2, <1>3, CreateVolumeDoes
<1>5. pool' \in Pool /\ held' \subseteq Worker /\ group' \in BOOLEAN
  BY <1>1, <1>4 DEF TypeOK
<1>6. QED BY <1>1, <1>4, <1>5, Ended DEF OfPool

\* A step of a worker that may take another file, volume or upload at hand.
LEMMA Stepped ==
  ASSUME Inv, NEW w \in Worker, NEW to \in Pc, NEW f \in Seq(Typed \X Length),
         NEW n \in Name \cup {None}, NEW t \in Transfer,
         pc' = [pc EXCEPT ![w] = to], req' = req, files' = [files EXCEPT ![w] = f],
         vol' = [vol EXCEPT ![w] = n], up' = [up EXCEPT ![w] = t],
         Calms(w), Alive, pool' \in Pool, held' \subseteq Worker, group' \in BOOLEAN,
         vols' \in [Name -> Seq(Cell) \cup {None}],
         t.on # None => t.opened /\ vols'[t.on] # None,
         pc'[w] = to /\ req'[w] = req[w] /\ files'[w] = f /\ vol'[w] = n /\ up'[w] = t =>
           /\ At(w)' /\ InStep(w)' /\ (calm'[w] => Knows(w)')
  PROVE  Inv'
<1>1. TypeOK' /\ OnlyMoves(w)
  BY DEF Inv, TypeOK, Calms, OnlyMoves
<1>2. pc'[w] = to /\ req'[w] = req[w] /\ files'[w] = f /\ vol'[w] = n /\ up'[w] = t
  BY DEF Inv, TypeOK
<1>3. Mine(w)'
  BY <1>2 DEF Mine
<1>4. QED BY <1>1, <1>3, Moves

\* What of a worker's own does not change is what it was.
LEMMA Same ==
  ASSUME TypeOK, NEW w \in Worker
  PROVE  /\ files = [files EXCEPT ![w] = files[w]] /\ files[w] \in Seq(Typed \X Length)
         /\ vol = [vol EXCEPT ![w] = vol[w]] /\ vol[w] \in Name \cup {None}
         /\ up = [up EXCEPT ![w] = up[w]] /\ up[w] \in Transfer
BY DEF TypeOK

\* What a lookup that does not change the host does.
LEMMA FoundDoes ==
  ASSUME TypeOK, NEW w \in Worker, pc[w] # "idle", NEW possible \in BOOLEAN,
         NEW found \in BOOLEAN, Found(w, possible, found)
  PROVE  /\ Calms(w) /\ Alive /\ UNCHANGED <<pool, held, group, vols>> /\ (found => possible)
         /\ pool' \in Pool /\ held' \subseteq Worker /\ group' \in BOOLEAN
         /\ vols' \in [Name -> Seq(Cell) \cup {None}]
         /\ calm'[w] => calm[w] /\ (possible => found)
<1>1. CASE found = possible /\ UNCHANGED host /\ Called(w, FALSE, FALSE)
  BY <1>1, HostKept, CalmAfter DEF host
<1>2. CASE possible /\ ~found /\ UNCHANGED host /\ Called(w, FALSE, TRUE)
  BY <1>2, HostKept, CalmAfter DEF host
<1>3. QED BY <1>1, <1>2 DEF Found, Looked

LEMMA LookupVolumeInv == ASSUME Inv, NEW w \in Worker, LookupVolume(w) PROVE Inv'
<1>1. /\ TypeOK /\ Mine(w) /\ pc[w] = "handle" /\ ~IsCreate(w)
      /\ UNCHANGED <<req, files, up>> /\ req[w] \in Request
  BY DEF Inv, Mine, At, LookupVolume, OfPool
<1>2. PICK name \in Name, next \in {"delete", "clone"} : Lookup(w, name, next, "done")
  BY <1>1, Fields DEF LookupVolume
<1>3. PICK found \in BOOLEAN :
        /\ Goto(w, pc[w], IF found THEN next ELSE "done")
        /\ vol' = [vol EXCEPT ![w] = IF found THEN name ELSE None]
        /\ Found(w, w \in held /\ Exists(name), found)
  BY <1>2 DEF Lookup
<1> DEFINE to == IF found THEN next ELSE "done"
           n == IF found THEN name ELSE None
<1>4. to \in {"delete", "clone", "done"} /\ (to # "done" => n \in Name) /\ n \in Name \cup {None}
  OBVIOUS
<1>5. pc' = [pc EXCEPT ![w] = to] /\ vol' = [vol EXCEPT ![w] = n]
  BY <1>3 DEF Goto
<1>6. /\ Calms(w) /\ Alive /\ UNCHANGED <<pool, held, group, vols>>
      /\ pool' \in Pool /\ held' \subseteq Worker /\ group' \in BOOLEAN
      /\ vols' \in [Name -> Seq(Cell) \cup {None}]
  BY <1>1, <1>3, FoundDoes DEF Exists, Active
<1> HIDE DEF to, n
<1>7. pc'[w] = to /\ req'[w] = req[w] /\ vol'[w] = n =>
        At(w)' /\ InStep(w)' /\ Knows(w)'
  BY <1>1, <1>4 DEF At, InStep, Knows, Creates, Storing, OfPool, IsCreate
<1>8. to \in Pc /\ (up[w].on # None => up[w].opened /\ vols'[up[w].on] # None)
  BY <1>1, <1>4, <1>6 DEF Pc, Mine
<1>9. /\ files' = [files EXCEPT ![w] = files[w]] /\ up' = [up EXCEPT ![w] = up[w]]
      /\ files[w] \in Seq(Typed \X Length) /\ up[w] \in Transfer
  BY <1>1, Same
<1>10. QED BY <1>1, <1>4, <1>5, <1>6, <1>7, <1>8, <1>9, Stepped

LEMMA CloneVolumeInv == ASSUME Inv, NEW w \in Worker, CloneVolume(w) PROVE Inv'
<1> DEFINE to == VolumeName(Img(req[w].name), req[w].format)
<1>1. /\ TypeOK /\ pc[w] = "clone" /\ Goto(w, "clone", "done") /\ ~IsCreate(w)
      /\ UNCHANGED <<req, files, vol, up>> /\ req[w] \in Request /\ vol[w] \in Name
  BY DEF Inv, Mine, At, CloneVolume, Goto, OfPool
<1>2. Call(w, w \in held /\ Exists(vol[w]) /\ vols[to] = None,
           vols' = [vols EXCEPT ![to] = vols[vol[w]]] /\ UNCHANGED <<pool, held, group>>)
  BY DEF CloneVolume
<1> HIDE DEF to
<1>3. vols \in [Name -> Seq(Cell) \cup {None}] /\ pool \in Pool /\ held \subseteq Worker
      /\ group \in BOOLEAN
  BY <1>1 DEF TypeOK
<1>4. CASE /\ Exists(vol[w]) /\ vols[to] = None
           /\ vols' = [vols EXCEPT ![to] = vols[vol[w]]]
           /\ UNCHANGED <<pool, held, group>> /\ Called(w, TRUE, FALSE)
  <2>1. Alive /\ vols' \in [Name -> Seq(Cell) \cup {None}]
    BY <1>1, <1>3, <1>4 DEF Alive, Exists
  <2>2. Calms(w)
    BY <1>1, <1>4, CalmAfter
  <2>3. QED BY <1>1, <1>3, <1>4, <2>1, <2>2, Ended DEF OfPool
<1>5. ASSUME NEW failed \in BOOLEAN, UNCHANGED host, Called(w, FALSE, failed) PROVE Inv'
  <2>1. Calms(w)
    BY <1>1, <1>5, CalmAfter DEF host
  <2>2. QED BY <1>1, <1>5, <2>1, HostKept, Ended DEF OfPool
<1>6. QED BY <1>2, <1>4, <1>5 DEF Call

\* A volume is deleted, from under the streams that write it.
LEMMA DeleteVolumeInv == ASSUME Inv, NEW w \in Worker, DeleteVolume(w) PROVE Inv'
<1>1. /\ TypeOK /\ Mine(w) /\ pc[w] = "delete" /\ Goto(w, "delete", "done") /\ ~IsCreate(w)
      /\ UNCHANGED <<req, files, vol>> /\ req[w] \in Request /\ vol[w] \in Name
      /\ up' = [v \in Worker |-> IF vols'[vol[w]] = None /\ up[v].on = vol[w]
                                 THEN [up[v] EXCEPT !.on = None] ELSE up[v]]
  BY DEF Inv, Mine, At, DeleteVolume, Goto, OfPool
<1>2. /\ vols \in [Name -> Seq(Cell) \cup {None}] /\ pool \in Pool /\ held \subseteq Worker
      /\ group \in BOOLEAN /\ up \in [Worker -> Transfer] /\ None \notin Name
  BY <1>1, NoneAssumption DEF TypeOK
<1>3. CASE /\ vols' = [vols EXCEPT ![vol[w]] = None] /\ UNCHANGED <<pool, held, group>>
           /\ Called(w, TRUE, FALSE)
  <2>1. TypeOK'
    <3>1. calm' \in [Worker -> BOOLEAN] /\ pc' \in [Worker -> Pc]
      BY <1>1, <1>3 DEF Called, Goto, TypeOK, Pc
    <3>2. \A v \in Worker : [up[v] EXCEPT !.on = None] \in Transfer
      BY <1>2 DEF Transfer
    <3>3. up' \in [Worker -> Transfer]
      BY <1>1, <1>2, <3>2
    <3>4. QED BY <1>1, <1>2, <1>3, <3>1, <3>3 DEF TypeOK
  <2>2. ASSUME NEW v \in Worker
        PROVE  /\ up'[v].opened = up[v].opened /\ up'[v].pos = up[v].pos
               /\ up'[v].off = up[v].off /\ up'[v].bytes = up[v].bytes
               /\ up'[v].written = up[v].written /\ up'[v].len = up[v].len
               /\ up'[v].on # None => up'[v].on = up[v].on /\ up[v].on # vol[w]
    BY <1>1, <1>2, <1>3, <2>2 DEF Transfer
  <2>3. ASSUME NEW v \in Worker, v # w PROVE Mine(v)'
    <3>1. Mine(v) /\ pc'[v] = pc[v] /\ up[v] \in Transfer
      BY <1>1, <1>2, <2>3 DEF Inv, Goto
    <3>2. At(v)' /\ InStep(v)'
      BY <1>1, <2>2, <3>1 DEF Mine, At, InStep, Level, IsCreate
    <3>3. pc[v] # "idle" => ~calm'[v]
      BY <1>3, <2>3 DEF Called
    <3>4. calm'[v] => Knows(v)'
      BY <3>1, <3>3 DEF Knows, Creates, Storing
    <3>5. up'[v].on # None => up'[v].opened /\ vols'[up'[v].on] # None
      BY <1>2, <1>3, <2>2, <3>1 DEF Mine, Transfer
    <3>6. QED BY <3>2, <3>4, <3>5 DEF Mine
  <2>4. Mine(w)'
    <3>1. pc'[w] = "done" /\ up[w] \in Transfer
      BY <1>1, <1>2 DEF Goto, TypeOK
    <3>2. At(w)' /\ InStep(w)' /\ Knows(w)'
      BY <1>1, <3>1 DEF At, InStep, Knows, Creates, Storing, OfPool, IsCreate
    <3>3. up'[w].on # None => up'[w].opened /\ vols'[up'[w].on] # None
      BY <1>1, <1>2, <1>3, <2>2, <3>1 DEF Mine, Transfer
    <3>4. QED BY <3>2, <3>3 DEF Mine
  <2>5. QED BY <2>1, <2>3, <2>4 DEF Inv
<1>4. ASSUME NEW failed \in BOOLEAN, UNCHANGED host, Called(w, FALSE, failed) PROVE Inv'
  <2>1. Calms(w)
    BY <1>1, <1>4, CalmAfter DEF host
  <2>2. up' = up
    <3>1. ASSUME NEW v \in Worker PROVE ~(vols'[vol[w]] = None /\ up[v].on = vol[w])
      BY <1>1, <1>2, <1>4 DEF host, Inv, Mine
    <3>2. QED BY <1>1, <1>2, <3>1
  <2>3. QED BY <1>1, <1>4, <2>1, <2>2, HostKept, Ended DEF OfPool
<1>5. Call(w, Exists(vol[w]), vols' = [vols EXCEPT ![vol[w]] = None]
                              /\ UNCHANGED <<pool, held, group>>)
  BY DEF DeleteVolume
<1>6. QED BY <1>3, <1>4, <1>5 DEF Call, Exists, Active

-----------------------------------------------------------------------------
(* The steps of an upload *)

\* A worker that stores a file.
LEMMA AtFile ==
  ASSUME Inv, NEW w \in Worker, pc[w] \in Storing
  PROVE  /\ TypeOK /\ Mine(w) /\ req[w] \in Request /\ ~IsCreate(w)
         /\ up[w] \in Transfer /\ files[w] \in Seq(Typed \X Length)
         /\ calm[w] => w \in held
         /\ pc[w] # "file" => files[w] # <<>>
BY DEF Inv, Mine, At, Knows, TypeOK, OfPool, Storing

\* Where a worker that goes on with an upload may be.
LEMMA OnlyStoring ==
  ASSUME NEW w \in Worker, pc'[w] \in Storing, req'[w] = req[w], req[w] \in Request,
         ~IsCreate(w), pc'[w] = "upload" => vol'[w] \in Name,
         pc'[w] # "file" => files'[w] # <<>>
  PROVE  At(w)'
BY DEF At, Creates, Storing, OfPool, IsCreate

LEMMA UploadsInv == ASSUME Inv, NEW w \in Worker, Uploads(w) PROVE Inv'
<1>1. /\ TypeOK /\ Mine(w) /\ pc[w] = "handle" /\ ~IsCreate(w) /\ req[w] \in Request
      /\ pc' = [pc EXCEPT ![w] = "file"] /\ req[w].op = "iso_upload"
      /\ files' = [files EXCEPT ![w] = req[w].files]
      /\ UNCHANGED host /\ UNCHANGED <<req, vol, up>> /\ UNCHANGED calm
      /\ calm[w] => w \in held
  BY DEF Inv, Mine, At, Knows, Uploads, Goto, OfPool
<1>2. req[w].files \in Seq(Typed \X Length)
  BY <1>1, Fields
<1>3. Calms(w) /\ (calm'[w] => calm[w])
  BY <1>1, CalmKept
<1>4. ASSUME pc'[w] = "file", req'[w] = req[w]
      PROVE  At(w)' /\ InStep(w)' /\ (calm'[w] => Knows(w)')
  <2>1. At(w)'
    BY <1>1, <1>4, OnlyStoring DEF Storing
  <2>2. InStep(w)' /\ (calm'[w] => Knows(w)')
    BY <1>1, <1>3, <1>4 DEF InStep, Knows, Creates, Storing, host
  <2>3. QED BY <2>1, <2>2
<1>5. /\ vol' = [vol EXCEPT ![w] = vol[w]] /\ vol[w] \in Name \cup {None}
      /\ up' = [up EXCEPT ![w] = up[w]] /\ up[w] \in Transfer
  BY <1>1, Same
<1>6. up[w].on # None => up[w].opened /\ vols'[up[w].on] # None
  BY <1>1 DEF Mine, host
<1>7. /\ Alive /\ pool' \in Pool /\ held' \subseteq Worker /\ group' \in BOOLEAN
      /\ vols' \in [Name -> Seq(Cell) \cup {None}] /\ "file" \in Pc
  BY <1>1, HostKept DEF Pc
<1>8. QED BY <1>1, <1>2, <1>3, <1>4, <1>5, <1>6, <1>7, Stepped

LEMMA UploadsDoneInv == ASSUME Inv, NEW w \in Worker, UploadsDone(w) PROVE Inv'
<1>1. /\ TypeOK /\ ~IsCreate(w) /\ Goto(w, "file", "done")
      /\ UNCHANGED host /\ UNCHANGED <<req, files, vol, up>> /\ UNCHANGED calm
  BY DEF Inv, Mine, At, UploadsDone, Goto, OfPool, Storing
<1>2. QED BY <1>1, CalmKept, HostKept, Ended DEF OfPool, Storing

LEMMA UploadLookupInv == ASSUME Inv, NEW w \in Worker, UploadLookup(w) PROVE Inv'
<1> DEFINE t == [NoUpload EXCEPT !.len = FileLen(w)]
<1>1. /\ pc[w] = "file" /\ files[w] # <<>> /\ UNCHANGED <<req, files>>
      /\ up' = [up EXCEPT ![w] = t]
      /\ TypeOK /\ req[w] \in Request /\ ~IsCreate(w) /\ (calm[w] => w \in held)
      /\ Lookup(w, FileName(w), "upload", "create")
  BY AtFile DEF UploadLookup, Storing
<1>2. FileName(w) \in Name /\ FileLen(w) \in Length
  BY <1>1, FilesOf
<1>3. t \in Transfer /\ t.on = None /\ t.pos = 0 /\ t.off = 0 /\ ~t.made /\ t.whole
  BY <1>2, NewUpload
<1> HIDE DEF t
<1>4. PICK found \in BOOLEAN :
        /\ pc' = [pc EXCEPT ![w] = IF found THEN "upload" ELSE "create"]
        /\ vol' = [vol EXCEPT ![w] = IF found THEN FileName(w) ELSE None]
        /\ Found(w, w \in held /\ Exists(FileName(w)), found)
  BY <1>1 DEF Lookup, Goto
<1> DEFINE to == IF found THEN "upload" ELSE "create"
           n == IF found THEN FileName(w) ELSE None
<1>5. /\ Calms(w) /\ Alive /\ UNCHANGED <<pool, held, group, vols>>
      /\ pool' \in Pool /\ held' \subseteq Worker /\ group' \in BOOLEAN
      /\ vols' \in [Name -> Seq(Cell) \cup {None}]
      /\ calm'[w] => calm[w] /\ (w \in held /\ Exists(FileName(w)) => found)
  BY <1>1, <1>4, FoundDoes DEF Exists, Active
<1>6. /\ to \in {"upload", "create"} /\ (to = "upload" => n \in Name)
      /\ n \in Name \cup {None} /\ (to = "create" => ~found)
  BY <1>2
<1>7. pc' = [pc EXCEPT ![w] = to] /\ vol' = [vol EXCEPT ![w] = n]
  BY <1>4
<1> HIDE DEF to, n
<1>8. ASSUME pc'[w] = to, req'[w] = req[w], files'[w] = files[w], vol'[w] = n, up'[w] = t
      PROVE  At(w)' /\ InStep(w)' /\ (calm'[w] => Knows(w)')
  <2>1. At(w)'
    BY <1>1, <1>6, <1>8, OnlyStoring DEF Storing
  <2>2. InStep(w)'
    BY <1>3, <1>6, <1>8 DEF InStep, Level
  <2>3. ASSUME calm'[w] PROVE Knows(w)'
    <3>1. w \in held' /\ (to = "create" => ~Exists(FileName(w))')
      BY <1>1, <1>5, <1>6, <2>3 DEF Exists, Active, FileName
    <3>2. QED BY <1>3, <1>6, <1>8, <3>1 DEF Knows, Creates, Storing
  <2>4. QED BY <2>1, <2>2, <2>3
<1>9. /\ files' = [files EXCEPT ![w] = files[w]] /\ files[w] \in Seq(Typed \X Length)
      /\ to \in Pc
  BY <1>1, <1>6, Same DEF Pc
<1>10. QED BY <1>1, <1>3, <1>5, <1>6, <1>7, <1>8, <1>9, Stepped

\* If the volume cannot be made, in calm, the pool does not run.
LEMMA UploadCreateInv == ASSUME Inv, NEW w \in Worker, UploadCreate(w) PROVE Inv'
<1> DEFINE possible == w \in held /\ Active /\ ~Exists(FileName(w))
<1>1. /\ pc[w] = "create" /\ UNCHANGED <<req, files>>
      /\ TypeOK /\ Mine(w) /\ req[w] \in Request /\ ~IsCreate(w) /\ (calm[w] => w \in held)
      /\ files[w] # <<>> /\ up[w] \in Transfer
  BY AtFile DEF UploadCreate, Goto, Storing
<1>2. /\ files' = [files EXCEPT ![w] = files[w]] /\ files[w] \in Seq(Typed \X Length)
      /\ FileName(w) \in Name
  BY <1>1, Same, FilesOf
<1>3. CASE /\ pc' = [pc EXCEPT ![w] = "upload"] /\ possible
           /\ vols' = [vols EXCEPT ![FileName(w)] = <<>>] /\ UNCHANGED <<pool, held, group>>
           /\ Called(w, TRUE, FALSE) /\ vol' = [vol EXCEPT ![w] = FileName(w)]
           /\ up' = [up EXCEPT ![w].made = TRUE]
  <2> DEFINE t == [up[w] EXCEPT !.made = TRUE]
  <2>1. /\ t \in Transfer /\ t.on = up[w].on /\ t.opened = up[w].opened
        /\ t.pos = up[w].pos /\ t.off = up[w].off /\ t.whole = up[w].whole
        /\ up' = [up EXCEPT ![w] = t]
    BY <1>1, <1>3 DEF Transfer, TypeOK
  <2> HIDE DEF t
  <2>2. Calms(w) /\ (calm'[w] => calm[w])
    BY <1>1, <1>3, CalmAfter
  <2>3. /\ Alive /\ vols' \in [Name -> Seq(Cell) \cup {None}] /\ vols'[FileName(w)] = <<>>
        /\ pool' \in Pool /\ held' \subseteq Worker /\ group' \in BOOLEAN
    <3>1. vols \in [Name -> Seq(Cell) \cup {None}] /\ pool \in Pool /\ held \subseteq Worker
          /\ group \in BOOLEAN
      BY <1>1 DEF TypeOK
    <3>2. QED BY <1>2, <1>3, <3>1, EmptyVolume DEF Alive
  <2>4. ASSUME pc'[w] = "upload", req'[w] = req[w], files'[w] = files[w],
               vol'[w] = FileName(w), up'[w] = t
        PROVE  At(w)' /\ InStep(w)' /\ (calm'[w] => Knows(w)')
    <3>1. At(w)'
      BY <1>1, <1>2, <2>4, OnlyStoring DEF Storing
    <3>2. InStep(w)'
      BY <1>1, <2>1, <2>4 DEF Mine, InStep
    <3>3. ASSUME calm'[w] PROVE Knows(w)'
      BY <1>1, <1>3, <2>2, <2>3, <2>4, <3>3 DEF Knows, Creates, Storing
    <3>4. QED BY <3>1, <3>2, <3>3
  <2>5. t.on # None => t.opened /\ vols'[t.on] # None
    BY <1>1, <2>1, <2>3 DEF Mine, Alive, Transfer
  <2>6. "upload" \in Pc /\ FileName(w) \in Name \cup {None}
    BY <1>2 DEF Pc
  <2>7. QED BY <1>1, <1>2, <1>3, <2>1, <2>2, <2>3, <2>4, <2>5, <2>6, Stepped
<1>4. CASE /\ Goto(w, "create", "crashed") /\ UNCHANGED host /\ UNCHANGED <<vol, up>>
           /\ Called(w, FALSE, possible)
  <2>1. Calms(w) /\ (calm'[w] => calm[w] /\ ~possible)
    BY <1>1, <1>4, CalmAfter DEF host, Active, Exists
  <2>2. calm[w] => ~Exists(FileName(w))
    BY <1>1 DEF Mine, Knows
  <2>3. calm'[w] => ~Active'
    BY <1>1, <1>4, <2>1, <2>2 DEF Active, host
  <2>4. pc'[w] = "crashed" => At(w)' /\ InStep(w)' /\ (calm'[w] => Knows(w)')
    BY <1>1, <2>3 DEF At, InStep, Knows, Creates, Storing, OfPool, IsCreate
  <2>5. QED BY <1>1, <1>4, <2>1, <2>4, HostKept, Worked DEF Pc
<1>5. QED BY <1>3, <1>4 DEF UploadCreate, Goto

LEMMA UploadOpenInv == ASSUME Inv, NEW w \in Worker, UploadOpen(w) PROVE Inv'
<1>1. /\ pc[w] = "upload" /\ pc' = [pc EXCEPT ![w] = "read"] /\ UNCHANGED <<req, files, vol>>
      /\ TypeOK /\ Mine(w) /\ req[w] \in Request /\ ~IsCreate(w) /\ (calm[w] => w \in held)
      /\ files[w] # <<>> /\ up[w] \in Transfer /\ vol[w] \in Name
  BY AtFile DEF UploadOpen, Goto, Storing, Mine, At
<1>2. PICK opened \in BOOLEAN :
        /\ Found(w, Exists(vol[w]), opened)
        /\ up' = [up EXCEPT ![w].opened = opened, ![w].on = IF opened THEN vol[w] ELSE None]
  BY DEF UploadOpen
<1> DEFINE t == [up[w] EXCEPT !.opened = opened, !.on = IF opened THEN vol[w] ELSE None]
<1>3. /\ t \in Transfer /\ t.opened = opened /\ t.on = (IF opened THEN vol[w] ELSE None)
      /\ t.len = up[w].len /\ t.pos = up[w].pos /\ t.off = up[w].off /\ t.made = up[w].made
      /\ t.whole = up[w].whole /\ up' = [up EXCEPT ![w] = t]
  BY <1>1, <1>2 DEF Transfer, TypeOK
<1> HIDE DEF t
<1>4. /\ Calms(w) /\ Alive /\ UNCHANGED <<pool, held, group, vols>> /\ (opened => Exists(vol[w]))
      /\ pool' \in Pool /\ held' \subseteq Worker /\ group' \in BOOLEAN
      /\ vols' \in [Name -> Seq(Cell) \cup {None}] /\ (calm'[w] => calm[w])
  BY <1>1, <1>2, FoundDoes DEF Exists, Active
<1>5. ASSUME pc'[w] = "read", req'[w] = req[w], files'[w] = files[w], vol'[w] = vol[w], up'[w] = t
      PROVE  At(w)' /\ InStep(w)' /\ (calm'[w] => Knows(w)')
  <2>1. At(w)'
    BY <1>1, <1>5, OnlyStoring DEF Storing
  <2>2. up[w].pos = 0 /\ up[w].off = 0 /\ InStep(w)'
    BY <1>1, <1>3, <1>5 DEF Mine, InStep, Level
  <2>3. ASSUME calm'[w] PROVE Knows(w)'
    <3>1. Stored(w)'
      <4>1. up[w].made => vols[vol[w]] = <<>>
        BY <1>1, <1>4, <2>3 DEF Mine, Knows
      <4>2. opened => vols[vol[w]] \in Seq(Cell)
        BY <1>1, <1>4 DEF TypeOK, Exists
      <4>3. QED BY <1>3, <1>4, <1>5, <2>2, <4>1, <4>2 DEF Stored, InPlace
    <3>2. QED BY <1>1, <1>4, <1>5, <2>3, <3>1 DEF Knows, Creates, Storing
  <2>4. QED BY <2>1, <2>2, <2>3
<1>6. t.on # None => t.opened /\ vols'[t.on] # None
  BY <1>3, <1>4 DEF Exists
<1>7. /\ files' = [files EXCEPT ![w] = files[w]] /\ files[w] \in Seq(Typed \X Length)
      /\ vol' = [vol EXCEPT ![w] = vol[w]] /\ vol[w] \in Name \cup {None}
  BY <1>1, Same
<1>8. QED BY <1>1, <1>3, <1>4, <1>5, <1>6, <1>7, Stepped DEF Pc

LEMMA UploadReadInv == ASSUME Inv, NEW w \in Worker, UploadRead(w) PROVE Inv'
<1>1. /\ pc[w] = "read" /\ UNCHANGED host /\ UNCHANGED <<req, files, vol>> /\ UNCHANGED calm
      /\ up[w].pos < up[w].len
      /\ TypeOK /\ Mine(w) /\ req[w] \in Request /\ ~IsCreate(w) /\ (calm[w] => w \in held)
      /\ files[w] # <<>> /\ up[w] \in Transfer
  BY AtFile DEF UploadRead, Goto, Storing
<1>2. Calms(w) /\ (calm'[w] => calm[w])
  BY <1>1, CalmKept
<1> DEFINE bytes == Min({BufLen, up[w].len - up[w].pos})
           t == Buffered(up[w], bytes)
<1>3. CASE pc' = [pc EXCEPT ![w] = "send"] /\ up' = [up EXCEPT ![w] = t]
  <2>1. /\ up[w].len \in Nat /\ up[w].pos \in Nat /\ up[w].off \in Nat /\ up[w].off <= up[w].len
        /\ up[w].len - up[w].pos \in Int /\ BufLen \in Nat \ {0}
    BY <1>1, Numbers, BufLenAssumption
  <2>2. /\ bytes \in 1..BufLen /\ up[w].pos + bytes <= up[w].len
    <3>1. bytes = IF BufLen <= up[w].len - up[w].pos THEN BufLen ELSE up[w].len - up[w].pos
      BY <2>1, MinOfTwo
    <3>2. QED BY <1>1, <2>1, <3>1
  <2> HIDE DEF bytes
  <2>3. /\ t \in Transfer /\ t.bytes = bytes /\ t.written = 0 /\ t.pos = up[w].pos + bytes
        /\ t.off = up[w].off /\ t.on = up[w].on /\ t.opened = up[w].opened /\ t.len = up[w].len
        /\ t.made = up[w].made /\ t.whole = up[w].whole
    <3> HIDE DEF t
    <3>1. t = Buffered(up[w], bytes)
      BY DEF t
    <3>2. QED BY <1>1, <2>2, <3>1, Filled
  <2> HIDE DEF t
  <2>4. ASSUME pc'[w] = "send", req'[w] = req[w], files'[w] = files[w], vol'[w] = vol[w], up'[w] = t
        PROVE  At(w)' /\ InStep(w)' /\ (calm'[w] => Knows(w)')
    <3>1. At(w)'
      BY <1>1, <2>4, OnlyStoring DEF Storing
    <3>2. InStep(w)'
      <4>1. t.whole => t.written = 0
        BY <2>3
      <4>2. Level(up[w], up[w].pos) /\ t.pos - t.bytes + t.written = up[w].pos
        BY <1>1, <2>1, <2>2, <2>3 DEF Mine, InStep
      <4>3. Level(t, up[w].pos)
        BY <2>3, <4>2 DEF Level
      <4>4. QED BY <2>2, <2>3, <2>4, <4>1, <4>2, <4>3 DEF InStep
    <3>3. ASSUME calm'[w] PROVE Knows(w)'
      <4>1. Stored(w)'
        BY <1>1, <1>2, <2>3, <2>4, <3>3 DEF Mine, Knows, Stored, InPlace, host
      <4>2. QED BY <1>1, <1>2, <2>4, <3>3, <4>1 DEF Knows, Creates, Storing, host
    <3>4. QED BY <3>1, <3>2, <3>3
  <2>5. t.on # None => t.opened /\ vols'[t.on] # None
    BY <1>1, <2>3 DEF Mine, host
  <2>6. /\ files' = [files EXCEPT ![w] = files[w]] /\ files[w] \in Seq(Typed \X Length)
        /\ vol' = [vol EXCEPT ![w] = vol[w]] /\ vol[w] \in Name \cup {None} /\ "send" \in Pc
    BY <1>1, Same DEF Pc
  <2>7. /\ Alive /\ pool' \in Pool /\ held' \subseteq Worker /\ group' \in BOOLEAN
        /\ vols' \in [Name -> Seq(Cell) \cup {None}]
    BY <1>1, HostKept
  <2>8. t \in Transfer /\ req' = req /\ pc' = [pc EXCEPT ![w] = "send"]
        /\ up' = [up EXCEPT ![w] = t] /\ Calms(w)
    BY <1>1, <1>2, <1>3, <2>3
  <2>9. QED BY <2>4, <2>5, <2>6, <2>7, <2>8, Stepped
<1>4. CASE Goto(w, "read", "spinning") /\ UNCHANGED up
  <2>1. pc'[w] = "spinning" => At(w)' /\ InStep(w)' /\ Knows(w)'
    BY <1>1 DEF At, InStep, Knows, Creates, Storing, OfPool, IsCreate
  <2>2. QED BY <1>1, <1>2, <1>4, <2>1, HostKept, Worked DEF Pc
<1>5. CASE Goto(w, "read", "send") /\ up' = [up EXCEPT ![w].bytes = bytes, ![w].written = 0,
                                                       ![w].pos = @ + bytes]
  <2>1. up' = [up EXCEPT ![w] = t]
    BY <1>1, <1>5 DEF TypeOK, Buffered
  <2>2. QED BY <1>3, <1>5, <2>1 DEF Goto
<1>6. QED BY <1>4, <1>5 DEF UploadRead

LEMMA UploadAtEndInv == ASSUME Inv, NEW w \in Worker, UploadAtEnd(w) PROVE Inv'
<1>1. /\ pc[w] = "read" /\ UNCHANGED host /\ UNCHANGED <<req, files, vol, up>> /\ UNCHANGED calm
      /\ up[w].pos = up[w].len /\ Goto(w, "read", "finish")
      /\ TypeOK /\ Mine(w) /\ req[w] \in Request /\ ~IsCreate(w) /\ (calm[w] => w \in held)
      /\ files[w] # <<>>
  BY AtFile DEF UploadAtEnd, Goto, Storing
<1>2. Calms(w) /\ (calm'[w] => calm[w])
  BY <1>1, CalmKept
<1>3. ASSUME pc'[w] = "finish" PROVE At(w)' /\ InStep(w)' /\ (calm'[w] => Knows(w)')
  <2>1. At(w)'
    BY <1>1, <1>3, OnlyStoring DEF Storing
  <2>2. InStep(w)'
    BY <1>1, <1>3 DEF Mine, InStep
  <2>3. ASSUME calm'[w] PROVE Knows(w)'
    <3>1. Stored(w)'
      BY <1>1, <1>2, <2>3 DEF Mine, Knows, Stored, host
    <3>2. QED BY <1>1, <1>2, <1>3, <2>3, <3>1 DEF Knows, Creates, Storing, host
  <2>4. QED BY <2>1, <2>2, <2>3
<1>4. QED BY <1>1, <1>2, <1>3, HostKept, Worked DEF Pc

\* The file is done with, stored or not, and the next one is at hand.
LEMMA NextFile ==
  ASSUME Inv, NEW w \in Worker, NEW from \in Storing \ {"file"}, Goto(w, from, "file"),
         UNCHANGED host, UNCHANGED req, files' = [files EXCEPT ![w] = Tail(@)],
         vol' = [vol EXCEPT ![w] = None], up' = [up EXCEPT ![w] = NoUpload],
         Calms(w), calm'[w] => calm[w]
  PROVE  Inv'
<1>1. /\ TypeOK /\ Mine(w) /\ req[w] \in Request /\ ~IsCreate(w) /\ (calm[w] => w \in held)
      /\ files[w] # <<>> /\ pc' = [pc EXCEPT ![w] = "file"]
  BY AtFile DEF Goto
<1>2. /\ files' = [files EXCEPT ![w] = Tail(files[w])] /\ Tail(files[w]) \in Seq(Typed \X Length)
      /\ NoUpload \in Transfer /\ NoUpload.on = None
  BY <1>1, FilesOf, NoUploadTyped DEF NoUpload
<1>3. ASSUME pc'[w] = "file", req'[w] = req[w]
      PROVE  At(w)' /\ InStep(w)' /\ (calm'[w] => Knows(w)')
  <2>1. At(w)'
    BY <1>1, <1>3, OnlyStoring DEF Storing
  <2>2. InStep(w)' /\ (calm'[w] => Knows(w)')
    BY <1>1, <1>3 DEF InStep, Knows, Creates, Storing, host
  <2>3. QED BY <2>1, <2>2
<1>4. /\ Alive /\ pool' \in Pool /\ held' \subseteq Worker /\ group' \in BOOLEAN
      /\ vols' \in [Name -> Seq(Cell) \cup {None}] /\ "file" \in Pc
  BY <1>1, HostKept DEF Pc
<1>5. QED BY <1>1, <1>2, <1>3, <1>4, Stepped

LEMMA UploadFinishInv == ASSUME Inv, NEW w \in Worker, UploadFinish(w) PROVE Inv'
<1>1. Calms(w) /\ (calm'[w] => calm[w])
  BY CalmKept DEF Inv, UploadFinish
<1>2. QED BY <1>1, NextFile DEF UploadFinish, Storing

LEMMA SendFailsInv == ASSUME Inv, NEW w \in Worker, SendFails(w) PROVE Inv'
<1>1. TypeOK /\ up[w] \in Transfer /\ pc[w] = "send" /\ UNCHANGED host /\ UNCHANGED req
  BY DEF Inv, TypeOK, SendFails, Goto
<1>2. Takes(up[w]) \in BOOLEAN
  BY <1>1 DEF Takes, Transfer
<1>3. Calms(w) /\ (calm'[w] => calm[w])
  BY <1>1, <1>2, CalmAfter DEF SendFails, host
<1>4. QED BY <1>1, <1>3, NextFile DEF SendFails, Storing

\* The stream takes n cells of the buffer, maybe all of it.
LEMMA SendInv == ASSUME Inv, NEW w \in Worker, Send(w) PROVE Inv'
<1> DEFINE u == up[w]
<1>1. /\ pc[w] = "send" /\ UNCHANGED <<pool, held, group, req, files, vol>>
      /\ u.opened /\ u.off < u.len
      /\ TypeOK /\ Mine(w) /\ req[w] \in Request /\ ~IsCreate(w) /\ (calm[w] => w \in held)
      /\ files[w] # <<>> /\ u \in Transfer
  BY AtFile DEF Send, Takes, Storing
<1>2. /\ u.len \in Nat /\ u.pos \in Nat /\ u.off \in Nat /\ u.bytes \in Nat /\ u.written \in Nat
      /\ u.bytes <= u.pos /\ u.pos <= u.len /\ u.off <= u.len /\ u.len \in Length
      /\ u.opened \in BOOLEAN /\ u.on \in Name \cup {None} /\ u.len - u.off \in Int
      /\ u.whole \in BOOLEAN
  BY <1>1, Numbers
<1> DEFINE room == Min({u.bytes, u.len - u.off})
<1>3. PICK n \in 1..room :
        /\ up' = [up EXCEPT ![w].off = @ + n, ![w].written = @ + n,
                            ![w].whole = @ /\ n = u.bytes]
        /\ IF u.on = None THEN UNCHANGED vols
           ELSE vols' = [vols EXCEPT ![u.on] = Overwrite(@, u.off, Sent(u, n))]
        /\ pc' = [pc EXCEPT ![w] = IF u.written + n < u.bytes THEN "send" ELSE "read"]
  BY DEF Send
<1>4. n \in Nat /\ n > 0 /\ n <= u.bytes /\ u.off + n <= u.len
  <2>1. room = IF u.bytes <= u.len - u.off THEN u.bytes ELSE u.len - u.off
    BY <1>2, MinOfTwo
  <2>2. room \in Nat /\ room <= u.bytes /\ u.off + room <= u.len
    BY <1>2, <2>1
  <2> HIDE DEF room
  <2>3. QED BY <1>2, <1>3, <2>2
<1>5. /\ u.written < u.bytes /\ u.off >= u.pos - u.bytes + u.written
      /\ u.whole => u.written = 0 /\ u.off = u.pos - u.bytes
  <2>1. u.written < u.bytes /\ (u.whole => u.written = 0)
        /\ Level(u, u.pos - u.bytes + u.written)
    BY <1>1 DEF Mine, InStep
  <2> HIDE DEF u
  <2>2. QED BY <1>1, <1>2, <2>1 DEF Level
<1> DEFINE t == After(u, n)
           to == IF u.written + n < u.bytes THEN "send" ELSE "read"
<1>6. /\ t \in Transfer /\ t.off = u.off + n /\ t.on = u.on /\ t.opened = u.opened
      /\ t.len = u.len /\ t.pos = u.pos /\ t.made = u.made /\ t.bytes = u.bytes
      /\ t.written = u.written + n /\ (t.whole => u.whole /\ n = u.bytes)
      /\ up' = [up EXCEPT ![w] = t]
  <2>1. up' = [up EXCEPT ![w] = t]
    BY <1>1, <1>3 DEF TypeOK, After
  <2> HIDE DEF t
  <2>2. t = After(u, n)
    BY DEF t
  <2> HIDE DEF u
  <2>3. u \in Transfer /\ n \in Nat /\ u.off + n <= u.len
    BY <1>1, <1>4
  <2>4. QED BY <2>1, <2>2, <2>3, Taken
<1>7. /\ to \in {"send", "read"} /\ pc' = [pc EXCEPT ![w] = to]
      /\ (to = "send" <=> u.written + n < u.bytes)
  BY <1>3
<1> HIDE DEF room, t, to
<1>8. Sent(u, n) \in Seq(Cell) /\ Len(Sent(u, n)) = n
      /\ \A i \in 1..n : Sent(u, n)[i] = <<u.len, u.pos - u.bytes + i>>
  <2>1. u.pos - u.bytes \in Nat /\ u.pos - u.bytes + n <= u.len
    BY <1>2, <1>4
  <2>2. QED BY <1>2, <1>4, <2>1, CellsOf DEF Sent
<1>9. ASSUME u.on # None
      PROVE  LET new == Overwrite(vols[u.on], u.off, Sent(u, n))
             IN /\ u.on \in Name /\ vols[u.on] \in Seq(Cell) /\ new \in Seq(Cell) /\ new # None
                /\ vols' = [vols EXCEPT ![u.on] = new]
  <2>1. u.on \in Name /\ vols[u.on] \in Seq(Cell)
    BY <1>1, <1>2, <1>9 DEF Mine, TypeOK
  <2>2. QED BY <1>2, <1>3, <1>8, <1>9, <2>1, OverwriteOf
<1>10. /\ Alive /\ vols' \in [Name -> Seq(Cell) \cup {None}]
       /\ pool' \in Pool /\ held' \subseteq Worker /\ group' \in BOOLEAN
  <2>1. /\ vols \in [Name -> Seq(Cell) \cup {None}] /\ pool \in Pool /\ held \subseteq Worker
        /\ group \in BOOLEAN
    BY <1>1 DEF TypeOK
  <2>2. CASE u.on = None
    BY <1>1, <1>3, <2>1, <2>2 DEF Alive
  <2>3. CASE u.on # None
    BY <1>1, <1>9, <2>1, <2>3 DEF Alive
  <2>4. QED BY <2>2, <2>3
<1>11. Calms(w) /\ (calm'[w] => calm[w])
  <2>1. Called(w, u.on # None, FALSE)
    BY DEF Send
  <2>2. (u.on # None) \/ UNCHANGED vols
    BY <1>3
  <2>3. QED BY <1>1, <2>1, <2>2, CalmAfter
<1>12. ASSUME pc'[w] = to, req'[w] = req[w], files'[w] = files[w], vol'[w] = vol[w], up'[w] = t
       PROVE  At(w)' /\ InStep(w)' /\ (calm'[w] => Knows(w)')
  <2>1. At(w)'
    BY <1>1, <1>7, <1>12, OnlyStoring DEF Storing
  <2>2. InStep(w)'
    <3>1. CASE to = "send"
      <4>1. u.written + n < u.bytes
        BY <1>7, <3>1
      <4>2. t.written < t.bytes /\ n # u.bytes
        BY <1>2, <1>4, <1>6, <4>1
      <4>3. ~t.whole
        BY <1>6, <4>2
      <4>4. t.off >= t.pos - t.bytes + t.written
        BY <1>2, <1>4, <1>5, <1>6
      <4>5. QED BY <1>12, <3>1, <4>2, <4>3, <4>4 DEF InStep, Level
    <3>2. CASE to = "read"
      <4>1. t.off >= t.pos
        BY <1>2, <1>4, <1>5, <1>6, <1>7, <3>2
      <4>2. t.whole => t.off = t.pos
        <5> SUFFICES ASSUME t.whole PROVE t.off = t.pos
          OBVIOUS
        <5>1. n = u.bytes /\ u.off = u.pos - u.bytes
          BY <1>5, <1>6
        <5>2. QED BY <1>2, <1>6, <5>1
      <4>3. QED BY <1>12, <3>2, <4>1, <4>2 DEF InStep, Level
    <3>3. QED BY <1>7, <3>1, <3>2
  <2>3. ASSUME calm'[w] PROVE Knows(w)'
    <3>1. ASSUME u.on # None
          PROVE  /\ Len(vols'[u.on]) >= t.off
                 /\ InPlace(t, vols'[u.on])
                 /\ t.made => Len(vols'[u.on]) = t.off
      <4> DEFINE d == vols[u.on]
                 c == Sent(u, n)
                 new == Overwrite(d, u.off, c)
      <4>1. /\ Len(d) >= u.off /\ (u.made => Len(d) = u.off) /\ InPlace(u, d)
        BY <1>1, <1>11, <2>3, <3>1 DEF Mine, Knows, Stored
      <4>2. d \in Seq(Cell) /\ vols'[u.on] = new
        BY <1>1, <1>9, <3>1 DEF TypeOK
      <4>3. /\ Len(new) = IF Len(d) >= t.off THEN Len(d) ELSE t.off
            /\ \A i \in 1..Len(new) :
                 new[i] = IF u.off < i /\ i <= t.off THEN c[i - u.off]
                          ELSE IF i <= Len(d) THEN d[i] ELSE <<0, 0>>
        <5>1. u.off + Len(c) = t.off
          BY <1>6, <1>8
        <5>2. /\ Len(new) = IF Len(d) >= u.off + Len(c) THEN Len(d) ELSE u.off + Len(c)
              /\ \A i \in 1..Len(new) :
                   new[i] = IF u.off < i /\ i <= u.off + Len(c) THEN c[i - u.off]
                            ELSE IF i <= Len(d) THEN d[i] ELSE <<0, 0>>
          <6> HIDE DEF d, c
          <6>1. c \in Seq(Cell) /\ d \in Seq(Cell) /\ u.off \in Nat
            BY <1>2, <1>8, <4>2 DEF c
          <6>2. QED BY <6>1, OverwriteOf
        <5>3. QED BY <5>1, <5>2
      <4> HIDE DEF d, c, new
      <4>4. Len(d) \in Nat /\ t.off \in Nat /\ t.off = u.off + n
        BY <1>2, <1>4, <1>6, <4>2
      <4>5. ASSUME NEW i \in 1..t.off
            PROVE  /\ \E j \in 1..i : new[i] = <<t.len, j>>
                   /\ t.whole => new[i] = <<t.len, i>>
        <5>1. i \in 1..Len(new) /\ i \in Nat /\ i <= t.off
          BY <4>3, <4>4
        <5>2. CASE u.off < i
          <6>0. /\ u.off \in Nat /\ u.pos \in Nat /\ u.bytes \in Nat /\ n \in Nat
                /\ t.off \in Nat /\ t.off = u.off + n
            BY <1>2, <1>4, <4>4
          <6>1. PICK k \in Int : k = i - u.off
            BY <5>1, <6>0
          <6>2. PICK j \in Int : j = u.pos - u.bytes + k
            BY <6>0
          <6>3. k \in 1..n /\ j \in 1..i
            <7>1. u.off >= u.pos - u.bytes
              BY <1>2, <1>5
            <7>2. k \in Nat /\ k > 0 /\ k <= n
              <8> HIDE DEF u
              <8> QED BY ONLY <5>1, <5>2, <6>0, <6>1
            <7>3. j \in Nat /\ j > 0 /\ j <= i
              <8>1. u.pos - u.bytes >= 0
                BY <1>2, <1>5
              <8>2. PICK a \in Int : a = u.pos - u.bytes
                BY <6>0
              <8>3. a >= 0 /\ a <= i - k
                <9>1. u.off = i - k
                  BY ONLY <5>1, <6>0, <6>1
                <9> QED BY ONLY <7>1, <8>1, <8>2, <9>1
              <8>4. j = a + k /\ k \in Nat /\ k > 0 /\ i \in Nat
                BY ONLY <5>1, <6>2, <7>2, <8>2
              <8> QED BY ONLY <8>3, <8>4
            <7>4. QED BY <1>4, <5>1, <7>2, <7>3
          <6>4. new[i] = <<t.len, j>>
            BY <1>6, <1>8, <4>3, <5>1, <5>2, <6>1, <6>2, <6>3 DEF c
          <6>5. t.whole => j = i
            BY <1>2, <1>5, <1>6, <5>1, <6>1, <6>2
          <6>6. QED BY <6>3, <6>4, <6>5
        <5>3. CASE ~(u.off < i)
          <6>1. i \in 1..u.off /\ i <= Len(d)
            BY <1>2, <4>1, <4>4, <5>1, <5>3
          <6>2. new[i] = d[i]
            BY <4>3, <5>1, <5>3, <6>1
          <6>3. QED BY <1>6, <4>1, <6>1, <6>2 DEF InPlace
        <5>4. QED BY <5>2, <5>3
      <4>6. Len(new) >= t.off /\ (t.made => Len(new) = t.off)
        BY <1>2, <1>4, <1>6, <4>1, <4>3, <4>4
      <4>7. InPlace(t, new)
        BY <4>5 DEF InPlace
      <4>8. QED BY <4>2, <4>6, <4>7
    <3>2. Stored(w)'
      BY <1>6, <1>12, <3>1 DEF Stored
    <3>3. QED BY <1>1, <1>7, <1>11, <1>12, <2>3, <3>2 DEF Knows, Creates, Storing
  <2>4. QED BY <2>1, <2>2, <2>3
<1>13. t.on # None => t.opened /\ vols'[t.on] # None
  BY <1>1, <1>6, <1>10, <1>2 DEF Mine, Alive
<1>14. /\ files' = [files EXCEPT ![w] = files[w]] /\ files[w] \in Seq(Typed \X Length)
       /\ vol' = [vol EXCEPT ![w] = vol[w]] /\ vol[w] \in Name \cup {None} /\ to \in Pc
  BY <1>1, <1>7, Same DEF Pc
<1>15. t \in Transfer /\ up' = [up EXCEPT ![w] = t] /\ req' = req
  BY <1>1, <1>6
<1>16. Inv
  OBVIOUS
<1> HIDE DEF u
<1>17. QED BY <1>7, <1>10, <1>11, <1>12, <1>13, <1>14, <1>15, <1>16, Stepped

-----------------------------------------------------------------------------
(* The theorems *)

LEMMA InvNext == Inv /\ [Next]_vars => Inv'
<1> SUFFICES ASSUME Inv, [Next]_vars PROVE Inv'
  OBVIOUS
<1>1. CASE UNCHANGED vars
  <2>1. TypeOK' /\ Alive
    BY <1>1 DEF vars, host, Inv, TypeOK, Alive
  <2>2. ASSUME NEW w \in Worker PROVE Mine(w)'
    BY <1>1, <2>1, Unmoved DEF vars, host, Inv
  <2>3. QED BY <2>1, <2>2 DEF Inv
<1>2. ASSUME NEW w \in Worker, NEW r \in Posts, Post(w, r) PROVE Inv'
  BY <1>2, PostInv, PostsAssumption
<1>3. ASSUME NEW w \in Worker, Create(w) PROVE Inv'
  BY <1>3, NoSecretInv, DefineInv, BuildInv, CreateStartInv, CreateAutostartInv DEF Create
<1>4. ASSUME NEW w \in Worker, Volume(w) PROVE Inv'
  BY <1>4, AddVolumeInv, LookupVolumeInv, DeleteVolumeInv, CloneVolumeInv DEF Volume
<1>5. ASSUME NEW w \in Worker, Upload(w) PROVE Inv'
  BY <1>5, UploadsInv, UploadsDoneInv, UploadLookupInv, UploadCreateInv, UploadOpenInv,
     UploadReadInv, UploadAtEndInv, SendInv, SendFailsInv, UploadFinishInv DEF Upload
<1>6. QED BY <1>1, <1>2, <1>3, <1>4, <1>5, LookupPoolInv, PoolCallInv, IdleInv DEF Next, Step

LEMMA Invariant == Spec => []Inv
BY InvInit, InvNext, PTL DEF Spec

\* A worker dies in calm only because the pool does not run, and a pool that is
\* created in calm runs and starts with the host; the host and the workers are
\* always in a state of the declared types.
THEOREM RequestsDone == Spec => []CalmRequests
<1>1. Inv => CalmRequests
  BY DEF Inv, Mine, Knows, CalmRequests, CalmNoCrash, CalmCreate
<1>2. QED BY <1>1, Invariant, PTL

\* An upload in calm leaves the file in the volume if every send took all it was
\* given, cells of the file anyway, none of them before its place, and nothing
\* behind them in a volume that is new.
THEOREM UploadStored == Spec => []UploadExact
<1>1. ASSUME Inv, NEW w \in Worker, pc[w] = "finish", calm[w], up[w].on # None
      PROVE  LET u == up[w] IN
             /\ Len(vols[u.on]) >= u.len
             /\ u.whole => SubSeq(vols[u.on], 1, u.len) = Cells(u.len, 0, u.len)
             /\ \A i \in 1..u.len : \E j \in 1..i : vols[u.on][i] = <<u.len, j>>
             /\ u.made => Len(vols[u.on]) = u.len
  <2> DEFINE u == up[w]
             d == vols[u.on]
  <2>1. u \in Transfer /\ u.opened /\ Level(u, u.pos) /\ u.pos = u.len /\ d \in Seq(Cell)
    BY <1>1 DEF Inv, Mine, InStep, TypeOK, Transfer
  <2>2. Len(d) >= u.off /\ (u.made => Len(d) = u.off) /\ InPlace(u, d)
    BY <1>1 DEF Inv, Mine, Knows, Stored
  <2> HIDE DEF u, d
  <2>3. u.len \in Nat /\ Len(d) \in Nat /\ u.off = u.len
    BY <2>1, Numbers DEF Level
  <2>4. SubSeq(d, 1, u.len) = [i \in 1..u.len |-> d[i]]
    BY <2>1, <2>2, <2>3
  <2>5. Cells(u.len, 0, u.len) = [i \in 1..u.len |-> <<u.len, i>>]
    BY <2>3 DEF Cells
  <2>6. u.whole => SubSeq(d, 1, u.len) = Cells(u.len, 0, u.len)
    BY <2>2, <2>3, <2>4, <2>5 DEF InPlace
  <2>7. \A i \in 1..u.len : \E j \in 1..i : d[i] = <<u.len, j>>
    BY <2>2, <2>3 DEF InPlace
  <2>8. QED BY <2>2, <2>3, <2>6, <2>7 DEF u, d
<1>2. Inv => UploadExact
  BY <1>1 DEF UploadExact
<1>3. QED BY <1>2, Invariant, PTL

=============================================================================
