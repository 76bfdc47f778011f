------------------------------- MODULE Storage -------------------------------
(***************************************************************************)
(* One storage pool of one host, and the workers that serve the two pages  *)
(* about it (Storages::index, which creates it, and Storages::storage).    *)
(*                                                                         *)
(* The host keeps the pool and its volumes; every libvirt call is one      *)
(* step, and calls of different workers interleave.  Volumes are sequences *)
(* of cells.  A file is known by its length: its i-th cell is <<len, i>>.  *)
(* Of a volume's name the model keeps how often ".img" was appended.       *)
(***************************************************************************)
EXTENDS Integers, Sequences, FiniteSetsExt

CONSTANTS Worker,      \* the processes that serve requests
          Posts,       \* the requests that come
          Base,        \* the names users type
          Length,      \* the lengths of the files users upload
          BufLen,      \* cells in upload's buffer (one megabyte in the code)
          None,        \* no volume
          MayFail      \* whether a libvirt call, or a read, may fail

ASSUME LengthAssumption == Length \subseteq Nat /\ Length # {}
ASSUME BufLenAssumption == BufLen \in Nat \ {0}
ASSUME MayFailAssumption == MayFail \in BOOLEAN

VARIABLES
  pool,     \* the pool, as libvirt has it
  held,     \* the workers whose pool handle (by UUID) is of this pool, and
            \* not of one of its name that was undefined since
  group,    \* whether the volume group of a logical pool was built
  vols,     \* the data of each volume
  pc,       \* where each worker is
  req,      \* its request
  files,    \* the uploaded files it has still to store
  vol,      \* the volume it looked up ("vol" in the handlers)
  up,       \* its running upload
  calm      \* nothing failed, and no other worker changed anything, since
            \* the running request began (not in the code)

host == <<pool, held, group, vols>>
vars == <<pool, held, group, vols, pc, req, files, vol, up, calm>>

ImgMax == 2
Name == [base : Base, imgs : 0..ImgMax]
Typed == {n \in Name : n.imgs = 0}

Cell == {<<0, 0>>} \cup {c \in Length \X Nat : 0 < c[2] /\ c[2] <= c[1]}
ASSUME NoneAssumption == None \notin Name /\ None \notin Seq(Cell)

Cells(len, from, n) == [i \in 1..n |-> <<len, from + i>>]

PoolState == {"absent", "inactive", "active"}
Pool == [state : PoolState, logical : BOOLEAN, auto : BOOLEAN]
NoPool == [state |-> "absent", logical |-> FALSE, auto |-> FALSE]

\* The parameters of a POST that a handler looks at.
Request ==
  [op : {"create"}, type : {"logical", "other", "rbd_without_secret"}]
  \cup [op : {"start", "stop", "delete", "set_autostart", "unset_autostart"}]
  \cup [op : {"add_volume"}, name : Typed, format : {"raw", "dir"}]
  \cup [op : {"del_volume"}, name : Name]
  \cup [op : {"iso_upload"}, files : [1..1 -> Typed \X Length]
                                   \cup [1..2 -> Typed \X Length]]
  \cup [op : {"cln_volume"}, name : Typed, from : Name, format : {"raw", "dir"}]
NoRequest == [op |-> "none"]
ASSUME PostsAssumption == Posts \subseteq Request

\* opened: whether the stream was; on: the volume it writes, None once that is
\* deleted; pos: the file position; off: the cells the stream took; bytes and
\* written: the locals of that name; made: whether the volume is new; whole:
\* whether each send so far took all it was given (not in the code).
NoUpload == [opened |-> FALSE, on |-> None, len |-> 0, pos |-> 0, off |-> 0, bytes |-> 0,
             written |-> 0, made |-> FALSE, whole |-> TRUE]

Pc == {"idle", "lookup", "build", "start", "autostart", "handle", "delete",
       "clone", "file", "create", "upload", "read", "send", "finish",
       "done", "spinning", "crashed"}

Transfer == {u \in [opened : BOOLEAN, on : Name \cup {None}, len : Length \cup {0},
                    pos : Nat, off : Nat, bytes : 0..BufLen, written : Nat,
                    made : BOOLEAN, whole : BOOLEAN] :
               u.off <= u.len /\ u.bytes <= u.pos /\ u.pos <= u.len}

TypeOK ==
  /\ pool \in Pool /\ held \in SUBSET Worker /\ group \in BOOLEAN
  /\ vols \in [Name -> Seq(Cell) \cup {None}]
  /\ pc \in [Worker -> Pc]
  /\ req \in [Worker -> Request \cup {NoRequest}]
  /\ files \in [Worker -> Seq(Typed \X Length)]
  /\ vol \in [Worker -> Name \cup {None}]
  /\ up \in [Worker -> Transfer]
  /\ calm \in [Worker -> BOOLEAN]

-----------------------------------------------------------------------------
(* libvirt (external)                                                      *)

Active == pool.state = "active"
Exists(n) == Active /\ n # None /\ vols[n] # None

\* Data d with the cells c written from offset off on; what lies between the
\* end of d and off reads as zero.
Overwrite(d, off, c) ==
  [i \in 1..Max({Len(d), off + Len(c)}) |->
     IF off < i /\ i <= off + Len(c) THEN c[i - off]
     ELSE IF i <= Len(d) THEN d[i] ELSE <<0, 0>>]

Img(n) == [n EXCEPT !.imgs = @ + 1]

-----------------------------------------------------------------------------

Init ==
  /\ pool \in {NoPool, [state |-> "inactive", logical |-> FALSE, auto |-> FALSE],
                       [state |-> "active", logical |-> FALSE, auto |-> TRUE]}
  /\ held = {}
  /\ group = FALSE
  /\ vols = [n \in Name |-> None]
  /\ pc = [w \in Worker |-> "idle"]
  /\ req = [w \in Worker |-> NoRequest]
  /\ files = [w \in Worker |-> <<>>]
  /\ vol = [w \in Worker |-> None]
  /\ up = [w \in Worker |-> NoUpload]
  /\ calm = [w \in Worker |-> TRUE]

Goto(w, from, to) == pc[w] = from /\ pc' = [pc EXCEPT ![w] = to]

\* Worker w made a libvirt call.  One that changed the host ends the calm of
\* the others; one that failed although it could have succeeded, its own.
Called(w, changed, failed) ==
  calm' = [v \in Worker |->
             calm[v] /\ (pc[v] # "idle" => IF v = w THEN ~failed ELSE ~changed)]

\* A call of w does `effect', or fails: for sure when `possible' is false.
\* The worker looks at nothing but the result, if at that.
Call(w, possible, effect) ==
  \/ possible /\ effect /\ Called(w, TRUE, FALSE)
  \/ /\ ~possible \/ MayFail
     /\ UNCHANGED host
     /\ Called(w, FALSE, possible)

\* A read-only call of w, which may fail to find what is there.
Looked(w, possible, found) ==
  \/ found = possible /\ Called(w, FALSE, FALSE)
  \/ possible /\ MayFail /\ ~found /\ Called(w, FALSE, TRUE)

Found(w, possible, found) == UNCHANGED host /\ Looked(w, possible, found)

-----------------------------------------------------------------------------
(* Both pages                                                              *)

Post(w, r) ==
  /\ Goto(w, "idle", "lookup")
  /\ req' = [req EXCEPT ![w] = r]
  /\ calm' = [calm EXCEPT ![w] = TRUE]
  /\ UNCHANGED <<host, files, vol, up>>

\* The answer is sent and the Context destroyed.
Answer(w) ==
  /\ Goto(w, "done", "idle")
  /\ req' = [req EXCEPT ![w] = NoRequest]
  /\ vol' = [vol EXCEPT ![w] = None]
  /\ calm' = [calm EXCEPT ![w] = TRUE]
  /\ held' = held \ {w}
  /\ UNCHANGED <<pool, group, vols, files, up>>

Restart(w) ==
  /\ Goto(w, "crashed", "idle")
  /\ req' = [req EXCEPT ![w] = NoRequest]
  /\ files' = [files EXCEPT ![w] = <<>>]
  /\ vol' = [vol EXCEPT ![w] = None]
  /\ up' = [up EXCEPT ![w] = NoUpload]
  /\ calm' = [calm EXCEPT ![w] = TRUE]
  /\ held' = held \ {w}
  /\ UNCHANGED <<pool, group, vols>>

-----------------------------------------------------------------------------
(* Storages::index: createStoragePool, and its siblings for Ceph and NFS,  *)
(* which differ in the XML only                                            *)

IsCreate(w) == req[w].op = "create"

\* A pool of type rbd needs a secret.
NoSecret(w) ==
  /\ IsCreate(w) /\ req[w].type = "rbd_without_secret"
  /\ Goto(w, "lookup", "done")
  /\ UNCHANGED <<host, req, files, vol, up, calm>>

\* virStoragePoolDefineXML, the only call whose failure ends the creation.
Define(w) ==
  /\ IsCreate(w) /\ req[w].type # "rbd_without_secret"
  /\ LET possible == pool.state = "absent" IN
     \/ /\ Goto(w, "lookup", IF req[w].type = "logical" THEN "build"
                             ELSE "start")
        /\ possible
        /\ pool' = [NoPool EXCEPT !.state = "inactive",
                                  !.logical = req[w].type = "logical"]
        /\ held' = {w}
        /\ UNCHANGED <<group, vols>>
        /\ Called(w, TRUE, FALSE)
     \/ /\ Goto(w, "lookup", "done")
        /\ ~possible \/ MayFail
        /\ UNCHANGED host
        /\ Called(w, FALSE, TRUE)
  /\ UNCHANGED <<req, files, vol, up>>

\* Mutant: a logical pool is not built.
Build_Skip(w) ==
  /\ Goto(w, "build", "start")
  /\ UNCHANGED <<host, req, files, vol, up, calm>>

\* build(0), for a logical pool; fails if the group is there already.
Build(w) ==
  /\ Goto(w, "build", "start")
  /\ Call(w, w \in held /\ pool.state = "inactive" /\ ~group,
          group' = TRUE /\ UNCHANGED <<pool, held, vols>>)
  /\ UNCHANGED <<req, files, vol, up>>

\* virStoragePoolCreate.
StartPool(w) ==
  Call(w, w \in held /\ pool.state = "inactive" /\ (pool.logical => group),
       pool' = [pool EXCEPT !.state = "active"] /\ UNCHANGED <<held, group, vols>>)

SetAutostart(w, enable) ==
  Call(w, w \in held,
       pool' = [pool EXCEPT !.auto = enable] /\ UNCHANGED <<held, group, vols>>)

\* create(0), then setAutostart(true), whatever became of the calls before.
CreateStart(w) ==
  /\ Goto(w, "start", "autostart")
  /\ StartPool(w)
  /\ UNCHANGED <<req, files, vol, up>>

CreateAutostart(w) ==
  /\ Goto(w, "autostart", "done")
  /\ SetAutostart(w, TRUE)
  /\ UNCHANGED <<req, files, vol, up>>

-----------------------------------------------------------------------------
(* Storages::storage: the pool                                             *)

\* getStoragePool; without the pool the page ends here.
LookupPool(w) ==
  /\ ~IsCreate(w)
  /\ \E found \in BOOLEAN :
       /\ Goto(w, "lookup", IF found THEN "handle" ELSE "done")
       /\ Looked(w, pool.state # "absent", found)
       /\ held' = IF found THEN held \cup {w} ELSE held
  /\ UNCHANGED <<pool, group, vols>>
  /\ UNCHANGED <<req, files, vol, up>>

\* One call, whose result nobody looks at.
PoolCall(w) ==
  /\ Goto(w, "handle", "done")
  /\ \/ req[w].op = "start" /\ StartPool(w)
     \/ /\ req[w].op = "stop"
        /\ Call(w, w \in held /\ Active,
                pool' = [pool EXCEPT !.state = "inactive"]
                /\ UNCHANGED <<held, group, vols>>)
     \/ /\ req[w].op = "delete"
        /\ Call(w, w \in held /\ pool.state = "inactive",
                pool' = NoPool /\ held' = {} /\ UNCHANGED <<group, vols>>)
     \/ req[w].op = "set_autostart" /\ SetAutostart(w, TRUE)
     \/ req[w].op = "unset_autostart" /\ SetAutostart(w, FALSE)
  /\ UNCHANGED <<req, files, vol, up>>

-----------------------------------------------------------------------------
(* Storages::storage: volumes                                              *)

\* createStorageVolume: the name in the XML, and the call.  A volume of size
\* s has s zero cells.
VolumeName(name, format) == IF format = "dir" THEN Img(name) ELSE name

CreateVolume(w, name, data) ==
  Call(w, w \in held /\ Active /\ ~Exists(name),
       vols' = [vols EXCEPT ![name] = data] /\ UNCHANGED <<pool, held, group>>)

AddVolume(w) ==
  /\ req[w].op = "add_volume"
  /\ Goto(w, "handle", "done")
  /\ CreateVolume(w, VolumeName(req[w].name, req[w].format), <<<<0, 0>>>>)
  /\ UNCHANGED <<req, files, vol, up>>

\* getVolume: the handle, or a null pointer.
Lookup(w, name, next, otherwise) ==
  \E found \in BOOLEAN :
    /\ Goto(w, pc[w], IF found THEN next ELSE otherwise)
    /\ vol' = [vol EXCEPT ![w] = IF found THEN name ELSE None]
    /\ Found(w, w \in held /\ Exists(name), found)

LookupVolume(w) ==
  /\ pc[w] = "handle"
  /\ \/ req[w].op = "del_volume" /\ Lookup(w, req[w].name, "delete", "done")
     \/ req[w].op = "cln_volume" /\ Lookup(w, req[w].from, "clone", "done")
  /\ UNCHANGED <<req, files, up>>

\* StorageVol::undefine.  A stream that writes the volume goes on, into a
\* file that has no name any more.
DeleteVolume(w) ==
  /\ Goto(w, "delete", "done")
  /\ Call(w, Exists(vol[w]), vols' = [vols EXCEPT ![vol[w]] = None]
                             /\ UNCHANGED <<pool, held, group>>)
  /\ up' = [v \in Worker |-> IF vols'[vol[w]] = None /\ up[v].on = vol[w]
                             THEN [up[v] EXCEPT !.on = None] ELSE up[v]]
  /\ UNCHANGED <<req, files, vol>>

\* StorageVol::clone: to the typed name with ".img", once more for "dir".
CloneVolume(w) ==
  /\ Goto(w, "clone", "done")
  /\ LET to == VolumeName(Img(req[w].name), req[w].format) IN
     Call(w, w \in held /\ Exists(vol[w]) /\ vols[to] = None,
          vols' = [vols EXCEPT ![to] = vols[vol[w]]]
          /\ UNCHANGED <<pool, held, group>>)
  /\ UNCHANGED <<req, files, vol, up>>

-----------------------------------------------------------------------------
(* Storages::storage: iso_upload                                           *)

Uploads(w) ==
  /\ Goto(w, "handle", "file")
  /\ req[w].op = "iso_upload"
  /\ files' = [files EXCEPT ![w] = req[w].files]
  /\ UNCHANGED <<host, req, vol, up, calm>>

UploadsDone(w) ==
  /\ Goto(w, "file", "done")
  /\ files[w] = <<>>
  /\ UNCHANGED <<host, req, files, vol, up, calm>>

FileName(w) == files[w][1][1]
FileLen(w) == files[w][1][2]

\* getVolume(filename).
UploadLookup(w) ==
  /\ pc[w] = "file" /\ files[w] # <<>>
  /\ Lookup(w, FileName(w), "upload", "create")
  /\ up' = [up EXCEPT ![w] = [NoUpload EXCEPT !.len = FileLen(w)]]
  /\ UNCHANGED <<req, files>>

\* createStorageVolume(filename, "raw", 0, 0).  If that fails too, vol is null
\* and vol->upload(upload) goes through it: the process dies.
UploadCreate(w) ==
  LET possible == w \in held /\ Active /\ ~Exists(FileName(w)) IN
  /\ \/ /\ Goto(w, "create", "upload")
        /\ possible
        /\ vols' = [vols EXCEPT ![FileName(w)] = <<>>]
        /\ UNCHANGED <<pool, held, group>>
        /\ Called(w, TRUE, FALSE)
        /\ vol' = [vol EXCEPT ![w] = FileName(w)]
        /\ up' = [up EXCEPT ![w].made = TRUE]
     \/ /\ Goto(w, "create", "crashed")
        /\ MayFail \/ ~possible
        /\ UNCHANGED <<host, vol, up>>
        /\ Called(w, FALSE, possible)
  /\ UNCHANGED <<req, files>>

\* virStorageVolUpload, whose status is logged and otherwise ignored.
UploadOpen(w) ==
  /\ Goto(w, "upload", "read")
  /\ \E opened \in BOOLEAN :
       /\ Found(w, Exists(vol[w]), opened)
       /\ up' = [up EXCEPT ![w].opened = opened,
                           ![w].on = IF opened THEN vol[w] ELSE None]
  /\ UNCHANGED <<req, files, vol>>

\* The outer loop.  A read that fails returns -1: nothing is sent, and the
\* file is never at its end.
UploadRead(w) ==
  /\ up[w].pos < up[w].len
  /\ \/ /\ Goto(w, "read", "send")
        /\ LET bytes == Min({BufLen, up[w].len - up[w].pos}) IN
           up' = [up EXCEPT ![w].bytes = bytes, ![w].written = 0,
                            ![w].pos = @ + bytes]
     \/ MayFail /\ Goto(w, "read", "spinning") /\ UNCHANGED up
  /\ UNCHANGED <<host, req, files, vol, calm>>

UploadAtEnd(w) ==
  /\ Goto(w, "read", "finish")
  /\ up[w].pos = up[w].len
  /\ UNCHANGED <<host, req, files, vol, up, calm>>

\* Mutant: every buffer is filled from the start of the file.
Sent_Rewound(u, n) == Cells(u.len, 0, n)

\* The cells of the buffer that a send of n of them hands over: the first n,
\* in every round of the inner loop.
Sent(u, n) == Cells(u.len, u.pos - u.bytes, n)

\* The stream takes no more than the length it was opened for (external).
Takes(u) == u.opened /\ u.off < u.len

\* Mutant: a send that fails is tried again.
SendFails_Retry(w) ==
  /\ Goto(w, "send", "send")
  /\ MayFail \/ ~Takes(up[w])
  /\ Called(w, FALSE, Takes(up[w]))
  /\ UNCHANGED <<host, req, files, vol, up>>

\* The inner loop, when virStreamSend fails: the stream is aborted, and the
\* handler goes on with the next file.
SendFails(w) ==
  /\ Goto(w, "send", "file")
  /\ MayFail \/ ~Takes(up[w])
  /\ Called(w, FALSE, Takes(up[w]))
  /\ files' = [files EXCEPT ![w] = Tail(@)]
  /\ vol' = [vol EXCEPT ![w] = None]
  /\ up' = [up EXCEPT ![w] = NoUpload]
  /\ UNCHANGED <<host, req>>

\* The inner loop: one virStreamSend(stream, data, bytes), which may take less
\* than it is given.
Send(w) ==
  LET u    == up[w]
      room == Min({u.bytes, u.len - u.off})
  IN /\ pc[w] = "send" /\ Takes(u)
     /\ \E n \in 1..room :
          /\ up' = [up EXCEPT ![w].off = @ + n, ![w].written = @ + n,
                              ![w].whole = @ /\ n = u.bytes]
          /\ IF u.on = None THEN UNCHANGED vols
             ELSE vols' = [vols EXCEPT ![u.on] =
                             Overwrite(@, u.off, Sent(u, n))]
          /\ pc' = [pc EXCEPT ![w] =
                      IF u.written + n < u.bytes THEN "send" ELSE "read"]
     /\ Called(w, u.on # None, FALSE)
     /\ UNCHANGED <<pool, held, group, req, files, vol>>

\* virStreamFinish, whose result is only logged, and on to the next file.
UploadFinish(w) ==
  /\ Goto(w, "finish", "file")
  /\ files' = [files EXCEPT ![w] = Tail(@)]
  /\ vol' = [vol EXCEPT ![w] = None]
  /\ up' = [up EXCEPT ![w] = NoUpload]
  /\ UNCHANGED <<host, req, calm>>

-----------------------------------------------------------------------------

Create(w) == \/ NoSecret(w) \/ Define(w) \/ Build(w)
             \/ CreateStart(w) \/ CreateAutostart(w)
Volume(w) == AddVolume(w) \/ LookupVolume(w) \/ DeleteVolume(w) \/ CloneVolume(w)
Upload(w) == \/ Uploads(w) \/ UploadsDone(w) \/ UploadLookup(w)
             \/ UploadCreate(w) \/ UploadOpen(w) \/ UploadRead(w)
             \/ UploadAtEnd(w) \/ Send(w) \/ SendFails(w) \/ UploadFinish(w)

Step(w) == Create(w) \/ LookupPool(w) \/ PoolCall(w) \/ Volume(w) \/ Upload(w)
           \/ Answer(w) \/ Restart(w)

Next == \E w \in Worker : Step(w) \/ \E r \in Posts : Post(w, r)

Spec == Init /\ [][Next]_vars
FairSpec == Spec /\ \A w \in Worker : WF_vars(Step(w))

-----------------------------------------------------------------------------
(* Properties                                                              *)

\* A worker dies in iso_upload, with nothing failing and nobody interfering,
\* only because the pool does not run; a pool that runs takes two calls of
\* different workers, or a failure, to bring it down.
CalmNoCrash == \A w \in Worker : pc[w] = "crashed" /\ calm[w] => ~Active

\* A pool that is created in calm runs, and starts with the host, if it was
\* new: a logical pool needs to be built for that.
CalmCreate ==
  \A w \in Worker :
    IsCreate(w) /\ pc[w] = "done" /\ calm[w] =>
      req[w].type = "rbd_without_secret" \/ (Active /\ pool.auto)

\* A request that meets no failure and no other worker gets what it asks for: it
\* crashes only on a stopped pool, and the pool it creates runs.
CalmRequests == TypeOK /\ CalmNoCrash /\ CalmCreate

\* What an upload that meets no failure and no other worker leaves behind, if
\* every send took all it was given: the file, and behind it, in a volume that
\* was there before, what is left of the old data.  A send that takes less
\* shifts what follows; still all is cells of the file, none before its place,
\* nothing of the old data among them, and a new volume has the file's length.
UploadExact ==
  \A w \in Worker : pc[w] = "finish" /\ calm[w] =>
    LET u == up[w] IN
    u.on # None =>
      /\ Len(vols[u.on]) >= u.len
      /\ u.whole => SubSeq(vols[u.on], 1, u.len) = Cells(u.len, 0, u.len)
      /\ \A i \in 1..u.len : \E j \in 1..i : vols[u.on][i] = <<u.len, j>>
      /\ u.made => Len(vols[u.on]) = u.len

\* Every request comes to its end, unless a file cannot be read.
RequestEnds ==
  \A w \in Worker : pc[w] = "lookup" ~> pc[w] \in {"idle", "spinning"}
=============================================================================
