------------------------------ MODULE Instances ------------------------------
(***************************************************************************)
(* One domain of one host, and the sessions that look at its page: a       *)
(* browser loads the page, posts one of the forms the page offers, and a   *)
(* worker runs Instances::instance (or ::index) for it.  Every libvirt     *)
(* call is one step, and those of different sessions interleave.           *)
(*                                                                         *)
(* The page offers most forms only for a domain that is off, and says so   *)
(* of the console's too, whose buttons it only greys; the handlers do not  *)
(* ask again.  libvirt keeps two definitions of a domain, the persistent   *)
(* one, which the handlers define, and that of the running guest, which is *)
(* the one they read while it runs.                                        *)
(***************************************************************************)
EXTENDS Naturals, FiniteSets

CONSTANTS Session,     \* browsers, each with the worker that serves it
          Posts,       \* the forms that are posted
          PostMax,     \* how many are, in all
          Disk,        \* the disk images of the domain
          Iso,         \* the images for its two CD drives
          Graphics,    \* settings of its console
          Mem,         \* sizes of memory
          Snap,        \* names of snapshots
          None,        \* nothing there
          MayFail      \* whether a libvirt call may fail that could succeed

ASSUME MemAssumption == Mem \subseteq Nat \ {0}
ASSUME PostMaxAssumption == PostMax \in Nat
ASSUME MayFailAssumption == MayFail \in BOOLEAN

VARIABLES
  dom,      \* the domain, as libvirt has it
  vols,     \* the disk images that exist
  page,     \* the page each session sees
  pc,       \* how far the request of each session is
  req,      \* the form it posted
  xml,      \* m_xml: the definition the handler read
  todo,     \* the disks "delete" has still to delete
  posts,    \* how many forms will still be posted
  calm      \* since the session's page was loaded no call of its request
            \* failed, and nobody else changed anything (not in the code)

host == <<dom, vols>>
vars == <<dom, vols, page, pc, req, xml, todo, posts, calm>>

Cd == {"hda", "hdb"}

\* What a CD drive's source may name: nothing, an image, or what a form sent.
Source == {""} \cup Iso \cup Cd

Memory == [max : Mem, cur : Mem]
Conf == [disks : SUBSET Disk, cd : [Cd -> Source], gfx : Graphics, mem : Memory]
Status == {"off", "running", "paused"}
Snapshot == [conf : Conf, status : Status]

\* conf is the persistent definition, live that of the running guest, save
\* the one in the image of a managed save.
Domain == [conf : Conf \cup {None}, live : Conf \cup {None}, status : Status,
           save : Conf \cup {None}, auto : BOOLEAN,
           snaps : [Snap -> Snapshot \cup {None}]]
NoDomain == [conf |-> None, live |-> None, status |-> "off", save |-> None,
             auto |-> FALSE, snaps |-> [s \in Snap |-> None]]

\* The forms, with the fields a handler looks at.
Request ==
  [op : {"start", "shutdown", "destroy", "managedsave", "deletesaveimage",
         "suspend", "resume", "set_autostart", "unset_autostart"}]
  \cup [op : {"delete"}, disks : BOOLEAN]
  \cup [op : {"change_xml"}, conf : Conf]
  \cup [op : {"snapshot", "revert_snapshot", "delete_snapshot"}, name : Snap]
  \cup [op : {"set_console"}, value : Graphics \cup {None}]
  \cup [op : {"mount_iso"}, dev : Cd, media : [Cd -> Iso]]
  \cup [op : {"umount_iso"}, dev : Cd]
  \cup [op : {"change_settings"}, max : Mem, maxCustom : Mem \cup {None},
                                  cur : Mem, curCustom : Mem \cup {None}]
NoRequest == [op |-> "none"]
ASSUME PostsAssumption == Posts \subseteq Request

ASSUME NoneAssumption == None \notin Conf

NoPage == [status |-> "none", shown |-> [cd \in Cd |-> ""]]
Page == {NoPage} \cup [status : Status, shown : [Cd -> Source]]

Pc == {"page", "lookup", "handle", "read", "save", "update", "status",
       "destroy", "erase", "undefine", "done"}

TypeOK ==
  /\ dom \in Domain /\ vols \subseteq Disk
  /\ page \in [Session -> Page]
  /\ pc \in [Session -> Pc]
  /\ req \in [Session -> Request \cup {NoRequest}]
  /\ xml \in [Session -> Conf \cup {None}]
  /\ todo \in [Session -> SUBSET Disk]
  /\ calm \in [Session -> BOOLEAN]
  /\ posts \in 0..PostMax
  /\ dom.live = None <=> dom.status = "off"

-----------------------------------------------------------------------------
(* libvirt (external)                                                      *)

Exists == dom.conf # None \/ dom.live # None

\* virDomainGetXMLDesc without VIR_DOMAIN_XML_INACTIVE.
XmlDesc == IF dom.live # None THEN dom.live ELSE dom.conf

\* A domain that stops goes back to its persistent definition, if it has one.
Stopped == IF dom.conf = None THEN NoDomain
           ELSE [dom EXCEPT !.status = "off", !.live = None]

\* virDomainDefineXML.  No memory is refused; too much of it, or none, for
\* the balloon becomes all of it.
Valid(c) == c.mem.max # 0
Defined(c) ==
  [dom EXCEPT !.conf = [c EXCEPT !.mem.cur =
                          IF @ = 0 \/ @ > c.mem.max THEN c.mem.max ELSE @]]

CanStart == /\ dom.status = "off" /\ dom.conf # None
            /\ XmlDesc.disks \subseteq vols
Started == [dom EXCEPT !.status = "running", !.save = None,
                       !.live = IF dom.save # None THEN dom.save ELSE dom.conf]

CanSave == dom.status # "off" /\ dom.conf # None
Saved == [Stopped EXCEPT !.save = dom.live]

\* virDomainUndefine with no flags refuses a domain that is off and has
\* snapshots, and one that has a managed save; a running one stays until it
\* stops.
CanUndefine == /\ dom.conf # None /\ dom.save = None
               /\ dom.status = "off" => \A s \in Snap : dom.snaps[s] = None
Undefined == IF dom.status = "off" THEN NoDomain
             ELSE [dom EXCEPT !.conf = None, !.auto = FALSE]

CanSnapshot(s) == Exists /\ dom.snaps[s] = None /\ XmlDesc.disks \subseteq vols
Snapped(s) ==
  [dom EXCEPT !.snaps[s] = [conf |-> XmlDesc, status |-> dom.status]]
CanRevert(s) == dom.conf # None /\ dom.snaps[s] # None
Reverted(s) ==
  LET snap == dom.snaps[s]
  IN [dom EXCEPT !.conf = snap.conf, !.status = snap.status,
                 !.live = IF snap.status = "off" THEN None ELSE snap.conf]

-----------------------------------------------------------------------------

Init ==
  /\ \E disks \in SUBSET Disk \ {{}}, gfx \in Graphics, mem \in Memory :
       /\ mem.cur <= mem.max
       /\ dom = [NoDomain EXCEPT !.conf = [disks |-> disks, gfx |-> gfx,
                              mem |-> mem, cd |-> [cd \in Cd |-> ""]]]
  /\ vols = Disk
  /\ page = [u \in Session |-> NoPage]
  /\ pc = [u \in Session |-> "page"]
  /\ req = [u \in Session |-> NoRequest]
  /\ xml = [u \in Session |-> None]
  /\ todo = [u \in Session |-> {}]
  /\ posts = PostMax
  /\ calm = [u \in Session |-> TRUE]

Goto(u, from, to) == pc[u] = from /\ pc' = [pc EXCEPT ![u] = to]

\* A call ended.  If it failed although it could have succeeded, that is the
\* end of the session's own calm; if it changed the host, of the others'.
Called(u, failed) ==
  calm' = [v \in Session |->
             calm[v] /\ IF v = u THEN ~failed ELSE UNCHANGED host]

\* A call of session u does `effect', or fails: for sure when it is not
\* `possible'.  The handlers look at no result.
Call(u, possible, effect) ==
  \/ possible /\ effect /\ Called(u, FALSE)
  \/ /\ ~possible \/ MayFail
     /\ UNCHANGED host /\ Called(u, possible)

Change(u, possible, new) == Call(u, possible, dom' = new /\ UNCHANGED vols)

-----------------------------------------------------------------------------
(* The browser                                                             *)

\* The page is rendered, after a redirect or because its script saw another
\* status.  It shows the definition that libvirt gives.
Load(u) ==
  /\ pc[u] \in {"page", "done"} /\ pc' = [pc EXCEPT ![u] = "page"]
  /\ page' = [page EXCEPT ![u] =
       IF Exists THEN [status |-> dom.status, shown |-> XmlDesc.cd] ELSE NoPage]
  /\ req' = [req EXCEPT ![u] = NoRequest]
  /\ xml' = [xml EXCEPT ![u] = None]
  /\ calm' = [calm EXCEPT ![u] = TRUE]
  /\ UNCHANGED <<host, todo, posts>>

\* A drive whose source is no volume is shown as empty, with a list to pick
\* from.
ShownEmpty(p, cd) == p.shown[cd] \notin Iso

\* Mutant: the buttons of the settings and of snapshots keep their names too.
Offered_Always(r, p) ==
  /\ p # NoPage
  /\ r.op = "mount_iso" => ShownEmpty(p, r.dev)
  /\ r.op = "umount_iso" => ~ShownEmpty(p, r.dev)
  /\ r.op = "start" => p.status = "off"
  /\ r.op \in {"shutdown", "destroy", "managedsave", "suspend"}
       => p.status = "running"
  /\ r.op = "resume" => p.status = "paused"

\* The forms a page has.  (Those for a managed save are in HTML comments of
\* the templates; the handlers answer them.)  While a guest runs the buttons
\* of the console have the class "disabled" and keep their names: they post.
\* Those of the settings and of snapshots lose their names with it.
Offered(r, p) ==
  /\ p # NoPage
  /\ r.op \in {"start", "deletesaveimage", "change_xml", "snapshot",
               "revert_snapshot", "change_settings"}
       => p.status = "off"
  /\ r.op \in {"shutdown", "destroy", "managedsave", "suspend"}
       => p.status = "running"
  /\ r.op = "resume" => p.status = "paused"
  /\ r.op = "mount_iso" => ShownEmpty(p, r.dev)
  /\ r.op = "umount_iso" => ~ShownEmpty(p, r.dev)

Post(u, r) ==
  /\ Goto(u, "page", "lookup")
  /\ posts > 0 /\ posts' = posts - 1
  /\ Offered(r, page[u])
  /\ req' = [req EXCEPT ![u] = r]
  /\ UNCHANGED <<host, page, xml, todo, calm>>

-----------------------------------------------------------------------------
(* The handlers                                                            *)

\* Where each branch of the handler starts.
FirstStep(r) ==
  CASE r.op \in {"change_settings", "mount_iso", "umount_iso"} -> "read"
    [] r.op = "set_console" -> IF r.value = None THEN "done" ELSE "read"
    [] r.op = "delete" -> "status"
    [] OTHER -> "handle"

\* getDomainByName.  A console password that is left empty ends the branch.
Lookup(u) ==
  /\ UNCHANGED <<host, page, req, xml, todo, posts>>
  /\ \/ Goto(u, "lookup", FirstStep(req[u])) /\ Exists /\ Called(u, FALSE)
     \/ Goto(u, "lookup", "done") /\ (MayFail \/ ~Exists) /\ Called(u, Exists)

\* A branch that is one libvirt call.
OneCall(u, op, possible, new) ==
  req[u].op = op /\ Change(u, possible, new)

\* shutdown only sends a signal to the guest; see GuestStops.
LifeCycle(u) ==
  \/ OneCall(u, "start", CanStart, Started)
  \/ OneCall(u, "shutdown", dom.status = "running", dom)
  \/ OneCall(u, "destroy", dom.status # "off", Stopped)
  \/ OneCall(u, "suspend", dom.status = "running", [dom EXCEPT !.status = "paused"])
  \/ OneCall(u, "resume", dom.status = "paused", [dom EXCEPT !.status = "running"])
  \/ OneCall(u, "managedsave", CanSave, Saved)
  \/ OneCall(u, "deletesaveimage", dom.save # None, [dom EXCEPT !.save = None])
  \/ OneCall(u, "set_autostart", dom.conf # None, [dom EXCEPT !.auto = TRUE])
  \/ OneCall(u, "unset_autostart", dom.conf # None, [dom EXCEPT !.auto = FALSE])

Definition(u) ==
  \/ req[u].op = "change_xml" /\ Change(u, Valid(req[u].conf), Defined(req[u].conf))
  \/ req[u].op = "snapshot"
     /\ Change(u, CanSnapshot(req[u].name), Snapped(req[u].name))
  \/ req[u].op = "revert_snapshot"
     /\ Change(u, CanRevert(req[u].name), Reverted(req[u].name))
  \/ req[u].op = "delete_snapshot"
     /\ Change(u, dom.snaps[req[u].name] # None,
               [dom EXCEPT !.snaps[req[u].name] = None])

Handle(u) ==
  /\ Goto(u, "handle", "done")
  /\ LifeCycle(u) \/ Definition(u)
  /\ UNCHANGED <<page, req, xml, todo, posts>>

\* xmlDoc: the one place that reads the definition.  Deleting needs it for
\* the disks.
AfterRead(u, x) ==
  CASE req[u].op \in {"mount_iso", "umount_iso"} -> "update"
    [] req[u].op = "delete" ->
         IF x = None \/ x.disks = {} THEN "undefine" ELSE "erase"
    [] OTHER -> "save"

Read(u) ==
  /\ UNCHANGED <<host, page, req, posts>>
  /\ \E x \in {XmlDesc} \cup (IF MayFail THEN {None} ELSE {}) :
       /\ Goto(u, "read", AfterRead(u, x))
       /\ xml' = [xml EXCEPT ![u] = x]
       /\ todo' = [todo EXCEPT ![u] =
            IF req[u].op = "delete" /\ x # None THEN x.disks ELSE {}]
       /\ Called(u, x # XmlDesc)

ToULong(text) == IF text = None THEN 0 ELSE text

\* Mutant: the current memory is taken from the field of the maximum.
Settings_Swapped(r) ==
  [max |-> IF r.maxCustom = None THEN r.max ELSE ToULong(r.maxCustom),
   cur |-> IF r.maxCustom = None THEN r.max ELSE ToULong(r.curCustom)]

\* change_settings.  Which of the two fields for the current memory counts
\* hangs on the custom field of the maximum.
Settings(r) ==
  [max |-> IF r.maxCustom = None THEN r.max ELSE ToULong(r.maxCustom),
   cur |-> IF r.maxCustom = None THEN r.cur ELSE ToULong(r.curCustom)]

Edited(r, c) ==
  IF r.op = "set_console" THEN [c EXCEPT !.gfx = r.value]
  ELSE [c EXCEPT !.mem = Settings(r)]

\* saveXml: the definition that was read, edited, becomes the persistent one,
\* all of it.
Save(u) ==
  /\ Goto(u, "save", "done")
  /\ IF xml[u] = None THEN UNCHANGED host /\ UNCHANGED calm
     ELSE LET new == Edited(req[u], xml[u])
          IN Change(u, Valid(new), Defined(new))
  /\ UNCHANGED <<page, req, xml, todo, posts>>

\* mount_iso takes the first value of the form for hdb and the second for
\* hda, in the order of the map: the lists of hdb and hda that the page had,
\* then the value of the button, which is the drive's name.
FormImage(r, p) ==
  IF \A cd \in Cd : ShownEmpty(p, cd) THEN r.media[r.dev]
  ELSE IF r.dev = "hdb" THEN r.media["hdb"] ELSE r.dev

\* The hidden field "path" that counts is the last one of the page.
FormPath(p) == IF ShownEmpty(p, "hdb") THEN p.shown["hda"] ELSE p.shown["hdb"]

\* mountIso, umountIso: one device of the persistent definition.  umountIso
\* does so only if the definition it read has the image of the form.
Update(u) ==
  LET r == req[u]
      source == IF r.op = "mount_iso" THEN FormImage(r, page[u]) ELSE ""
  IN /\ Goto(u, "update", "done")
     /\ IF xml[u] = None
           \/ (r.op = "umount_iso" /\ xml[u].cd[r.dev] # FormPath(page[u]))
        THEN UNCHANGED host /\ UNCHANGED calm
        ELSE Change(u, dom.conf # None, [dom EXCEPT !.conf.cd[r.dev] = source])
  /\ UNCHANGED <<page, req, xml, todo, posts>>

-----------------------------------------------------------------------------
(* "delete"                                                                *)

AfterStop(u) == IF req[u].disks THEN "read" ELSE "undefine"

\* Mutant: a running domain is not noticed.
DeleteStatus_Off(u) ==
  /\ Goto(u, "status", AfterStop(u))
  /\ UNCHANGED <<host, page, req, xml, todo, posts, calm>>

\* status(); a failure reads as "not running".
DeleteStatus(u) ==
  /\ UNCHANGED <<host, page, req, xml, todo, posts>>
  /\ \E status \in {dom.status} \cup (IF MayFail THEN {"failed"} ELSE {}) :
       /\ Goto(u, "status",
               IF status = "running" THEN "destroy" ELSE AfterStop(u))
       /\ Called(u, status = "failed")

DeleteDestroy(u) ==
  /\ Goto(u, "destroy", AfterStop(u))
  /\ Change(u, dom.status # "off", Stopped)
  /\ UNCHANGED <<page, req, xml, todo, posts>>

\* getStorageVolByPath and, if it finds the volume, undefine; neither
\* changes anything if the volume is gone.
DeleteDisk(u, disk) ==
  /\ disk \in todo[u]
  /\ Goto(u, "erase", IF todo[u] = {disk} THEN "undefine" ELSE "erase")
  /\ Call(u, disk \in vols, vols' = vols \ {disk} /\ UNCHANGED dom)
  /\ todo' = [todo EXCEPT ![u] = @ \ {disk}]
  /\ UNCHANGED <<page, req, xml, posts>>

\* Mutant: the domain is only stopped.
DeleteUndefine_Not(u) ==
  /\ Goto(u, "undefine", "done")
  /\ UNCHANGED <<host, page, req, xml, todo, posts, calm>>

DeleteUndefine(u) ==
  /\ Goto(u, "undefine", "done")
  /\ Change(u, CanUndefine, Undefined)
  /\ UNCHANGED <<page, req, xml, todo, posts>>

-----------------------------------------------------------------------------

\* The guest shuts down by itself, asked to or not (external).
GuestStops ==
  /\ dom.status = "running"
  /\ dom' = Stopped
  /\ calm' = [u \in Session |-> FALSE]
  /\ UNCHANGED <<vols, page, pc, req, xml, todo, posts>>

Delete(u) == \/ DeleteStatus(u) \/ DeleteDestroy(u) \/ DeleteUndefine(u)
             \/ \E disk \in Disk : DeleteDisk(u, disk)

Next ==
  \/ \E u \in Session :
       \/ Load(u) \/ Lookup(u) \/ Handle(u) \/ Read(u) \/ Save(u) \/ Update(u)
       \/ Delete(u)
       \/ \E r \in Posts : Post(u, r)
  \/ GuestStops

Spec == Init /\ [][Next]_vars
-----------------------------------------------------------------------------
(* Properties                                                              *)

\* u ends one of the steps named, and all was calm since its page was loaded.
CalmEnd(u, steps) == pc[u] \in steps /\ pc'[u] = "done" /\ calm'[u]

\* A form of the settings meets only a domain that is off, and changes the
\* memory in the persistent definition and nothing else, although it defines
\* the domain anew from what it read.  A form of the console does the same to
\* its own part, unless a guest runs: then the persistent definition becomes
\* that of the guest, so edited.  What runs goes on as it was.
EditsKeepTheRest ==
  [][\A u \in Session : CalmEnd(u, {"save"}) =>
       /\ req[u].op = "change_settings" => dom.status = "off"
       /\ dom' = Defined(Edited(req[u],
                   IF dom.status = "off" THEN dom.conf ELSE dom.live))]_vars

\* What the settings form says: a custom value, where there is one, else the
\* one selected.
Filled(r) == [max |-> IF r.maxCustom = None THEN r.max ELSE r.maxCustom,
              cur |-> IF r.curCustom = None THEN r.cur ELSE r.curCustom]
AtMost(m) == [m EXCEPT !.cur = IF @ > m.max THEN m.max ELSE @]

\* In calm the settings form has the effect it says if both of its custom
\* fields are filled or neither; an image is connected to the drive, and
\* disconnected from it, that was picked, if that is hdb or hdb is empty.  (A
\* domain that runs on after it was deleted has nothing to connect it to.)
FormsTakeEffect ==
  [][\A u \in Session : CalmEnd(u, {"save", "update"}) /\ dom.conf # None =>
       LET r == req[u]
           reliable == r.dev = "hdb" \/ ShownEmpty(page[u], "hdb")
       IN /\ r.op = "change_settings" /\ (r.maxCustom = None <=> r.curCustom = None)
            => dom'.conf.mem = AtMost(Filled(r))
          /\ r.op = "mount_iso" /\ reliable => dom'.conf.cd[r.dev] = r.media[r.dev]
          /\ r.op = "umount_iso" /\ reliable => dom'.conf.cd[r.dev] = ""]_vars

\* Snapshots are taken of a domain that is off, and it is off when one is
\* brought back, unless it was started after the page was loaded.
SnapshotsWhenOff ==
  [][\A u \in Session : CalmEnd(u, {"handle"})
       /\ req[u].op \in {"snapshot", "revert_snapshot"} => dom.status = "off"]_vars

\* The forms do what the page that offered them says: settings are those that
\* were given, and snapshots those of a domain that is off.
FormsDoAsShown == FormsTakeEffect /\ SnapshotsWhenOff

\* Deleting an instance does not take the disks from under a running guest:
\* unless somebody starts or resumes it meanwhile, it was destroyed before.
DisksOutlastGuest ==
  [][\A u \in Session : calm'[u] /\ todo'[u] # todo[u] /\ vols' # vols
       => dom.status # "running"]_vars

\* An instance that is deleted in calm is gone, unless it was paused, had
\* snapshots, or a managed save.
DeletedIsGone ==
  \A u \in Session : req[u].op = "delete" /\ pc[u] = "done" /\ calm[u] =>
    \/ dom = NoDomain \/ dom.status = "paused" \/ dom.save # None
    \/ \E s \in Snap : dom.snaps[s] # None

\* An instance that is deleted in calm is gone, unless libvirt must refuse.
GoneWhenDeleted == TypeOK /\ DeletedIsGone

=============================================================================
