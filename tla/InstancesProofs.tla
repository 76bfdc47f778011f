--------------------------- MODULE InstancesProofs ---------------------------
(***************************************************************************)
(* Theorems about Instances, for any number of sessions, forms, disks,     *)
(* images and snapshots, with calls that fail or without.                  *)
(***************************************************************************)
EXTENDS Instances, TLAPS

\* A domain as libvirt keeps it: a guest has a definition while it runs, and
\* of a domain that is off and has no definition nothing is left.
Sane(d) == /\ d \in Domain /\ (d.live = None <=> d.status = "off")
           /\ d.conf = None /\ d.status = "off" => d = NoDomain

\* The form a session's worker is at work on, one the page offered.
At(u) ==
  /\ pc[u] # "page" => req[u] \in Request /\ Offered(req[u], page[u])
  /\ pc[u] = "read" => req[u].op \in {"change_settings", "mount_iso", "umount_iso",
                                      "set_console", "delete"}
  /\ pc[u] = "save" => req[u].op \in {"change_settings", "set_console"}
  /\ pc[u] \in {"read", "save"} /\ req[u].op = "set_console" => req[u].value \in Graphics
  /\ pc[u] = "update" => req[u].op \in {"mount_iso", "umount_iso"}
  /\ pc[u] \in {"status", "destroy", "erase", "undefine"} => req[u].op = "delete"

\* What the page shows is what is there.
Fresh(u) ==
  page[u] # NoPage =>
    Exists /\ page[u].status = dom.status /\ page[u].shown = XmlDesc.cd

\* An instance that was deleted is gone, or libvirt had to refuse.
Gone == \/ dom = NoDomain \/ dom.status = "paused" \/ dom.save # None
        \/ \E s \in Snap : dom.snaps[s] # None

\* In calm the page is still true until the request changes something, the
\* definition that was read is the one that is there, and an instance to be
\* deleted has stopped before its disks go.
Knows(u) ==
  /\ pc[u] \in {"page", "lookup", "handle", "save", "update"} => Fresh(u)
  /\ pc[u] = "read" /\ req[u].op # "delete" => Fresh(u)
  /\ pc[u] \in {"save", "update"} => xml[u] = XmlDesc
  /\ pc[u] = "destroy" => dom.status = "running"
  /\ pc[u] \in {"read", "erase", "undefine"} /\ req[u].op = "delete" => dom.status # "running"
  /\ pc[u] = "done" /\ req[u].op = "delete" => Gone

Mine(u) == At(u) /\ (calm[u] => Knows(u))

Inv == TypeOK /\ Sane(dom) /\ \A u \in Session : Mine(u)

-----------------------------------------------------------------------------
(* Forms and domains *)

\* The fields of a form.
LEMMA Fields ==
  ASSUME NEW r \in Request
  PROVE  /\ r.op \in {"start", "shutdown", "destroy", "managedsave", "deletesaveimage",
                      "suspend", "resume", "set_autostart", "unset_autostart", "delete",
                      "change_xml", "snapshot", "revert_snapshot", "delete_snapshot",
                      "set_console", "mount_iso", "umount_iso", "change_settings"}
         /\ r.op = "delete" => r.disks \in BOOLEAN
         /\ r.op = "change_xml" => r.conf \in Conf
         /\ r.op \in {"snapshot", "revert_snapshot", "delete_snapshot"} => r.name \in Snap
         /\ r.op = "set_console" => r.value \in Graphics \cup {None}
         /\ r.op \in {"mount_iso", "umount_iso"} => r.dev \in Cd
         /\ r.op = "mount_iso" => r.media \in [Cd -> Iso]
         /\ r.op = "change_settings" =>
              /\ r.max \in Mem /\ r.maxCustom \in Mem \cup {None}
              /\ r.cur \in Mem /\ r.curCustom \in Mem \cup {None}
BY DEF Request

\* What libvirt makes of a domain is one again.
LEMMA NoDomainSane == Sane(NoDomain)
BY DEF Sane, NoDomain, Domain, Status

LEMMA StoppedSane == ASSUME Sane(dom) PROVE Sane(Stopped) /\ Stopped.status = "off"
BY NoDomainSane DEF Sane, Domain, Stopped, Status, NoDomain

LEMMA XmlDescConf ==
  ASSUME Sane(dom)
  PROVE  /\ XmlDesc \in Conf \cup {None} /\ (Exists <=> XmlDesc \in Conf)
         /\ dom.status = "off" => XmlDesc = dom.conf
BY NoneAssumption DEF Sane, Domain, XmlDesc, Exists

\* A definition whose balloon may still be empty.
Draft == [disks : SUBSET Disk, cd : [Cd -> Source], gfx : Graphics,
          mem : [max : Mem, cur : Mem \cup {0}]]

LEMMA DefinedConf ==
  ASSUME NEW c \in Draft
  PROVE  [c EXCEPT !.mem.cur = IF @ = 0 \/ @ > c.mem.max THEN c.mem.max ELSE @] \in Conf
BY MemAssumption DEF Draft, Conf, Memory

LEMMA DefinedSane ==
  ASSUME Sane(dom), NEW c \in Draft
  PROVE  Sane(Defined(c))
<1> DEFINE new == [c EXCEPT !.mem.cur = IF @ = 0 \/ @ > c.mem.max THEN c.mem.max ELSE @]
<1>1. new \in Conf /\ Defined(c) = [dom EXCEPT !.conf = new]
  BY DefinedConf DEF Defined
<1> HIDE DEF new
<1>2. QED BY <1>1, NoneAssumption DEF Sane, Domain

LEMMA EditedDraft ==
  ASSUME NEW r \in Request, NEW c \in Conf,
         r.op = "change_settings" \/ (r.op = "set_console" /\ r.value \in Graphics)
  PROVE  Edited(r, c) \in Draft /\ Valid(Edited(r, c))
<1>1. CASE r.op = "set_console"
  BY <1>1, MemAssumption DEF Edited, Draft, Conf, Memory, Valid
<1>2. CASE r.op = "change_settings"
  <2>1. Settings(r) \in [max : Mem, cur : Mem \cup {0}] /\ Settings(r).max # 0
    BY <1>2, Fields, MemAssumption DEF Settings, ToULong
  <2>2. Edited(r, c) = [c EXCEPT !.mem = Settings(r)]
    BY <1>2 DEF Edited
  <2>3. QED BY <2>1, <2>2 DEF Draft, Conf, Valid
<1>3. QED BY <1>1, <1>2

LEMMA ConfDraft == Conf \subseteq Draft
BY DEF Conf, Draft, Memory

LEMMA LifeCycleSane ==
  ASSUME Sane(dom), NEW u \in Session, LifeCycle(u)
  PROVE  Sane(dom') /\ UNCHANGED vols
<1>1. UNCHANGED vols
  BY DEF LifeCycle, OneCall, Change, Call, host
<1> SUFFICES Sane(dom')
  BY <1>1
<1>2. CASE UNCHANGED host
  BY <1>2 DEF host
<1>3. CASE CanStart /\ dom' = Started
  BY <1>3, NoneAssumption DEF Sane, CanStart, Started, Domain, Status
<1>4. CASE dom.status # "off" /\ dom' = Stopped
  BY <1>4, StoppedSane
<1>5. CASE dom.status = "running" /\ dom' = [dom EXCEPT !.status = "paused"]
  BY <1>5 DEF Sane, Domain, Status
<1>6. CASE dom.status = "paused" /\ dom' = [dom EXCEPT !.status = "running"]
  BY <1>6 DEF Sane, Domain, Status
<1>7. CASE CanSave /\ dom' = Saved
  BY <1>7 DEF Sane, Domain, Status, CanSave, Saved, Stopped
<1>8. CASE dom.save # None /\ dom' = [dom EXCEPT !.save = None]
  BY <1>8 DEF Sane, Domain, NoDomain
<1>9. CASE dom.conf # None /\ \E auto \in BOOLEAN : dom' = [dom EXCEPT !.auto = auto]
  BY <1>9 DEF Sane, Domain
<1>10. CASE dom' = dom
  BY <1>10
<1>11. QED
  BY <1>2, <1>3, <1>4, <1>5, <1>6, <1>7, <1>8, <1>9, <1>10
     DEF LifeCycle, OneCall, Change, Call

LEMMA DefinitionSane ==
  ASSUME Sane(dom), NEW u \in Session, req[u] \in Request, Definition(u)
  PROVE  Sane(dom') /\ UNCHANGED vols
<1>1. UNCHANGED vols
  BY DEF Definition, Change, Call, host
<1> SUFFICES Sane(dom')
  BY <1>1
<1>2. CASE UNCHANGED host
  BY <1>2 DEF host
<1>3. CASE req[u].op = "change_xml" /\ dom' = Defined(req[u].conf)
  BY <1>3, Fields, ConfDraft, DefinedSane
<1>4. ASSUME NEW s \in Snap, CanSnapshot(s), dom' = Snapped(s) PROVE Sane(dom')
  <2>1. [conf |-> XmlDesc, status |-> dom.status] \in Snapshot
    BY <1>4, XmlDescConf DEF CanSnapshot, Snapshot, Sane, Domain
  <2>2. dom.conf # None \/ dom.status # "off"
    BY <1>4 DEF CanSnapshot, Exists, Sane
  <2>3. QED BY <1>4, <2>1, <2>2 DEF Snapped, Sane, Domain
<1>5. ASSUME NEW s \in Snap, CanRevert(s), dom' = Reverted(s) PROVE Sane(dom')
  <2>1. dom.snaps[s] \in Snapshot
    BY <1>5 DEF CanRevert, Sane, Domain
  <2>2. /\ dom.snaps[s].conf \in Conf /\ dom.snaps[s].status \in Status
        /\ dom.snaps[s].conf # None
    BY <2>1, NoneAssumption DEF Snapshot
  <2>3. QED BY <1>5, <2>2 DEF Reverted, Sane, Domain
<1>6. ASSUME NEW s \in Snap, dom.snaps[s] # None, dom' = [dom EXCEPT !.snaps[s] = None]
      PROVE  Sane(dom')
  <2>1. dom # NoDomain
    BY <1>6 DEF NoDomain
  <2>2. QED BY <1>6, <2>1 DEF Sane, Domain
<1>7. QED BY <1>2, <1>3, <1>4, <1>5, <1>6, Fields DEF Definition, Change, Call

LEMMA UndefinedSane ==
  ASSUME Sane(dom), CanUndefine
  PROVE  Sane(Undefined) /\ (dom.status = "off" => Undefined = NoDomain)
         /\ (dom.status # "off" => Undefined.status = dom.status)
BY NoDomainSane DEF Sane, Domain, Undefined, CanUndefine

\* The drives of a definition name nothing, an image, or a drive.
LEMMA DriveSane ==
  ASSUME Sane(dom), dom.conf # None, NEW cd \in Cd, NEW source \in Source
  PROVE  Sane([dom EXCEPT !.conf.cd[cd] = source])
<1> DEFINE new == [dom.conf EXCEPT !.cd[cd] = source]
<1>1. new \in Conf /\ [dom EXCEPT !.conf.cd[cd] = source] = [dom EXCEPT !.conf = new]
  BY DEF Sane, Domain, Conf
<1> HIDE DEF new
<1>2. QED BY <1>1, NoneAssumption DEF Sane, Domain

-----------------------------------------------------------------------------
(* Sessions *)

\* A session that nothing moves keeps what it knows, for as long as it is
\* calm: then the host has not changed either.
LEMMA Unmoved ==
  ASSUME NEW v \in Session, Mine(v),
         page'[v] = page[v], pc'[v] = pc[v], req'[v] = req[v], xml'[v] = xml[v],
         calm'[v] => calm[v] /\ UNCHANGED host
  PROVE  Mine(v)'
<1>1. At(v)'
  BY DEF Mine, At
<1>2. ASSUME calm'[v] PROVE Knows(v)'
  <2>1. dom' = dom /\ Knows(v)
    BY <1>2 DEF host, Mine
  <2>2. QED BY <2>1 DEF Knows, Fresh, Gone, Exists, XmlDesc
<1>3. QED BY <1>1, <1>2 DEF Mine

\* A step of u that changes the host ends the calm of the others.
Calms(u) == /\ calm' \in [Session -> BOOLEAN]
            /\ \A v \in Session : v # u => (calm'[v] => calm[v] /\ UNCHANGED host)

LEMMA CalmAfter ==
  ASSUME TypeOK, NEW u \in Session, NEW failed \in BOOLEAN, Called(u, failed)
  PROVE  Calms(u) /\ (calm'[u] => calm[u] /\ ~failed)
BY DEF Called, Calms, TypeOK

LEMMA CalmKept ==
  ASSUME TypeOK, NEW u \in Session, UNCHANGED host, UNCHANGED calm
  PROVE  Calms(u) /\ (calm'[u] => calm[u])
BY DEF Calms, TypeOK

\* A step that moves no session but u.
OnlyMoves(u) ==
  \A v \in Session : v # u =>
    page'[v] = page[v] /\ pc'[v] = pc[v] /\ req'[v] = req[v] /\ xml'[v] = xml[v]

LEMMA Moves ==
  ASSUME Inv, NEW u \in Session, OnlyMoves(u), Calms(u), TypeOK', Sane(dom)', Mine(u)'
  PROVE  Inv'
<1>1. ASSUME NEW v \in Session, v # u PROVE Mine(v)'
  BY <1>1, Unmoved DEF OnlyMoves, Calms, Inv
<1>2. QED BY <1>1 DEF Inv

\* A step that moves the worker of u on, and no more of the session.
LEMMA Worked ==
  ASSUME Inv, NEW u \in Session, NEW from, NEW to \in Pc, Goto(u, from, to),
         UNCHANGED <<page, req, xml, todo, posts>>,
         Calms(u), Sane(dom)', vols' \in SUBSET Disk,
         pc'[u] = to => At(u)' /\ (calm'[u] => Knows(u)')
  PROVE  Inv'
<1>1. TypeOK'
  BY DEF Inv, TypeOK, Goto, Calms, Sane
<1>2. OnlyMoves(u) /\ pc'[u] = to
  BY DEF Inv, TypeOK, Goto, OnlyMoves
<1>3. QED BY <1>1, <1>2, Moves DEF Mine

\* A change of the domain that is possible happens, in calm.
LEMMA ChangeAfter ==
  ASSUME TypeOK, NEW u \in Session, NEW possible \in BOOLEAN, NEW new,
         Change(u, possible, new)
  PROVE  /\ Calms(u) /\ vols' = vols /\ (calm'[u] => calm[u])
         /\ (possible /\ dom' = new) \/ dom' = dom
         /\ calm'[u] /\ possible => dom' = new
         /\ calm'[u] /\ ~possible => dom' = dom
BY CalmAfter DEF Change, Call, host

-----------------------------------------------------------------------------
(* The steps *)

LEMMA InvInit == Init => Inv
<1> SUFFICES ASSUME Init PROVE Inv
  OBVIOUS
<1>1. PICK disks \in SUBSET Disk, gfx \in Graphics, mem \in Memory :
        dom = [NoDomain EXCEPT !.conf = [disks |-> disks, gfx |-> gfx,
                              mem |-> mem, cd |-> [cd \in Cd |-> ""]]]
  BY DEF Init
<1> DEFINE conf == [disks |-> disks, gfx |-> gfx, mem |-> mem, cd |-> [cd \in Cd |-> ""]]
<1>2. conf \in Conf /\ dom = [NoDomain EXCEPT !.conf = conf]
  BY <1>1 DEF Conf, Source
<1> HIDE DEF conf
<1>3. Sane(dom)
  BY <1>2, NoneAssumption DEF Sane, NoDomain, Domain, Status
<1>4. TypeOK
  <2>1. NoPage \in Page /\ "page" \in Pc /\ PostMax \in 0..PostMax
    BY PostMaxAssumption DEF Page, Pc
  <2>2. vols \subseteq Disk /\ page \in [Session -> Page] /\ pc \in [Session -> Pc]
        /\ req \in [Session -> Request \cup {NoRequest}]
        /\ xml \in [Session -> Conf \cup {None}]
    BY <2>1 DEF Init
  <2>3. todo \in [Session -> SUBSET Disk] /\ calm \in [Session -> BOOLEAN]
    BY DEF Init
  <2>4. posts \in 0..PostMax
    BY <2>1 DEF Init
  <2>5. QED BY <1>3, <2>2, <2>3, <2>4 DEF TypeOK, Sane
<1>5. ASSUME NEW u \in Session PROVE Mine(u)
  BY DEF Init, Mine, At, Knows, Fresh
<1>6. QED BY <1>3, <1>4, <1>5 DEF Inv

LEMMA LoadInv == ASSUME Inv, NEW u \in Session, Load(u) PROVE Inv'
<1>1. TypeOK /\ Sane(dom)
  BY DEF Inv
<1> DEFINE shows == IF Exists THEN [status |-> dom.status, shown |-> XmlDesc.cd] ELSE NoPage
<1>2. /\ pc' = [pc EXCEPT ![u] = "page"] /\ page' = [page EXCEPT ![u] = shows]
      /\ req' = [req EXCEPT ![u] = NoRequest] /\ xml' = [xml EXCEPT ![u] = None]
      /\ calm' = [calm EXCEPT ![u] = TRUE] /\ UNCHANGED <<dom, vols, todo, posts>>
  BY DEF Load, host
<1>3. shows \in Page
  BY <1>1, XmlDescConf DEF Page, Sane, Domain, Conf
<1>4. shows # NoPage => Exists /\ shows.status = dom.status /\ shows.shown = XmlDesc.cd
  OBVIOUS
<1> HIDE DEF shows
<1>5. TypeOK'
  BY <1>1, <1>2, <1>3 DEF TypeOK, Pc
<1>6. OnlyMoves(u) /\ Calms(u)
  BY <1>1, <1>2 DEF OnlyMoves, Calms, TypeOK, host
<1>7. pc'[u] = "page" /\ page'[u] = shows /\ dom' = dom
  BY <1>1, <1>2 DEF TypeOK
<1>8. Fresh(u)'
  BY <1>4, <1>7 DEF Fresh, Exists, XmlDesc
<1>9. Mine(u)'
  BY <1>7, <1>8 DEF Mine, At, Knows
<1>10. QED BY <1>1, <1>5, <1>6, <1>7, <1>9, Moves

LEMMA PostInv == ASSUME Inv, NEW u \in Session, NEW r \in Request, Post(u, r) PROVE Inv'
<1>1. /\ TypeOK /\ Sane(dom) /\ Mine(u) /\ pc[u] = "page" /\ Offered(r, page[u])
      /\ pc' = [pc EXCEPT ![u] = "lookup"] /\ req' = [req EXCEPT ![u] = r]
      /\ posts > 0 /\ posts' = posts - 1
      /\ UNCHANGED <<dom, vols, page, xml, todo, calm>>
  BY DEF Inv, Post, Goto, host
<1>2. TypeOK'
  BY <1>1, PostMaxAssumption DEF TypeOK, Pc
<1>3. OnlyMoves(u) /\ Calms(u)
  BY <1>1 DEF OnlyMoves, Calms, TypeOK, host
<1>4. pc'[u] = "lookup" /\ req'[u] = r /\ page'[u] = page[u] /\ dom' = dom /\ calm'[u] = calm[u]
  BY <1>1 DEF TypeOK
<1>5. At(u)'
  BY <1>1, <1>4 DEF At
<1>6. ASSUME calm'[u] PROVE Knows(u)'
  BY <1>1, <1>4, <1>6 DEF Mine, Knows, Fresh, Exists, XmlDesc
<1>7. QED BY <1>1, <1>2, <1>3, <1>5, <1>6, Moves DEF Mine

LEMMA LookupInv == ASSUME Inv, NEW u \in Session, Lookup(u) PROVE Inv'
<1>1. /\ TypeOK /\ Sane(dom) /\ Mine(u) /\ pc[u] = "lookup"
      /\ req[u] \in Request /\ Offered(req[u], page[u])
      /\ UNCHANGED <<dom, vols, page, req, xml, todo, posts>>
  BY DEF Inv, Lookup, Goto, Mine, At, host
<1>2. page[u] # NoPage
  BY <1>1 DEF Offered
<1>3. ASSUME calm[u] PROVE Fresh(u) /\ Exists
  BY <1>1, <1>2, <1>3 DEF Mine, Knows, Fresh
<1>4. CASE Goto(u, "lookup", FirstStep(req[u])) /\ Called(u, FALSE)
  <2>1. /\ FirstStep(req[u]) \in {"done", "read", "status", "handle"}
        /\ FirstStep(req[u]) = "read" =>
             /\ req[u].op \in {"change_settings", "mount_iso", "umount_iso", "set_console"}
             /\ req[u].op = "set_console" => req[u].value \in Graphics
        /\ FirstStep(req[u]) = "status" => req[u].op = "delete"
        /\ FirstStep(req[u]) = "done" => req[u].op # "delete"
    BY <1>1, Fields DEF FirstStep
  <2>2. Calms(u) /\ (calm'[u] => calm[u])
    BY <1>1, <1>4, CalmAfter
  <2>3. ASSUME pc'[u] = FirstStep(req[u]) PROVE At(u)' /\ (calm'[u] => Knows(u)')
    <3>1. At(u)'
      BY <1>1, <2>1, <2>3 DEF At
    <3>2. calm'[u] => Fresh(u)'
      BY <1>1, <1>3, <2>2 DEF Fresh, Exists, XmlDesc
    <3>3. QED BY <1>1, <2>1, <2>3, <3>1, <3>2 DEF Knows
  <2>4. FirstStep(req[u]) \in Pc
    BY <2>1 DEF Pc
  <2>5. QED BY <1>1, <1>4, <2>2, <2>3, <2>4, Worked DEF TypeOK
<1>5. CASE Goto(u, "lookup", "done") /\ Called(u, Exists)
  <2>1. Calms(u) /\ ~calm'[u]
    BY <1>1, <1>3, <1>5, CalmAfter DEF Exists
  <2>2. pc'[u] = "done" => At(u)'
    BY <1>1 DEF At
  <2>3. QED BY <1>1, <1>5, <2>1, <2>2, Worked DEF TypeOK, Pc
<1>6. QED BY <1>4, <1>5 DEF Lookup

LEMMA HandleInv == ASSUME Inv, NEW u \in Session, Handle(u) PROVE Inv'
<1>1. /\ TypeOK /\ Sane(dom) /\ Mine(u) /\ pc[u] = "handle"
      /\ req[u] \in Request /\ Offered(req[u], page[u])
      /\ UNCHANGED <<page, req, xml, todo, posts>> /\ Goto(u, "handle", "done")
      /\ LifeCycle(u) \/ Definition(u)
  BY DEF Inv, Handle, Goto, Mine, At
<1>2. Sane(dom)' /\ UNCHANGED vols
  BY <1>1, LifeCycleSane, DefinitionSane
<1>3. req[u].op # "delete"
  BY <1>1 DEF LifeCycle, Definition, OneCall
<1>4. \E failed \in BOOLEAN : Called(u, failed)
  <2>1. ASSUME NEW possible, NEW new, Change(u, possible, new)
        PROVE  Called(u, FALSE) \/ Called(u, possible)
    BY <2>1 DEF Change, Call
  <2>2. QED BY <1>1, <2>1 DEF LifeCycle, Definition, OneCall, CanStart, CanSave, Valid, CanSnapshot, CanRevert
<1>5. Calms(u)
  BY <1>1, <1>4, CalmAfter
<1>6. pc'[u] = "done" => At(u)' /\ Knows(u)'
  BY <1>1, <1>3 DEF At, Knows
<1>7. QED BY <1>1, <1>2, <1>5, <1>6, Worked DEF TypeOK, Pc

LEMMA ReadInv == ASSUME Inv, NEW u \in Session, Read(u) PROVE Inv'
<1>1. /\ TypeOK /\ Sane(dom) /\ Mine(u) /\ pc[u] = "read"
      /\ req[u] \in Request /\ Offered(req[u], page[u])
      /\ UNCHANGED <<dom, vols, page, req, posts>>
  BY DEF Inv, Read, Goto, Mine, At, host
<1>2. PICK x \in Conf \cup {None} :
        /\ pc' = [pc EXCEPT ![u] = AfterRead(u, x)]
        /\ xml' = [xml EXCEPT ![u] = x]
        /\ todo' = [todo EXCEPT ![u] = IF req[u].op = "delete" /\ x # None THEN x.disks ELSE {}]
        /\ Called(u, x # XmlDesc)
  BY <1>1, XmlDescConf DEF Read, Goto
<1>3. Calms(u) /\ (calm'[u] => calm[u] /\ x = XmlDesc)
  BY <1>1, <1>2, CalmAfter
<1>4. /\ AfterRead(u, x) \in {"update", "undefine", "erase", "save"}
      /\ AfterRead(u, x) = "update" <=> req[u].op \in {"mount_iso", "umount_iso"}
      /\ AfterRead(u, x) \in {"undefine", "erase"} <=> req[u].op = "delete"
  BY DEF AfterRead
<1>5. TypeOK'
  <2>1. todo' \in [Session -> SUBSET Disk]
    BY <1>1, <1>2 DEF TypeOK, Conf
  <2>2. QED BY <1>1, <1>2, <1>3, <1>4, <2>1 DEF TypeOK, Pc, Calms
<1>6. OnlyMoves(u)
  BY <1>1, <1>2 DEF OnlyMoves, TypeOK
<1>7. /\ pc'[u] = AfterRead(u, x) /\ xml'[u] = x /\ req'[u] = req[u] /\ page'[u] = page[u]
      /\ dom' = dom
  BY <1>1, <1>2 DEF TypeOK
<1>8. At(u)'
  BY <1>1, <1>4, <1>7 DEF Mine, At
<1>9. ASSUME calm'[u] PROVE Knows(u)'
  BY <1>1, <1>3, <1>4, <1>7, <1>9 DEF Mine, Knows, Fresh, Exists, XmlDesc
<1>10. QED BY <1>1, <1>3, <1>5, <1>6, <1>7, <1>8, <1>9, Moves DEF Mine

\* The definition that is saved is, in calm, the one there is, edited: the
\* persistent one of a domain that is off, that of the guest of one that runs.
LEMMA SaveDoes ==
  ASSUME Inv, NEW u \in Session, Save(u)
  PROVE  /\ Calms(u) /\ Sane(dom)' /\ vols' = vols
         /\ req[u] \in Request /\ req[u].op \in {"change_settings", "set_console"}
         /\ calm'[u] => XmlDesc \in Conf /\ dom' = Defined(Edited(req[u], XmlDesc))
         /\ calm'[u] /\ req[u].op = "change_settings" => dom.status = "off"
<1>1. /\ TypeOK /\ Sane(dom) /\ pc[u] = "save" /\ req[u] \in Request
      /\ Offered(req[u], page[u])
      /\ req[u].op = "change_settings" \/ (req[u].op = "set_console" /\ req[u].value \in Graphics)
  BY DEF Inv, Save, Goto, Mine, At
<1>2. calm[u] => /\ XmlDesc \in Conf /\ xml[u] = XmlDesc /\ xml[u] # None
                 /\ req[u].op = "change_settings" => dom.status = "off"
  <2>1. page[u] # NoPage /\ (req[u].op = "change_settings" => page[u].status = "off")
    BY <1>1 DEF Offered
  <2>2. calm[u] => Exists /\ page[u].status = dom.status /\ xml[u] = XmlDesc
    BY <1>1, <2>1 DEF Inv, Mine, Knows, Fresh
  <2>3. QED BY <1>1, <2>1, <2>2, XmlDescConf, NoneAssumption
<1>3. CASE xml[u] = None
  <2>1. UNCHANGED host /\ UNCHANGED calm
    BY <1>3 DEF Save
  <2>2. QED BY <1>1, <1>2, <1>3, <2>1, CalmKept DEF host
<1>4. CASE xml[u] # None
  <2>1. xml[u] \in Conf
    BY <1>1, <1>4 DEF TypeOK
  <2> DEFINE new == Edited(req[u], xml[u])
  <2>2. new \in Draft /\ Valid(new)
    BY <1>1, <2>1, EditedDraft
  <2>3. Sane(Defined(new))
    BY <1>1, <2>2, DefinedSane
  <2>4. Change(u, TRUE, Defined(new))
    BY <1>4, <2>2 DEF Save, Change, Call
  <2>5. /\ Calms(u) /\ vols' = vols /\ (calm'[u] => calm[u] /\ dom' = Defined(new))
        /\ dom' = Defined(new) \/ dom' = dom
    BY <1>1, <2>4, ChangeAfter
  <2>6. QED BY <1>1, <1>2, <2>3, <2>5
<1>5. QED BY <1>3, <1>4

LEMMA SaveInv == ASSUME Inv, NEW u \in Session, Save(u) PROVE Inv'
<1>1. /\ TypeOK /\ Mine(u) /\ Goto(u, "save", "done") /\ pc[u] = "save"
      /\ UNCHANGED <<page, req, xml, todo, posts>>
  BY DEF Inv, Save, Goto
<1>2. pc'[u] = "done" => At(u)' /\ Knows(u)'
  BY <1>1, SaveDoes DEF Mine, At, Knows
<1>3. QED BY <1>1, <1>2, SaveDoes, Worked DEF TypeOK, Pc

\* What a form connects to a drive, or disconnects.
Connected(u) == IF req[u].op = "mount_iso" THEN FormImage(req[u], page[u]) ELSE ""

\* The drive of the form gets what the form says; in calm also the other way
\* round, unless the handler looked for the image of another drive.
LEMMA UpdateDoes ==
  ASSUME Inv, NEW u \in Session, Update(u)
  PROVE  /\ Calms(u) /\ Sane(dom)' /\ vols' = vols
         /\ req[u] \in Request /\ req[u].op \in {"mount_iso", "umount_iso"}
         /\ Offered(req[u], page[u])
         /\ calm'[u] /\ dom.conf # None =>
              \/ dom' = [dom EXCEPT !.conf.cd[req[u].dev] = Connected(u)]
              \/ req[u].op = "umount_iso" /\ page[u].shown[req[u].dev] # FormPath(page[u])
<1>1. /\ TypeOK /\ Sane(dom) /\ pc[u] = "update" /\ req[u] \in Request
      /\ Offered(req[u], page[u]) /\ req[u].op \in {"mount_iso", "umount_iso"}
  BY DEF Inv, Update, Goto, Mine, At
<1>2. calm[u] => xml[u] # None /\ xml[u].cd = page[u].shown
  <2>1. page[u] # NoPage
    BY <1>1 DEF Offered
  <2>2. calm[u] => Exists /\ page[u].shown = XmlDesc.cd /\ xml[u] = XmlDesc
    BY <1>1, <2>1 DEF Inv, Mine, Knows, Fresh
  <2>3. QED BY <1>1, <2>2, XmlDescConf, NoneAssumption
<1> DEFINE refused == xml[u] = None \/ (req[u].op = "umount_iso"
                                       /\ xml[u].cd[req[u].dev] # FormPath(page[u]))
<1>3. CASE refused
  <2>1. UNCHANGED host /\ UNCHANGED calm
    BY <1>3 DEF Update
  <2>2. QED BY <1>1, <1>2, <1>3, <2>1, CalmKept DEF host
<1>4. CASE ~refused
  <2> DEFINE new == [dom EXCEPT !.conf.cd[req[u].dev] = Connected(u)]
  <2>1. Change(u, dom.conf # None, new)
    BY <1>4 DEF Update, Connected
  <2>2. dom.conf # None => Sane(new)
    <3>1. req[u].dev \in Cd
      BY <1>1, Fields
    <3>2. req[u].op = "mount_iso" => FormImage(req[u], page[u]) \in Source
      <4>1. ASSUME req[u].op = "mount_iso"
            PROVE  FormImage(req[u], page[u]) \in Iso \cup Cd
        <5>1. req[u].media \in [Cd -> Iso] /\ "hdb" \in Cd
          BY <1>1, <4>1, Fields DEF Cd
        <5>2. QED BY <3>1, <5>1 DEF FormImage
      <4>2. QED BY <4>1 DEF Source
    <3>3. Connected(u) \in Source
      BY <3>2 DEF Connected, Source
    <3>4. QED BY <1>1, <3>1, <3>3, DriveSane
  <2> HIDE DEF new
  <2>3. /\ Calms(u) /\ vols' = vols
        /\ (dom.conf # None /\ dom' = new) \/ dom' = dom
        /\ calm'[u] /\ dom.conf # None => dom' = new
    BY <1>1, <2>1, ChangeAfter
  <2>4. QED BY <1>1, <2>2, <2>3 DEF new
<1>5. QED BY <1>3, <1>4

LEMMA UpdateInv == ASSUME Inv, NEW u \in Session, Update(u) PROVE Inv'
<1>1. /\ TypeOK /\ Mine(u) /\ Goto(u, "update", "done") /\ pc[u] = "update"
      /\ UNCHANGED <<page, req, xml, todo, posts>>
  BY DEF Inv, Update, Goto
<1>2. pc'[u] = "done" => At(u)' /\ Knows(u)'
  BY <1>1, UpdateDoes DEF Mine, At, Knows
<1>3. QED BY <1>1, <1>2, UpdateDoes, Worked DEF TypeOK, Pc

LEMMA AfterStopPc ==
  ASSUME NEW u \in Session, req[u] \in Request, req[u].op = "delete"
  PROVE  AfterStop(u) \in {"read", "undefine"}
BY DEF AfterStop

LEMMA DeleteStatusInv == ASSUME Inv, NEW u \in Session, DeleteStatus(u) PROVE Inv'
<1>1. /\ TypeOK /\ Sane(dom) /\ Mine(u) /\ pc[u] = "status" /\ req[u] \in Request
      /\ req[u].op = "delete" /\ UNCHANGED <<dom, vols, page, req, xml, todo, posts>>
  BY DEF Inv, DeleteStatus, Goto, Mine, At, host
<1>2. PICK status \in {dom.status} \cup (IF MayFail THEN {"failed"} ELSE {}) :
        /\ Goto(u, "status", IF status = "running" THEN "destroy" ELSE AfterStop(u))
        /\ Called(u, status = "failed")
  BY DEF DeleteStatus
<1>3. Calms(u) /\ (calm'[u] => status = dom.status)
  BY <1>1, <1>2, CalmAfter
<1> DEFINE to == IF status = "running" THEN "destroy" ELSE AfterStop(u)
<1>4. to \in {"destroy", "read", "undefine"} /\ (to = "destroy" <=> status = "running")
  BY <1>1, AfterStopPc
<1> HIDE DEF to
<1>5. pc'[u] = to => At(u)' /\ (calm'[u] => Knows(u)')
  BY <1>1, <1>3, <1>4 DEF Mine, At, Knows
<1>6. to \in Pc
  BY <1>4 DEF Pc
<1>7. QED BY <1>1, <1>2, <1>3, <1>5, <1>6, Worked DEF TypeOK, to

LEMMA DeleteDestroyInv == ASSUME Inv, NEW u \in Session, DeleteDestroy(u) PROVE Inv'
<1>1. /\ TypeOK /\ Sane(dom) /\ Mine(u) /\ pc[u] = "destroy" /\ req[u] \in Request
      /\ req[u].op = "delete" /\ UNCHANGED <<page, req, xml, todo, posts>>
      /\ Goto(u, "destroy", AfterStop(u)) /\ Change(u, dom.status # "off", Stopped)
  BY DEF Inv, DeleteDestroy, Goto, Mine, At
<1>2. /\ Calms(u) /\ vols' = vols /\ (calm'[u] => calm[u])
      /\ dom' = Stopped \/ dom' = dom
      /\ calm'[u] /\ dom.status # "off" => dom' = Stopped
  BY <1>1, ChangeAfter
<1>3. Sane(dom)' /\ (calm'[u] => dom'.status = "off")
  BY <1>1, <1>2, StoppedSane DEF Mine, Knows
<1>4. AfterStop(u) \in {"read", "undefine"}
  BY <1>1, AfterStopPc
<1>5. pc'[u] = AfterStop(u) => At(u)' /\ (calm'[u] => Knows(u)')
  BY <1>1, <1>3, <1>4 DEF Mine, At, Knows
<1>6. AfterStop(u) \in Pc
  BY <1>4 DEF Pc
<1>7. QED BY <1>1, <1>2, <1>3, <1>5, <1>6, Worked DEF TypeOK

LEMMA DeleteDiskInv ==
  ASSUME Inv, NEW u \in Session, NEW disk \in Disk, DeleteDisk(u, disk) PROVE Inv'
<1>1. /\ TypeOK /\ Sane(dom) /\ Mine(u) /\ pc[u] = "erase" /\ req[u].op = "delete"
      /\ UNCHANGED <<page, req, xml, posts>>
      /\ todo' = [todo EXCEPT ![u] = @ \ {disk}]
      /\ Goto(u, "erase", IF todo[u] = {disk} THEN "undefine" ELSE "erase")
  BY DEF Inv, DeleteDisk, Goto, Mine, At
<1>2. Call(u, disk \in vols, vols' = vols \ {disk} /\ UNCHANGED dom)
  BY DEF DeleteDisk
<1>3. Calms(u) /\ (calm'[u] => calm[u])
  <2>1. Called(u, FALSE) \/ Called(u, disk \in vols)
    BY <1>2 DEF Call
  <2>2. (disk \in vols) \in BOOLEAN
    OBVIOUS
  <2>3. QED BY <1>1, <2>1, <2>2, CalmAfter
<1>4. dom' = dom /\ vols' \subseteq vols
  BY <1>2 DEF Call, host
<1>5. PICK to \in {"undefine", "erase"} : pc' = [pc EXCEPT ![u] = to]
  BY <1>1 DEF Goto
<1>6. TypeOK'
  BY <1>1, <1>3, <1>4, <1>5 DEF TypeOK, Pc, Calms
<1>7. OnlyMoves(u) /\ pc'[u] = to
  BY <1>1, <1>5 DEF OnlyMoves, TypeOK
<1>8. At(u)'
  BY <1>1, <1>7 DEF Mine, At
<1>9. ASSUME calm'[u] PROVE Knows(u)'
  BY <1>1, <1>3, <1>4, <1>7, <1>9 DEF Mine, Knows
<1>10. QED BY <1>1, <1>3, <1>4, <1>6, <1>7, <1>8, <1>9, Moves DEF Mine

\* The domain was not running: it is gone, or paused, or could not go.
LEMMA DeleteUndefineInv == ASSUME Inv, NEW u \in Session, DeleteUndefine(u) PROVE Inv'
<1>1. /\ TypeOK /\ Sane(dom) /\ Mine(u) /\ pc[u] = "undefine" /\ req[u].op = "delete"
      /\ UNCHANGED <<page, req, xml, todo, posts>>
      /\ Goto(u, "undefine", "done") /\ Change(u, CanUndefine, Undefined)
  BY DEF Inv, DeleteUndefine, Goto, Mine, At
<1>2. CanUndefine \in BOOLEAN
  BY DEF CanUndefine
<1>3. /\ Calms(u) /\ vols' = vols /\ (calm'[u] => calm[u])
      /\ (CanUndefine /\ dom' = Undefined) \/ dom' = dom
      /\ calm'[u] /\ CanUndefine => dom' = Undefined
      /\ calm'[u] /\ ~CanUndefine => dom' = dom
  BY <1>1, <1>2, ChangeAfter
<1>4. Sane(dom)'
  BY <1>1, <1>3, UndefinedSane
<1>5. ASSUME calm'[u] PROVE Gone'
  <2>1. dom.status \in {"off", "paused"}
    BY <1>1, <1>3, <1>5 DEF Mine, Knows, Sane, Domain, Status
  <2>2. CASE CanUndefine
    BY <1>1, <1>3, <1>5, <2>1, <2>2, UndefinedSane DEF Gone
  <2>3. CASE ~CanUndefine
    BY <1>1, <1>3, <1>5, <2>1, <2>3 DEF Gone, CanUndefine, Sane
  <2>4. QED BY <2>2, <2>3
<1>6. pc'[u] = "done" => At(u)' /\ (calm'[u] => Knows(u)')
  BY <1>1, <1>5 DEF Mine, At, Knows
<1>7. QED BY <1>1, <1>3, <1>4, <1>6, Worked DEF TypeOK, Pc

LEMMA GuestStopsInv == ASSUME Inv, GuestStops PROVE Inv'
<1>1. /\ TypeOK /\ Sane(dom) /\ dom' = Stopped /\ calm' = [u \in Session |-> FALSE]
      /\ UNCHANGED <<vols, page, pc, req, xml, todo, posts>>
  BY DEF Inv, GuestStops
<1>2. Sane(dom)'
  BY <1>1, StoppedSane
<1>3. TypeOK'
  BY <1>1, <1>2 DEF TypeOK, Sane
<1>4. ASSUME NEW u \in Session PROVE Mine(u)'
  BY <1>1 DEF Inv, Mine, At
<1>5. QED BY <1>2, <1>3, <1>4 DEF Inv

LEMMA InvNext == Inv /\ [Next]_vars => Inv'
<1> SUFFICES ASSUME Inv, [Next]_vars PROVE Inv'
  OBVIOUS
<1>1. CASE UNCHANGED vars
  <2>1. TypeOK' /\ Sane(dom)'
    BY <1>1 DEF vars, host, Inv, TypeOK
  <2>2. ASSUME NEW u \in Session PROVE Mine(u)'
    BY <1>1, Unmoved DEF vars, Inv, host
  <2>3. QED BY <2>1, <2>2 DEF Inv
<1>2. ASSUME NEW u \in Session, NEW r \in Posts, Post(u, r) PROVE Inv'
  BY <1>2, PostInv, PostsAssumption
<1>3. ASSUME NEW u \in Session, Delete(u) PROVE Inv'
  BY <1>3, DeleteStatusInv, DeleteDestroyInv, DeleteDiskInv, DeleteUndefineInv DEF Delete
<1>4. QED BY <1>1, <1>2, <1>3, LoadInv, LookupInv, HandleInv, ReadInv, SaveInv, UpdateInv,
             GuestStopsInv DEF Next

LEMMA Invariant == Spec => []Inv
BY InvInit, InvNext, PTL DEF Spec

-----------------------------------------------------------------------------
(* The theorems *)

\* A domain is always one that libvirt can have; an instance that was deleted
\* in calm is gone, or is paused, or libvirt had to refuse.
THEOREM DeletedGoes == Spec => []GoneWhenDeleted
<1>1. Inv => GoneWhenDeleted
  BY DEF Inv, Mine, Knows, Gone, GoneWhenDeleted, DeletedIsGone
<1>2. QED BY <1>1, Invariant, PTL

\* A request leaves one of the steps that end it by that step.
LEMMA EndsBy ==
  ASSUME Inv, [Next]_vars, NEW u \in Session, pc'[u] # pc[u]
  PROVE  /\ pc[u] = "save" => Save(u)
         /\ pc[u] = "update" => Update(u)
         /\ pc[u] = "handle" => Handle(u)
<1>1. pc \in [Session -> Pc]
  BY DEF Inv, TypeOK
<1>2. ASSUME NEW v \in Session, NEW from, NEW to, Goto(v, from, to)
      PROVE  v = u /\ pc[u] = from
  BY <1>1, <1>2 DEF Goto
<1>3. ASSUME NEW v \in Session, Load(v)
      PROVE  v = u /\ pc[u] \in {"page", "done"}
  BY <1>1, <1>3 DEF Load
<1>4. ~UNCHANGED vars /\ ~GuestStops
  BY DEF vars, GuestStops
<1>5. ASSUME NEW v \in Session, NEW r \in Posts, Post(v, r) PROVE pc[u] = "page"
  BY <1>2, <1>5 DEF Post
<1>6. ASSUME NEW v \in Session, Lookup(v) PROVE pc[u] = "lookup"
  BY <1>2, <1>6 DEF Lookup
<1>7. ASSUME NEW v \in Session, Read(v) PROVE pc[u] = "read"
  BY <1>2, <1>7 DEF Read
<1>8. ASSUME NEW v \in Session, Delete(v)
      PROVE  pc[u] \in {"status", "destroy", "erase", "undefine"}
  BY <1>2, <1>8 DEF Delete, DeleteStatus, DeleteDestroy, DeleteDisk, DeleteUndefine
<1>9. ASSUME NEW v \in Session, Save(v) PROVE v = u /\ pc[u] = "save"
  BY <1>2, <1>9 DEF Save
<1>10. ASSUME NEW v \in Session, Update(v) PROVE v = u /\ pc[u] = "update"
  BY <1>2, <1>10 DEF Update
<1>11. ASSUME NEW v \in Session, Handle(v) PROVE v = u /\ pc[u] = "handle"
  BY <1>2, <1>11 DEF Handle
<1>12. QED
  BY <1>3, <1>4, <1>5, <1>6, <1>7, <1>8, <1>9, <1>10, <1>11 DEF Next

\* Saving the form of the settings in calm meets a domain that is off; saving
\* it, or that of the console, changes its part of the definition there is,
\* and nothing else.
THEOREM EditsKeep == Spec => EditsKeepTheRest
<1> DEFINE Keeps(u) == /\ req[u].op = "change_settings" => dom.status = "off"
                       /\ dom' = Defined(Edited(req[u],
                                   IF dom.status = "off" THEN dom.conf ELSE dom.live))
<1>1. ASSUME Inv, NEW u \in Session, Save(u), calm'[u] PROVE Keeps(u)
  <2>1. XmlDesc = IF dom.status = "off" THEN dom.conf ELSE dom.live
    BY <1>1 DEF Inv, Sane, XmlDesc
  <2>2. QED BY <1>1, <2>1, SaveDoes
<1>2. Inv /\ [Next]_vars => [\A u \in Session : CalmEnd(u, {"save"}) => Keeps(u)]_vars
  BY <1>1, EndsBy DEF CalmEnd
<1>3. QED BY <1>2, Invariant, PTL DEF Spec, EditsKeepTheRest

\* What the settings form says is what the definition gets, if both custom
\* fields are filled or neither.
LEMMA SettingsTake ==
  ASSUME NEW r \in Request, r.op = "change_settings",
         r.maxCustom = None <=> r.curCustom = None,
         NEW c \in Conf, dom \in Domain
  PROVE  Defined(Edited(r, c)).conf.mem = AtMost(Filled(r))
<1>1. r.max \in Nat \ {0} /\ r.cur \in Nat \ {0}
      /\ (r.maxCustom # None => r.maxCustom \in Nat \ {0} /\ r.curCustom \in Nat \ {0})
  BY Fields, MemAssumption
<1>2. Settings(r) = Filled(r) /\ Filled(r) \in [max : Nat \ {0}, cur : Nat \ {0}]
  BY <1>1 DEF Settings, Filled, ToULong
<1> DEFINE new == [c EXCEPT !.mem = Settings(r)]
<1>3. Edited(r, c) = new /\ new.mem = Filled(r)
  BY <1>2 DEF Edited, Conf
<1> HIDE DEF new
<1>4. Defined(new).conf = [new EXCEPT !.mem.cur =
                             IF @ = 0 \/ @ > new.mem.max THEN new.mem.max ELSE @]
  BY DEF Defined, Domain
<1>5. new.mem \in [max : Nat \ {0}, cur : Nat \ {0}] /\ "mem" \in DOMAIN new
  BY <1>2, <1>3 DEF new, Conf
<1>6. Defined(new).conf.mem = AtMost(new.mem)
  BY <1>4, <1>5 DEF AtMost
<1>7. QED BY <1>3, <1>6

\* The forms of the settings and of the drives have the effect they say, and
\* snapshots are taken, and brought back, of a domain that is off.
THEOREM FormsDo == Spec => FormsDoAsShown
<1> DEFINE Takes(u) ==
      LET r == req[u]
          reliable == r.dev = "hdb" \/ ShownEmpty(page[u], "hdb")
      IN /\ r.op = "change_settings" /\ (r.maxCustom = None <=> r.curCustom = None)
            => dom'.conf.mem = AtMost(Filled(r))
         /\ r.op = "mount_iso" /\ reliable => dom'.conf.cd[r.dev] = r.media[r.dev]
         /\ r.op = "umount_iso" /\ reliable => dom'.conf.cd[r.dev] = ""
<1>1. ASSUME Inv, NEW u \in Session, Save(u), calm'[u] PROVE Takes(u)
  <2>1. /\ req[u] \in Request /\ req[u].op \in {"change_settings", "set_console"}
        /\ XmlDesc \in Conf /\ dom' = Defined(Edited(req[u], XmlDesc)) /\ dom \in Domain
    BY <1>1, SaveDoes DEF Inv, TypeOK
  <2>2. QED BY <2>1, SettingsTake
<1>2. ASSUME Inv, NEW u \in Session, Update(u), calm'[u], dom.conf # None PROVE Takes(u)
  <2>1. /\ req[u] \in Request /\ req[u].op \in {"mount_iso", "umount_iso"}
        /\ Offered(req[u], page[u]) /\ req[u].dev \in {"hda", "hdb"}
        /\ \/ dom' = [dom EXCEPT !.conf.cd[req[u].dev] = Connected(u)]
           \/ req[u].op = "umount_iso" /\ page[u].shown[req[u].dev] # FormPath(page[u])
    BY <1>2, UpdateDoes, Fields DEF Cd
  <2>2. dom.conf \in Conf /\ dom \in Domain
    BY <1>2 DEF Inv, TypeOK, Domain
  <2>3. ASSUME req[u].dev = "hdb" \/ ShownEmpty(page[u], "hdb")
        PROVE  dom'.conf.cd[req[u].dev] =
                 IF req[u].op = "mount_iso" THEN req[u].media[req[u].dev] ELSE ""
    <3>1. req[u].op = "mount_iso" => FormImage(req[u], page[u]) = req[u].media[req[u].dev]
      BY <2>1, <2>3 DEF Offered, FormImage, Cd
    <3>2. req[u].op = "umount_iso" => FormPath(page[u]) = page[u].shown[req[u].dev]
      BY <2>1, <2>3 DEF Offered, FormPath
    <3>3. dom' = [dom EXCEPT !.conf.cd[req[u].dev] = Connected(u)]
      BY <2>1, <3>2
    <3>4. dom'.conf.cd[req[u].dev] = Connected(u)
      BY <2>1, <2>2, <3>3 DEF Domain, Conf, Cd
    <3>5. QED BY <3>1, <3>4 DEF Connected
  <2>4. QED BY <2>1, <2>3
<1>3. ASSUME Inv, NEW u \in Session, Handle(u), calm'[u],
             req[u].op \in {"snapshot", "revert_snapshot"}
      PROVE  dom.status = "off"
  <2>1. pc[u] = "handle" /\ Mine(u) /\ TypeOK /\ Offered(req[u], page[u])
    BY <1>3 DEF Inv, Handle, Goto, Mine, At
  <2>2. calm[u]
    <3>1. \E failed : Called(u, failed)
      BY <1>3 DEF Handle, LifeCycle, Definition, OneCall, Change, Call
    <3>2. QED BY <1>3, <3>1 DEF Called
  <2>3. QED BY <1>3, <2>1, <2>2 DEF Offered, Mine, Knows, Fresh
<1>4. Inv /\ [Next]_vars =>
        [\A u \in Session : CalmEnd(u, {"save", "update"}) /\ dom.conf # None => Takes(u)]_vars
  BY <1>1, <1>2, EndsBy DEF CalmEnd
<1>5. Inv /\ [Next]_vars =>
        [\A u \in Session : CalmEnd(u, {"handle"})
           /\ req[u].op \in {"snapshot", "revert_snapshot"} => dom.status = "off"]_vars
  BY <1>3, EndsBy DEF CalmEnd
<1>6. QED
  BY <1>4, <1>5, Invariant, PTL DEF Spec, FormsDoAsShown, FormsTakeEffect, SnapshotsWhenOff

\* The disks of an instance go only when it does not run.
THEOREM DisksOutlast == Spec => DisksOutlastGuest
<1>1. ASSUME Inv, [Next]_vars, NEW u \in Session, calm'[u], todo'[u] # todo[u], vols' # vols
      PROVE  dom.status # "running"
  <2>1. PICK disk \in Disk : DeleteDisk(u, disk)
    <3>1. todo \in [Session -> SUBSET Disk]
      BY <1>1 DEF Inv, TypeOK
    <3>2. ASSUME NEW v \in Session, Load(v) \/ Lookup(v) \/ Handle(v) \/ Save(v) \/ Update(v)
                                     \/ \E r \in Posts : Post(v, r)
          PROVE  FALSE
      BY <1>1, <3>2 DEF Load, Lookup, Handle, Save, Update, Post
    <3>3. ASSUME NEW v \in Session, Read(v) PROVE FALSE
      BY <1>1, <3>3 DEF Read, host
    <3>4. ASSUME NEW v \in Session, DeleteStatus(v) \/ DeleteDestroy(v) \/ DeleteUndefine(v)
          PROVE  FALSE
      BY <1>1, <3>4 DEF DeleteStatus, DeleteDestroy, DeleteUndefine
    <3>5. ASSUME NEW v \in Session, NEW disk \in Disk, DeleteDisk(v, disk) PROVE v = u
      BY <1>1, <3>1, <3>5 DEF DeleteDisk
    <3>6. QED BY <1>1, <3>2, <3>3, <3>4, <3>5 DEF Next, Delete, GuestStops, vars
  <2>2. pc[u] = "erase" /\ req[u].op = "delete" /\ calm[u]
    BY <1>1, <2>1 DEF Inv, DeleteDisk, Goto, Call, Called, Mine, At
  <2>3. QED BY <1>1, <2>2 DEF Inv, Mine, Knows
<1>2. Inv /\ [Next]_vars =>
        [\A u \in Session : calm'[u] /\ todo'[u] # todo[u] /\ vols' # vols
           => dom.status # "running"]_vars
  BY <1>1
<1>3. QED BY <1>2, Invariant, PTL DEF Spec, DisksOutlastGuest

=============================================================================
