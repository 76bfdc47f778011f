# Formal models of Virtlyst / fleet_compute_cmc

Virtlyst is a web application (C++, Qt, Cutelyst) that manages a fleet of
compute servers through libvirt, and comes with two console clients that run in
the browser (JavaScript): one for VNC, one for SPICE.  This directory holds TLA+
modules for the server, the clients and the scripts of the pages,
configurations that check them with TLC, and proofs for TLAPS.

Paths of C++ files are relative to `src/Virtlyst/src/`, those of JavaScript files
to `src/Virtlyst/root/static/js/`, pages (`*.html`) are in
`src/Virtlyst/root/src/`.

1. [The system](#1-the-system)
2. [Plan](#2-plan)
3. [The modules](#3-the-modules)
4. [The runs](#4-the-runs)
5. [The proofs](#5-the-proofs)
6. [What the code does that its texts do not say](#6-what-the-code-does-that-its-texts-do-not-say)
7. [What is not modelled](#7-what-is-not-modelled)

## 1. The system

On the server a master process (`src/Virtlyst/config.ini`: `master = true`)
starts worker processes (`processes = auto`, `threads = 1`) and replaces those
that die.  A worker runs one event loop and, in it, one request from its start
to its end.  Workers share no memory; they share an SQL database and the libvirt
daemons of the hosts.  So the unit of interleaving is one SQL statement or one
libvirt call, and between two of them anything another worker does may happen.

In the browser each page is one thread.  A callback runs to its end; what
interleaves are callbacks: of sockets, timers, images, media and of the user.  A
console client talks through a websocket to `ws.cpp` and, through it, to the
display of a guest; the SPICE client has a websocket for each of its channels.

| Component | State it keeps | Operations | Interacts with | What is hard | What makes it correct |
|---|---|---|---|---|---|
| Server registry (`virtlyst.cpp`, `root.cpp`) | `m_connections`: per worker, a `ServerConn` for each row of `servers_compute` | `updateConnections` at the start of every request, `servers()`, `connection(id)`, `ServerConn::clone`, `isonline` | the database, every page | the refresh is a loop of statements over a table that others edit; the online test is asked twice; pointers outlive what they point to | a request sees one version of the table; the online test by name is right by key; no dangling pointer |
| Server administration (`server.cpp`) | `servers_compute` | create, update, rename, delete | registry of every worker | edits between the statements of a refresh; UNIQUE names | edits never mix into a running request |
| Libvirt connection (`lib/connection.cpp`) | one handle per `Connection` | open, `isAlive`, clone, lookups, creation of pools, domains, networks, interfaces, secrets | libvirt | failures are logged and ignored | a page that gets a connection can use it |
| Console proxy (`ws.cpp`, `console.cpp`) | a TCP socket and a `QBuffer` per websocket | handshake, four callbacks, binary frames | the browser's VNC or SPICE client, the domain's display | callbacks in any order around the moment of connection | the byte stream arrives in order, once; no half-open session |
| Storage pools and volumes (`storages.cpp`, `lib/storagepool.cpp`, `lib/storagevol.cpp`) | none of its own; libvirt's pools and volumes | define, build, start, stop, delete, autostart; create, delete, clone, upload | libvirt | multi-call handlers whose results are ignored; an upload loop | a created pool runs; an upload is the file; a worker does not die |
| Instances and domains (`instances.cpp`, `lib/domain.cpp`, `lib/domainsnapshot.cpp`) | the definition a handler read (`m_xml`); libvirt's domains | life cycle, delete, snapshots, forms that edit the definition, CD drives | libvirt, the pages' forms, storage volumes | read-modify-write of whole definitions; a running guest has two; pages out of date | a form changes its own part only; running guests keep their disks |
| Creation of domains (`create.cpp`) | `create_flavor`; libvirt's domains and volumes | flavors; from XML; with a new, cloned or existing volume | storage, libvirt | a volume made first, a domain second; test of the name and definition apart | no volume is left over; no domain is replaced |
| VNC client (`novnc/websock.js`, `rfb.js`, `ui.js`, `input.js`, `display.js`) | receive queue, `rfb_state`, `FBU`, timers, `keyDownList`, viewport and `cleanRect`, `renderQ` | connect, disconnect, password; handshake; all messages and encodings; keys and mouse; drawing | `ws.cpp`, a VNC server, the page | messages in any pieces; timers and sockets of an earlier session; events without focus; images that load late | the stream is understood in any pieces; a restart is clean; no key stays pressed on the server; the picture follows |
| SPICE client (`spice-html5/`) | a connection per channel, wire reader, tokens and tasks of the agent, surfaces and image cache, sound queue, modifiers | link, ticket, channels; each message; file transfer; drawing; playback; inputs | `ws.cpp`, a SPICE server, a guest's agent, the page | one of several channels fails; pieces; offsets counted by hand; tokens shared by transfers; asynchronous decoding | a session stops as a whole; messages are read where they lie; chunks in order; canvas and cache are the server's |
| Page scripts (`jquery.tablesorter.js`, `bootstrap-multiselect.js`) | sort list, counters and marks; options, checkboxes, hidden field, list | sort by clicks; pick and drop values | the pages of instances, storages and of a new domain | one choice kept in four places; a click before the timer of the last | rows are as marked; what is posted is what is shown |
| Users and login (`users.cpp`, `sqluserstore.cpp`, `root.cpp`) | table `users`, sessions | create, edit, password, delete, login, logout | the database | existence test and INSERT apart | one row per name |
| Networks, interfaces, secrets | libvirt's | define, start, stop, delete, autostart | libvirt | as for pools | as for pools |
| Usage figures (`info.cpp`, statistics in `lib/domain.cpp`) | cookies of the browser; samples | windows of five points; CPU, network and disk rates | libvirt, the browser | a nested event loop of one second (`lib/domain.cpp:920`); integer arithmetic | windows keep the last five; figures are what was measured |
| Pages, schema, codecs | none shared | templates; SQL; pictures, sound, big numbers | | | |

Hard behaviours, with their lines, are listed in `PROJECT.json` under
`hazards`, each with the properties that cover it or the reason none does.

## 2. Plan

The order is that of the harm a mistake does, and of how hard it is to test.

| Step | Module | Contents | State |
|---|---|---|---|
| 1 | `ServerDirectory` | what the workers promise about the table of servers | done |
| 2 | `Fleet`, `MCFleet`, `FleetProofs` | registry and administration; implements `ServerDirectory` | done, proved |
| 3 | `ConsoleProxy`, `ConsoleProxyProofs` | the relay | done, proved |
| 4 | `Storage`, `MCStorage`, `StorageProofs` | one pool, its volumes, uploads | done, proved |
| 5 | `Instances`, `MCInstances`, `InstancesProofs` | one domain, its page's forms, several sessions | done, proved |
| 6 | `Create`, `PagesProofs` | volume first, domain second, name test | done, proved |
| 7 | `VncSession`, `VncSessionProofs` | states, timers and sockets of the VNC client, under both pages | done, proved |
| 8 | `Websock`, `RfbStream`, `VncInput`, `VncDisplay`, `MCVncClient`, `VncClientProofs` | what happens within a VNC session | done; handshake, screen and devices proved |
| 9 | `SpiceSession`, `SpiceWire`, `SpiceLayout`, `SpiceMsg`, `SpiceAgent`, `SpiceDisplay`, `SpiceInputs`, `Webm`, `SpicePlayback`, `MCSpiceClient`, `SpiceClientProofs` | the SPICE client | done; all but `SpiceMsg` proved |
| 10 | `TableSorter`, `Multiselect`, `MCPages`, `PagesProofs` | the scripts of the pages | done, proved |
| 11 | theorems about `SpiceWire`, `SpicePlayback`, `SpiceAgent` | what the wire reader keeps, chunks and bytes in order | done |
| 12 | `Users` | users as a set with unique names; abstract specification: a map from names to rows, edited atomically | open |
| 13 | `Figures` | `prettyKibiBytes`, the five-point windows, the CPU sample, and the nested event loop | open |

Further abstract specifications worth stating: a relay as a FIFO channel, which
`ConsoleProxy` implements for VNC; a definition store with atomic field
updates, which calm sessions of `Instances` implement.

No module declares a RECURSIVE operator, so all of them can be proved about.

## 3. The modules

All modules take their sizes from CONSTANTS.  A comment "not in the code" marks
the few variables that only remember something for a property.  Operators named
`X_Y` behind a comment "Mutant" or "Changed" are faulty forms of `X`; nothing
uses them but the mutants of `PROJECT.json`, each of which makes one property
fail.

### ServerDirectory and Fleet

`ServerDirectory` is the promise: a request is answered from the table as it
stood at one instant between its start and its answer (or from an empty table,
if the statement failed).  The table, the phase of each worker, the view its
request is answered from and the servers its answer names are all there is.

`Fleet` is the code.  One step is one SQL statement with what runs up to the
next.

| Variable | Code |
|---|---|
| `db` | `servers_compute`; of a row the model keeps the name and the type of connection |
| `fresh` | rows whose `last_identity_update` is within 7 minutes; written from outside this repository |
| `pc`, `op` | where a worker is, and the page its request is for |
| `snap`, `todo` | the rows of the SELECT of `updateConnections`; what a loop has still to visit |
| `reg` | `m_connections` |
| `page` | what `servers()` or `connection()` handed to the template |
| `orphans` | `ServerConn` objects nothing points to any more, counted up to `OrphanCap` |
| `quiet` | nothing changed and nothing failed during the request (not in the code) |

| Action | Code |
|---|---|
| `Request`, `TurnAway` | `Root::Auto`, `Root::login` |
| `Select`, `LoadRow`, `Prune` | `updateConnections`: the SELECT, one turn of its loop with the `isonline` statement in it, the removal of what the SELECT did not return |
| `List`, `CloneServer`, `ListDone` | `servers()`, one `ServerConn::clone` with its own `isonline` |
| `CloneNull` | the same call on an entry without a connection: the worker dies |
| `Host` | `connection(id)`, with the branch that would reopen a connection |
| `Add`, `Rename`, `Delete`, `Refused` | the four handlers of `server.cpp`, and a statement that fails or that UNIQUE refuses |
| `Other`, `Done`, `Restart` | the other pages, the end of the Context, the master process |
| `Identify`, `Expire` | the writer of `last_identity_update`, and time |

At this commit the call that opens a libvirt handle is commented out
(`lib/connection.cpp:106`) and `isAlive` is true for everything
(`lib/connection.cpp:211`).  The model follows the code: `NewConn` is a
connection that is "unopened".  The other modules describe what the handlers do
with a connection that has a handle, which is what they are written for;
without one every libvirt call fails, a case they contain.

`isonline`'s INTERVAL is the syntax of PostgreSQL; on SQLite the statement
fails, and the server reads as offline: a failing statement is in the model
(`MayFail`).

A request that waits in `getStats` (`lib/domain.cpp:920`) runs a nested event
loop, in which its worker may serve another request.  `Fleet` runs requests
one after the other.  The suspended request holds its own copy of the
connection, and reads the registry no more.

### ConsoleProxy

One session.  Bytes are numbered, so what arrives can be compared with what was
sent.  `Connected`, `Ended`, `ReadyRead` and `Frame` are the callbacks of
`Ws::index` (`ws.cpp:58-92`); `Index` and `Refuse` its body.  `QBuffer` is
modelled by what it does: opening goes back to the start and truncates nothing,
writing leaves the position behind what was written, `readAll` returns what
lies behind the position.  `kind` tells a VNC client, which waits for the
server, from a SPICE client, which speaks first.  The outcome `unheard` of
`Index` is a connection that fails inside `connectToHost`, before the callbacks
are there.

### Storage

One pool, its volumes, and workers.  A handler is a sequence of libvirt calls;
each is a step, with `Call(w, possible, effect)`: the call has its effect, or
fails, for sure if it is not possible.  A volume is a sequence of cells, the
i-th cell of a file of length n is `<<n, i>>`.  `held` keeps apart a handle of
this pool and one of a pool of the same name that was undefined: libvirt looks
handles up by UUID.  `createStoragePool`, `...Ceph` and `...NetFs` make the same
calls and are one group of actions (`Define`, `Build`, `CreateStart`,
`CreateAutostart`).  `UploadRead`, `Send`, `SendFails`, `UploadAtEnd` are the
two loops of `StorageVol::upload` (`lib/storagevol.cpp:143-178`); `virStreamSend`
may take any part of what it is given, after which the code sends the buffer from
its start again (`Sent`).  `whole` (not in the code) remembers whether every send
took all.  A read that
fails sends the outer loop round for ever: `spinning`.  A null volume in
`iso_upload` is the death of the worker: `crashed`.  Files with an empty name
are skipped by the handler and do not occur.

### Instances

One domain, its disk images, and sessions: a browser with the worker that
serves it.  `Load` renders the page, `Offered` is the forms the templates give
for the status shown: settings, snapshots and the start only of a domain that is
off, but the forms of the console always, because their buttons only look
disabled while the guest runs (`instance.html:237-239`, `:283-285`, `:319-321`).
`Post` sends one, the rest is `Instances::instance` (and
`::index`, whose forms are some of the same).  libvirt keeps a persistent
definition (`conf`) and, of a running guest, another (`live`).  `xmlDoc` reads
the latter if there is one (`VIR_DOMAIN_XML_SECURE` alone), `saveXml` and
`updateDevice` write the former: this is where whole-definition edits can undo
others.  A definition is reduced to disks, two CD drives, one setting of the
console (type, password and keymap are written alike) and the two memory sizes
(description and CPUs are written like these).  `Settings`, `FormImage` and
`FormPath` compute what the handler takes from the parameters, whose map keeps
equal keys newest first.  A domain that is deleted is not made again, except by
a session that was editing it.

### Create

Workers that serve `Create::index`, while other pages undefine domains and add
or delete volumes (`Elsewhere`).  `List` is the list of domains every request
begins with; `After` sends a text on to `Define` unless its name is in that list
(`create.cpp:97`) and a form to the branch of its disk, without looking at the
name.  `MakeVolume`, `FindTemplate` and `CloneTemplate`, and `FindImage` for each
image, are the three branches; a template or an image that is not found leaves
the domain without that disk and is no error.  `Define` is `domainDefineXml` or
`createDomain`; what libvirt accepts is `Accepts`: a name that is taken needs the
UUID it has.  `OutOfLetters` is `takeFirst` of a list of drive letters that is
empty.  A volume and its path are one name, and there is one pool, which runs.

### The VNC client

`Websock` is `websock.js`: the queue with its index, the test for enough bytes
that steps back, and the send queue the browser holds back.

`RfbStream` extends it with the reader.  A server of any version (a version the
client does not know, it refuses at once), scheme and
verdict answers what the client sends (`Server`); `Receive` delivers any piece of
what is under way and `handle_message` runs to `Return` without interruption, as
the code does: one action per state of `init_msg`, per message type of
`normal_msg` and per encoding, each with its own point to continue from (`FBU`).
`MsgTimer` is the timer that continues when bytes remain, `SendTimer` the one
that flushes.  Bytes the client does not look at are `Pad`; those of lengths,
masks and types are numbers.  A byte that is not there is `undefined` in the code,
which a shift makes 0 and an addition `NaN`, and no reader waits for `NaN` bytes:
`rQpeek16`, `rQpeek32` and `rQwait` do the same, and a reader that does not wait
moves `rQi` past the end of the queue.  `torn` remembers the messages this
happened to, those whose header no reader waits for: a set the properties
except.

`VncSession` is the life of a session: `updateState` with its effects on timers,
grabs and sockets, the events of a socket (`onopen`, `onmessage`, `onclose(i)`
also of an earlier socket), the four timers, and the two pages: buttons, panels
and passwords of `ui.js`, and `console-vnc.html`, which connects once.  The first
is the library's own; Virtlyst serves the file, and none of its pages loads it.
`leftover`, `killed` and `intruded` (not in the code) remember that a connection
began while something of the last was left, was ended by it, or was disturbed by
it.

`VncInput` is `input.js` with the handlers of `rfb.js`.  `keyDownList`, `pending`,
`mouse_buttonMask` and `viewportDrag` are the code's; `remote` and `remoteMask`
are what the server was told.  `uneven`, `composed`, `odd` and `functions` remember
what the properties except: a key
whose events were not all heard, a keypress without an entry of its own (a dead
key), two buttons at once, `sendCtrlAltFN`.

`VncDisplay` follows a few pixels of the framebuffer through requests, the
server's answers, the queue that waits for images, and the canvas that shows the
viewport.  A pixel is the number of the change it shows.  `viewportChange`,
`getCleanDirtyReset` (`Reset`, `fbUpdateRequests`) and `scan_renderQ` compute with
rectangles as the code does; the framebuffer begins with the size the server named
(`FirstSize`) and changes to any of `Sizes`; `After` is the canvas after each action of a queue.

### The SPICE client

`SpiceSession` is every connection with its socket, timer and state of the link,
the list of channels, and `stop()`; `SpiceWire` the bytes of one channel: the
reader that asks for the next size within the callback of the last one, link,
ticket, `process_common_messages` and acknowledgements (`written`, the messages the
server has sent, is only there to compare with those handled).

`SpiceLayout` describes a message as a sequence of fields with widths, some of
them offsets of parts elsewhere.  `SpiceMsg` defines each class of `spicemsg.js`
and `spicetype.js` with it; the machine writes a class into the buffer its
`buffer_size` gives, or reads one field by field, following offsets, and compares
where it is with where the field lies.  `Webm` does the same for the elements
of `webm.js`.

`SpicePlayback` feeds clusters and blocks to a source buffer that takes one at a
time; `SpiceAgent` counts tokens, queues messages and runs the transfers of
files with a reader each (`ReadNext` is a turn of the loop of `main.js:170`, `Resume`
all of them: a task that ended while it waited uses up a turn, as in the code);
`SpiceDisplay` paints surfaces of a few boxes,
synchronously and when a JPEG has loaded, and keeps the cache by keys two ids
may share (`KeyOf`); `SpiceInputs` relates the modifiers the user holds, those
the page takes for pressed, and those of the guest.  `Meta` is a modifier of its
own kind there: the page compares with the code 0xE0B5, which no key event has,
so it never follows the key, and the correction it sends, the same code pressed or
released, does nothing to the guest's (`Followed`, `Handle`).

### The pages' scripts

`TableSorter` is the click handler of the sorter in the setting of the two
pages, the timer behind it, and `status()`, which rewrites cells without telling
the sorter.  `Multiselect` keeps options, checkboxes, hidden field and list.

### MC modules

`MCFleet`, `MCStorage` and `MCInstances` choose requests and symmetries.
`MCVncClient`, `MCSpiceClient` and `MCPages` put components that share no state
side by side: `part` chooses one, whose steps a behaviour takes.  So one run of
TLC covers the client, and a property of the composition is one of its part.

## 4. The runs

| Run | Instance | Shows |
|---|---|---|
| `fleet` | 2 workers, 2 keys, 2 names, no failures; 554,652 states up to symmetry | the registry of a dispatched request is its own SELECT; a quiet request is right about who is online; `ServerDirectory` is implemented |
| `fleet_faults` | 2 workers, 1 server, TCP and SSH, failing statements, crashes; 107,204 states | a quiet request never kills the worker, no dangling pointer, and every worker gets ready again |
| `console` | frames of 1 to 3 bytes, 7 bytes in all; 3,109 states | the VNC stream is whole and in order; from the connection on every stream is, and nothing arrives twice; a display that goes closes the websocket |
| `storage` | 2 workers, one volume, files of 1 and 3 cells with a buffer of 2, sends of any size; 568,294 states | a worker dies only by interference or on a stopped pool, and a pool created in calm runs and starts with the host (`CalmRequests`); an upload in calm is exact, or as long as the file if a send was short (`UploadExact`) |
| `storage_faults` | 1 worker, every request, a volume and its clone, two files per upload, empty files, sends of any size, any call may fail; 422,640 states | every request ends unless a file cannot be read |
| `instances` | 2 sessions, 3 posts of any form, any call may fail; 883,180 states | forms keep the rest of the definition they read (`EditsKeepTheRest`) and do what they say, snapshots are cold (`FormsDoAsShown`), a running guest keeps its disks, a deleted instance is gone (`GoneWhenDeleted`), all as long as the session was calm |
| `vnc_session` | both pages, 3 connections; 208,047 states | one connection lives at a time (`OneLiveSocket`); one that began clean is not disturbed by what was before (`CleanRestart`); a session that is connected stays so until it ends (`NormalUntilTheEnd`); whoever disconnects is told (`DisconnectEnds`) |
| `vnc_client` | 12 servers, 15 messages, all cuttings; 2 pixels, 2 framebuffer sizes; 2 modifiers, a letter, a dead key, 2 buttons; 1,190,436 states | the stream is decoded in any pieces (`DecodesAnyPieces`) and nothing is left behind (`NothingLeftBehind`); both sides go through the handshake together (`HandshakeInStep`); keys and buttons of the server are those of the user (`KeysAsHeld`, `ButtonsAsHeld`); no pixel in view is given up (`ScreenFollows`), no drawing stays in the queue (`DrawingGoesOn`) |
| `spice_client` | see the bounds; 692,008 states | a session stops as a whole (`NothingLeftOpen`), settles (`SessionSettles`), and stays ready until its socket closes (`ReadyUntilClosed`); messages are written and read whole (`MessagesWhole`), in any pieces (`AnyPieces`); chunks of files arrive in order (`AgentTransfers`); canvases and cache are the server's (`DisplayAsServer`); the sound is fed in order (`SoundPlays`); modifiers, motions and buttons agree (`InputsAgree`) |
| `pages` | 2 workers, 1 name, 2 images; a table of 4 rows and 3 columns; 4 options, two of one value; 760,267 states | creations are whole in calm (`CreationsWhole`); rows stand as marked (`RowsAsMarked`), a click does what it announced (`ClickAsAnnounced`); what is posted is what is selected and shown (`FieldIsSelection`) |
| `fleet_null_clone`, `agent_welcome` | one worker; one session | end in a violation, see section 6 |

### The bounds

*Server.*  Two workers are enough for every interference the code can meet:
a handler's steps are independent of who interferes, and the second worker can
repeat its requests.  Two rows and two names let rows exchange their names.
One volume, with a clone in `storage_faults`, and a buffer shorter than the long file and longer
than the short one, reach each branch of the upload loops: no turn, one turn
that fills the buffer in part, and two; short sends of each size.  Three posts are two sessions' forms and
one that prepares the state; the mutants show that the deep failures need no
more.  Frames up to 3 and 7 bytes reach a buffer that is overwritten,
overwritten in part, and flushed before direct frames.  In `pages` two workers
and another page compete for one name, one image more than there are letters
is picked (`Letters` is 1 there and 5 in the code), and templates and images may
go between the test and the use; a second name would add requests that do not
meet, since what they share is the volumes, which `Elsewhere` takes and adds.

*VNC.*  `MaxSockets` 3: the current connection, one whose end is late, and one
before that; the proofs show that no more is needed.  The items of the stream
are one of each message type and encoding with each branch of its decoder
(hextile with and without subrectangles in both directions of a tile that is not
whole, tight with its four filters and both forms of lengths), handshakes are
all versions and schemes and verdicts; at most two items follow each other, and
every cut into pieces is tried.  Compaction of the queue (`rQmax`, 64 instead of
10000) is reached.  The screen has one change of a pixel (`MaxChanges`), one action
under way (`MaxUnderWay`), two waiting and two moves of the viewport; it is
followed (`Followed`) up to the first image that is broken, copy of what was not
on the canvas, or direct drawing that overtakes a queued one, since
`ScreenFollows` excepts what comes after.

*SPICE.*  Lists of up to two channels of four types (two of a type, and the two
types that share a slot); sizes of the parts of the link in units that differ; three
messages and windows 0 to 2; two agents, two files of one and two chunks of two
pieces each, two or three tokens; two surfaces, two images, two draws; clusters of
3 ms with gaps of 2 and four packets, without
data and with lengths on both sides of what one byte holds; three modifiers, one
of them Meta, two buttons, bunches of 2 and 6 motions.  Each reaches
the branch where its counter is exhausted: tokens used up, motions held back, a
cluster that is full, a window acknowledged twice.

*Pages.*  Four rows with a text twice, an empty cell and texts in another order;
`MaxTimers` 2 is a click before the timer of the last.

### "Calm" and "quiet", and what is excepted

Libvirt and the database give the handlers no transaction, so nothing much is
promised once others interfere, and the properties say so exactly: what holds if,
since the request began (in `Instances`: since the page was loaded), nobody else
changed anything and no call failed.  The interference is in the runs; the
properties say which results it can touch.

In the clients some variables that are not in the code (`torn`, `uneven`, `odd`,
`blind`, `astray`, `muddled`, ...) remember that something came about which the
code is known to get wrong; a property then says that nothing else goes wrong.
Each of them is a line of section 6.

### Fairness

`Fleet` assumes weak fairness of the refresh, of the handler, of the end of the
request and of the restart, per worker: the event loop runs what it has read, and
the master replaces a process that died.  `Storage` assumes weak fairness of a
worker's steps.  Neither assumes that requests come, that the table is edited, or
that rows get fresh.  `VncSession` assumes that its timers fire and that a
websocket whose `close()` was called reports it at last (the browser gives up the
closing handshake by itself), not that the server answers or that a connection is
made.  `SpiceSession` assumes that the timer of the main channel fires unless it
is cleared.

Deadlock is checked but where the system may stop: a console or client session
ends (`console`, `vnc_session`, `vnc_client`, `spice_client`, `agent_welcome`), and
a worker that cannot read a file spins (`storage_faults`).

## 5. The proofs

All theorems hold for every value of the constants.

| Module | Theorem | Statement |
|---|---|---|
| `FleetProofs` | `TypeCorrect` | `Spec => []TypeOK` |
| | `RegistryCorrect` | `Spec => []RegistryMirrorsSelect` |
| | `QuietSafe` | `Spec => []QuietRequestSafe` |
| | `QuietCorrect` | `Spec => []QuietAnswersOnline` |
| | `NeverDangling` | `Spec => []NoDangling` |
| | `Implements` | `Spec => AnswersFromOneInstant` |
| `ConsoleProxyProofs` | `VncStreamWhole` | `Spec => []VncStream` |
| | `Relayed` | `Spec => []RelayedOnce` |
| | `NeverHalfOpen` | `Spec => []NoHalfOpen` |
| `VncSessionProofs` | `OneLiveSocketHolds` | `Spec => []OneLiveSocket` |
| | `CleanRestartHolds` | `Spec => []CleanRestart` |
| | `NormalHolds` | `Spec => NormalUntilTheEnd` |
| `PagesProofs` | `Creations` | `Spec => []CreationsWhole` |
| | `Marked` | `PagesSpec => []RowsAsMarked` |
| | `Clicks` | `PagesSpec => ClickAsAnnounced` |
| | `Posted` | `PagesSpec => []FieldIsSelection` |
| `InstancesProofs` | `DeletedGoes` | `Spec => []GoneWhenDeleted` |
| | `EditsKeep` | `Spec => EditsKeepTheRest` |
| | `FormsDo` | `Spec => FormsDoAsShown` |
| | `DisksOutlast` | `Spec => DisksOutlastGuest` |
| `StorageProofs` | `RequestsDone` | `Spec => []CalmRequests` |
| | `UploadStored` | `Spec => []UploadExact` |
| `SpiceClientProofs` | `SpiceInductive` | `SpiceSpec => []Inv` |
| | `SessionStops` | `SpiceSpec => []NothingLeftOpen` |
| | `ReadyLasts` | `SpiceSpec => ReadyUntilClosed` |
| | `InputsFollow` | `SpiceSpec => []InputsAgree` |
| | `DisplayFollows` | `SpiceSpec => []DisplayAsServer` |
| | `SoundFollows` | `SpiceSpec => []SoundPlays` |
| | `PiecesFollow` | `SpiceSpec => []AnyPieces` |
| | `FilesFollow` | `SpiceSpec => []AgentTransfers` |
| `VncClientProofs` | `ClientInductive` | `ClientSpec => []Inv` |
| | `ScreenKept` | `ClientSpec => []ScreenFollows` |
| | `QueueGoesOn` | `ClientSpec => []DrawingGoesOn` |
| | `KeysReleasedAsHeld` | `ClientSpec => []KeysAsHeld` |
| | `ButtonsReleasedAsHeld` | `ClientSpec => []ButtonsAsHeld` |
| | `HandshakesInStep` | `ClientSpec => []HandshakeInStep` |

They assume what the modules state of their constants, and each of these
assumptions is evaluated by TLC in a run: `NoneAssumption` (None is neither a
row nor an entry, no definition, no name and no contents), `MayFailAssumption`,
`OrphanCapAssumption`; frames of natural length; known pages and a
natural number of connections (`SessionAssumption`); `FreshAssumption` (a UUID made
for the occasion is in no text), `LettersAssumption`; posts that are forms
(`PostsAssumption`), memory and lengths that are natural, a buffer that holds
something (`BufLenAssumption`); in the clients, the counters and sizes natural, the
lengths of the SPICE link and of a bunch of motions positive, and so the sizes of
files, in chunks, and the pieces of a chunk, the framebuffer's
sizes positive, and that the kinds of keys do not overlap (`ClientAssumption`,
`SpiceClientAssumption`), and servers of a version that the client knows, with a
list of schemes and a verdict (`HandshakesAssumption`); finitely many rows, a text
for each of their cells, and a first order that names no column twice
(`TableAssumption`).

None of the invariants is inductive alone.

**Fleet.**  `IInv` is the conjunction of `TypeInv` (`TypeOK`, and that a loop has
only keys to visit that its SELECT returned or that the registry has);
`NamesUnique` (no two rows have one name; without it the online test by name
could answer for the wrong row); `Mirror` (half-way through the loop, the rows
already visited are entries equal to the SELECT's rows, and after it all are);
`Pages` (the copies a page holds show the same rows as the registry); `QuietInv`
(in a quiet request the SELECT still equals the table, and each entry visited
has a connection exactly if its row is fresh).  The steps are one lemma per
invariant, one case per action.  `Implements` shows that every step of `Fleet` is a
step of `ServerDirectory` or changes nothing of it: `Select` is `Read`, the loops
stutter, `ListDone` and `Host` are `Reply`, an edit is `Edit`.  The type invariant
is proved and no longer part of a run.

**ConsoleProxy.**  `Inv` is `TypeOK`, what the buffer holds and where it came from
(`BufferInv`), that the bytes sent to the server are increasing and contiguous
from the connection on (`StreamInv`), that a VNC client sent nothing before
(`VncInv`), and which states of socket and websocket go together (`PhaseInv`).
Lemmas say what `QBuffer` does: what a write leaves, what `readAll` gives.

**VncSession.**  `Inv` is `TypeOK`, that nothing has happened before the first
connection (`Loaded`), that only the last websocket may live (`OnlyLast`) and none
in a state that means closed (`StoppedMeansClosed`), which buttons and grabs go
with which states (`UiInv`), and that as long as every connection began clean all
earlier websockets are closed and no earlier timer runs (`CleanInv`).  One lemma,
`UpdateInv`, is about `updateState`, through which most actions go.

**Create.**  `Inv` is `TypeOK`, that nothing was replaced, and for each worker
`Mine`: the form it is at work on (`At`), and in calm that the names it read are
those that are taken, that the volumes it found are the ones asked for (`Knows`)
and the property itself once it is done (`Whole`).  The key lemma is that a step
of others either changes nothing on the host or ends the calm.

**The pages' scripts.**  `multisort` gives each row the place after those that
precede it, and removing a value keeps the positions of the others in their order.
That these are permutations at all needs that a strict order of a finite set ranks
it without gaps (`Ranked`: the rank is an injection into as many numbers, and so a
surjection; `Placed`), and that the comparison of rows is such an order for every
list of columns (`PrecedesTotal`, `PrecedesTransitive`: of two rows the least column
that tells them apart decides).  `TableInv` says that a column is listed once and
its header counts from the direction it is listed with (`Fits`), and that marks,
labels and rows are those of the list as soon as no timer waits; without `Fits` a
label could announce the direction that is already marked.  One lemma for each way a
click changes the list shows that it fits.  `ChoiceInv` is the property, and that
nothing is chosen that is not offered; `WithoutWhole` and `AppendWhole` say what the
two ways of writing the field leave of each value (`Once`).

**Instances.**  `Inv` is `TypeOK`, that a domain has a live definition exactly when it
is not off (`Sane`), and `Mine` for each session: what each line of its request
implies about the domain (`At`), and, as long as the session is calm, that the page
shows the domain as it is, or as the request has so far left it (`Knows`).  A
request is several calls, so a property of its last call must be carried through
the ones before it.  The steps of the other sessions are one lemma: they change
nothing, or end the calm.  `EditsKeep` says what a form defines: the definition it
read with its own part changed.  Of a domain that is off that is the persistent
definition, and for the settings it must be; the form of the console may also meet
a guest that runs, whose own definition then replaces the persistent one, as the
theorem says.

**Storage.**  `Inv` is `TypeOK` and `Mine` for each worker: where it is (`At`); how
the file position, the bytes in the buffer and the cells the stream took go
together (`InStep`), with which a turn of the upload loop is arithmetic: as many
cells have been taken as were read and given, each of them of the file and none
before its place, and, as long as every send was whole, the file's in its order; and in calm, what the worker knows of the pool and what the volume
holds (`Knows`, `Stored`).

**The SPICE client.**  `Inv` has one part for each of the modules it composes.
`SessionInv`: every connection not displaced is reached from a slot or from the
extra channels (`Reached`), so that `stop` finds it.  `MotionInv`: the motions the
server has not acknowledged are those waiting and a bunch for each
acknowledgement on its way.  `ModifierInv`: as long as nothing is known of the guest's
modifiers, those it has down are among those remembered as muddled, and no more keys
of a modifier are held than there are (`Keys`): as Meta has one, an event of it
leaves guest and page the same.  `DisplayInv`: a box is
as the server has it unless astray, and of a clear box at most one image is
loading, the one the server has there (`BoxAsServer`); the same of a clear key of the
cache (`KeyAsServer`).  Without the second half the invariant is not inductive: two
images that load for one box may finish in either order.

`SoundInv`: what was appended and what is queued is what was made; an append may be
begun exactly when none is under way; and what was made begins with a header and a
cluster, each block within its cluster (`Readable`).  That an element has the
length it declares (`ElementsWhole`) is about sums over layouts, `Width`, a recursive
function, which exists by well-foundedness.

`WireInv` is about the stream and the reader together.  `StreamInv` lays the parts
one behind the other and counts the headers (`h`).  `Expects` says that the connection
has consumed the first k parts and asks for the next, by its state: header or
body, with as many messages handled as headers were read.  What is consumed,
what the reader holds and what is on the wire are together all that was written.
Between two deliveries the reader is `Stuck`: it holds at most one fragment, shorter
than what is needed; without that the fragment that comes is not simply added to the one
before.  The loop of `inbound` is `Drain`; the least turn at which it would not be
in step does not exist, and when it has had a turn for each byte it is stuck.

`AgentInv` counts the chunks of each task that have been made, `c`.  `Chunks` says that
the pieces sent or queued are those of the first `c[t]` chunks of each task `t`, whole,
once and behind one another.  `Going` says that a reader and a wait are the only
ones of their task and are for its chunk `c[t]`, and that a task the agent has
answered has one of them until `c[t]` is its size: a second reader, or one for
another chunk, would send a chunk twice or leave one out.  In the middle of a step one task
has neither (`free`), and `ReadsOn` gives it back what it lacks.  No token is lost
(`Given`), and with a token for each file as many are out as tasks wait (`Enough`): when
the last token goes, that follows from the number of tasks alone (`WaitsFew`), and while
there are tokens no task begins to wait.  With fewer tokens than files a task that was
deleted may take the only turn there is, and those behind it wait on without a token
that is to come, which is why the property asks for enough.

**The VNC client.**  `Inv` is `KeyboardInv`, `MouseInv` and `ScreenInv`.  The keyboard's
says that what is pressed on the server is in `keyDownList`, that each entry there
is of a key that is held and no two of the same (`ListHeld`), and that a keypress is
only awaited for the last of them (`Awaited`).  The mouse's ties the one button
that is down to the capture, the mask sent and the drag.  The screen's heart is `PixelsKept`: each pixel in view is either owed
(an update that covers it is asked for or will be) or what will be shown of
it once the queues have run is the framebuffer's value.  `Leaves(q, p, c)` is what a
queue of drawing actions leaves of a pixel that was `c`; lemmas say what it does
under append, head and tail, and they need that the recursive function `After` of
the model exists, which follows from well-foundedness.  That the clean rectangle
stays in the viewport and the viewport in the framebuffer is arithmetic of
`viewportChange` (`ViewChanges`), for all sizes.  The steps of the queue need that a
scan is pending whenever it is not empty (`QueueIsScanned`).  Where an argument goes
by induction on naturals it goes by a minimal counterexample (`LeastNat`).

The handshake has an invariant of its own, `HandshakeInv`.  `HandshakeInStep` speaks of
the message the server is about to take; to keep it one must know what else is
under way, both ways.  `Stage` says it for each state of the client: which phases
of the server go with it, which messages are between them (`Upwards`, in the
browser's buffer or held back in `sQ`), how many bytes are not read, wherever they
are (`Unread`: in the network or in `rQ`), and what those that the client looks at
are (`NextByte`).  It is stated over both queues at once, so that the pieces in which
they move, and the compaction of `rQ`, change nothing of it (`Received`, `Compacted`,
`BytesStay`).  What makes it inductive is the exact count: a step that read a byte
too few or too many would leave it false for all that follow.  It holds as long as
`torn = {}`, the client having failed if it met half a version (`rfb.js:684`).

Model-checked only:

- liveness (`WorkerReadyAgain`, `RequestEnds`, `DisconnectEnds`, `SessionSettles`),
  which is out of the prover's reach;
- that the decoders give the same whatever the pieces a message comes in
  (`DecodesAnyPieces`, `NothingLeftBehind`), and that messages are written and read where
  their layout says (`MessagesWhole`): these compare folds and recursive definitions
  over sequences, which need induction over data.

## 6. What the code does that its texts do not say

Two have a run that ends in the violation:

- `fleet_null_clone`: `ServerConn::clone` (`virtlyst.cpp:575`) goes through `conn`
  whenever its own `isonline` says yes, also when the refresh had said no.  A row
  identified between the two kills the worker.
- `agent_welcome`: `resize_helper` (`spice-html5/resize.js:43`) reads the element
  `message_id` names, which `main.js:30` calls optional and `console-spice.html:90`
  does not pass: a guest with an agent makes the client throw before it attaches
  its channels.

The others were met while modelling.  The models contain them, and the
properties except them or do not speak of them.

Server:

- Every refresh replaces every `ServerConn` and deletes none (`virtlyst.cpp:334`).
- A page may get a `Connection` without a handle that calls itself alive
  (`lib/connection.cpp:106`, `:203`).
- The buttons of the console forms only look disabled while a guest runs
  (`instance.html:237-239`, `:283-285`, `:319-321`), although the page says "To create
  the console password, shut down the instance." (`instance.html:247`): they post, and
  the handler replaces the persistent definition by that of the guest, edited; what
  was saved since the guest started is undone (`lib/domain.cpp:52`).
  `EditsKeepTheRest` says so.
- A TCP connection that fails inside `connectToHost` is reported to nobody, and the
  websocket stays open (`ws.cpp:55`; `unheard`, which `NoHalfOpen` excepts: the
  property would not catch it).
- What a client sends before the TCP connection stands is lost in the buffer, or
  overwritten there (`ws.cpp:87`).  VNC clients do not do that, SPICE clients do.
- When `virStreamSend` takes less than it is given, the upload sends the buffer
  from its start again (`lib/storagevol.cpp:162`).  After that `UploadExact` asks for
  less: the length, and cells of the file only, none before its place.
- With an image in `hdb`, connecting one to `hda` writes the name of the drive into
  the definition instead of the image (`instances.cpp:214`).
- A custom current memory counts only if the maximum is custom too
  (`instances.cpp:242`; `FormsTakeEffect` excepts it).
- The description of a domain that has none cannot be set, since
  `setDataToSimpleNode` edits nothing then (`lib/domain.cpp:895`).
- A deletion with disks of a paused domain, or of one with snapshots, deletes the
  disks and keeps the domain (`DeletedIsGone` excepts them).
- A new domain whose name is taken leaves its volume behind (`create.cpp:142`,
  `:157`, `:176`); one whose template or image is not found is made without the
  disk, and without a message (`create.cpp:154`, `:167`); between the list and the
  definition another request may make the name, which a text with the same UUID
  then replaces (`create.cpp:97`).
- A sixth disk takes its letter from an empty list (`lib/connection.cpp:520`).
- `prettyKibiBytes` may read one past its suffixes (`virtlyst.cpp:255`);
  `GetCPUStats::compute` gives 0 whenever there is something to compute
  (`lib/domain.cpp:383`); a nested event loop may serve a request within another
  (`lib/domain.cpp:920`); a user's name and a volume are tested apart from their
  use (`users.cpp:75`, `storages.cpp:140`).

VNC client:

- `UI.setPassword` assigns `UI.Connect`, which there is none of, to the button
  (`ui.js:388`): it goes on sending the password instead of connecting.
- The dialog of `console-vnc.html` stays and sends the password again in a session
  that is connected; its `sendCtrlAltFN` sends presses for the releases
  (`console-vnc.html:93-95`).
- A close event of an earlier connection ends a later one (`rfb.js:400-401`).
  `CleanRestart` excepts it (`leftover`) and would not catch it.
- `connectTimeout`, in seconds, is multiplied by 1,000,000 (`rfb.js:475`): the two
  seconds of `ui.js:67` are 23 days.
- Fills of a tile are drawn at once while earlier drawing waits in the queue, which
  `display.js:22` describes as "in-order rendering" (`bypassed`).
- A header that comes in pieces is taken for whole where no reader waits for it: that
  of `SetColourMapEntries` (`rfb.js:944-947`; a count that is `NaN` is waited for by
  nobody, and the bytes that come later are read as messages), of the encodings
  COPYRECT and RRE, and the version (`rfb.js:684`).  They are `torn`.  The reasons of a
  refusal are not waited for either, but the session has failed by then; nor is the
  desktop's name (`rfb.js:883`), whose missing bytes are skipped when they come.
- With such a cut behind it the reader may see any byte as the type of a message;
  `undefined` is one that fails the session.

SPICE client:

- Two image ids of 64 bits may have one key (`spicedataview.js:69-80`).
- A JPEG is painted and cached when it has loaded, over later drawing or onto a
  surface made anew; after `stop()` its handler throws; `INVAL_LIST` before anything
  was cached throws (`display.js`).
- A second start of the sound before the source opened gives one buffer two
  listeners; a MODE message deletes the buffer; an `appendBuffer` that throws leaves
  `append_okay` false; a gap with nothing buffered throws (`playback.js`).
- SET_ACK counts itself: the first acknowledgement comes a message early.
- A playback channel takes the slot of the cursor (`main.js:135`), a second display
  that of the first: `stop()` does not reach what lost its slot.  Channels other than
  main have no `onerror` of the page.
- A task that was deleted while it waited for a token still takes a turn of the loop
  (`main.js:170`): with fewer tokens than files, those that wait behind it may get none.
- A file of no bytes is sent again for each answer; messages that wait when the
  agent leaves are dropped, in the middle of one perhaps; the semicolon behind the
  condition of `filexfer.js:84` lets directories through.
- A key of Meta is never recognised: the page compares with 0xE0B5, its keys have 0xE05B
  and 0xE05C (`utils.js:208-209`), and 0x80|0xE0B5 is 0xE0B5 (`inputs.js:242-251`).  A
  Meta key that was lost without the focus is "corrected" with that code, the same for
  pressed and released (`inputs.js:276`), which is no key of Meta; the guest's stays
  wrong until the next event of the key itself.  `muddled` holds Meta that long.
- `console-spice.html:134` looks for an element `spice-area`, which there is none of, and
  never appends `spice-xfer-area`, to which `filexfer.js:54` adds its bar: no file can
  be dropped on that page, and `SpiceAgent`'s `DropFile` is about the library.
- `sendCtrlAltDel` before any key event, one of two equal modifier keys, and
  releases over another element leave the modifiers wrong; only the last button is
  reported with motions (`inputs.js`).

Pages: tables sort by the texts read when the page was loaded, although `status()`
rewrites the cells; two options of one value post it twice; values are joined with
commas; `'#' + name` selects nothing for a name with a dot.

## 7. What is not modelled

- Users, networks, interfaces, secrets and usage figures: see the plan.  Networks,
  interfaces and secrets have the handlers of pools, with fewer calls.
- Flavors: two single statements.  The XML of domains and volumes: layout.
- Node devices: a read-only wrapper of one call.
- Rendering, layout, translations; jQuery, Bootstrap, Chart.js.
- Of the VNC client the pixels, the table of keysyms, DES, inflate, the Flash and
  base64 fallbacks of the websocket and the cookies of the settings; of the SPICE
  client the codecs (`quic.js`, `lz.js`, `bitmap.js`), the drawing of the cursor, the
  simulated cursor and RSA.  They compute on data no property looks at.
- The second key of Meta (there are two codes; the other modifiers have one for both
  their keys), and subencodings no server sends, which the reader could only find
  behind a header that was torn.
- libvirt, Qt, the database, the browser, and VNC and SPICE servers are external;
  they are modelled by what the code relies on, and `PROJECT.json` marks each such
  definition.
- Several pools at once: handlers touch one.  A disk image shared by two domains is
  in `Create` as far as a creation is concerned, and not in `Instances`.
- Objects that are lost for good (`virtlyst.cpp:334`) are not counted by a passing
  run: a count would grow for ever.
- The clients and the proxy are composed by what they expect of each other (a VNC
  client waits for the server, a SPICE client speaks first), not in one state space.
