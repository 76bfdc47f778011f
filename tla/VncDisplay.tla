----------------------------- MODULE VncDisplay -----------------------------
(***************************************************************************)
(* What the VNC client shows: the viewport and the drawing queue of        *)
(* static/js/novnc/display.js, and the requests of rfb.js that keep them   *)
(* up to date.                                                             *)
(*                                                                         *)
(* The canvas holds the part of the framebuffer that is in the viewport.   *)
(* The client asks for changes of the part that it takes for clean, and    *)
(* for the whole of the rest.  The server (external) answers with drawing  *)
(* actions; one that holds an image waits in a queue until the image is    *)
(* loaded.  A pixel is the number of the change it shows.                  *)
(***************************************************************************)
EXTENDS Integers, Sequences, FiniteSets, SequencesExt

CONSTANTS
    Sizes,        \* sizes of the framebuffer, <<width, height>>
    Views,        \* sizes of the window, to clip the viewport to
    Pixels,       \* the pixels that are followed
    MaxChanges,   \* bound: changes of a pixel
    MaxWaiting,   \* bound: requests under way, actions queued
    MaxUnderWay,  \* bound: actions under way
    MaxMoves      \* bound: moves and resizes of the viewport

VARIABLES
    fb, screen,     \* the server's framebuffer and its size
    changed,        \* pixels the server has not sent since they changed
    requests,       \* under way to the server: pixels asked for if changed, and anyway
    net,            \* actions under way to the client
    fb_size,        \* fb_width, fb_height
    clip,           \* conf.viewport
    viewport, cleanRect, canvas,
    renderQ, frame, \* actions queued; whether scan_renderQ is to be called
    moves,
    blind,          \* a copy was made of what the canvas did not hold
    bypassed,       \* an action was drawn before one that was queued
    broken          \* an image could not be loaded (these three are not in the code)

serverVars == <<fb, screen, changed>>
viewVars == <<fb_size, clip, viewport, cleanRect>>
history == <<blind, bypassed, broken>>
vars == <<serverVars, requests, net, viewVars, canvas, renderQ, frame, moves, history>>

Blank == -1
Box(x, y, w, h) == {p \in Pixels : p[1] \in x..(x + w - 1) /\ p[2] \in y..(y + h - 1)}
View(v) == Box(v.x, v.y, v.w, v.h)
Rect(c) == Box(c.x1, c.y1, c.x2 - c.x1 + 1, c.y2 - c.y1 + 1)
Screen == Box(0, 0, screen[1], screen[2])

-----------------------------------------------------------------------------
(* The viewport *)

Least(a, b) == IF a < b THEN a ELSE b
Most(a, b) == IF a > b THEN a ELSE b

\* A move along one axis, kept inside the framebuffer.
Clamp(pos, len, delta, max) ==
    LET d == IF pos + delta < 0 THEN -pos ELSE delta
        last == pos + len - 1
    IN  IF last + d >= max THEN d - ((last + d) - max + 1) ELSE d

\* Mutant: what comes into view is taken for clean.
Moved_Clean(v, c, dx, dy) ==
    LET u == [v EXCEPT !.x = @ + dx, !.y = @ + dy]
    IN  [v |-> u, c |-> [x1 |-> Least(c.x1, u.x), x2 |-> Most(c.x2, u.x + u.w - 1),
                         y1 |-> Most(c.y1, u.y), y2 |-> Least(c.y2, u.y + u.h - 1)]]

\* The viewport and the clean rectangle after a move.
Moved(v, c, dx, dy) ==
    LET u == [v EXCEPT !.x = @ + dx, !.y = @ + dy]
    IN  IF dx = 0 /\ dy = 0 THEN [v |-> v, c |-> c]
        ELSE [v |-> u, c |-> [x1 |-> Most(c.x1, u.x), x2 |-> Least(c.x2, u.x + u.w - 1),
                              y1 |-> Most(c.y1, u.y), y2 |-> Least(c.y2, u.y + u.h - 1)]]

\* The clean rectangle after a change of the viewport's size.
Shrunk(v, c, w, h) ==
    [c EXCEPT !.x2 = IF w < v.w THEN Least(@, v.x + w - 1) ELSE @,
              !.y2 = IF h < v.h THEN Least(@, v.y + h - 1) ELSE @]

Change(v, c, size, dx, dy, w, h) ==
    LET u == [v EXCEPT !.w = w, !.h = h]
    IN  Moved(u, Shrunk(v, c, w, h),
              Clamp(v.x, w, dx, size[1]), Clamp(v.y, h, dy, size[2]))

\* Without clipping the viewport is the whole framebuffer, whatever is asked.
Changed(size, clipped, dx, dy, w, h) ==
    IF clipped
    THEN Change(viewport, cleanRect, size, dx, dy, Least(w, size[1]), Least(h, size[2]))
    ELSE Change(viewport, cleanRect, size, -viewport.w, -viewport.h, size[1], size[2])

\* What stays in view is shifted, what comes into view is blank.
Shifted(v) ==
    LET kept == View(viewport) \cap View([viewport EXCEPT !.w = v.w, !.h = v.h]) \cap View(v)
    IN  [p \in Pixels |-> IF p \in kept THEN canvas[p] ELSE Blank]

viewportChange(size, clipped, dx, dy, w, h) ==
    LET r == Changed(size, clipped, dx, dy, w, h)
    IN  viewport' = r.v /\ cleanRect' = r.c /\ canvas' = Shifted(r.v)

\* The boxes that are not clean, of which the left one is a column too wide.
Beside(v, c) ==
    UNION {IF v.x < c.x1 THEN Box(v.x, v.y, c.x1 - v.x + 1, v.h) ELSE {},
           IF v.x + v.w - 1 > c.x2
           THEN Box(c.x2 + 1, v.y, v.x + v.w - 1 - c.x2, v.h) ELSE {},
           IF v.y < c.y1 THEN Box(c.x1, v.y, c.x2 - c.x1 + 1, c.y1 - v.y) ELSE {},
           IF v.y + v.h - 1 > c.y2
           THEN Box(c.x1, c.y2 + 1, c.x2 - c.x1 + 1, v.y + v.h - 1 - c.y2) ELSE {}}
DirtyBoxes(v, c) ==
    IF c.x1 >= c.x2 \/ c.y1 >= c.y2 THEN View(v) ELSE Beside(v, c)

\* getCleanDirtyReset and fbUpdateRequests.
fbUpdateRequests(v, c) == [clean |-> Rect(c), dirty |-> DirtyBoxes(v, c)]
Reset(v) == [x1 |-> v.x, y1 |-> v.y, x2 |-> v.x + v.w - 1, y2 |-> v.y + v.h - 1]

-----------------------------------------------------------------------------
(* Drawing *)

\* An action: the pixels it sets, and where a copy takes them from.
Draws(px, via) == [via |-> via, px |-> px, from |-> {}, ready |-> via # "img"]
Copies(from, to) == [via |-> "copy", px |-> [p \in {to} |-> fb[p]], from |-> {from}, ready |-> TRUE]

\* The canvas after an action; what is outside the viewport is lost.
Draw(c, a) ==
    [p \in Pixels |->
        IF p \notin DOMAIN a.px \cap View(viewport) THEN c[p]
        ELSE IF a.from = {} THEN a.px[p]
        ELSE IF a.from \subseteq View(viewport) THEN c[CHOOSE q \in a.from : TRUE]
        ELSE c[p]]

\* A copy of what is not there as the server thinks it is.
Blind(c, a) ==
    \E q \in a.from : q \notin View(viewport) \/ \E p \in DOMAIN a.px : c[q] # a.px[p]

\* The canvas after the first actions of a queue.
After(q) ==
    LET c[i \in 0..Len(q)] == IF i = 0 THEN canvas ELSE Draw(c[i - 1], q[i]) IN c

\* Draws the actions before the first that waits for its image.
scan_renderQ(q) ==
    LET n == SelectInSeq(q, LAMBDA a : ~a.ready)
        k == IF n = 0 THEN Len(q) ELSE n - 1
    IN  /\ canvas' = After(q)[k]
        /\ renderQ' = SubSeq(q, k + 1, Len(q))
        /\ frame' = (k < Len(q))
        /\ blind' = (blind \/ \E i \in 1..k : Blind(After(q)[i - 1], q[i]))

\* Mutant: nothing looks at the first action that has to wait.
renderQ_push_NoScan(a) ==
    /\ renderQ' = Append(renderQ, a)
    /\ UNCHANGED <<canvas, frame, blind>>

renderQ_push(a) ==
    IF renderQ = <<>>
    THEN scan_renderQ(<<a>>)
    ELSE renderQ' = Append(renderQ, a) /\ UNCHANGED <<canvas, frame, blind>>

-----------------------------------------------------------------------------
(* The server (external) *)

Init ==
    /\ screen \in Sizes
    /\ fb = [p \in Pixels |-> 0]
    /\ changed = {}
    /\ net = <<>>
    /\ fb_size = screen
    /\ clip = FALSE
    /\ viewport = [x |-> 0, y |-> 0, w |-> screen[1], h |-> screen[2]]
    /\ canvas = [p \in Pixels |-> Blank]
    /\ requests = <<[clean |-> {}, dirty |-> View(viewport)]>>
    /\ cleanRect = Reset(viewport)
    /\ renderQ = <<>> /\ frame = FALSE
    /\ moves = 0
    /\ blind = FALSE /\ bypassed = FALSE /\ broken = FALSE

ServerChange(p) ==
    /\ p \in Screen
    /\ fb[p] < MaxChanges
    /\ fb' = [fb EXCEPT ![p] = @ + 1]
    /\ changed' = changed \cup {p}
    /\ UNCHANGED <<screen, requests, net, viewVars, canvas, renderQ, frame, moves, history>>

\* A new size: all of the framebuffer has changed.
ServerResize(size) ==
    /\ Len(net) < MaxUnderWay
    /\ moves < MaxMoves
    /\ moves' = moves + 1
    /\ screen' = size
    /\ changed' = Box(0, 0, size[1], size[2])
    /\ net' = Append(net, [via |-> "size", size |-> size])
    /\ UNCHANGED <<fb, requests, viewVars, canvas, renderQ, frame, history>>

\* The answer to a request: what was asked for and has changed, and what was
\* asked for anyway.
ServerAnswer(via) ==
    /\ requests # <<>>
    /\ Len(net) < MaxUnderWay
    /\ LET r == Head(requests)
           send == (r.dirty \cup (r.clean \cap changed)) \cap Screen
       IN  /\ send # {} \/ r.dirty # {}
           /\ net' = Append(net, Draws([p \in send |-> fb[p]], via))
           /\ changed' = changed \ send
    /\ requests' = Tail(requests)
    /\ UNCHANGED <<fb, screen, viewVars, canvas, renderQ, frame, moves, history>>

\* The answer may be a copy of a pixel that the client is thought to have.
ServerCopies(from, to) ==
    /\ requests # <<>>
    /\ Len(net) < MaxUnderWay
    /\ to \in Head(requests).clean \cap changed \cap Screen
    /\ Head(requests).dirty = {}
    /\ from \in Screen \ changed
    /\ fb[from] = fb[to]
    /\ net' = Append(net, Copies(from, to))
    /\ changed' = changed \ {to}
    /\ requests' = Tail(requests)
    /\ UNCHANGED <<fb, screen, viewVars, canvas, renderQ, frame, moves, history>>

-----------------------------------------------------------------------------
(* The client *)

\* checkEvents, keyPress and the others that ask for updates.
AskUpdate ==
    /\ Len(requests) < MaxWaiting
    /\ requests' = Append(requests, fbUpdateRequests(viewport, cleanRect))
    /\ cleanRect' = Reset(viewport)
    /\ UNCHANGED <<serverVars, net, fb_size, clip, viewport, canvas, renderQ,
                   frame, moves, history>>

\* display.resize, and a request for what that brought into view.
DesktopSize(size) ==
    LET r == Changed(size, clip, 0, 0, viewport.w, viewport.h)
    IN  /\ fb_size' = size
        /\ viewport' = r.v
        /\ canvas' = Shifted(r.v)
        /\ requests' = Append(requests, fbUpdateRequests(r.v, r.c))
        /\ cleanRect' = Reset(r.v)

\* RAW, RRE and HEXTILE draw at once; TIGHT and COPYRECT push to the queue.
Handle ==
    /\ net # <<>>
    /\ net' = Tail(net)
    /\ LET a == Head(net) IN
       \/ /\ a.via = "direct"
          /\ canvas' = Draw(canvas, a)
          /\ bypassed' = (bypassed \/ renderQ # <<>>)
          /\ UNCHANGED <<renderQ, frame, blind, requests, viewVars>>
       \/ /\ a.via \in {"img", "fill", "copy"}
          /\ Len(renderQ) < MaxWaiting
          /\ renderQ_push(a)
          /\ UNCHANGED <<bypassed, requests, viewVars>>
       \/ /\ a.via = "size"
          /\ Len(requests) < MaxWaiting
          /\ DesktopSize(a.size)
          /\ UNCHANGED <<clip, renderQ, frame, blind, bypassed>>
    /\ UNCHANGED <<serverVars, moves, broken>>

\* An image is loaded, or cannot be: complete is true then too.
ImageLoads(i, well) ==
    /\ i \in DOMAIN renderQ
    /\ renderQ[i].ready = FALSE
    /\ renderQ' = [renderQ EXCEPT ![i].ready = TRUE,
                                  ![i].via = IF well THEN @ ELSE "broken"]
    /\ UNCHANGED <<serverVars, requests, net, viewVars, canvas, frame, moves, history>>

\* An image that is broken makes drawImage throw: the queue is left as it is,
\* and nothing will look at it again.
AnimFrame ==
    /\ frame
    /\ IF renderQ # <<>> /\ renderQ[1].via = "broken"
       THEN /\ frame' = FALSE
            /\ broken' = TRUE
            /\ UNCHANGED <<canvas, renderQ, blind>>
       ELSE scan_renderQ(renderQ) /\ UNCHANGED broken
    /\ UNCHANGED <<serverVars, requests, net, viewVars, moves, bypassed>>

\* The user drags the viewport.
Drag(dx, dy) ==
    /\ clip
    /\ moves < MaxMoves
    /\ moves' = moves + 1
    /\ viewportChange(fb_size, TRUE, dx, dy, viewport.w, viewport.h)
    /\ UNCHANGED <<serverVars, requests, net, fb_size, clip, renderQ, frame, history>>

\* UI.setViewClip: clipping to a window, or no more.
setViewClip ==
    /\ moves < MaxMoves
    /\ moves' = moves + 1
    /\ \/ \E s \in Views :
             /\ clip' = TRUE
             /\ viewportChange(fb_size, TRUE, 0, 0, s[1], s[2])
       \/ /\ clip
          /\ clip' = FALSE
          /\ viewportChange(fb_size, FALSE, 0, 0, 0, 0)
    /\ UNCHANGED <<serverVars, requests, net, fb_size, renderQ, frame, history>>

Next ==
    \/ \E p \in Pixels : ServerChange(p) \/ \E q \in Pixels : ServerCopies(q, p)
    \/ \E s \in Sizes : ServerResize(s)
    \/ \E via \in {"direct", "img", "fill"} : ServerAnswer(via)
    \/ AskUpdate \/ Handle \/ AnimFrame
    \/ \E i \in 1..MaxWaiting, well \in BOOLEAN : ImageLoads(i, well)
    \/ \E dx, dy \in -1..1 : Drag(dx, dy)
    \/ setViewClip

Spec == Init /\ [][Next]_vars

-----------------------------------------------------------------------------
(* Properties *)

\* The last action of a queue that draws a pixel, 0 if none does, and what all
\* that are still to be drawn, those under way last, leave of it.
LastOn(q, p) == SelectLastInSeq(q, LAMBDA a : a.via # "size" /\ p \in DOMAIN a.px)
WillShow(p) ==
    IF LastOn(net, p) # 0 THEN net[LastOn(net, p)].px[p]
    ELSE IF LastOn(renderQ, p) # 0 THEN renderQ[LastOn(renderQ, p)].px[p]
    ELSE canvas[p]

\* However the viewport is dragged, clipped and resized between a request and
\* its answer, no pixel in view is given up: it will be as the server has it,
\* or the server knows that it owes it, or the client will ask for it
\* (getCleanDirtyReset takes what it asks for as clean before it is there).
NoPixelForgotten ==
    blind \/ bypassed \/ broken \/
    \A p \in View(viewport) \cap Screen :
        \/ p \in changed
        \/ p \notin Rect(cleanRect)
        \/ \E i \in DOMAIN requests : p \in requests[i].dirty
        \/ WillShow(p) = fb[p]

\* The viewport does not leave the framebuffer, however the clamps of
\* viewportChange follow one another, and what the client asks for is in it
\* and leaves no hole.
ViewportInside ==
    /\ viewport.x >= 0 /\ viewport.x + viewport.w <= fb_size[1]
    /\ viewport.y >= 0 /\ viewport.y + viewport.h <= fb_size[2]
    /\ Rect(cleanRect) \subseteq View(viewport)
    /\ LET r == fbUpdateRequests(viewport, cleanRect)
       IN  r.clean \cup r.dirty = View(viewport)

\* As long as an action waits, something will look at the queue again: only the
\* first push and the scan itself ask for it.
QueueIsScanned == renderQ = <<>> \/ frame \/ broken
=============================================================================
