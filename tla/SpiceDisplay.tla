---------------------------- MODULE SpiceDisplay ----------------------------
(***************************************************************************)
(* The SPICE display channel (display.js): surfaces, each a canvas; the    *)
(* messages that draw on them; the cache of images the server refers to    *)
(* by id; video streams; and the images of the JPEG kinds, which the       *)
(* browser decodes on its own: they are painted, and cached, when they     *)
(* have loaded, while the messages behind them are handled already.        *)
(*                                                                         *)
(* A surface is a few boxes, and what is painted in one is the number of   *)
(* the drawing it comes from (0: nothing).  The server is a peer that      *)
(* keeps to the protocol: it draws on surfaces it has made and refers to   *)
(* images it has asked to be cached.                                       *)
(***************************************************************************)
EXTENDS Naturals, FiniteSets, Functions

CONSTANTS
  Surfaces,    \* ids of surfaces; 0 is the primary one
  Boxes,       \* places on a surface
  ImageIds,    \* 64-bit ids of images, as <<high word, low word>>
  Streams,     \* ids of streams
  MaxDraws     \* drawings that bring new pixels

VARIABLES
  surfaces,          \* canvases by id: what each box shows
  primary_surface,   \* {} or the set of its id
  hooked,            \* surfaces whose canvas is on the screen with handlers
  cache,             \* images by key
  has_cache,         \* "cache" in this
  streams,           \* streams by id: [surface, dest, codec]
  loading,           \* images being decoded: [surface, box, px, key]
  open,              \* FALSE after stop() or an exception in a handler
  draws,             \* drawings so far
  sv,                \* what the server has: [surfaces, cache]
  astray,            \* boxes for which messages came in the way of an image
                     \* that was loading, or that were not drawn
  unclear            \* keys for which orders did, or that stand for two ids

dvars == <<surfaces, primary_surface, hooked, cache, has_cache, streams, loading, open,
           draws, sv, astray, unclear>>

Blank == [b \in Boxes |-> 0]

Init ==
  /\ surfaces = <<>> /\ primary_surface = {} /\ hooked = {}
  /\ cache = <<>> /\ has_cache = FALSE /\ streams = <<>> /\ loading = {}
  /\ open = TRUE /\ draws = 0
  /\ sv = [surfaces |-> <<>>, cache |-> <<>>] /\ astray = {} /\ unclear = {}

\* f with this value for this key, and f without these keys.
With(f, key, value) == [k \in DOMAIN f \cup {key} |-> IF k = key THEN value ELSE f[k]]
Without(f, keys) == Restrict(f, DOMAIN f \ keys)

\* The key of an image in the cache: SpiceDataView.getUint64 shifts the high
\* word by 32, which in JavaScript is by 0, and the two words are or-ed.
KeyOf(id) == IF id[1] = 1 \/ id[2] = 1 THEN 1 ELSE 0
NoKey == 2

LoadingAt(s, b) == \E l \in loading : l.surface = s /\ l.box = b
LoadingKey(k)   == \E l \in loading : l.key = k

\* What a drawing on a box does to the set of those gone astray.
Drawn(s, b, lost) ==
  IF lost \/ LoadingAt(s, b) THEN astray \cup {<<s, b>>} ELSE astray \ {<<s, b>>}

\* And an order about an image to that of keys: with another image that is
\* loading for it, or another id of the same key, it is no longer clear.
Ordered(id) ==
  LET k == KeyOf(id)
  IN IF LoadingKey(k) \/ \E other \in DOMAIN sv.cache \ {id} : KeyOf(other) = k
     THEN unclear \cup {k} ELSE unclear \ {k}

Paint(s, b, px) == surfaces' = [surfaces EXCEPT ![s][b] = px]
ServerPaint(s, b, px) == [sv EXCEPT !.surfaces[s][b] = px]

-----------------------------------------------------------------------------
(* Surfaces.                                                               *)

\* SPICE_MSG_DISPLAY_SURFACE_CREATE; hook_events for the primary one.
SurfaceCreate ==
  /\ open
  /\ \E s \in Surfaces \ DOMAIN sv.surfaces :
       /\ surfaces' = With(surfaces, s, Blank)
       /\ sv' = [sv EXCEPT !.surfaces = With(@, s, Blank)]
       /\ IF s = 0
          THEN primary_surface' = {s} /\ hooked' = hooked \cup {s}
          ELSE UNCHANGED <<primary_surface, hooked>>
       /\ astray' = {a \in astray : a \notin {s} \X Boxes}
                      \cup {<<s, b>> : b \in {c \in Boxes : LoadingAt(s, c)}}
  /\ UNCHANGED <<cache, has_cache, streams, loading, open, draws, unclear>>

\* delete_surface: the canvas of the primary surface leaves the screen.
delete_surface(gone) ==
  /\ surfaces' = Without(surfaces, gone)
  /\ IF primary_surface \subseteq gone
     THEN hooked' = hooked \ primary_surface /\ primary_surface' = {}
     ELSE UNCHANGED <<hooked, primary_surface>>

SurfaceDestroy ==
  /\ open
  /\ \E s \in DOMAIN sv.surfaces :
       /\ \A i \in DOMAIN streams : streams[i].surface # s
       /\ delete_surface({s})
       /\ sv' = [sv EXCEPT !.surfaces = Without(@, {s})]
  /\ UNCHANGED <<cache, has_cache, streams, loading, open, draws, astray, unclear>>

\* destroy_surfaces, by stop() of the main channel.
DestroySurfaces ==
  /\ open /\ open' = FALSE
  /\ delete_surface(DOMAIN surfaces)
  /\ UNCHANGED <<cache, has_cache, streams, loading, draws, sv, astray, unclear>>

-----------------------------------------------------------------------------
(* Drawing.                                                                *)

\* The end of draw_copy_helper, and of handle_draw_jpeg_onload.
CacheImage(key, px) ==
  IF key = NoKey THEN UNCHANGED <<cache, has_cache>>
  ELSE cache' = With(cache, key, px) /\ has_cache' = TRUE

\* SPICE_IMAGE_FLAGS_CACHE_ME, or no flag.
CacheMe == ImageIds \cup {<<2, 2>>}
Flagged(id) == id # <<2, 2>>
KeyIn(id) == IF Flagged(id) THEN KeyOf(id) ELSE NoKey
ServerCache(s, b, id) ==
  [ServerPaint(s, b, draws + 1) EXCEPT
     !.cache = IF Flagged(id) THEN With(@, id, draws + 1) ELSE @]

\* DRAW_COPY of a QUIC, LZ_RGB or BITMAP image, decoded in place.
DrawCopyDecoded ==
  /\ open /\ draws < MaxDraws
  /\ \E s \in DOMAIN sv.surfaces, b \in Boxes, id \in CacheMe :
       /\ Paint(s, b, draws + 1) /\ CacheImage(KeyIn(id), draws + 1)
       /\ sv' = ServerCache(s, b, id)
       /\ astray' = Drawn(s, b, FALSE)
       /\ unclear' = IF Flagged(id) THEN Ordered(id) ELSE unclear
  /\ draws' = draws + 1
  /\ UNCHANGED <<primary_surface, hooked, streams, loading, open>>

\* DRAW_COPY of a JPEG or JPEG_ALPHA image: the image starts to load.
DrawCopyJpeg ==
  /\ open /\ draws < MaxDraws
  /\ \E s \in DOMAIN sv.surfaces, b \in Boxes, id \in CacheMe :
       /\ loading' = loading \cup {[surface |-> s, box |-> b, px |-> draws + 1, key |-> KeyIn(id)]}
       /\ sv' = ServerCache(s, b, id)
       /\ astray' = Drawn(s, b, FALSE)
       /\ unclear' = IF Flagged(id) THEN Ordered(id) ELSE unclear
  /\ draws' = draws + 1
  /\ UNCHANGED <<surfaces, primary_surface, hooked, cache, has_cache, streams, open>>

\* DRAW_COPY of an image FROM_CACHE: nothing is drawn when it is not there.
DrawCopyCached ==
  /\ open
  /\ \E s \in DOMAIN sv.surfaces, b \in Boxes, id \in DOMAIN sv.cache :
       LET k == KeyOf(id)
       IN /\ IF k \in DOMAIN cache THEN Paint(s, b, cache[k]) ELSE UNCHANGED surfaces
          /\ sv' = ServerPaint(s, b, sv.cache[id])
          /\ astray' = Drawn(s, b, k \in unclear \/ LoadingKey(k))
  /\ UNCHANGED <<primary_surface, hooked, cache, has_cache, streams, loading, open, draws, unclear>>

\* DRAW_COPY from a SURFACE, and COPY_BITS, which copies on the same one.
DrawCopySurface ==
  /\ open
  /\ \E from, to \in DOMAIN sv.surfaces, b, c \in Boxes :
       /\ Paint(to, c, surfaces[from][b])
       /\ sv' = ServerPaint(to, c, sv.surfaces[from][b])
       /\ astray' = Drawn(to, c, <<from, b>> \in astray \/ LoadingAt(from, b))
  /\ UNCHANGED <<primary_surface, hooked, cache, has_cache, streams, loading, open, draws, unclear>>

\* DRAW_FILL with a solid brush.
DrawFill ==
  /\ open /\ draws < MaxDraws
  /\ \E s \in DOMAIN sv.surfaces, b \in Boxes :
       /\ Paint(s, b, draws + 1) /\ sv' = ServerPaint(s, b, draws + 1)
       /\ astray' = Drawn(s, b, FALSE)
  /\ draws' = draws + 1
  /\ UNCHANGED <<primary_surface, hooked, cache, has_cache, streams, loading, open, unclear>>

\* DRAW_COPY of any other type of image and DRAW_FILL with another brush are
\* logged and not drawn.
DrawUnhandled ==
  /\ open /\ draws < MaxDraws
  /\ \E s \in DOMAIN sv.surfaces, b \in Boxes :
       /\ sv' = ServerPaint(s, b, draws + 1) /\ astray' = astray \cup {<<s, b>>}
  /\ draws' = draws + 1
  /\ UNCHANGED <<surfaces, primary_surface, hooked, cache, has_cache, streams, loading, open, unclear>>

\* INVAL_LIST: without a cache it is an exception.
InvalList ==
  /\ open
  /\ \E id \in DOMAIN sv.cache :
       /\ open' = has_cache
       /\ cache' = Without(cache, {KeyOf(id)})
       /\ sv' = [sv EXCEPT !.cache = Without(@, {id})]
       /\ unclear' = Ordered(id)
  /\ UNCHANGED <<surfaces, primary_surface, hooked, has_cache, streams, loading, draws, astray>>

-----------------------------------------------------------------------------
(* Streams, and images that have loaded.                                   *)

StreamCreate ==
  /\ open
  /\ \E i \in Streams \ DOMAIN streams, s \in DOMAIN sv.surfaces, b \in Boxes, mjpeg \in BOOLEAN :
       streams' = With(streams, i, [surface |-> s, dest |-> b, mjpeg |-> mjpeg])
  /\ UNCHANGED <<surfaces, primary_surface, hooked, cache, has_cache, loading, open, draws, sv, astray, unclear>>

\* A frame is a JPEG for the destination of its stream; other codecs are not
\* drawn.
StreamData ==
  /\ open /\ draws < MaxDraws
  /\ \E i \in DOMAIN streams :
       LET s == streams[i].surface
           b == streams[i].dest
       IN /\ loading' = IF streams[i].mjpeg
                        THEN loading \cup {[surface |-> s, box |-> b, px |-> draws + 1, key |-> NoKey]}
                        ELSE loading
          /\ sv' = ServerPaint(s, b, draws + 1)
          /\ astray' = Drawn(s, b, ~streams[i].mjpeg)
  /\ draws' = draws + 1
  /\ UNCHANGED <<surfaces, primary_surface, hooked, cache, has_cache, streams, open, unclear>>

StreamDestroy ==
  /\ open
  /\ \E i \in DOMAIN streams : streams' = Without(streams, {i})
  /\ UNCHANGED <<surfaces, primary_surface, hooked, cache, has_cache, loading, open, draws, sv, astray, unclear>>

\* handle_draw_jpeg_onload: on the surface that has the id now, on a canvas of
\* its own when none has; after stop() it is an exception.
handle_draw_jpeg_onload_Lost ==
  \E l \in loading :
    /\ loading' = loading \ {l}
    /\ IF l.surface \in DOMAIN surfaces
       THEN Paint(l.surface, l.box, l.px) /\ CacheImage(l.key, l.px)
       ELSE UNCHANGED <<surfaces, cache, has_cache>>
    /\ UNCHANGED <<primary_surface, hooked, streams, open, draws, sv, astray, unclear>>

handle_draw_jpeg_onload ==
  \E l \in loading :
    /\ loading' = loading \ {l}
    /\ IF l.surface \in DOMAIN surfaces
       THEN Paint(l.surface, l.box, l.px) ELSE UNCHANGED surfaces
    /\ IF open THEN CacheImage(l.key, l.px) ELSE UNCHANGED <<cache, has_cache>>
    /\ UNCHANGED <<primary_surface, hooked, streams, open, draws, sv, astray, unclear>>

Next ==
  \/ SurfaceCreate \/ SurfaceDestroy \/ DestroySurfaces \/ DrawCopyDecoded \/ DrawCopyJpeg
  \/ DrawCopyCached \/ DrawCopySurface \/ DrawFill \/ DrawUnhandled \/ InvalList
  \/ StreamCreate \/ StreamData \/ StreamDestroy \/ handle_draw_jpeg_onload

-----------------------------------------------------------------------------

\* While the channel is open, a box for which no image is loading shows what
\* the server has drawn there, and the cache holds what the server believes it
\* to hold and nothing the server has given up, except where messages came in
\* the way of an image that was still loading or ids have the same key.
DisplayAsServer ==
  open =>
    /\ DOMAIN surfaces = DOMAIN sv.surfaces /\ hooked = DOMAIN surfaces \cap {0}
    /\ \A s \in DOMAIN surfaces, b \in Boxes :
         <<s, b>> \notin astray /\ ~LoadingAt(s, b) => surfaces[s][b] = sv.surfaces[s][b]
    /\ \A id \in DOMAIN sv.cache :
         KeyOf(id) \notin unclear /\ ~LoadingKey(KeyOf(id)) =>
           KeyOf(id) \in DOMAIN cache /\ cache[KeyOf(id)] = sv.cache[id]
    /\ \A k \in DOMAIN cache :
         k \notin unclear /\ ~LoadingKey(k) => \E id \in DOMAIN sv.cache : KeyOf(id) = k
=============================================================================
