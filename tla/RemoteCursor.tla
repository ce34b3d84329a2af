---------------------------- MODULE RemoteCursor ---------------------------
(***************************************************************************)
(* The host's cursor on the remote screen: the cache of bitmaps of         *)
(* frontend/src/lib/rustdesk/session.ts, by which a cursor that was sent   *)
(* once is named afterwards, and decodeCursor of components/               *)
(* RemoteScreen.tsx, which shows a PNG only when the browser has loaded it *)
(* and frees the object URL of the one shown before.                       *)
(***************************************************************************)
EXTENDS Integers

CONSTANTS
  Pngs, Bitmaps,    \* cursors whose pixels travel as a PNG, or raw or packed
  NoCursor,
  MaxUrls           \* bound: object URLs made

Cursors == Pngs \cup Bitmaps

VARIABLES
  cursorCache,      \* ids the session has the pixels of
  loading,          \* [cursor, url]: images under way
  urls,             \* object URLs made so far: 1..urls; 0 stands for a data URL
  cursorBitmap,     \* [cursor, url] of cursorBitmapRef, or NoCursor
  lastPngUrl,       \* or 0
  revoked           \* object URLs freed

cursorVars == <<cursorCache, loading, urls, cursorBitmap, lastPngUrl, revoked>>

CursorInit ==
  /\ cursorCache = {} /\ loading = {} /\ urls = 0
  /\ cursorBitmap = NoCursor /\ lastPngUrl = 0 /\ revoked = {}

Finish(c, url) ==
  /\ revoked' = IF lastPngUrl # 0 /\ lastPngUrl # url THEN revoked \cup {lastPngUrl}
                ELSE revoked
  /\ lastPngUrl' = IF url # 0 THEN url ELSE lastPngUrl
  /\ cursorBitmap' = [cursor |-> c, url |-> url]

\* decodeCursor: a PNG loads in its own time; other pixels are drawn at once, unless
\* they do not unpack to the size announced.
Decode(c) ==
  \/ /\ c \in Pngs /\ urls < MaxUrls
     /\ urls' = urls + 1
     /\ loading' = loading \cup {[cursor |-> c, url |-> urls + 1]}
     /\ UNCHANGED <<cursorBitmap, lastPngUrl, revoked>>
  \/ /\ c \in Bitmaps
     /\ Finish(c, 0) \/ UNCHANGED <<cursorBitmap, lastPngUrl, revoked>>
     /\ UNCHANGED <<urls, loading>>

\* cursor_data, and cursor_id of a cursor seen before; an unknown id is logged only.
CursorData(c) == cursorCache' = cursorCache \cup {c} /\ Decode(c)
CursorId(c) == c \in cursorCache /\ Decode(c) /\ UNCHANGED cursorCache

\* onload and onerror of an image, in any order.
ImageLoads(i) ==
  /\ i \in loading
  /\ loading' = loading \ {i}
  /\ Finish(i.cursor, i.url)
  /\ UNCHANGED <<cursorCache, urls>>

ImageFails(i) ==
  /\ i \in loading
  /\ loading' = loading \ {i}
  /\ revoked' = revoked \cup {i.url}
  /\ UNCHANGED <<cursorCache, urls, cursorBitmap, lastPngUrl>>

CursorNext ==
  \/ \E c \in Cursors : CursorData(c) \/ CursorId(c)
  \/ \E i \in loading : ImageLoads(i) \/ ImageFails(i)
=============================================================================
