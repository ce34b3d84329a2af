---------------------------- MODULE RemoteScreen ---------------------------
(***************************************************************************)
(* The remote screen of frontend/src/components/RemoteScreen.tsx: pointer, *)
(* keyboard and remote cursor, under the pause button of the page.         *)
(***************************************************************************)
EXTENDS RemotePointer, RemoteKeyboard, RemoteCursor

screenVars == <<pointerVars, keyboardVars, cursorVars>>

\* The page pauses or resumes: one property, read by both kinds of handlers.
SetPaused ==
  /\ PausePointers(~paused)
  /\ PauseKeys(~paused)
  /\ UNCHANGED cursorVars

ScreenInit == PointerInit /\ KeyboardInit /\ CursorInit

ScreenNext ==
  \/ PointerNext /\ UNCHANGED <<keyboardVars, cursorVars>>
  \/ KeyboardNext /\ UNCHANGED <<pointerVars, cursorVars>>
  \/ CursorNext /\ UNCHANGED <<pointerVars, keyboardVars>>
  \/ SetPaused

ScreenSpec == ScreenInit /\ [][ScreenNext]_screenVars

\* A frame comes once it was requested.
ScreenFairSpec == ScreenSpec /\ WF_screenVars(FlushInput /\ UNCHANGED <<keyboardVars, cursorVars>>)

-----------------------------------------------------------------------------
(* Properties *)

\* Type invariant.
ScreenTypeOK ==
  /\ paused \in BOOLEAN /\ keysPaused = paused
  /\ inputMode \in {"touch", "pointer"}
  /\ touching \subseteq Fingers /\ buttons \subseteq Buttons
  /\ pointers \in Seq(Pointers) /\ at \in [Pointers -> Spots]
  /\ longPress \in [id : Fingers, armed : BOOLEAN] \cup {Absent}
  /\ tracker \in [id : Pointers, moved : BOOLEAN] \cup {Absent}
  /\ drag \in Fingers \cup {Absent}
  /\ twoTap \in BOOLEAN /\ scroll \in BOOLEAN
  /\ pendingMove \in Spots \cup {Absent} /\ pendingRel \in BOOLEAN
  /\ pendingWheel \in -MaxWheel..MaxWheel /\ owed \in Int /\ frame \in BOOLEAN
  /\ lastSentMove \in Spots \cup {Absent} /\ cursor \in Spots \cup {Absent}
  /\ host \in [at : Spots, held : SUBSET Buttons]
  /\ {strayed, missed, careless} \subseteq BOOLEAN
  /\ {captured, inPanel, platformKnown} \subseteq BOOLEAN
  /\ physical \subseteq Keys /\ heldKeys \subseteq Keys /\ hostKeys \subseteq Keys
  /\ cursorCache \subseteq Cursors /\ urls \in 0..MaxUrls
  /\ loading \subseteq [cursor : Pngs, url : 1..MaxUrls]
  /\ cursorBitmap \in [cursor : Cursors, url : 0..MaxUrls] \cup {NoCursor}
  /\ lastPngUrl \in 0..MaxUrls /\ revoked \subseteq 1..MaxUrls

Idle == touching = {} /\ buttons = {}

\* Once every finger and button is up the host holds no button, whatever mixture of
\* taps, long presses, drags, scrolls and flushes came before: unless the user paused,
\* changed the mode, added a second pointer to a grab or chorded mouse buttons in the
\* middle of a gesture.
ButtonsReleased == Idle /\ ~careless => host.held = {}

\* A press lands where it was aimed although repeated moves are not sent: the position
\* sent last is where the host's cursor is, unless something else has moved it since.
PressesLand == ~missed

\* No wheel step is lost or sent twice between the queue and its bursts, and queued
\* input never waits for a frame that nobody requested.
QueueFlows ==
  /\ owed = pendingWheel
  /\ pendingMove # Absent \/ pendingRel \/ pendingWheel # 0 => frame

\* The host holds no key that was pressed on the screen once the pointer has left it
\* or the page is paused.  Without a known platform that is true of control keys only:
\* the release of a shortcut's character is not sent.
KeysReleased ==
  ~captured \/ paused => hostKeys \subseteq (IF platformKnown THEN {} ELSE Chars)

\* The cursor shown is never an image whose URL was freed.
CursorDrawable == cursorBitmap # NoCursor => cursorBitmap.url \notin revoked

\* Nothing that was let go of stays in use: a button or a key held at the host, input
\* held in the queue, a cursor image that was freed.
NothingDangles == ButtonsReleased /\ QueueFlows /\ KeysReleased /\ CursorDrawable

\* What the user does arrives, where it was aimed and as long as it lasts.
InputHolds == PressesLand /\ NothingDangles

-----------------------------------------------------------------------------
(* What comments in the source say, and TLC refutes. *)

\* "lifting releases (drops) the item" (lines 899 to 901): nothing is held when nobody
\* touches, with a second finger put down during a grab.
GrabDropped == Idle => host.held = {}

\* "release them on the host, otherwise they stick forever" (line 144).
NoKeySticks == ~captured \/ paused => hostKeys = {}

\* "while paused nothing goes to the host" (line 835): no button, wheel or move.
PausedSilent == [][paused /\ paused' => UNCHANGED <<lastSentMove, pendingWheel, host.held>>]_screenVars

=============================================================================
