--------------------------- MODULE RemoteKeyboard --------------------------
(***************************************************************************)
(* Keyboard input of the remote screen, frontend/src/components/           *)
(* RemoteScreen.tsx and lib/rustdesk/keymap.ts: which key events go to the *)
(* host, as what, and which keys are remembered for being released when    *)
(* the pointer leaves the screen.                                          *)
(*                                                                         *)
(* A key is one of its kind as far as buildKeyEvent tells kinds apart.  If *)
(* the host's platform is known its keys travel as raw codes, else as      *)
(* control keys, characters or text.  The host is external: it holds what  *)
(* it was told is down until it is told that it is up.                     *)
(***************************************************************************)
EXTENDS FiniteSets

CONSTANTS
  Modifiers,    \* keys that are modifiers and in both key tables
  Controls,     \* other keys of CONTROL_KEY_MAP, such as Enter
  Chars,        \* keys that print a character
  Odd           \* keys in neither table that print nothing (Dead, Process)

Keys == Modifiers \cup Controls \cup Chars \cup Odd

VARIABLES
  keysPaused,   \* paused, as the handlers read it
  captured,     \* capturedRef: the pointer is over the screen
  inPanel,      \* the focus is in an input or a dialog of the panel
  platformKnown,
  physical,     \* the keys the user holds
  heldKeys,     \* heldKeysRef
  hostKeys      \* the keys the host holds

keyboardVars == <<keysPaused, captured, inPanel, platformKnown, physical, heldKeys,
                  hostKeys>>

KeyboardInit ==
  /\ keysPaused = FALSE /\ captured = FALSE /\ inPanel = FALSE
  /\ platformKnown \in BOOLEAN
  /\ physical = {} /\ heldKeys = {} /\ hostKeys = {}

-----------------------------------------------------------------------------
(* buildKeyEvent: "raw", "control" and "char" are held by the host, a "text" *)
(* is typed once; "none" is not sent.  A shortcut is a character with a      *)
(* modifier; without one it is text on the way down and nothing on the way up. *)

BuildKeyEvent(k, down, mods) ==
  IF platformKnown /\ k \notin Odd THEN "raw"
  ELSE IF k \in Modifiers \cup Controls THEN "control"
  ELSE IF k \in Odd THEN "none"
  ELSE IF mods # {} THEN "char"
  ELSE IF down THEN "text" ELSE "none"

Holds(k, mods) == BuildKeyEvent(k, TRUE, mods) \in {"raw", "control", "char"}
Lets(k, mods) == BuildKeyEvent(k, FALSE, mods) \in {"raw", "control", "char"}

\* isPanelInputTarget and shouldForwardToHost.
ShouldForwardToHost == captured /\ ~keysPaused /\ ~inPanel

\* Every key whose event was sent is remembered.
Remembers(k) == TRUE

\* releaseHeldKeys: an event without modifiers for each.
ReleasedKeys == {k \in heldKeys : Lets(k, {})}
ReleaseHeldKeys == heldKeys' = {} /\ hostKeys' = hostKeys \ ReleasedKeys

-----------------------------------------------------------------------------
KeyDown(k) ==
  /\ k \notin physical
  /\ physical' = physical \cup {k}
  /\ LET mods == physical' \cap Modifiers IN
       IF ShouldForwardToHost /\ BuildKeyEvent(k, TRUE, mods) # "none"
       THEN /\ hostKeys' = IF Holds(k, mods) THEN hostKeys \cup {k} ELSE hostKeys
            /\ heldKeys' = IF Remembers(k) THEN heldKeys \cup {k} ELSE heldKeys
       ELSE UNCHANGED <<hostKeys, heldKeys>>
  /\ UNCHANGED <<keysPaused, captured, inPanel, platformKnown>>

KeyUp(k) ==
  /\ k \in physical
  /\ physical' = physical \ {k}
  /\ LET mods == physical' \cap Modifiers IN
       IF ShouldForwardToHost
       THEN /\ hostKeys' = IF Lets(k, mods) THEN hostKeys \ {k} ELSE hostKeys
            /\ heldKeys' = heldKeys \ {k}
       ELSE UNCHANGED <<hostKeys, heldKeys>>
  /\ UNCHANGED <<keysPaused, captured, inPanel, platformKnown>>

\* onPointerEnter: capture, and the canvas takes the focus.
PointerEnter ==
  /\ ~captured
  /\ captured' = TRUE /\ inPanel' = FALSE
  /\ UNCHANGED <<keysPaused, platformKnown, physical, heldKeys, hostKeys>>

\* onPointerLeave
PointerLeave ==
  /\ captured /\ captured' = FALSE
  /\ ReleaseHeldKeys
  /\ UNCHANGED <<keysPaused, inPanel, platformKnown, physical>>

\* A dialog opens, or the user goes to an input by keyboard.
FocusPanel ==
  /\ ~inPanel /\ inPanel' = TRUE
  /\ UNCHANGED <<keysPaused, captured, platformKnown, physical, heldKeys, hostKeys>>

\* The effect on paused: key-ups will be dropped from now on.
PauseKeys(v) ==
  /\ keysPaused' = v
  /\ IF v THEN ReleaseHeldKeys ELSE UNCHANGED <<heldKeys, hostKeys>>
  /\ UNCHANGED <<captured, inPanel, platformKnown, physical>>

KeyboardNext ==
  \/ \E k \in Keys : KeyDown(k) \/ KeyUp(k)
  \/ PointerEnter \/ PointerLeave \/ FocusPanel
=============================================================================
