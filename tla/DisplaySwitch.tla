---------------------------- MODULE DisplaySwitch --------------------------
(***************************************************************************)
(* Which monitor of the host is watched: the display half of a session of  *)
(* frontend/src/lib/rustdesk/session.ts.  A switch is taken at once and    *)
(* taken back when neither the host's echo nor a frame has come in time.   *)
(* The host, which is external, subscribes us to what we ask for or ignores*)
(* it, never unsubscribes us, and tells of its own changes of the layout.  *)
(***************************************************************************)
EXTENDS Integers, Sequences

CONSTANTS
  MaxDisplays,  \* monitors of the host, at most
  MaxInFlight   \* messages under way between session and host, at most

ASSUME DisplayAssumption == {MaxDisplays, MaxInFlight} \subseteq Nat \ {0}

VARIABLES
  displays,     \* how many the session knows of
  currentDisplay, previousDisplay,
  switchPending,    \* switchPendingTarget while its timer runs, or NoDisplay
  gotTargetFrames,
  requests,     \* switches under way to the host
  echoes,       \* SwitchDisplay messages under way to the session: [display, ours]
  streamed,     \* the displays the host streams to us
  rushed        \* history: a switch overtook another, a broadcast was taken for its
                \* echo, or the layout changed

displayVars == <<displays, currentDisplay, previousDisplay, switchPending, gotTargetFrames,
                 requests, echoes, streamed, rushed>>

NoDisplay == -1

DisplayInit ==
  /\ displays \in 1..MaxDisplays
  /\ currentDisplay = 0 /\ previousDisplay = 0
  /\ switchPending = NoDisplay /\ gotTargetFrames = FALSE
  /\ requests = <<>> /\ echoes = <<>> /\ streamed = {0} /\ rushed = FALSE

\* clampDisplayIndex
ClampIndex(index, count) ==
  IF count <= 0 THEN 0 ELSE IF index < count THEN index ELSE count - 1

\* sendSwitchDisplay
SendSwitchDisplay ==
  LET next == (currentDisplay + 1) % displays IN
  /\ displays > 1 /\ Len(requests) < MaxInFlight
  /\ previousDisplay' = currentDisplay /\ currentDisplay' = next
  /\ switchPending' = next /\ gotTargetFrames' = FALSE
  /\ requests' = Append(requests, next)
  /\ rushed' = (rushed \/ switchPending # NoDisplay)
  /\ UNCHANGED <<displays, echoes, streamed>>

\* The host subscribes us and echoes the switch, or ignores it.
HostSwitchesDisplay(obeys) ==
  /\ requests # <<>> /\ requests' = Tail(requests)
  /\ Len(echoes) < MaxInFlight
  /\ IF obeys
     THEN streamed' = streamed \cup {Head(requests)} /\ echoes' = Append(echoes, [display |-> Head(requests), ours |-> TRUE])
     ELSE UNCHANGED <<streamed, echoes>>
  /\ UNCHANGED <<displays, currentDisplay, previousDisplay, switchPending, gotTargetFrames, rushed>>

\* The video service of some monitor restarts, and the host tells everybody.
HostBroadcasts(display) ==
  /\ Len(echoes) < MaxInFlight
  /\ echoes' = Append(echoes, [display |-> display, ours |-> FALSE])
  /\ UNCHANGED <<displays, currentDisplay, previousDisplay, switchPending, gotTargetFrames,
                 requests, streamed, rushed>>

\* Does the message at the head seem to be the echo of our own switch?
Confirms == ClampIndex(Head(echoes).display, displays) = switchPending

\* SwitchDisplay in handleMisc: the echo of our own switch, or a broadcast.
SwitchDisplay ==
  /\ echoes # <<>> /\ echoes' = Tail(echoes)
  /\ switchPending' = IF Confirms THEN NoDisplay ELSE switchPending
  /\ rushed' = (rushed \/ (Confirms /\ ~Head(echoes).ours))
  /\ UNCHANGED <<displays, currentDisplay, previousDisplay, gotTargetFrames, requests, streamed>>

\* The display part of handleVideoFrame.
TargetFrame(display) ==
  /\ display \in streamed /\ display = switchPending
  /\ gotTargetFrames' = TRUE
  /\ UNCHANGED <<displays, currentDisplay, previousDisplay, switchPending, requests, echoes,
                 streamed, rushed>>

\* Faults: the display gone back to need not exist any more; nothing is taken back.
FinalizePendingSwitchFault ==
  /\ switchPending # NoDisplay /\ switchPending' = NoDisplay
  /\ currentDisplay' = IF ~gotTargetFrames /\ currentDisplay = switchPending
                       THEN previousDisplay ELSE currentDisplay
  /\ UNCHANGED <<displays, previousDisplay, gotTargetFrames, requests, echoes, streamed, rushed>>
FinalizePendingSwitchStays ==
  /\ switchPending # NoDisplay /\ switchPending' = NoDisplay
  /\ UNCHANGED <<displays, currentDisplay, previousDisplay, gotTargetFrames, requests, echoes,
                 streamed, rushed>>
\* finalizePendingSwitch, 4 s after the switch.
FinalizePendingSwitch ==
  /\ switchPending # NoDisplay /\ switchPending' = NoDisplay
  /\ currentDisplay' = IF ~gotTargetFrames /\ currentDisplay = switchPending
                       THEN ClampIndex(previousDisplay, displays) ELSE currentDisplay
  /\ UNCHANGED <<displays, previousDisplay, gotTargetFrames, requests, echoes, streamed, rushed>>

\* emitPeerInfo: monitors were added or removed.
Topology(count) ==
  /\ count # displays /\ displays' = count
  /\ currentDisplay' = ClampIndex(currentDisplay, count)
  /\ rushed' = TRUE
  /\ UNCHANGED <<previousDisplay, switchPending, gotTargetFrames, requests, echoes, streamed>>

DisplayNext ==
  \/ SendSwitchDisplay
  \/ \E obeys \in BOOLEAN : HostSwitchesDisplay(obeys)
  \/ \E display \in 0..MaxDisplays - 1 : HostBroadcasts(display) \/ TargetFrame(display)
  \/ SwitchDisplay \/ FinalizePendingSwitch
  \/ \E count \in 0..MaxDisplays : Topology(count)

DisplaySpec == DisplayInit /\ [][DisplayNext]_displayVars

-----------------------------------------------------------------------------
(* Properties *)

\* The display watched exists, whatever switches and changes of the layout cross.
InLayout == currentDisplay < displays \/ currentDisplay = 0

\* Once a switch is settled the display watched is one the host streams: unless a second
\* switch came before the first was settled, a broadcast was mistaken for its echo, or
\* the layout changed.
SettledIsLive == switchPending = NoDisplay /\ ~rushed => currentDisplay \in streamed

\* The display watched is there and live, however the user's switches, the host's echoes
\* and changes of the layout cross.
DisplayHonest == InLayout /\ SettledIsLive

-----------------------------------------------------------------------------
(* What a comment in the source says, and TLC refutes. *)

\* "Revert so we keep showing live video" (session.ts 1402).
RevertsToLive == [][FinalizePendingSwitch => currentDisplay' \in streamed]_displayVars
=============================================================================
