---------------------------- MODULE SessionChat ----------------------------
(***************************************************************************)
(* The journal and the chat of the remote-control page: what the hook of   *)
(* frontend/src/lib/rustdesk/useRustdeskControl.ts keeps of a session      *)
(* beyond its drops and reconnections, logprefs.ts (the journal's markers  *)
(* and filters), chatpos.ts and components/ChatWidget.tsx.                 *)
(*                                                                         *)
(* Of the session no more is known than SessionLifecycle, which            *)
(* RemoteSession keeps to.  A line of the journal is its class, a message  *)
(* of the chat who sent it.  Positions are on one axis, in bubble sizes;   *)
(* the viewport keeps its size, and every press of a pointer ends in a     *)
(* release.  The draft and its emoji are left out.                         *)
(***************************************************************************)
EXTENDS Integers, SequencesExt

CONSTANTS
  MAX_LOGS, MAX_CHAT,   \* what is kept of the journal and of the chat
  MaxUnread,            \* Bound: unread messages
  Viewport, WindowSize, \* width of the viewport and of the window of the chat
  Landings,             \* Bound: where a drag may end, in the viewport or beyond
  Greeting, CloseNotice,\* the automatic messages are enabled, and not empty
  Unset

ASSUME JournalAssumption ==
  /\ {MAX_LOGS, MAX_CHAT, Viewport, WindowSize} \subseteq Nat \ {0}
  /\ Landings \subseteq Int

VARIABLES
  phase, told,          \* of the session and its events
  status,               \* of ControlState; "idle" without journal and chat
  logs, chat, unreadChat,
  debug,                \* the session there is emits lines of the level debug
  logPrefs, storedPrefs,\* levels and categories; in localStorage, or Unset
  mode, greeted,        \* the widget, and greetedRef
  chatOpenReq,          \* the toolbar has asked for the chat since the page was opened
  request,              \* the effect on openRequest has yet to run
  drawn,                \* the effects have run on all there is
  bubblePos, winPos, storedPos,
  press,                \* target of the press, and whether it moved
  unseen                \* history: messages of the host that no open window has shown

hookVars == <<phase, told, status, logs, debug>>
prefVars == <<logPrefs, storedPrefs>>
posVars == <<bubblePos, winPos, storedPos, press>>
talk == <<chat, unreadChat, unseen>>
widget == <<mode, greeted, chatOpenReq, request>>
chatVars == <<hookVars, prefVars, posVars, talk, widget, drawn>>

Life == INSTANCE SessionLifecycle

Levels == {"info", "debug"}
Categories == {"other", "ui"}
DefaultPrefs == [levels |-> {"info"}, categories |-> Categories]

\* connectMarker, errorDropMarker, statusDropMarker; any other entry is no marker.
Markers == {"connect", "lost", "disconnected"}
Marker(name) == [level |-> "info", category |-> "other", marker |-> name]
NoDrag == [target |-> "none", moved |-> FALSE]

Clamp(p, size) ==
  LET least == IF p < 0 THEN 0 ELSE p
      most == IF Viewport < size THEN 0 ELSE Viewport - size
  IN  IF least < most THEN least ELSE most

\* slice(-n)
Slice(s, n) == IF Len(s) <= n THEN s ELSE SubSeq(s, Len(s) - n + 1, Len(s))

-----------------------------------------------------------------------------
(* The journal. *)

PushLogs(entries) == logs' = Slice(logs \o entries, MAX_LOGS)

\* The session's callback and statusDropMarker.  Between two steps of the session
\* dropNotifiedRef is down, userClosingRef matters to nothing that is kept.
HearEvent(h, event) ==
  CASE event \in {"connecting", "connected"} ->
         [h EXCEPT !.status = event, !.notified = FALSE]
    [] event = "disconnected" ->
         [status |-> event, notified |-> FALSE,
          entries |-> IF h.notified THEN h.entries ELSE Append(h.entries, Marker("disconnected"))]
    [] event \in {"error", "authError"} ->
         [status |-> "error", notified |-> TRUE, entries |-> Append(h.entries, Marker("lost"))]
    [] OTHER -> h

\* A step of the session tells of two events at most.
Heard(events) ==
  LET none == [status |-> status, notified |-> FALSE, entries |-> <<>>]
      first == HearEvent(none, events[1])
  IN  CASE Len(events) = 0 -> none
        [] Len(events) = 1 -> first
        [] OTHER -> HearEvent(first, events[2])

\* The session accepts, asks, waits, is dropped or gives up.  Only the page hangs
\* up without a reason.
SessionTells ==
  /\ \/ Life!Accept \/ Life!Ask \/ Life!Wait \/ Life!Drop
     \/ Life!End /\ told' # <<"disconnected">>
  /\ status' = Heard(told').status
  /\ PushLogs(Heard(told').entries)
  /\ drawn' = FALSE
  /\ UNCHANGED <<debug, prefVars, posVars, talk, widget>>

ShouldRecord(level, category) ==
  level \in logPrefs.levels /\ category \in logPrefs.categories

\* A line of the session, or of the page (publishLog); the session has no debug
\* line to tell unless it is asked for them.
Line(level, category) ==
  /\ status # "idle"
  /\ level = "debug" => debug
  /\ ShouldRecord(level, category)
  /\ PushLogs(<<[level |-> level, category |-> category, marker |-> "none"]>>)
  /\ UNCHANGED <<phase, told, status, debug, prefVars, posVars, talk, widget, drawn>>

\* The positions of the entries that are kept, in the order they have.
FilterLogEntries(entries) ==
  {i \in DOMAIN entries : \/ entries[i].marker \in Markers
                          \/ ShouldRecord(entries[i].level, entries[i].category)}

\* What the card of the journal lists, with no query.
VisibleLogs == FilterLogEntries(logs)

ClearLogs ==
  /\ status # "idle" /\ logs' = <<>>
  /\ UNCHANGED <<phase, told, status, debug, prefVars, posVars, talk, widget, drawn>>

ToggleInList(list, value) == IF value \in list THEN list \ {value} ELSE list \cup {value}

SavePrefs(prefs) == logPrefs' = prefs /\ storedPrefs' = prefs

\* The chip of a level; that of debug drives the session that runs.
ToggleLogLevel(level) ==
  /\ status # "idle"
  /\ SavePrefs([logPrefs EXCEPT !.levels = ToggleInList(@, level)])
  /\ debug' = (IF level = "debug" THEN "debug" \in logPrefs'.levels ELSE debug)
  /\ UNCHANGED <<phase, told, status, logs, posVars, talk, widget, drawn>>

ToggleLogCategory(category) ==
  /\ status # "idle"
  /\ SavePrefs([logPrefs EXCEPT !.categories = ToggleInList(@, category)])
  /\ UNCHANGED <<hookVars, posVars, talk, widget, drawn>>

\* The chips of the card.
ToggleChip ==
  \/ \E l \in Levels : ToggleLogLevel(l)
  \/ \E c \in Categories : ToggleLogCategory(c)

\* parseList takes an empty list for none, and the migration adds "ui" to one
\* that is stored without.
LoadLogPrefs ==
  IF storedPrefs = Unset THEN DefaultPrefs
  ELSE [levels |-> IF storedPrefs.levels = {} THEN DefaultPrefs.levels
                   ELSE storedPrefs.levels,
        categories |-> IF storedPrefs.categories = {} THEN DefaultPrefs.categories
                       ELSE storedPrefs.categories \cup {"ui"}]

-----------------------------------------------------------------------------
(* A session begins and ends. *)

\* The widget is mounted with the page's openRequest, on which its effect runs.
Mounted ==
  /\ mode' = "closed" /\ greeted' = FALSE /\ request' = chatOpenReq
  /\ bubblePos' = Clamp(storedPos, 1) /\ winPos' = Clamp(0, WindowSize) /\ press' = NoDrag

\* The page mounts the widget unless it is idle, and so keeps it over a reconnection.
KeptMounted ==
  IF status = "idle" THEN Mounted
  ELSE UNCHANGED <<mode, greeted, request, bubblePos, winPos, press>>

\* The session there is, in whatever phase, is stopped first, and tells of its end
\* if it has not ended.
Begin ==
  /\ phase' = "dialling" /\ told' = <<"connecting">>
  /\ status' = "connecting" /\ debug' = ("debug" \in logPrefs.levels)
  /\ PushLogs(Heard(IF phase # "over" THEN <<"disconnected">> ELSE <<>>).entries
                \o <<Marker("connect")>>)
  /\ KeptMounted
  /\ drawn' = FALSE
  /\ UNCHANGED <<prefVars, storedPos, chatOpenReq>>

\* Fault: the count of unread messages does not survive a reconnection.
ReconnectFault == Begin /\ unreadChat' = 0 /\ UNCHANGED <<chat, unseen>>

\* connect(), of the user or of a retry.  Journal and chat go on.
ConnectPage == Begin /\ UNCHANGED talk

\* disconnect(): the session ends, and all that was kept of it with the widget.
DisconnectPage ==
  /\ status # "idle"
  /\ phase' = "over" /\ told' = (IF phase = "over" THEN <<>> ELSE <<"disconnected">>)
  /\ status' = "idle" /\ logs' = <<>> /\ chat' = <<>> /\ unreadChat' = 0 /\ unseen' = 0
  /\ debug' = FALSE /\ Mounted /\ drawn' = TRUE
  /\ UNCHANGED <<prefVars, storedPos, chatOpenReq>>

\* The page is loaded again: only localStorage is left.
ReloadPage ==
  /\ phase' = "over" /\ told' = <<>>
  /\ status' = "idle" /\ logs' = <<>> /\ chat' = <<>> /\ unreadChat' = 0 /\ unseen' = 0
  /\ logPrefs' = LoadLogPrefs
  /\ chatOpenReq' = FALSE /\ request' = FALSE /\ mode' = "closed" /\ greeted' = FALSE
  /\ bubblePos' = Clamp(storedPos, 1) /\ winPos' = Clamp(0, WindowSize) /\ press' = NoDrag
  /\ debug' = FALSE /\ drawn' = TRUE
  /\ UNCHANGED <<storedPrefs, storedPos>>

-----------------------------------------------------------------------------
(* The chat. *)

\* sendChat: what is said is kept, whether or not the relay takes it.
Say(messages) == chat' = Slice(chat \o messages, MAX_CHAT)

\* maybeGreet: what is said, the first time the window is opened.
Hello == IF ~greeted /\ Greeting THEN <<"greeting">> ELSE <<>>

OpenWindow == mode' = "open" /\ winPos' = Clamp(bubblePos, WindowSize)

\* What is new is drawn, and the effects of the widget run on it in their order:
\* the toolbar's request, messages that raise the bubble, those that are seen.
Effects ==
  /\ ~drawn
  /\ LET raised == mode = "closed" /\ unreadChat > 0
     IN  /\ mode' = (IF raised THEN "bubble" ELSE IF request THEN "open" ELSE mode)
         /\ winPos' = IF request THEN Clamp(bubblePos, WindowSize) ELSE winPos
         /\ IF request THEN Say(Hello) ELSE UNCHANGED chat
         /\ greeted' = (greeted \/ request) /\ request' = FALSE
         /\ unreadChat' = IF mode = "open" THEN 0 ELSE unreadChat
         /\ unseen' = IF mode = "open" THEN 0 ELSE unseen
         /\ drawn' = (mode' = mode /\ chat' = chat /\ unreadChat' = unreadChat)
  /\ UNCHANGED <<hookVars, prefVars, bubblePos, storedPos, press, chatOpenReq>>

\* handleMisc: a message of the user of the host.
Receive ==
  /\ phase = "live" /\ unreadChat < MaxUnread
  /\ Say(<<"host">>)
  /\ unreadChat' = unreadChat + 1 /\ unseen' = unseen + 1
  /\ drawn' = FALSE
  /\ UNCHANGED <<hookVars, prefVars, posVars, widget>>

\* The toolbar is there while the session is connected.
AskForChat ==
  /\ status = "connected"
  /\ chatOpenReq' = TRUE /\ request' = TRUE /\ drawn' = FALSE
  /\ UNCHANGED <<hookVars, prefVars, posVars, talk, mode, greeted>>

Send ==
  /\ mode = "open"
  /\ Say(<<"self">>)
  /\ drawn' = FALSE
  /\ UNCHANGED <<hookVars, prefVars, posVars, unreadChat, unseen, widget>>

Minimize ==
  /\ mode = "open" /\ mode' = "bubble" /\ drawn' = FALSE
  /\ UNCHANGED <<hookVars, prefVars, posVars, talk, greeted, chatOpenReq, request>>

\* Whatever is unread goes with the window; a chat that is not empty ends with a
\* notice.
CloseWindow ==
  /\ mode = "open" /\ mode' = "closed" /\ drawn' = FALSE
  /\ Say(IF CloseNotice /\ chat # <<>> THEN <<"notice">> ELSE <<>>)
  /\ unreadChat' = 0 /\ unseen' = 0
  /\ UNCHANGED <<hookVars, prefVars, posVars, greeted, chatOpenReq, request>>

\* beginDrag, on the bubble or on the header of the window.
BeginDrag(target) ==
  /\ mode = target /\ press = NoDrag
  /\ press' = [target |-> target, moved |-> FALSE]
  /\ UNCHANGED <<hookVars, prefVars, bubblePos, winPos, storedPos, talk, widget, drawn>>

\* Beyond CLICK_SLOP.
OnDragMove(p) ==
  /\ press # NoDrag /\ press' = [press EXCEPT !.moved = TRUE]
  /\ IF press.target = "bubble" THEN bubblePos' = p /\ UNCHANGED winPos
     ELSE winPos' = p /\ UNCHANGED bubblePos
  /\ UNCHANGED <<hookVars, prefVars, storedPos, talk, widget, drawn>>

\* endDrag, where the pointer has moved.
EndDrag ==
  /\ press.moved /\ press' = NoDrag
  /\ IF press.target = "bubble"
       THEN bubblePos' = Clamp(bubblePos, 1) /\ storedPos' = bubblePos' /\ UNCHANGED winPos
       ELSE winPos' = Clamp(winPos, WindowSize) /\ UNCHANGED <<bubblePos, storedPos>>
  /\ UNCHANGED <<hookVars, prefVars, talk, widget, drawn>>

\* A press that did not move: one of the bubble opens the window.
ClickWidget ==
  /\ press # NoDrag /\ ~press.moved /\ press' = NoDrag
  /\ IF press.target = "bubble"
       THEN OpenWindow /\ Say(Hello) /\ greeted' = TRUE /\ drawn' = FALSE
       ELSE UNCHANGED <<mode, winPos, greeted, chat, drawn>>
  /\ UNCHANGED <<hookVars, prefVars, bubblePos, storedPos, unreadChat, unseen, chatOpenReq,
                 request>>

-----------------------------------------------------------------------------
ChatInit ==
  /\ Life!LifeInit
  /\ status = "idle" /\ logs = <<>> /\ chat = <<>> /\ unreadChat = 0 /\ debug = FALSE
  /\ logPrefs = DefaultPrefs /\ storedPrefs = Unset
  /\ mode = "closed" /\ greeted = FALSE /\ chatOpenReq = FALSE /\ request = FALSE
  /\ drawn = TRUE
  /\ bubblePos = 0 /\ winPos = 0 /\ storedPos = 0 /\ press = NoDrag
  /\ unseen = 0

JournalNext ==
  \/ SessionTells \/ ConnectPage \/ DisconnectPage \/ ReloadPage \/ ClearLogs
  \/ ToggleChip
  \/ \E l \in Levels, c \in Categories : Line(l, c)

ChatNext ==
  \/ JournalNext
  \/ Effects \/ Receive \/ AskForChat \/ Send \/ Minimize \/ CloseWindow
  \/ \E target \in {"bubble", "open"} : BeginDrag(target)
  \/ \E p \in Landings : OnDragMove(p)
  \/ EndDrag \/ ClickWidget

ChatSpec == ChatInit /\ [][ChatNext]_chatVars

-----------------------------------------------------------------------------
\* The markers that can be seen, and those that follow one another.
Marks == {i \in VisibleLogs : logs[i].marker \in Markers}
Follows(i, j) == i < j /\ \A k \in Marks : k <= i \/ j <= k

\* logprefs.ts on markers: they survive any filter, and a drop leaves one.  The
\* last marker that can be seen tells whether there is a session, and an error is
\* never followed by a second marker of the same end.
JournalTells ==
  /\ \A i \in Marks : (\A j \in Marks : j <= i)
       => (logs[i].marker = "connect" <=> phase \in {"dialling", "asking", "live"})
  /\ \A i, j \in Marks : Follows(i, j) /\ logs[i].marker = "lost" => logs[j].marker # "disconnected"
  /\ status # "idle" => (debug <=> "debug" \in logPrefs.levels)

\* ChatWidget: incoming messages activate the chat.  Once it is drawn, the badge
\* counts the messages that nobody has seen, the bubble that carries it is there,
\* and the chat greets once, whatever drops and reconnects under it.
ChatSeen ==
  /\ drawn => unreadChat = unseen /\ (unseen > 0 => mode = "bubble")
  /\ \A i, j \in DOMAIN chat : chat[i] = "greeting" /\ chat[j] = "greeting" => i = j

\* chatpos.ts: the bubble and the window are on the screen unless they are dragged.
OnScreen ==
  press = NoDrag =>
    /\ bubblePos >= 0 /\ bubblePos + 1 <= Viewport
    /\ mode = "open" /\ WindowSize <= Viewport =>
         winPos >= 0 /\ winPos + WindowSize <= Viewport

\* The journal and the chat tell the user what became of the session.
SessionHeld == JournalTells /\ ChatSeen /\ OnScreen

-----------------------------------------------------------------------------
(* What comments in the source say, and TLC refutes. *)

\* "a drop appends exactly one marker" (logprefs.ts 119): a session whose relay has
\* closed is told to end once more, by its watchdog or when it is stopped at last.
OneMarkerPerDrop ==
  \A i, j \in Marks : Follows(i, j) => "connect" \in {logs[i].marker, logs[j].marker}

\* "Filter preferences survive refresh" (logprefs.ts 52): the last level that was
\* switched off, and the category of the page, come back.
PrefsSurvive == storedPrefs # Unset => LoadLogPrefs = storedPrefs
=============================================================================
