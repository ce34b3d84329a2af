--------------------------- MODULE RemotePointer ---------------------------
(***************************************************************************)
(* Pointer input of the remote screen, frontend/src/components/            *)
(* RemoteScreen.tsx: mouse, fingers and wheel as the handlers of the       *)
(* canvas turn them into moves, buttons and wheel steps for the host.      *)
(*                                                                         *)
(* A place on the canvas and the place of the host's desktop it stands for *)
(* are one Spot.  Distances appear as what they decide: a move is far (it  *)
(* cancels a long press, it makes a drag of a tap) or it is not; two       *)
(* fingers pinch or scroll by some steps.  Time is the firing of the       *)
(* long-press timer and of the animation frame; a quick second tap and a   *)
(* quick two-finger tap are choices.                                       *)
(*                                                                         *)
(* The host is external.  It presses where its cursor is: the coordinates  *)
(* of a button event are ignored (line 943), and the event names the       *)
(* button it is about.                                                     *)
(***************************************************************************)
EXTENDS Integers, Sequences

CONSTANTS
  Fingers,      \* pointers of type touch
  Mouse,        \* the pointer of type mouse
  Spots,
  Absent,
  Burst,        \* MAX_WHEEL_PER_FLUSH
  MaxWheel      \* bound: wheel steps queued at one time

ASSUME PointerAssumption ==
  /\ Mouse \notin Fingers /\ Absent \notin Fingers \cup {Mouse} \cup Spots
  /\ Burst \in Nat \ {0} /\ MaxWheel \in Nat

VARIABLES
  paused, inputMode,    \* props of the component
  touching, buttons,    \* the user: fingers on the screen, mouse buttons held
  pointers,             \* the map of the handlers: pointers in order of insertion
  at,                   \* where each pointer was seen last
  longPress,            \* [id, armed] of longPressRef, or Absent
  twoTap, scroll,       \* twoTapRef and scrollRef.active
  tracker,              \* [id, moved] of pointerTrackerRef, or Absent
  drag,                 \* the finger of dragRef, or Absent
  pendingMove, pendingRel, pendingWheel,
  frame,                \* a flush is requested for the next animation frame
  lastSentMove, cursor, \* lastSentMoveRef and cursorPosRef
  host,                 \* its cursor and the buttons it believes are held
  \* History.
  strayed,              \* the host's cursor has moved otherwise than by an absolute move
  missed,               \* a press went to another spot although it had not
  owed,                 \* wheel steps the user made less those sent
  careless              \* the user did in a gesture what the handlers do not follow

gesture == <<longPress, twoTap, scroll, tracker, drag>>
queue == <<pendingMove, pendingRel, pendingWheel, frame>>
sent == <<lastSentMove, cursor, host, strayed, missed>>
pointerVars == <<paused, inputMode, touching, buttons, pointers, at, gesture, queue,
                 sent, owed, careless>>

Buttons == {"left", "right"}
Pointers == Fingers \cup {Mouse}
Mapped == {pointers[i] : i \in DOMAIN pointers}

PointerInit ==
  /\ paused = FALSE /\ inputMode \in {"touch", "pointer"}
  /\ touching = {} /\ buttons = {} /\ pointers = <<>>
  /\ \E s \in Spots :
       /\ at = [p \in Pointers |-> s]
       /\ cursor = Absent /\ lastSentMove = Absent
       /\ host = [at |-> s, held |-> {}]
  /\ longPress = Absent /\ twoTap = FALSE /\ scroll = FALSE
  /\ tracker = Absent /\ drag = Absent
  /\ pendingMove = Absent /\ pendingRel = FALSE /\ pendingWheel = 0 /\ frame = FALSE
  /\ strayed = FALSE /\ missed = FALSE /\ owed = 0 /\ careless = FALSE

-----------------------------------------------------------------------------
(* What the handlers send.  Output o collects it: the host, our record of    *)
(* it, and the history.                                                      *)

Out == [last |-> lastSentMove, cursor |-> cursor, host |-> host,
        strayed |-> strayed, missed |-> missed]

Sends(o) ==
  /\ lastSentMove' = o.last /\ cursor' = o.cursor /\ host' = o.host
  /\ strayed' = o.strayed /\ missed' = o.missed

\* sendMoveDedup: a repeated position only counts as ours.
MoveTo(o, s) ==
  IF s = o.last THEN [o EXCEPT !.cursor = s]
  ELSE [o EXCEPT !.last = s, !.cursor = s, !.host.at = s, !.strayed = FALSE]

Press(o, b, s) ==
  [o EXCEPT !.host.held = @ \cup {b},
            !.missed = @ \/ (o.host.at # s /\ ~o.strayed)]
Release(o, b) == [o EXCEPT !.host.held = @ \ {b}]

\* Fault: the coordinates of the event are relied on.
ClickFault(o, b, s) == Release(Press(o, b, s), b)
Click(o, b, s) == Release(Press(MoveTo(o, s), b, s), b)

\* getRC: our own motion is as fresh as the cursor it set; Absent before either.
Target(p) == IF cursor # Absent THEN cursor ELSE at[p]

-----------------------------------------------------------------------------
(* onPointerDown *)

\* The second pointer: from now on the two scroll or pinch.  The event it sends
\* to "release primary" names no button.
SecondDown(p) ==
  /\ longPress' = Absent
  /\ twoTap' = (twoTap \/ (inputMode = "pointer" /\ p \in Fingers))
  /\ scroll' = TRUE
  /\ UNCHANGED <<tracker, drag, sent>>

FirstDown(p, b, s) ==
  /\ IF p \in Fingers
     THEN longPress' = [id |-> p, armed |-> TRUE]
     ELSE UNCHANGED longPress
  /\ IF p \in Fingers /\ inputMode = "pointer"
     THEN tracker' = [id |-> p, moved |-> FALSE] /\ UNCHANGED sent
     ELSE UNCHANGED tracker /\ Sends(Press(MoveTo(Out, s), b, s))
  /\ UNCHANGED <<twoTap, scroll, drag>>

HandleDown(p, b, s) ==
  /\ pointers' = IF p \in Mapped THEN pointers ELSE Append(pointers, p)
  /\ at' = [at EXCEPT ![p] = s]
  /\ IF Len(pointers') >= 2 THEN SecondDown(p) ELSE FirstDown(p, b, s)

FingerDown(f, s) ==
  /\ f \notin touching
  /\ touching' = touching \cup {f}
  /\ careless' = (careless \/ drag # Absent \/ buttons # {})
  /\ IF paused THEN at' = [at EXCEPT ![f] = s] /\ UNCHANGED <<pointers, gesture, sent>>
     ELSE HandleDown(f, "left", s)
  /\ UNCHANGED <<paused, inputMode, buttons, queue, owed>>

\* A button of the mouse: the browser sends pointerdown for the first one only.
ButtonDown(b) ==
  /\ b \notin buttons
  /\ buttons' = buttons \cup {b}
  /\ careless' = (careless \/ buttons # {} \/ touching # {})
  /\ IF paused \/ buttons # {} THEN UNCHANGED <<pointers, at, gesture, sent>>
     ELSE HandleDown(Mouse, b, at[Mouse])
  /\ UNCHANGED <<paused, inputMode, touching, queue, owed>>

-----------------------------------------------------------------------------
(* onPointerMove *)

Wheel(k) ==
  /\ pendingWheel + k \in -MaxWheel..MaxWheel
  /\ pendingWheel' = pendingWheel + k
  /\ owed' = owed + k

\* Two fingers: a pinch zooms, else the travel scrolls by k steps.
Travel ==
  \/ /\ Len(pointers) >= 2
     /\ twoTap' = FALSE
     /\ UNCHANGED <<queue, owed>>
  \/ \E k \in {-1, 0, 1} :
       /\ pointers # <<>> \/ k = 0
       /\ Wheel(k)
       /\ twoTap' = (twoTap /\ k = 0)
       /\ frame' = (frame \/ pendingWheel' # 0)
       /\ UNCHANGED <<pendingMove, pendingRel>>

HandleMove(p, s, far) ==
  /\ at' = [at EXCEPT ![p] = s]
  /\ longPress' = IF longPress # Absent /\ longPress.id = p /\ longPress.armed /\ far
                  THEN Absent ELSE longPress
  /\ CASE drag = p ->
            /\ pendingMove' = s /\ frame' = TRUE
            /\ UNCHANGED <<pendingRel, pendingWheel, twoTap, tracker, owed>>
       [] drag # p /\ scroll ->
            Travel /\ UNCHANGED tracker
       [] drag # p /\ ~scroll /\ inputMode = "pointer" /\ p \in Fingers ->
            /\ IF tracker # Absent /\ tracker.id = p
               THEN /\ pendingRel' = TRUE /\ frame' = TRUE
                    /\ tracker' = [tracker EXCEPT !.moved = @ \/ far]
               ELSE UNCHANGED <<pendingRel, frame, tracker>>
            /\ UNCHANGED <<pendingMove, pendingWheel, twoTap, owed>>
       [] OTHER ->
            /\ pendingMove' = s /\ frame' = TRUE
            /\ UNCHANGED <<pendingRel, pendingWheel, twoTap, tracker, owed>>
  /\ UNCHANGED <<scroll, drag>>

\* A finger on the screen, or the mouse with or without its button, moves.
Move(p, s, far) ==
  /\ p \in touching \cup {Mouse}
  /\ IF paused THEN at' = [at EXCEPT ![p] = s] /\ UNCHANGED <<gesture, queue, owed>>
     ELSE HandleMove(p, s, far)
  /\ UNCHANGED <<paused, inputMode, touching, buttons, pointers, sent, careless>>

-----------------------------------------------------------------------------
(* onPointerEnd, for pointerup and pointercancel *)

\* Map.delete: the others keep their order.
Without(p) ==
  LET k == CHOOSE i \in DOMAIN pointers : pointers[i] = p
  IN  [i \in 1..(Len(pointers) - 1) |-> pointers[IF i < k THEN i ELSE i + 1]]

\* Two fingers became one.  A quick unmoved pair was a right click.
ScrollEnds(p, rest) ==
  /\ scroll' = FALSE
  /\ UNCHANGED drag
  /\ CASE rest = <<>> -> UNCHANGED <<twoTap, tracker, sent>>
       [] rest # <<>> /\ inputMode = "pointer" ->
            /\ twoTap' = FALSE
            /\ tracker' = [id |-> Head(rest), moved |-> TRUE]
            /\ \/ twoTap /\ p \in Fingers /\ Sends(Click(Out, "right", Target(Head(rest))))
               \/ UNCHANGED sent
       [] OTHER ->
            /\ LET s == at[Head(rest)] IN Sends(Press(MoveTo(Out, s), "left", s))
            /\ UNCHANGED <<twoTap, tracker>>

\* A tap clicks at the cursor, a quick second one double-clicks.
Tap(p) ==
  /\ tracker' = Absent
  /\ IF tracker # Absent /\ tracker.id = p /\ ~tracker.moved
     THEN Sends(Click(Out, "left", Target(p)))
     ELSE UNCHANGED sent
  /\ UNCHANGED drag

Drop(p) == /\ drag' = Absent
           /\ Sends(Release([Out EXCEPT !.cursor = Target(p)], "left"))
           /\ UNCHANGED tracker

LiftedAlone(p, b) ==
  /\ UNCHANGED <<scroll, twoTap>>
  /\ CASE p = Mouse -> Sends(Release(Out, b)) /\ UNCHANGED <<tracker, drag>>
       [] p # Mouse /\ Without(p) # <<>> -> UNCHANGED <<tracker, drag, sent>>
       [] p # Mouse /\ Without(p) = <<>> /\ inputMode = "pointer" ->
            IF drag = p THEN Drop(p) ELSE Tap(p)
       [] OTHER -> Sends(Release(Out, "left")) /\ UNCHANGED <<tracker, drag>>

HandleEnd(p, b) ==
  IF p \notin Mapped THEN UNCHANGED <<pointers, gesture, sent>>
  ELSE /\ pointers' = Without(p)
       /\ longPress' = IF longPress # Absent /\ longPress.id = p THEN Absent ELSE longPress
       /\ CASE scroll /\ Len(Without(p)) >= 2 ->
                 UNCHANGED <<scroll, twoTap, tracker, drag, sent>>
            [] scroll /\ Len(Without(p)) < 2 -> ScrollEnds(p, Without(p))
            [] OTHER -> LiftedAlone(p, b)

FingerUp(f) ==
  /\ f \in touching
  /\ touching' = touching \ {f}
  /\ IF paused THEN UNCHANGED <<pointers, gesture, sent>> ELSE HandleEnd(f, "left")
  /\ UNCHANGED <<paused, inputMode, buttons, at, queue, owed, careless>>

\* pointerup comes with the last button, and names that one only.
ButtonUp(b) ==
  /\ b \in buttons
  /\ buttons' = buttons \ {b}
  /\ IF paused \/ buttons # {b} THEN UNCHANGED <<pointers, gesture, sent>>
     ELSE HandleEnd(Mouse, b)
  /\ UNCHANGED <<paused, inputMode, touching, at, queue, owed, careless>>

-----------------------------------------------------------------------------
(* Timers, frames, the wheel, the host and the page *)

\* 600 ms: in pointer mode the finger grabs, in touch mode it right-clicks.
LongPressFires ==
  /\ longPress # Absent /\ longPress.armed
  /\ LET f == longPress.id IN
       /\ longPress' = [longPress EXCEPT !.armed = FALSE]
       /\ tracker' = IF tracker # Absent /\ tracker.id = f
                     THEN [tracker EXCEPT !.moved = TRUE] ELSE tracker
       /\ IF inputMode = "pointer"
          THEN /\ Sends(Press(MoveTo(Out, Target(f)), "left", Target(f)))
               /\ drag' = f
          ELSE /\ Sends(Click(Out, "right", at[f]))
               /\ UNCHANGED drag
  /\ UNCHANGED <<paused, inputMode, touching, buttons, pointers, at, twoTap, scroll,
                 queue, owed, careless>>

\* deltaY, as whole steps.
Scroll(k) ==
  /\ ~paused /\ k # 0
  /\ Wheel(k)
  /\ frame' = TRUE
  /\ UNCHANGED <<paused, inputMode, touching, buttons, pointers, at, gesture,
                 pendingMove, pendingRel, sent, careless>>

\* How many of the queued steps one frame sends, with their sign.
Least(a, b) == IF a < b THEN a ELSE b
InBurst == IF pendingWheel > 0 THEN Least(pendingWheel, Burst)
           ELSE -Least(-pendingWheel, Burst)

\* One absolute move, one relative one to wherever it leads, a burst of steps.
FlushInput ==
  /\ frame
  /\ LET moved == IF pendingMove = Absent THEN Out ELSE MoveTo(Out, pendingMove) IN
       IF pendingRel
       THEN \E s \in Spots :
              Sends([moved EXCEPT !.host.at = s, !.cursor = s, !.strayed = TRUE])
       ELSE Sends(moved)
  /\ pendingMove' = Absent /\ pendingRel' = FALSE
  /\ pendingWheel' = pendingWheel - InBurst
  /\ owed' = owed - InBurst
  /\ frame' = (pendingWheel # InBurst)
  /\ UNCHANGED <<paused, inputMode, touching, buttons, pointers, at, gesture, careless>>

\* Somebody at the host moves its mouse.  It echoes the position, unless we have
\* just moved it ourselves.
HostMoves(s) ==
  /\ host.at # s
  /\ host' = [host EXCEPT !.at = s]
  /\ strayed' = TRUE
  /\ cursor' \in {cursor, s}
  /\ UNCHANGED <<paused, inputMode, touching, buttons, pointers, at, gesture, queue,
                 lastSentMove, missed, owed, careless>>

SetMode(m) ==
  /\ inputMode # m
  /\ inputMode' = m
  /\ careless' = (careless \/ touching # {})
  /\ UNCHANGED <<paused, touching, buttons, pointers, at, gesture, queue, sent, owed>>

\* paused of the component: no handler is told of what it will miss.
PausePointers(v) ==
  /\ paused' = v
  /\ careless' = (careless \/ touching # {} \/ buttons # {})
  /\ UNCHANGED <<inputMode, touching, buttons, pointers, at, gesture, queue, sent, owed>>

PointerNext ==
  \/ \E f \in Fingers, s \in Spots : FingerDown(f, s)
  \/ \E b \in Buttons : ButtonDown(b) \/ ButtonUp(b)
  \/ \E p \in Pointers, s \in Spots, far \in BOOLEAN : Move(p, s, far)
  \/ \E f \in Fingers : FingerUp(f)
  \/ \E k \in -MaxWheel..MaxWheel : Scroll(k)
  \/ LongPressFires \/ FlushInput
  \/ \E s \in Spots : HostMoves(s)
  \/ \E m \in {"touch", "pointer"} : SetMode(m)
=============================================================================
