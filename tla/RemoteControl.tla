--------------------------- MODULE RemoteControl ---------------------------
(***************************************************************************)
(* The page that shows a remote-control session and redials it             *)
(* (frontend/src/pages/RemoteControlPage.tsx) with the hook that owns the  *)
(* session (lib/rustdesk/useRustdeskControl.ts), composed with the session *)
(* itself (RemoteSession).                                                 *)
(*                                                                         *)
(* React state is kept twice: "state" with every update queued so far,     *)
(* "shown" as of the last render.  Updates of one task, like the error and *)
(* the disconnected of a failing session, are rendered together (React 18, *)
(* createRoot), and a render is taken to run its effects with it.  A click *)
(* meets what is shown.  The address in the settings is well-formed, so    *)
(* that opening a socket does not throw.                                   *)
(***************************************************************************)
EXTENDS RemoteSession, Naturals

CONSTANTS
  MaxRetries,   \* automatic redials of a row of drops; 5 in the code
  RetryTimers,  \* bound: retries scheduled at one time
  Null

ASSUME MaxRetriesAssumption == MaxRetries \in Nat
ASSUME NullAssumption == Null \notin RetryTimers

VARIABLES
  state, shown,
  userDisconnect,   \* userDisconnectRef
  attempts,         \* reconnectAttemptsRef
  retries,          \* the retries scheduled and not cleared
  retryTimer,       \* reconnectTimerRef: the latest of them, or Null
  had2FA,           \* had2FARef
  autoCode,         \* pendingAutoCodeRef is set
  left,             \* the page is unmounted
  touched,          \* history: retries that a user action, or such a retry, came after
  denied            \* history: the latest session ended with an authentication error

pageVars == <<state, shown, userDisconnect, attempts, retries, retryTimer, had2FA, autoCode,
              left, touched, denied>>
vars == <<sessionVars, pageVars>>

refs == <<userDisconnect, attempts, retries, retryTimer, had2FA, autoCode>>

State ==
  [status : {"idle", "connecting", "connected", "disconnected", "error"},
   error : {"none", "authError", "error"},
   twoFactorPending : {"none", "required", "wrong"},
   approvalPending : BOOLEAN,
   dialogOpen : BOOLEAN,
   reconnect2FA : BOOLEAN,
   password : BOOLEAN]      \* one is typed, or filled in from the server

\* The part of the state that is the hook's.
HookState(s, status, error, twoFA, approval) ==
  [s EXCEPT !.status = status, !.error = error, !.twoFactorPending = twoFA,
            !.approvalPending = approval]

\* A saved password may have been filled in.
Init ==
  /\ SessionInit
  /\ \E password \in BOOLEAN :
       state = [status |-> "idle", error |-> "none", twoFactorPending |-> "none",
                approvalPending |-> FALSE, dialogOpen |-> TRUE, reconnect2FA |-> FALSE,
                password |-> password]
  /\ shown = state
  /\ userDisconnect = FALSE /\ attempts = 0
  /\ retries = {} /\ retryTimer = Null
  /\ had2FA = FALSE /\ autoCode = FALSE
  /\ left = FALSE /\ touched = {} /\ denied = FALSE

-----------------------------------------------------------------------------
(* The hook. *)

\* Fault: a code is still asked for after a drop.
HandledFault(s, event) ==
  CASE event = "connecting" -> HookState(s, "connecting", "none", s.twoFactorPending, FALSE)
    [] event = "connected" -> HookState(s, "connected", "none", "none", FALSE)
    [] event = "disconnected" ->
         HookState(s, "disconnected", "none", s.twoFactorPending, FALSE)
    [] event \in Failures -> HookState(s, "error", event, s.twoFactorPending, FALSE)
    [] event = "two-fa" ->
         [s EXCEPT !.twoFactorPending = IF @ = "none" THEN "required" ELSE "wrong",
                   !.approvalPending = FALSE]
    [] event = "approval-pending" -> [s EXCEPT !.approvalPending = TRUE]

\* The callback of a session, for one event.
Handled(s, event) ==
  CASE event = "connecting" -> HookState(s, "connecting", "none", s.twoFactorPending, FALSE)
    [] event \in {"connected", "disconnected"} -> HookState(s, event, "none", "none", FALSE)
    [] event \in Failures -> HookState(s, "error", event, "none", FALSE)
    [] event = "two-fa" ->
         [s EXCEPT !.twoFactorPending = IF @ = "none" THEN "required" ELSE "wrong",
                   !.approvalPending = FALSE]
    [] event = "approval-pending" -> [s EXCEPT !.approvalPending = TRUE]

\* All events of a step, which are two at most.
HandledAll(s, events) ==
  CASE Len(events) = 0 -> s
    [] Len(events) = 1 -> Handled(s, events[1])
    [] OTHER -> Handled(Handled(s, events[1]), events[2])

\* What the step of the session made of the state.
Hear(s) == HandledAll(s, emitted')

Denies == "authError" \in {emitted'[i] : i \in DOMAIN emitted'}

\* The hook's connect(): what it stops and sets, the new session sets again.
HookConnect(s) ==
  /\ Connect
  /\ state' = IF left THEN state
                ELSE Hear(HookState(s, "connecting", "none", "none", FALSE))
  /\ denied' = FALSE

\* The hook's disconnect().
HookDisconnect(s) ==
  /\ IF closed THEN UNCHANGED sessionVars ELSE Disconnect
  /\ state' = HookState(s, "idle", "none", "none", FALSE)
  /\ denied' = FALSE

-----------------------------------------------------------------------------
(* The page. *)

\* doConnect: the password dialog is closed.
DoConnect(s) == HookConnect([s EXCEPT !.dialogOpen = FALSE])

\* A retry is due.  Nothing looks at what has happened since it was scheduled.
Retry(t) ==
  /\ t \in retries
  /\ retries' = retries \ {t}
  /\ touched' = (IF t \in touched THEN retries ELSE touched) \ {t}
  /\ attempts' = attempts + 1
  /\ IF attempts < MaxRetries THEN DoConnect(state) ELSE UNCHANGED <<sessionVars, state, denied>>
  /\ UNCHANGED <<shown, userDisconnect, retryTimer, had2FA, autoCode, left>>

\* scheduleReconnect.  The timer it overwrites stays scheduled.
ScheduleReconnect ==
  IF attempts >= MaxRetries
    THEN /\ state' = [state EXCEPT !.dialogOpen = TRUE]
         /\ UNCHANGED <<retries, retryTimer>>
    ELSE \E t \in RetryTimers \ retries :
           /\ retries' = retries \cup {t}
           /\ retryTimer' = t
           /\ UNCHANGED state

ClearRetryTimer == retries' = retries \ {retryTimer} /\ retryTimer' = Null

Challenged == state.twoFactorPending \notin {"none", shown.twoFactorPending}

\* The effects on twoFactorPending: a code that waits for the challenge is sent.
AnswerChallenge ==
  /\ had2FA' = (had2FA \/ Challenged)
  /\ IF Challenged /\ autoCode /\ awaiting2FA
       THEN Submit2FACode ELSE UNCHANGED sessionVars

\* The effect on status, with what the effects before it have set.
OnError ==
  /\ ClearRetryTimer
  /\ attempts' = 0
  /\ autoCode' = FALSE
  /\ state' = [state EXCEPT !.dialogOpen = TRUE, !.reconnect2FA = FALSE]

\* Fault: a session that passed a second factor is redialled like any other.
OnDropFault ==
  /\ IF userDisconnect \/ state.dialogOpen \/ state.twoFactorPending # "none"
          \/ state.reconnect2FA
       THEN UNCHANGED <<state, retries, retryTimer>>
       ELSE ScheduleReconnect
  /\ autoCode' = (autoCode /\ ~Challenged)
  /\ UNCHANGED attempts

OnDrop ==
  /\ CASE userDisconnect \/ state.dialogOpen \/ state.twoFactorPending # "none"
            \/ state.reconnect2FA ->
            UNCHANGED <<state, retries, retryTimer>>
       [] OTHER ->
            IF had2FA'
              THEN /\ state' = IF state.password THEN [state EXCEPT !.reconnect2FA = TRUE]
                                                 ELSE [state EXCEPT !.dialogOpen = TRUE]
                   /\ UNCHANGED <<retries, retryTimer>>
              ELSE ScheduleReconnect
  /\ autoCode' = (autoCode /\ ~Challenged)
  /\ UNCHANGED attempts

Becomes(status) == state.status = status /\ shown.status # status

\* What the effects on status make of the status that is rendered now.
StatusEffect ==
  CASE Becomes("error") /\ state.error = "authError" -> OnError
    [] Becomes("disconnected") -> OnDrop
    [] OTHER ->
         /\ attempts' = IF Becomes("connected") THEN 0 ELSE attempts
         /\ autoCode' = (autoCode /\ ~Challenged)
         /\ UNCHANGED <<state, retries, retryTimer>>

Render ==
  /\ ~left
  /\ shown # state
  /\ shown' = state
  /\ AnswerChallenge
  /\ StatusEffect
  /\ touched' = touched \cap retries'
  /\ UNCHANGED <<userDisconnect, left, denied>>

\* The session goes on by itself, or is gone on with after the page has.
SessionStep ==
  /\ Happens
  /\ state' = IF left THEN state ELSE Hear(state)
  /\ denied' = (denied \/ Denies)
  /\ UNCHANGED <<shown, refs, left, touched>>

-----------------------------------------------------------------------------
(* The user. *)

Settled == ~left /\ shown = state
Modal == shown.dialogOpen \/ shown.twoFactorPending # "none" \/ shown.reconnect2FA

\* openConnectDialog; the saved password is not filled in a second time.
OpenConnectDialog ==
  /\ ~Modal /\ shown.status # "connected"
  /\ state' = [state EXCEPT !.dialogOpen = TRUE, !.password = FALSE]
  /\ UNCHANGED <<sessionVars, shown, refs, left, denied>>

TypePassword ==
  /\ shown.dialogOpen
  /\ state' = [state EXCEPT !.password = TRUE]
  /\ UNCHANGED <<sessionVars, shown, refs, left, denied>>

CancelDialog ==
  /\ shown.dialogOpen
  /\ state' = [state EXCEPT !.dialogOpen = FALSE]
  /\ UNCHANGED <<sessionVars, shown, refs, left, denied>>

\* startConnection and requestAccess, from the dialog or the Reconnect button.
StartConnection ==
  /\ shown.dialogOpen \/ (shown.status = "disconnected" /\ ~Modal)
  /\ userDisconnect' = FALSE /\ attempts' = 0
  /\ DoConnect(state)
  /\ UNCHANGED <<shown, retries, retryTimer, had2FA, autoCode, left>>

\* handleDisconnect, from the Disconnect and Cancel buttons.
HandleDisconnect ==
  /\ ~Modal
  /\ shown.status = "connected" \/ (shown.status = "connecting" /\ shown.approvalPending)
  /\ userDisconnect' = TRUE
  /\ HookDisconnect(state)
  /\ UNCHANGED <<shown, attempts, retries, retryTimer, had2FA, autoCode, left>>

\* submit2FA: the code goes to the host that waits for it, or waits for the
\* challenge of a new session.
Submit2FA ==
  /\ IF shown.reconnect2FA
       THEN /\ autoCode' = TRUE /\ attempts' = 0 /\ userDisconnect' = FALSE
            /\ DoConnect([state EXCEPT !.reconnect2FA = FALSE])
       ELSE /\ shown.twoFactorPending # "none" /\ Submit2FACode
            /\ UNCHANGED <<autoCode, attempts, userDisconnect, state, denied>>
  /\ UNCHANGED <<shown, retries, retryTimer, had2FA, left>>

Cancel2FA ==
  /\ IF shown.reconnect2FA
       THEN /\ state' = [state EXCEPT !.reconnect2FA = FALSE]
            /\ autoCode' = FALSE /\ userDisconnect' = TRUE
            /\ UNCHANGED <<sessionVars, denied>>
       ELSE /\ shown.twoFactorPending # "none" /\ HookDisconnect(state)
            /\ UNCHANGED <<autoCode, userDisconnect>>
  /\ UNCHANGED <<shown, attempts, retries, retryTimer, had2FA, left>>

\* The page is shown for another host, with the effect that drops this one's.
ChangePeer ==
  /\ ClearRetryTimer
  /\ HookDisconnect([state EXCEPT !.reconnect2FA = FALSE, !.password = FALSE,
                                  !.dialogOpen = TRUE])
  /\ userDisconnect' = TRUE /\ attempts' = 0
  /\ had2FA' = FALSE /\ autoCode' = FALSE
  /\ UNCHANGED <<shown, left>>

\* The page is unmounted: its session is closed, and its latest timer cleared.
Leave ==
  /\ left' = TRUE
  /\ ClearRetryTimer
  /\ HookDisconnect(state)
  /\ UNCHANGED <<shown, userDisconnect, attempts, had2FA, autoCode>>

User ==
  /\ Settled
  /\ \/ OpenConnectDialog \/ TypePassword \/ CancelDialog \/ StartConnection
     \/ HandleDisconnect \/ Submit2FA \/ Cancel2FA \/ ChangePeer \/ Leave
  /\ touched' = retries'

Next == SessionStep \/ Render \/ (\E t \in RetryTimers : Retry(t)) \/ User

Spec == Init /\ [][Next]_vars

-----------------------------------------------------------------------------
TypeOK ==
  /\ SessionTypeOK
  /\ state \in State /\ shown \in State
  /\ userDisconnect \in BOOLEAN /\ attempts \in Nat
  /\ retries \subseteq RetryTimers /\ retryTimer \in RetryTimers \cup {Null}
  /\ had2FA \in BOOLEAN /\ autoCode \in BOOLEAN
  /\ left \in BOOLEAN /\ touched \subseteq retries /\ denied \in BOOLEAN

\* What the page says of the session is so, however sockets, timers, clicks and
\* redials interleave: it is "connected" as long as the host has accepted and the
\* relay is there, and "connecting" as long as that may still come about.
StatusHonest ==
  ~left =>
    /\ state.status = "connected" <=> connected /\ relayWs = "open"
    /\ state.status = "connecting" <=> ~closed /\ ~connected /\ relayWs # "dropped"
    /\ state.status = "idle" => closed

\* The prompt for a code is there only while there is a host to take the code.
PromptAnswerable ==
  ~left /\ state.twoFactorPending # "none" => awaiting2FA /\ relayWs = "open"

\* The user is never left with a prompt that leads nowhere, nor with a dial that
\* nothing watches.
NeverStranded == PromptAnswerable /\ HandshakeWatched

\* The comments on scheduleReconnect and the effect around it, for whom leaves the
\* page alone meanwhile: what is redialled is a session that dropped, that did not
\* need a second factor, that nobody ended, and behind no dialog.
RetriesOnlyDrops ==
  [][\A t \in retries \ touched : Retry(t) =>
       /\ state.status = "disconnected"
       /\ ~had2FA /\ ~userDisconnect /\ ~left
       /\ ~state.dialogOpen /\ ~state.reconnect2FA]_vars

-----------------------------------------------------------------------------
(***************************************************************************)
(* What comments of the page and the session say, and the code does not    *)
(* do.  NeverRetriesDenied is the property of the run control_denied;      *)
(* naming one of the others in its configuration shows TLC's               *)
(* counterexample to it.                                                   *)
(***************************************************************************)

\* RemoteControlPage.tsx: auth-class errors (wrong password and friends) never
\* auto-retry.
NeverRetriesDenied == [][denied => \A t \in RetryTimers : ~Retry(t)]_vars

\* RemoteControlPage.tsx: auto-reconnect never after a deliberate disconnect.
NeverAfterDeliberate == [][userDisconnect => \A t \in RetryTimers : ~Retry(t)]_vars

\* RemoteControlPage.tsx: the session is killed whenever the page is left.
DiesWithPage == left => closed

\* session.ts on awaiting2FA: while the host waits for a code, the session must
\* stay alive.
AliveFor2FA == [][awaiting2FA => ~ConnectTimeout]_vars
=============================================================================
