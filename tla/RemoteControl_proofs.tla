------------------------ MODULE RemoteControl_proofs ------------------------
(***************************************************************************)
(* What holds of RemoteControl for any number of redials and of retries    *)
(* that are pending at one time.  The page does to its session only what a *)
(* session allows (Implements), so that what holds of a session holds of   *)
(* the one on the page.  And what holds of its RemoteScreen, for any       *)
(* number of fingers, keys and cursors.                                    *)
(***************************************************************************)
EXTENDS RemoteControl, RemoteScreen, TLAPS

-----------------------------------------------------------------------------
(* The session. *)

LEMMA EventSequences ==
  /\ <<>> \in Seq(Events)
  /\ \A e \in Events : <<e>> \in Seq(Events)
  /\ \A e, f \in Events : <<e, f>> \in Seq(Events)
OBVIOUS

LEMMA ShutDownType == SessionTypeOK /\ ShutDown /\ emitted' \in Seq(Events) => SessionTypeOK'
BY DEF SessionTypeOK, ShutDown, Timers

LEMMA FailType == \A f \in Failures : SessionTypeOK /\ Fail(f) => SessionTypeOK'
<1> SUFFICES ASSUME NEW f \in Failures, SessionTypeOK, Fail(f) PROVE SessionTypeOK'
    OBVIOUS
<1>1. emitted' \in Seq(Events)
  BY EventSequences DEF Fail, Emit, Events
<1> QED
  BY <1>1, ShutDownType DEF Fail

\* One socket at a time, and none of them and hardly a timer once it is closed.
SessInv ==
  /\ idWs # "none" => relayWs = "none"
  /\ connected => relayWs \in {"open", "dropped"}
  /\ closed => idWs = "none" /\ relayWs = "none" /\ timers \subseteq {"approval"}

\* Every way a session goes on by itself, by what it tells the hook.
Silent ==
  /\ emitted' = <<>>
  /\ closed' = closed /\ connected' = connected /\ awaiting2FA' = awaiting2FA
  /\ \/ relayWs' = relayWs
     \/ idWs = "open" /\ relayWs' = "connecting"
     \/ relayWs = "connecting" /\ relayWs' = "open"

Waits ==
  /\ emitted' = <<"approval-pending">>
  /\ ~closed /\ ~closed' /\ ~connected /\ connected' = connected
  /\ awaiting2FA' = awaiting2FA /\ relayWs' = relayWs

Drops ==
  /\ emitted' = <<"disconnected">>
  /\ relayWs = "open" /\ relayWs' = "dropped"
  /\ closed' = closed /\ connected' = connected

Asks ==
  /\ emitted' = <<"two-fa">>
  /\ relayWs = "open" /\ relayWs' = "open" /\ awaiting2FA'
  /\ closed' = closed /\ ~connected /\ connected' = connected

Accepts ==
  /\ emitted' = <<"connected">>
  /\ relayWs = "open" /\ relayWs' = "open" /\ ~connected /\ connected'
  /\ closed' = closed

Ends == \E f \in Failures : Fail(f)

LEMMA HappensCases ==
  SessionTypeOK /\ SessInv /\ Happens => Silent \/ Waits \/ Drops \/ Asks \/ Accepts \/ Ends
<1> SUFFICES ASSUME SessionTypeOK, SessInv, Happens
             PROVE Silent \/ Waits \/ Drops \/ Asks \/ Accepts \/ Ends
    OBVIOUS
<1> USE DEF sockets, login, Emit, Ends, Failures
<1>1. CASE IdOpen \/ PunchHoleResponse \/ RelayResponse \/ IdLost \/ RelayWaitTimeout
  BY <1>1 DEF IdOpen, PunchHoleResponse, RelayResponse, IdLost, RelayWaitTimeout, Silent
<1>2. CASE RelayOpen \/ RelayLost
  BY <1>2 DEF RelayOpen, RelayLost, Silent, Drops
<1>3. CASE FirstPart \/ FirstFrameTimeout \/ FirstMessage
  BY <1>3 DEF FirstPart, FirstFrameTimeout, FirstMessage, Silent
<1>4. CASE Hash \/ HashDone
  BY <1>4 DEF Hash, HashDone, Silent
<1>5. CASE ApprovalTimeout
  BY <1>5 DEF ApprovalTimeout, Silent, Waits, SessionTypeOK
<1>6. CASE TwoFARequired
  BY <1>6 DEF TwoFARequired, Answers, Hears, Asks
<1>7. CASE LoginAccepted
  BY <1>7 DEF LoginAccepted, Answers, Hears, Accepts
<1>8. CASE LoginRefused \/ HostCloses \/ ConnectTimeout
  BY <1>8 DEF LoginRefused, HostCloses, ConnectTimeout
<1>9. CASE WaitForApproval
  BY <1>9 DEF WaitForApproval, Answers, Hears, Waits, SessInv
<1> QED
  BY <1>1, <1>2, <1>3, <1>4, <1>5, <1>6, <1>7, <1>8, <1>9 DEF Happens

LEMMA SessionTypeNext == SessionTypeOK /\ [SessionNext]_sessionVars => SessionTypeOK'
<1> SUFFICES ASSUME SessionTypeOK, [SessionNext]_sessionVars PROVE SessionTypeOK'
    OBVIOUS
<1> DEFINE NoEvent == emitted' = <<>>
           OneEvent == \E e \in Events : emitted' = <<e>>
<1>1. NoEvent \/ OneEvent => emitted' \in Seq(Events)
  BY EventSequences
<1> HIDE DEF NoEvent, OneEvent
<1> USE DEF sockets, login, Emit
<1>2. CASE Connect
  <2>1. OneEvent
    BY <1>2 DEF Connect, ConnectAs, OneEvent, Events
  <2> QED
    BY <1>1, <1>2, <2>1 DEF Connect, ConnectAs, SessionTypeOK, Timers
<1>3. CASE Disconnect
  <2>1. OneEvent
    BY <1>3 DEF Disconnect, OneEvent, Events
  <2> QED
    BY <1>1, <1>3, <2>1, ShutDownType DEF Disconnect
<1>4. ASSUME NEW f \in Failures, Fail(f) PROVE SessionTypeOK'
  BY <1>4, FailType
<1>5. CASE IdOpen \/ PunchHoleResponse \/ RelayResponse \/ IdLost \/ RelayWaitTimeout
  <2>1. NoEvent \/ \E f \in Failures : Fail(f)
    BY <1>5 DEF IdOpen, PunchHoleResponse, RelayResponse, IdLost, RelayWaitTimeout, NoEvent, Failures
  <2>2. CASE NoEvent
    <3>1. emitted' \in Seq(Events)
      BY <1>1, <2>2
    <3>2. CASE IdOpen
      BY <3>1, <3>2 DEF IdOpen, SessionTypeOK
    <3>3. CASE PunchHoleResponse
      BY <1>4, <3>1, <3>3 DEF PunchHoleResponse, Failures, SessionTypeOK, Timers
    <3>4. CASE RelayResponse
      BY <1>4, <3>1, <3>4 DEF RelayResponse, Failures, SessionTypeOK
    <3>5. CASE IdLost \/ RelayWaitTimeout
      BY <1>4, <3>5 DEF IdLost, RelayWaitTimeout, Failures
    <3> QED
      BY <1>5, <3>2, <3>3, <3>4, <3>5
  <2> QED
    BY <1>4, <2>1, <2>2
<1>6. CASE RelayOpen \/ RelayLost \/ FirstPart \/ FirstFrameTimeout \/ FirstMessage
  <2>1. NoEvent \/ OneEvent \/ \E f \in Failures : Fail(f)
    BY <1>6 DEF RelayOpen, RelayLost, FirstPart, FirstFrameTimeout, FirstMessage, NoEvent, OneEvent,
                Failures, Events
  <2>2. CASE NoEvent \/ OneEvent
    <3>1. emitted' \in Seq(Events)
      BY <1>1, <2>2
    <3>2. CASE RelayOpen
      BY <3>1, <3>2 DEF RelayOpen, SessionTypeOK, Timers
    <3>3. CASE RelayLost
      BY <1>4, <3>1, <3>3 DEF RelayLost, Failures, SessionTypeOK, Timers
    <3>4. CASE FirstPart
      BY <1>4, <3>1, <3>4 DEF FirstPart, Failures, SessionTypeOK, Timers
    <3>5. CASE FirstFrameTimeout
      BY <1>4, <3>5 DEF FirstFrameTimeout, Failures
    <3>6. CASE FirstMessage
      BY <1>4, <3>1, <3>6 DEF FirstMessage, Failures, SessionTypeOK, Timers
    <3> QED
      BY <1>6, <3>2, <3>3, <3>4, <3>5, <3>6
  <2> QED
    BY <1>4, <2>1, <2>2
<1>7. CASE LoginRefused \/ HostCloses \/ ConnectTimeout
  BY <1>4, <1>7 DEF LoginRefused, HostCloses, ConnectTimeout, Failures
<1>8. CASE Hash \/ HashDone \/ ApprovalTimeout \/ Submit2FACode
  <2>1. NoEvent \/ OneEvent
    BY <1>8 DEF Hash, HashDone, ApprovalTimeout, Submit2FACode, NoEvent, OneEvent, Events
  <2>2. emitted' \in Seq(Events)
    BY <1>1, <2>1
  <2>3. CASE Hash
    BY <2>2, <2>3 DEF Hash, SessionTypeOK
  <2>4. CASE HashDone
    BY <2>2, <2>4 DEF HashDone, SessionTypeOK, Timers
  <2>5. CASE ApprovalTimeout
    BY <2>2, <2>5 DEF ApprovalTimeout, SessionTypeOK
  <2>6. CASE Submit2FACode
    BY <2>2, <2>6 DEF Submit2FACode, SessionTypeOK
  <2> QED
    BY <1>8, <2>3, <2>4, <2>5, <2>6
<1>9. CASE TwoFARequired \/ WaitForApproval \/ LoginAccepted
  <2>1. OneEvent
    BY <1>9 DEF TwoFARequired, WaitForApproval, LoginAccepted, OneEvent, Events
  <2>2. emitted' \in Seq(Events)
    BY <1>1, <2>1
  <2>3. CASE TwoFARequired
    BY <2>2, <2>3 DEF TwoFARequired, SessionTypeOK
  <2>4. CASE WaitForApproval
    BY <2>2, <2>4 DEF WaitForApproval, SessionTypeOK
  <2>5. CASE LoginAccepted
    BY <2>2, <2>5 DEF LoginAccepted, SessionTypeOK
  <2> QED
    BY <1>9, <2>3, <2>4, <2>5
<1>10. CASE UNCHANGED sessionVars
  BY <1>10 DEF sessionVars, SessionTypeOK
<1> QED
  BY <1>2, <1>3, <1>5, <1>6, <1>7, <1>8, <1>9, <1>10 DEF SessionNext, Happens

LEMMA SessInvNext ==
  SessionTypeOK /\ SessInv /\ HandshakeWatched /\ [SessionNext]_sessionVars
    => SessInv' /\ HandshakeWatched'
<1> SUFFICES ASSUME SessionTypeOK, SessInv, HandshakeWatched, [SessionNext]_sessionVars
             PROVE SessInv' /\ HandshakeWatched'
    OBVIOUS
<1> USE DEF SessInv, HandshakeWatched, sockets, login
<1>1. ASSUME ShutDown PROVE SessInv' /\ HandshakeWatched'
  BY <1>1 DEF ShutDown
<1>2. CASE Connect
  BY <1>2 DEF Connect, ConnectAs
<1>3. CASE Disconnect
  BY <1>1, <1>3 DEF Disconnect
<1>4. CASE IdOpen \/ PunchHoleResponse \/ RelayResponse \/ IdLost \/ RelayWaitTimeout
  BY <1>1, <1>4 DEF IdOpen, PunchHoleResponse, RelayResponse, IdLost, RelayWaitTimeout, Fail
<1>5. CASE RelayOpen \/ RelayLost \/ FirstPart \/ FirstFrameTimeout \/ FirstMessage
  BY <1>1, <1>5 DEF RelayOpen, RelayLost, FirstPart, FirstFrameTimeout, FirstMessage, Fail
<1>6. CASE LoginRefused \/ HostCloses \/ ConnectTimeout
  BY <1>1, <1>6 DEF LoginRefused, HostCloses, ConnectTimeout, Fail
<1>7. CASE Hash \/ HashDone \/ ApprovalTimeout \/ Submit2FACode
  BY <1>7 DEF Hash, HashDone, ApprovalTimeout, Submit2FACode, Hears
<1>8. CASE TwoFARequired \/ WaitForApproval \/ LoginAccepted
  BY <1>8 DEF TwoFARequired, WaitForApproval, LoginAccepted, Answers, Hears
<1>9. CASE UNCHANGED sessionVars
  BY <1>9 DEF sessionVars
<1> QED
  BY <1>2, <1>3, <1>4, <1>5, <1>6, <1>7, <1>8, <1>9 DEF SessionNext, Happens

LEMMA QuietStep ==
  SessionTypeOK /\ SessInv /\ [SessionNext]_sessionVars
    => [closed /\ closed' => emitted' = <<>>]_sessionVars
<1> SUFFICES ASSUME SessionTypeOK, SessInv, SessionNext, closed, closed' PROVE emitted' = <<>>
    BY DEF sessionVars
<1>1. CASE Happens
  <2>1. HashDone \/ ApprovalTimeout
    <3>1. idWs = "none" /\ relayWs = "none" /\ timers \subseteq {"approval"}
      BY DEF SessInv
    <3> QED
      BY <1>1, <3>1
         DEF Happens, IdOpen, PunchHoleResponse, RelayResponse, IdLost, RelayWaitTimeout, RelayOpen,
             RelayLost, FirstPart, FirstFrameTimeout, FirstMessage, Hash, TwoFARequired,
             WaitForApproval, LoginRefused, LoginAccepted, HostCloses, ConnectTimeout, Answers, Hears
  <2> QED
    BY <2>1 DEF HashDone, ApprovalTimeout, Emit
<1>2. CASE Connect
  BY <1>2 DEF Connect, ConnectAs
<1>3. CASE Disconnect
  BY <1>3 DEF Disconnect
<1>4. CASE Submit2FACode
  BY <1>4 DEF Submit2FACode, Emit
<1> QED
  BY <1>1, <1>2, <1>3, <1>4 DEF SessionNext

-----------------------------------------------------------------------------
(* The page, as far as its session sees it. *)

LEMMA StepOfSession == Next => [SessionNext]_sessionVars
<1> SUFFICES ASSUME Next PROVE SessionNext \/ UNCHANGED sessionVars
    OBVIOUS
<1> USE DEF SessionNext, HookConnect, HookDisconnect, DoConnect
<1>1. CASE SessionStep
  BY <1>1 DEF SessionStep
<1>2. CASE Render
  BY <1>2 DEF Render, AnswerChallenge
<1>3. ASSUME NEW t \in RetryTimers, Retry(t) PROVE SessionNext \/ UNCHANGED sessionVars
  BY <1>3 DEF Retry
<1>4. CASE User
  BY <1>4 DEF User, OpenConnectDialog, TypePassword, CancelDialog, StartConnection,
              HandleDisconnect, Submit2FA, Cancel2FA, ChangePeer, Leave
<1> QED
  BY <1>1, <1>2, <1>3, <1>4 DEF Next

\* The session on the page is a session: page and hook do nothing to it that the
\* class does not provide for, whatever is clicked and however timers fire.
THEOREM Implements == Spec => SessionSpec
<1>1. UNCHANGED vars => UNCHANGED sessionVars
  BY DEF vars
<1>3. Init => SessionInit
  BY DEF Init
<1>2. [Next]_vars => [SessionNext]_sessionVars
  BY <1>1, StepOfSession
<1> QED
  BY <1>2, <1>3, PTL DEF Spec, SessionSpec

LEMMA SessionInitOK == SessionInit => SessionTypeOK /\ SessInv /\ HandshakeWatched
BY EventSequences DEF SessionInit, SessionTypeOK, SessInv, HandshakeWatched, Timers

LEMMA SessionInvariant == Spec => [](SessionTypeOK /\ SessInv /\ HandshakeWatched)
<1>1. SessionSpec => [](SessionTypeOK /\ SessInv /\ HandshakeWatched)
  BY SessionInitOK, SessionTypeNext, SessInvNext, PTL DEF SessionSpec
<1> QED
  BY <1>1, Implements, PTL

\* Whatever hbbs, hbbr and the host do or leave undone, a session that is neither
\* connected nor closed is watched by the timer of connect().
THEOREM Watched == Spec => []HandshakeWatched
BY SessionInvariant, PTL

\* A closed session tells the page nothing more: disconnect() clears the timers
\* and handlers, and what a pending digest still arms asks whether it is closed.
THEOREM Quiet == Spec => QuietOnceClosed
<1>1. SessionTypeOK /\ SessInv /\ [SessionNext]_sessionVars
        => [closed /\ closed' => emitted' = <<>>]_sessionVars
  BY QuietStep
<1> QED
  BY <1>1, SessionInvariant, Implements, PTL DEF SessionSpec, QuietOnceClosed

-----------------------------------------------------------------------------
(* What a session promises (SessionLifecycle). *)

LEMMA LifecycleHappens ==
  SessionTypeOK /\ SessInv /\ Happens => Lifecycle!LifeNext
<1> SUFFICES ASSUME SessionTypeOK, SessInv, Happens PROVE Lifecycle!LifeNext
    OBVIOUS
<1>1. Silent \/ Waits \/ Drops \/ Asks \/ Accepts \/ Ends
  BY HappensCases
<1> USE DEF Lifecycle!LifeNext, Phase
<1>2. CASE Silent
  BY <1>2 DEF Silent, SessInv, Lifecycle!Silent
<1>3. CASE Waits
  BY <1>3 DEF Waits, SessionTypeOK, Lifecycle!Wait
<1>4. CASE Drops
  BY <1>4 DEF Drops, SessInv, Lifecycle!Drop
<1>5. CASE Asks
  BY <1>5 DEF Asks, SessInv, Lifecycle!Ask
<1>6. CASE Accepts
  BY <1>6 DEF Accepts, SessInv, Lifecycle!Accept
<1>7. CASE Ends
  <2>1. ASSUME closed PROVE HashDone \/ ApprovalTimeout
    <3>1. idWs = "none" /\ relayWs = "none" /\ timers \subseteq {"approval"}
      BY <2>1 DEF SessInv
    <3> QED
      BY <3>1, Happens
         DEF Happens, IdOpen, PunchHoleResponse, RelayResponse, IdLost, RelayWaitTimeout, RelayOpen,
             RelayLost, FirstPart, FirstFrameTimeout, FirstMessage, Hash, TwoFARequired,
             WaitForApproval, LoginRefused, LoginAccepted, HostCloses, ConnectTimeout, Answers, Hears
  <2>2. ~closed
    BY <1>7, <2>1 DEF HashDone, ApprovalTimeout, Ends, Fail, Emit
  <2> QED
    BY <1>7, <2>2 DEF Ends, Failures, Fail, ShutDown, Emit, Lifecycle!End
<1> QED
  BY <1>1, <1>2, <1>3, <1>4, <1>5, <1>6, <1>7

LEMMA LifecycleStep ==
  SessionTypeOK /\ SessInv /\ [SessionNext]_sessionVars
    => [Lifecycle!LifeNext]_(Lifecycle!lifeVars)
<1> SUFFICES ASSUME SessionTypeOK, SessInv, [SessionNext]_sessionVars
             PROVE Lifecycle!LifeNext \/ UNCHANGED Lifecycle!lifeVars
    OBVIOUS
<1>1. CASE Happens
  BY <1>1, LifecycleHappens
<1>2. CASE Connect
  BY <1>2 DEF Connect, ConnectAs, Emit, Phase, Lifecycle!LifeNext, Lifecycle!Dial
<1>3. CASE Disconnect
  BY <1>3 DEF Disconnect, ShutDown, Emit, Phase, Lifecycle!LifeNext, Lifecycle!End
<1>4. CASE Submit2FACode
  BY <1>4 DEF Submit2FACode, sockets, Emit, Phase, Lifecycle!LifeNext, Lifecycle!Silent
<1>5. CASE UNCHANGED sessionVars
  BY <1>5 DEF sessionVars, Phase, Lifecycle!lifeVars
<1> QED
  BY <1>1, <1>2, <1>3, <1>4, <1>5 DEF SessionNext

\* The session on the page keeps the promise of SessionLifecycle: its initial
\* state is one of those, and every step, mapped by Phase, one of those or none.
THEOREM PromiseKept == Spec => KeepsToLifecycle
<1>1. SessionInit => Lifecycle!LifeInit
  BY DEF SessionInit, Phase, Lifecycle!LifeInit
<1>2. SessionTypeOK /\ SessInv /\ [SessionNext]_sessionVars
        => [Lifecycle!LifeNext]_(Lifecycle!lifeVars)
  BY LifecycleStep
<1> QED
  BY <1>1, <1>2, SessionInvariant, Implements, PTL
     DEF SessionSpec, KeepsToLifecycle, Lifecycle!LifeSpec

-----------------------------------------------------------------------------
(* The hook: what an event makes of the state. *)

Statuses == {"idle", "connecting", "connected", "disconnected", "error"}
Errors == {"none", "authError", "error"}
Prompts == {"none", "required", "wrong"}

\* What s keeps of the page's part when the hook changes its own.
SamePage(h, s) ==
  h.dialogOpen = s.dialogOpen /\ h.reconnect2FA = s.reconnect2FA /\ h.password = s.password

LEMMA StateFields ==
  ASSUME NEW s \in State
  PROVE  /\ s.status \in Statuses /\ s.error \in Errors /\ s.twoFactorPending \in Prompts
         /\ s.approvalPending \in BOOLEAN /\ s.dialogOpen \in BOOLEAN
         /\ s.reconnect2FA \in BOOLEAN /\ s.password \in BOOLEAN
BY DEF State, Statuses, Errors, Prompts

\* The state h after event e in state s, without the texts of errors and prompts.
After(h, s, e) ==
  /\ h \in State /\ SamePage(h, s)
  /\ e \in {"connecting", "connected", "disconnected"} => h.status = e
  /\ e \in Failures => h.status = "error"
  /\ e \in {"two-fa", "approval-pending"} => h.status = s.status
  /\ e \in {"connected", "disconnected"} \cup Failures => h.twoFactorPending = "none"
  /\ e \in {"connecting", "approval-pending"} => h.twoFactorPending = s.twoFactorPending

LEMMA HandledFields ==
  ASSUME NEW s \in State, NEW e \in Events, NEW h, h = Handled(s, e)
  PROVE  After(h, s, e)
<1> USE DEF Failures
<1>1. CASE e = "connecting"
  <2>1. h = HookState(s, "connecting", "none", s.twoFactorPending, FALSE)
    BY <1>1 DEF Handled
  <2>2. /\ "connecting" \in Statuses /\ "none" \in Errors /\ FALSE \in BOOLEAN
        /\ s.twoFactorPending \in Prompts
    BY StateFields DEF Statuses, Errors
  <2>3. /\ h \in State /\ SamePage(h, s)
        /\ h.status = "connecting" /\ h.twoFactorPending = s.twoFactorPending
    BY <2>1, <2>2 DEF HookState, State, SamePage, Statuses, Errors, Prompts
  <2> QED
    BY <1>1, <2>3 DEF After
<1>2. CASE e \in {"connected", "disconnected"}
  <2>1. h = HookState(s, e, "none", "none", FALSE)
    BY <1>2 DEF Handled
  <2>2. e \in Statuses /\ "none" \in Errors /\ "none" \in Prompts /\ FALSE \in BOOLEAN
    BY <1>2 DEF Statuses, Errors, Prompts
  <2>3. h \in State /\ SamePage(h, s) /\ h.status = e /\ h.twoFactorPending = "none"
    BY <2>1, <2>2 DEF HookState, State, SamePage, Statuses, Errors, Prompts
  <2> QED
    BY <1>2, <2>3 DEF After
<1>3. CASE e \in Failures
  <2>1. h = HookState(s, "error", e, "none", FALSE)
    BY <1>3 DEF Handled
  <2>2. "error" \in Statuses /\ e \in Errors /\ "none" \in Prompts /\ FALSE \in BOOLEAN
    BY <1>3 DEF Statuses, Errors, Prompts
  <2>3. h \in State /\ SamePage(h, s) /\ h.status = "error" /\ h.twoFactorPending = "none"
    BY <2>1, <2>2 DEF HookState, State, SamePage, Statuses, Errors, Prompts
  <2> QED
    BY <1>3, <2>3 DEF After
<1>4. CASE e = "two-fa"
  <2> DEFINE prompt == IF s.twoFactorPending = "none" THEN "required" ELSE "wrong"
  <2>1. h = [s EXCEPT !.twoFactorPending = prompt, !.approvalPending = FALSE]
    BY <1>4 DEF Handled
  <2>2. h \in State /\ SamePage(h, s) /\ h.status = s.status
    BY <2>1 DEF State, SamePage
  <2> QED
    BY <1>4, <2>2 DEF After
<1>5. CASE e = "approval-pending"
  <2>1. h = [s EXCEPT !.approvalPending = TRUE]
    BY <1>5 DEF Handled
  <2>2. /\ h \in State /\ SamePage(h, s)
        /\ h.status = s.status /\ h.twoFactorPending = s.twoFactorPending
    BY <2>1 DEF State, SamePage
  <2> QED
    BY <1>5, <2>2 DEF After
<1> QED
  BY <1>1, <1>2, <1>3, <1>4, <1>5 DEF Events

LEMMA HearFields ==
  ASSUME NEW s \in State, NEW h, h = Hear(s)
  PROVE  /\ emitted' = <<>> => h = s
         /\ \A e \in Events : emitted' = <<e>> => After(h, s, e)
         /\ \A f \in Failures : emitted' = <<f, "disconnected">>
              => /\ h \in State /\ SamePage(h, s)
                 /\ h.status = "disconnected" /\ h.twoFactorPending = "none"
<1>1. emitted' = <<>> => h = s
  BY DEF Hear, HandledAll
<1>2. ASSUME NEW e \in Events, emitted' = <<e>> PROVE After(h, s, e)
  <2>1. h = Handled(s, e)
    BY <1>2 DEF Hear, HandledAll
  <2> QED
    BY <2>1, HandledFields
<1>3. ASSUME NEW f \in Failures, emitted' = <<f, "disconnected">>
      PROVE  /\ h \in State /\ SamePage(h, s)
             /\ h.status = "disconnected" /\ h.twoFactorPending = "none"
  <2> DEFINE g == Handled(s, f)
  <2>1. g = Handled(s, f) /\ h = Handled(g, "disconnected")
    BY <1>3 DEF Hear, HandledAll
  <2>2. f \in Events /\ "disconnected" \in Events
    BY DEF Events
  <2> HIDE DEF g
  <2>3. After(g, s, f)
    BY <2>1, <2>2, HandledFields
  <2>4. g \in State
    BY <2>3 DEF After
  <2>5. After(h, g, "disconnected")
    BY <2>1, <2>2, <2>4, HandledFields
  <2> QED
    BY <2>3, <2>5 DEF After, SamePage
<1> QED
  BY <1>1, <1>2, <1>3

LEMMA ConnectFields ==
  ASSUME NEW s \in State, state \in State, HookConnect(s)
  PROVE  /\ ~closed' /\ ~connected' /\ relayWs' = "none"
         /\ left => state' = state
         /\ ~left => /\ state' \in State /\ SamePage(state', s)
                     /\ state'.status = "connecting" /\ state'.twoFactorPending = "none"
<1>1. ~closed' /\ ~connected' /\ relayWs' = "none" /\ emitted' = <<"connecting">>
  BY DEF HookConnect, Connect, ConnectAs, Emit
<1>2. left => state' = state
  BY DEF HookConnect
<1>3. ASSUME ~left
      PROVE  /\ state' \in State /\ SamePage(state', s)
             /\ state'.status = "connecting" /\ state'.twoFactorPending = "none"
  <2> DEFINE g == HookState(s, "connecting", "none", "none", FALSE)
  <2>1. g \in State /\ SamePage(g, s) /\ g.twoFactorPending = "none"
    BY DEF HookState, State, SamePage
  <2>2. state' = Hear(g)
    BY <1>3 DEF HookConnect
  <2>3. "connecting" \in Events
    BY DEF Events
  <2> HIDE DEF g
  <2>4. After(state', g, "connecting")
    BY <1>1, <2>1, <2>2, <2>3, HearFields
  <2> QED
    BY <2>1, <2>4 DEF After, SamePage
<1> QED
  BY <1>1, <1>2, <1>3

LEMMA DisconnectFields ==
  ASSUME NEW s \in State, HookDisconnect(s), SessInv
  PROVE  /\ closed' /\ ~connected' /\ relayWs' = "none"
         /\ state' \in State /\ SamePage(state', s)
         /\ state'.status = "idle" /\ state'.twoFactorPending = "none"
<1>1. closed' /\ ~connected' /\ relayWs' = "none"
  BY DEF HookDisconnect, Disconnect, ShutDown, SessInv, sessionVars
<1>2. state' = HookState(s, "idle", "none", "none", FALSE)
  BY DEF HookDisconnect
<1> QED
  BY <1>1, <1>2 DEF HookState, State, SamePage

-----------------------------------------------------------------------------
(* The page: what a step other than the session's own makes of session and state. *)

\* Neither what the session is nor what the hook says of it is touched.
Aside ==
  /\ closed' = closed /\ connected' = connected
  /\ awaiting2FA' = awaiting2FA /\ relayWs' = relayWs
  /\ state' \in State
  /\ state'.status = state.status /\ state'.twoFactorPending = state.twoFactorPending

Reconnects ==
  /\ ~closed' /\ ~connected' /\ relayWs' = "none" /\ left' = left
  /\ state' \in State
  /\ ~left => /\ state'.status = "connecting"
              /\ state'.twoFactorPending = "none"

Disconnects ==
  /\ closed' /\ ~connected' /\ relayWs' = "none"
  /\ state' \in State
  /\ state'.status = "idle" /\ state'.twoFactorPending = "none"

LEMMA CodeAside ==
  Submit2FACode \/ UNCHANGED sessionVars
    => /\ closed' = closed /\ connected' = connected
       /\ awaiting2FA' = awaiting2FA /\ relayWs' = relayWs
BY DEF Submit2FACode, sockets, sessionVars

LEMMA StateUpdates ==
  ASSUME NEW s \in State, NEW b \in BOOLEAN, NEW h,
         \/ h = [s EXCEPT !.dialogOpen = b]
         \/ h = [s EXCEPT !.reconnect2FA = b]
         \/ h = [s EXCEPT !.password = TRUE]
         \/ h = [s EXCEPT !.dialogOpen = TRUE, !.password = FALSE]
         \/ h = [s EXCEPT !.dialogOpen = TRUE, !.reconnect2FA = FALSE]
  PROVE  h \in State /\ h.status = s.status /\ h.twoFactorPending = s.twoFactorPending
BY DEF State

LEMMA RetryCases ==
  ASSUME state \in State, NEW t \in RetryTimers, Retry(t)
  PROVE  Reconnects \/ (Aside /\ left' = left)
<1> DEFINE g == [state EXCEPT !.dialogOpen = FALSE]
<1>1. g \in State /\ left' = left
  BY StateUpdates DEF Retry
<1>2. HookConnect(g) \/ UNCHANGED <<sessionVars, state>>
  BY DEF Retry, DoConnect
<1> HIDE DEF g
<1>3. CASE HookConnect(g)
  BY <1>1, <1>3, ConnectFields DEF Reconnects
<1>4. CASE UNCHANGED <<sessionVars, state>>
  BY <1>1, <1>4, CodeAside DEF Aside
<1> QED
  BY <1>2, <1>3, <1>4

LEMMA EffectCases ==
  ASSUME state \in State, StatusEffect
  PROVE  /\ state' \in State
         /\ state'.status = state.status /\ state'.twoFactorPending = state.twoFactorPending
<1>1. \/ state' = state
      \/ state' = [state EXCEPT !.dialogOpen = TRUE, !.reconnect2FA = FALSE]
      \/ state' = [state EXCEPT !.dialogOpen = TRUE]
      \/ state' = [state EXCEPT !.reconnect2FA = TRUE]
  <2>1. CASE OnError
    BY <2>1 DEF OnError
  <2>2. CASE OnDrop
    BY <2>2 DEF OnDrop, ScheduleReconnect
  <2>3. CASE UNCHANGED state
    BY <2>3
  <2> QED
    BY <2>1, <2>2, <2>3 DEF StatusEffect
<1> QED
  BY <1>1, StateUpdates

LEMMA RenderCases ==
  ASSUME state \in State, Render
  PROVE  Aside /\ left' = left /\ shown' = state
<1>1. Submit2FACode \/ UNCHANGED sessionVars
  BY DEF Render, AnswerChallenge
<1>2. left' = left /\ shown' = state /\ StatusEffect
  BY DEF Render
<1> QED
  BY <1>1, <1>2, CodeAside, EffectCases DEF Aside

LEMMA UserCases ==
  ASSUME state \in State, SessInv, User
  PROVE  Reconnects \/ Disconnects \/ (Aside /\ left' = left)
<1>1. CASE OpenConnectDialog \/ TypePassword \/ CancelDialog
  <2>1. UNCHANGED <<sessionVars, left>>
    BY <1>1 DEF OpenConnectDialog, TypePassword, CancelDialog
  <2>2. \/ state' = [state EXCEPT !.dialogOpen = TRUE, !.password = FALSE]
        \/ state' = [state EXCEPT !.password = TRUE]
        \/ state' = [state EXCEPT !.dialogOpen = FALSE]
    BY <1>1 DEF OpenConnectDialog, TypePassword, CancelDialog
  <2> QED
    BY <2>1, <2>2, CodeAside, StateUpdates DEF Aside
<1>2. CASE StartConnection
  <2> DEFINE g == [state EXCEPT !.dialogOpen = FALSE]
  <2>1. g \in State /\ left' = left /\ HookConnect(g)
    BY <1>2, StateUpdates DEF StartConnection, DoConnect
  <2> QED
    BY <2>1, ConnectFields DEF Reconnects
<1>3. CASE HandleDisconnect \/ Leave
  BY <1>3, DisconnectFields DEF HandleDisconnect, Leave, Disconnects
<1>4. CASE ChangePeer
  <2> DEFINE g == [state EXCEPT !.reconnect2FA = FALSE, !.password = FALSE, !.dialogOpen = TRUE]
  <2>1. g \in State
    BY DEF State
  <2>2. HookDisconnect(g)
    BY <1>4 DEF ChangePeer
  <2> QED
    BY <2>1, <2>2, DisconnectFields DEF Disconnects
<1>5. CASE Submit2FA
  <2> DEFINE g == [state EXCEPT !.reconnect2FA = FALSE]
             k == [g EXCEPT !.dialogOpen = FALSE]
  <2>1. g \in State /\ left' = left
    BY <1>5, StateUpdates DEF Submit2FA
  <2>2. HookConnect(k) \/ (Submit2FACode /\ UNCHANGED state)
    BY <1>5 DEF Submit2FA, DoConnect
  <2>3. k \in State
    <3> HIDE DEF g
    <3> QED
      BY <2>1, StateUpdates
  <2> HIDE DEF k
  <2>4. CASE HookConnect(k)
    BY <2>1, <2>3, <2>4, ConnectFields DEF Reconnects
  <2>5. CASE Submit2FACode /\ UNCHANGED state
    BY <2>1, <2>5, CodeAside DEF Aside
  <2> QED
    BY <2>2, <2>4, <2>5
<1>6. CASE Cancel2FA
  <2>1. CASE HookDisconnect(state)
    BY <2>1, DisconnectFields DEF Disconnects
  <2>2. CASE ~HookDisconnect(state)
    <3>1. UNCHANGED <<sessionVars, left>> /\ state' = [state EXCEPT !.reconnect2FA = FALSE]
      BY <1>6, <2>2 DEF Cancel2FA
    <3> QED
      BY <3>1, CodeAside, StateUpdates DEF Aside
  <2> QED
    BY <2>1, <2>2
<1> QED
  BY <1>1, <1>2, <1>3, <1>4, <1>5, <1>6 DEF User

-----------------------------------------------------------------------------
(* What the page says of the session. *)

Honest == StatusHonest /\ PromptAnswerable

LEMMA SessionStepFields ==
  ASSUME SessionTypeOK, SessInv, state \in State, SessionStep
  PROVE  /\ left' = left /\ state' \in State /\ SamePage(state', state)
         /\ left => state' = state
         /\ ~left => /\ Silent => state' = state
                     /\ Waits => After(state', state, "approval-pending")
                     /\ Drops => After(state', state, "disconnected")
                     /\ Asks => After(state', state, "two-fa")
                     /\ Accepts => After(state', state, "connected")
                     /\ Ends => /\ state'.status = "disconnected"
                                /\ state'.twoFactorPending = "none"
<1>1. left' = left /\ Happens
  BY DEF SessionStep
<1>2. CASE left
  <2>1. state' = state
    BY <1>2 DEF SessionStep
  <2> QED
    BY <1>1, <1>2, <2>1 DEF SamePage
<1>3. CASE ~left
  <2>1. state' = Hear(state)
    BY <1>3 DEF SessionStep
  <2>2. {"approval-pending", "disconnected", "two-fa", "connected"} \subseteq Events
    BY DEF Events
  <2>3. Silent => state' = state
    BY <2>1, HearFields DEF Silent
  <2>4. Waits => After(state', state, "approval-pending")
    BY <2>1, <2>2, HearFields DEF Waits
  <2>5. Drops => After(state', state, "disconnected")
    BY <2>1, <2>2, HearFields DEF Drops
  <2>6. Asks => After(state', state, "two-fa")
    BY <2>1, <2>2, HearFields DEF Asks
  <2>7. Accepts => After(state', state, "connected")
    BY <2>1, <2>2, HearFields DEF Accepts
  <2>8. Ends => /\ state' \in State /\ SamePage(state', state)
                /\ state'.status = "disconnected" /\ state'.twoFactorPending = "none"
    BY <2>1, HearFields DEF Ends, Fail, Emit
  <2>9. state' \in State /\ SamePage(state', state)
    BY <1>1, <2>3, <2>4, <2>5, <2>6, <2>7, <2>8, HappensCases DEF After, SamePage
  <2> QED
    BY <1>1, <1>3, <2>3, <2>4, <2>5, <2>6, <2>7, <2>8, <2>9
<1> QED
  BY <1>2, <1>3

LEMMA HonestSessionStep ==
  ASSUME SessionTypeOK, SessInv, state \in State, Honest, SessionStep
  PROVE  Honest'
<1> SUFFICES ASSUME ~left PROVE Honest'
  BY SessionStepFields DEF Honest, StatusHonest, PromptAnswerable
<1> USE DEF Honest, StatusHonest, PromptAnswerable
<1>1. Silent \/ Waits \/ Drops \/ Asks \/ Accepts \/ Ends
  BY HappensCases DEF SessionStep
<1>2. CASE Silent
  BY <1>2, SessionStepFields DEF Silent, SessInv
<1>3. CASE Waits
  BY <1>3, SessionStepFields DEF Waits, After
<1>4. CASE Drops
  BY <1>4, SessionStepFields DEF Drops, After
<1>5. CASE Asks
  BY <1>5, SessionStepFields DEF Asks, After
<1>6. CASE Accepts
  BY <1>6, SessionStepFields DEF Accepts, After
<1>7. CASE Ends
  BY <1>7, SessionStepFields DEF Ends, Fail, ShutDown
<1> QED
  BY <1>1, <1>2, <1>3, <1>4, <1>5, <1>6, <1>7

LEMMA HonestNext ==
  ASSUME SessionTypeOK, SessInv, state \in State, Honest, [Next]_vars
  PROVE  state' \in State /\ Honest'
<1> USE DEF Honest, StatusHonest, PromptAnswerable
<1>1. CASE SessionStep
  BY <1>1, HonestSessionStep, SessionStepFields
<1>2. ASSUME Reconnects PROVE state' \in State /\ Honest'
  BY <1>2 DEF Reconnects
<1>3. ASSUME Disconnects PROVE state' \in State /\ Honest'
  BY <1>3 DEF Disconnects
<1>4. ASSUME Aside, left' = left PROVE state' \in State /\ Honest'
  BY <1>4 DEF Aside
<1>5. CASE Render
  BY <1>4, <1>5, RenderCases
<1>6. ASSUME NEW t \in RetryTimers, Retry(t) PROVE state' \in State /\ Honest'
  BY <1>2, <1>4, <1>6, RetryCases
<1>7. CASE User
  BY <1>2, <1>3, <1>4, <1>7, UserCases
<1>8. CASE UNCHANGED vars
  BY <1>8 DEF vars, sessionVars, pageVars
<1> QED
  BY <1>1, <1>5, <1>6, <1>7, <1>8 DEF Next

LEMMA HonestInit == Init => state \in State /\ Honest
<1> SUFFICES ASSUME Init PROVE state \in State /\ Honest
    OBVIOUS
<1> QED
  BY DEF Init, SessionInit, State, Honest, StatusHonest, PromptAnswerable

LEMMA HonestInvariant == Spec => [](state \in State /\ Honest)
<1> DEFINE S == SessionTypeOK /\ SessInv
           H == state \in State /\ Honest
<1>1. Spec => []S
  BY SessionInvariant, PTL
<1>2. S /\ H /\ [Next]_vars => H'
  BY HonestNext
<1>3. Init => H
  BY HonestInit
<1> HIDE DEF S, H
<1>4. Spec => []H
  BY <1>1, <1>2, <1>3, PTL DEF Spec
<1> QED
  BY <1>4 DEF H

\* However sockets, timers, clicks and redials interleave, the status is
\* "connected" exactly while the host has accepted and the relay is there, and
\* "connecting" exactly while that may still come about.
THEOREM StatusIsTrue == Spec => []StatusHonest
BY HonestInvariant, PTL DEF Honest

\* A code is asked for only while there is a host that takes it.
THEOREM PromptIsAnswerable == Spec => []PromptAnswerable
BY HonestInvariant, PTL DEF Honest

\* No prompt leads nowhere and no dial goes unwatched.
THEOREM NotStranded == Spec => []NeverStranded
BY PromptIsAnswerable, Watched, PTL DEF NeverStranded

-----------------------------------------------------------------------------
(* The types of the page. *)

PageTypeOK ==
  /\ state \in State /\ shown \in State
  /\ userDisconnect \in BOOLEAN /\ attempts \in Nat
  /\ retries \subseteq RetryTimers /\ retryTimer \in RetryTimers \cup {Null}
  /\ had2FA \in BOOLEAN /\ autoCode \in BOOLEAN
  /\ left \in BOOLEAN /\ touched \subseteq retries /\ denied \in BOOLEAN

LEMMA PageTypeInit == Init => PageTypeOK
<1> SUFFICES ASSUME Init PROVE PageTypeOK
    OBVIOUS
<1> QED
  BY HonestInit DEF Init, PageTypeOK

LEMMA RetryType ==
  ASSUME PageTypeOK, NEW t \in RetryTimers, Retry(t), state' \in State
  PROVE  PageTypeOK'
<1>1. denied' \in BOOLEAN
  BY DEF Retry, DoConnect, HookConnect, PageTypeOK
<1> QED
  BY <1>1 DEF Retry, PageTypeOK

LEMMA RenderType ==
  ASSUME PageTypeOK, Render, state' \in State
  PROVE  PageTypeOK'
<1>1. had2FA' \in BOOLEAN
  BY DEF Render, AnswerChallenge, Challenged, PageTypeOK
<1>2. /\ attempts' \in Nat /\ autoCode' \in BOOLEAN
      /\ retries' \subseteq RetryTimers /\ retryTimer' \in RetryTimers \cup {Null}
  <2>1. CASE OnError
    BY <2>1 DEF OnError, ClearRetryTimer, PageTypeOK
  <2>2. CASE OnDrop
    BY <2>2 DEF OnDrop, ScheduleReconnect, Challenged, PageTypeOK
  <2>3. CASE /\ attempts' = IF Becomes("connected") THEN 0 ELSE attempts
             /\ autoCode' = (autoCode /\ ~Challenged)
             /\ UNCHANGED <<state, retries, retryTimer>>
    BY <2>3 DEF Challenged, PageTypeOK
  <2> QED
    BY <2>1, <2>2, <2>3 DEF Render, StatusEffect
<1> QED
  BY <1>1, <1>2 DEF Render, PageTypeOK

LEMMA UserType ==
  ASSUME PageTypeOK, User, state' \in State
  PROVE  PageTypeOK'
<1>1. touched' = retries' /\ shown' = shown
  BY DEF User, OpenConnectDialog, TypePassword, CancelDialog, StartConnection, HandleDisconnect,
         Submit2FA, Cancel2FA, ChangePeer, Leave
<1>2. retries' \subseteq RetryTimers /\ retryTimer' \in RetryTimers \cup {Null}
  BY DEF User, OpenConnectDialog, TypePassword, CancelDialog, StartConnection, HandleDisconnect,
         Submit2FA, Cancel2FA, ChangePeer, Leave, ClearRetryTimer, refs, PageTypeOK
<1>3. attempts' \in Nat
  BY DEF User, OpenConnectDialog, TypePassword, CancelDialog, StartConnection, HandleDisconnect,
         Submit2FA, Cancel2FA, ChangePeer, Leave, refs, PageTypeOK
<1>4. userDisconnect' \in BOOLEAN /\ left' \in BOOLEAN
  BY DEF User, OpenConnectDialog, TypePassword, CancelDialog, StartConnection, HandleDisconnect,
         Submit2FA, Cancel2FA, ChangePeer, Leave, refs, PageTypeOK
<1>5. had2FA' \in BOOLEAN /\ autoCode' \in BOOLEAN
  BY DEF User, OpenConnectDialog, TypePassword, CancelDialog, StartConnection, HandleDisconnect,
         Submit2FA, Cancel2FA, ChangePeer, Leave, refs, PageTypeOK
<1>6. denied' \in BOOLEAN
  BY DEF User, OpenConnectDialog, TypePassword, CancelDialog, StartConnection, HandleDisconnect,
         Submit2FA, Cancel2FA, ChangePeer, Leave, DoConnect, HookConnect, HookDisconnect, PageTypeOK
<1> QED
  BY <1>1, <1>2, <1>3, <1>4, <1>5, <1>6 DEF PageTypeOK

LEMMA PageTypeNext ==
  ASSUME PageTypeOK, [Next]_vars, state' \in State
  PROVE  PageTypeOK'
<1>1. CASE SessionStep
  BY <1>1 DEF SessionStep, Denies, refs, PageTypeOK
<1>2. CASE UNCHANGED vars
  BY <1>2 DEF vars, pageVars, PageTypeOK
<1> QED
  BY <1>1, <1>2, RenderType, RetryType, UserType DEF Next

LEMMA PageTypeInvariant == Spec => []PageTypeOK
<1> DEFINE H == state \in State /\ Honest
<1>1. Spec => []H
  BY HonestInvariant
<1>2. H' => state' \in State
  OBVIOUS
<1>3. PageTypeOK /\ H' /\ [Next]_vars => PageTypeOK'
  BY <1>2, PageTypeNext
<1> HIDE DEF H
<1> QED
  BY <1>1, <1>3, PageTypeInit, PTL DEF Spec

\* Every variable of session, hook and page keeps its type.
THEOREM TypeCorrect == Spec => []TypeOK
<1>1. SessionTypeOK /\ PageTypeOK => TypeOK
  BY DEF PageTypeOK, TypeOK
<1> QED
  BY <1>1, SessionInvariant, PageTypeInvariant, PTL

-----------------------------------------------------------------------------
(* What is redialled. *)

Untouched == retries \ touched

Dropped ==
  /\ state.status = "disconnected" /\ shown.status = "disconnected"
  /\ state.twoFactorPending = "none"
  /\ ~had2FA /\ ~userDisconnect /\ ~left
  /\ ~state.dialogOpen /\ ~state.reconnect2FA

\* One retry at most is due that nobody has come before, and while it is, nothing
\* has happened since the drop that it is for.
RetryInv == \A t \in Untouched : Dropped /\ \A u \in Untouched : u = t

LEMMA RetryInvSession ==
  ASSUME SessionTypeOK, SessInv, PageTypeOK, Honest, RetryInv, SessionStep
  PROVE  RetryInv'
<1> SUFFICES ASSUME NEW t \in Untouched PROVE Dropped' /\ UNCHANGED Untouched
    BY DEF SessionStep, RetryInv, Untouched, refs
<1>1. Dropped
  BY DEF RetryInv
<1>2. relayWs # "open"
  BY <1>1 DEF Dropped, Honest, StatusHonest, SessInv
<1>3. Silent \/ Waits \/ Ends
  BY <1>2, HappensCases DEF SessionStep, Drops, Asks, Accepts
<1>4. /\ SamePage(state', state)
      /\ state'.status = "disconnected" /\ state'.twoFactorPending = "none"
  BY <1>1, <1>3, SessionStepFields DEF Dropped, After, PageTypeOK
<1> QED
  BY <1>1, <1>4 DEF SessionStep, Dropped, SamePage, Untouched, refs

LEMMA RetryInvRender ==
  ASSUME PageTypeOK, RetryInv, Render
  PROVE  RetryInv'
<1> USE DEF PageTypeOK, Untouched
<1>1. ASSUME NEW t \in Untouched PROVE RetryInv'
  <2>1. Dropped
    BY <1>1 DEF RetryInv
  <2>2. ~Becomes("disconnected") /\ ~Becomes("error") /\ ~Challenged
    BY <2>1 DEF Dropped, Becomes, Challenged
  <2>3. state' = state /\ retries' = retries /\ had2FA' = had2FA
    BY <2>2 DEF Render, StatusEffect, AnswerChallenge
  <2>4. shown' = state /\ touched' = touched /\ userDisconnect' = userDisconnect /\ left' = left
    BY <2>3 DEF Render
  <2> QED
    BY <2>1, <2>3, <2>4 DEF RetryInv, Dropped
<1>2. CASE Untouched = {}
  <2>1. shown' = state /\ touched' = touched \cap retries'
        /\ userDisconnect' = userDisconnect /\ ~left'
    BY DEF Render
  <2>2. CASE retries' \subseteq retries
    BY <1>2, <2>1, <2>2 DEF RetryInv
  <2>3. CASE ~(retries' \subseteq retries)
    <3>1. Becomes("disconnected") /\ OnDrop
      BY <2>3 DEF Render, StatusEffect, OnError, ClearRetryTimer
    <3>2. /\ ~userDisconnect /\ ~state.dialogOpen /\ state.twoFactorPending = "none"
          /\ ~state.reconnect2FA /\ ~had2FA' /\ ScheduleReconnect
      BY <2>3, <3>1 DEF OnDrop
    <3>3. PICK t \in RetryTimers \ retries : retries' = retries \cup {t} /\ state' = state
      BY <2>3, <3>2 DEF ScheduleReconnect
    <3>4. Untouched' = {t}
      BY <1>2, <2>1, <3>3
    <3>5. Dropped'
      BY <2>1, <3>1, <3>2, <3>3 DEF Dropped, Becomes
    <3> QED
      BY <3>4, <3>5 DEF RetryInv
  <2> QED
    BY <2>2, <2>3
<1> QED
  BY <1>1, <1>2

LEMMA RetryInvNext ==
  ASSUME SessionTypeOK, SessInv, PageTypeOK, Honest, RetryInv, [Next]_vars
  PROVE  RetryInv'
<1>1. ASSUME NEW t \in RetryTimers, Retry(t) PROVE Untouched' = {}
  <2>1. CASE t \in touched
    BY <1>1, <2>1 DEF Retry, Untouched
  <2>2. CASE t \notin touched
    <3>1. Untouched = {t}
      BY <1>1, <2>2 DEF Retry, RetryInv, Untouched
    <3> QED
      BY <1>1, <2>2, <3>1 DEF Retry, Untouched
  <2> QED
    BY <2>1, <2>2
<1>2. CASE User
  BY <1>2 DEF User, RetryInv, Untouched
<1>3. CASE UNCHANGED vars
  BY <1>3 DEF vars, pageVars, RetryInv, Untouched, Dropped
<1> QED
  BY <1>1, <1>2, <1>3, RetryInvSession, RetryInvRender DEF Next, RetryInv

\* Left alone, the page redials only what dropped: no session that passed a second
\* factor or was ended on purpose, nothing behind a dialog or after the page is gone.
THEOREM OnlyDropsRedialled == Spec => RetriesOnlyDrops
<1> DEFINE S == SessionTypeOK /\ SessInv
           A == \A t \in retries \ touched : Retry(t) =>
                  /\ state.status = "disconnected"
                  /\ ~had2FA /\ ~userDisconnect /\ ~left
                  /\ ~state.dialogOpen /\ ~state.reconnect2FA
<1>1. Spec => [](S /\ PageTypeOK /\ Honest)
  BY SessionInvariant, HonestInvariant, PageTypeInvariant, PTL
<1>2. S /\ PageTypeOK /\ Honest /\ RetryInv /\ [Next]_vars => RetryInv'
  BY RetryInvNext
<1>3. Init => RetryInv
  BY DEF Init, RetryInv, Untouched
<1>4. RetryInv => A
  BY DEF RetryInv, Untouched, Dropped
<1> HIDE DEF S, A
<1>5. Spec => []RetryInv
  BY <1>1, <1>2, <1>3, PTL DEF Spec
<1>6. Spec => [][A]_vars
  BY <1>4, <1>5, PTL
<1> QED
  BY <1>6 DEF A, RetriesOnlyDrops

-----------------------------------------------------------------------------
(* The pointers of the remote screen: what is sent.                          *)

Outputs == [last : Spots \cup {Absent}, cursor : Spots \cup {Absent},
            host : [at : Spots, held : SUBSET Buttons], strayed : BOOLEAN, missed : BOOLEAN]

\* The host's cursor is where the position sent last says, unless something else has
\* moved it; and no press has missed.
Landed(o) == ~o.missed /\ (~o.strayed /\ o.last # Absent => o.host.at = o.last)

LEMMA MoveLands ==
  ASSUME NEW o \in Outputs, Landed(o), NEW s \in Spots
  PROVE  /\ MoveTo(o, s) \in Outputs /\ Landed(MoveTo(o, s))
         /\ MoveTo(o, s).host.held = o.host.held
         /\ ~MoveTo(o, s).strayed => MoveTo(o, s).host.at = s
<1>1. Absent # s
  BY PointerAssumption
<1>2. CASE s = o.last
  BY <1>1, <1>2 DEF MoveTo, Outputs, Landed
<1>3. CASE s # o.last
  BY <1>1, <1>3 DEF MoveTo, Outputs, Landed
<1> QED
  BY <1>2, <1>3

LEMMA PressLands ==
  ASSUME NEW o \in Outputs, Landed(o), NEW s \in Spots, NEW b \in Buttons
  PROVE  LET pressed == Press(MoveTo(o, s), b, s) IN
         pressed \in Outputs /\ Landed(pressed) /\ pressed.host.held = o.host.held \cup {b}
<1> DEFINE moved == MoveTo(o, s)
<1>1. /\ moved \in Outputs /\ Landed(moved) /\ moved.host.held = o.host.held
      /\ ~moved.strayed => moved.host.at = s
  BY MoveLands
<1> HIDE DEF moved
<1>2. /\ Press(moved, b, s) \in Outputs /\ Landed(Press(moved, b, s))
      /\ Press(moved, b, s).host.held = moved.host.held \cup {b}
  BY <1>1 DEF Press, Outputs, Landed
<1> QED
  BY <1>1, <1>2 DEF moved

LEMMA ReleaseLands ==
  ASSUME NEW o \in Outputs, Landed(o), NEW b \in Buttons
  PROVE  /\ Release(o, b) \in Outputs /\ Landed(Release(o, b))
         /\ Release(o, b).host.held = o.host.held \ {b}
BY DEF Release, Outputs, Landed

LEMMA ClickLands ==
  ASSUME NEW o \in Outputs, Landed(o), NEW s \in Spots, NEW b \in Buttons
  PROVE  /\ Click(o, b, s) \in Outputs /\ Landed(Click(o, b, s))
         /\ Click(o, b, s).host.held = o.host.held \ {b}
<1> DEFINE pressed == Press(MoveTo(o, s), b, s)
<1>1. pressed \in Outputs /\ Landed(pressed) /\ pressed.host.held = o.host.held \cup {b}
  BY PressLands
<1> HIDE DEF pressed
<1>2. /\ Release(pressed, b) \in Outputs /\ Landed(Release(pressed, b))
      /\ Release(pressed, b).host.held = pressed.host.held \ {b}
  BY <1>1, ReleaseLands
<1> QED
  BY <1>1, <1>2 DEF Click, pressed

SentInv == Out \in Outputs /\ Landed(Out)

LEMMA SendsOut ==
  ASSUME NEW o \in Outputs, Landed(o), Sends(o)
  PROVE  SentInv' /\ host' = o.host
<1>1. Out' = o
  BY DEF Sends, Out, Outputs
<1> QED
  BY <1>1 DEF SentInv, Outputs, Sends

\* What each way of sending does to the buttons the host holds.
LEMMA SendingKeeps ==
  ASSUME SentInv, NEW s \in Spots, NEW b \in Buttons
  PROVE  /\ UNCHANGED sent => SentInv' /\ host'.held = host.held
         /\ Sends(Press(MoveTo(Out, s), b, s)) => SentInv' /\ host'.held = host.held \cup {b}
         /\ Sends(Click(Out, b, s)) => SentInv' /\ host'.held = host.held \ {b}
         /\ Sends(Release(Out, b)) => SentInv' /\ host'.held = host.held \ {b}
         /\ Sends(Release([Out EXCEPT !.cursor = s], b)) => SentInv' /\ host'.held = host.held \ {b}
<1>1. Out \in Outputs /\ Landed(Out) /\ Out.host = host
  BY DEF SentInv, Out
<1>2. ASSUME UNCHANGED sent PROVE SentInv' /\ host'.held = host.held
  BY <1>2, SentInv DEF sent, SentInv, Out
<1>3. ASSUME Sends(Press(MoveTo(Out, s), b, s)) PROVE SentInv' /\ host'.held = host.held \cup {b}
  BY <1>1, <1>3, PressLands, SendsOut
<1>4. ASSUME Sends(Click(Out, b, s)) PROVE SentInv' /\ host'.held = host.held \ {b}
  BY <1>1, <1>4, ClickLands, SendsOut
<1>5. ASSUME Sends(Release(Out, b)) PROVE SentInv' /\ host'.held = host.held \ {b}
  BY <1>1, <1>5, ReleaseLands, SendsOut
<1>6. ASSUME Sends(Release([Out EXCEPT !.cursor = s], b))
      PROVE  SentInv' /\ host'.held = host.held \ {b}
  <2> DEFINE o == [Out EXCEPT !.cursor = s]
  <2>1. o \in Outputs /\ Landed(o) /\ o.host = host
    BY <1>1 DEF Outputs, Landed
  <2> HIDE DEF o
  <2>2. Sends(Release(o, b))
    BY <1>6 DEF o
  <2> QED
    BY <2>1, <2>2, ReleaseLands, SendsOut
<1> QED
  BY <1>2, <1>3, <1>4, <1>5, <1>6

-----------------------------------------------------------------------------
(* The fingers and buttons that are down.                                    *)

PointerTypes ==
  /\ paused \in BOOLEAN /\ inputMode \in {"touch", "pointer"} /\ careless \in BOOLEAN
  /\ touching \subseteq Fingers /\ buttons \subseteq Buttons
  /\ pointers \in Seq(Pointers) /\ at \in [Pointers -> Spots]
  /\ longPress \in [id : Fingers, armed : BOOLEAN] \cup {Absent}
  /\ tracker \in [id : Pointers, moved : BOOLEAN] \cup {Absent}
  /\ drag \in Fingers \cup {Absent}
  /\ twoTap \in BOOLEAN /\ scroll \in BOOLEAN /\ pendingMove \in Spots \cup {Absent}

\* The buttons a careful user can have made the host hold.
Owing ==
  IF paused THEN {}
  ELSE IF buttons # {} THEN buttons
  ELSE IF (inputMode = "touch" /\ pointers # <<>>) \/ drag # Absent THEN {"left"} ELSE {}

\* While the user is careful the handlers know what is down, a grab is alone on the
\* screen, and nothing else is held.
Followed ==
  /\ \A i, j \in DOMAIN pointers : pointers[i] = pointers[j] => i = j
  /\ Mapped = IF paused THEN {} ELSE touching \cup (IF buttons = {} THEN {} ELSE {Mouse})
  /\ touching = {} \/ buttons = {}
  /\ \A b, c \in buttons : b = c
  /\ scroll <=> Len(pointers) >= 2
  /\ longPress # Absent => pointers = <<longPress.id>>
  /\ drag # Absent => pointers = <<drag>> /\ inputMode = "pointer"
  /\ host.held \subseteq Owing

PointerInv == PointerTypes /\ SentInv /\ (~careless => Followed)

LEMMA AppendPointer ==
  ASSUME NEW p \in Pointers, pointers \in Seq(Pointers), pointers' = Append(pointers, p)
  PROVE  /\ pointers' \in Seq(Pointers) /\ Len(pointers') = Len(pointers) + 1
         /\ Mapped' = Mapped \cup {p}
         /\ pointers = <<>> => pointers' = <<p>>
         /\ (\A i, j \in DOMAIN pointers : pointers[i] = pointers[j] => i = j) /\ p \notin Mapped =>
              \A i, j \in DOMAIN pointers' : pointers'[i] = pointers'[j] => i = j
<1>1. /\ pointers' \in Seq(Pointers) /\ Len(pointers') = Len(pointers) + 1
      /\ \A i \in 1..Len(pointers) : pointers'[i] = pointers[i]
      /\ pointers'[Len(pointers) + 1] = p
  OBVIOUS
<1>2. Mapped' = Mapped \cup {p}
  <2>1. DOMAIN pointers = 1..Len(pointers) /\ DOMAIN pointers' = 1..(Len(pointers) + 1)
    BY <1>1
  <2>2. \A q : q \in Mapped' <=> \E i \in DOMAIN pointers' : pointers'[i] = q
    BY DEF Mapped
  <2>3. \A q : q \in Mapped <=> \E i \in DOMAIN pointers : pointers[i] = q
    BY DEF Mapped
  <2>4. 1..(Len(pointers) + 1) = (1..Len(pointers)) \cup {Len(pointers) + 1}
    OBVIOUS
  <2> QED
    BY <1>1, <2>1, <2>2, <2>3, <2>4
<1>3. pointers = <<>> => pointers' = <<p>>
  OBVIOUS
<1>4. (\A i, j \in DOMAIN pointers : pointers[i] = pointers[j] => i = j) /\ p \notin Mapped =>
        \A i, j \in DOMAIN pointers' : pointers'[i] = pointers'[j] => i = j
  BY <1>1 DEF Mapped
<1> QED
  BY <1>1, <1>2, <1>3, <1>4

LEMMA WithoutPointer ==
  ASSUME NEW p \in Mapped, pointers \in Seq(Pointers)
  PROVE  /\ Without(p) \in Seq(Pointers) /\ Len(Without(p)) = Len(pointers) - 1
         /\ (\A i, j \in DOMAIN pointers : pointers[i] = pointers[j] => i = j) =>
              /\ {Without(p)[i] : i \in DOMAIN Without(p)} = Mapped \ {p}
              /\ \A i, j \in DOMAIN Without(p) : Without(p)[i] = Without(p)[j] => i = j
<1> DEFINE k == CHOOSE i \in DOMAIN pointers : pointers[i] = p
           n == Len(pointers)
           pick(i) == IF i < k THEN i ELSE i + 1
           rest == [i \in 1..(n - 1) |-> pointers[pick(i)]]
<1>1. k \in 1..n /\ pointers[k] = p /\ n \in Nat \ {0} /\ DOMAIN pointers = 1..n
  BY DEF Mapped
<1>2. Without(p) = rest
  BY DEF Without
<1> HIDE DEF k
<1>3. \A i \in 1..(n - 1) : pick(i) \in 1..n /\ pick(i) # k
  BY <1>1
<1>4. \A i, j \in 1..(n - 1) : pick(i) = pick(j) => i = j
  BY <1>1
<1>5. \A m \in 1..n : m # k => \E i \in 1..(n - 1) : pick(i) = m
  <2> TAKE m \in 1..n
  <2>1. CASE m < k
    BY <1>1, <2>1
  <2>2. CASE m > k
    <3>1. m - 1 \in 1..(n - 1) /\ pick(m - 1) = m
      BY <1>1, <2>2
    <3> QED
      BY <3>1
  <2> QED
    BY <1>1, <2>1, <2>2
<1> HIDE DEF pick
<1>6. \A i \in 1..(n - 1) : rest[i] = pointers[pick(i)] /\ rest[i] \in Pointers
  BY <1>1, <1>3
<1>7. n - 1 \in Nat /\ rest \in [1..(n - 1) -> Pointers] /\ DOMAIN rest = 1..(n - 1)
  BY <1>1, <1>6
<1> HIDE DEF rest, n
<1>8. rest \in Seq(Pointers) /\ Len(rest) = n - 1
  BY <1>7
<1>9. ASSUME \A i, j \in 1..n : pointers[i] = pointers[j] => i = j
      PROVE  /\ {rest[i] : i \in 1..(n - 1)} = Mapped \ {p}
             /\ \A i, j \in 1..(n - 1) : rest[i] = rest[j] => i = j
  <2>1. \A i \in 1..(n - 1) : rest[i] \in Mapped \ {p}
    BY <1>1, <1>3, <1>6, <1>9 DEF Mapped
  <2>2. \A q \in Mapped \ {p} : \E i \in 1..(n - 1) : rest[i] = q
    BY <1>1, <1>5, <1>6 DEF Mapped
  <2>3. \A i, j \in 1..(n - 1) : rest[i] = rest[j] => i = j
    BY <1>3, <1>4, <1>6, <1>9
  <2> QED
    BY <2>1, <2>2, <2>3
<1>10. Without(p) \in Seq(Pointers) /\ Len(Without(p)) = Len(pointers) - 1
  BY <1>2, <1>8 DEF n
<1>11. ASSUME \A i, j \in DOMAIN pointers : pointers[i] = pointers[j] => i = j
       PROVE  /\ {Without(p)[i] : i \in DOMAIN Without(p)} = Mapped \ {p}
              /\ \A i, j \in DOMAIN Without(p) : Without(p)[i] = Without(p)[j] => i = j
  <2>1. \A i, j \in 1..n : pointers[i] = pointers[j] => i = j
    BY <1>1, <1>11
  <2>2. DOMAIN Without(p) = 1..(n - 1)
    BY <1>2, <1>7
  <2> QED
    BY <1>2, <1>9, <2>1, <2>2
<1> QED
  BY <1>10, <1>11

LEMMA NoPointers ==
  /\ <<>> \in Seq(Pointers) /\ Len(<<>>) = 0 /\ DOMAIN <<>> = {}
  /\ \A p : <<p>> # <<>> /\ Len(<<p>>) = 1
OBVIOUS

LEMMA PointerInvInit == PointerInit => PointerInv
<1> SUFFICES ASSUME PointerInit PROVE PointerInv
    OBVIOUS
<1>1. PICK s \in Spots : /\ at = [p \in Pointers |-> s] /\ cursor = Absent /\ lastSentMove = Absent
                         /\ host = [at |-> s, held |-> {}]
  BY DEF PointerInit
<1>2. PointerTypes
  <2>1. at \in [Pointers -> Spots] /\ pointers \in Seq(Pointers)
    BY <1>1, NoPointers DEF PointerInit
  <2> QED
    BY <2>1 DEF PointerInit, PointerTypes
<1>3. SentInv
  BY <1>1 DEF PointerInit, SentInv, Out, Outputs, Landed
<1>4. Mapped = {} /\ Len(pointers) = 0 /\ DOMAIN pointers = {}
  BY NoPointers DEF PointerInit, Mapped
<1>5. ~(Len(pointers) >= 2) /\ host.held = {}
  BY <1>1, <1>4
<1>6. /\ ~scroll /\ longPress = Absent /\ drag = Absent /\ touching = {} /\ buttons = {}
      /\ paused = FALSE
  BY DEF PointerInit
<1>7. Followed
  <2>1. Mapped = IF paused THEN {} ELSE touching \cup (IF buttons = {} THEN {} ELSE {Mouse})
    BY <1>4, <1>6
  <2>2. scroll <=> Len(pointers) >= 2
    BY <1>5, <1>6
  <2> QED
    BY <1>4, <1>5, <1>6, <2>1, <2>2 DEF Followed
<1> QED
  BY <1>2, <1>3, <1>7 DEF PointerInv

LEMMA TargetSpot == ASSUME PointerTypes, SentInv, NEW p \in Pointers PROVE Target(p) \in Spots
BY DEF PointerTypes, SentInv, Out, Outputs, Target

LEMMA FingerDownKeeps ==
  ASSUME PointerInv, NEW f \in Fingers, NEW s \in Spots, FingerDown(f, s)
  PROVE  PointerInv'
<1> USE DEF PointerInv
<1>0. /\ f \in Pointers /\ f # Mouse /\ Absent # f /\ "left" \in Buttons
      /\ at' = [at EXCEPT ![f] = s] /\ at' \in [Pointers -> Spots]
      /\ UNCHANGED <<paused, inputMode, buttons, pendingMove>> /\ touching' = touching \cup {f}
  BY PointerAssumption DEF FingerDown, HandleDown, Pointers, Buttons, queue, PointerTypes
<1>1. careless' \in BOOLEAN /\ (~careless' => ~careless /\ drag = Absent /\ buttons = {})
  BY DEF FingerDown, PointerTypes
<1>2. CASE paused
  <2>1. UNCHANGED <<pointers, gesture, sent>>
    BY <1>2 DEF FingerDown
  <2>2. Mapped' = Mapped
    BY <2>1 DEF Mapped
  <2>3. SentInv' /\ host' = host
    BY <2>1 DEF sent, SentInv, Out
  <2> QED
    BY <1>0, <1>1, <1>2, <2>1, <2>2, <2>3 DEF PointerTypes, Followed, gesture, Owing
<1>3. CASE ~paused
  <2>1. HandleDown(f, "left", s)
    BY <1>3 DEF FingerDown
  <2>2. /\ pointers' \in Seq(Pointers)
        /\ f \notin Mapped => pointers' = Append(pointers, f)
        /\ f \in Mapped => pointers' = pointers
    BY <1>0, <2>1 DEF HandleDown, PointerTypes
  <2>3. CASE Len(pointers') >= 2
    <3>1. SecondDown(f)
      BY <2>1, <2>3 DEF HandleDown
    <3>2. SentInv' /\ host' = host
      BY <3>1 DEF SecondDown, sent, SentInv, Out
    <3>3. PointerTypes'
      BY <1>0, <1>1, <2>2, <3>1 DEF SecondDown, PointerTypes
    <3>4. ASSUME ~careless' PROVE Followed'
      <4>1. ~careless /\ Followed /\ drag = Absent /\ buttons = {} /\ f \notin Mapped
        BY <1>1, <1>3, <3>4 DEF FingerDown, Followed
      <4>2. /\ Mapped' = Mapped \cup {f} /\ Len(pointers') = Len(pointers) + 1
            /\ \A i, j \in DOMAIN pointers' : pointers'[i] = pointers'[j] => i = j
        BY <1>0, <2>2, <4>1, AppendPointer DEF Followed, PointerTypes
      <4>3. pointers # <<>>
        BY <2>3, <4>2
      <4>4. pointers' # <<>>
        BY <2>3
      <4> QED
        BY <1>0, <1>3, <2>3, <3>1, <3>2, <4>1, <4>2, <4>3, <4>4 DEF SecondDown, Followed, Owing
    <3> QED
      BY <3>2, <3>3, <3>4
  <2>4. CASE ~(Len(pointers') >= 2)
    <3>1. FirstDown(f, "left", s)
      BY <2>1, <2>4 DEF HandleDown
    <3>2. /\ SentInv'
          /\ inputMode = "pointer" => host'.held = host.held
          /\ inputMode # "pointer" => host'.held = host.held \cup {"left"}
      BY <1>0, <3>1, SendingKeeps DEF FirstDown
    <3>3. PointerTypes'
      <4>1. longPress' = [id |-> f, armed |-> TRUE]
        BY <3>1 DEF FirstDown
      <4>2. tracker' = [id |-> f, moved |-> FALSE] \/ tracker' = tracker
        BY <3>1 DEF FirstDown
      <4>3. UNCHANGED <<twoTap, scroll, drag>>
        BY <3>1 DEF FirstDown
      <4>4. /\ longPress' \in [id : Fingers, armed : BOOLEAN] \cup {Absent}
            /\ tracker' \in [id : Pointers, moved : BOOLEAN] \cup {Absent}
        <5>1. [id |-> f, armed |-> TRUE] \in [id : Fingers, armed : BOOLEAN]
          OBVIOUS
        <5>2. [id |-> f, moved |-> FALSE] \in [id : Pointers, moved : BOOLEAN]
          BY <1>0
        <5> QED
          BY <4>1, <4>2, <5>1, <5>2 DEF PointerTypes
      <4> QED
        BY <1>0, <1>1, <2>2, <4>3, <4>4 DEF PointerTypes
    <3>4. ASSUME ~careless' PROVE Followed'
      <4>1. ~careless /\ Followed /\ drag = Absent /\ buttons = {} /\ f \notin Mapped
        BY <1>1, <1>3, <3>4 DEF FingerDown, Followed
      <4>2. /\ Mapped' = Mapped \cup {f} /\ Len(pointers') = Len(pointers) + 1
            /\ \A i, j \in DOMAIN pointers' : pointers'[i] = pointers'[j] => i = j
            /\ pointers = <<>> => pointers' = <<f>>
        BY <1>0, <2>2, <4>1, AppendPointer DEF Followed, PointerTypes
      <4>3. pointers = <<>> /\ pointers' = <<f>> /\ pointers' # <<>>
        BY <2>4, <4>2 DEF PointerTypes
      <4>4. longPress' = [id |-> f, armed |-> TRUE] /\ longPress'.id = f
        BY <3>1 DEF FirstDown
      <4>5. drag' = Absent /\ ~scroll'
        BY <3>1, <4>1, <4>3, NoPointers DEF FirstDown, Followed, PointerTypes
      <4> QED
        BY <1>0, <1>3, <2>4, <3>2, <4>1, <4>2, <4>3, <4>4, <4>5 DEF Followed, Owing, PointerTypes
    <3> QED
      BY <3>2, <3>3, <3>4
  <2> QED
    BY <2>3, <2>4
<1> QED
  BY <1>2, <1>3 DEF PointerTypes

LEMMA ButtonDownKeeps ==
  ASSUME PointerInv, NEW b \in Buttons, ButtonDown(b)
  PROVE  PointerInv'
<1> USE DEF PointerInv
<1>0. /\ Mouse \in Pointers /\ Mouse \notin Fingers
      /\ UNCHANGED <<paused, inputMode, touching, pendingMove>> /\ buttons' = buttons \cup {b}
  BY PointerAssumption DEF ButtonDown, Pointers, queue
<1>1. careless' \in BOOLEAN /\ (~careless' => ~careless /\ buttons = {} /\ touching = {})
  BY DEF ButtonDown, PointerTypes
<1>2. CASE paused \/ buttons # {}
  <2>1. UNCHANGED <<pointers, at, gesture, sent>>
    BY <1>2 DEF ButtonDown
  <2>2. Mapped' = Mapped
    BY <2>1 DEF Mapped
  <2>3. SentInv' /\ host' = host
    BY <2>1 DEF sent, SentInv, Out
  <2> QED
    BY <1>0, <1>1, <1>2, <2>1, <2>2, <2>3 DEF PointerTypes, Followed, gesture, Owing
<1>3. CASE ~paused /\ buttons = {}
  <2>1. HandleDown(Mouse, b, at[Mouse]) /\ at[Mouse] \in Spots
    BY <1>0, <1>3 DEF ButtonDown, PointerTypes
  <2>2. /\ pointers' \in Seq(Pointers) /\ at' \in [Pointers -> Spots]
        /\ Mouse \notin Mapped => pointers' = Append(pointers, Mouse)
        /\ Mouse \in Mapped => pointers' = pointers
    BY <1>0, <2>1 DEF HandleDown, PointerTypes
  <2>3. CASE Len(pointers') >= 2
    <3>1. SecondDown(Mouse)
      BY <2>1, <2>3 DEF HandleDown
    <3>2. SentInv' /\ host' = host
      BY <3>1 DEF SecondDown, sent, SentInv, Out
    <3>3. PointerTypes'
      BY <1>0, <1>1, <2>2, <3>1 DEF SecondDown, PointerTypes
    <3>4. ASSUME ~careless' PROVE FALSE
      <4>1. Followed /\ Mapped = {} /\ Mouse \notin Mapped
        BY <1>1, <1>3, <3>4 DEF Followed
      <4>2. Len(pointers') = Len(pointers) + 1 /\ Len(pointers) \in Nat
        BY <1>0, <2>2, <4>1, AppendPointer DEF PointerTypes
      <4>3. 1 \in DOMAIN pointers
        BY <2>3, <4>2 DEF PointerTypes
      <4> QED
        BY <4>1, <4>3 DEF Mapped
    <3> QED
      BY <3>2, <3>3, <3>4
  <2>4. CASE ~(Len(pointers') >= 2)
    <3>1. FirstDown(Mouse, b, at[Mouse])
      BY <2>1, <2>4 DEF HandleDown
    <3>2. SentInv' /\ host'.held = host.held \cup {b}
      BY <1>0, <2>1, <3>1, SendingKeeps DEF FirstDown
    <3>3. PointerTypes'
      <4>1. longPress' = longPress
        BY <1>0, <3>1 DEF FirstDown
      <4>2. tracker' = tracker
        BY <1>0, <3>1 DEF FirstDown
      <4>3. UNCHANGED <<twoTap, scroll, drag>>
        BY <3>1 DEF FirstDown
      <4>4. /\ longPress' \in [id : Fingers, armed : BOOLEAN] \cup {Absent}
            /\ tracker' \in [id : Pointers, moved : BOOLEAN] \cup {Absent}
        BY <4>1, <4>2 DEF PointerTypes
      <4> QED
        BY <1>0, <1>1, <2>2, <4>3, <4>4 DEF PointerTypes
    <3>4. ASSUME ~careless' PROVE Followed'
      <4>1. ~careless /\ Followed /\ touching = {} /\ Mapped = {} /\ Mouse \notin Mapped
        BY <1>1, <1>3, <3>4 DEF Followed
      <4>2. pointers = <<>>
        <5>1. Len(pointers) \in Nat /\ DOMAIN pointers = 1..Len(pointers)
          BY DEF PointerTypes
        <5>2. 1 \notin DOMAIN pointers
          BY <4>1 DEF Mapped
        <5> QED
          BY <5>1, <5>2 DEF PointerTypes
      <4>3. /\ Mapped' = {Mouse} /\ pointers' = <<Mouse>> /\ Len(pointers') = 1
            /\ \A i, j \in DOMAIN pointers' : pointers'[i] = pointers'[j] => i = j
        BY <1>0, <2>2, <4>1, <4>2, AppendPointer DEF Followed, PointerTypes
      <4>4. drag = Absent /\ longPress = Absent /\ ~scroll
        BY <4>1, <4>2, NoPointers DEF Followed, PointerTypes
      <4>5. drag' = Absent /\ longPress' = Absent /\ ~scroll'
        BY <1>0, <3>1, <4>4 DEF FirstDown
      <4>6. host.held = {}
        BY <1>3, <4>1, <4>2, <4>4 DEF Followed, Owing
      <4>7. buttons' = {b} /\ host'.held = {b} /\ Owing' = buttons'
        BY <1>0, <1>3, <3>2, <4>6 DEF Owing
      <4>8. scroll' <=> Len(pointers') >= 2
        <5>1. ~(Len(pointers') >= 2)
          BY <4>3
        <5> QED
          BY <4>5, <5>1
      <4>9. Mapped' = (IF paused THEN {} ELSE touching \cup (IF buttons = {} THEN {} ELSE {Mouse}))'
        BY <1>0, <1>3, <4>1, <4>3, <4>7
      <4>10. touching' = {} /\ \A c, d \in buttons' : c = d
        BY <1>0, <4>1, <4>7
      <4> QED
        BY <4>3, <4>5, <4>7, <4>8, <4>9, <4>10 DEF Followed
    <3> QED
      BY <3>2, <3>3, <3>4
  <2> QED
    BY <2>3, <2>4
<1> QED
  BY <1>2, <1>3 DEF PointerTypes

LEMMA HeadPointer ==
  ASSUME NEW rest \in Seq(Pointers), rest # <<>>
  PROVE  Head(rest) \in Pointers /\ Len(rest) \in Nat \ {0}
OBVIOUS

LEMMA ScrollEndsKeeps ==
  ASSUME PointerTypes, SentInv, NEW p \in Pointers, NEW rest \in Seq(Pointers), ScrollEnds(p, rest)
  PROVE  /\ SentInv' /\ drag' = drag /\ scroll' = FALSE /\ twoTap' \in BOOLEAN
         /\ tracker' \in [id : Pointers, moved : BOOLEAN] \cup {Absent}
         /\ inputMode = "pointer" => host'.held \subseteq host.held
         /\ host'.held \subseteq host.held \cup {"left"}
<1>0. {"left", "right"} \subseteq Buttons /\ drag' = drag /\ scroll' = FALSE
  BY DEF Buttons, ScrollEnds
<1>1. CASE rest = <<>>
  <2>1. UNCHANGED <<twoTap, tracker, sent>>
    BY <1>1 DEF ScrollEnds
  <2>2. SentInv' /\ host' = host
    BY <2>1 DEF sent, SentInv, Out
  <2> QED
    BY <1>0, <2>1, <2>2 DEF PointerTypes
<1>2. CASE rest # <<>> /\ inputMode = "pointer"
  <2>1. Head(rest) \in Pointers /\ Target(Head(rest)) \in Spots
    BY <1>2, HeadPointer, TargetSpot
  <2>2. twoTap' = FALSE /\ tracker' = [id |-> Head(rest), moved |-> TRUE]
    BY <1>2 DEF ScrollEnds
  <2>3. UNCHANGED sent \/ Sends(Click(Out, "right", Target(Head(rest))))
    BY <1>2 DEF ScrollEnds
  <2>4. SentInv' /\ host'.held \subseteq host.held
    BY <1>0, <2>1, <2>3, SendingKeeps
  <2> QED
    BY <1>0, <2>1, <2>2, <2>4
<1>3. CASE rest # <<>> /\ inputMode # "pointer"
  <2>1. Head(rest) \in Pointers /\ at[Head(rest)] \in Spots
    BY <1>3, HeadPointer DEF PointerTypes
  <2>2. UNCHANGED <<twoTap, tracker>> /\ Sends(Press(MoveTo(Out, at[Head(rest)]), "left", at[Head(rest)]))
    BY <1>3 DEF ScrollEnds
  <2>3. SentInv' /\ host'.held = host.held \cup {"left"}
    BY <1>0, <2>1, <2>2, SendingKeeps
  <2> QED
    BY <1>0, <1>3, <2>2, <2>3 DEF PointerTypes
<1> QED
  BY <1>1, <1>2, <1>3

LEMMA LiftedKeeps ==
  ASSUME PointerTypes, SentInv, NEW p \in Pointers, NEW b \in Buttons, LiftedAlone(p, b)
  PROVE  /\ SentInv' /\ UNCHANGED <<scroll, twoTap>>
         /\ drag' = drag \/ (drag = p /\ drag' = Absent)
         /\ tracker' \in [id : Pointers, moved : BOOLEAN] \cup {Absent}
         /\ host'.held \subseteq host.held
         /\ p = Mouse => host'.held = host.held \ {b}
         /\ p # Mouse /\ Without(p) = <<>> /\ inputMode # "pointer" => host'.held = host.held \ {"left"}
         /\ p # Mouse /\ Without(p) = <<>> /\ inputMode = "pointer" /\ drag = p =>
              drag' = Absent /\ host'.held = host.held \ {"left"}
<1>0. "left" \in Buttons /\ Target(p) \in Spots /\ UNCHANGED <<scroll, twoTap>>
  BY TargetSpot DEF Buttons, LiftedAlone
<1>1. CASE p = Mouse
  <2>1. Sends(Release(Out, b)) /\ UNCHANGED <<tracker, drag>>
    BY <1>1 DEF LiftedAlone
  <2> QED
    BY <1>0, <1>1, <2>1, SendingKeeps DEF PointerTypes
<1>2. CASE p # Mouse /\ Without(p) # <<>>
  <2>1. UNCHANGED <<tracker, drag, sent>>
    BY <1>2 DEF LiftedAlone
  <2>2. SentInv' /\ host' = host
    BY <2>1 DEF sent, SentInv, Out
  <2> QED
    BY <1>0, <1>2, <2>1, <2>2 DEF PointerTypes
<1>3. CASE p # Mouse /\ Without(p) = <<>> /\ inputMode = "pointer" /\ drag = p
  <2>1. Drop(p)
    BY <1>3 DEF LiftedAlone
  <2> QED
    BY <1>0, <1>3, <2>1, SendingKeeps DEF Drop, PointerTypes
<1>4. CASE p # Mouse /\ Without(p) = <<>> /\ inputMode = "pointer" /\ drag # p
  <2>1. Tap(p)
    BY <1>4 DEF LiftedAlone
  <2>2. UNCHANGED sent \/ Sends(Click(Out, "left", Target(p)))
    BY <2>1 DEF Tap
  <2> QED
    BY <1>0, <1>4, <2>1, <2>2, SendingKeeps DEF Tap
<1>5. CASE p # Mouse /\ Without(p) = <<>> /\ inputMode # "pointer"
  <2>1. Sends(Release(Out, "left")) /\ UNCHANGED <<tracker, drag>>
    BY <1>5 DEF LiftedAlone
  <2> QED
    BY <1>0, <1>5, <2>1, SendingKeeps DEF PointerTypes
<1> QED
  BY <1>1, <1>2, <1>3, <1>4, <1>5

\* What is left of a gesture when one of its pointers ends.
LEMMA EndKeeps ==
  ASSUME PointerTypes, SentInv, NEW p \in Mapped, NEW b \in Buttons, HandleEnd(p, b)
  PROVE  /\ pointers' = Without(p) /\ pointers' \in Seq(Pointers) /\ p \in Pointers
         /\ Len(pointers') = Len(pointers) - 1
         /\ longPress' = (IF longPress # Absent /\ longPress.id = p THEN Absent ELSE longPress)
         /\ SentInv' /\ twoTap' \in BOOLEAN /\ scroll' \in BOOLEAN
         /\ tracker' \in [id : Pointers, moved : BOOLEAN] \cup {Absent}
         /\ drag' = drag \/ (drag = p /\ drag' = Absent)
         /\ \/ scroll /\ Len(pointers') >= 2 /\ UNCHANGED <<scroll, drag, host>>
            \/ scroll /\ Len(pointers') < 2 /\ ScrollEnds(p, Without(p))
            \/ ~scroll /\ LiftedAlone(p, b)
<1>1. p \in Pointers
  BY DEF Mapped, PointerTypes
<1>2. /\ pointers' = Without(p) /\ pointers' \in Seq(Pointers) /\ Len(pointers') = Len(pointers) - 1
      /\ longPress' = IF longPress # Absent /\ longPress.id = p THEN Absent ELSE longPress
  BY WithoutPointer DEF HandleEnd, PointerTypes
<1>3. CASE scroll /\ Len(Without(p)) >= 2
  <2>1. UNCHANGED <<scroll, twoTap, tracker, drag, sent>>
    <3>1. Len(Without(p)) \in Nat
      BY <1>2
    <3>2. ~(Len(Without(p)) < 2)
      BY <1>3, <3>1
    <3> QED
      BY <1>3, <3>2 DEF HandleEnd
  <2>2. SentInv' /\ host' = host
    BY <2>1 DEF sent, SentInv, Out
  <2> QED
    BY <1>1, <1>2, <1>3, <2>1, <2>2 DEF PointerTypes
<1>4. CASE scroll /\ Len(Without(p)) < 2
  <2>1. ScrollEnds(p, Without(p))
    BY <1>2, <1>4 DEF HandleEnd
  <2> QED
    BY <1>1, <1>2, <1>4, <2>1, ScrollEndsKeeps
<1>5. CASE ~scroll
  <2>1. LiftedAlone(p, b)
    BY <1>5 DEF HandleEnd
  <2> QED
    BY <1>1, <1>2, <1>5, <2>1, LiftedKeeps DEF PointerTypes
<1> QED
  BY <1>2, <1>3, <1>4, <1>5 DEF PointerTypes

LEMMA FingerUpKeeps ==
  ASSUME PointerInv, NEW f \in Fingers, FingerUp(f)
  PROVE  PointerInv'
<1> USE DEF PointerInv
<1>0. /\ f \in Pointers /\ f # Mouse /\ Absent # f /\ "left" \in Buttons /\ f \in touching
      /\ UNCHANGED <<paused, inputMode, buttons, at, pendingMove, careless>> /\ touching' = touching \ {f}
  BY PointerAssumption DEF FingerUp, Pointers, Buttons, queue
<1>1. CASE paused \/ f \notin Mapped
  <2>1. UNCHANGED <<pointers, gesture, sent>>
    BY <1>1 DEF FingerUp, HandleEnd
  <2>2. Mapped' = Mapped
    BY <2>1 DEF Mapped
  <2>3. SentInv' /\ host' = host
    BY <2>1 DEF sent, SentInv, Out
  <2> QED
    BY <1>0, <1>1, <2>1, <2>2, <2>3 DEF PointerTypes, Followed, gesture, Owing
<1>2. CASE ~paused /\ f \in Mapped
  <2>1. HandleEnd(f, "left")
    BY <1>2 DEF FingerUp
  <2>2. /\ pointers' = Without(f) /\ pointers' \in Seq(Pointers) /\ Len(pointers') = Len(pointers) - 1
        /\ longPress' = (IF longPress # Absent /\ longPress.id = f THEN Absent ELSE longPress)
        /\ SentInv' /\ twoTap' \in BOOLEAN /\ scroll' \in BOOLEAN
        /\ tracker' \in [id : Pointers, moved : BOOLEAN] \cup {Absent}
        /\ drag' = drag \/ (drag = f /\ drag' = Absent)
        /\ \/ scroll /\ Len(pointers') >= 2 /\ UNCHANGED <<scroll, drag, host>>
           \/ scroll /\ Len(pointers') < 2 /\ ScrollEnds(f, Without(f))
           \/ ~scroll /\ LiftedAlone(f, "left")
    BY <1>0, <1>2, <2>1, EndKeeps
  <2>3. PointerTypes'
    BY <1>0, <2>2 DEF PointerTypes
  <2>4. ASSUME ~careless PROVE Followed'
    <3>1. /\ Followed /\ buttons = {} /\ Mapped = touching
      BY <1>0, <1>2, <2>4 DEF Followed
    <3>2. /\ Mapped' = Mapped \ {f} /\ Len(pointers) \in Nat
          /\ \A i, j \in DOMAIN pointers' : pointers'[i] = pointers'[j] => i = j
      <4>1. Mapped' = {pointers'[i] : i \in DOMAIN pointers'}
        BY DEF Mapped
      <4> QED
        BY <1>2, <2>2, <3>1, <4>1, WithoutPointer DEF Followed, PointerTypes
    <3>3. Mapped' = IF paused THEN {} ELSE touching' \cup (IF buttons = {} THEN {} ELSE {Mouse})
      BY <1>0, <1>2, <3>1, <3>2
    <3>4. CASE scroll
      <4>1. Len(pointers) >= 2 /\ longPress = Absent /\ drag = Absent
        <5>1. Len(pointers) >= 2
          BY <3>1, <3>4 DEF Followed
        <5>2. \A p : pointers # <<p>>
          <6> SUFFICES ASSUME NEW p, pointers = <<p>> PROVE FALSE
              OBVIOUS
          <6>1. Len(pointers) = 1
            BY NoPointers
          <6> QED
            BY <5>1, <6>1
        <5> QED
          BY <3>1, <5>1, <5>2 DEF Followed
      <4>2. longPress' = Absent /\ drag' = Absent
        BY <1>0, <2>2, <4>1
      <4>3. /\ scroll' <=> Len(pointers') >= 2
            /\ inputMode = "pointer" => host'.held \subseteq host.held
            /\ host'.held \subseteq host.held \cup {"left"}
        <5>1. CASE Len(pointers') >= 2
          <6>1. Len(pointers') \in Nat
            BY <2>2
          <6>2. ~(Len(pointers') < 2)
            BY <5>1, <6>1
          <6>3. UNCHANGED <<scroll, host>>
            BY <2>2, <3>4, <6>2
          <6> QED
            BY <3>4, <5>1, <6>3
        <5>2. CASE ~(Len(pointers') >= 2)
          <6>1. ScrollEnds(f, Without(f)) /\ Without(f) \in Seq(Pointers)
            BY <2>2, <3>4, <5>2
          <6> QED
            BY <1>0, <5>2, <6>1, ScrollEndsKeeps
        <5> QED
          BY <5>1, <5>2
      <4>4. pointers # <<>> /\ pointers' # <<>>
        BY <2>2, <4>1, NoPointers
      <4>5. host'.held \subseteq Owing'
        <5>1. host.held \subseteq IF inputMode = "touch" THEN {"left"} ELSE {}
          BY <1>2, <3>1, <4>1, <4>4 DEF Followed, Owing
        <5>2. inputMode \in {"touch", "pointer"}
          BY DEF PointerTypes
        <5> QED
          BY <1>0, <1>2, <3>1, <4>2, <4>3, <4>4, <5>1, <5>2 DEF Owing
      <4> QED
        BY <1>0, <3>1, <3>2, <3>3, <4>2, <4>3, <4>5 DEF Followed
    <3>5. CASE ~scroll
      <4>1. LiftedAlone(f, "left")
        BY <2>2, <3>5
      <4>2. Len(pointers) < 2 /\ Len(pointers) # 0
        BY <1>2, <3>1, <3>5 DEF Followed, Mapped, PointerTypes
      <4>3. Len(pointers') = 0 /\ pointers' = <<>>
        BY <2>2, <3>2, <4>2
      <4>4. longPress # Absent => longPress.id = f
        BY <1>2, <3>1 DEF Followed, Mapped
      <4>5. drag # Absent => drag = f /\ inputMode = "pointer"
        BY <1>2, <3>1 DEF Followed, Mapped
      <4>6. /\ ~scroll' /\ host'.held \subseteq host.held
            /\ inputMode # "pointer" => host'.held = host.held \ {"left"}
            /\ inputMode = "pointer" /\ drag = f => drag' = Absent /\ host'.held = host.held \ {"left"}
        BY <1>0, <2>2, <3>5, <4>1, <4>3, LiftedKeeps
      <4>7. longPress' = Absent /\ drag' = Absent
        BY <2>2, <4>4, <4>5, <4>6
      <4>8. host.held \subseteq {"left"} /\ (host.held # {} => inputMode # "pointer" \/ drag = f)
        BY <1>2, <3>1, <4>5 DEF Followed, Owing, PointerTypes
      <4>9. host'.held = {}
        BY <4>6, <4>8
      <4> QED
        BY <1>0, <3>1, <3>2, <3>3, <4>3, <4>6, <4>7, <4>9 DEF Followed
    <3> QED
      BY <3>4, <3>5
  <2> QED
    BY <1>0, <2>2, <2>3, <2>4
<1> QED
  BY <1>1, <1>2

LEMMA ButtonUpKeeps ==
  ASSUME PointerInv, NEW b \in Buttons, ButtonUp(b)
  PROVE  PointerInv'
<1> USE DEF PointerInv
<1>0. /\ Mouse \in Pointers /\ Mouse \notin Fingers /\ Mouse # Absent /\ b \in buttons
      /\ UNCHANGED <<paused, inputMode, touching, at, pendingMove, careless>> /\ buttons' = buttons \ {b}
  BY PointerAssumption DEF ButtonUp, Pointers, queue
<1>1. CASE paused \/ buttons # {b} \/ Mouse \notin Mapped
  <2>1. UNCHANGED <<pointers, gesture, sent>>
    BY <1>1 DEF ButtonUp, HandleEnd
  <2>2. Mapped' = Mapped
    BY <2>1 DEF Mapped
  <2>3. SentInv' /\ host' = host
    BY <2>1 DEF sent, SentInv, Out
  <2>4. PointerTypes'
    BY <1>0, <2>1 DEF PointerTypes, gesture
  <2>5. ASSUME ~careless PROVE Followed'
    <3>1. Followed /\ buttons = {b} /\ paused
      BY <1>0, <1>1, <2>5 DEF Followed
    <3> QED
      BY <1>0, <2>1, <2>2, <2>3, <3>1 DEF Followed, gesture, Owing
  <2> QED
    BY <1>0, <2>3, <2>4, <2>5
<1>2. CASE ~paused /\ buttons = {b} /\ Mouse \in Mapped
  <2>1. HandleEnd(Mouse, b)
    BY <1>2 DEF ButtonUp
  <2>2. /\ pointers' = Without(Mouse) /\ pointers' \in Seq(Pointers) /\ Len(pointers') = Len(pointers) - 1
        /\ longPress' = (IF longPress # Absent /\ longPress.id = Mouse THEN Absent ELSE longPress)
        /\ SentInv' /\ twoTap' \in BOOLEAN /\ scroll' \in BOOLEAN
        /\ tracker' \in [id : Pointers, moved : BOOLEAN] \cup {Absent}
        /\ drag' = drag \/ (drag = Mouse /\ drag' = Absent)
        /\ \/ scroll /\ Len(pointers') >= 2 /\ UNCHANGED <<scroll, drag, host>>
           \/ scroll /\ Len(pointers') < 2 /\ ScrollEnds(Mouse, Without(Mouse))
           \/ ~scroll /\ LiftedAlone(Mouse, b)
    BY <1>0, <1>2, <2>1, EndKeeps
  <2>3. PointerTypes'
    BY <1>0, <2>2 DEF PointerTypes
  <2>4. ASSUME ~careless PROVE Followed'
    <3>1. Followed /\ touching = {} /\ Mapped = {Mouse}
      BY <1>0, <1>2, <2>4 DEF Followed
    <3>2. /\ Mapped' = {} /\ Len(pointers) \in Nat
          /\ \A i, j \in DOMAIN pointers' : pointers'[i] = pointers'[j] => i = j
      <4>1. Mapped' = {pointers'[i] : i \in DOMAIN pointers'}
        BY DEF Mapped
      <4> QED
        BY <1>2, <2>2, <3>1, <4>1, WithoutPointer DEF Followed, PointerTypes
    <3>3. pointers' = <<>> /\ Len(pointers') = 0
      <4>1. 1 \notin DOMAIN pointers'
        BY <3>2 DEF Mapped
      <4> QED
        BY <2>2, <4>1
    <3>4. longPress = Absent /\ drag = Absent /\ ~scroll
      <4>1. longPress # Absent => longPress.id = Mouse /\ longPress.id \in Fingers
        BY <1>2, <3>1 DEF Followed, Mapped, PointerTypes
      <4>2. drag # Absent => drag = Mouse /\ drag \in Fingers
        BY <1>2, <3>1 DEF Followed, Mapped, PointerTypes
      <4>3. ~(Len(pointers) >= 2)
        <5>1. Len(pointers') = Len(pointers) - 1 /\ Len(pointers') = 0
          BY <2>2, <3>3
        <5>2. Len(pointers) = 1
          BY <3>2, <5>1
        <5> QED
          BY <5>2
      <4> QED
        BY <1>0, <3>1, <4>1, <4>2, <4>3 DEF Followed
    <3>5. longPress' = Absent /\ drag' = Absent /\ ~scroll' /\ host'.held = host.held \ {b}
      BY <1>0, <2>2, <3>4, LiftedKeeps
    <3>6. host'.held = {} /\ buttons' = {}
      BY <1>0, <1>2, <3>1, <3>5 DEF Followed, Owing
    <3>7. Mapped' = IF paused THEN {} ELSE touching' \cup (IF buttons' = {} THEN {} ELSE {Mouse})
      BY <1>0, <3>1, <3>2, <3>6
    <3> QED
      BY <1>0, <3>1, <3>2, <3>3, <3>5, <3>6, <3>7 DEF Followed
  <2> QED
    BY <1>0, <2>2, <2>3, <2>4
<1> QED
  BY <1>0, <1>1, <1>2

LEMMA MoveKeeps ==
  ASSUME PointerInv, NEW p \in Pointers, NEW s \in Spots, NEW far \in BOOLEAN, Move(p, s, far)
  PROVE  PointerInv'
<1> USE DEF PointerInv
<1>0. /\ UNCHANGED <<paused, inputMode, touching, buttons, pointers, sent, careless>>
      /\ at' \in [Pointers -> Spots]
  BY DEF Move, HandleMove, PointerTypes
<1>1. SentInv' /\ host' = host /\ Mapped' = Mapped
  BY <1>0 DEF sent, SentInv, Out, Mapped
<1>2. /\ UNCHANGED <<scroll, drag>> /\ (longPress' = longPress \/ longPress' = Absent)
      /\ pendingMove' \in Spots \cup {Absent}
  BY DEF Move, HandleMove, gesture, queue, Travel, Wheel, PointerTypes
<1>3. twoTap' \in BOOLEAN
  <2>1. UNCHANGED twoTap \/ Travel
    BY DEF Move, HandleMove, gesture
  <2> QED
    BY <2>1 DEF Travel, PointerTypes
<1>4. tracker' \in [id : Pointers, moved : BOOLEAN] \cup {Absent}
  <2>1. UNCHANGED tracker \/ (tracker # Absent /\ tracker' = [tracker EXCEPT !.moved = @ \/ far])
    BY DEF Move, HandleMove, gesture
  <2> QED
    BY <2>1 DEF PointerTypes
<1>5. PointerTypes'
  BY <1>0, <1>2, <1>3, <1>4 DEF PointerTypes
<1>6. ASSUME ~careless PROVE Followed'
  BY <1>0, <1>1, <1>2, <1>6 DEF Followed, Owing
<1> QED
  BY <1>0, <1>1, <1>5, <1>6

\* Whoever touches alone is neither paused nor does he hold the mouse.
LEMMA AloneTouches ==
  ASSUME PointerTypes, Followed, NEW f \in Fingers, pointers = <<f>>
  PROVE  /\ ~paused /\ f \in touching /\ buttons = {}
<1>1. f \in Mapped
  BY DEF Mapped
<1>2. f # Mouse
  BY PointerAssumption
<1> QED
  BY <1>1, <1>2 DEF Followed

\* Without fingers and buttons nothing is left of a gesture.
LEMMA NobodyTouches ==
  ASSUME PointerTypes, Followed, touching = {}
  PROVE  /\ longPress = Absent /\ drag = Absent
         /\ buttons = {} => pointers = <<>> /\ Mapped = {} /\ Owing = {}
<1>1. longPress = Absent /\ drag = Absent
  BY AloneTouches DEF Followed, PointerTypes
<1>2. ASSUME buttons = {} PROVE pointers = <<>> /\ Mapped = {} /\ Owing = {}
  <2>1. Mapped = {}
    BY <1>2 DEF Followed
  <2>2. 1 \notin DOMAIN pointers
    BY <2>1 DEF Mapped
  <2>3. pointers = <<>>
    BY <2>2 DEF PointerTypes
  <2> QED
    BY <1>1, <1>2, <2>1, <2>3 DEF Owing
<1> QED
  BY <1>1, <1>2

LEMMA LongPressKeeps == ASSUME PointerInv, LongPressFires PROVE PointerInv'
<1> USE DEF PointerInv
<1> DEFINE f == longPress.id
<1>0. /\ longPress # Absent /\ f \in Fingers /\ f \in Pointers /\ {"left", "right"} \subseteq Buttons
      /\ UNCHANGED <<paused, inputMode, touching, buttons, pointers, at, twoTap, scroll,
                     pendingMove, careless>>
  BY DEF LongPressFires, PointerTypes, Pointers, Buttons, queue
<1>1. Target(f) \in Spots /\ at[f] \in Spots /\ Mapped' = Mapped
  BY <1>0, TargetSpot DEF PointerTypes, Mapped
<1>2. /\ longPress' = [longPress EXCEPT !.armed = FALSE]
      /\ longPress' \in [id : Fingers, armed : BOOLEAN] /\ longPress'.id = f
  BY <1>0 DEF LongPressFires, PointerTypes
<1>3. tracker' \in [id : Pointers, moved : BOOLEAN] \cup {Absent}
  <2>1. tracker' = tracker \/ (tracker # Absent /\ tracker' = [tracker EXCEPT !.moved = TRUE])
    BY DEF LongPressFires
  <2> QED
    BY <2>1 DEF PointerTypes
<1>4. CASE inputMode = "pointer"
  <2>1. Sends(Press(MoveTo(Out, Target(f)), "left", Target(f))) /\ drag' = f
    BY <1>4 DEF LongPressFires
  <2>2. SentInv' /\ host'.held = host.held \cup {"left"}
    BY <1>0, <1>1, <2>1, SendingKeeps
  <2>3. ASSUME ~careless PROVE Followed'
    <3>1. Followed /\ pointers = <<f>> /\ ~paused /\ buttons = {} /\ f # Absent
      BY <1>0, <2>3, AloneTouches, PointerAssumption DEF Followed
    <3>2. host'.held \subseteq {"left"} /\ Owing' = {"left"}
      BY <1>0, <2>1, <2>2, <3>1 DEF Followed, Owing
    <3> QED
      BY <1>0, <1>1, <1>2, <1>4, <2>1, <3>1, <3>2 DEF Followed
  <2> QED
    BY <1>0, <1>2, <1>3, <2>1, <2>2, <2>3 DEF PointerTypes
<1>5. CASE inputMode # "pointer"
  <2>1. Sends(Click(Out, "right", at[f])) /\ drag' = drag
    BY <1>5 DEF LongPressFires
  <2>2. SentInv' /\ host'.held = host.held \ {"right"}
    BY <1>0, <1>1, <2>1, SendingKeeps
  <2>3. ASSUME ~careless PROVE Followed'
    BY <1>0, <1>1, <1>2, <2>1, <2>2, <2>3 DEF Followed, Owing
  <2> QED
    BY <1>0, <1>2, <1>3, <2>1, <2>2, <2>3 DEF PointerTypes
<1> QED
  BY <1>4, <1>5

\* What moves neither fingers nor buttons, and holds or releases nothing.
LEMMA NothingPressed ==
  ASSUME PointerInv, SentInv', host'.held = host.held, pendingMove' \in Spots \cup {Absent},
         UNCHANGED <<paused, inputMode, touching, buttons, pointers, at, gesture, careless>>
  PROVE  PointerInv'
<1>1. Mapped' = Mapped
  BY DEF Mapped
<1>2. PointerTypes'
  BY DEF PointerInv, PointerTypes, gesture
<1>3. ASSUME ~careless PROVE Followed'
  BY <1>1, <1>3 DEF PointerInv, Followed, Owing, gesture
<1> QED
  BY <1>2, <1>3 DEF PointerInv

LEMMA FlushKeeps == ASSUME PointerInv, FlushInput PROVE PointerInv'
<1> DEFINE moved == IF pendingMove = Absent THEN Out ELSE MoveTo(Out, pendingMove)
<1>1. moved \in Outputs /\ Landed(moved) /\ moved.host.held = host.held
  <2>1. Out \in Outputs /\ Landed(Out) /\ Out.host = host
    BY DEF PointerInv, SentInv, Out
  <2>2. pendingMove # Absent => pendingMove \in Spots
    BY DEF PointerInv, PointerTypes
  <2> QED
    BY <2>1, <2>2, MoveLands
<1>2. /\ pendingMove' = Absent
      /\ UNCHANGED <<paused, inputMode, touching, buttons, pointers, at, gesture, careless>>
      /\ \/ Sends(moved)
         \/ \E s \in Spots : Sends([moved EXCEPT !.host.at = s, !.cursor = s, !.strayed = TRUE])
  BY DEF FlushInput
<1> HIDE DEF moved
<1>3. SentInv' /\ host'.held = host.held
  <2>1. CASE Sends(moved)
    BY <1>1, <2>1, SendsOut
  <2>2. CASE \E s \in Spots : Sends([moved EXCEPT !.host.at = s, !.cursor = s, !.strayed = TRUE])
    <3>1. PICK s \in Spots : Sends([moved EXCEPT !.host.at = s, !.cursor = s, !.strayed = TRUE])
      BY <2>2
    <3> DEFINE o == [moved EXCEPT !.host.at = s, !.cursor = s, !.strayed = TRUE]
    <3>2. o \in Outputs /\ Landed(o) /\ o.host.held = host.held
      BY <1>1 DEF Outputs, Landed
    <3> HIDE DEF o
    <3>3. Sends(o)
      BY <3>1 DEF o
    <3> QED
      BY <3>2, <3>3, SendsOut
  <2> QED
    BY <1>2, <2>1, <2>2
<1> QED
  BY <1>2, <1>3, NothingPressed

LEMMA HostMovesKeeps == ASSUME PointerInv, NEW s \in Spots, HostMoves(s) PROVE PointerInv'
<1>1. SentInv' /\ host'.held = host.held
  BY DEF HostMoves, PointerInv, SentInv, Out, Outputs, Landed
<1>2. /\ pendingMove' \in Spots \cup {Absent}
      /\ UNCHANGED <<paused, inputMode, touching, buttons, pointers, at, gesture, careless>>
  BY DEF HostMoves, queue, PointerInv, PointerTypes
<1> QED
  BY <1>1, <1>2, NothingPressed

LEMMA ScrollKeeps == ASSUME PointerInv, NEW k, Scroll(k) PROVE PointerInv'
<1>1. SentInv' /\ host'.held = host.held
  BY DEF Scroll, sent, PointerInv, SentInv, Out
<1>2. /\ pendingMove' \in Spots \cup {Absent}
      /\ UNCHANGED <<paused, inputMode, touching, buttons, pointers, at, gesture, careless>>
  BY DEF Scroll, PointerInv, PointerTypes
<1> QED
  BY <1>1, <1>2, NothingPressed

LEMMA SetModeKeeps ==
  ASSUME PointerInv, NEW m \in {"touch", "pointer"}, SetMode(m) PROVE PointerInv'
<1> USE DEF PointerInv
<1>1. /\ UNCHANGED <<paused, touching, buttons, pointers, at, gesture, queue, sent, owed>>
      /\ inputMode' = m /\ careless' \in BOOLEAN /\ (~careless' => ~careless /\ touching = {})
  BY DEF SetMode, PointerTypes
<1>2. SentInv' /\ host' = host /\ Mapped' = Mapped
  BY <1>1 DEF sent, SentInv, Out, Mapped
<1>3. PointerTypes'
  BY <1>1 DEF PointerTypes, gesture, queue
<1>4. ASSUME ~careless' PROVE Followed'
  <2>1. /\ Followed /\ longPress = Absent /\ drag = Absent
        /\ buttons = {} => pointers = <<>> /\ Owing = {}
    BY <1>1, <1>4, NobodyTouches
  <2>2. Owing' = Owing
    BY <1>1, <2>1 DEF Owing, gesture
  <2> QED
    BY <1>1, <1>2, <2>1, <2>2 DEF Followed, gesture
<1> QED
  BY <1>2, <1>3, <1>4

LEMMA PauseKeeps == ASSUME PointerInv, NEW v \in BOOLEAN, PausePointers(v) PROVE PointerInv'
<1> USE DEF PointerInv
<1>1. /\ UNCHANGED <<inputMode, touching, buttons, pointers, at, gesture, queue, sent, owed>>
      /\ paused' = v /\ careless' \in BOOLEAN
      /\ (~careless' => ~careless /\ touching = {} /\ buttons = {})
  BY DEF PausePointers, PointerTypes
<1>2. SentInv' /\ host' = host /\ Mapped' = Mapped
  BY <1>1 DEF sent, SentInv, Out, Mapped
<1>3. PointerTypes'
  BY <1>1 DEF PointerTypes, gesture, queue
<1>4. ASSUME ~careless' PROVE Followed'
  <2>1. Followed /\ longPress = Absent /\ drag = Absent /\ pointers = <<>> /\ Mapped = {} /\ Owing = {}
    BY <1>1, <1>4, NobodyTouches
  <2>2. /\ pointers' = pointers /\ drag' = Absent /\ longPress' = Absent /\ scroll' = scroll
        /\ touching' = {} /\ buttons' = {} /\ Mapped' = {} /\ host' = host
    BY <1>1, <1>2, <1>4, <2>1 DEF gesture
  <2>3. Owing' = {}
    BY <2>1, <2>2 DEF Owing
  <2>4. Mapped' = (IF paused THEN {} ELSE touching \cup (IF buttons = {} THEN {} ELSE {Mouse}))'
    BY <2>2
  <2> QED
    BY <2>1, <2>2, <2>3, <2>4 DEF Followed
<1> QED
  BY <1>2, <1>3, <1>4

LEMMA PointerInvNext ==
  ASSUME PointerInv, \/ PointerNext
                     \/ UNCHANGED pointerVars
                     \/ \E v \in BOOLEAN : PausePointers(v)
  PROVE  PointerInv'
<1>1. CASE UNCHANGED pointerVars
  <2>1. SentInv' /\ host' = host /\ pendingMove' = pendingMove
    BY <1>1 DEF pointerVars, sent, queue, PointerInv, SentInv, Out
  <2>2. pendingMove' \in Spots \cup {Absent}
    BY <2>1 DEF PointerInv, PointerTypes
  <2> QED
    BY <1>1, <2>1, <2>2, NothingPressed DEF pointerVars
<1>2. CASE \E v \in BOOLEAN : PausePointers(v)
  BY <1>2, PauseKeeps
<1>3. CASE PointerNext
  BY <1>3, FingerDownKeeps, FingerUpKeeps, ButtonDownKeeps, ButtonUpKeeps, MoveKeeps, ScrollKeeps,
     LongPressKeeps, FlushKeeps, HostMovesKeeps, SetModeKeeps DEF PointerNext
<1> QED
  BY <1>1, <1>2, <1>3

LEMMA NothingHeld == PointerInv => ButtonsReleased /\ PressesLand
BY NobodyTouches DEF PointerInv, ButtonsReleased, Idle, PressesLand, SentInv, Landed, Out, Followed

-----------------------------------------------------------------------------
(* The queue of moves and wheel steps.                                       *)

QueueInv == pendingWheel \in Int /\ frame \in BOOLEAN /\ QueueFlows

LEMMA QueueInvNext ==
  ASSUME QueueInv, \/ PointerNext
                   \/ UNCHANGED pointerVars
                   \/ \E v \in BOOLEAN : PausePointers(v)
  PROVE  QueueInv'
<1>1. CASE UNCHANGED <<queue, owed>>
  BY <1>1 DEF QueueInv, QueueFlows, queue
<1>2. ASSUME NEW p \in Pointers, NEW s \in Spots, NEW far \in BOOLEAN, Move(p, s, far)
      PROVE  QueueInv'
  <2>1. CASE Travel
    <3>1. CASE UNCHANGED <<queue, owed>>
      BY <1>1, <3>1
    <3>2. CASE \E k \in {-1, 0, 1} :
                 Wheel(k) /\ frame' = (frame \/ pendingWheel' # 0) /\ UNCHANGED <<pendingMove, pendingRel>>
      <4>1. PICK k \in {-1, 0, 1} :
              Wheel(k) /\ frame' = (frame \/ pendingWheel' # 0) /\ UNCHANGED <<pendingMove, pendingRel>>
        BY <3>2
      <4>2. pendingWheel' \in Int /\ owed' = pendingWheel'
        BY <4>1 DEF Wheel, QueueInv, QueueFlows
      <4>3. frame' \in BOOLEAN /\ (frame' <=> frame \/ pendingWheel' # 0)
        BY <4>1 DEF QueueInv
      <4> QED
        BY <4>1, <4>2, <4>3 DEF QueueInv, QueueFlows
    <3> QED
      BY <2>1, <3>1, <3>2 DEF Travel
  <2>2. CASE UNCHANGED <<pendingWheel, owed>> /\ (frame' = TRUE \/ UNCHANGED queue)
    <3>1. CASE UNCHANGED queue
      BY <1>1, <2>2, <3>1
    <3>2. CASE frame' = TRUE
      <4>1. frame' \in BOOLEAN /\ frame'
        BY <3>2
      <4> QED
        BY <2>2, <4>1 DEF QueueInv, QueueFlows
    <3> QED
      BY <2>2, <3>1, <3>2
  <2> QED
    BY <1>2, <2>1, <2>2 DEF Move, HandleMove, queue
<1>3. ASSUME NEW k \in -MaxWheel..MaxWheel, Scroll(k) PROVE QueueInv'
  <2>1. k \in Int
    BY PointerAssumption
  <2> QED
    BY <1>3, <2>1 DEF Scroll, Wheel, QueueInv, QueueFlows
<1>4. CASE FlushInput
  <2>1. InBurst \in Int
    BY PointerAssumption DEF InBurst, Least, QueueInv
  <2>2. /\ pendingMove' = Absent /\ pendingRel' = FALSE
        /\ pendingWheel' = pendingWheel - InBurst /\ owed' = owed - InBurst
        /\ frame' = (pendingWheel # InBurst)
    BY <1>4 DEF FlushInput
  <2>3. pendingWheel' # 0 <=> pendingWheel # InBurst
    BY <2>1, <2>2 DEF QueueInv
  <2>4. frame' \in BOOLEAN /\ (frame' <=> pendingWheel # InBurst)
    BY <2>2
  <2>5. pendingWheel' \in Int /\ owed' = pendingWheel'
    BY <2>1, <2>2 DEF QueueInv, QueueFlows
  <2> QED
    BY <2>2, <2>3, <2>4, <2>5 DEF QueueInv, QueueFlows
<1>5. CASE PointerNext
  <2>1. ASSUME NEW f \in Fingers, NEW s \in Spots, FingerDown(f, s) \/ FingerUp(f)
        PROVE  UNCHANGED <<queue, owed>>
    BY <2>1 DEF FingerDown, FingerUp
  <2>2. ASSUME NEW b \in Buttons, ButtonDown(b) \/ ButtonUp(b) PROVE UNCHANGED <<queue, owed>>
    BY <2>2 DEF ButtonDown, ButtonUp
  <2>3. ASSUME LongPressFires PROVE UNCHANGED <<queue, owed>>
    BY <2>3 DEF LongPressFires
  <2>4. ASSUME NEW s \in Spots, HostMoves(s) PROVE UNCHANGED <<queue, owed>>
    BY <2>4 DEF HostMoves
  <2>5. ASSUME NEW m, SetMode(m) PROVE UNCHANGED <<queue, owed>>
    BY <2>5 DEF SetMode
  <2>6. ASSUME NEW f \in Fingers, FingerUp(f) PROVE UNCHANGED <<queue, owed>>
    BY <2>6 DEF FingerUp
  <2> QED
    BY <1>1, <1>2, <1>3, <1>4, <1>5, <2>1, <2>2, <2>3, <2>4, <2>5, <2>6 DEF PointerNext
<1>6. CASE UNCHANGED pointerVars \/ \E v \in BOOLEAN : PausePointers(v)
  BY <1>1, <1>6 DEF pointerVars, PausePointers
<1> QED
  BY <1>5, <1>6

-----------------------------------------------------------------------------
(* The keyboard.                                                             *)

\* Every key the host holds is remembered and will be let go of, but for the characters
\* of shortcuts at a host whose platform is not known; and none is remembered while
\* nobody would.
KeysInv ==
  /\ \A k \in hostKeys : (k \in Chars /\ ~platformKnown) \/ (k \in heldKeys /\ Lets(k, {}))
  /\ ~captured \/ keysPaused => heldKeys = {}

LEMMA ReleaseLetsGo ==
  ASSUME KeysInv, ReleaseHeldKeys, platformKnown' = platformKnown
  PROVE  \A k \in hostKeys' : k \in Chars /\ ~platformKnown'
BY DEF KeysInv, ReleaseHeldKeys, ReleasedKeys

LEMMA PlatformKept == KeyboardNext => platformKnown' = platformKnown
BY DEF KeyboardNext, KeyDown, KeyUp, PointerEnter, PointerLeave, FocusPanel

LEMMA LetsAlike ==
  ASSUME NEW k \in Keys, NEW mods, k \notin Chars \/ platformKnown
  PROVE  Lets(k, mods) <=> Lets(k, {})
BY DEF Lets, BuildKeyEvent, Keys

LEMMA HoldsLets ==
  ASSUME NEW k \in Keys, NEW mods, Holds(k, mods), k \notin Chars \/ platformKnown
  PROVE  Lets(k, {})
BY DEF Holds, Lets, BuildKeyEvent, Keys

LEMMA KeysInvNext ==
  ASSUME KeysInv, \/ KeyboardNext
                  \/ UNCHANGED keyboardVars
                  \/ \E v \in BOOLEAN : PauseKeys(v)
  PROVE  KeysInv'
<1>0. \A k : platformKnown' = platformKnown => (Lets(k, {})' <=> Lets(k, {}))
  BY DEF Lets, BuildKeyEvent
<1>1. CASE UNCHANGED <<captured, keysPaused, platformKnown, heldKeys, hostKeys>>
  BY <1>0, <1>1 DEF KeysInv
<1>2. ASSUME NEW k \in Keys, KeyDown(k) PROVE KeysInv'
  <2>1. UNCHANGED <<keysPaused, captured, inPanel, platformKnown>>
    BY <1>2 DEF KeyDown
  <2>2. PICK mods : \/ /\ ShouldForwardToHost /\ heldKeys' = heldKeys \cup {k}
                       /\ hostKeys' = IF Holds(k, mods) THEN hostKeys \cup {k} ELSE hostKeys
                    \/ UNCHANGED <<hostKeys, heldKeys>>
    BY <1>2 DEF KeyDown, Remembers
  <2> QED
    BY <1>0, <1>1, <2>1, <2>2, HoldsLets DEF KeysInv, ShouldForwardToHost
<1>3. ASSUME NEW k \in Keys, KeyUp(k) PROVE KeysInv'
  <2>1. UNCHANGED <<keysPaused, captured, inPanel, platformKnown>>
    BY <1>3 DEF KeyUp
  <2>2. PICK mods : \/ /\ ShouldForwardToHost /\ heldKeys' = heldKeys \ {k}
                       /\ hostKeys' = IF Lets(k, mods) THEN hostKeys \ {k} ELSE hostKeys
                    \/ UNCHANGED <<hostKeys, heldKeys>>
    BY <1>3 DEF KeyUp
  <2> QED
    BY <1>0, <1>1, <2>1, <2>2, LetsAlike DEF KeysInv, ShouldForwardToHost
<1>4. ASSUME ReleaseHeldKeys, platformKnown' = platformKnown PROVE KeysInv'
  BY <1>4, ReleaseLetsGo DEF KeysInv, ReleaseHeldKeys
<1>5. CASE PointerEnter
  BY <1>0, <1>5 DEF PointerEnter, KeysInv
<1>6. CASE PointerLeave
  BY <1>4, <1>6 DEF PointerLeave
<1>7. CASE FocusPanel
  BY <1>1, <1>7 DEF FocusPanel
<1>8. ASSUME NEW v \in BOOLEAN, PauseKeys(v) PROVE KeysInv'
  <2>1. CASE v
    BY <1>4, <1>8, <2>1 DEF PauseKeys
  <2>2. CASE ~v
    BY <1>0, <1>8, <2>2 DEF PauseKeys, KeysInv
  <2> QED
    BY <2>1, <2>2
<1>9. CASE UNCHANGED keyboardVars
  BY <1>1, <1>9 DEF keyboardVars
<1> QED
  BY <1>2, <1>3, <1>5, <1>6, <1>7, <1>8, <1>9 DEF KeyboardNext

LEMMA NoKeyHeld == KeysInv /\ keysPaused = paused => KeysReleased
BY DEF KeysInv, KeysReleased

-----------------------------------------------------------------------------
(* The cursor.                                                               *)

\* What is shown came last or needs no URL; what still loads has a URL of its own that
\* nobody has freed or shown.
CursorInv ==
  /\ urls \in Nat /\ lastPngUrl \in 0..urls /\ revoked \subseteq 1..urls
  /\ loading \subseteq [cursor : Pngs, url : 1..urls]
  /\ \A i, j \in loading : i.url = j.url => i = j
  /\ \A i \in loading : i.url \notin revoked /\ i.url # lastPngUrl
  /\ cursorBitmap # NoCursor =>
       cursorBitmap.url \in {0, lastPngUrl} /\ cursorBitmap.url \notin revoked

LEMMA CursorInvNext == ASSUME CursorInv, [CursorNext]_cursorVars PROVE CursorInv'
<1> USE DEF CursorInv
<1>1. ASSUME NEW c \in Cursors, Decode(c) PROVE CursorInv'
  <2>1. CASE /\ c \in Pngs /\ urls' = urls + 1
             /\ loading' = loading \cup {[cursor |-> c, url |-> urls + 1]}
             /\ UNCHANGED <<cursorBitmap, lastPngUrl, revoked>>
    <3> DEFINE new == [cursor |-> c, url |-> urls + 1]
    <3>1. /\ urls' \in Nat /\ lastPngUrl' \in 0..urls' /\ revoked' \subseteq 1..urls'
          /\ new \in [cursor : Pngs, url : 1..urls'] /\ new.url = urls + 1
      BY <2>1
    <3>2. \A i \in loading : i \in [cursor : Pngs, url : 1..urls'] /\ i.url < urls + 1
      BY <2>1
    <3> QED
      BY <2>1, <3>1, <3>2
  <2>2. CASE Finish(c, 0) /\ UNCHANGED <<urls, loading>>
    BY <2>2 DEF Finish
  <2>3. CASE UNCHANGED <<cursorBitmap, lastPngUrl, revoked, urls, loading>>
    BY <2>3
  <2> QED
    BY <1>1, <2>1, <2>2, <2>3 DEF Decode
<1>2. ASSUME NEW i \in loading, ImageLoads(i) PROVE CursorInv'
  <2>1. /\ i.url \in 1..urls /\ i.url # 0 /\ i.url # lastPngUrl /\ i.url \notin revoked
        /\ loading' = loading \ {i} /\ urls' = urls
    BY <1>2 DEF ImageLoads
  <2>2. /\ revoked' \subseteq revoked \cup {lastPngUrl} /\ lastPngUrl' = i.url
        /\ revoked' \subseteq 1..urls
        /\ cursorBitmap'.url = i.url
    BY <1>2, <2>1 DEF ImageLoads, Finish
  <2>3. \A j \in loading' : j.url \notin revoked' /\ j.url # lastPngUrl'
    BY <2>1, <2>2
  <2> QED
    BY <2>1, <2>2, <2>3
<1>3. ASSUME NEW i \in loading, ImageFails(i) PROVE CursorInv'
  <2>1. /\ i.url \in 1..urls /\ i.url # 0 /\ i.url # lastPngUrl
        /\ loading' = loading \ {i} /\ revoked' = revoked \cup {i.url}
        /\ UNCHANGED <<urls, cursorBitmap, lastPngUrl>>
    BY <1>3 DEF ImageFails
  <2> QED
    BY <2>1
<1>4. CASE UNCHANGED cursorVars
  BY <1>4 DEF cursorVars
<1> QED
  BY <1>1, <1>2, <1>3, <1>4 DEF CursorNext, CursorData, CursorId

-----------------------------------------------------------------------------
(* The screen. *)

ScreenInv ==
  PointerInv /\ QueueInv /\ KeysInv /\ keysPaused = paused /\ CursorInv

LEMMA ScreenInvInit == ScreenInit => ScreenInv
<1> SUFFICES ASSUME ScreenInit PROVE ScreenInv
    OBVIOUS
<1>1. PointerInv
  BY PointerInvInit DEF ScreenInit
<1>2. QueueInv
  <2>1. pendingMove = Absent /\ ~pendingRel /\ pendingWheel = 0 /\ owed = 0 /\ frame \in BOOLEAN
    BY DEF ScreenInit, PointerInit
  <2> QED
    BY <2>1 DEF QueueInv, QueueFlows
<1>3. KeysInv /\ keysPaused = paused
  BY DEF ScreenInit, PointerInit, KeyboardInit, KeysInv
<1>4. CursorInv
  BY DEF ScreenInit, CursorInit, CursorInv
<1> QED
  BY <1>1, <1>2, <1>3, <1>4 DEF ScreenInv

LEMMA ScreenInvNext == ScreenInv /\ [ScreenNext]_screenVars => ScreenInv'
<1> SUFFICES ASSUME ScreenInv, [ScreenNext]_screenVars PROVE ScreenInv'
    OBVIOUS
<1>1. PointerNext \/ UNCHANGED pointerVars \/ \E v \in BOOLEAN : PausePointers(v)
  BY DEF ScreenNext, SetPaused, screenVars, ScreenInv, PointerInv, PointerTypes
<1>2. KeyboardNext \/ UNCHANGED keyboardVars \/ \E v \in BOOLEAN : PauseKeys(v)
  BY DEF ScreenNext, SetPaused, screenVars, ScreenInv, PointerInv, PointerTypes
<1>3. [CursorNext]_cursorVars
  BY DEF ScreenNext, SetPaused, screenVars
<1>4. PointerInv' /\ QueueInv'
  BY <1>1, PointerInvNext, QueueInvNext DEF ScreenInv
<1>5. KeysInv'
  BY <1>2, KeysInvNext DEF ScreenInv
<1>6. CursorInv'
  BY <1>3, CursorInvNext DEF ScreenInv
<1>7. keysPaused' = paused'
  <2>1. PointerNext => paused' = paused
    BY DEF PointerNext, FingerDown, ButtonDown, ButtonUp, Move, FingerUp, Scroll, LongPressFires,
           FlushInput, HostMoves, SetMode
  <2>2. KeyboardNext => keysPaused' = keysPaused
    BY DEF KeyboardNext, KeyDown, KeyUp, PointerEnter, PointerLeave, FocusPanel
  <2> QED
    BY <2>1, <2>2 DEF ScreenInv, ScreenNext, SetPaused, PausePointers, PauseKeys, screenVars,
       pointerVars, keyboardVars
<1> QED
  BY <1>4, <1>5, <1>6, <1>7 DEF ScreenInv

LEMMA ScreenAlways == ScreenSpec => []ScreenInv
BY ScreenInvInit, ScreenInvNext, PTL DEF ScreenSpec

\* A press lands where it was aimed although repeated moves are not sent.
THEOREM PressesHit == ScreenSpec => []PressesLand
<1>1. ScreenInv => PressesLand
  BY NothingHeld DEF ScreenInv
<1> QED
  BY <1>1, ScreenAlways, PTL

\* Whatever the user lets go of, and in which order, is let go of at the host: buttons,
\* keys and wheel steps; and no cursor is shown whose image was freed.
THEOREM AllIsLetGo == ScreenSpec => []NothingDangles
<1>1. ScreenInv => NothingDangles
  BY NothingHeld, NoKeyHeld DEF ScreenInv, NothingDangles, QueueInv, CursorInv, CursorDrawable
<1> QED
  BY <1>1, ScreenAlways, PTL

\* Both together: what the user does arrives.
THEOREM InputArrives == ScreenSpec => []InputHolds
<1>1. PressesLand /\ NothingDangles => InputHolds
  BY DEF InputHolds
<1> QED
  BY <1>1, PressesHit, AllIsLetGo, PTL

=============================================================================
