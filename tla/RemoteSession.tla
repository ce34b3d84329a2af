--------------------------- MODULE RemoteSession ---------------------------
(***************************************************************************)
(* The life of a remote-control session of the web client, class           *)
(* WebRustDeskSession of frontend/src/lib/rustdesk/session.ts: rendezvous  *)
(* with hbbs over one socket, the relay hbbr over another, the login on    *)
(* the controlled host with its password, second factor and approval, the  *)
(* timers that watch over these, and every way it ends.                    *)
(*                                                                         *)
(* hbbs, hbbr and the host are the environment.  They send what their      *)
(* protocol lets them send next, at any time, or nothing, and either       *)
(* socket may fail or be closed whenever it exists.  A message that does   *)
(* not parse or decrypt changes nothing but the journal.  Keys and nonces, *)
(* the picture, input and statistics are left out.                         *)
(***************************************************************************)
EXTENDS Sequences

VARIABLES
  idWs, relayWs,        \* the sockets: "none", "connecting", "open"; or "dropped"
  idDone,
  relaySessionStarted,
  hashing,              \* handleHash awaits the digest of the password
  loginSent,
  awaiting2FA,
  codeSent,             \* the host has a code that it has not judged yet
  connected, closed,
  timers,               \* which of connectTimer, relayWaitTimer, ... are armed
  emitted               \* what the last step told onEvent, in order

sessionVars == <<idWs, relayWs, idDone, relaySessionStarted, hashing, loginSent,
                 awaiting2FA, codeSent, connected, closed, timers, emitted>>

Timers == {"connect", "relayWait", "firstFrame", "approval"}

\* Events that the hook acts on.  An error is one of authentication if the page's
\* isAuthError says so of its text.
Failures == {"authError", "error"}
Events == {"connecting", "connected", "disconnected", "two-fa", "approval-pending"}
            \cup Failures

sockets == <<idWs, relayWs, idDone>>
login == <<hashing, loginSent, awaiting2FA, codeSent, connected>>

Emit(events) == emitted' = events

\* No session: what a closed one amounts to.
SessionInit ==
  /\ idWs = "none" /\ relayWs = "none" /\ idDone = FALSE
  /\ relaySessionStarted = FALSE /\ hashing = FALSE
  /\ loginSent = FALSE /\ awaiting2FA = FALSE /\ codeSent = FALSE
  /\ connected = FALSE /\ closed = TRUE
  /\ timers = {} /\ emitted = <<>>

\* A new object, and connect() on it: "connecting" is its first event.  What the
\* old one still waits for is the old one's, whose events the hook ignores.
ConnectAs(armed) ==
  /\ idWs' = "connecting" /\ relayWs' = "none" /\ idDone' = FALSE
  /\ relaySessionStarted' = FALSE /\ hashing' = FALSE
  /\ loginSent' = FALSE /\ awaiting2FA' = FALSE /\ codeSent' = FALSE
  /\ connected' = FALSE /\ closed' = FALSE
  /\ timers' = armed
  /\ Emit(<<"connecting">>)

Connect == ConnectAs({"connect"})

\* disconnect() up to its last line.
ShutDown ==
  /\ idWs' = "none" /\ relayWs' = "none"
  /\ loginSent' = FALSE /\ connected' = FALSE /\ closed' = TRUE
  /\ timers' = {}
  /\ UNCHANGED <<idDone, relaySessionStarted, hashing, awaiting2FA, codeSent>>

Disconnect == ~closed /\ ShutDown /\ Emit(<<"disconnected">>)

\* fail(): the message, then disconnect().
Fail(failure) == ShutDown /\ Emit(<<failure, "disconnected">>)

-----------------------------------------------------------------------------
(* The rendezvous. *)

IdOpen ==
  /\ idWs = "connecting"
  /\ idWs' = "open"
  /\ Emit(<<>>)
  /\ UNCHANGED <<relayWs, idDone, relaySessionStarted, login, closed, timers>>

\* handleIdMessage: the host is there (a punch_hole_response), the relay is ready
\* (a relay_response), or either message tells that it is not to be.
PunchHoleResponse ==
  /\ idWs = "open"
  /\ \/ /\ timers' = timers \cup {"relayWait"}
        /\ Emit(<<>>)
        /\ UNCHANGED <<sockets, relaySessionStarted, login, closed>>
     \/ Fail("error")

RelayResponse ==
  /\ idWs = "open"
  /\ \/ /\ idWs' = "none" /\ idDone' = TRUE
        /\ relayWs' = "connecting"
        /\ timers' = timers \ {"relayWait"}
        /\ Emit(<<>>)
        /\ UNCHANGED <<relaySessionStarted, login, closed>>
     \/ Fail("error")

\* onerror, or onclose before the relay response.
IdLost == idWs \in {"connecting", "open"} /\ Fail("error")

RelayWaitTimeout == "relayWait" \in timers /\ Fail("error")

-----------------------------------------------------------------------------
(* The relay. *)

RelayOpen ==
  /\ relayWs = "connecting"
  /\ relayWs' = "open"
  /\ Emit(<<>>)
  /\ UNCHANGED <<idWs, idDone, relaySessionStarted, login, closed, timers>>

\* Fault: a drop while connected is not reported.
RelayLostFault ==
  \/ relayWs \in {"connecting", "open"} /\ Fail("error")
  \/ /\ relayWs = "open"
     /\ relayWs' = "dropped"
     /\ Emit(IF connected THEN <<>> ELSE <<"disconnected">>)
     /\ UNCHANGED <<idWs, idDone, relaySessionStarted, login, closed, timers>>

\* onerror ends the session, a bare onclose only reports: the session is not
\* closed, and its timers go on.
RelayLost ==
  \/ relayWs \in {"connecting", "open"} /\ Fail("error")
  \/ /\ relayWs = "open"
     /\ relayWs' = "dropped"
     /\ Emit(<<"disconnected">>)
     /\ UNCHANGED <<idWs, idDone, relaySessionStarted, login, closed, timers>>

\* Part of the first message: wait for the rest, up to a limit.
FirstPart ==
  /\ relayWs = "open" /\ ~relaySessionStarted
  /\ \/ /\ timers' = timers \cup {"firstFrame"}
        /\ Emit(<<>>)
        /\ UNCHANGED <<sockets, relaySessionStarted, login, closed>>
     \/ Fail("error")

FirstFrameTimeout == "firstFrame" \in timers /\ Fail("error")

\* dispatchFirstMessage: a signed id starts the key exchange, a hash the login
\* without one, nothing else is accepted.
FirstMessage ==
  /\ relayWs = "open" /\ ~relaySessionStarted
  /\ \/ /\ relaySessionStarted' = TRUE
        /\ timers' = timers \ {"firstFrame"}
        /\ hashing' \in BOOLEAN
        /\ Emit(<<>>)
        /\ UNCHANGED <<sockets, loginSent, awaiting2FA, codeSent, connected, closed>>
     \/ Fail("error")

-----------------------------------------------------------------------------
(* The login. *)

\* A message may arrive from the host.
Hears == relayWs = "open" /\ relaySessionStarted

\* The host sends its challenge once.
Hash ==
  /\ Hears /\ ~hashing /\ ~loginSent
  /\ hashing' = TRUE
  /\ Emit(<<>>)
  /\ UNCHANGED <<sockets, relaySessionStarted, loginSent, awaiting2FA, codeSent, connected,
                 closed, timers>>

\* handleHash after its await, which looks neither at closed nor at the socket.
HashDone ==
  /\ hashing
  /\ hashing' = FALSE
  /\ loginSent' = TRUE
  /\ timers' = timers \cup {"approval"}
  /\ Emit(<<>>)
  /\ UNCHANGED <<sockets, relaySessionStarted, awaiting2FA, codeSent, connected, closed>>

\* Fault: the timer does not ask whether the session is closed.
ApprovalTimeoutFault ==
  /\ "approval" \in timers
  /\ timers' = timers \ {"approval"}
  /\ Emit(IF connected \/ awaiting2FA THEN <<>> ELSE <<"approval-pending">>)
  /\ UNCHANGED <<sockets, relaySessionStarted, login, closed>>

ApprovalTimeout ==
  /\ "approval" \in timers
  /\ timers' = timers \ {"approval"}
  /\ Emit(IF connected \/ closed \/ awaiting2FA THEN <<>> ELSE <<"approval-pending">>)
  /\ UNCHANGED <<sockets, relaySessionStarted, login, closed>>

\* handleLoginResponse.  The host answers a login request until it accepts it,
\* and after it has asked for a code, a code.
Answers == Hears /\ loginSent /\ ~connected /\ (awaiting2FA => codeSent)

TwoFARequired ==
  /\ Answers
  /\ awaiting2FA' = TRUE /\ codeSent' = FALSE
  /\ timers' = timers \ {"approval"}
  /\ Emit(<<"two-fa">>)
  /\ UNCHANGED <<sockets, relaySessionStarted, hashing, loginSent, connected, closed>>

\* "No Password Access": the host asks its user.  That a code, if there was one,
\* is accepted is not recorded.
WaitForApproval ==
  /\ Answers
  /\ timers' = timers \ {"approval"}
  /\ Emit(<<"approval-pending">>)
  /\ UNCHANGED <<sockets, relaySessionStarted, login, closed>>

LoginRefused == Answers /\ \E failure \in Failures : Fail(failure)

LoginAccepted ==
  /\ Answers
  /\ awaiting2FA' = FALSE /\ connected' = TRUE /\ codeSent' = FALSE
  /\ timers' = timers \ {"approval", "connect"}
  /\ Emit(<<"connected">>)
  /\ UNCHANGED <<sockets, relaySessionStarted, hashing, loginSent, closed>>

\* submit2FACode: the code is lost if the relay is gone.
Submit2FACode ==
  /\ awaiting2FA
  /\ codeSent' = (codeSent \/ relayWs = "open")
  /\ Emit(<<>>)
  /\ UNCHANGED <<sockets, relaySessionStarted, hashing, loginSent, awaiting2FA, connected,
                 closed, timers>>

\* handleMisc: the host closes the session, and says why.
HostCloses == Hears /\ Fail("error")

\* The overall watchdog of the way to "connected".
ConnectTimeout == "connect" \in timers /\ Fail("error")

-----------------------------------------------------------------------------
\* What happens without the page.
Happens ==
  \/ IdOpen \/ PunchHoleResponse \/ RelayResponse \/ IdLost \/ RelayWaitTimeout
  \/ RelayOpen \/ RelayLost \/ FirstPart \/ FirstFrameTimeout \/ FirstMessage
  \/ Hash \/ HashDone \/ ApprovalTimeout
  \/ TwoFARequired \/ WaitForApproval \/ LoginRefused \/ LoginAccepted \/ HostCloses
  \/ ConnectTimeout

SessionNext == Happens \/ Connect \/ Disconnect \/ Submit2FACode

SessionSpec == SessionInit /\ [][SessionNext]_sessionVars

-----------------------------------------------------------------------------
SessionTypeOK ==
  /\ idWs \in {"none", "connecting", "open"}
  /\ relayWs \in {"none", "connecting", "open", "dropped"}
  /\ idDone \in BOOLEAN /\ relaySessionStarted \in BOOLEAN
  /\ hashing \in BOOLEAN /\ loginSent \in BOOLEAN
  /\ awaiting2FA \in BOOLEAN /\ codeSent \in BOOLEAN
  /\ connected \in BOOLEAN /\ closed \in BOOLEAN
  /\ timers \subseteq Timers
  /\ emitted \in Seq(Events)

\* session.ts on connectTimer: a hanging handshake must surface as an error
\* instead of a forever "connecting" state.  Whatever hbbs, hbbr and the host do
\* or leave undone, a session that is neither connected nor closed is watched.
HandshakeWatched == ~closed /\ ~connected => "connect" \in timers

\* A session that was closed tells the page nothing more, whatever it was waiting
\* for when it was closed.
QuietOnceClosed == [][closed /\ closed' => emitted' = <<>>]_sessionVars

\* The phase a session is in.  One whose relay is gone is closed only by its
\* timers or by the page.
Phase ==
  IF closed THEN "over"
  ELSE IF relayWs = "dropped" THEN "dropped"
  ELSE IF connected THEN "live"
  ELSE IF awaiting2FA THEN "asking" ELSE "dialling"

Lifecycle == INSTANCE SessionLifecycle WITH phase <- Phase, told <- emitted

\* The page is told of a session in an order it can follow: that it connects
\* first, that it is connected at most once and never after a drop, that it ended
\* once, with the reason before the end, and nothing after that.
KeepsToLifecycle == Lifecycle!LifeSpec
=============================================================================
