---------------------------- MODULE StreamOptions --------------------------
(***************************************************************************)
(* The knobs of the picture: quality, frame rate and codec as the page     *)
(* (pages/RemoteControlPage.tsx) shows them and as the session (session.ts)*)
(* told the host, with auto mode and the turbo preset in between.  A       *)
(* session has a copy of the knobs, made when it was dialled: of those     *)
(* shown then, or, for a redial, of those drawn when it was scheduled.     *)
(***************************************************************************)
EXTENDS Naturals, Sequences, FiniteSets

CONSTANTS
  Qualities,    \* of the manual choice; 0 is auto
  Rates,        \* frames per second of the manual choice
  AutoTargets,  \* [quality, fps] that pickAutoTarget may return
  KnobCodecs,   \* the codecs the user can pin
  MaxProbes,    \* probes of the browser's codecs under way, at most
  MaxRedials    \* bound: redials that are pending with different knobs

AutoCodec == "auto"
Turbo == [quality |-> 2, fps |-> 60]

ASSUME OptionsAssumption ==
  /\ (Qualities \cup Rates) \subseteq Nat \ {0} /\ {MaxProbes, MaxRedials} \subseteq Nat
  /\ {AutoCodec, "turbo"} \cap KnobCodecs = {}

VARIABLES
  knobs,        \* [quality, fps, codec] of the page
  snapshot,     \* turboSnapshotRef: the knobs before turbo, or NoKnobs
  probes,       \* what waits for probeBrowserCodecs: "turbo" or a codec, in order
  redials,      \* the knobs that pending redials were scheduled with
  config,       \* the knobs a session was dialled with, or NoKnobs once it is logged in
  loginSent, connected,
  auto, autoTarget,     \* autoMode of the session and its target
  videoOptions, \* [quality, fps] of the session
  lastSent,     \* what the host was told last
  pinned,       \* the codec the host was told last
  hydrated,     \* hydratedDefaultsRef
  silent        \* history: what the session under way was not told of, "rate" or "codec"

pageVars == <<knobs, snapshot, probes, hydrated>>
rateVars == <<auto, autoTarget, videoOptions, lastSent>>
dialVars == <<redials, config, loginSent, connected>>
optionVars == <<pageVars, dialVars, rateVars, pinned, silent>>

Options(quality, fps) == [quality |-> quality, fps |-> fps]
Knobs(quality, fps, codec) == [quality |-> quality, fps |-> fps, codec |-> codec]
NoKnobs == Knobs(0, 0, AutoCodec)
turbo == snapshot # NoKnobs
UnderWay == connected \/ config # NoKnobs

\* What differs between two settings of the knobs.
Untold(k, l) ==
  (IF Options(k.quality, k.fps) = Options(l.quality, l.fps) THEN {} ELSE {"rate"})
    \cup (IF k.codec = l.codec THEN {} ELSE {"codec"})

OptionsInit ==
  /\ \E f \in Rates, c \in KnobCodecs \cup {AutoCodec} : knobs = Knobs(3, f, c)
  /\ snapshot = NoKnobs /\ probes = <<>> /\ hydrated = FALSE
  /\ redials = {} /\ config = NoKnobs /\ loginSent = FALSE /\ connected = FALSE
  /\ auto = FALSE /\ autoTarget = Options(3, 30)
  /\ videoOptions = Options(3, 30) /\ lastSent = Options(0, 0) /\ pinned = AutoCodec
  /\ silent = {}

\* sendVideoOption
SendVideoOption == lastSent' = IF auto' THEN autoTarget' ELSE videoOptions'

\* setAutoMode(TRUE) on a session with these options.
AutoOn(options) ==
  IF auto THEN UNCHANGED <<auto, autoTarget>>
  ELSE auto' = TRUE /\ autoTarget' = options

\* setStreamOptions: auto mode ends.
SetStreamOptions(quality, fps) ==
  /\ auto' = FALSE /\ UNCHANGED autoTarget
  /\ videoOptions' = Options(quality, fps)
  /\ SendVideoOption

-----------------------------------------------------------------------------
(* The page and its sessions. *)

\* The defaults of the administrator, whenever they come: quality and rate, and the
\* codec where the user has none of his own.
Hydrate(q, f, c) ==
  /\ ~hydrated /\ hydrated' = TRUE
  /\ knobs' = Knobs(q, f, IF knobs.codec = AutoCodec THEN c ELSE knobs.codec)
  /\ silent' = IF UnderWay THEN silent \cup Untold(knobs, knobs') ELSE silent
  /\ UNCHANGED <<snapshot, probes, dialVars, rateVars, pinned>>

\* doConnect: a session with these knobs, in the place of the one there is.
Connect(k) ==
  /\ config' = k /\ loginSent' = FALSE /\ connected' = FALSE
  /\ videoOptions' = Options(k.quality, k.fps) /\ lastSent' = Options(0, 0)
  /\ auto' = FALSE /\ autoTarget' = Options(3, 30) /\ pinned' = AutoCodec
  /\ silent' = Untold(k, knobs)
  /\ UNCHANGED pageVars

\* startConnection, requestAccess
Dial == Connect(knobs) /\ UNCHANGED redials

\* A redial runs in the closure that was drawn when it was scheduled: the timer of
\* scheduleReconnect, or submit2FA once it has fetched the password.
Redial(k) == k \in redials /\ Connect(k) /\ redials' = redials \ {k}

\* submit2FA of a session that has to be dialled again.
AwaitPassword ==
  /\ ~UnderWay
  /\ Cardinality(redials \cup {knobs}) <= MaxRedials /\ redials' = redials \cup {knobs}
  /\ UNCHANGED <<pageVars, config, loginSent, connected, rateVars, pinned, silent>>

\* Its timer is cleared, or no password was found.
Forget(k) ==
  /\ k \in redials /\ redials' = redials \ {k}
  /\ UNCHANGED <<pageVars, config, loginSent, connected, rateVars, pinned, silent>>

\* handleHash: LoginRequest carries rate and codec of the session.
SendLogin ==
  /\ UnderWay /\ ~loginSent /\ loginSent' = TRUE
  /\ pinned' = config.codec
  /\ UNCHANGED <<pageVars, redials, config, connected, rateVars, silent>>

\* handleLoginResponse: the options are told again after it.
Login ==
  /\ loginSent /\ ~connected /\ connected' = TRUE /\ config' = NoKnobs
  /\ IF config.quality = 0 THEN AutoOn(videoOptions) ELSE UNCHANGED <<auto, autoTarget>>
  /\ UNCHANGED videoOptions /\ SendVideoOption
  /\ UNCHANGED <<pageVars, redials, loginSent, pinned, silent>>

\* The session ends or is dropped, and a retry may be scheduled.
Logout ==
  /\ UnderWay
  /\ config' = NoKnobs /\ loginSent' = FALSE /\ connected' = FALSE
  /\ redials' \in {redials, redials \cup {knobs}} /\ Cardinality(redials') <= MaxRedials
  /\ auto' = FALSE /\ autoTarget' = Options(3, 30)
  /\ videoOptions' = Options(3, 30) /\ lastSent' = Options(0, 0) /\ pinned' = AutoCodec
  /\ silent' = {}
  /\ UNCHANGED pageVars

\* Without a frame the options are told once more, 0.7 s and 6 s after login.
TellAgain ==
  /\ connected
  /\ UNCHANGED <<pageVars, dialVars, auto, autoTarget, videoOptions, pinned, silent>>
  /\ SendVideoOption

\* A tick of auto mode that found another target often enough.
AutoTick(next) ==
  /\ connected /\ auto /\ next # autoTarget
  /\ autoTarget' = next /\ UNCHANGED <<auto, videoOptions>> /\ SendVideoOption
  /\ UNCHANGED <<pageVars, dialVars, pinned, silent>>

-----------------------------------------------------------------------------
(* The knobs, which a connected page shows; each ends turbo in silence. *)

\* Fault: auto mode is not left before the options are told.
HandleQualityChangeFault(q) ==
  /\ connected /\ q # knobs.quality
  /\ snapshot' = NoKnobs /\ knobs' = [knobs EXCEPT !.quality = q]
  /\ IF q = 0 THEN AutoOn(videoOptions) /\ UNCHANGED <<videoOptions, lastSent>>
     ELSE /\ videoOptions' = Options(q, knobs.fps) /\ UNCHANGED <<auto, autoTarget>>
          /\ SendVideoOption
  /\ silent' = silent \ {"rate"}
  /\ UNCHANGED <<probes, hydrated, dialVars, pinned>>

\* handleQualityChange
HandleQualityChange(q) ==
  /\ connected /\ q # knobs.quality
  /\ snapshot' = NoKnobs /\ knobs' = [knobs EXCEPT !.quality = q]
  /\ IF q = 0 THEN AutoOn(videoOptions) /\ UNCHANGED <<videoOptions, lastSent>>
     ELSE SetStreamOptions(q, knobs.fps)
  /\ silent' = silent \ {"rate"}
  /\ UNCHANGED <<probes, hydrated, dialVars, pinned>>

\* handleFpsChange; the field is disabled in auto mode.
HandleFpsChange(f) ==
  /\ connected /\ f # knobs.fps /\ knobs.quality # 0
  /\ snapshot' = NoKnobs /\ knobs' = [knobs EXCEPT !.fps = f]
  /\ SetStreamOptions(knobs.quality, f)
  /\ silent' = silent \ {"rate"}
  /\ UNCHANGED <<probes, hydrated, dialVars, pinned>>

\* handleCodecChange: a pin waits for the probe of the browser.
HandleCodecChange(c) ==
  /\ connected /\ c # knobs.codec
  /\ snapshot' = NoKnobs
  /\ IF c = AutoCodec
     THEN /\ knobs' = [knobs EXCEPT !.codec = AutoCodec] /\ pinned' = AutoCodec
          /\ silent' = silent \ {"codec"} /\ UNCHANGED probes
     ELSE /\ Len(probes) < MaxProbes /\ probes' = Append(probes, c)
          /\ UNCHANGED <<knobs, pinned, silent>>
  /\ UNCHANGED <<hydrated, dialVars, rateVars>>

\* toggleTurbo, on.
TurboOn ==
  /\ connected /\ ~turbo /\ Len(probes) < MaxProbes
  /\ snapshot' = knobs
  /\ knobs' = Knobs(Turbo.quality, Turbo.fps, knobs.codec)
  /\ SetStreamOptions(Turbo.quality, Turbo.fps)
  /\ probes' = Append(probes, "turbo")
  /\ silent' = silent \ {"rate"}
  /\ UNCHANGED <<hydrated, dialVars, pinned>>

\* toggleTurbo, off: the options before it, then auto mode if it was on.
TurboOff ==
  /\ connected /\ turbo
  /\ snapshot' = NoKnobs /\ knobs' = snapshot
  /\ videoOptions' = Options(snapshot.quality, snapshot.fps)
  /\ lastSent' = videoOptions'
  /\ auto' = (snapshot.quality = 0)
  /\ autoTarget' = IF auto' THEN videoOptions' ELSE autoTarget
  /\ pinned' = snapshot.codec
  /\ silent' = {}
  /\ UNCHANGED <<probes, hydrated, dialVars>>

\* A probe answers: pick is what comes of it, AutoCodec if nothing does.  What a
\* session says of its codec before LoginRequest is overridden by it.
KnobProbed(pick) ==
  LET wants == Head(probes) IN
  /\ probes # <<>> /\ probes' = Tail(probes)
  /\ wants # "turbo" => pick \in {wants, AutoCodec}
  /\ IF pick = AutoCodec \/ (wants = "turbo" /\ ~turbo) THEN UNCHANGED <<knobs, pinned, silent>>
     ELSE /\ knobs' = [knobs EXCEPT !.codec = pick]
          /\ pinned' = IF loginSent THEN pick ELSE pinned
          /\ silent' = (silent \ {"codec"})
               \cup (IF ~loginSent /\ config \notin {NoKnobs, [config EXCEPT !.codec = pick]} THEN {"codec"} ELSE {})
  /\ UNCHANGED <<snapshot, hydrated, dialVars, rateVars>>

OptionsNext ==
  \/ \E q \in Qualities \cup {0}, f \in Rates, c \in KnobCodecs \cup {AutoCodec} : Hydrate(q, f, c)
  \/ Dial \/ AwaitPassword \/ SendLogin \/ Login \/ Logout \/ TellAgain
  \/ \E k \in redials : Redial(k) \/ Forget(k)
  \/ \E next \in AutoTargets : AutoTick(next)
  \/ \E q \in Qualities \cup {0} : HandleQualityChange(q)
  \/ \E f \in Rates : HandleFpsChange(f)
  \/ \E c \in KnobCodecs \cup {AutoCodec} : HandleCodecChange(c)
  \/ TurboOn \/ TurboOff
  \/ \E pick \in KnobCodecs \cup {AutoCodec} : KnobProbed(pick)

OptionsSpec == OptionsInit /\ [][OptionsNext]_optionVars

-----------------------------------------------------------------------------
(* Properties *)

\* What the knobs show is what the host was told last, through auto mode, turbo and the
\* way back, late probes and new logins: but for what changed without the session under
\* way being told, until the user turns that knob.  That is a redial with knobs that are
\* no longer shown, defaults that came after the dial, and a probe that answered between
\* the dial and LoginRequest.
ShownIsSent ==
  connected =>
    /\ "rate" \notin silent =>
         /\ auto = (knobs.quality = 0)
         /\ ~auto => lastSent = Options(knobs.quality, knobs.fps)
    /\ "codec" \notin silent => pinned = knobs.codec

-----------------------------------------------------------------------------
(* What a comment in the source says, and TLC refutes. *)

\* "Hydrate the connect dialog" (76): the defaults may come when the dialog is gone, and
\* change knobs of a session under way that nobody tells the host of.
HydratesDialog == [][hydrated' # hydrated => ~UnderWay]_optionVars

\* A redial connects as the knobs show: the closure holds those of the drop.
RedialsAsShown == connected => silent = {}
=============================================================================
