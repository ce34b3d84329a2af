---------------------------- MODULE RemoteVideo ----------------------------
(***************************************************************************)
(* The picture of the remote screen: the session that negotiates the codec *)
(* (session.ts), the decoder (decoder.ts), the screen that joins them      *)
(* (components/RemoteScreen.tsx) and the controls of the page.  The host   *)
(* and the engines of the browser are external: the host encodes in a      *)
(* codec it was offered, an engine behaves by its kind.                    *)
(***************************************************************************)
EXTENDS VideoNegotiation

CONSTANTS
  KindSets,     \* the browsers considered: a kind of engine for each codec
  MaxQueue,     \* units in the engine's queue when a keyframe is added, at most
  MaxChoices,   \* what the user does to codec, banner and display, at most
  MaxStrays     \* how often the host takes a codec it was not told to, at most

ASSUME VideoAssumption ==
  KindSets \subseteq [Codecs -> Kinds] /\ {MaxQueue, MaxChoices, MaxStrays} \subseteq Nat

VARIABLES
  session,      \* the codec state of the session
  decoder,      \* decoderRef
  kind,         \* the engines of this browser
  host,         \* [codec, fresh]: what it encodes, whether its encoder is new
  others,       \* the host streams displays that are not watched, too
  resetDue,     \* the display watched has another size than the one rendered
  paused,       \* the page freezes the picture
  videoFatal,   \* the codec in the warning banner of the page, or Null
  torn,         \* history: why the next unit does not follow the last one given
                \* to the decoder: "paused", "foreign", or "no" if it does
  alike,        \* history: the display watched has the size of the one before
  choices,      \* bound: MaxChoices
  strays        \* bound: MaxStrays

outside == <<kind, choices, strays>>
shownVars == <<others, resetDue, alike>>
videoVars == <<session, decoder, host, paused, videoFatal, torn, shownVars, outside>>

\* What the probe of the page takes the browser to decode.
Supported == {c \in Codecs : kind[c] # "noconfig"}

VideoInit ==
  /\ kind \in KindSets
  /\ \E pref, good \in Codecs \cup {Null}, able \in {Codecs, Supported} :
       /\ able # {} /\ (pref # Null => good = Null)
       /\ session = NewSession(pref, good, able)
  /\ host \in [codec : session.offered, fresh : {TRUE}]
  /\ decoder = NewDecoder
  /\ paused = FALSE /\ videoFatal = Null /\ others = FALSE /\ resetDue = FALSE /\ alike = FALSE
  /\ torn = "no" /\ choices = 0 /\ strays = 0

\* The session, the decoder and the banner after the decoder has made its callback.
\* A codec given up is negotiated: with a target the decoder starts anew, and keeps
\* the unit in hand if it was handling one; without a target the page warns.
GivenUp(s, d) ==
  LET given == Negotiate(s, d.call.codec)
      rest == [d EXCEPT !.call = Null]
      kept == IF d.call.kind = "undecodable" THEN d.pending ELSE Null
  IN IF given.target = Null
     THEN session' = given.session /\ decoder' = rest /\ videoFatal' = d.call.codec
     ELSE /\ session' = given.session
          /\ decoder' = [Reset(rest) EXCEPT !.pending = kept]
          /\ UNCHANGED videoFatal

Answer(s, d) ==
  LET rest == [d EXCEPT !.call = Null] IN
    CASE d.call = Null -> session' = s /\ decoder' = d /\ UNCHANGED videoFatal
      [] d.call # Null /\ d.call.kind = "needKey" ->
           session' = RequestKeyframeNow(s) /\ decoder' = rest /\ UNCHANGED videoFatal
      [] d.call # Null /\ d.call.kind = "reinit" ->
           session' = RequestKeyframe(s) /\ decoder' = rest /\ UNCHANGED videoFatal
      [] OTHER -> GivenUp(s, d)

-----------------------------------------------------------------------------
(* The host and the engine. *)

\* A unit of the display watched, a keyframe when the encoder is new or it was asked for
\* one.  While the page is paused the decoder does not see it.
Frame ==
  /\ decoder.pending # Null /\ decoder.pending.key => decoder.queue < MaxQueue
  /\ \E key \in {host.fresh, host.fresh \/ session.keyAsked} :
       LET s == FrameOf([session EXCEPT !.keyAsked = @ /\ ~key], host.codec)
           unit == [codec |-> host.codec, key |-> key, torn |-> torn]
       IN IF paused THEN session' = s /\ UNCHANGED <<decoder, videoFatal>>
          ELSE Answer(s, HandlePacket(decoder, unit, kind))
  /\ host' = [host EXCEPT !.fresh = FALSE]
  /\ torn' = IF ~paused \/ ~decoder.open THEN "no" ELSE IF torn = "no" THEN "paused" ELSE torn
  /\ UNCHANGED <<paused, shownVars, outside>>

\* A unit of another display: the session takes note of it, the decoder does not see it.
OtherFrame ==
  /\ others
  /\ session' = FrameOf(session, host.codec)
  /\ UNCHANGED <<decoder, host, paused, videoFatal, torn, shownVars, outside>>

\* The host takes up the codec it prefers by now, or another one it was offered.
HostSwitches(c) ==
  /\ c \in session.offered /\ c # host.codec
  /\ strays' = IF c = session.prefer THEN strays ELSE strays + 1
  /\ strays' <= MaxStrays
  /\ host' = [codec |-> c, fresh |-> TRUE]
  /\ UNCHANGED <<session, decoder, paused, videoFatal, torn, shownVars, kind, choices>>

HostObeys == session.prefer \in session.offered /\ HostSwitches(session.prefer)

\* The probe of initDecoder answers, and one that was replaced.
Probed ==
  /\ decoder.probing # Null
  /\ Answer(session, ProbeAnswered(decoder, kind[decoder.probing]))
  /\ UNCHANGED <<host, paused, torn, shownVars, outside>>

ProbedLate(c) ==
  /\ c \in decoder.late
  /\ Answer(session, LateAnswered(decoder, c))
  /\ UNCHANGED <<host, paused, torn, shownVars, outside>>

\* The engine delivers a picture, in a codec it decodes.
Picture(resized) ==
  /\ decoder.queue > 0 /\ kind[decoder.engine] \in {"fine", "flaky"}
  /\ Answer(session, Output(decoder, resized))
  /\ UNCHANGED <<host, paused, torn, shownVars, outside>>

\* The engine fails: one that cannot, one that may, or one fed with a foreign unit.
Failure ==
  /\ decoder.open
  /\ kind[decoder.engine] \in {"unsupported", "flaky"} \/ decoder.misfed
  /\ Answer(session, EngineFails(decoder, kind[decoder.engine]))
  /\ UNCHANGED <<host, paused, torn, shownVars, outside>>

-----------------------------------------------------------------------------
(* Time passes: one action for every period that something waits for. *)

FallbackDue ==
  /\ session.pending # Null
  /\ session' = FallbackTimeout(session)
  /\ UNCHANGED <<decoder, host, paused, videoFatal, torn, shownVars, outside>>

RebuildAllowed ==
  /\ decoder.lately
  /\ decoder' = [decoder EXCEPT !.lately = FALSE]
  /\ UNCHANGED <<session, host, paused, videoFatal, torn, shownVars, outside>>

RequestAllowed ==
  /\ session.askedLately
  /\ session' = [session EXCEPT !.askedLately = FALSE]
  /\ UNCHANGED <<decoder, host, paused, videoFatal, torn, shownVars, outside>>

GraceOver ==
  /\ session.grace /\ session.manual # Null
  /\ session' = [session EXCEPT !.grace = FALSE]
  /\ UNCHANGED <<decoder, host, paused, videoFatal, torn, shownVars, outside>>

\* The keep-alive of the screen, due when no picture came for 3 s.
KeepAlive ==
  /\ ~paused
  /\ session' = RequestKeyframe(session)
  /\ UNCHANGED <<decoder, host, paused, videoFatal, torn, shownVars, outside>>

-----------------------------------------------------------------------------
(* The user. *)

Chooses ==
  /\ choices < MaxChoices
  /\ choices' = choices + 1
  /\ UNCHANGED <<kind, strays>>

\* handleCodecChange: a codec the browser has no configuration for is refused.
ChooseCodec(pref) ==
  /\ Chooses
  /\ pref \in Supported \cup {Null}
  /\ session' = SetCodecPreference(session, pref)
  /\ UNCHANGED <<decoder, host, torn, shownVars, paused, videoFatal>>

\* The two buttons of the banner.
BackToAutoCodec ==
  /\ Chooses
  /\ videoFatal # Null /\ videoFatal' = Null
  /\ session' = SetCodecPreference(session, Null)
  /\ UNCHANGED <<decoder, host, torn, shownVars, paused>>

DismissBanner ==
  /\ Chooses
  /\ videoFatal # Null /\ videoFatal' = Null
  /\ UNCHANGED <<session, decoder, host, torn, shownVars, paused>>

\* Another display is watched (sendSwitchDisplay), from the next unit on.  Its encoder is
\* new, or in the midst of a stream of which the decoder saw nothing.
WatchOther(fresh) ==
  /\ Chooses
  /\ host' = [host EXCEPT !.fresh = fresh]
  /\ torn' = IF ~fresh /\ decoder.open THEN "foreign" ELSE "no"
  /\ others' = TRUE /\ resetDue' \in BOOLEAN /\ alike' = ~resetDue'
  /\ UNCHANGED <<session, decoder, paused, videoFatal>>

\* The screen has rendered a display of another size; one of the same size changes nothing.
ResetRendered ==
  /\ resetDue /\ resetDue' = FALSE /\ alike' = FALSE
  /\ decoder' = Reset(decoder)
  /\ session' = RequestKeyframeNow(session)
  /\ UNCHANGED <<host, paused, videoFatal, torn, others, outside>>

Pause ==
  /\ Chooses
  /\ ~paused /\ paused' = TRUE
  /\ UNCHANGED <<session, decoder, host, torn, shownVars, videoFatal>>

Resume ==
  /\ paused /\ paused' = FALSE
  /\ session' = RequestKeyframe(session)
  /\ UNCHANGED <<decoder, host, videoFatal, torn, shownVars, outside>>

VideoNext ==
  \/ Frame \/ OtherFrame
  \/ \E c \in Codecs : HostSwitches(c)
  \/ Probed
  \/ \E c \in Codecs : ProbedLate(c)
  \/ \E resized \in BOOLEAN : Picture(resized)
  \/ Failure
  \/ FallbackDue \/ RebuildAllowed \/ RequestAllowed \/ GraceOver \/ KeepAlive
  \/ \E pref \in Codecs \cup {Null} : ChooseCodec(pref)
  \/ BackToAutoCodec \/ DismissBanner \/ Pause \/ Resume
  \/ \E fresh \in BOOLEAN : WatchOther(fresh)
  \/ ResetRendered

\* Timers run out, probes answer, effects run, the host sends its frames, takes up what it is told
\* and answers requests for a keyframe; engines deliver what they can decode.
VideoFairness ==
  /\ WF_videoVars(Frame) /\ SF_videoVars(Frame /\ (session.keyAsked => ~session'.keyAsked))
  /\ WF_videoVars(HostObeys)
  /\ WF_videoVars(Probed) /\ WF_videoVars(Picture(FALSE)) /\ WF_videoVars(Failure)
  /\ WF_videoVars(FallbackDue) /\ WF_videoVars(RebuildAllowed)
  /\ WF_videoVars(RequestAllowed) /\ WF_videoVars(KeepAlive)
  /\ WF_videoVars(Resume) /\ WF_videoVars(ResetRendered)

VideoSpec == VideoInit /\ [][VideoNext]_videoVars
FairVideoSpec == VideoSpec /\ VideoFairness

-----------------------------------------------------------------------------
(* Properties *)

\* An engine decodes a delta only over the units it refers to, whatever rebuilds, codec
\* switches and changes of the display came between: a picture out of pieces is the price
\* only of a pause, of dropping a backlog, and of a switch to a display whose stream is
\* under way, until its size is drawn; if that is the size there was, until a keyframe.
GapsExplained ==
  /\ ~decoder.mosaic
  /\ decoder.open /\ decoder.hole = "foreign" => resetDue \/ alike

\* There is one engine: none is replaced before it was closed, however probes overtake
\* one another.
OneEngine == ~decoder.leaked

\* While the session waits for the host to switch, the decoder is ready for what comes.
ReadyForSwitch == session.pending # Null => ~decoder.fatal

\* The three together: however probes, failures and switches overtake one another,
\* what reaches an engine is a stream that the one engine there is can decode.
StreamDecodable == GapsExplained /\ OneEngine /\ ReadyForSwitch

\* In auto mode the user is warned only when no codec is left to try.
WarnsLast ==
  [][videoFatal' \notin {Null, videoFatal} /\ session'.manual = Null
       => session'.able \subseteq session'.failed]_videoVars

\* Left alone, a session shows pictures again and again, or warns.
PictureOrWarning ==
  []<>(decoder.shown \/ videoFatal # Null \/ choices > 0)

-----------------------------------------------------------------------------
(* What comments in the source say, and TLC refutes. *)

\* "The decoder reinitialises on the next frame's codec change automatically"
\* (session.ts 1224 and 1225): not once a codec was fatal, though the banner offers to go
\* back to auto and the host then sends a codec that this browser decodes.
ReinitsOnChange ==
  [][Frame /\ ~paused /\ host.codec \notin {decoder.current, decoder.probing} \cup decoder.failed
       => decoder'.probing = host.codec]_videoVars

\* "so the next codec's packets start clean" (RemoteScreen.tsx 357): the last unit of one
\* codec, or every unit of a codec that failed before, goes to the engine of another.
StartsClean == ~decoder.misfed

\* "so the canvas and decoder stay on the display the user actually chose" (session.ts
\* 911): the references of the decoder are still those of the display before, unless the
\* sizes differ.
StaysOnChosen == decoder.open /\ ~resetDue => decoder.hole # "foreign"

\* "drop incoming deltas (until the next keyframe)" (decoder.ts 52): but the next delta
\* that finds room in the queue is decoded.
DropsUntilKey ==
  [][choices' = 0 /\ decoder'.queue > decoder.queue => decoder'.hole # "excused"]_videoVars

\* "ask the host for a fresh keyframe so the picture snaps back instantly"
\* (RemoteScreen.tsx 420).
ResumeAsks == [][Resume => session'.keyAsked]_videoVars
=============================================================================
