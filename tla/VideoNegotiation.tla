-------------------------- MODULE VideoNegotiation -------------------------
(***************************************************************************)
(* Which codec the host is asked for: the codec half of a session of       *)
(* frontend/src/lib/rustdesk/session.ts.  In auto mode a codec that the    *)
(* browser cannot decode is replaced by the next candidate, under a timer  *)
(* of two stages; a manual choice is literal, until the host overrules it. *)
(*                                                                         *)
(* A session is a record; the functions of the class are operators that    *)
(* return the session they leave behind.                                   *)
(***************************************************************************)
EXTENDS VideoDecoder, Sequences, SequencesExt

CONSTANT
  Order         \* the candidates of codecCandidates, best first

Codecs == ToSet(Order)

\* The callbacks a decoder makes, and the switch that a session waits for.
Calls == [kind : {"needKey", "reinit", "fatal", "unsupported", "undecodable"}, codec : Codecs]
Waits == [failed : Codecs, target : Codecs, nudged : BOOLEAN]

ASSUME NegotiationAssumption ==
  /\ Order \in Seq(Codecs) /\ Order # <<>>
  /\ Null \notin Codecs \cup Calls \cup Waits

\* A session whose login asked for pref, or for lastGood or the first candidate.
\* able: the candidates that browser, host and the size of the display leave.
NewSession(pref, lastGood, able) ==
  [manual |-> pref,             \* manualCodec
   grace |-> TRUE,              \* less than 10 s since it was pinned
   overruled |-> FALSE,         \* manualOverruled
   failed |-> {},               \* codecFailed
   pending |-> Null,            \* fallbackPending: one of Waits, or Null
   prefer |-> IF pref # Null THEN pref ELSE IF lastGood # Null THEN lastGood ELSE Order[1],
   offered |-> IF pref # Null THEN Codecs ELSE able,
   able |-> able,
   askedLately |-> FALSE,       \* lastKeyframeRequestAt is less than 2 s ago
   keyAsked |-> FALSE]          \* a refresh_video is on its way to the host

RequestKeyframeNow(s) == [s EXCEPT !.askedLately = TRUE, !.keyAsked = TRUE]
RequestKeyframe(s) == IF s.askedLately THEN s ELSE RequestKeyframeNow(s)

\* codecNextTarget
Untried(s) == {i \in DOMAIN Order : Order[i] \in s.able \ s.failed}
NextTarget(s) == IF Untried(s) = {} THEN Null ELSE Order[Min(Untried(s))]

\* The switch the host is told of, and the keyframe it is asked for.
Switch(s, from, target) ==
  [s EXCEPT !.prefer = target,
            !.offered = (s.able \ s.failed) \cup {target},
            !.keyAsked = TRUE,
            !.pending = [failed |-> from, target |-> target, nudged |-> FALSE]]

\* Fault: one codec is tried, not all.
NegotiateOnceFault(s, from) ==
  IF s.manual # Null \/ s.failed # {} THEN [session |-> s, target |-> Null]
  ELSE IF s.pending # Null THEN [session |-> s, target |-> s.pending.target]
  ELSE LET failing == [s EXCEPT !.failed = @ \cup {from}]
           target == NextTarget(failing) IN
         [session |-> IF target = Null THEN failing ELSE Switch(failing, from, target),
          target |-> target]
\* negotiateDecoderFallback: the session, and the codec switched to or Null.
Negotiate(s, from) ==
  IF s.manual # Null THEN [session |-> s, target |-> Null]
  ELSE IF s.pending # Null THEN [session |-> s, target |-> s.pending.target]
  ELSE LET failing == [s EXCEPT !.failed = @ \cup {from}]
           target == NextTarget(failing) IN
         [session |-> IF target = Null THEN failing ELSE Switch(failing, from, target),
          target |-> target]

\* codecFallbackTimeout: nudge first, then give the target up for the next one.
FallbackTimeout(s) ==
  IF ~s.pending.nudged THEN [s EXCEPT !.pending.nudged = TRUE, !.keyAsked = TRUE]
  ELSE LET given == [s EXCEPT !.pending = Null, !.failed = @ \cup {s.pending.target}] IN
         Negotiate(given, s.pending.target).session

\* setCodecPreference, with resetCodecState.  For auto the host picks: it is taken to
\* prefer what it would by itself, the first of the list.
SetCodecPreference(s, pref) ==
  [s EXCEPT !.manual = pref, !.grace = TRUE, !.overruled = FALSE,
            !.failed = {}, !.pending = Null,
            !.prefer = IF pref # Null THEN pref ELSE Order[1],
            !.offered = Codecs, !.keyAsked = TRUE]

\* The codec part of handleVideoFrame: a pin the host ignores is dropped after the
\* grace, and a frame in another codec than the failed one ends the wait for the switch.
FrameOf(s, codec) ==
  LET defied == s.manual # Null /\ codec # s.manual /\ ~s.overruled /\ ~s.grace
      applied == s.pending # Null /\ codec # s.pending.failed
  IN [s EXCEPT !.overruled = @ \/ defied,
               !.manual = IF defied THEN Null ELSE @,
               !.pending = IF applied THEN Null ELSE @]
=============================================================================
