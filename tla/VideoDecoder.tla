---------------------------- MODULE VideoDecoder ---------------------------
(***************************************************************************)
(* The decoder of frontend/src/lib/rustdesk/decoder.ts around the video    *)
(* engine of the browser: one engine at a time, configured after a probe,  *)
(* fed with the access units of the host, rebuilt when it fails.           *)
(*                                                                         *)
(* A decoder is a record and its functions are operators that return the   *)
(* decoder they leave behind, with the callback they made in its field     *)
(* call.  An access unit is one packet here, its parts already joined.     *)
(***************************************************************************)
EXTENDS Naturals, FiniteSets

CONSTANTS
  Limit,        \* units in the engine's queue above which deltas are dropped
  SteerBudget,  \* rejected keyframes before the stream is declared undecodable
  Null

\* MAX_INIT_FAILURES
MaxFailures == 2

ASSUME DecoderAssumption == Limit \in Nat /\ SteerBudget \in Nat \ {0}

\* What an engine makes of a codec: it decodes it, fails now and then, takes the
\* configuration and fails later for good, refuses to be configured, finds no
\* configuration, or refuses the keyframes themselves.
Kinds == {"fine", "flaky", "unsupported", "throws", "noconfig", "rejects"}

Call(kind, codec) == [kind |-> kind, codec |-> codec]

NewDecoder ==
  [engine |-> Null,     \* the codec of the engine, Null without one
   open |-> FALSE,      \* its state is configured
   queue |-> 0,         \* units it was fed and has not answered
   current |-> Null,    \* currentCodec
   probing |-> Null,    \* pendingInitCodec
   late |-> {},         \* probes under way that a newer one has replaced
   failures |-> 0,      \* initFailures
   fatal |-> FALSE,     \* fatalCodec is set
   failed |-> {},       \* failedCodecs
   awaiting |-> FALSE,  \* awaitingFirstKey
   rebuild |-> FALSE,   \* needsReinit
   lately |-> FALSE,    \* the last init is less than 2 s ago
   refused |-> 0,       \* syncKeyFails
   shown |-> FALSE,     \* decodedSinceConfigure > 0
   steered |-> FALSE,   \* steerFired
   sized |-> FALSE,     \* lastDisplayWidth # 0
   pending |-> Null,    \* the unit that waits for the next packet
   call |-> Null,       \* the callback of the last operation
   hole |-> "no",       \* history: what the references lack since the last keyframe
   mosaic |-> FALSE,    \* history: a delta was decoded over an unexcused hole
   misfed |-> FALSE,    \* history: a unit went to an engine of another codec
   leaked |-> FALSE]    \* history: an open engine was replaced, not closed

Drop(d) == [d EXCEPT !.pending = Null]

\* initDecoder up to its probe
InitDecoder(d, codec) ==
  IF d.failures >= MaxFailures \/ d.fatal \/ d.probing = codec \/ codec \in d.failed THEN d
  ELSE [d EXCEPT !.engine = Null, !.open = FALSE, !.queue = 0, !.current = Null,
                 !.rebuild = FALSE, !.lately = TRUE, !.probing = codec,
                 !.late = IF d.probing = Null THEN @ ELSE @ \cup {d.probing}]

Reinit(d) == IF d.current = Null THEN d ELSE InitDecoder(d, d.current)

\* reset
Reset(d) ==
  Reinit([Drop(d) EXCEPT !.rebuild = FALSE, !.sized = FALSE, !.awaiting = FALSE,
                         !.failures = 0, !.fatal = FALSE,
                         !.refused = 0, !.shown = FALSE, !.steered = FALSE])

\* focusError
FocusError(d, codec) ==
  [d EXCEPT !.failures = MaxFailures, !.fatal = TRUE, !.call = Call("fatal", codec)]

Unsupported(d, codec) ==
  [d EXCEPT !.failed = @ \cup {codec}, !.engine = Null, !.open = FALSE, !.queue = 0,
            !.current = Null, !.call = Call("unsupported", codec)]

\* Fault: deltas need not wait for a keyframe.
ConfiguredFault(d, codec) ==
  [d EXCEPT !.engine = codec, !.open = TRUE, !.current = codec, !.hole = "yes",
            !.leaked = @ \/ d.open, !.shown = FALSE, !.refused = 0, !.steered = FALSE,
            !.call = Call("needKey", codec)]
\* The end of initDecoder: a new engine, which takes a keyframe only.
Configured(d, codec) ==
  [d EXCEPT !.engine = codec, !.open = TRUE, !.current = codec, !.hole = "yes",
            !.leaked = @ \/ d.open, !.shown = FALSE, !.refused = 0, !.steered = FALSE,
            !.awaiting = TRUE, !.call = Call("needKey", codec)]

\* Fault: a codec without a configuration is passed over in silence.
ProbeAnsweredFault(d, kind) ==
  IF kind = "noconfig" THEN [d EXCEPT !.probing = Null, !.fatal = TRUE]
  ELSE Configured([d EXCEPT !.probing = Null], d.probing)
\* The probe of initDecoder answers, for an engine of that kind.
ProbeAnswered(d, kind) ==
  LET codec == d.probing
      done == [d EXCEPT !.probing = Null]
      failing == [done EXCEPT !.failures = @ + 1]
  IN CASE kind = "noconfig" -> FocusError(done, codec)
       [] kind = "throws" -> IF failing.failures >= MaxFailures
                             THEN FocusError(failing, codec) ELSE failing
       [] OTHER -> Configured(done, codec)

\* A probe of an older generation answers: nobody listens.
LateAnswered(d, codec) == [d EXCEPT !.late = @ \ {codec}]

\* A unit lost on its way; the excused losses are those the code accepts.
Missing(d, excused) ==
  IF ~d.open \/ (excused /\ d.hole # "no") THEN d
  ELSE [d EXCEPT !.hole = IF excused THEN "excused" ELSE "yes"]

\* The hole a unit is decoded over: nothing for a keyframe; a delta may be the first
\* after a gap, or refer to units of another display than those decoded.
HoleUnder(d, unit) ==
  CASE unit.key -> "no"
    [] ~unit.key /\ unit.torn = "foreign" /\ d.hole # "yes" -> "foreign"
    [] ~unit.key /\ unit.torn = "paused" /\ d.hole = "no" -> "excused"
    [] OTHER -> d.hole

\* The engine takes the unit.
Decode(d, unit) ==
  [d EXCEPT !.queue = @ + 1, !.hole = HoleUnder(d, unit),
            !.mosaic = @ \/ HoleUnder(d, unit) = "yes",
            !.misfed = @ \/ unit.codec # d.engine]

\* decode() throws: after SteerBudget keyframes and no picture the stream is given up.
Refuse(d, unit) ==
  LET counts == unit.key /\ ~d.shown /\ ~d.steered
      over == counts /\ d.refused + 1 >= SteerBudget
  IN [d EXCEPT !.refused = IF over THEN 0 ELSE IF counts THEN @ + 1 ELSE @,
               !.steered = @ \/ over,
               !.call = IF over THEN Call("undecodable", unit.codec) ELSE @]

\* flushPending: the pending unit goes to the engine, or is dropped.
Flush(d, kind) ==
  LET unit == d.pending
      rest == Drop(d)
      fed == [rest EXCEPT !.awaiting = FALSE]
  IN CASE unit = Null -> d
       [] unit # Null /\ ~d.open -> Missing(rest, FALSE)
       [] unit # Null /\ d.open /\ d.awaiting /\ ~unit.key -> Missing(rest, FALSE)
       [] unit # Null /\ d.open /\ ~d.awaiting /\ ~unit.key /\ d.queue > Limit ->
            Missing(rest, TRUE)
       [] OTHER -> IF kind = "rejects" THEN Refuse(fed, unit) ELSE Decode(fed, unit)

\* The rebuild that handlePacket makes when one is due.
Rebuilt(d, codec) ==
  InitDecoder([Drop(d) EXCEPT !.rebuild = FALSE], IF d.current # Null THEN d.current ELSE codec)

\* handlePacket, for an engine whose kind of codec c is kind[c]
HandlePacket(d, unit, kind) ==
  LET known == IF unit.codec = d.current THEN d ELSE InitDecoder(d, unit.codec)
      ready == IF known.rebuild THEN Rebuilt(known, unit.codec) ELSE known
  IN CASE d.fatal -> d
       [] ~d.fatal /\ known.rebuild /\ known.lately -> Missing(known, FALSE)
       [] ~d.fatal /\ ~(known.rebuild /\ known.lately) /\ ~ready.open -> Missing(ready, FALSE)
       [] OTHER -> [Flush(ready, kind[ready.engine]) EXCEPT !.pending = unit]

\* The output callback: a picture, of another visible size perhaps.
Output(d, resized) ==
  LET stale == d.sized /\ resized IN
    [d EXCEPT !.queue = @ - 1, !.failures = 0, !.refused = 0, !.shown = TRUE,
              !.sized = TRUE, !.rebuild = @ \/ stale,
              !.call = IF stale THEN Call("reinit", d.engine) ELSE @]

\* The error callback; an engine that fails has closed itself.
EngineFails(d, kind) ==
  LET codec == d.engine
      closed == [d EXCEPT !.open = FALSE, !.queue = 0]
      failing == [closed EXCEPT !.failures = @ + 1]
  IN CASE d.fatal -> closed
       [] ~d.fatal /\ kind = "unsupported" -> Unsupported(closed, codec)
       [] ~d.fatal /\ kind # "unsupported" /\ failing.failures >= MaxFailures ->
            FocusError(failing, codec)
       [] OTHER -> [failing EXCEPT !.rebuild = TRUE, !.call = Call("reinit", codec)]
=============================================================================
