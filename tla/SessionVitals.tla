--------------------------- MODULE SessionVitals ---------------------------
(***************************************************************************)
(* What a session (frontend/src/lib/rustdesk/session.ts) measures, and     *)
(* what it does about it: the probe of the round trip, the watchdog that   *)
(* nudges a host whose picture stalls, and auto mode, which moves quality  *)
(* and frame rate between rungs.                                           *)
(*                                                                         *)
(* Time goes by the second; the timers of a second run in any order, and   *)
(* none is late.  Throughput and round trip are in the bands that          *)
(* selectAutoTarget tells apart.  The host mirrors every probe that reaches *)
(* it, in order, at once or after any time.                                *)
(***************************************************************************)
EXTENDS Integers, Sequences

CONSTANTS
  Starts,      \* [quality, fps] of the options auto mode may start from
  MaxMirrors,   \* Bound: probes that the host has yet to echo
  Scales       \* Bound: which measurements vary, of "link" and "decoder"

\* A quality is a value of the enum ImageQuality that the toolbar offers, or 0.
ASSUME StartsAssumption == Starts \subseteq [quality : {0, 2, 3, 4}, fps : Nat]

VARIABLES
  up,          \* connected; before that there is no relay to probe through
  due,         \* the timers of this second that have yet to run
  even,        \* the probe is due every other second
  pingAge,     \* seconds since pingSentAt, or NoProbe
  mirrors,      \* seconds since each probe the host has yet to echo was sent
  rtt,         \* band of pingRttMs: "unknown", "good", "fair", "bad"
  videoAge,    \* seconds since lastVideoAt, up to the limit; or NoFrame
  videoStallNotified,
  frameCount,  \* a frame has come since the last tick
  lastTickHadFrames,
  autoMode, target, autoDiffTicks, autoStuckTicks,
  cooldown,    \* seconds until autoCooldownUntil
  nudges,      \* history: nudges since the last frame
  ups,         \* history: ticks of auto mode in a row that asked for more
  falseRtt     \* history: an echo was taken for that of a later probe

linkVars == <<pingAge, mirrors, rtt, falseRtt>>
videoVitals == <<videoAge, videoStallNotified, frameCount, lastTickHadFrames, nudges>>
autoVars == <<autoMode, target, autoDiffTicks, autoStuckTicks, cooldown, ups>>
vitalVars == <<up, due, even, linkVars, videoVitals, autoVars>>

NoProbe == -1
NoFrame == -1
ProbeLimit == 10   \* seconds after which a probe is given up
RttLimit == 5      \* seconds above which a round trip is not used
StallLimit == 4    \* seconds without a frame

Rung(quality, fps) == [quality |-> quality, fps |-> fps]
Above(a, b) == a.quality * 1000 + a.fps > b.quality * 1000 + b.fps

-----------------------------------------------------------------------------
(* The target of auto mode. *)

\* By throughput ("low" below 1200 kbit/s, "high" from 3200) and round trip.
Band(kbps) ==
  CASE kbps = "low" \/ rtt = "bad"  -> Rung(2, 15)
    [] kbps = "mid" \/ rtt = "fair" -> Rung(3, 30)
    [] OTHER                        -> Rung(4, 60)

StepDown(rung) ==
  CASE rung.quality = 4 -> Rung(3, 30)
    [] rung.quality = 3 -> Rung(2, 15)
    [] OTHER            -> rung

\* Two ticks of a stuck queue call for the deepest rung; an unknown round trip is no
\* reason to climb; a strained decoder costs one rung.
SelectAutoTarget(kbps, strained, stuckTicks) ==
  LET banded == Band(kbps)
      held == IF rtt = "unknown" /\ Above(banded, target) THEN target ELSE banded
  IN  IF stuckTicks >= 2 THEN Rung(1, 10)
      ELSE IF strained THEN StepDown(held) ELSE held

\* Ticks that must ask for another rung: more to climb than to descend.
AutoDiffNeed(current, next) ==
  IF current.quality # 0 /\ Above(next, current) THEN 6 ELSE 3

\* pickAutoTarget: a queue that waits more than 300 ms is stuck, and strains the
\* decoder.
StuckTicks(stuck) == IF ~stuck THEN 0 ELSE IF autoStuckTicks >= 2 THEN 2 ELSE autoStuckTicks + 1

-----------------------------------------------------------------------------
(* Timers. *)

\* A second goes by.
Second ==
  /\ due = {}
  /\ even' = ~even
  /\ due' = {"stats"} \cup (IF even' THEN {"ping"} ELSE {}) \cup (IF autoMode THEN {"auto"} ELSE {})
  /\ pingAge' = IF pingAge = NoProbe \/ pingAge > ProbeLimit THEN pingAge ELSE pingAge + 1
  /\ mirrors' = [i \in DOMAIN mirrors |->
                  IF mirrors[i] > RttLimit THEN mirrors[i] ELSE mirrors[i] + 1]
  /\ videoAge' = IF videoAge \in {NoFrame, StallLimit} THEN videoAge ELSE videoAge + 1
  /\ cooldown' = IF cooldown = 0 THEN 0 ELSE cooldown - 1
  /\ UNCHANGED <<up, rtt, falseRtt, videoStallNotified, frameCount, lastTickHadFrames, nudges,
                 autoMode, target, autoDiffTicks, autoStuckTicks, ups>>

\* pingTimer: one probe at a time.  One that is sent before there is a relay is lost.
PingTick ==
  /\ "ping" \in due /\ due' = due \ {"ping"}
  /\ IF pingAge # NoProbe
       THEN /\ pingAge' = IF pingAge > ProbeLimit THEN NoProbe ELSE pingAge
            /\ UNCHANGED mirrors
       ELSE /\ Len(mirrors) < MaxMirrors
            /\ pingAge' = 0 /\ mirrors' = IF up THEN Append(mirrors, 0) ELSE mirrors
  /\ UNCHANGED <<up, even, rtt, falseRtt, videoVitals, autoVars>>

\* test_delay: the oldest probe comes back, and is measured against the one sent last.
\* The average of the round trips may end in any band.
TestDelay ==
  /\ up /\ mirrors # <<>> /\ mirrors' = Tail(mirrors)
  /\ pingAge' = NoProbe
  /\ IF pingAge \in 0..RttLimit
       THEN /\ rtt' \in IF "link" \in Scales THEN {"good", "fair", "bad"} ELSE {"good"}
            /\ falseRtt' = (falseRtt \/ Head(mirrors) # pingAge)
       ELSE UNCHANGED <<rtt, falseRtt>>
  /\ UNCHANGED <<up, due, even, videoVitals, autoVars>>

\* Fault: the watchdog forgets that it has nudged.
StatsTickFault ==
  /\ "stats" \in due /\ due' = due \ {"stats"}
  /\ nudges' = IF up /\ videoAge = StallLimit THEN nudges + 1 ELSE nudges
  /\ videoStallNotified' = FALSE
  /\ lastTickHadFrames' = frameCount /\ frameCount' = FALSE
  /\ UNCHANGED <<up, even, linkVars, videoAge, autoVars>>

\* statsTimer: the watchdog nudges once per stall; the throughput is measured, and
\* whether frames came at all.
StatsTick ==
  /\ "stats" \in due /\ due' = due \ {"stats"}
  /\ LET stalled == up /\ videoAge = StallLimit
     IN  /\ nudges' = IF stalled /\ ~videoStallNotified THEN nudges + 1 ELSE nudges
         /\ videoStallNotified' = stalled
  /\ lastTickHadFrames' = frameCount /\ frameCount' = FALSE
  /\ UNCHANGED <<up, even, linkVars, videoAge, autoVars>>

\* autoTimer: what is measured must ask for another rung long enough.  Seconds
\* without a frame say nothing.
AutoTimer(kbps, strained, stuck) ==
  /\ "auto" \in due /\ due' = due \ {"auto"}
  /\ UNCHANGED <<up, even, linkVars, videoVitals, autoMode>>
  /\ IF cooldown > 0
       THEN UNCHANGED <<target, autoDiffTicks, autoStuckTicks, cooldown, ups>>
     ELSE IF ~lastTickHadFrames
       THEN autoDiffTicks' = 0 /\ ups' = 0 /\ UNCHANGED <<target, autoStuckTicks, cooldown>>
     ELSE LET next == SelectAutoTarget(kbps, strained \/ stuck, StuckTicks(stuck))
              told == autoDiffTicks + 1 >= AutoDiffNeed(target, next)
          IN  /\ autoStuckTicks' = StuckTicks(stuck)
              /\ IF next = target
                   THEN autoDiffTicks' = 0 /\ ups' = 0 /\ UNCHANGED <<target, cooldown>>
                 ELSE IF told
                   THEN autoDiffTicks' = 0 /\ ups' = 0 /\ target' = next /\ cooldown' = 6
                 ELSE /\ autoDiffTicks' = autoDiffTicks + 1
                      /\ ups' = IF Above(next, target) THEN ups + 1 ELSE 0
                      /\ UNCHANGED <<target, cooldown>>

\* setAutoMode: eight seconds of grace, from the options of the session.
SetAutoMode(enabled) ==
  /\ up /\ enabled # autoMode
  /\ autoMode' = enabled /\ due' = due \ {"auto"}
  /\ IF enabled
       THEN /\ target' \in Starts /\ autoDiffTicks' = 0 /\ autoStuckTicks' = 0
            /\ cooldown' = 8 /\ ups' = 0
       ELSE UNCHANGED <<target, autoDiffTicks, autoStuckTicks, cooldown, ups>>
  /\ UNCHANGED <<up, even, linkVars, videoVitals>>

\* handleLoginResponse; the timers run since connect().
LoggedIn ==
  /\ ~up /\ up' = TRUE
  /\ UNCHANGED <<due, even, linkVars, videoVitals, autoVars>>

\* handleVideoFrame
FrameTimed ==
  /\ up /\ videoAge' = 0 /\ frameCount' = TRUE /\ nudges' = 0
  /\ videoAge # 0 \/ ~frameCount
  /\ UNCHANGED <<up, due, even, linkVars, videoStallNotified, lastTickHadFrames, autoVars>>

VitalsInit ==
  /\ up = FALSE /\ due = {} /\ even = FALSE
  /\ pingAge = NoProbe /\ mirrors = <<>> /\ rtt = "unknown"
  /\ videoAge = NoFrame /\ videoStallNotified = FALSE
  /\ frameCount = FALSE /\ lastTickHadFrames = FALSE
  /\ autoMode = FALSE /\ target = Rung(3, 30) /\ autoDiffTicks = 0 /\ autoStuckTicks = 0
  /\ cooldown = 0
  /\ nudges = 0 /\ ups = 0 /\ falseRtt = FALSE

VitalsNext ==
  \/ Second \/ PingTick \/ TestDelay \/ StatsTick \/ LoggedIn \/ FrameTimed
  \/ \E kbps \in IF "link" \in Scales THEN {"low", "mid", "high"} ELSE {"high"},
        strained, stuck \in IF "decoder" \in Scales THEN BOOLEAN ELSE {FALSE} :
       AutoTimer(kbps, strained, stuck)
  \/ \E enabled \in BOOLEAN : SetAutoMode(enabled)

VitalsSpec == VitalsInit /\ [][VitalsNext]_vitalVars

-----------------------------------------------------------------------------
\* session.ts on the watchdog: it fires once per stall.  However its ticks fall among
\* late frames, one stall is worth one nudge.
OneNudge == nudges <= 1

\* session.ts on autoDiffNeed: upshifts need a sustained signal.  The ticks counted may
\* disagree among themselves; yet whoever climbs has been asked to for at least the
\* last four ticks, each with frames, by a round trip that is known.
SteadyClimb ==
  autoDiffTicks >= 3 =>
    target.quality # 0 /\ ups >= autoDiffTicks - 2 /\ rtt # "unknown"

\* What is measured is acted upon once, and never in haste.
WellMeasured == OneNudge /\ SteadyClimb

-----------------------------------------------------------------------------
(* What comments in the source say, and TLC refutes. *)

\* "Only one probe in flight; drop it if it never came back" (1431): a probe that was
\* dropped comes back, and is measured as the next one.
RttIsTrue == ~falseRtt
=============================================================================
