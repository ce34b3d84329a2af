--------------------------- MODULE MCRemoteVideo ---------------------------
(***************************************************************************)
(* Instances of RemoteVideo, DisplaySwitch, StreamOptions, SessionVitals   *)
(* and SecureChannel for TLC.  A behaviour is about one of them: they      *)
(* share the session and no variable.  User and host interfere only in the *)
(* browsers of Attended, and a switch of the display not with a stray      *)
(* codec; what the session measures, and how auto mode acts upon it, take  *)
(* a scope each.                                                           *)
(***************************************************************************)
EXTENDS RemoteVideo, DisplaySwitch, StreamOptions, SessionVitals, SecureChannel, TLC

CONSTANTS vp9, vp8, Scopes, Attended

MCOrder == <<vp9, vp8>>
MCTargets == {Options(2, 15)}
MCStarts == {Rung(0, 30), Rung(3, 30)}
MCScales == {"link", "decoder"}

\* The first codec of one kind, the second of another.
Browser(first, second) == [c \in Codecs |-> IF c = vp9 THEN first ELSE second]
MCBrowsers == {Browser(k, "fine") : k \in Kinds \ {"fine"}}
                \cup {Browser("unsupported", "noconfig"), Browser("flaky", "rejects")}
MCHopeful == {Browser(k, "fine") : k \in {"unsupported", "noconfig", "rejects"}}
MCAttended == {Browser("throws", "fine"), Browser("unsupported", "noconfig")}

VARIABLE scope
MCvars == <<videoVars, displayVars, optionVars, vitalVars, channelVars, scope>>

\* What a behaviour is not about starts in one way.
MCInit ==
  /\ scope \in Scopes
  /\ VideoInit /\ DisplayInit /\ OptionsInit /\ VitalsInit
  /\ ChannelInit
  /\ scope # "video" =>
       /\ kind = Browser("throws", "fine") /\ session = NewSession(Null, Null, Codecs)
       /\ host.codec = vp9
  /\ scope # "displays" => displays = 1
  /\ scope # "channel" => greeting = "standard" /\ ~strayed
  /\ scope # "options" => knobs = Knobs(3, 30, AutoCodec)

VideoStep == /\ VideoNext /\ UNCHANGED <<displayVars, optionVars, vitalVars, channelVars>>
             /\ choices' > 0 \/ strays' > 0 => kind \in Attended
             /\ others' => strays' = 0

\* Probes and stalls are measured without auto mode; auto mode is fed by one probe
\* that is answered within the second, and by a picture that never stalls.
Measures == ~autoMode' /\ rtt' \in {"unknown", "good"}
Steers == /\ nudges' = 0 /\ videoAge' <= 2 /\ ~falseRtt'
          /\ mirrors' # <<>> => mirrors' = <<0>>

MCNext ==
  /\ UNCHANGED scope
  /\ \/ scope = "video" /\ VideoStep
     \/ scope = "displays" /\ DisplayNext /\ UNCHANGED <<videoVars, optionVars, vitalVars, channelVars>>
     \/ scope = "options" /\ OptionsNext /\ UNCHANGED <<videoVars, displayVars, vitalVars, channelVars>>
     \/ /\ scope \in {"probes", "steering"}
        /\ VitalsNext /\ UNCHANGED <<videoVars, displayVars, optionVars, channelVars>>
        /\ IF scope = "probes" THEN Measures ELSE Steers
     \/ scope = "channel" /\ ChannelNext /\ UNCHANGED <<videoVars, displayVars, optionVars, vitalVars>>

MCSpec == MCInit /\ [][MCNext]_MCvars
MCFairSpec == MCSpec /\ VideoFairness

Everything == {"video", "displays", "options", "probes", "steering", "channel"}
=============================================================================
