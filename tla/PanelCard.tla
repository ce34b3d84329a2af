----------------------------- MODULE PanelCard -----------------------------
(***************************************************************************)
(* The panel update card of frontend/src/pages/SettingsPage.tsx on the     *)
(* queries of frontend/src/api/panel.ts: what it shows of a runner that    *)
(* works behind its back, when it asks again, and which ends it tells.     *)
(*                                                                         *)
(* The runner is PanelUpdate's, reduced to the phases it reports.  It      *)
(* writes the status file in place; the backend reads a file that is being *)
(* written as "idle".  "reverted" is rolled_back with an error text.       *)
(***************************************************************************)
EXTENDS Naturals

CONSTANTS
  NoStatus,     \* no data
  NotAsked, Out,   \* the GET of the status: none, unanswered
  MaxRuns, MaxTrouble  \* bounds: runs, and kills, lost answers and closed pages

Runs == 0..MaxRuns
Working == {"building", "rollback"}       \* PANEL_ACTIVE_PHASES
Terminal == {"ok", "rolled_back", "reverted", "error"}
Mutations == {"apply", "rollback", "reset"}
NoRunner == [run |-> 0, stage |-> "none"]
Blank == [phase |-> "idle", run |-> 0]
StatusData == {Blank} \cup [phase : Working \cup Terminal, run : Runs]

ASSUME CardBoundsAssumption == MaxRuns \in Nat /\ MaxTrouble \in Nat
ASSUME CardValuesAssumption == {NoStatus, NotAsked, Out} \cap StatusData = {}

\* What a runner in a stage may report next; "apply" and "restore" are started
\* containers that have not reported yet.
Reports == [apply    |-> {"building"},
            building |-> {"rollback", "ok", "error"},
            restore  |-> {"rollback"},
            rollback |-> {"reverted", "rolled_back", "error"}]

VARIABLES
  file,      \* the status file: [phase, run]
  runner,    \* the runner container: [run, stage]
  runs,      \* runs launched so far
  open,      \* the card is mounted
  prev,      \* prevPhaseRef
  status,    \* usePanelUpdateStatus: the last answer, or NoStatus
  polling,   \* its GET: NotAsked, Out, or the status it read
  request,   \* [Mutations -> "none", "sent", "accepted", "refused"]
  awaited,   \* mutations pending in the mounted card: isPending
  told,      \* history: [Runs -> toasts about its end]
  watched,   \* history: runs seen at work, in this mount and without a break
  lostSight,   \* history: why the card may have lost sight of a run
  trouble

world == <<file, runner, runs>>
cardPage == <<open, prev, status, polling>>
cardHistory == <<told, watched, lostSight>>
cardVars == <<world, cardPage, request, awaited, cardHistory, trouble>>

CardInit ==
  /\ file \in {Blank, [phase |-> "ok", run |-> 0]}
  /\ runner = NoRunner /\ runs = 0
  /\ open = TRUE /\ prev = "idle"
  /\ status = NoStatus /\ polling = Out
  /\ request = [m \in Mutations |-> "none"] /\ awaited = {}
  /\ told = [i \in Runs |-> 0] /\ watched = {} /\ lostSight = FALSE
  /\ trouble = 0

Mishap == trouble < MaxTrouble /\ trouble' = trouble + 1

-----------------------------------------------------------------------------
(* The server and the runner. *)

AtWork == runner.run # 0 /\ runner.stage \notin Terminal

Report ==
  /\ AtWork
  /\ \E p \in Reports[runner.stage] :
       /\ runner' = [runner EXCEPT !.stage = p]
       /\ file' = [phase |-> p, run |-> runner.run]
  /\ UNCHANGED <<runs, cardPage, request, awaited, cardHistory, trouble>>

\* The container is removed after its last report, or killed before.
RunnerGone ==
  /\ runner.run # 0 /\ runner' = NoRunner
  /\ \/ ~AtWork /\ UNCHANGED <<lostSight, trouble>>
     \/ AtWork /\ Mishap /\ lostSight' = TRUE
  /\ UNCHANGED <<file, runs, cardPage, request, awaited, told, watched>>

Launch(stage) ==
  /\ runs < MaxRuns /\ runs' = runs + 1
  /\ runner' = [run |-> runs + 1, stage |-> stage]
  /\ UNCHANGED file

\* A reset removes the status.
Accepted(m) ==
  \/ m = "apply" /\ Launch("apply")
  \/ m = "rollback" /\ Launch("restore")
  \/ m = "reset" /\ file' = Blank /\ UNCHANGED <<runner, runs>>

HandleRequest(m) ==
  /\ request[m] = "sent"
  /\ \/ /\ runner.run = 0
        /\ Accepted(m)
        /\ request' = [request EXCEPT ![m] = "accepted"]
     \/ /\ runner.run # 0
        /\ request' = [request EXCEPT ![m] = "refused"]
        /\ UNCHANGED world
  /\ UNCHANGED <<cardPage, awaited, cardHistory, trouble>>

-----------------------------------------------------------------------------
(* The status query. *)

Phase == IF status = NoStatus THEN "idle" ELSE status.phase
Active == Phase \in Working

\* Fault: a phase is missing in PANEL_ACTIVE_PHASES.
PollsFault == "apply" \in awaited \/ Phase \in {"building", "error"}

\* refetchInterval.
Polls == "apply" \in awaited \/ Active \/ Phase = "error"

PollStatus ==
  /\ open /\ Polls /\ polling = NotAsked
  /\ polling' = Out
  /\ UNCHANGED <<world, open, prev, status, request, awaited, cardHistory, trouble>>

\* The refresh button; also the window that is focused after five minutes.
RefreshStatus ==
  /\ open /\ polling = NotAsked
  /\ polling' = Out
  /\ UNCHANGED <<world, open, prev, status, request, awaited, cardHistory, trouble>>

\* The handler reads the file, or finds it empty while the runner writes it.
StatusRead ==
  /\ polling = Out
  /\ polling' \in {file} \cup (IF AtWork THEN {Blank} ELSE {})
  /\ UNCHANGED <<world, open, prev, status, request, awaited, cardHistory, trouble>>

\* Fault: an end found on arrival is told.
TellsFault(p) == p \in Terminal

\* The effect on the phase: the end of a run is told unless the last phase shown
\* was that of a page without data.
Tells(p) == p \in Terminal /\ prev # "idle"

\* The error text is not part of the phase.
Bare(p) == IF p = "reverted" THEN "rolled_back" ELSE p

StatusShown ==
  /\ polling \notin {NotAsked, Out} /\ polling' = NotAsked
  /\ status' = polling
  /\ LET p == polling.phase
         blink == p = "idle" /\ Active IN
       /\ prev' = IF open THEN Bare(p) ELSE prev
       /\ told' = [told EXCEPT ![polling.run] =
                     IF open /\ Bare(p) # prev /\ Tells(p) THEN @ + 1 ELSE @]
       /\ watched' = IF ~open \/ blink THEN {}
                     ELSE watched \cup (IF p \in Working THEN {polling.run} ELSE {})
       /\ lostSight' = (lostSight \/ blink)
  /\ UNCHANGED <<world, open, request, awaited, trouble>>

\* No retry; what was shown stays.
StatusLost ==
  /\ polling # NotAsked /\ polling' = NotAsked
  /\ Mishap
  /\ UNCHANGED <<world, open, prev, status, request, awaited, cardHistory>>

-----------------------------------------------------------------------------
(* The card. *)

SendRequest(m) ==
  /\ open /\ m \notin awaited /\ request[m] = "none"
  /\ request' = [request EXCEPT ![m] = "sent"]
  /\ awaited' = awaited \cup {m}

\* The button that opens the dialog is disabled while a run is active, as is the first
\* click of a rollback; the one that confirms is not.
Apply ==
  /\ runs < MaxRuns
  /\ SendRequest("apply")
  /\ UNCHANGED <<world, cardPage, cardHistory, trouble>>

Rollback ==
  /\ runs < MaxRuns
  /\ SendRequest("rollback")
  /\ UNCHANGED <<world, cardPage, cardHistory, trouble>>

Reset ==
  /\ Phase # "idle"
  /\ SendRequest("reset")
  /\ UNCHANGED <<world, cardPage, cardHistory, trouble>>

\* An accepted call invalidates every panel query: the status is fetched again,
\* whatever is under way.
RequestAnswered(m) ==
  /\ request[m] \in {"accepted", "refused"}
  /\ request' = [request EXCEPT ![m] = "none"]
  /\ awaited' = awaited \ {m}
  /\ polling' = IF request[m] = "refused" THEN polling ELSE IF open THEN Out ELSE NotAsked
  /\ lostSight' = (lostSight \/ m = "reset")
  /\ UNCHANGED <<world, open, prev, status, told, watched, trouble>>

\* Another page of the panel, and back: the queries keep their data, the card's own
\* state starts anew.  A page that is loaded again starts without data.
Leave ==
  /\ open /\ Mishap
  /\ open' = FALSE /\ awaited' = {} /\ watched' = {}
  /\ lostSight' = TRUE
  /\ UNCHANGED <<world, prev, status, polling, request, told>>

Return ==
  /\ ~open
  /\ open' = TRUE
  /\ \E s \in {status, NoStatus} :
       /\ status' = s
       /\ prev' = IF s = NoStatus THEN "idle" ELSE Bare(s.phase)
       /\ polling' \in IF s = NoStatus THEN {Out} ELSE {polling, Out}
       /\ watched' = IF s # NoStatus /\ s.phase \in Working THEN {s.run} ELSE {}
  /\ lostSight' = (file.phase \in Working /\ ~AtWork)
  /\ UNCHANGED <<world, request, awaited, told, trouble>>

CardNext ==
  \/ Report \/ RunnerGone
  \/ PollStatus \/ RefreshStatus \/ StatusRead \/ StatusShown \/ StatusLost
  \/ Apply \/ Rollback \/ Reset
  \/ \E m \in Mutations : HandleRequest(m) \/ RequestAnswered(m)
  \/ Leave \/ Return

CardSpec == CardInit /\ [][CardNext]_cardVars

\* The timer of the query fires, the backend answers and the runner goes on.
CardFairness ==
  /\ WF_cardVars(PollStatus) /\ WF_cardVars(StatusRead) /\ WF_cardVars(StatusShown)
  /\ WF_cardVars(Report)

-----------------------------------------------------------------------------
\* The end of a run is told at most once, however often the page is left, loaded or
\* answered late; and it is told when the card saw the run at work and did not lose
\* sight of it.
EndsTold ==
  /\ \A i \in Runs : told[i] <= 1
  /\ status # NoStatus /\ open /\ status.phase \in Terminal /\ status.run \in watched
       => told[status.run] = 1

\* A card that shows a run at work comes to show the end of one without being asked,
\* through lost answers and restarts of the backend; not when the runner was killed,
\* the status was reset, the page was left or the file was read in the middle of a
\* write.
SeesTheEnd == open /\ Active /\ ~lostSight ~> lostSight \/ Phase \in Terminal

-----------------------------------------------------------------------------
(* What the source says, and TLC refutes. *)

\* "Active runs and stuck errors keep polling so the card follows the runner without a
\* page reload" (panel.ts, lines 71 and 72): a run that this card started is reported
\* after the answer was fetched again.
FollowsRunner == open /\ AtWork /\ polling = NotAsked /\ awaited = {} => Polls

\* "Genuine runs always pass through an active phase, so no legitimate toast is lost"
\* (lines 512 and 513).
NoToastLost == [][open /\ open' /\ status' # status /\ status'.phase \in Terminal
                    /\ (status # NoStatus => status.run # status'.run \/ Active)
                    /\ runs # 0 /\ status'.run = runs => told'[runs] = 1]_cardVars
=============================================================================
