---------------------------- MODULE DeviceStream ----------------------------
(***************************************************************************)
(* The status stream singleton of the web client                           *)
(* (frontend/src/api/devices.ts): module-level variables shared by every   *)
(* mounted page that wants pushed statuses, and the connectStream calls    *)
(* running on them.  A call reads the shared variables again when its      *)
(* fetch or its reader settles, which is after the task that aborted it.   *)
(***************************************************************************)
EXTENDS Naturals, FiniteSets

CONSTANTS
  Consumers,  \* pages that may mount the hook with push mode enabled
  Streams,    \* bound: connectStream calls alive at one time
  MaxRetries, \* failures after which the delay grows no more
  MaxSwaps,   \* bound: page swaps before the stream has come to rest
  Null

ASSUME NullAssumption == Null \notin Streams
ASSUME StreamsAssumption == IsFiniteSet(Streams)
ASSUME MaxSwapsAssumption == MaxSwaps \in Nat
ASSUME MaxRetriesAssumption == MaxRetries \in Nat

VARIABLES
  mounted,     \* consumers whose effect has run: streamWanted is their number
  connected,   \* streamConnected
  controller,  \* streamController: the call whose request it aborts, or Null
  retries,     \* streamRetries, as far as it makes a difference to the delay
  timer,       \* a reconnect is scheduled in streamRetryTimer
  call,        \* [Streams -> "none", "fetching", "reading"]
  aborted,     \* calls whose controller was aborted
  active,      \* streamSnapshot.streamActive
  swaps        \* history: page swaps since the stream was last at rest

vars == <<mounted, connected, controller, retries, timer, call, aborted, active, swaps>>

Alive == {s \in Streams : call[s] # "none"}
Wanted == mounted # {}  \* streamWanted > 0

Init ==
  /\ mounted = {}
  /\ connected = FALSE
  /\ controller = Null
  /\ retries = 0
  /\ timer = FALSE
  /\ call = [s \in Streams |-> "none"]
  /\ aborted = {}
  /\ active = FALSE
  /\ swaps = 0

\* A page swap mounts a page before the call that the other one aborted has
\* settled.  The stream is at rest when it is stopped and no call is left.
Swap == swaps' = IF aborted # {} THEN swaps + 1 ELSE swaps
Settle == swaps' = IF ~connected' /\ Alive' = {} THEN 0 ELSE swaps

\* connectStream up to its first await.
Connect(s) ==
  /\ call[s] = "none"
  /\ call' = [call EXCEPT ![s] = "fetching"]
  /\ controller' = s

\* Fault: a start that does not look whether the stream is connected.
StartStreamFault ==
  /\ connected' = TRUE
  /\ retries' = 0
  /\ \E s \in Streams : Connect(s)

StartStream ==
  \/ /\ connected
     /\ UNCHANGED <<connected, retries, call, controller>>
  \/ /\ ~connected
     /\ connected' = TRUE
     /\ retries' = 0
     /\ \E s \in Streams : Connect(s)

\* Fault: the request is not aborted.
StopStreamLeakFault ==
  /\ connected' = FALSE
  /\ controller' = Null
  /\ timer' = FALSE
  /\ active' = FALSE
  /\ UNCHANGED aborted

\* Fault: the scheduled reconnect survives.
StopStreamFault ==
  /\ connected' = FALSE
  /\ aborted' = aborted \cup ({controller} \cap Alive)
  /\ controller' = Null
  /\ active' = FALSE
  /\ UNCHANGED timer

StopStream ==
  /\ connected' = FALSE
  /\ aborted' = aborted \cup ({controller} \cap Alive)
  /\ controller' = Null
  /\ timer' = FALSE
  /\ active' = FALSE

\* The effect of a page that wants the stream; in a page swap it runs in the
\* task that ran the cleanup of the other page.
Mount(c) ==
  /\ c \notin mounted
  /\ aborted # {} => swaps < MaxSwaps
  /\ mounted' = mounted \cup {c}
  /\ StartStream
  /\ Swap
  /\ UNCHANGED <<timer, aborted, active>>

\* Its cleanup.
Unmount(c) ==
  /\ c \in mounted
  /\ mounted' = mounted \ {c}
  /\ \/ /\ mounted # {c}
        /\ UNCHANGED <<connected, controller, timer, aborted, active>>
     \/ /\ mounted = {c}
        /\ StopStream
  /\ UNCHANGED <<retries, call>>
  /\ Settle

\* The response is there.
Opened(s) ==
  /\ call[s] = "fetching"
  /\ s \notin aborted
  /\ call' = [call EXCEPT ![s] = "reading"]
  /\ active' = TRUE
  /\ retries' = 0
  /\ UNCHANGED <<mounted, connected, controller, timer, aborted, swaps>>

\* A line of the stream that parses.
Frame(s) ==
  /\ call[s] = "reading"
  /\ s \notin aborted
  /\ active' = TRUE
  /\ UNCHANGED <<mounted, connected, controller, retries, timer, call, aborted, swaps>>

\* The finally clause, which asks the shared variable and not the call's own
\* controller whether the stream was stopped.
Reschedule(s) ==
  \/ /\ connected
     /\ active' = FALSE
     /\ timer' = TRUE
     /\ retries' = IF retries < MaxRetries THEN retries + 1 ELSE retries
  \/ /\ ~connected
     /\ UNCHANGED <<active, retries, timer>>

\* The request failed, was refused or aborted, or the stream came to its end.
Ended(s) ==
  /\ s \in Alive
  /\ Reschedule(s)
  /\ call' = [call EXCEPT ![s] = "none"]
  /\ aborted' = aborted \ {s}
  /\ UNCHANGED <<mounted, connected, controller>>
  /\ Settle

TimerFires ==
  /\ timer
  /\ timer' = FALSE
  /\ \/ /\ connected
        /\ \E s \in Streams : Connect(s)
     \/ /\ ~connected
        /\ UNCHANGED <<call, controller>>
  /\ UNCHANGED <<mounted, connected, retries, aborted, active, swaps>>

Next ==
  \/ \E c \in Consumers : Mount(c) \/ Unmount(c)
  \/ \E s \in Streams : Opened(s) \/ Frame(s) \/ Ended(s)
  \/ TimerFires

Spec == Init /\ [][Next]_vars

\* Timers fire and aborted requests settle; whether the server ever answers or
\* ends a stream is not ours to say.
Fairness ==
  /\ WF_vars(TimerFires)
  /\ \A s \in Streams : WF_vars(s \in aborted /\ Ended(s))

FairSpec == Spec /\ Fairness

-----------------------------------------------------------------------------
TypeOK ==
  /\ mounted \subseteq Consumers
  /\ connected \in BOOLEAN
  /\ controller \in Streams \cup {Null}
  /\ retries \in 0 .. MaxRetries
  /\ timer \in BOOLEAN
  /\ call \in [Streams -> {"none", "fetching", "reading"}]
  /\ aborted \subseteq Alive
  /\ active \in BOOLEAN
  /\ swaps \in 0 .. MaxSwaps

Running == Alive \ aborted

\* The pages share one stream: two connections never run at once (the comment on
\* the singleton).  A page swap refutes it.
SingleStream == \A s, t \in Running : s = t

\* What is left of it: however mounting, unmounting, failures and reconnects
\* interleave, each page swap costs at most one stream more, until all have ended
\* (startStream, stopStream, the finally clause of connectStream).
StreamPerSwap == Cardinality(Running) <= 1 + swaps

\* Once no page wants the stream nothing is scheduled, and nothing runs but the
\* streams that page swaps left behind: they are the ones stopStream cannot abort,
\* since streamController names another.
OnlyWhileWanted == ~Wanted => ~timer /\ Cardinality(Running) <= swaps

\* Once every page has gone, what is left of the stream goes too, but for those
\* streams, unless a page comes back.
Quiesces == ~Wanted ~> (Wanted \/ Cardinality(Alive) <= swaps)
=============================================================================
