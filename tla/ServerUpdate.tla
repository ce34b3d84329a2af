---------------------------- MODULE ServerUpdate ----------------------------
(***************************************************************************)
(* The update of the rendezvous and relay servers from the panel           *)
(* (backend/internal/update/service.go): Apply recreates a container from  *)
(* its own configuration with a newer image, over the Docker Engine API.   *)
(* Nothing serialises two calls; each engine request is one step and may   *)
(* be refused, or be carried out and its answer lost.                      *)
(***************************************************************************)
EXTENDS Naturals, FiniteSets

CONSTANTS
  Comps,       \* {hbbs, hbbr}
  Calls,       \* POST /updates/apply requests in progress at one time
  MaxVersion,  \* bound: releases published
  MaxFaults,   \* engine requests of one call that fail
  Faults,      \* what may go wrong, see FaultKinds
  Unknown,     \* the version presence.json does not give
  Null

FaultKinds ==
  {"hub", "inspect", "pull", "stop", "remove", "create", "start", "lost", "crash"}

ASSUME FaultsAssumption == Faults \subseteq FaultKinds /\ MaxFaults \in Nat
ASSUME VersionsAssumption ==
  MaxVersion \in Nat \ {0} /\ Unknown \notin Nat

VARIABLES
  container,  \* [Comps -> what runs under the component's name, or Null]
  hub,        \* newest version published
  tag,        \* tagsCache, or Unknown
  presence,   \* [Comps -> version in presence.json]
  call,       \* [Calls -> a call of Apply]
  harmed      \* history: components Apply's rollback cannot have saved

vars == <<container, hub, tag, presence, call, harmed>>

Versions == 1 .. MaxVersion

\* "by" stands for the container's id: the call that created it, as one name
\* never has two containers of one call.
Container == [image : Versions, up : BOOLEAN, by : Calls \cup {Null}]

ASSUME NullAssumption == Null \notin Comps \cup Container

\* What Apply returns: the new version, an error after a rollback, an error
\* before anything was touched, any other error.
Answered == {"ok", "rolledback", "refused", "failed"}

Working == {"inspect", "pull", "stop", "remove", "create", "start", "restore", "restart"}

Called(pc, c, new) == [pc |-> pc, comp |-> c, old |-> 1, new |-> new, faults |-> 0]
Idle == Called("idle", Null, 1)

Init ==
  /\ container = [c \in Comps |-> [image |-> 1, up |-> TRUE, by |-> Null]]
  /\ hub = 1
  /\ tag = Unknown
  /\ presence = [c \in Comps |-> 1]
  /\ call = [a \in Calls |-> Idle]
  /\ harmed = {}

At(a, pc) == call[a].pc = pc
Go(a, pc) == call' = [call EXCEPT ![a].pc = pc] /\ UNCHANGED harmed
Comp(a) == call[a].comp
Exists(a) == container[Comp(a)] # Null

\* What may go wrong at each request and still be made good: nothing is removed
\* yet, or the name is free for the rollback.
Harmless(pc, kind) ==
  \/ pc \in {"inspect", "pull", "stop"}
  \/ pc = "create" /\ kind = "create"

\* A request that is refused (which the context's six minutes being over amounts
\* to as well) or whose answer is lost: to Apply both are errors.
Fails(a, kind, pc) ==
  /\ kind \in Faults
  /\ call[a].faults < MaxFaults
  /\ call' = [call EXCEPT ![a] = [@ EXCEPT !.pc = pc, !.faults = call[a].faults + 1]]
  /\ harmed' = IF Harmless(call[a].pc, kind) THEN harmed ELSE harmed \cup {Comp(a)}

\* The engine carries out the request.
Done(a, next, failed) == Go(a, next) \/ Fails(a, "lost", failed)

-----------------------------------------------------------------------------
\* latestTag: the cached tag while it is fresh, else the hub's.
LatestTag == IF tag = Unknown THEN hub ELSE tag

\* The current version is what presence.json says, however old it is; an unknown
\* one does not stop the update.
Needless(c) == presence[c] # Unknown /\ presence[c] >= LatestTag

Begin(a, c) ==
  /\ call[a].pc \in {"idle"} \cup Answered
  /\ \/ /\ tag = Unknown
        /\ "hub" \in Faults
        /\ call' = [call EXCEPT ![a] = Called("refused", c, 1)]
        /\ UNCHANGED tag
     \/ /\ tag' = LatestTag
        /\ call' = [call EXCEPT ![a] =
             Called(IF Needless(c) THEN "refused" ELSE "inspect", c, LatestTag)]
  /\ UNCHANGED <<container, hub, presence, harmed>>

Inspect(a) ==
  /\ At(a, "inspect")
  /\ \/ /\ Exists(a)
        /\ call' = [call EXCEPT ![a] =
             [@ EXCEPT !.pc = "pull", !.old = container[Comp(a)].image]]
        /\ UNCHANGED harmed
     \/ ~Exists(a) /\ Go(a, "refused")
     \/ Fails(a, "inspect", "refused")
  /\ UNCHANGED <<container, hub, tag, presence>>

Pull(a) ==
  /\ At(a, "pull")
  /\ \/ Go(a, "stop")
     \/ Fails(a, "pull", "refused")
  /\ UNCHANGED <<container, hub, tag, presence>>

\* A failed stop is only logged.
Stop(a) ==
  /\ At(a, "stop")
  /\ \/ /\ Exists(a)
        /\ container' = [container EXCEPT ![Comp(a)].up = FALSE]
        /\ Done(a, "remove", "remove")
     \/ /\ \/ ~Exists(a) /\ Go(a, "remove")
           \/ Fails(a, "stop", "remove")
        /\ UNCHANGED container
  /\ UNCHANGED <<hub, tag, presence>>

Remove(a) ==
  /\ At(a, "remove")
  /\ \/ /\ Exists(a)
        /\ container' = [container EXCEPT ![Comp(a)] = Null]
        /\ Done(a, "create", "failed")
     \/ /\ \/ ~Exists(a) /\ Go(a, "failed")
           \/ Fails(a, "remove", "failed")
        /\ UNCHANGED container
  /\ UNCHANGED <<hub, tag, presence>>

\* createContainer under the component's name, which must be free.
CreateAs(a, image, next, failed) ==
  /\ \/ /\ ~Exists(a)
        /\ container' = [container EXCEPT ![Comp(a)] = [image |-> image, up |-> FALSE, by |-> a]]
        /\ Done(a, next, failed)
     \/ /\ \/ Exists(a) /\ Go(a, failed)
           \/ Fails(a, "create", failed)
        /\ UNCHANGED container
  /\ UNCHANGED <<hub, tag, presence>>

Create(a) ==
  /\ At(a, "create")
  /\ CreateAs(a, call[a].new, "start", "restore")

\* startContainer of whatever "found" says is there to be started.
StartAs(a, found, next, failed) ==
  /\ \/ /\ found
        /\ container' = [container EXCEPT ![Comp(a)].up = TRUE]
        /\ Done(a, next, failed)
     \/ /\ \/ ~found /\ Go(a, failed)
           \/ Fails(a, "start", failed)
        /\ UNCHANGED container
  /\ UNCHANGED <<hub, tag, presence>>

\* Fault: a start that fails is not an error.
StartFault(a) ==
  /\ At(a, "start")
  /\ StartAs(a, Exists(a), "ok", "ok")

\* By name.
Start(a) ==
  /\ At(a, "start")
  /\ StartAs(a, Exists(a), "ok", "restore")

\* Fault: the rollback recreates the container from the new definition.
RestoreImageFault(a) ==
  /\ At(a, "restore")
  /\ CreateAs(a, call[a].new, "restart", "failed")

\* Fault: the rollback tries for ever.
RestoreLoopFault(a) ==
  /\ At(a, "restore")
  /\ CreateAs(a, call[a].old, "restart", "restore")

\* rollback: nothing is removed first.
Restore(a) ==
  /\ At(a, "restore")
  /\ CreateAs(a, call[a].old, "restart", "failed")

\* By the id the creation returned.
Restart(a) ==
  /\ At(a, "restart")
  /\ StartAs(a, Exists(a) /\ container[Comp(a)].by = a, "rolledback", "failed")

Step(a) ==
  \/ Inspect(a) \/ Pull(a) \/ Stop(a) \/ Remove(a) \/ Create(a) \/ Start(a)
  \/ Restore(a) \/ Restart(a)

\* The presence sidecar inspects both containers and writes the snapshot.
Sample ==
  /\ presence' = [c \in Comps |-> IF container[c] = Null THEN Unknown ELSE container[c].image]
  /\ UNCHANGED <<container, hub, tag, call, harmed>>

Publish ==
  /\ hub < MaxVersion
  /\ hub' = hub + 1
  /\ UNCHANGED <<container, tag, presence, call, harmed>>

\* An hour has passed since the cache was filled.
CacheExpires ==
  /\ tag # Unknown
  /\ tag' = Unknown
  /\ UNCHANGED <<container, hub, presence, call, harmed>>

\* The backend restarts: its calls and its cache are gone.
Crash ==
  /\ "crash" \in Faults
  /\ call' = [a \in Calls |-> Idle]
  /\ harmed' = harmed \cup {Comp(a) : a \in {b \in Calls : call[b].pc \in Working}}
  /\ tag' = Unknown
  /\ UNCHANGED <<container, hub, presence>>

Next ==
  \/ \E a \in Calls : (\E c \in Comps : Begin(a, c)) \/ Step(a)
  \/ Sample \/ Publish \/ CacheExpires \/ Crash

Spec == Init /\ [][Next]_vars

\* Every engine request is answered, or given up at its timeout.
FairSpec == Spec /\ \A a \in Calls : WF_vars(Step(a))

-----------------------------------------------------------------------------
TypeOK ==
  /\ container \in [Comps -> Container \cup {Null}]
  /\ hub \in Versions
  /\ tag \in Versions \cup {Unknown}
  /\ presence \in [Comps -> Versions \cup {Unknown}]
  /\ call \in [Calls -> [pc : Answered \cup Working \cup {"idle"}, comp : Comps \cup {Null},
                         old : Versions, new : Versions, faults : 0 .. MaxFaults]]
  /\ harmed \subseteq Comps

Runs(c, image) ==
  /\ container[c] # Null
  /\ container[c].up
  /\ container[c].image = image

\* No other call was made since the backend started.
Alone(a) == \A b \in Calls \ {a} : call[b].pc = "idle"

\* A call that fails leaves the component running on its previous image, if no
\* other call is about: a pull, a stop or the creation that fails is made good.
\* (Not so a request after these, or one whose answer is lost, see RollsBack.)
RollsBackUnharmed ==
  \A a \in Calls :
    call[a].pc \in {"rolledback", "failed"} /\ Alone(a) /\ Comp(a) \notin harmed
      => Runs(Comp(a), call[a].old)

\* The answer tells what runs at that moment: a call answers with the new version
\* only as the component runs on it, and with a rollback only as it runs on the
\* previous one.  (Calls on one component that overlap can be answered wrongly.)
AnswerHonest ==
  [][\A a \in Calls :
       Alone(a) /\ call'[a].pc # call[a].pc =>
         /\ call'[a].pc = "ok" => Runs(Comp(a), call[a].new)'
         /\ call'[a].pc = "rolledback" => Runs(Comp(a), call[a].old)']_vars

\* However the calls of several administrators race, once all are answered each
\* component runs: the last one to remove a container also leaves one running.
QuietMeansUp ==
  (\A a \in Calls : call[a].pc \notin Working)
    => \A c \in Comps \ harmed : container[c] # Null /\ container[c].up

\* No update leaves the panel's users without a server: not one that fails, not many
\* that race.
ServersSurvive == RollsBackUnharmed /\ QuietMeansUp

\* Every request to update is answered, whatever the engine does
\* (Apply's context bounds each of them).
AlwaysAnswered == \A a \in Calls : call[a].pc \in Working ~> call[a].pc \notin Working

-----------------------------------------------------------------------------
\* The comment on Apply says so of any failure: it rolls back to the previous
\* image and container definition.  The code does not.
RollsBack ==
  \A a \in Calls : call[a].pc \in {"rolledback", "failed"} => Runs(Comp(a), call[a].old)
=============================================================================
