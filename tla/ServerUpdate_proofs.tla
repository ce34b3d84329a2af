------------------------ MODULE ServerUpdate_proofs ------------------------
(***************************************************************************)
(* What holds of ServerUpdate for any number of components, calls and      *)
(* versions.                                                               *)
(***************************************************************************)
EXTENDS ServerUpdate, TLAPS

-----------------------------------------------------------------------------
(* Types. *)

\* A call at work has a component.
Busy == \A a \in Calls : call[a].pc \in Working => Comp(a) \in Comps

TInv == TypeOK /\ Busy

PCs == Answered \cup Working \cup {"idle"}
CallType == [pc : PCs, comp : Comps \cup {Null}, old : Versions, new : Versions, faults : 0 .. MaxFaults]

\* What a request of the engine does to the calls, whether it is answered or fails.
Moves(a, pc) ==
  /\ call' \in [Calls -> CallType]
  /\ call'[a].pc = pc
  /\ call'[a].comp = call[a].comp
  /\ \A b \in Calls \ {a} : call'[b] = call[b]
  /\ harmed' \in {harmed, harmed \cup {Comp(a)}}

LEMMA GoMoves ==
  ASSUME call \in [Calls -> CallType], NEW a \in Calls, NEW pc \in PCs, Go(a, pc)
  PROVE  Moves(a, pc)
BY DEF Go, Moves, CallType

LEMMA FailsMoves ==
  ASSUME call \in [Calls -> CallType], NEW a \in Calls, NEW pc \in PCs, NEW kind, Fails(a, kind, pc)
  PROVE  Moves(a, pc)
<1> DEFINE r == [call[a] EXCEPT !.pc = pc, !.faults = call[a].faults + 1]
<1>1. r \in CallType /\ r.pc = pc /\ r.comp = call[a].comp
  <2>1. call[a] \in CallType /\ call[a].faults + 1 \in 0 .. MaxFaults
    BY FaultsAssumption DEF Fails, CallType
  <2> QED
    BY <2>1 DEF CallType
<1>2. call' = [call EXCEPT ![a] = r] /\ harmed' \in {harmed, harmed \cup {Comp(a)}}
  BY DEF Fails
<1> HIDE DEF r
<1> QED
  BY <1>1, <1>2 DEF Moves

\* A container that is stopped or started is one, and so is one just created.
LEMMA UpType ==
  ASSUME NEW k \in Container, NEW b \in BOOLEAN
  PROVE  /\ [k EXCEPT !.up = b] \in Container
         /\ [k EXCEPT !.up = b] # Null
         /\ [k EXCEPT !.up = b].up = b
<1>1. [k EXCEPT !.up = b] \in Container /\ [k EXCEPT !.up = b].up = b
  BY DEF Container
<1> QED
  BY <1>1, NullAssumption

LEMMA NewType ==
  ASSUME NEW image \in Versions, NEW a \in Calls
  PROVE  /\ [image |-> image, up |-> FALSE, by |-> a] \in Container
         /\ [image |-> image, up |-> FALSE, by |-> a] # Null
<1>1. [image |-> image, up |-> FALSE, by |-> a] \in Container
  BY DEF Container
<1> QED
  BY <1>1, NullAssumption

\* Nothing that goes wrong on another component harms c; on its own, what goes
\* wrong before it is saved again does.
LEMMA FailsHarms ==
  ASSUME NEW a \in Calls, NEW kind, NEW pc, Fails(a, kind, pc), Comp(a) \notin harmed'
  PROVE  Harmless(call[a].pc, kind)
BY DEF Fails

LEMMA TypeInit == Init => TInv
BY VersionsAssumption, FaultsAssumption
   DEF Init, TInv, TypeOK, Busy, Idle, Called, Container, Versions, Answered, Working, Comp

\* A step of Apply moves its call on and touches no container but its own.
LEMMA StepMoves ==
  ASSUME TInv, NEW a \in Calls, Step(a)
  PROVE  /\ \E pc \in PCs : Moves(a, pc)
         /\ call[a].pc \in Working /\ Comp(a) \in Comps
         /\ container' \in [Comps -> Container \cup {Null}]
         /\ \A c \in Comps \ {Comp(a)} : container'[c] = container[c]
         /\ UNCHANGED <<hub, tag, presence>>
<1> DEFINE Goal ==
      /\ \E pc \in PCs : Moves(a, pc)
      /\ container' \in [Comps -> Container \cup {Null}]
      /\ \A c \in Comps \ {Comp(a)} : container'[c] = container[c]
      /\ UNCHANGED <<hub, tag, presence>>
<1>0. /\ call[a].pc \in Working /\ Comp(a) \in Comps
      /\ call[a].old \in Versions /\ call[a].new \in Versions
      /\ call \in [Calls -> CallType]
      /\ container \in [Comps -> Container \cup {Null}]
  BY DEF Step, Inspect, Pull, Stop, Remove, Create, Start, Restore, Restart, At, TInv, TypeOK, Busy,
         Working, CallType, PCs
<1> USE DEF PCs, Answered, Working
<1>1. CASE Inspect(a)
  <2>1. ASSUME Exists(a), call' = [call EXCEPT ![a] =
                 [@ EXCEPT !.pc = "pull", !.old = container[Comp(a)].image]],
               UNCHANGED harmed
        PROVE  Moves(a, "pull")
    <3> DEFINE r == [call[a] EXCEPT !.pc = "pull", !.old = container[Comp(a)].image]
    <3>1. container[Comp(a)].image \in Versions
      BY <1>0, <2>1 DEF Exists, Container
    <3>2. r \in CallType /\ r.pc = "pull" /\ r.comp = call[a].comp
      BY <1>0, <3>1 DEF CallType
    <3>3. call' = [call EXCEPT ![a] = r]
      BY <2>1
    <3> HIDE DEF r
    <3> QED
      BY <1>0, <2>1, <3>2, <3>3 DEF Moves
  <2> QED
    BY <1>0, <1>1, <2>1, GoMoves, FailsMoves DEF Inspect
<1>2. CASE Pull(a)
  BY <1>0, <1>2, GoMoves, FailsMoves DEF Pull
<1>3. CASE Stop(a)
  <2>1. ASSUME Exists(a), container' = [container EXCEPT ![Comp(a)].up = FALSE]
        PROVE  /\ container' \in [Comps -> Container \cup {Null}]
               /\ \A c \in Comps \ {Comp(a)} : container'[c] = container[c]
    <3>1. container[Comp(a)] \in Container
      BY <1>0, <2>1 DEF Exists
    <3>2. container' = [container EXCEPT ![Comp(a)] = [container[Comp(a)] EXCEPT !.up = FALSE]]
      BY <2>1
    <3> QED
      BY <1>0, <3>1, <3>2, UpType
  <2> QED
    BY <1>0, <1>3, <2>1, GoMoves, FailsMoves DEF Stop, Done
<1>4. CASE Remove(a)
  BY <1>0, <1>4, GoMoves, FailsMoves DEF Remove, Done, Exists
<1>5. ASSUME NEW image \in Versions, NEW next \in PCs, NEW failed \in PCs,
             CreateAs(a, image, next, failed)
      PROVE  Goal
  BY <1>0, <1>5, GoMoves, FailsMoves, NewType DEF CreateAs, Done, Exists
<1>6. ASSUME NEW found \in BOOLEAN, NEW next \in PCs, NEW failed \in PCs,
             StartAs(a, found, next, failed), found => Exists(a)
      PROVE  Goal
  BY <1>0, <1>6, GoMoves, FailsMoves, UpType DEF StartAs, Done, Exists
<1>7. CASE Create(a) \/ Restore(a)
  BY <1>0, <1>5, <1>7 DEF Create, Restore
<1>8. CASE Start(a) \/ Restart(a)
  BY <1>0, <1>6, <1>8 DEF Start, Restart, Exists
<1> QED
  BY <1>0, <1>1, <1>2, <1>3, <1>4, <1>7, <1>8 DEF Step

LEMMA TypeNext == TInv /\ [Next]_vars => TInv'
<1> SUFFICES ASSUME TInv, [Next]_vars PROVE TInv'
    OBVIOUS
<1> USE VersionsAssumption, FaultsAssumption DEF TInv, TypeOK, Busy, Versions, Comp
<1>0. harmed' \subseteq Comps
  <2>1. ASSUME NEW a \in Calls, Step(a) PROVE harmed' \subseteq Comps
    BY <2>1, StepMoves DEF Moves
  <2> QED
    BY <2>1 DEF Next, Begin, Sample, Publish, CacheExpires, Crash, vars
<1>1. ASSUME NEW a \in Calls, NEW c \in Comps, Begin(a, c) PROVE TInv'
  <2>1. /\ tag' \in Versions \cup {Unknown}
        /\ call' \in [Calls -> CallType]
        /\ \A b \in Calls : call'[b].pc \in Working => call'[b].comp \in Comps
    <3>1. LatestTag \in Versions
      BY DEF LatestTag
    <3>2. \A pc \in {"refused", "inspect"}, new \in Versions :
             Called(pc, c, new) \in CallType /\ Called(pc, c, new).comp = c
      BY DEF Called, CallType, PCs, Answered, Working
    <3>3. /\ tag' \in Versions \cup {Unknown}
          /\ \E pc \in {"refused", "inspect"}, new \in Versions :
                call' = [call EXCEPT ![a] = Called(pc, c, new)]
      BY <1>1, <3>1 DEF Begin
    <3>4. call \in [Calls -> CallType]
      BY DEF CallType, PCs
    <3> QED
      BY <3>2, <3>3, <3>4
  <2> QED
    BY <1>0, <1>1, <2>1 DEF Begin, CallType, PCs
<1>2. ASSUME NEW a \in Calls, Step(a) PROVE TInv'
  <2>1. PICK pc \in PCs : Moves(a, pc)
    BY <1>2, StepMoves
  <2>2. \A b \in Calls : call'[b].pc \in Working => call'[b].comp \in Comps
    BY <1>2, <2>1, StepMoves DEF Moves
  <2> QED
    BY <1>0, <1>2, <2>1, <2>2, StepMoves DEF Moves, CallType, PCs
<1>3. CASE Sample
  BY <1>0, <1>3 DEF Sample, Container
<1>4. CASE Publish
  BY <1>0, <1>4 DEF Publish
<1>5. CASE CacheExpires
  BY <1>0, <1>5 DEF CacheExpires
<1>6. CASE Crash
  BY <1>0, <1>6 DEF Crash, Idle, Called, Working
<1>7. CASE UNCHANGED vars
  BY <1>0, <1>7 DEF vars
<1> QED
  BY <1>1, <1>2, <1>3, <1>4, <1>5, <1>6, <1>7 DEF Next

\* Every variable keeps its type, for any number of calls and versions.
THEOREM TypeCorrect == Spec => []TypeOK
<1>1. Spec => []TInv
  BY TypeInit, TypeNext, PTL DEF Spec
<1> QED
  BY <1>1, PTL DEF TInv

-----------------------------------------------------------------------------
(* Calls that race leave every component running. *)

\* The call is about to create a container, about to start what is there or to
\* remove it.
Creates(a) == call[a].pc \in {"create", "restore"}
Revives(a) ==
  \/ call[a].pc \in {"remove", "start"}
  \/ call[a].pc = "restart" /\ container[Comp(a)].by = a

\* Why QuietMeansUp is kept: whoever left a component without a running
\* container, or a call that took over from him, has a step to go that ends it.
Owned(c) ==
  /\ container[c] = Null => \E a \in Calls : Comp(a) = c /\ Creates(a)
  /\ container[c] # Null /\ ~container[c].up => \E a \in Calls : Comp(a) = c /\ Revives(a)

IInv == \A c \in Comps \ harmed : Owned(c)

\* A step of a leaves a component Owned if it does not touch its container and a
\* is not one of the calls it depends on.
LEMMA Untouched ==
  ASSUME TInv, NEW a \in Calls, NEW c \in Comps, Owned(c),
         container'[c] = container[c],
         \A b \in Calls \ {a} : call'[b] = call[b],
         ~(Comp(a) = c /\ (Creates(a) \/ Revives(a)))
  PROVE  Owned(c)'
<1>1. ASSUME container[c] = Null PROVE Owned(c)'
  <2>1. PICK b \in Calls : Comp(b) = c /\ Creates(b)
    BY <1>1 DEF Owned
  <2>2. b # a /\ call'[b] = call[b]
    BY <2>1
  <2> QED
    BY <1>1, <2>1, <2>2 DEF Owned, Comp, Creates
<1>2. ASSUME container[c] # Null, ~container[c].up PROVE Owned(c)'
  <2>1. PICK b \in Calls : Comp(b) = c /\ Revives(b)
    BY <1>2 DEF Owned
  <2>2. b # a /\ call'[b] = call[b]
    BY <2>1
  <2> QED
    BY <1>2, <2>1, <2>2 DEF Owned, Comp, Revives
<1> QED
  BY <1>1, <1>2 DEF Owned

LEMMA StepOwned ==
  ASSUME TInv, IInv, NEW a \in Calls, Step(a), NEW c \in Comps, c \notin harmed'
  PROVE  Owned(c)'
<1> USE DEF TInv, TypeOK, Busy, Working, At, Go, Exists, Comp
<1>1. Owned(c)
  BY StepMoves DEF IInv, Moves
<1>2. /\ \A b \in Calls \ {a} : call'[b] = call[b]
      /\ call'[a].comp = call[a].comp
      /\ call[a].comp \in Comps
      /\ \A d \in Comps \ {call[a].comp} : container'[d] = container[d]
  BY StepMoves DEF Moves
<1>0. ASSUME Comp(a) = c, NEW kind, NEW pc, Fails(a, kind, pc)
      PROVE  Harmless(call[a].pc, kind)
  BY <1>0, FailsHarms
<1>3. CASE Comp(a) # c
  BY <1>1, <1>2, <1>3, Untouched
<1>4. CASE Comp(a) = c /\ (Inspect(a) \/ Pull(a))
  BY <1>1, <1>2, <1>4, Untouched DEF Inspect, Pull, Creates, Revives
<1>5. CASE Comp(a) = c /\ Stop(a)
  <2>1. CASE container[c] = Null
    BY <1>1, <1>2, <1>5, <2>1, Untouched DEF Stop, Creates, Revives, Fails
  <2>2. CASE container[c] # Null
    <3>1. call'[a].pc = "remove" /\ container'[c] # Null
      <4>1. container[c] \in Container
        BY <2>2
      <4>2. container'[c] \in {container[c], [container[c] EXCEPT !.up = FALSE]}
        BY <1>5 DEF Stop
      <4>3. call'[a].pc = "remove"
        BY <1>5, GoMoves, FailsMoves DEF Stop, Done, Moves, CallType, PCs, Answered
      <4> QED
        BY <2>2, <4>1, <4>2, <4>3, UpType
    <3> QED
      BY <1>2, <1>5, <3>1 DEF Owned, Revives
  <2> QED
    BY <2>1, <2>2
<1>6. CASE Comp(a) = c /\ Remove(a)
  <2>1. CASE container[c] = Null
    <3>1. container'[c] = Null
      BY <1>6, <2>1 DEF Remove, Fails
    <3>2. PICK b \in Calls : Comp(b) = c /\ Creates(b)
      BY <1>1, <2>1 DEF Owned
    <3>3. b # a
      BY <1>6, <3>2 DEF Remove, Creates
    <3> QED
      BY <1>2, <3>1, <3>2, <3>3 DEF Owned, Creates
  <2>2. CASE container[c] # Null
    <3>1. container'[c] = Null /\ call'[a].pc = "create"
      BY <1>0, <1>6, <2>2 DEF Remove, Done, Harmless
    <3> QED
      BY <1>2, <1>6, <3>1 DEF Owned, Creates
  <2> QED
    BY <2>1, <2>2
<1>7. CASE Comp(a) = c /\ (Create(a) \/ Restore(a))
  <2>1. CASE container[c] = Null
    <3>1. \/ /\ container'[c] # Null
             /\ \/ call'[a].pc = "start"
                \/ call'[a].pc = "restart" /\ container'[c].by = a
          \/ /\ container'[c] = Null
             /\ call'[a].pc = "restore"
      <4>1. CASE Create(a)
        <5>1. ASSUME Fails(a, "create", "restore") PROVE call'[a].pc = "restore"
          BY <5>1, FailsMoves DEF Moves, CallType, PCs, Answered
        <5> QED
          BY <1>0, <1>7, <2>1, <4>1, <5>1, NewType DEF Create, CreateAs, Done, Harmless
      <4>2. CASE Restore(a)
        BY <1>0, <1>7, <2>1, <4>2, NewType DEF Restore, CreateAs, Done, Harmless
      <4> QED
        BY <1>7, <4>1, <4>2
    <3> QED
      BY <1>2, <1>7, <3>1 DEF Owned, Revives, Creates
  <2>2. CASE container[c] # Null
    <3>1. container'[c] = container[c]
      BY <1>7, <2>2 DEF Create, Restore, CreateAs
    <3>2. ASSUME ~container[c].up PROVE Owned(c)'
      <4>1. PICK b \in Calls : Comp(b) = c /\ Revives(b)
        BY <1>1, <2>2, <3>2 DEF Owned
      <4>2. b # a
        BY <1>7, <4>1 DEF Create, Restore, Revives
      <4> QED
        BY <1>2, <2>2, <3>1, <4>1, <4>2 DEF Owned, Revives
    <3> QED
      BY <2>2, <3>1, <3>2 DEF Owned
  <2> QED
    BY <2>1, <2>2
<1>8. CASE Comp(a) = c /\ (Start(a) \/ Restart(a))
  <2>1. CASE container[c] = Null
    <3>1. container'[c] = Null
      BY <1>8, <2>1 DEF Start, Restart, StartAs
    <3>2. PICK b \in Calls : Comp(b) = c /\ Creates(b)
      BY <1>1, <2>1 DEF Owned
    <3>3. b # a
      BY <1>8, <3>2 DEF Start, Restart, Creates
    <3> QED
      BY <1>2, <3>1, <3>2, <3>3 DEF Owned, Creates
  <2>2. CASE container[c] # Null /\ (call[a].pc = "start" \/ container[c].by = a)
    <3>1. container'[c] # Null /\ container'[c].up
      <4>1. container[c] \in Container
        BY <2>2
      <4>2. container'[c] = [container[c] EXCEPT !.up = TRUE]
        BY <1>0, <1>8, <2>2 DEF Start, Restart, StartAs, Done, Harmless
      <4> QED
        BY <4>1, <4>2, UpType
    <3> QED
      BY <3>1 DEF Owned
  <2>3. CASE container[c] # Null /\ call[a].pc # "start" /\ container[c].by # a
    <3>1. container'[c] = container[c]
      BY <1>8, <2>3 DEF Start, Restart, StartAs
    <3>2. ~Revives(a) /\ ~Creates(a)
      BY <1>8, <2>3 DEF Start, Restart, Revives, Creates
    <3> QED
      BY <1>1, <1>2, <3>1, <3>2, Untouched
  <2> QED
    BY <2>1, <2>2, <2>3
<1> QED
  BY <1>3, <1>4, <1>5, <1>6, <1>7, <1>8 DEF Step

LEMMA OwnedInit == Init => IInv
<1> SUFFICES ASSUME Init, NEW c \in Comps PROVE Owned(c)
    BY DEF IInv
<1>1. container[c] \in Container /\ container[c].up
  BY VersionsAssumption DEF Init, Container, Versions
<1> QED
  BY <1>1, NullAssumption DEF Owned

LEMMA OwnedNext == TInv /\ IInv /\ [Next]_vars => IInv'
<1> SUFFICES ASSUME TInv, IInv, [Next]_vars, NEW c \in Comps, c \notin harmed'
             PROVE  Owned(c)'
    BY DEF IInv
<1>1. ASSUME NEW a \in Calls, NEW d \in Comps, Begin(a, d) PROVE Owned(c)'
  <2>1. /\ container'[c] = container[c]
        /\ \A b \in Calls \ {a} : call'[b] = call[b]
        /\ harmed' = harmed
        /\ ~Creates(a) /\ ~Revives(a)
    BY <1>1 DEF Begin, Answered, Creates, Revives, TInv, TypeOK
  <2> QED
    BY <2>1, Untouched DEF IInv
<1>2. ASSUME NEW a \in Calls, Step(a) PROVE Owned(c)'
  BY <1>2, StepOwned
<1>3. ASSUME UNCHANGED <<container, call, harmed>> PROVE Owned(c)'
  BY <1>3 DEF IInv, Owned, Creates, Revives, Comp
<1>4. CASE Crash
  <2>1. \A a \in Calls : call[a].pc \in Working => Comp(a) # c
    BY <1>4 DEF Crash
  <2>2. Owned(c) /\ UNCHANGED container
    BY <1>4 DEF IInv, Crash
  <2>3. \A a \in Calls : Comp(a) = c => ~Creates(a) /\ ~Revives(a)
    BY <2>1 DEF Creates, Revives, Working
  <2> QED
    BY <2>2, <2>3 DEF Owned
<1> QED
  BY <1>1, <1>2, <1>3, <1>4 DEF Next, Sample, Publish, CacheExpires, vars

LEMMA OwnedIsUp == IInv => QuietMeansUp
BY DEF IInv, Owned, Creates, Revives, QuietMeansUp, Working

\* However many calls of Apply race, on however many components, once all are
\* answered every component has a running container, unless an engine request
\* for it failed, or the backend stopped, after its old container was removed
\* (Apply, rollback).
THEOREM RacesLeaveServersUp == Spec => []QuietMeansUp
<1>1. Init => TInv /\ IInv
  BY TypeInit, OwnedInit
<1>2. TInv /\ IInv /\ [Next]_vars => (TInv /\ IInv)'
  BY TypeNext, OwnedNext
<1>3. TInv /\ IInv => QuietMeansUp
  BY OwnedIsUp
<1> QED
  BY <1>1, <1>2, <1>3, PTL DEF Spec
-----------------------------------------------------------------------------
(* A call without company answers truly, and makes good what can be. *)

\* A call that goes on, or fails, still has the component and the two images.
LEMMA Carries ==
  ASSUME call \in [Calls -> CallType], NEW a \in Calls, NEW pc \in PCs,
         Go(a, pc) \/ \E kind : Fails(a, kind, pc)
  PROVE  /\ call'[a].pc = pc
         /\ call'[a].comp = call[a].comp /\ call'[a].old = call[a].old /\ call'[a].new = call[a].new
         /\ \A b \in Calls \ {a} : call'[b] = call[b]
<1>1. CASE Go(a, pc)
  BY <1>1 DEF Go, CallType
<1>2. ASSUME NEW kind, Fails(a, kind, pc)
      PROVE  /\ call'[a].pc = pc
             /\ call'[a].comp = call[a].comp /\ call'[a].old = call[a].old /\ call'[a].new = call[a].new
             /\ \A b \in Calls \ {a} : call'[b] = call[b]
  <2> DEFINE r == [call[a] EXCEPT !.pc = pc, !.faults = call[a].faults + 1]
  <2>1. r.pc = pc /\ r.comp = call[a].comp /\ r.old = call[a].old /\ r.new = call[a].new
    BY DEF CallType
  <2>2. call' = [call EXCEPT ![a] = r]
    BY <1>2 DEF Fails
  <2> HIDE DEF r
  <2> QED
    BY <2>1, <2>2
<1> QED
  BY <1>1, <1>2

Holds(c, image) == container[c] # Null /\ container[c].image = image

\* Where a call that is alone has left its component: at every step, what the
\* container is if no request failed that cannot be made good; whatever failed,
\* what a start is about to start.
Lone(a) ==
  LET c == Comp(a)
      pc == call[a].pc
  IN /\ pc = "start" => Holds(c, call[a].new)
     /\ pc = "restart" => Holds(c, call[a].old) /\ container[c].by = a
     /\ c \notin harmed =>
          /\ pc = "inspect" => container[c] # Null /\ container[c].up
          /\ pc \in {"pull", "stop", "rolledback", "failed"} => Runs(c, call[a].old)
          /\ pc = "remove" => Holds(c, call[a].old)
          /\ pc \in {"create", "restore"} => container[c] = Null

LoneInv == \A a \in Calls : Alone(a) => Lone(a)

LEMMA LoneInit == Init => LoneInv
BY DEF Init, LoneInv, Lone, Idle, Called

\* What a container has for an image, it has whether it is stopped or started.
LEMMA UpKeeps ==
  ASSUME NEW k \in Container, NEW b \in BOOLEAN
  PROVE  /\ [k EXCEPT !.up = b] # Null /\ [k EXCEPT !.up = b].up = b
         /\ [k EXCEPT !.up = b].image = k.image /\ [k EXCEPT !.up = b].by = k.by
BY UpType DEF Container

\* One step of the lone call; its answers are true of the moment they are given.
LEMMA LoneStep ==
  ASSUME TInv, NEW a \in Calls, Lone(a), Step(a)
  PROVE  /\ Lone(a)'
         /\ call'[a].pc = "ok" => Runs(Comp(a), call[a].new)'
         /\ call'[a].pc = "rolledback" => Runs(Comp(a), call[a].old)'
<1> DEFINE c == Comp(a)
           Goal == /\ Lone(a)'
                   /\ call'[a].pc = "ok" => Runs(Comp(a), call[a].new)'
                   /\ call'[a].pc = "rolledback" => Runs(Comp(a), call[a].old)'
<1>0. /\ call \in [Calls -> CallType] /\ c \in Comps
      /\ container \in [Comps -> Container \cup {Null}]
      /\ container' \in [Comps -> Container \cup {Null}]
      /\ c \notin harmed' => c \notin harmed
  BY StepMoves DEF TInv, TypeOK, CallType, PCs, Moves
<1>k. ASSUME NEW pc \in PCs, Go(a, pc) \/ \E kind : Fails(a, kind, pc)
      PROVE  /\ call'[a].pc = pc
             /\ call'[a].comp = call[a].comp /\ call'[a].old = call[a].old
             /\ call'[a].new = call[a].new
  BY <1>0, <1>k, Carries
<1>h. ASSUME NEW kind, NEW pc, Fails(a, kind, pc), c \notin harmed'
      PROVE  Harmless(call[a].pc, kind)
  BY <1>h, FailsHarms
<1> USE DEF PCs, Answered, Working
<1>1. CASE Inspect(a)
  <2>1. CASE At(a, "inspect") /\ Exists(a) /\ UNCHANGED <<harmed, container>>
             /\ call' = [call EXCEPT ![a] = [@ EXCEPT !.pc = "pull", !.old = container[Comp(a)].image]]
    <3> DEFINE r == [call[a] EXCEPT !.pc = "pull", !.old = container[c].image]
    <3>1. r.pc = "pull" /\ r.comp = call[a].comp /\ r.old = container[c].image
      BY <1>0 DEF CallType
    <3>2. call' = [call EXCEPT ![a] = r]
      BY <2>1
    <3> HIDE DEF r
    <3>3. call'[a].pc = "pull" /\ call'[a].comp = call[a].comp /\ call'[a].old = container[c].image
      BY <1>0, <3>1, <3>2
    <3> QED
      BY <2>1, <3>3 DEF Lone, At, Runs, Comp, Exists
  <2>2. CASE Go(a, "refused") \/ Fails(a, "inspect", "refused")
    BY <1>k, <2>2 DEF Lone
  <2> QED
    BY <1>1, <2>1, <2>2 DEF Inspect
<1>2. CASE Pull(a)
  <2>1. CASE Go(a, "stop")
    BY <1>0, <1>k, <1>2, <2>1 DEF Pull, Go, Lone, At, Runs, Comp
  <2>2. CASE Fails(a, "pull", "refused")
    BY <1>k, <2>2 DEF Lone
  <2> QED
    BY <1>2, <2>1, <2>2 DEF Pull
<1>3. CASE Stop(a)
  <2>1. Go(a, "remove") \/ \E kind : Fails(a, kind, "remove")
    BY <1>3 DEF Stop, Done
  <2>2. ASSUME container[c] # Null
        PROVE  container'[c] # Null /\ container'[c].image = container[c].image
    <3>1. container[c] \in Container
      BY <1>0, <2>2
    <3>2. container'[c] \in {container[c], [container[c] EXCEPT !.up = FALSE]}
      BY <1>0, <1>3 DEF Stop
    <3> QED
      BY <2>2, <3>1, <3>2, UpKeeps
  <2> QED
    BY <1>0, <1>k, <1>3, <2>1, <2>2 DEF Stop, At, Lone, Runs, Holds, Comp
<1>4. CASE Remove(a)
  <2>1. CASE Exists(a) /\ container' = [container EXCEPT ![c] = Null] /\ Done(a, "create", "failed")
    BY <1>0, <1>k, <1>h, <1>4, <2>1 DEF Remove, Done, At, Lone, Comp, Harmless
  <2>2. CASE ((~Exists(a) /\ Go(a, "failed")) \/ Fails(a, "remove", "failed")) /\ UNCHANGED container
    BY <1>0, <1>k, <1>h, <1>4, <2>2 DEF Remove, At, Lone, Holds, Exists, Comp, Harmless, Go
  <2> QED
    BY <1>4, <2>1, <2>2 DEF Remove
<1>5. CASE Create(a)
  <2>1. CASE ~Exists(a) /\ Done(a, "start", "restore")
             /\ container' = [container EXCEPT ![c] = [image |-> call[a].new, up |-> FALSE, by |-> a]]
    <3>1. call[a].new \in Versions
      BY <1>0 DEF CallType
    <3>2. container'[c] # Null /\ container'[c].image = call[a].new
      BY <1>0, <2>1, <3>1, NewType
    <3> QED
      BY <1>0, <1>k, <1>h, <1>5, <2>1, <3>2 DEF Create, Done, At, Lone, Holds, Comp, Harmless
  <2>2. CASE ((Exists(a) /\ Go(a, "restore")) \/ Fails(a, "create", "restore")) /\ UNCHANGED container
    BY <1>0, <1>k, <1>h, <1>5, <2>2 DEF Create, At, Lone, Exists, Comp, Harmless, Go
  <2> QED
    BY <1>5, <2>1, <2>2 DEF Create, CreateAs
<1>6. CASE Restore(a)
  <2>1. CASE ~Exists(a) /\ Done(a, "restart", "failed")
             /\ container' = [container EXCEPT ![c] = [image |-> call[a].old, up |-> FALSE, by |-> a]]
    <3>1. call[a].old \in Versions
      BY <1>0 DEF CallType
    <3>2. container'[c] # Null /\ container'[c].image = call[a].old /\ container'[c].by = a
      BY <1>0, <2>1, <3>1, NewType
    <3> QED
      BY <1>0, <1>k, <1>h, <1>6, <2>1, <3>2 DEF Restore, Done, At, Lone, Holds, Comp, Harmless
  <2>2. CASE ((Exists(a) /\ Go(a, "failed")) \/ Fails(a, "create", "failed")) /\ UNCHANGED container
    BY <1>0, <1>k, <1>h, <1>6, <2>2 DEF Restore, At, Lone, Exists, Comp, Harmless, Go
  <2> QED
    BY <1>6, <2>1, <2>2 DEF Restore, CreateAs
<1>7. CASE Start(a)
  <2>0. Holds(c, call[a].new) /\ call[a].pc = "start"
    BY <1>7 DEF Start, At, Lone
  <2>1. CASE container' = [container EXCEPT ![c].up = TRUE] /\ Done(a, "ok", "restore")
    <3>1. container'[c] = [container[c] EXCEPT !.up = TRUE] /\ container[c] \in Container
      BY <1>0, <2>0, <2>1 DEF Holds
    <3>2. Runs(c, call[a].new)'
      BY <1>0, <1>k, <2>0, <2>1, <3>1, UpKeeps DEF Runs, Holds, Done, Comp
    <3> QED
      BY <1>0, <1>k, <1>h, <2>0, <2>1, <3>2 DEF Done, Lone, Comp, Harmless
  <2>2. CASE Fails(a, "start", "restore") /\ UNCHANGED container
    BY <1>0, <1>k, <1>h, <2>0, <2>2 DEF Lone, Comp, Harmless
  <2> QED
    BY <1>7, <2>0, <2>1, <2>2 DEF Start, StartAs, Exists, Holds
<1>8. CASE Restart(a)
  <2>0. Holds(c, call[a].old) /\ container[c].by = a /\ call[a].pc = "restart"
    BY <1>8 DEF Restart, At, Lone
  <2>1. CASE container' = [container EXCEPT ![c].up = TRUE] /\ Done(a, "rolledback", "failed")
    <3>1. container'[c] = [container[c] EXCEPT !.up = TRUE] /\ container[c] \in Container
      BY <1>0, <2>0, <2>1 DEF Holds
    <3>2. Runs(c, call[a].old)'
      BY <1>0, <1>k, <2>0, <2>1, <3>1, UpKeeps DEF Runs, Holds, Done, Comp
    <3> QED
      BY <1>0, <1>k, <1>h, <2>0, <2>1, <3>2 DEF Done, Lone, Comp, Harmless
  <2>2. CASE Fails(a, "start", "failed") /\ UNCHANGED container
    BY <1>0, <1>k, <1>h, <2>0, <2>2 DEF Lone, Comp, Harmless
  <2> QED
    BY <1>8, <2>0, <2>1, <2>2 DEF Restart, StartAs, Exists, Holds
<1> QED
  BY <1>1, <1>2, <1>3, <1>4, <1>5, <1>6, <1>7, <1>8 DEF Step

\* Whoever begins alone finds every component running that was not harmed: all
\* calls are answered (QuietMeansUp).
LEMMA LoneBegin ==
  ASSUME TInv, IInv, NEW a \in Calls, NEW c \in Comps, Begin(a, c), Alone(a)
  PROVE  /\ Lone(a)'
         /\ call'[a].pc \in {"refused", "inspect"}
<1>1. \A b \in Calls : call[b].pc \notin Working
  BY DEF Begin, Alone, Answered, Working
<1>2. c \notin harmed => container[c] # Null /\ container[c].up
  BY <1>1, OwnedIsUp DEF QuietMeansUp
<1>3. call'[a].comp = c /\ call'[a].pc \in {"refused", "inspect"} /\ UNCHANGED <<container, harmed>>
  BY DEF Begin, Called, TInv, TypeOK
<1> QED
  BY <1>2, <1>3 DEF Lone, Comp

\* A call at work stays at work until it is answered.
LEMMA StepNotIdle ==
  ASSUME TInv, NEW a \in Calls, Step(a)
  PROVE  call'[a].pc # "idle"
<1>0. call \in [Calls -> CallType]
  BY DEF TInv, TypeOK, CallType, PCs
<1>1. ASSUME NEW pc \in PCs \ {"idle"}, Go(a, pc) \/ \E kind : Fails(a, kind, pc)
      PROVE  call'[a].pc # "idle"
  BY <1>0, <1>1, Carries
<1> USE DEF PCs, Answered, Working
<1>2. CASE Inspect(a)
  BY <1>0, <1>1, <1>2 DEF Inspect, CallType
<1>3. CASE Pull(a) \/ Stop(a) \/ Remove(a)
  BY <1>1, <1>3 DEF Pull, Stop, Remove, Done
<1>4. CASE Create(a) \/ Restore(a)
  BY <1>1, <1>4 DEF Create, Restore, CreateAs, Done
<1>5. CASE Start(a) \/ Restart(a)
  BY <1>1, <1>5 DEF Start, Restart, StartAs, Done
<1> QED
  BY <1>2, <1>3, <1>4, <1>5 DEF Step

LEMMA LoneNext == TInv /\ IInv /\ LoneInv /\ [Next]_vars => LoneInv'
<1> SUFFICES ASSUME TInv, IInv, LoneInv, [Next]_vars, NEW a \in Calls, Alone(a)'
             PROVE  Lone(a)'
    BY DEF LoneInv
<1>1. ASSUME NEW b \in Calls, NEW c \in Comps, Begin(b, c) PROVE Lone(a)'
  <2>1. call'[b].pc # "idle" /\ \A d \in Calls \ {b} : call'[d] = call[d]
    BY <1>1 DEF Begin, Called, TInv, TypeOK
  <2>2. a = b /\ Alone(a)
    BY <2>1 DEF Alone
  <2> QED
    BY <1>1, <2>2, LoneBegin
<1>2. ASSUME NEW b \in Calls, Step(b) PROVE Lone(a)'
  <2>1. call'[b].pc # "idle" /\ \A d \in Calls \ {b} : call'[d] = call[d]
    <3>1. PICK pc \in PCs : Moves(b, pc)
      BY <1>2, StepMoves
    <3>2. call'[b].pc # "idle"
      BY <1>2, StepNotIdle
    <3> QED
      BY <3>1, <3>2 DEF Moves
  <2>2. a = b /\ Alone(a)
    BY <2>1 DEF Alone
  <2> QED
    BY <1>2, <2>2, LoneStep DEF LoneInv
<1>3. ASSUME UNCHANGED <<container, call, harmed>> PROVE Lone(a)'
  BY <1>3 DEF LoneInv, Alone, Lone, Holds, Runs, Comp
<1>4. CASE Crash
  BY <1>4 DEF Crash, Lone, Idle, Called
<1> QED
  BY <1>1, <1>2, <1>3, <1>4 DEF Next, Sample, Publish, CacheExpires, vars

LInv == TInv /\ IInv /\ LoneInv

LEMMA LoneAlways == Spec => []LInv
<1>1. Init => LInv
  BY TypeInit, OwnedInit, LoneInit DEF LInv
<1>2. LInv /\ [Next]_vars => LInv'
  BY TypeNext, OwnedNext, LoneNext DEF LInv
<1> QED
  BY <1>1, <1>2, PTL DEF Spec

\* A call that fails leaves its component running on the image it had before,
\* when no other call is about and every request that failed could be made good:
\* an inspection, a pull, a stop, or the creation itself (Apply, rollback).
THEOREM FailuresRollBack == Spec => []RollsBackUnharmed
<1>1. LInv => RollsBackUnharmed
  BY DEF LInv, LoneInv, Lone, RollsBackUnharmed
<1> QED
  BY <1>1, LoneAlways, PTL

\* Both together: neither failures nor races leave a component without its server.
THEOREM ServersStay == Spec => []ServersSurvive
<1>1. RollsBackUnharmed /\ QuietMeansUp => ServersSurvive
  BY DEF ServersSurvive
<1> QED
  BY <1>1, FailuresRollBack, RacesLeaveServersUp, PTL

\* A lone call answers with the new version only as the component runs on it, and
\* with a rollback only as it runs on the previous one, whatever requests failed
\* before or had their answers lost (Apply).
THEOREM AnswersAreTrue == Spec => AnswerHonest
<1> DEFINE Honest ==
      \A a \in Calls :
        Alone(a) /\ call'[a].pc # call[a].pc =>
          /\ call'[a].pc = "ok" => Runs(Comp(a), call[a].new)'
          /\ call'[a].pc = "rolledback" => Runs(Comp(a), call[a].old)'
<1>1. LInv /\ [Next]_vars => [Honest]_vars
  <2> SUFFICES ASSUME LInv, Next, NEW a \in Calls, Alone(a), call'[a].pc # call[a].pc
               PROVE  /\ call'[a].pc = "ok" => Runs(Comp(a), call[a].new)'
                      /\ call'[a].pc = "rolledback" => Runs(Comp(a), call[a].old)'
      OBVIOUS
  <2>1. ASSUME NEW b \in Calls, NEW c \in Comps, Begin(b, c)
        PROVE  call'[a].pc \in {"refused", "inspect"}
    <3>1. a = b
      BY <2>1 DEF Begin, LInv, TInv, TypeOK
    <3> QED
      BY <2>1, <3>1, LoneBegin DEF LInv
  <2>2. ASSUME NEW b \in Calls, Step(b)
        PROVE  /\ call'[a].pc = "ok" => Runs(Comp(a), call[a].new)'
               /\ call'[a].pc = "rolledback" => Runs(Comp(a), call[a].old)'
    <3>1. a = b
      BY <2>2, StepMoves DEF LInv, Moves
    <3> QED
      BY <2>2, <3>1, LoneStep DEF LInv, LoneInv
  <2>3. CASE Crash
    BY <2>3 DEF Crash, Idle, Called
  <2> QED
    BY <2>1, <2>2, <2>3 DEF Next, Sample, Publish, CacheExpires
<1> QED
  BY <1>1, LoneAlways, PTL DEF Spec, AnswerHonest
=============================================================================
