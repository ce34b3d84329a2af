---------------------------- MODULE MCServices -----------------------------
(***************************************************************************)
(* Instances, for TLC, of the services of the backend beside the panel's   *)
(* own update: the rate limiter, the update of the servers with two calls  *)
(* that may race on one component, and the status of devices.  They share  *)
(* no state; a behaviour is about one of them, its scope.                  *)
(***************************************************************************)
EXTENDS LoginLimiter, ServerUpdate, DevicePresence

CONSTANTS
  login1, refresh1,    \* limiter: a login key and a refresh key
  hbbs, a1, a2,        \* servers: a component, two calls
  peer1, peer2, nat    \* devices: two behind one address

MCLoginKeys == {login1}
MCRefreshKeys == {refresh1}

MCComps == {hbbs}
MCTwo == {a1, a2}
MCFaults == FaultKinds

MCPeers == {peer1, peer2}
MCHome == [p \in MCPeers |-> nat]

DeviceScopes == {"device", "events", "shared"}

VARIABLE scope

Everything == <<limiterVars, vars, presenceVars, scope>>

MCInit ==
  /\ LimiterInit /\ Init /\ PresenceInit
  /\ scope \in {"limiter", "server"} \cup DeviceScopes
  /\ scope # "device" => devices = [p \in Peers |-> [listed |-> TRUE, online |-> FALSE]]
  /\ devices[peer2] = [listed |-> TRUE, online |-> FALSE]
  /\ CASE scope \in {"limiter", "server"} -> up = {}
       [] scope = "shared" -> up = {peer1}
       [] OTHER -> peer2 \notin up

\* One device with all that may happen to it, or with a page that listens, or one
\* that comes and goes beside another one that stays.
PresenceScope ==
  /\ PresenceNext
  /\ scope # "events" => channel' = Missing
  /\ scope # "device" => \A p \in Peers : devices'[p].listed
  /\ IF scope = "shared" THEN peer1 \in up'
     ELSE peer2 \notin up' \cup unwritten' /\ devices'[peer2].listed

MCNext ==
  /\ UNCHANGED scope
  /\ \/ scope = "limiter" /\ LimiterNext /\ UNCHANGED <<vars, presenceVars>>
     \/ scope = "server" /\ Next /\ UNCHANGED <<limiterVars, presenceVars>>
     \/ scope \in DeviceScopes /\ PresenceScope /\ UNCHANGED <<limiterVars, vars>>

\* The fairness of each module, for the behaviours about it.
MCFairSpec ==
  /\ MCInit /\ [][MCNext]_Everything
  /\ \A a \in Calls : WF_vars(scope = "server" /\ Step(a))
  /\ WF_presenceVars(scope \in DeviceScopes /\ Discovery)
=============================================================================
