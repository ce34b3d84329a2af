--------------------------- MODULE MCPanelUpdate ---------------------------
(***************************************************************************)
(* Instances of PanelUpdate for TLC: an installed release 1 and a newer    *)
(* release 2 that changes the file of release 1 and adds one (so that a    *)
(* half-extracted release 2 is a mixed tree, and one restored over it      *)
(* keeps a file of its own).                                               *)
(***************************************************************************)
EXTENDS PanelUpdate

CONSTANTS h1, h2, code, added

MCHandlers == {h1, h2}
MCVersions == {1, 2}
MCFiles == {code, added}
MCReleaseFiles == [v \in MCVersions |-> IF v = 1 THEN {code} ELSE MCFiles]

AllOps == [h \in MCHandlers |-> Ops]

CONSTANT Scopes   \* bound: which of the following a run explores
VARIABLE scope

\* One launcher at a time; snapshots, one of them rolled back, while another
\* request takes or deletes them; two requests at a time for everything else.
OpsIn ==
  [launch    |-> [h \in MCHandlers |-> IF h = h1 THEN {"apply", "rollback"} ELSE {}],
   snapshots |-> [h \in MCHandlers |-> {"backup", IF h = h1 THEN "rollback" ELSE "delete"}],
   race      |-> [h \in MCHandlers |-> IF h = h1 THEN {"apply", "rollback"}
                                                  ELSE {"apply", "delete", "reset"}]]
Launch == {"launch"}
Race == {"race"}
LaunchOrSnapshots == {"launch", "snapshots"}

MCVars == <<vars, scope>>

\* Every run starts with release 1 installed; archives of k > 0 are snapshots.
MCInit == Init /\ Current = 1 /\ scope \in Scopes
MCNext ==
  /\ Next
  /\ UNCHANGED scope
  /\ \A h \in Handlers : req'[h].pc # "idle" =>
       /\ req'[h].op \in OpsIn[scope][h]
       /\ scope # "snapshots" /\ req'[h].name # None => req'[h].name.k = 0
MCSpec == MCInit /\ [][MCNext]_MCVars
MCFairSpec == MCSpec /\ WF_MCVars(Script /\ UNCHANGED scope) /\ WF_MCVars(Reap /\ UNCHANGED scope)
=============================================================================
