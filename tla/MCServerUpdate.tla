--------------------------- MODULE MCServerUpdate ---------------------------
(***************************************************************************)
(* Instances of ServerUpdate for TLC: two calls that may race on one       *)
(* component, and one call alone.                                          *)
(***************************************************************************)
EXTENDS ServerUpdate

CONSTANTS hbbs, a1, a2

MCComps == {hbbs}
MCOne == {a1}
MCTwo == {a1, a2}
MCFaults == FaultKinds
MCStart == {"start"}
=============================================================================
