-------------------------- MODULE SessionLifecycle --------------------------
(***************************************************************************)
(* What a remote-control session promises the page that holds it, whatever *)
(* sockets, servers and the host do: the events it tells of, and in which  *)
(* order.  RemoteSession is shown to keep to it (KeepsToLifecycle there).  *)
(***************************************************************************)

VARIABLES
  phase,   \* "over", "dialling", "asking" for a code, "live", "dropped"
  told     \* what the last step told the page

lifeVars == <<phase, told>>

Phases == {"over", "dialling", "asking", "live", "dropped"}

LifeInit == phase = "over" /\ told = <<>>

Dial == phase' = "dialling" /\ told' = <<"connecting">>

\* There is a host, and it accepts.
Accept ==
  /\ phase \in {"dialling", "asking"}
  /\ phase' = "live" /\ told' = <<"connected">>

\* A code is asked for as often as the host refuses the last one.
Ask ==
  /\ phase \in {"dialling", "asking"}
  /\ phase' = "asking" /\ told' = <<"two-fa">>

\* The user of the host is asked.  One that hangs up meanwhile is not told from
\* one who takes long.
Wait ==
  /\ phase \in {"dialling", "asking", "dropped"}
  /\ phase' = phase /\ told' = <<"approval-pending">>

\* The relay is gone, and nobody has said why.
Drop ==
  /\ phase \in {"dialling", "asking", "live"}
  /\ phase' = "dropped" /\ told' = <<"disconnected">>

\* For good: given up, with the reason told first, or hung up.
End ==
  /\ phase # "over" /\ phase' = "over"
  /\ told' \in {<<"authError", "disconnected">>, <<"error", "disconnected">>, <<"disconnected">>}

\* What the page does not hear of.
Silent == phase' = phase /\ told' = <<>>

LifeNext == Dial \/ Accept \/ Ask \/ Wait \/ Drop \/ End \/ Silent

LifeSpec == LifeInit /\ [][LifeNext]_lifeVars
=============================================================================
