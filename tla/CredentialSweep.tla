--------------------------- MODULE CredentialSweep --------------------------
(***************************************************************************)
(* What a change of the credentials promises of the sessions of            *)
(* AuthSessions.  It sweeps the table in a statement of its own: that      *)
(* leaves alone what another request is about to insert, and everything if *)
(* the change gets no further than the new password.  "spared" keeps track *)
(* of these, to say that no other session outlives a change.               *)
(***************************************************************************)
EXTENDS AuthSessions

VARIABLE spared  \* history: sessions, and requests about to insert one

sweepVars == <<vars, spared>>

Inserting == {r \in Requests : At(r, "issue")}

\* The session just inserted, if it replaces a spared one or was inserted by a
\* spared request.
Heirs ==
  {t \in Jtis :
     /\ issued'[t] # issued[t]
     /\ issued'[t].from \in spared \/ \E r \in spared \cap Requests : At(r, "answer")'}

SweepInit == Init /\ spared = {}
SweepNext ==
  /\ Next
  /\ spared' =
       IF \E r \in Requests : RevokeAll(r) THEN Inserting
       ELSE IF \E r \in Requests : SetHash(r) THEN spared \cup sessions \cup Inserting
       ELSE Heirs \cup {x \in spared : x \in Jtis \/ At(x, "issue")'}
SweepSpec == SweepInit /\ [][SweepNext]_sweepVars

\* sessions.go: every session is revoked when the credentials change.  Whatever
\* fails or interleaves, a session that is still accepted, and descends from a
\* login with another password than the one that is stored, was being inserted at
\* the moment of a sweep, or the change that made it so failed before its sweep, or
\* is still to sweep.
OnlySparedSurvive == \A t \in sessions \ spared : issued[t].word = password

\* The same of what a request is about to insert: a login has presented the password
\* that is stored, a refresh has consumed a session of one that did.
AboutToInsert ==
  \A r \in Requests \ spared : At(r, "issue") =>
    IF req[r].op = "login" THEN req[r].word = password
    ELSE req[r].jti \notin spared => issued[req[r].jti].word = password
=============================================================================
