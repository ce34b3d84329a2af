--------------------------- MODULE MCAuthSessions ---------------------------
(***************************************************************************)
(* Instances of AuthSessions for TLC, with the history of CredentialSweep. *)
(* Sessions are interchangeable, and so are requests.                      *)
(***************************************************************************)
EXTENDS CredentialSweep, TLC

CONSTANTS r1, r2, t1, t2, t3, admin, other, old, new

MCJtis == {t1, t2, t3}
MCUsernames == {admin, other}
MCPasswords == {old, new}
Two == {r1, r2}

Interchangeable == Permutations(MCJtis) \cup Permutations(Two)

VARIABLE scope  \* bound: three sessions and one password, or two of each

MCVars == <<sweepVars, scope>>

\* What the table promises does not depend on the values of the credentials, and
\* what a change promises takes two sessions, still alive, to break.
Within ==
  CASE scope = "table" ->
         \A r \in Requests :
           /\ req[r].name \in {admin, None}
           /\ req[r].word \in {old, None} /\ req[r].newword \in {old, None}
           /\ req[r].op = "change" => req[r].name = None
    [] scope = "credentials" ->
         /\ Cardinality({t \in Jtis : issued[t] # None}) <= 2
         /\ expired = {}
         /\ \A r \in Requests :
              /\ req[r].newword \in {new, None}
              /\ req[r].op = "login" => req[r].name # other
              /\ req[r].op = "change" /\ req[r].name # None
                   => req[r].name = other /\ req[r].newword = None

MCInit == SweepInit /\ password = old /\ scope \in {"table", "credentials"}
MCNext == SweepNext /\ UNCHANGED scope /\ Within'
MCSpec == MCInit /\ [][MCNext]_MCVars
=============================================================================
