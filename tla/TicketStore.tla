----------------------------- MODULE TicketStore -----------------------------
(***************************************************************************)
(* What the session store promises those who sign in, whatever requests    *)
(* race, fail or are repeated: a login has a ticket, which is good until   *)
(* it is taken, and a ticket taken is replaced at most once, by one that   *)
(* is new.  AuthSessions is shown to keep to it (KeepsTickets there).      *)
(***************************************************************************)

CONSTANTS Tickets, None

VARIABLES
  valid,   \* tickets that are accepted
  taken,   \* tickets taken and still to be replaced
  login    \* [Tickets -> the login each was issued for, named by its first, or None]

storeVars == <<valid, taken, login>>

StoreInit == valid = {} /\ taken = {} /\ login = [t \in Tickets |-> None]

Hand(t, l) ==
  /\ login[t] = None
  /\ login' = [login EXCEPT ![t] = l]
  /\ valid' = valid \cup {t}

SignIn(t) == Hand(t, t) /\ taken' = taken

Take(t) ==
  /\ t \in valid
  /\ valid' = valid \ {t} /\ taken' = taken \cup {t}
  /\ login' = login

Replace(t, u) ==
  /\ t \in taken
  /\ Hand(u, login[t])
  /\ taken' = taken \ {t}

\* Signed out, swept or expired; taken by a request that failed.
End == valid' \subseteq valid /\ taken' \subseteq taken /\ login' = login

StoreNext ==
  \/ End
  \/ \E t \in Tickets : SignIn(t) \/ Take(t)
  \/ \E t, u \in Tickets : Replace(t, u)

StoreSpec == StoreInit /\ [][StoreNext]_storeVars

\* What it is worth: one ticket per login, to be taken or to be replaced.
OneEach == \A t, u \in valid \cup taken : login[t] = login[u] => t = u

\* Why: logins are named by tickets issued, and nothing is both valid and taken.
StoreInv ==
  /\ OneEach /\ valid \cap taken = {}
  /\ login \in [Tickets -> Tickets \cup {None}]
  /\ valid \cup taken \subseteq {t \in Tickets : login[t] # None}
  /\ \A t \in Tickets : login[t] # None => login[login[t]] # None
=============================================================================
