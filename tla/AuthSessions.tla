---------------------------- MODULE AuthSessions ----------------------------
(***************************************************************************)
(* Sign-in, token refresh, sign-out and credential change of the panel:    *)
(* backend/internal/auth/service.go over the auth_sessions table of        *)
(* sessions.go.                                                            *)
(*                                                                         *)
(* Every request is a goroutine that issues one database statement after   *)
(* the other, with no transaction around them, so that any other request,  *)
(* the end of a token's lifetime, a failing statement or a restart of the  *)
(* backend may come between two of them.  The table survives a restart,    *)
(* the requests do not.  Access tokens are stateless and carry no state of *)
(* the server; the limiter in front of login and refresh is LoginLimiter.  *)
(***************************************************************************)
EXTENDS Naturals, FiniteSets

CONSTANTS
  Requests,         \* concurrent requests the backend serves
  Jtis,             \* identifiers newJTI can return; bound on sessions ever issued
  Passwords,        \* what the stored hash may be the hash of
  Usernames,
  DefaultUsername,  \* DefaultAdminUsername
  None,             \* no value
  Failures          \* bound: BOOLEAN, whether statements may fail

ASSUME UsernamesAssumption == DefaultUsername \in Usernames
ASSUME NoneAssumption ==
  None \notin Jtis /\ None \notin Passwords /\ None \notin Usernames
ASSUME FailuresAssumption == Failures \in BOOLEAN

VARIABLES
  username,   \* settings row admin_username
  password,   \* the password whose hash is in the row admin_password_hash
  sessions,   \* SUBSET Jtis: the rows of auth_sessions
  expired,    \* SUBSET Jtis: those whose lifetime is over
  tokens,     \* SUBSET Jtis: refresh tokens some client received
  req,        \* [Requests -> the request being served]
  issued,     \* history: [Jtis -> how the session came about, or None]
  gone        \* history: [Jtis -> why its row was deleted]

vars == <<username, password, sessions, expired, tokens, req, issued, gone>>

Ops == {"login", "refresh", "logout", "change"}
Pcs == {"idle", "username", "hash", "set_hash", "set_name", "revoke_all",
        "consume", "issue", "answer", "revoke"}

\* word is the password the client presents, name the user name (of a change:
\* the new one), jti the refresh token presented and then the one issued.
Request == [pc : Pcs, op : Ops, name : Usernames \cup {None}, word : Passwords \cup {None},
            newword : Passwords \cup {None}, seen : Usernames \cup {None},
            jti : Jtis \cup {None}]
Free == [pc |-> "idle", op |-> "logout", name |-> None, word |-> None,
         newword |-> None, seen |-> None, jti |-> None]

\* A session remembers the login it descends from, the session it was exchanged
\* for, and the password that login presented.
Origin == [root : Jtis, from : Jtis \cup {None}, word : Passwords]
ASSUME OriginAssumption == None \notin Origin
Reasons == {"no", "exchanged", "signed_out", "swept"}

Init ==
  /\ username = DefaultUsername
  /\ password \in Passwords
  /\ sessions = {} /\ expired = {} /\ tokens = {}
  /\ req = [r \in Requests |-> Free]
  /\ issued = [t \in Jtis |-> None]
  /\ gone = [t \in Jtis |-> "no"]

At(r, pc) == req[r].pc = pc
Goto(r, pc) == req' = [req EXCEPT ![r].pc = pc]
Done(r) == req' = [req EXCEPT ![r] = Free]
Begin(r, pc, op, name, word, newword, jti) ==
  req' = [req EXCEPT ![r] = [pc |-> pc, op |-> op, name |-> name, word |-> word,
                             newword |-> newword, seen |-> None, jti |-> jti]]

table == <<sessions, expired, tokens, issued, gone>>
credentials == <<username, password>>

-----------------------------------------------------------------------------
(***************************************************************************)
(* Requests arrive.                                                        *)
(***************************************************************************)

BeginLogin(r) ==
  /\ At(r, "idle")
  /\ \E name \in Usernames, word \in Passwords :
       Begin(r, "username", "login", name, word, None, None)
  /\ UNCHANGED <<credentials, table>>

\* A new user name, a new password, or both; anything else was answered 400.
BeginChange(r) ==
  /\ At(r, "idle")
  /\ \E name \in Usernames \cup {None}, word \in Passwords, new \in Passwords \cup {None} :
       /\ name # None \/ new # None
       /\ Begin(r, "username", "change", name, word, new, None)
  /\ UNCHANGED <<credentials, table>>

\* The signature and the lifetime of a refresh token are checked before the
\* database is asked; a token that fails is answered without any statement.
BeginRefresh(r) ==
  /\ At(r, "idle")
  /\ \E t \in tokens \ expired : Begin(r, "consume", "refresh", None, None, None, t)
  /\ UNCHANGED <<credentials, table>>

BeginLogout(r) ==
  /\ At(r, "idle")
  /\ \E t \in tokens \ expired : Begin(r, "revoke", "logout", None, None, None, t)
  /\ UNCHANGED <<credentials, table>>

-----------------------------------------------------------------------------
(***************************************************************************)
(* The credentials: two rows, read in two statements.                      *)
(***************************************************************************)

\* A read that fails counts as the default; no error is reported.
ReadUsername(r) ==
  /\ At(r, "username")
  /\ \E seen \in {username} \cup (IF Failures THEN {DefaultUsername} ELSE {}) :
       req' = [req EXCEPT ![r].seen = seen, ![r].pc = "hash"]
  /\ UNCHANGED <<credentials, table>>

\* The name is compared for a login only; an unreadable hash fits no password.
PasswordFits(r) ==
  /\ password = req[r].word
  /\ req[r].op = "login" => req[r].seen = req[r].name

NameToSet(r) == req[r].name \notin {None, req[r].seen}
AfterHash(r) == IF NameToSet(r) THEN "set_name" ELSE "revoke_all"

ReadHash(r) ==
  /\ At(r, "hash")
  /\ \/ /\ PasswordFits(r)
        /\ Goto(r, CASE req[r].op = "login" -> "issue"
                     [] req[r].newword # None -> "set_hash"
                     [] OTHER -> AfterHash(r))
     \/ (~PasswordFits(r) \/ Failures) /\ Done(r)
  /\ UNCHANGED <<credentials, table>>

SetHash(r) ==
  /\ At(r, "set_hash")
  /\ password' = req[r].newword
  /\ Goto(r, AfterHash(r))
  /\ UNCHANGED <<username, table>>

SetName(r) ==
  /\ At(r, "set_name")
  /\ username' = req[r].name
  /\ Goto(r, "revoke_all")
  /\ UNCHANGED <<password, table>>

\* Fault: the sessions are left to expire.
RevokeAllFault(r) ==
  /\ At(r, "revoke_all")
  /\ Done(r)
  /\ UNCHANGED <<credentials, table>>

RevokeAll(r) ==
  /\ At(r, "revoke_all")
  /\ sessions' = {}
  /\ gone' = [t \in Jtis |-> IF t \in sessions THEN "swept" ELSE gone[t]]
  /\ Done(r)
  /\ UNCHANGED <<credentials, expired, tokens, issued>>

-----------------------------------------------------------------------------
(***************************************************************************)
(* The table.                                                              *)
(***************************************************************************)

\* Fault: the comparison of pruneExpired is turned around.
UnexpiredFault == sessions \cap expired

\* What pruneExpired leaves.
Unexpired == sessions \ expired

\* Fault: validate first, delete nothing.
ConsumeFault(r) ==
  /\ At(r, "consume")
  /\ IF req[r].jti \in Unexpired
     THEN /\ sessions' = Unexpired
          /\ gone' = [gone EXCEPT ![req[r].jti] = "exchanged"]
          /\ Goto(r, "issue")
     ELSE /\ sessions' = Unexpired
          /\ Done(r)
          /\ UNCHANGED gone
  /\ UNCHANGED <<credentials, expired, tokens, issued>>

\* DELETE ... WHERE jti = $1 AND expires_at > NOW() RETURNING jti: one statement.
Consume(r) ==
  /\ At(r, "consume")
  /\ IF req[r].jti \in sessions \ expired
     THEN /\ sessions' = Unexpired \ {req[r].jti}
          /\ gone' = [gone EXCEPT ![req[r].jti] = "exchanged"]
          /\ Goto(r, "issue")
     ELSE /\ sessions' = Unexpired
          /\ Done(r)
          /\ UNCHANGED gone
  /\ UNCHANGED <<credentials, expired, tokens, issued>>

\* Fault: a refresh keeps the identifier it was presented.
NewJtiFault(r) ==
  IF req[r].op = "refresh" THEN {req[r].jti} ELSE {t \in Jtis : issued[t] = None}

\* 16 random bytes: never one that was issued before.
NewJti(r) == {t \in Jtis : issued[t] = None}

\* Prune, then insert the new row.
Issue(r) ==
  /\ At(r, "issue")
  /\ \E t \in NewJti(r) :
       /\ sessions' = Unexpired \cup {t}
       /\ issued' = [issued EXCEPT ![t] =
            IF req[r].op = "login"
            THEN [root |-> t, from |-> None, word |-> req[r].word]
            ELSE [root |-> issued[req[r].jti].root, from |-> req[r].jti,
                  word |-> issued[req[r].jti].word]]
       /\ Begin(r, "answer", req[r].op, None, None, None, t)
  /\ UNCHANGED <<credentials, expired, tokens, gone>>

\* The client receives the pair of tokens, whose refresh token lives as long as
\* its row.
Answer(r) ==
  /\ At(r, "answer")
  /\ tokens' = tokens \cup {req[r].jti}
  /\ Done(r)
  /\ UNCHANGED <<credentials, sessions, expired, issued, gone>>

\* Sign-out succeeds whether or not there was a row to delete.
Revoke(r) ==
  /\ At(r, "revoke")
  /\ sessions' = sessions \ {req[r].jti}
  /\ gone' = IF req[r].jti \in sessions
             THEN [gone EXCEPT ![req[r].jti] = "signed_out"] ELSE gone
  /\ Done(r)
  /\ UNCHANGED <<credentials, expired, tokens, issued>>

\* A statement fails, the client's connection is gone (its context is that of
\* every statement), or the answer is lost: what was done stays done.
Fail(r) ==
  /\ Failures
  /\ ~At(r, "idle")
  /\ Done(r)
  /\ UNCHANGED <<credentials, table>>

\* The lifetime of an issued token ends.
Expire(t) ==
  /\ issued[t] # None
  /\ t \notin expired
  /\ expired' = expired \cup {t}
  /\ UNCHANGED <<credentials, sessions, tokens, req, issued, gone>>

BackendRestart ==
  /\ Failures
  /\ req' = [r \in Requests |-> Free]
  /\ UNCHANGED <<credentials, table>>

Serve(r) ==
  \/ BeginLogin(r) \/ BeginChange(r) \/ BeginRefresh(r) \/ BeginLogout(r)
  \/ ReadUsername(r) \/ ReadHash(r) \/ SetHash(r) \/ SetName(r) \/ RevokeAll(r)
  \/ Consume(r) \/ Issue(r) \/ Answer(r) \/ Revoke(r) \/ Fail(r)

Next ==
  \/ \E r \in Requests : Serve(r)
  \/ \E t \in Jtis : Expire(t)
  \/ BackendRestart

Spec == Init /\ [][Next]_vars

-----------------------------------------------------------------------------
(***************************************************************************)
(* What the session store promises.                                        *)
(***************************************************************************)

\* What a request carries to the statement it is about to execute.
Carried(q) ==
  /\ q.pc = "set_hash" => q.newword \in Passwords
  /\ q.pc = "set_name" => q.name \in Usernames
  /\ q.pc = "consume" => q.op = "refresh"
  /\ q.pc \in {"consume", "revoke", "answer"} => q.jti \in Jtis
  /\ q.pc = "issue" => \/ q.op = "login" /\ q.word \in Passwords
                       \/ q.op = "refresh" /\ q.jti \in Jtis

TypeOK ==
  /\ username \in Usernames /\ password \in Passwords
  /\ sessions \subseteq Jtis /\ expired \subseteq Jtis /\ tokens \subseteq Jtis
  /\ req \in [Requests -> Request]
  /\ \A r \in Requests : Carried(req[r])
  /\ issued \in [Jtis -> Origin \cup {None}]
  /\ gone \in [Jtis -> Reasons]

\* A refresh token is exchanged at most once, however many requests present it
\* at the same time and wherever they fail.
SingleUse ==
  \A t, u \in Jtis :
    issued[t] # None /\ issued[u] # None /\ issued[t].from # None
      => (issued[t].from = issued[u].from => t = u)

\* One login is worth at most one session at a time: no interleaving of
\* refreshes, sign-outs and changes lets it branch into two.
OneSessionPerLogin ==
  \A t, u \in sessions : issued[t].root = issued[u].root => t = u

\* A login stays one session, whatever races, fails or is repeated.
Unbranched == SingleUse /\ OneSessionPerLogin

\* A session that was exchanged, signed out, swept or pruned never works again.  No run
\* checks it by itself: of sessions that are accepted KeepsTickets says more.
GoneForGood ==
  [][\A t \in Jtis : issued[t] # None /\ t \notin sessions => t \notin sessions']_vars

\* No client is signed out for no reason: a row is missing only when its token
\* was exchanged, signed out, swept by a change, or has expired.
NoUnexplainedSignOut ==
  \A t \in Jtis : issued[t] # None /\ t \notin sessions => t \in expired \/ gone[t] # "no"

\* sessions.go: every session is revoked when the credentials change.  Once no
\* change is under way, every session that would still be accepted descends from
\* a login with the password that is now stored.  TLC refutes it even without
\* failures, and no run checks it: what is inserted after the sweep stays.
ChangeRevokesAll ==
  (\A r \in Requests : At(r, "idle") \/ req[r].op # "change")
    => \A t \in sessions : issued[t].word = password

-----------------------------------------------------------------------------
(***************************************************************************)
(* Why they hold: an inductive strengthening, in parts.                    *)
(***************************************************************************)

\* A refresh past its consume holds the session it consumed.
Holds(r, t) == At(r, "issue") /\ req[r].op = "refresh" /\ req[r].jti = t

\* Rows and held sessions were issued; what a session was exchanged for was
\* itself issued, and is no longer a row.
Rooted ==
  /\ \A t \in sessions : issued[t] # None
  /\ \A r \in Requests, t \in Jtis : Holds(r, t) => issued[t] # None /\ t \notin sessions
  /\ \A t \in Jtis : issued[t] # None /\ issued[t].from # None
       => issued[issued[t].from] # None /\ issued[t].from \notin sessions
  /\ \A t \in Jtis : issued[t] # None => issued[issued[t].root] # None

\* A held session has not been exchanged yet, and has one holder.
HeldOnce ==
  /\ \A r \in Requests, t, u \in Jtis :
       Holds(r, t) /\ issued[u] # None => issued[u].from # t
  /\ \A r, q \in Requests, t \in Jtis : Holds(r, t) /\ Holds(q, t) => r = q

\* Rows and held sessions together: at most one per login.
OneTicket ==
  /\ OneSessionPerLogin
  /\ \A r \in Requests, t \in Jtis, u \in sessions :
       Holds(r, t) => issued[u].root # issued[t].root
  /\ \A r, q \in Requests, t, u \in Jtis :
       Holds(r, t) /\ Holds(q, u) /\ issued[t].root = issued[u].root => r = q

IInv == TypeOK /\ Rooted /\ SingleUse /\ HeldOnce /\ OneTicket /\ NoUnexplainedSignOut

-----------------------------------------------------------------------------
(***************************************************************************)
(* The statements implement the store that TicketStore describes.          *)
(***************************************************************************)

Held == {req[r].jti : r \in {q \in Requests : At(q, "issue") /\ req[q].op = "refresh"}}
LoginOf == [t \in Jtis |-> IF issued[t] = None THEN None ELSE issued[t].root]

Store == INSTANCE TicketStore
  WITH Tickets <- Jtis, valid <- Unexpired, taken <- Held, login <- LoginOf

\* Although an exchange is two statements and anything may come between them, seen
\* from the login it belongs to each session has one life: accepted, then exchanged
\* once at most, then never accepted again; and a new one replaces it.
KeepsTickets == Store!StoreSpec
=============================================================================
