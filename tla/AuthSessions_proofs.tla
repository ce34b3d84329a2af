------------------------ MODULE AuthSessions_proofs ------------------------
(***************************************************************************)
(* Proofs about AuthSessions: for any number of requests, sessions, names  *)
(* and passwords, rotation is single-use and exclusive, sessions end only  *)
(* for a reason and for good, and a change of the credentials spares only  *)
(* what CredentialSweep says.                                              *)
(***************************************************************************)
EXTENDS CredentialSweep, TLAPS

LEMMA Constants ==
  /\ DefaultUsername \in Usernames
  /\ None \notin Jtis /\ None \notin Passwords /\ None \notin Usernames
  /\ None \notin Origin
BY UsernamesAssumption, NoneAssumption, OriginAssumption

LEMMA TypeInit == Init => TypeOK
BY Constants DEF Init, TypeOK, Request, Free, Pcs, Ops, Reasons, Carried

LEMMA TypeStep == TypeOK /\ Rooted /\ [Next]_vars => TypeOK'
  <1> SUFFICES ASSUME TypeOK, Rooted, [Next]_vars PROVE TypeOK'
    OBVIOUS
  <1> USE Constants DEF TypeOK, credentials, table
  <1>1. ASSUME NEW r \in Requests, Serve(r) PROVE TypeOK'
    <2> USE DEF At, Goto, Done, Begin, Request, Free, Pcs, Ops, Carried
    <2>1. CASE BeginLogin(r)
      BY <2>1 DEF BeginLogin
    <2>2. CASE BeginChange(r)
      BY <2>2 DEF BeginChange
    <2>3. CASE BeginRefresh(r)
      BY <2>3 DEF BeginRefresh
    <2>4. CASE BeginLogout(r)
      BY <2>4 DEF BeginLogout
    <2>5. CASE ReadUsername(r)
      BY <2>5 DEF ReadUsername
    <2>6. CASE ReadHash(r)
      BY <2>6 DEF ReadHash, AfterHash, NameToSet, PasswordFits
    <2>7. CASE SetHash(r)
      BY <2>7 DEF SetHash, AfterHash, NameToSet
    <2>8. CASE SetName(r)
      BY <2>8 DEF SetName
    <2>9. CASE RevokeAll(r)
      BY <2>9 DEF RevokeAll, Reasons
    <2>10. CASE Consume(r)
      BY <2>10 DEF Consume, Unexpired, Reasons
    <2>11. CASE Issue(r)
      <3>1. PICK t \in NewJti(r) :
              /\ sessions' = Unexpired \cup {t}
              /\ issued' = [issued EXCEPT ![t] =
                   IF req[r].op = "login"
                   THEN [root |-> t, from |-> None, word |-> req[r].word]
                   ELSE [root |-> issued[req[r].jti].root, from |-> req[r].jti,
                         word |-> issued[req[r].jti].word]]
              /\ Begin(r, "answer", req[r].op, None, None, None, t)
        BY <2>11 DEF Issue
      <3>2. issued' \in [Jtis -> Origin \cup {None}]
        BY <2>11, <3>1 DEF Issue, NewJti, Rooted, Origin, Holds
      <3>3. req' \in [Requests -> Request] /\ \A q \in Requests : Carried(req[q])'
        BY <3>1 DEF NewJti
      <3>4. QED
        BY <2>11, <3>1, <3>2, <3>3 DEF Issue, NewJti, Unexpired
    <2>12. CASE Answer(r)
      BY <2>12 DEF Answer
    <2>13. CASE Revoke(r)
      BY <2>13 DEF Revoke, Reasons
    <2>14. CASE Fail(r)
      BY <2>14 DEF Fail
    <2>15. QED
      BY <1>1, <2>1, <2>2, <2>3, <2>4, <2>5, <2>6, <2>7, <2>8, <2>9, <2>10, <2>11, <2>12,
         <2>13, <2>14 DEF Serve
  <1>2. CASE \E t \in Jtis : Expire(t)
    BY <1>2 DEF Expire
  <1>3. CASE BackendRestart
    BY <1>3 DEF BackendRestart, Request, Free, Pcs, Ops, Carried
  <1>4. CASE UNCHANGED vars
    BY <1>4 DEF vars
  <1>5. QED
    BY <1>1, <1>2, <1>3, <1>4 DEF Next
-----------------------------------------------------------------------------
\* A request may reach its insert in two ways only: a login whose password
\* fits, or a refresh that has just consumed its session.
Quiet ==
  /\ issued' = issued /\ expired \subseteq expired'
  /\ sessions' \subseteq sessions
  /\ \A q \in Requests, t \in Jtis : Holds(q, t)' => Holds(q, t)
  /\ \A t \in sessions \ sessions' : t \in expired \/ gone'[t] # "no"
  /\ \A t \in Jtis : gone[t] # "no" => gone'[t] # "no"

\* Every step but the two that exchange a session only lets rows, and sessions
\* held, become fewer.
LEMMA QuietStep ==
  ASSUME TypeOK, [Next]_vars
  PROVE  Quiet \/ (\E r \in Requests : Consume(r) \/ Issue(r))
  <1> USE DEF TypeOK, Quiet, Holds, credentials, table
  <1>1. ASSUME NEW r \in Requests, Serve(r), ~Consume(r), ~Issue(r) PROVE Quiet
    <2> USE DEF At, Goto, Done, Begin, Free
    <2>1. CASE BeginLogin(r)
      BY <2>1 DEF BeginLogin
    <2>2. CASE BeginChange(r)
      BY <2>2 DEF BeginChange
    <2>3. CASE BeginRefresh(r)
      BY <2>3 DEF BeginRefresh
    <2>4. CASE BeginLogout(r)
      BY <2>4 DEF BeginLogout
    <2>5. CASE ReadUsername(r)
      BY <2>5 DEF ReadUsername
    <2>6. CASE ReadHash(r)
      <3>1. \A q \in Requests \ {r} : req'[q] = req[q]
        BY <2>6 DEF ReadHash
      <3>2. ~(req'[r].pc = "issue" /\ req'[r].op = "refresh")
        BY <2>6 DEF ReadHash, AfterHash, Request
      <3>3. QED
        BY <2>6, <3>1, <3>2 DEF ReadHash
    <2>7. CASE SetHash(r)
      BY <2>7 DEF SetHash, AfterHash
    <2>8. CASE SetName(r)
      BY <2>8 DEF SetName
    <2>9. CASE RevokeAll(r)
      BY <2>9 DEF RevokeAll
    <2>10. CASE Answer(r)
      BY <2>10 DEF Answer
    <2>11. CASE Revoke(r)
      BY <2>11 DEF Revoke
    <2>12. CASE Fail(r)
      BY <2>12 DEF Fail
    <2>13. QED
      BY <1>1, <2>1, <2>2, <2>3, <2>4, <2>5, <2>6, <2>7, <2>8, <2>9, <2>10, <2>11, <2>12
         DEF Serve
  <1>2. CASE \E t \in Jtis : Expire(t)
    BY <1>2 DEF Expire, At
  <1>3. CASE BackendRestart
    BY <1>3 DEF BackendRestart, At, Free
  <1>4. CASE UNCHANGED vars
    BY <1>4 DEF vars, At
  <1>5. QED
    BY <1>1, <1>2, <1>3, <1>4 DEF Next

-----------------------------------------------------------------------------
Core == Rooted /\ SingleUse /\ HeldOnce /\ OneTicket /\ NoUnexplainedSignOut

LEMMA CoreQuiet ==
  ASSUME TypeOK, Core, Quiet
  PROVE  Core'
  <1> USE DEF Quiet, Core
  <1>1. Rooted'
    BY DEF Rooted
  <1>2. SingleUse'
    BY DEF SingleUse
  <1>3. HeldOnce'
    BY DEF HeldOnce
  <1>4. OneTicket'
    BY DEF OneTicket, OneSessionPerLogin
  <1>5. NoUnexplainedSignOut'
    BY DEF NoUnexplainedSignOut
  <1>6. QED
    BY <1>1, <1>2, <1>3, <1>4, <1>5

\* The consumed session leaves the table in the step that makes it held.
LEMMA CoreConsume ==
  ASSUME TypeOK, Core, NEW r \in Requests, Consume(r)
  PROVE  Core'
  <1> USE Constants DEF TypeOK, Core
  <1>1. /\ issued' = issued /\ expired' = expired
        /\ sessions' \subseteq sessions \ expired
        /\ \A t \in sessions \ sessions' : t \in expired \/ gone'[t] # "no"
        /\ \A t \in Jtis : gone[t] # "no" => gone'[t] # "no"
    BY DEF Consume, Unexpired, Reasons
  <1>2. \A q \in Requests, t \in Jtis :
          Holds(q, t)' =>
            \/ Holds(q, t)
            \/ q = r /\ t = req[r].jti /\ t \in sessions /\ t \notin sessions'
    <2>1. \A q \in Requests \ {r} : req'[q] = req[q]
      BY DEF Consume, Goto, Done
    <2>2. req'[r].pc = "issue" => req'[r].jti = req[r].jti /\ req[r].jti \in sessions
                                 /\ req[r].jti \notin sessions'
      BY DEF Consume, Goto, Done, Free, Request
    <2>3. ASSUME NEW q \in Requests, NEW t \in Jtis, Holds(q, t)'
          PROVE  \/ Holds(q, t)
                 \/ q = r /\ t = req[r].jti /\ t \in sessions /\ t \notin sessions'
      <3>1. CASE q = r
        BY ONLY <2>2, <2>3, <3>1 DEF Holds, At
      <3>2. CASE q # r
        BY ONLY <2>1, <2>3, <3>2 DEF Holds, At
      <3>3. QED
        BY <3>1, <3>2
    <2>4. QED
      BY <2>3
  <1> HIDE DEF TypeOK
  <1>3. Rooted'
    BY <1>1, <1>2 DEF Rooted
  <1>4. SingleUse'
    BY <1>1 DEF SingleUse
  <1>5. HeldOnce'
    BY <1>1, <1>2 DEF HeldOnce, Rooted
  <1>6. OneTicket'
    BY <1>1, <1>2 DEF OneTicket, OneSessionPerLogin, Rooted
  <1>7. NoUnexplainedSignOut'
    BY <1>1 DEF NoUnexplainedSignOut
  <1>8. QED
    BY <1>3, <1>4, <1>5, <1>6, <1>7

\* The new row takes the place of the session its request held.
LEMMA CoreIssue ==
  ASSUME TypeOK, Core, NEW r \in Requests, Issue(r)
  PROVE  Core'
  <1> USE Constants DEF Core
  <1>1. PICK t \in Jtis :
          /\ issued[t] = None
          /\ sessions' = Unexpired \cup {t}
          /\ issued' = [issued EXCEPT ![t] =
               IF req[r].op = "login"
               THEN [root |-> t, from |-> None, word |-> req[r].word]
               ELSE [root |-> issued[req[r].jti].root, from |-> req[r].jti,
                     word |-> issued[req[r].jti].word]]
          /\ Begin(r, "answer", req[r].op, None, None, None, t)
    BY DEF Issue, NewJti
  <1>2. /\ \A u \in Jtis \ {t} : issued'[u] = issued[u]
        /\ sessions' \subseteq sessions \cup {t}
        /\ expired' = expired /\ gone' = gone
        /\ \A u \in Jtis : u \in sessions /\ u \notin sessions' => u \in expired
    BY <1>1 DEF Issue, TypeOK, Unexpired
  <1>3. \A q \in Requests, u \in Jtis : Holds(q, u)' => q # r /\ Holds(q, u)
    BY <1>1 DEF Holds, At, Begin, TypeOK
  <1>4. issued'[t] # None
    <2>1. issued'[t] \in Origin
      BY <1>1 DEF TypeOK, Issue, Carried, Rooted, Holds, At, Origin
    <2>2. QED
      BY <2>1
  <1>5. \/ issued'[t].root = t /\ issued'[t].from = None
        \/ /\ req[r].jti \in Jtis /\ Holds(r, req[r].jti)
           /\ issued'[t].from = req[r].jti /\ issued'[t].root = issued[req[r].jti].root
    BY <1>1 DEF Issue, At, Holds, TypeOK, Carried
  <1>6. t \notin sessions /\ \A q \in Requests : ~Holds(q, t)
    BY <1>1 DEF Rooted
  <1>7. \A u \in Jtis : issued[u] # None =>
          /\ issued[u].root \in Jtis /\ issued[u].root # t
          /\ issued[u].from \in Jtis \cup {None} /\ issued[u].from # t
    BY <1>1 DEF Rooted, TypeOK, Origin
  <1>8. Rooted'
    <2>1. \A u \in sessions' : issued'[u] # None
      BY <1>2, <1>4 DEF Rooted, TypeOK
    <2>2. \A q \in Requests, u \in Jtis : Holds(q, u)' => issued'[u] # None /\ u \notin sessions'
      BY <1>2, <1>3, <1>6 DEF Rooted
    <2>3. \A u \in Jtis : issued'[u] # None /\ issued'[u].from # None
            => issued'[issued'[u].from] # None /\ issued'[u].from \notin sessions'
      BY <1>2, <1>4, <1>5, <1>6, <1>7 DEF Rooted
    <2>4. \A u \in Jtis : issued'[u] # None => issued'[issued'[u].root] # None
      BY <1>2, <1>4, <1>5, <1>7 DEF Rooted
    <2>5. QED
      BY <2>1, <2>2, <2>3, <2>4 DEF Rooted
  <1>9. SingleUse'
    BY <1>1, <1>2, <1>4, <1>5, <1>7 DEF SingleUse, HeldOnce
  <1>10. HeldOnce'
    BY <1>1, <1>2, <1>3, <1>5, <1>6 DEF HeldOnce
  <1>11. OneTicket'
    <2>1. \A u, w \in sessions' : issued'[u].root = issued'[w].root => u = w
      BY <1>2, <1>4, <1>5, <1>6, <1>7 DEF OneTicket, OneSessionPerLogin, Rooted, TypeOK
    <2>2. \A q \in Requests, u \in Jtis, w \in sessions' :
            Holds(q, u)' => issued'[w].root # issued'[u].root
      BY <1>2, <1>3, <1>5, <1>6, <1>7 DEF OneTicket, Rooted, TypeOK
    <2>3. \A q, p \in Requests, u, w \in Jtis :
            Holds(q, u)' /\ Holds(p, w)' /\ issued'[u].root = issued'[w].root => q = p
      BY <1>2, <1>3, <1>6 DEF OneTicket
    <2>4. QED
      BY <2>1, <2>2, <2>3 DEF OneTicket, OneSessionPerLogin
  <1>12. NoUnexplainedSignOut'
    BY <1>1, <1>2, <1>4 DEF NoUnexplainedSignOut
  <1>13. QED
    BY <1>8, <1>9, <1>10, <1>11, <1>12

LEMMA Inductive == Spec => []IInv
  <1>1. Init => IInv
    <2>1. Init => Core
      BY DEF Init, Core, Rooted, SingleUse, HeldOnce, OneTicket, OneSessionPerLogin,
             NoUnexplainedSignOut, Holds, At, Free
    <2>2. QED
      BY <2>1, TypeInit DEF IInv, Core
  <1>2. IInv /\ [Next]_vars => IInv'
    <2> SUFFICES ASSUME IInv, [Next]_vars PROVE IInv'
      OBVIOUS
    <2>1. TypeOK /\ Core
      BY DEF IInv, Core
    <2>2. TypeOK'
      BY TypeStep DEF IInv
    <2>3. Core'
      BY <2>1, QuietStep, CoreQuiet, CoreConsume, CoreIssue
    <2>4. QED
      BY <2>2, <2>3 DEF IInv, Core
  <1>3. QED
    BY <1>1, <1>2, PTL DEF Spec

-----------------------------------------------------------------------------
\* Every variable keeps its type, and a request always carries what its next
\* statement needs.
THEOREM TypeCorrect == Spec => []TypeOK
  <1>1. IInv => TypeOK
    BY DEF IInv
  <1>2. QED
    BY <1>1, Inductive, PTL

\* Whatever the number of concurrent refreshes, a refresh token is exchanged at
\* most once.
THEOREM RefreshSingleUse == Spec => []SingleUse
  <1>1. IInv => SingleUse
    BY DEF IInv
  <1>2. QED
    BY <1>1, Inductive, PTL

\* A login never has two sessions that both work.
THEOREM NoBranching == Spec => []OneSessionPerLogin
  <1>1. IInv => OneSessionPerLogin
    BY DEF IInv, OneTicket
  <1>2. QED
    BY <1>1, Inductive, PTL

\* Both together: a login stays one session.
THEOREM StaysOne == Spec => []Unbranched
  <1>1. SingleUse /\ OneSessionPerLogin => Unbranched
    BY DEF Unbranched
  <1>2. QED
    BY <1>1, RefreshSingleUse, NoBranching, PTL

\* A session is missing only for a reason.
THEOREM SignOutExplained == Spec => []NoUnexplainedSignOut
  <1>1. IInv => NoUnexplainedSignOut
    BY DEF IInv
  <1>2. QED
    BY <1>1, Inductive, PTL

\* A session that has ended never works again.
THEOREM EndedForGood == Spec => GoneForGood
  <1>1. TypeOK /\ [Next]_vars =>
          [\A t \in Jtis : issued[t] # None /\ t \notin sessions => t \notin sessions']_vars
    <2> SUFFICES ASSUME TypeOK, [Next]_vars
                 PROVE  \A t \in Jtis : issued[t] # None /\ t \notin sessions => t \notin sessions'
      OBVIOUS
    <2>1. CASE Quiet
      BY <2>1 DEF Quiet
    <2>2. CASE \E r \in Requests : Consume(r)
      BY <2>2 DEF Consume, Unexpired
    <2>3. CASE \E r \in Requests : Issue(r)
      BY <2>3 DEF Issue, NewJti, Unexpired
    <2>4. QED
      BY <2>1, <2>2, <2>3, QuietStep
  <1>2. QED
    BY <1>1, TypeCorrect, PTL DEF Spec, GoneForGood
-----------------------------------------------------------------------------
(* The statements implement the store of tickets. *)

LEMMA HeldMeans ==
  ASSUME TypeOK
  PROVE  Held = {t \in Jtis : \E r \in Requests : Holds(r, t)}
  <1>1. \A r \in Requests : At(r, "issue") /\ req[r].op = "refresh" => req[r].jti \in Jtis
    BY DEF TypeOK, Carried, At
  <1>2. QED
    BY <1>1 DEF Held, Holds

LEMMA HeldThen ==
  ASSUME TypeOK'
  PROVE  Held' = {t \in Jtis : \E r \in Requests : Holds(r, t)'}
  <1>1. \A r \in Requests : At(r, "issue")' /\ req'[r].op = "refresh" => req'[r].jti \in Jtis
    BY DEF TypeOK, Carried, At
  <1>2. QED
    BY <1>1 DEF Held, Holds

\* Nothing expires before it is issued.
Aged == \A t \in expired : issued[t] # None

LEMMA AgedNext ==
  ASSUME TypeOK, Aged, [Next]_vars
  PROVE  Aged'
  <1> USE DEF Aged, credentials, table, TypeOK
  <1>1. ASSUME NEW r \in Requests, Issue(r) PROVE Aged'
    <2>1. PICK t \in NewJti(r) : issued' = [issued EXCEPT ![t] =
            IF req[r].op = "login"
            THEN [root |-> t, from |-> None, word |-> req[r].word]
            ELSE [root |-> issued[req[r].jti].root, from |-> req[r].jti,
                  word |-> issued[req[r].jti].word]]
      BY <1>1 DEF Issue
    <2>2. expired' = expired
      BY <1>1 DEF Issue
    <2>3. QED
      BY <2>1, <2>2 DEF NewJti
  <1>2. ASSUME NEW r \in Requests, Serve(r), ~Issue(r) PROVE Aged'
    BY <1>2 DEF Serve, BeginLogin, BeginChange, BeginRefresh, BeginLogout, ReadUsername, ReadHash,
       SetHash, SetName, RevokeAll, Consume, Answer, Revoke, Fail
  <1>3. CASE \E t \in Jtis : Expire(t)
    BY <1>3 DEF Expire
  <1>4. CASE BackendRestart \/ UNCHANGED vars
    BY <1>4 DEF BackendRestart, vars
  <1>5. QED
    BY <1>1, <1>2, <1>3, <1>4 DEF Next

\* The consumed session is taken.
LEMMA TakesTicket ==
  ASSUME IInv, IInv', NEW r \in Requests, Consume(r)
  PROVE  Store!StoreNext
  <1> DEFINE t == req[r].jti
  <1>1. t \in Jtis /\ req[r].op = "refresh" /\ TypeOK /\ TypeOK'
    BY DEF IInv, TypeOK, Carried, Consume, At
  <1>2. issued' = issued /\ expired' = expired
    BY DEF Consume
  <1>3. LoginOf' = LoginOf
    BY <1>2 DEF LoginOf
  <1>4. \A q \in Requests \ {r} : req'[q] = req[q]
    BY <1>1 DEF Consume, Goto, Done, TypeOK
  <1>5. \A q \in Requests \ {r} : \A u : Holds(q, u)' <=> Holds(q, u)
    BY <1>4 DEF Holds, At
  <1>6. \A u : ~Holds(r, u)
    BY DEF Consume, Holds, At
  <1>7. CASE t \in Unexpired
    <2>1. Unexpired' = Unexpired \ {t}
      BY <1>2, <1>7 DEF Consume, Unexpired
    <2>2. \A u : Holds(r, u)' <=> u = t
      BY <1>1, <1>7 DEF Consume, Unexpired, Holds, At, Goto, TypeOK, Request
    <2>3. Held' = Held \cup {t}
      <3>1. Held' = {u \in Jtis : \E q \in Requests : Holds(q, u)'}
        BY <1>1, HeldThen
      <3>2. Held = {u \in Jtis : \E q \in Requests : Holds(q, u)}
        BY <1>1, HeldMeans
      <3>3. QED
        BY <1>1, <1>5, <1>6, <2>2, <3>1, <3>2
    <2>4. Store!Take(t)
      BY <1>3, <1>7, <2>1, <2>3 DEF Store!Take
    <2>5. QED
      BY <1>1, <2>4 DEF Store!StoreNext
  <1>8. CASE t \notin Unexpired
    <2>1. Unexpired' = Unexpired
      BY <1>2, <1>8 DEF Consume, Unexpired
    <2>2. \A u : ~Holds(r, u)'
      BY <1>1, <1>8 DEF Consume, Unexpired, Holds, At, Done, Free, TypeOK
    <2>3. Held' \subseteq Held
      BY <1>1, <1>5, <2>2, HeldMeans DEF Held, Holds, At
    <2>4. Store!End
      BY <1>3, <2>1, <2>3 DEF Store!End
    <2>5. QED
      BY <2>4 DEF Store!StoreNext
  <1>9. QED
    BY <1>7, <1>8

\* The session inserted is a login's first, or replaces the one held.
LEMMA HandsTicket ==
  ASSUME IInv, IInv', Aged, NEW r \in Requests, Issue(r)
  PROVE  Store!StoreNext
  <1> USE Constants
  <1>1. PICK t \in Jtis :
          /\ issued[t] = None
          /\ sessions' = Unexpired \cup {t}
          /\ issued' = [issued EXCEPT ![t] =
               IF req[r].op = "login"
               THEN [root |-> t, from |-> None, word |-> req[r].word]
               ELSE [root |-> issued[req[r].jti].root, from |-> req[r].jti,
                     word |-> issued[req[r].jti].word]]
          /\ Begin(r, "answer", req[r].op, None, None, None, t)
    BY DEF Issue, NewJti
  <1>2. TypeOK /\ TypeOK' /\ Rooted /\ HeldOnce /\ expired' = expired
    BY DEF IInv, Issue
  <1>3. \/ req[r].op = "login"
        \/ req[r].op = "refresh" /\ req[r].jti \in Jtis /\ Holds(r, req[r].jti)
    BY <1>2 DEF Issue, At, Holds, TypeOK, Carried
  <1> DEFINE l == IF req[r].op = "login" THEN t ELSE LoginOf[req[r].jti]
  <1>4. issued'[t] # None /\ issued'[t].root = l
    <2>1. CASE req[r].op = "login"
      BY <1>1, <1>2, <2>1 DEF TypeOK, Origin, Issue, At, Carried
    <2>2. CASE req[r].op # "login"
      <3>1. issued[req[r].jti] \in Origin /\ LoginOf[req[r].jti] = issued[req[r].jti].root
        BY <1>2, <1>3, <2>2 DEF Rooted, LoginOf, TypeOK
      <3>2. issued'[t].root = issued[req[r].jti].root /\ issued'[t] \in Origin
        BY <1>1, <1>2, <1>3, <2>2, <3>1 DEF TypeOK, Origin
      <3>3. QED
        BY <2>2, <3>1, <3>2
    <2>3. QED
      BY <2>1, <2>2
  <1>5. LoginOf' = [LoginOf EXCEPT ![t] = l]
    <2>1. \A u \in Jtis \ {t} : issued'[u] = issued[u]
      BY <1>1, <1>2 DEF TypeOK
    <2>2. \A u \in Jtis : LoginOf'[u] = IF u = t THEN l ELSE LoginOf[u]
      BY <1>4, <2>1 DEF LoginOf
    <2>3. QED
      BY <2>2 DEF LoginOf
  <1>6. Unexpired' = Unexpired \cup {t}
    BY <1>1, <1>2 DEF Unexpired, Aged
  <1>7. Store!Hand(t, l)
    BY <1>1, <1>5, <1>6 DEF Store!Hand, LoginOf
  <1> HIDE DEF l
  <1>8. Held' = {u \in Held : ~Holds(r, u)}
    <2>1. \A q \in Requests, u \in Jtis : Holds(q, u)' <=> q # r /\ Holds(q, u)
      BY <1>1, <1>2 DEF Holds, At, Begin, TypeOK
    <2>2. Held' = {u \in Jtis : \E q \in Requests : Holds(q, u)'}
      BY <1>2, HeldThen
    <2>3. Held = {u \in Jtis : \E q \in Requests : Holds(q, u)}
      BY <1>2, HeldMeans
    <2>4. QED
      BY <1>2, <2>1, <2>2, <2>3 DEF HeldOnce
  <1>9. CASE req[r].op = "login"
    <2>1. Held' = Held
      BY <1>8, <1>9 DEF Holds
    <2>2. Store!SignIn(t)
      BY <1>7, <1>9, <2>1 DEF l, Store!SignIn
    <2>3. QED
      BY <2>2 DEF Store!StoreNext
  <1>10. CASE req[r].op # "login"
    <2>1. /\ req[r].jti \in Held /\ req[r].jti \in Jtis
          /\ Held' = Held \ {req[r].jti}
      BY <1>2, <1>3, <1>8, <1>10, HeldMeans DEF Holds
    <2>2. Store!Replace(req[r].jti, t)
      BY <1>7, <1>10, <2>1 DEF l, Store!Replace
    <2>3. QED
      BY <2>1, <2>2 DEF Store!StoreNext
  <1>11. QED
    BY <1>9, <1>10

\* Whatever else happens, tickets only become fewer.
LEMMA EndsTickets ==
  ASSUME TypeOK, TypeOK', Quiet
  PROVE  Store!StoreNext
  <1>1. LoginOf' = LoginOf
    BY DEF Quiet, LoginOf
  <1>2. Unexpired' \subseteq Unexpired
    BY DEF Quiet, Unexpired
  <1>3. Held' \subseteq Held
    <2>1. Held' = {u \in Jtis : \E q \in Requests : Holds(q, u)'}
      BY HeldThen
    <2>2. Held = {u \in Jtis : \E q \in Requests : Holds(q, u)}
      BY HeldMeans
    <2>3. QED
      BY <2>1, <2>2 DEF Quiet
  <1>4. QED
    BY <1>1, <1>2, <1>3 DEF Store!StoreNext, Store!End

\* Under the mapping of AuthSessions every statement of the backend, wherever others
\* come between and wherever it fails, is a step of the store of tickets.
THEOREM KeptAsTickets == Spec => KeepsTickets
  <1>1. Init => Store!StoreInit /\ Aged
    BY DEF Init, Store!StoreInit, Unexpired, Held, LoginOf, At, Free, Aged
  <1>2. IInv /\ IInv' /\ Aged /\ [Next]_vars => [Store!StoreNext]_(Store!storeVars)
    BY QuietStep, TakesTicket, HandsTicket, EndsTickets DEF IInv
  <1>3. IInv /\ Aged /\ [Next]_vars => Aged'
    BY AgedNext DEF IInv
  <1>4. QED
    BY <1>1, <1>2, <1>3, Inductive, PTL DEF Spec, KeepsTickets, Store!StoreSpec

\* And that is enough: a store that keeps to TicketStore, whatever implements it, has
\* one ticket per login.
THEOREM TicketsAreEnough == KeepsTickets => []Store!OneEach
  <1> USE NoneAssumption
  <1>1. Store!StoreInit => Store!StoreInv
    BY DEF Store!StoreInit, Store!StoreInv, Store!OneEach
  <1>2. Store!StoreInv /\ [Store!StoreNext]_(Store!storeVars) => Store!StoreInv'
    <2> SUFFICES ASSUME Store!StoreInv, [Store!StoreNext]_(Store!storeVars) PROVE Store!StoreInv'
      OBVIOUS
    <2> USE DEF Store!StoreInv, Store!OneEach
    <2>1. ASSUME NEW t \in Jtis, Store!SignIn(t) PROVE Store!StoreInv'
      BY <2>1 DEF Store!SignIn, Store!Hand
    <2>2. ASSUME NEW t \in Jtis, Store!Take(t) PROVE Store!StoreInv'
      BY <2>2 DEF Store!Take
    <2>3. ASSUME NEW t \in Jtis, NEW u \in Jtis, Store!Replace(t, u) PROVE Store!StoreInv'
      BY <2>3 DEF Store!Replace, Store!Hand
    <2>4. CASE Store!End
      BY <2>4 DEF Store!End
    <2>5. CASE UNCHANGED Store!storeVars
      BY <2>5 DEF Store!storeVars
    <2>6. QED
      BY <2>1, <2>2, <2>3, <2>4, <2>5 DEF Store!StoreNext
  <1>3. Store!StoreInv => Store!OneEach
    BY DEF Store!StoreInv
  <1>4. QED
    BY <1>1, <1>2, <1>3, PTL DEF KeepsTickets, Store!StoreSpec

-----------------------------------------------------------------------------
Swept == OnlySparedSurvive /\ AboutToInsert

\* Of a step that neither sets a password, nor sweeps, nor inserts: no row comes, and
\* who is about to insert then was before, or has just passed the check of its own.
Idles ==
  /\ password' = password /\ issued' = issued /\ sessions' \subseteq sessions
  /\ \A q \in Requests : req'[q].pc = "issue" =>
       \/ req'[q] = req[q]
       \/ req'[q].op = "login" /\ req'[q].word = password
       \/ req'[q].op # "login" /\ req'[q].jti \in sessions

LEMMA IdleSteps ==
  ASSUME TypeOK, [Next]_vars
  PROVE  Idles \/ (\E r \in Requests : SetHash(r) \/ RevokeAll(r) \/ Issue(r))
  <1> USE DEF TypeOK, Idles, credentials, table
  <1>1. ASSUME NEW r \in Requests, Serve(r), ~SetHash(r), ~RevokeAll(r), ~Issue(r) PROVE Idles
    <2> USE DEF At, Goto, Done, Begin, Free, Request
    <2>1. CASE BeginLogin(r)
      BY <2>1 DEF BeginLogin
    <2>2. CASE BeginChange(r)
      BY <2>2 DEF BeginChange
    <2>3. CASE BeginRefresh(r)
      BY <2>3 DEF BeginRefresh
    <2>4. CASE BeginLogout(r)
      BY <2>4 DEF BeginLogout
    <2>5. CASE ReadUsername(r)
      BY <2>5 DEF ReadUsername
    <2>6. CASE ReadHash(r)
      <3>1. \A q \in Requests \ {r} : req'[q] = req[q]
        BY <2>6 DEF ReadHash
      <3>2. req'[r].pc = "issue" => req'[r].op = "login" /\ req'[r].word = password
        BY <2>6 DEF ReadHash, AfterHash, PasswordFits
      <3>3. QED
        BY <2>6, <3>1, <3>2 DEF ReadHash
    <2>7. CASE SetName(r)
      BY <2>7 DEF SetName
    <2>8. CASE Consume(r)
      <3>1. req'[r].pc = "issue" => req'[r].op # "login" /\ req'[r].jti \in sessions
        BY <2>8 DEF Consume, Carried
      <3>2. \A q \in Requests \ {r} : req'[q] = req[q]
        BY <2>8 DEF Consume
      <3>3. sessions' \subseteq sessions
        BY <2>8 DEF Consume, Unexpired
      <3>4. QED
        BY <2>8, <3>1, <3>2, <3>3 DEF Consume
    <2>9. CASE Answer(r)
      BY <2>9 DEF Answer
    <2>10. CASE Revoke(r)
      BY <2>10 DEF Revoke
    <2>11. CASE Fail(r)
      BY <2>11 DEF Fail
    <2>12. QED
      BY <1>1, <2>1, <2>2, <2>3, <2>4, <2>5, <2>6, <2>7, <2>8, <2>9, <2>10, <2>11 DEF Serve
  <1>2. CASE \E t \in Jtis : Expire(t)
    BY <1>2 DEF Expire
  <1>3. CASE BackendRestart
    BY <1>3 DEF BackendRestart, Free
  <1>4. CASE UNCHANGED vars
    BY <1>4 DEF vars
  <1>5. QED
    BY <1>1, <1>2, <1>3, <1>4 DEF Next

LEMMA SweptIdle ==
  ASSUME TypeOK, Swept, Idles,
         spared' = Heirs \cup {x \in spared : x \in Jtis \/ At(x, "issue")'}
  PROVE  Swept'
  <1> USE DEF Swept, Idles
  <1>1. OnlySparedSurvive'
    BY DEF OnlySparedSurvive, TypeOK
  <1>2. ASSUME NEW q \in Requests, q \notin spared', req'[q].pc = "issue"
        PROVE  IF req'[q].op = "login" THEN req'[q].word = password'
               ELSE req'[q].jti \notin spared' => issued'[req'[q].jti].word = password'
    <2>1. CASE req'[q] = req[q]
      <3>1. At(q, "issue") /\ q \notin spared
        BY <1>2, <2>1 DEF At
      <3>2. req[q].op # "login" => req[q].jti \in Jtis
        BY <3>1 DEF TypeOK, Carried, At
      <3>3. QED
        BY <2>1, <3>1, <3>2 DEF AboutToInsert
    <2>2. CASE req'[q].op = "login" /\ req'[q].word = password
      BY <2>2
    <2>3. CASE req'[q].op # "login" /\ req'[q].jti \in sessions
      BY <2>3 DEF OnlySparedSurvive, TypeOK
    <2>4. QED
      BY <1>2, <2>1, <2>2, <2>3
  <1>3. QED
    BY <1>1, <1>2 DEF AboutToInsert, At

\* The session inserted is an heir, or of the password that is stored.
LEMMA SweptIssue ==
  ASSUME TypeOK, Rooted, Swept, NEW r \in Requests, Issue(r),
         spared' = Heirs \cup {x \in spared : x \in Jtis \/ At(x, "issue")'}
  PROVE  Swept'
  <1> USE Constants DEF Swept
  <1>1. PICK t \in Jtis :
          /\ issued[t] = None
          /\ sessions' = Unexpired \cup {t}
          /\ issued' = [issued EXCEPT ![t] =
               IF req[r].op = "login"
               THEN [root |-> t, from |-> None, word |-> req[r].word]
               ELSE [root |-> issued[req[r].jti].root, from |-> req[r].jti,
                     word |-> issued[req[r].jti].word]]
          /\ Begin(r, "answer", req[r].op, None, None, None, t)
    BY DEF Issue, NewJti
  <1>2. /\ At(r, "issue") /\ At(r, "answer")'
        /\ \A q \in Requests \ {r} : req'[q] = req[q]
        /\ \A u \in Jtis \ {t} : issued'[u] = issued[u]
        /\ sessions' \subseteq sessions \cup {t} /\ sessions' \subseteq Jtis
        /\ password' = password
    BY <1>1 DEF Issue, TypeOK, Unexpired, At, Begin, credentials
  <1>3. IF req[r].op = "login" THEN issued'[t].word = req[r].word
        ELSE issued'[t].from = req[r].jti /\ issued'[t].word = issued[req[r].jti].word
    BY <1>1 DEF TypeOK
  <1>4. issued'[t] # issued[t]
    <2>1. issued'[t] \in Origin
      BY <1>1, <1>2 DEF TypeOK, Carried, Rooted, Holds, At, Origin
    <2>2. QED
      BY <1>1, <2>1
  <1>5. t \in Heirs \/ issued'[t].word = password
    <2>1. CASE r \in spared
      BY <1>2, <1>4, <2>1 DEF Heirs
    <2>2. CASE r \notin spared
      BY <1>2, <1>3, <1>4, <2>2 DEF Heirs, AboutToInsert
    <2>3. QED
      BY <2>1, <2>2
  <1>6. OnlySparedSurvive'
    BY <1>2, <1>5 DEF OnlySparedSurvive
  <1>7. ASSUME NEW q \in Requests, q \notin spared', req'[q].pc = "issue"
        PROVE  IF req'[q].op = "login" THEN req'[q].word = password'
               ELSE req'[q].jti \notin spared' => issued'[req'[q].jti].word = password'
    <2>1. q # r /\ req'[q] = req[q] /\ q \notin spared
      BY <1>2, <1>7 DEF At
    <2>2. At(q, "issue")
      BY <1>7, <2>1 DEF At
    <2>3. req[q].op # "login" => req[q].jti \in Jtis \ {t}
      BY <1>1, <2>2 DEF TypeOK, Carried, At, Rooted, Holds
    <2>4. QED
      BY <1>2, <2>1, <2>2, <2>3 DEF AboutToInsert
  <1>8. QED
    BY <1>6, <1>7 DEF AboutToInsert, At

LEMMA SweptNext ==
  ASSUME TypeOK, Rooted, Swept, SweepNext
  PROVE  Swept'
  <1>1. CASE \E r \in Requests : RevokeAll(r)
    <2>1. sessions' = {} /\ spared' = Inserting
      BY <1>1 DEF SweepNext, RevokeAll
    <2>2. \A q \in Requests : At(q, "issue")' => At(q, "issue")
      BY <1>1 DEF RevokeAll, At, Done, Free, TypeOK
    <2>3. QED
      BY <2>1, <2>2 DEF Swept, OnlySparedSurvive, AboutToInsert, Inserting
  <1>2. CASE ~(\E r \in Requests : RevokeAll(r)) /\ \E r \in Requests : SetHash(r)
    <2>1. sessions' = sessions /\ spared' = spared \cup sessions \cup Inserting
      BY <1>2 DEF SweepNext, SetHash, table
    <2>2. \A q \in Requests : At(q, "issue")' => At(q, "issue")
      BY <1>2 DEF SetHash, At, Goto, AfterHash, TypeOK
    <2>3. QED
      BY <2>1, <2>2 DEF Swept, OnlySparedSurvive, AboutToInsert, Inserting
  <1>3. CASE ~(\E r \in Requests : RevokeAll(r)) /\ ~(\E r \in Requests : SetHash(r))
    <2>1. spared' = Heirs \cup {x \in spared : x \in Jtis \/ At(x, "issue")'}
      BY <1>3 DEF SweepNext
    <2>2. Idles \/ \E r \in Requests : Issue(r)
      BY <1>3, IdleSteps DEF SweepNext
    <2>3. QED
      BY <2>1, <2>2, SweptIdle, SweptIssue
  <1>4. QED
    BY <1>1, <1>2, <1>3

\* However changes, logins and refreshes interleave, and wherever they fail, a session
\* that is accepted after a change of the password, and is not of that password, was
\* being inserted during a sweep, or the change has not come to its sweep.
THEOREM ChangeSpares == SweepSpec => []OnlySparedSurvive
  <1>1. SweepSpec => Spec
    <2>1. SweepInit => Init
      BY DEF SweepInit
    <2>2. [SweepNext]_sweepVars => [Next]_vars
      BY DEF SweepNext, sweepVars
    <2>3. QED
      BY <2>1, <2>2, PTL DEF SweepSpec, Spec
  <1>2. SweepInit => Swept
    BY DEF SweepInit, Init, Swept, OnlySparedSurvive, AboutToInsert, At, Free
  <1>3. IInv /\ Swept /\ [SweepNext]_sweepVars => Swept'
    <2>1. CASE UNCHANGED sweepVars
      BY <2>1 DEF sweepVars, vars, Swept, OnlySparedSurvive, AboutToInsert, At
    <2>2. QED
      BY <2>1, SweptNext DEF IInv
  <1>4. Swept => OnlySparedSurvive
    BY DEF Swept
  <1>5. QED
    BY <1>1, <1>2, <1>3, <1>4, Inductive, PTL DEF SweepSpec
=============================================================================
