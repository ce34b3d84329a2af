-------------------------- MODULE WebClient_proofs --------------------------
(***************************************************************************)
(* What holds of the parts of the web client that go on by themselves: the *)
(* status stream, for any number of pages, calls and page swaps; the token *)
(* pair, for any number of calls in one tab.                               *)
(***************************************************************************)
EXTENDS DeviceStream, WebTokens, PanelCard, FiniteSetTheorems, TLAPS

-----------------------------------------------------------------------------
(* The status stream. *)

CallStates == {"none", "fetching", "reading"}

LEMMA StreamTypeInit == Init => TypeOK
<1> SUFFICES ASSUME Init PROVE TypeOK
    OBVIOUS
<1>1. retries \in 0 .. MaxRetries /\ swaps \in 0 .. MaxSwaps /\ call \in [Streams -> CallStates]
  BY MaxRetriesAssumption, MaxSwapsAssumption DEF Init, CallStates
<1>2. connected \in BOOLEAN /\ timer \in BOOLEAN /\ active \in BOOLEAN
  BY DEF Init
<1> QED
  BY <1>1, <1>2 DEF Init, TypeOK, Alive, CallStates

LEMMA StreamTypeNext == TypeOK /\ [Next]_vars => TypeOK'
<1> SUFFICES ASSUME TypeOK, [Next]_vars PROVE TypeOK'
    OBVIOUS
<1> DEFINE CallsOK ==
      /\ call' \in [Streams -> CallStates]
      /\ \A s \in aborted' : s \in Streams /\ call'[s] # "none"
<1> USE NullAssumption, MaxRetriesAssumption, MaxSwapsAssumption DEF TypeOK, Alive
<1>1. connected' \in BOOLEAN /\ timer' \in BOOLEAN /\ active' \in BOOLEAN
  BY DEF Next, Mount, Unmount, StartStream, StopStream, Connect, Opened, Frame, Ended, Reschedule,
         TimerFires, vars
<1>2. retries' \in 0 .. MaxRetries
  BY DEF Next, Mount, Unmount, StartStream, Opened, Frame, Ended, Reschedule, TimerFires, vars
<1>5. swaps' \in 0 .. MaxSwaps
  BY DEF Next, Mount, Unmount, Opened, Frame, Ended, TimerFires, Swap, Settle, vars
<1>3. mounted' \subseteq Consumers /\ controller' \in Streams \cup {Null}
  BY DEF Next, Mount, Unmount, StartStream, StopStream, Connect, Opened, Frame, Ended, TimerFires,
         vars
<1>4. CallsOK
  <2> USE DEF CallStates
  <2>1. ASSUME NEW c \in Consumers, Mount(c) PROVE CallsOK
    BY <2>1 DEF Mount, StartStream, Connect
  <2>2. ASSUME NEW c \in Consumers, Unmount(c) PROVE CallsOK
    BY <2>2 DEF Unmount, StopStream
  <2>3. ASSUME NEW s \in Streams, Opened(s) \/ Frame(s) PROVE CallsOK
    BY <2>3 DEF Opened, Frame
  <2>4. ASSUME NEW s \in Streams, Ended(s) PROVE CallsOK
    BY <2>4 DEF Ended
  <2>5. CASE TimerFires
    BY <2>5 DEF TimerFires, Connect
  <2>6. CASE UNCHANGED vars
    BY <2>6 DEF vars
  <2> QED
    BY <2>1, <2>2, <2>3, <2>4, <2>5, <2>6 DEF Next
<1> QED
  BY <1>1, <1>2, <1>3, <1>4, <1>5 DEF CallStates

\* Every variable keeps its type, for any number of pages and calls.
THEOREM TypeCorrect == Spec => []TypeOK
BY StreamTypeInit, StreamTypeNext, PTL DEF Spec

-----------------------------------------------------------------------------
\* Why the streams are so few: while one is wanted there is one that the shared
\* controller names or a reconnect that will name one, and every other stream or
\* aborted call, each of which may yet lead to a stream, goes back to a page swap.
One(b) == IF b THEN 1 ELSE 0
Left == Cardinality(Running) + Cardinality(aborted)

StreamInv ==
  /\ connected <=> Wanted
  /\ ~connected => ~timer
  /\ connected => timer \/ controller \in Running
  /\ connected => Left + One(timer) <= 1 + swaps
  /\ ~connected => Left <= One(aborted # {}) + swaps

LEMMA SetsOfCalls ==
  ASSUME TypeOK
  PROVE  /\ IsFiniteSet(Running) /\ Cardinality(Running) \in Nat
         /\ IsFiniteSet(aborted) /\ Cardinality(aborted) \in Nat
<1>1. Running \subseteq Streams /\ aborted \subseteq Streams
  BY DEF TypeOK, Running, Alive
<1>2. IsFiniteSet(Running) /\ IsFiniteSet(aborted)
  BY <1>1, StreamsAssumption, FS_Subset
<1> QED
  BY <1>2, FS_CardinalityType

LEMMA OneInit == Init => StreamInv
<1> SUFFICES ASSUME Init PROVE StreamInv
    OBVIOUS
<1>1. Running = {} /\ aborted = {}
  BY DEF Init, Running, Alive
<1>2. Left = 0
  BY <1>1, FS_EmptySet DEF Left
<1> QED
  BY <1>1, <1>2 DEF Init, StreamInv, Wanted, One

\* A call that begins is one stream more.
LEMMA OneMore ==
  ASSUME TypeOK, NEW s \in Streams, Connect(s), aborted' = aborted
  PROVE  Left' = Left + 1 /\ controller' \in Running'
<1>1. s \notin Running /\ s \notin aborted
  BY DEF TypeOK, Connect, Running, Alive
<1>2. Running' = Running \cup {s} /\ controller' = s
  BY <1>1 DEF TypeOK, Connect, Running, Alive
<1>3. Cardinality(Running \cup {s}) = Cardinality(Running) + 1
  BY <1>1, SetsOfCalls, FS_AddElement
<1> QED
  BY <1>2, <1>3, SetsOfCalls DEF Left

\* An abort turns a running call into one that has not settled.
LEMMA NoneMore ==
  ASSUME TypeOK, StopStream, UNCHANGED call
  PROVE  Left' = Left /\ (controller \in Running => aborted' # {})
<1>1. CASE controller \in Running
  <2>1. controller \notin aborted /\ controller \in Alive
    BY <1>1 DEF Running
  <2>2. Running' = Running \ {controller} /\ aborted' = aborted \cup {controller}
    BY <2>1 DEF StopStream, Running, Alive
  <2>3. /\ Cardinality(Running \ {controller}) = Cardinality(Running) - 1
        /\ Cardinality(aborted \cup {controller}) = Cardinality(aborted) + 1
    BY <1>1, <2>1, SetsOfCalls, FS_AddElement, FS_RemoveElement
  <2> QED
    BY <2>2, <2>3, SetsOfCalls DEF Left
<1>2. CASE controller \notin Running
  <2>1. Running' = Running /\ aborted' = aborted
    BY <1>2 DEF StopStream, Running, Alive, TypeOK
  <2> QED
    BY <1>2, <2>1 DEF Left
<1> QED
  BY <1>1, <1>2

LEMMA OneLess ==
  ASSUME TypeOK, NEW s \in Streams, Ended(s)
  PROVE  /\ Left' = Left - 1
         /\ s \notin aborted => aborted' = aborted
<1>1. s \in Alive /\ aborted' = aborted \ {s} /\ Alive' = Alive \ {s}
  BY DEF Ended, Alive, TypeOK
<1>2. CASE s \in aborted
  <2>1. Running' = Running
    BY <1>1, <1>2 DEF Running
  <2>2. Cardinality(aborted \ {s}) = Cardinality(aborted) - 1
    BY <1>2, SetsOfCalls, FS_RemoveElement
  <2> QED
    BY <1>1, <1>2, <2>1, <2>2, SetsOfCalls DEF Left
<1>3. CASE s \notin aborted
  <2>1. Running' = Running \ {s} /\ s \in Running /\ aborted' = aborted
    BY <1>1, <1>3 DEF Running
  <2>2. Cardinality(Running \ {s}) = Cardinality(Running) - 1
    BY <2>1, SetsOfCalls, FS_RemoveElement
  <2> QED
    BY <2>1, <2>2, SetsOfCalls DEF Left
<1> QED
  BY <1>2, <1>3

LEMMA LeftType == TypeOK => Left \in Nat /\ swaps \in Nat
BY SetsOfCalls, MaxSwapsAssumption DEF Left, TypeOK

LEMMA OneNext == TypeOK /\ StreamInv /\ [Next]_vars => StreamInv'
<1> SUFFICES ASSUME TypeOK, StreamInv, [Next]_vars PROVE StreamInv'
    OBVIOUS
<1>0. Left \in Nat /\ swaps \in Nat
  BY LeftType
<1>1. ASSUME NEW c \in Consumers, Mount(c) PROVE StreamInv'
  <2>1. Wanted' /\ connected' /\ aborted' = aborted /\ timer' = timer
    BY <1>1 DEF Mount, StartStream, Wanted
  <2>2. CASE connected
    <3>1. Running' = Running /\ controller' = controller /\ Left' = Left
      BY <1>1, <2>2 DEF Mount, StartStream, Running, Alive, Left
    <3>2. swaps' \in Nat /\ swaps' >= swaps
      BY <1>0, <1>1 DEF Mount, Swap
    <3>3. Left + One(timer) <= 1 + swaps /\ One(timer) \in Nat /\ One(timer') = One(timer)
      BY <2>1, <2>2 DEF StreamInv, One
    <3>4. Left' + One(timer') <= 1 + swaps'
      BY <1>0, <3>1, <3>2, <3>3
    <3> QED
      BY <2>1, <2>2, <3>1, <3>4 DEF StreamInv
  <2>3. CASE ~connected
    <3>1. Left' = Left + 1 /\ controller' \in Running'
      BY <1>1, <2>3, OneMore DEF Mount, StartStream
    <3>2. swaps' = One(aborted # {}) + swaps
      BY <1>0, <1>1 DEF Mount, Swap, One
    <3>3. Left <= One(aborted # {}) + swaps /\ ~timer
      BY <2>3 DEF StreamInv
    <3> QED
      BY <1>0, <2>1, <3>1, <3>2, <3>3 DEF StreamInv, One
  <2> QED
    BY <2>2, <2>3
<1>2. ASSUME NEW c \in Consumers, Unmount(c) PROVE StreamInv'
  <2>1. CASE mounted # {c}
    <3>1. Wanted' /\ Wanted
      BY <1>2, <2>1 DEF Unmount, Wanted
    <3>2. /\ UNCHANGED <<connected, controller, timer, aborted>>
          /\ Running' = Running /\ Left' = Left /\ connected
      BY <1>2, <2>1, <3>1 DEF Unmount, Running, Alive, Left, StreamInv
    <3>3. swaps' = swaps
      BY <1>2, <3>2 DEF Unmount, Settle
    <3> QED
      BY <3>1, <3>2, <3>3 DEF StreamInv, One
  <2>2. CASE mounted = {c}
    <3>1. StopStream /\ UNCHANGED call /\ ~Wanted' /\ connected
      BY <1>2, <2>2 DEF Unmount, Wanted, StreamInv
    <3>2. ~connected' /\ ~timer'
      BY <3>1 DEF StopStream
    <3>3. Left' = Left /\ (controller \in Running => aborted' # {})
      BY <3>1, NoneMore
    <3>4. Left' <= One(aborted' # {}) + swaps
      BY <1>0, <3>1, <3>3 DEF StreamInv, One
    <3>5. CASE Alive' = {}
      <4>1. TypeOK'
        BY StreamTypeNext
      <4>2. Running' = {} /\ aborted' = {}
        BY <3>5, <4>1 DEF Running, TypeOK
      <4>3. Left' = 0 /\ swaps' = 0
        BY <1>2, <3>2, <3>5, <4>2, FS_EmptySet DEF Left, Unmount, Settle
      <4> QED
        BY <3>1, <3>2, <4>2, <4>3 DEF StreamInv, One
    <3>6. CASE Alive' # {}
      <4>1. swaps' = swaps
        BY <1>2, <3>6 DEF Unmount, Settle
      <4> QED
        BY <3>1, <3>2, <3>4, <4>1 DEF StreamInv
    <3> QED
      BY <3>5, <3>6
  <2> QED
    BY <2>1, <2>2
<1>3. ASSUME NEW s \in Streams, Opened(s) \/ Frame(s) PROVE StreamInv'
  <2>1. UNCHANGED <<mounted, connected, controller, timer, aborted, swaps>> /\ Alive' = Alive
    BY <1>3 DEF Opened, Frame, Alive, TypeOK
  <2>2. Running' = Running /\ Left' = Left
    BY <2>1 DEF Running, Left
  <2> QED
    BY <2>1, <2>2 DEF StreamInv, Wanted, One
<1>4. ASSUME NEW s \in Streams, Ended(s) PROVE StreamInv'
  <2>1. Left' = Left - 1 /\ (s \notin aborted => aborted' = aborted)
    BY <1>4, OneLess
  <2>2. UNCHANGED <<mounted, connected, controller>>
    BY <1>4 DEF Ended
  <2>3. CASE connected
    <3>1. timer' /\ swaps' = swaps
      BY <1>4, <2>2, <2>3 DEF Ended, Reschedule, Settle
    <3> QED
      BY <1>0, <2>1, <2>2, <2>3, <3>1 DEF StreamInv, Wanted, One
  <2>4. CASE ~connected
    <3>1. ~timer' /\ ~connected'
      BY <1>4, <2>2, <2>4 DEF Ended, Reschedule, StreamInv
    <3>2. CASE Alive' = {}
      <4>1. TypeOK'
        BY StreamTypeNext
      <4>2. Running' = {} /\ aborted' = {}
        BY <3>2, <4>1 DEF Running, TypeOK
      <4>3. Left' = 0 /\ swaps' = 0
        BY <1>4, <3>1, <3>2, <4>2, FS_EmptySet DEF Left, Ended, Settle
      <4> QED
        BY <2>2, <2>4, <3>1, <4>2, <4>3 DEF StreamInv, Wanted, One
    <3>3. CASE Alive' # {}
      <4>1. swaps' = swaps
        BY <1>4, <3>3 DEF Ended, Settle
      <4>2. Left' <= One(aborted' # {}) + swaps'
        BY <1>0, <2>1, <2>4, <4>1 DEF StreamInv, One
      <4> QED
        BY <2>2, <2>4, <3>1, <4>2 DEF StreamInv, Wanted
    <3> QED
      BY <3>2, <3>3
  <2> QED
    BY <2>3, <2>4
<1>5. CASE TimerFires
  <2>1. connected /\ timer
    BY <1>5 DEF TimerFires, StreamInv
  <2>2. Left' = Left + 1 /\ controller' \in Running'
    BY <1>5, <2>1, OneMore DEF TimerFires
  <2> QED
    BY <1>0, <1>5, <2>1, <2>2 DEF TimerFires, StreamInv, Wanted, One
<1>6. CASE UNCHANGED vars
  BY <1>6 DEF vars, StreamInv, Wanted, Running, Alive, Left, One
<1> QED
  BY <1>1, <1>2, <1>3, <1>4, <1>5, <1>6 DEF Next

LEMMA StreamSafe == Spec => [](TypeOK /\ StreamInv)
<1>1. Init => TypeOK /\ StreamInv
  BY StreamTypeInit, OneInit
<1>2. TypeOK /\ StreamInv /\ [Next]_vars => (TypeOK /\ StreamInv)'
  BY StreamTypeNext, OneNext
<1> QED
  BY <1>1, <1>2, PTL DEF Spec

\* Each page swap costs at most one stream more, for any number of pages, calls
\* and swaps (startStream, stopStream and the finally clause of connectStream).
THEOREM OneStream == Spec => []StreamPerSwap
<1>1. TypeOK /\ StreamInv => StreamPerSwap
  <2> SUFFICES ASSUME TypeOK, StreamInv PROVE StreamPerSwap
      OBVIOUS
  <2>1. swaps \in Nat /\ Cardinality(Running) \in Nat /\ Cardinality(aborted) \in Nat
    BY LeftType, SetsOfCalls
  <2>2. CASE connected
    BY <2>1, <2>2 DEF StreamInv, StreamPerSwap, Left, One
  <2>3. CASE ~connected
    BY <2>1, <2>3 DEF StreamInv, StreamPerSwap, Left, One
  <2> QED
    BY <2>2, <2>3
<1> QED
  BY <1>1, StreamSafe, PTL

\* Once the last page has gone nothing is scheduled, and nothing runs but what
\* page swaps left behind (stopStream).
THEOREM StopsWithLastPage == Spec => []OnlyWhileWanted
<1>1. TypeOK /\ StreamInv => OnlyWhileWanted
  <2> SUFFICES ASSUME TypeOK, StreamInv, ~Wanted PROVE ~timer /\ Cardinality(Running) <= swaps
      BY DEF OnlyWhileWanted
  <2>1. swaps \in Nat /\ Cardinality(Running) \in Nat /\ Cardinality(aborted) \in Nat
    BY LeftType, SetsOfCalls
  <2>2. ~connected /\ ~timer
    BY DEF StreamInv
  <2>3. aborted = {} \/ Cardinality(aborted) >= 1
    BY <2>1, SetsOfCalls, FS_EmptySet
  <2> QED
    BY <2>1, <2>2, <2>3 DEF StreamInv, Left, One
<1> QED
  BY <1>1, StreamSafe, PTL

-----------------------------------------------------------------------------
(* The token pair: no refusal without a cause, in one tab. *)

LEMMA TokensTypeInit == TokensInit => TokensTypeOK
BY DEF TokensInit, TokensTypeOK, Opt, NoRefresh, NoCall, Refresh, Call

LEMMA TokensTypeNext == TokensTypeOK /\ [TokensNext]_tokenVars => TokensTypeOK'
<1> SUFFICES ASSUME TokensTypeOK, [TokensNext]_tokenVars PROVE TokensTypeOK'
    OBVIOUS
<1> USE DEF TokensTypeOK, Opt
<1>0. NoRefresh \in Refresh /\ NoCall \in Call
  BY DEF NoRefresh, NoCall, Refresh, Call, Opt
<1>1. ASSUME NEW b \in Tabs, Load(b)
      PROVE  /\ shared' \in [Tabs -> Calls \cup {Nil}] /\ refresh' \in [Tabs -> [Calls -> Refresh]]
             /\ apiCall' \in [Tabs -> [Calls -> Call]] /\ signout' \in [Tabs -> Opt]
  BY <1>0, <1>1 DEF Load
<1>2. ASSUME NEW b \in Tabs, Page(b) PROVE TokensTypeOK'
  <2>1. CASE Login(b)
    BY <2>1 DEF Login, Store
  <2>2. CASE Reload(b)
    BY <1>1, <2>2 DEF Reload, Presented
  <2>3. CASE Logout(b)
    BY <2>3 DEF Logout
  <2>4. ASSUME NEW c \in Calls, Send(b, c) PROVE TokensTypeOK'
    <3>1. [pc |-> "sent", token |-> mem[b], on |-> Nil] \in Call
      BY DEF Call
    <3> QED
      BY <2>4, <3>1 DEF Send, server
  <2> QED
    BY <1>2, <2>1, <2>2, <2>3, <2>4 DEF Page
<1>3. ASSUME NEW b \in Tabs, NEW c \in Calls,
             Answered(b, c) \/ Rejected(b, c) \/ Unauthorized(b, c) \/ UnauthorizedSignedOut(b, c)
      PROVE  TokensTypeOK'
  <2>1. CASE Answered(b, c) \/ Rejected(b, c)
    <3>1. /\ apiCall' = [apiCall EXCEPT ![b] = [apiCall[b] EXCEPT ![c] = NoCall]]
          /\ UNCHANGED <<mem, disk, shared, refresh, signout, live, stale, used>>
      BY <2>1 DEF Answered, Rejected, server
    <3>2. [apiCall[b] EXCEPT ![c] = NoCall] \in [Calls -> Call]
      BY <1>0
    <3> QED
      BY <3>1, <3>2
  <2>2. CASE Unauthorized(b, c)
    <3>1. ASSUME NEW d \in Calls,
                 apiCall' = [apiCall EXCEPT ![b][c].pc = "waiting", ![b][c].on = d]
          PROVE  apiCall' \in [Tabs -> [Calls -> Call]]
      <4> DEFINE r == [[apiCall[b][c] EXCEPT !.pc = "waiting"] EXCEPT !.on = d]
      <4>0. apiCall[b][c] \in Call
        OBVIOUS
      <4>1. r \in Call
        BY <4>0 DEF Call
      <4>2. apiCall' = [apiCall EXCEPT ![b] = [apiCall[b] EXCEPT ![c] = r]]
        BY <3>1
      <4> HIDE DEF r
      <4> QED
        BY <4>1, <4>2
    <3>2. [pc |-> "sent", old |-> mem[b], new |-> Nil] \in Refresh
      BY DEF Refresh
    <3>3. CASE Joins(b)
      BY <2>2, <3>1, <3>3 DEF Unauthorized, Joins, server
    <3>4. CASE ~Joins(b)
      <4>1. /\ apiCall' = [apiCall EXCEPT ![b][c].pc = "waiting", ![b][c].on = c]
            /\ shared' = [shared EXCEPT ![b] = c]
            /\ refresh' = [refresh EXCEPT
                 ![b] = [refresh[b] EXCEPT ![c] = [pc |-> "sent", old |-> mem[b], new |-> Nil]]]
            /\ UNCHANGED <<mem, disk, signout, live, stale, used>>
        BY <2>2, <3>4 DEF Unauthorized, server
      <4>2. [refresh[b] EXCEPT ![c] = [pc |-> "sent", old |-> mem[b], new |-> Nil]]
              \in [Calls -> Refresh]
        BY <3>2
      <4>3. refresh' \in [Tabs -> [Calls -> Refresh]]
        BY <4>1, <4>2
      <4>4. apiCall' \in [Tabs -> [Calls -> Call]]
        BY <3>1, <4>1
      <4> QED
        BY <4>1, <4>3, <4>4
    <3> QED
      BY <3>3, <3>4
  <2>3. CASE UnauthorizedSignedOut(b, c)
    BY <1>1, <2>3 DEF UnauthorizedSignedOut, Store, server
  <2> QED
    BY <1>3, <2>1, <2>2, <2>3
<1>4. ASSUME NEW b \in Tabs, NEW c \in Calls, Refreshing(b, c) PROVE TokensTypeOK'
  <2> DEFINE r == refresh[b][c]
  <2>0. r \in Refresh
    OBVIOUS
  <2>1. CASE Exchange(b, c)
    <3>1. ASSUME r.old \in live, NEW t \in Tokens \ used,
                 refresh' = [refresh EXCEPT ![b][c] = [r EXCEPT !.pc = "ok", !.new = t]]
          PROVE  refresh' \in [Tabs -> [Calls -> Refresh]]
      <4>1. [r EXCEPT !.pc = "ok", !.new = t] \in Refresh
        BY <2>0 DEF Refresh
      <4> QED
        BY <3>1, <4>1
    <3>2. ASSUME refresh' = [refresh EXCEPT ![b][c] = [r EXCEPT !.pc = "failed"]]
          PROVE  refresh' \in [Tabs -> [Calls -> Refresh]]
      <4>1. [r EXCEPT !.pc = "failed"] \in Refresh
        BY <2>0 DEF Refresh
      <4> QED
        BY <3>2, <4>1
    <3>3. CASE r.old \in live
      BY <2>1, <3>1, <3>3 DEF Exchange
    <3>4. CASE r.old \notin live
      BY <2>1, <3>2, <3>4 DEF Exchange
    <3> QED
      BY <3>3, <3>4
  <2>2. CASE RefreshLost(b, c)
    <3>1. [r EXCEPT !.pc = "failed"] \in Refresh
      BY <2>0 DEF Refresh
    <3>2. refresh' = [refresh EXCEPT ![b] = [refresh[b] EXCEPT ![c] = [r EXCEPT !.pc = "failed"]]]
      BY <2>2 DEF RefreshLost
    <3> QED
      BY <2>2, <3>1, <3>2 DEF RefreshLost
  <2>3. CASE RefreshOk(b, c)
    <3>1. r.new \in Opt
      BY <2>0 DEF Refresh
    <3>2. [pc |-> "resent", token |-> r.new, on |-> Nil] \in Call
      BY <3>1 DEF Call
    <3>3. Retried(b, c, r.new) \in [Calls -> Call]
      BY <3>2 DEF Retried
    <3> QED
      BY <1>0, <2>3, <3>1, <3>3 DEF RefreshOk, Store, server
  <2>4. CASE RefreshFailed(b, c)
    BY <1>1, <2>4 DEF RefreshFailed, Store, server
  <2> QED
    BY <1>4, <2>1, <2>2, <2>3, <2>4 DEF Refreshing
<1>5. ASSUME NEW b \in Tabs, LoggedOut(b) PROVE TokensTypeOK'
  BY <1>5 DEF LoggedOut, Store
<1>6. ASSUME NEW t \in Tokens, AccessExpires(t) \/ SessionEnds(t) PROVE TokensTypeOK'
  BY <1>6 DEF AccessExpires, SessionEnds
<1>7. CASE UNCHANGED tokenVars
  BY <1>7 DEF tokenVars
<1> QED
  BY <1>2, <1>3, <1>4, <1>5, <1>6, <1>7 DEF TokensNext, Network

OneTab == \A a, b \in Tabs : a = b

\* Why a tab is not refused: it has one refresh under way, under the name of the
\* call that waits for it; what that one presents, and what the store holds, is
\* accepted still or excused, or is what the refresh under way has just exchanged.
Good(t) == t \in live \cup excused

TabInv(b) ==
  /\ disk = mem[b]
  /\ mem[b] \in used \cup {Nil}
  /\ signout[b] # Nil => signout[b] \in excused
  /\ \A c \in Calls :
       LET r == refresh[b][c] IN
       /\ r.pc # "none" <=> shared[b] = c
       /\ r.pc # "none" => r.old \in used
       /\ r.pc = "sent" => Good(r.old)
       /\ r.pc = "ok" => Good(r.new) /\ r.new \in used
       /\ r.pc = "failed" => r.old \in excused
  /\ mem[b] # Nil =>
       \/ Good(mem[b])
       \/ \E c \in Calls : refresh[b][c].pc = "ok" /\ refresh[b][c].old = mem[b]

TokensInv == TokensTypeOK /\ \A b \in Tabs : TabInv(b)

LEMMA TokensInvInit == TokensInit => TokensInv
BY TokensTypeInit, NilAssumption DEF TokensInit, TokensInv, TabInv, NoRefresh

\* A page that is loaded has no request under way.
LEMMA LoadTab ==
  ASSUME TokensTypeOK, NEW b \in Tabs, Load(b), disk' = mem'[b], used \subseteq used',
         mem'[b] \in used' \cup {Nil}, mem'[b] # Nil => Good(mem[b])'
  PROVE  TabInv(b)'
<1>1. /\ signout'[b] = Nil /\ shared'[b] = Nil
      /\ \A c \in Calls : refresh'[b][c].pc = "none"
  BY DEF Load, TokensTypeOK, NoRefresh
<1> QED
  BY <1>1, NilAssumption DEF TabInv

\* The store and the requests of the tab stay, and no token is lost without being
\* excused.
LEMMA TabKept ==
  ASSUME NEW b \in Tabs, TabInv(b), UNCHANGED <<mem, disk, signout, shared, refresh>>,
         used \subseteq used', excused \subseteq excused', live \subseteq live' \cup excused'
  PROVE  TabInv(b)'
<1>1. \A t : Good(t) => Good(t)'
  BY DEF Good
<1> QED
  BY <1>1 DEF TabInv

LEMMA TabNext ==
  ASSUME OneTab, TokensInv, NEW b \in Tabs, [TokensNext]_tokenVars
  PROVE  TabInv(b)'
<1> USE NilAssumption
<1>0. TokensTypeOK /\ TokensTypeOK' /\ TabInv(b) /\ \A d \in Tabs : d = b
  BY TokensTypeNext DEF TokensInv, OneTab
<1>1. CASE Login(b)
  <2>1. PICK t \in Tokens \ used : used' = used \cup {t} /\ live' = live \cup {t} /\ Store(b, t)
    BY <1>1 DEF Login
  <2>2. mem'[b] = t /\ disk' = t /\ Good(t)'
    BY <1>0, <2>1 DEF Store, TokensTypeOK, Good
  <2>3. UNCHANGED <<shared, refresh, signout, excused>> /\ \A u : Good(u) => Good(u)'
    BY <1>1, <2>1 DEF Login, Good
  <2> QED
    BY <1>0, <2>1, <2>2, <2>3 DEF TabInv
<1>2. CASE Reload(b)
  <2>1. /\ mem'[b] = mem[b] /\ disk' = disk /\ used' = used
        /\ excused' = excused \cup Presented(b) /\ live \subseteq live' \cup excused'
        /\ Load(b)
    BY <1>0, <1>2 DEF Reload, TokensTypeOK, TabInv
  <2>2. ASSUME mem[b] # Nil PROVE Good(mem[b])'
    <3>1. CASE Good(mem[b])
      BY <2>1, <3>1 DEF Good
    <3>2. ASSUME NEW c \in Calls, refresh[b][c].pc = "ok", refresh[b][c].old = mem[b]
          PROVE  Good(mem[b])'
      BY <1>0, <2>1, <3>2 DEF Good, Presented, TabInv
    <3> QED
      BY <1>0, <2>2, <3>1, <3>2 DEF TabInv
  <2> QED
    BY <1>0, <2>1, <2>2, LoadTab DEF TabInv
<1>3. CASE Logout(b)
  <2>1. \A t : Good(t) => Good(t)'
    BY <1>3 DEF Logout, Good
  <2>2. signout'[b] \in excused' /\ excused \subseteq excused'
    BY <1>0, <1>3 DEF Logout, TokensTypeOK
  <2> QED
    BY <1>0, <1>3, <2>1, <2>2 DEF Logout, TabInv
<1>4. ASSUME NEW c \in Calls, Send(b, c) \/ Answered(b, c) \/ Rejected(b, c) PROVE TabInv(b)'
  BY <1>0, <1>4, TabKept DEF Send, Answered, Rejected, server
<1>5. ASSUME NEW c \in Calls, Unauthorized(b, c) PROVE TabInv(b)'
  <2>1. CASE Joins(b)
    BY <1>0, <1>5, <2>1, TabKept DEF Unauthorized, server
  <2>2. CASE ~Joins(b)
    <3>1. /\ shared[b] = Nil /\ mem[b] # Nil
          /\ shared' = [shared EXCEPT ![b] = c]
          /\ refresh' = [refresh EXCEPT ![b][c] = [pc |-> "sent", old |-> mem[b], new |-> Nil]]
          /\ UNCHANGED <<mem, disk, signout, live, stale, used, excused>>
      BY <1>5, <2>2 DEF Unauthorized, Joins, server
    <3>2. \A d \in Calls : refresh[b][d].pc = "none"
      BY <1>0, <3>1 DEF TabInv
    <3>3. Good(mem[b]) /\ mem[b] \in used
      BY <1>0, <3>1, <3>2 DEF TabInv
    <3>4. /\ shared'[b] = c
          /\ refresh'[b][c] = [pc |-> "sent", old |-> mem[b], new |-> Nil]
          /\ \A d \in Calls \ {c} : refresh'[b][d] = refresh[b][d]
      BY <1>0, <3>1 DEF TokensTypeOK
    <3>5. \A t : Good(t) => Good(t)'
      BY <3>1 DEF Good
    <3> QED
      BY <1>0, <3>1, <3>2, <3>3, <3>4, <3>5 DEF TabInv
  <2> QED
    BY <2>1, <2>2
<1>6. ASSUME NEW c \in Calls, UnauthorizedSignedOut(b, c) \/ RefreshFailed(b, c) PROVE TabInv(b)'
  <2>1. mem'[b] = Nil /\ disk' = Nil /\ Load(b) /\ used' = used
    BY <1>0, <1>6 DEF UnauthorizedSignedOut, RefreshFailed, Store, TokensTypeOK, server
  <2> QED
    BY <1>0, <2>1, LoadTab
<1>7. ASSUME NEW c \in Calls, Exchange(b, c) PROVE TabInv(b)'
  <2> DEFINE r == refresh[b][c]
  <2>0. r \in Refresh /\ r.pc = "sent" /\ shared[b] = c /\ \A d \in Calls \ {c} : refresh[b][d].pc = "none"
    <3>1. r \in Refresh
      BY <1>0 DEF TokensTypeOK
    <3>2. r.pc = "sent"
      BY <1>7 DEF Exchange
    <3>3. shared[b] = c
      BY <1>0, <3>2 DEF TabInv
    <3> QED
      BY <1>0, <3>1, <3>2, <3>3 DEF TabInv
  <2>1. CASE r.old \in live
    <3>1. PICK t \in Tokens \ used :
            /\ refresh' = [refresh EXCEPT ![b][c] = [r EXCEPT !.pc = "ok", !.new = t]]
            /\ live' = (live \ {r.old}) \cup {t}
            /\ used' = used \cup {t}
      BY <1>7, <2>1 DEF Exchange
    <3>2. /\ refresh'[b][c].pc = "ok" /\ refresh'[b][c].new = t /\ refresh'[b][c].old = r.old
          /\ \A d \in Calls \ {c} : refresh'[b][d] = refresh[b][d]
      <4>1. /\ [r EXCEPT !.pc = "ok", !.new = t].pc = "ok"
            /\ [r EXCEPT !.pc = "ok", !.new = t].new = t
            /\ [r EXCEPT !.pc = "ok", !.new = t].old = r.old
        BY <2>0 DEF Refresh
      <4> QED
        BY <1>0, <3>1, <4>1 DEF TokensTypeOK
    <3>3. UNCHANGED <<mem, disk, shared, signout, excused>>
      BY <1>7 DEF Exchange
    <3>4. \A u : Good(u) => Good(u)' \/ u = r.old
      BY <3>1, <3>3 DEF Good
    <3>5. Good(t)' /\ t \in used' /\ used \subseteq used'
      BY <3>1 DEF Good
    <3> QED
      BY <1>0, <2>0, <3>2, <3>3, <3>4, <3>5 DEF TabInv
  <2>2. CASE r.old \notin live
    <3>1. /\ refresh' = [refresh EXCEPT ![b][c] = [r EXCEPT !.pc = "failed"]]
          /\ UNCHANGED <<mem, disk, shared, signout, live, used, excused>>
      BY <1>7, <2>2 DEF Exchange
    <3>2. /\ refresh'[b][c].pc = "failed" /\ refresh'[b][c].old = r.old
          /\ \A d \in Calls \ {c} : refresh'[b][d] = refresh[b][d]
      <4>1. /\ [r EXCEPT !.pc = "failed"].pc = "failed"
            /\ [r EXCEPT !.pc = "failed"].old = r.old
        BY <2>0 DEF Refresh
      <4> QED
        BY <1>0, <3>1, <4>1 DEF TokensTypeOK
    <3>3. r.old \in excused
      BY <1>0, <2>0, <2>2 DEF TabInv, Good
    <3>4. \A u : Good(u) => Good(u)'
      BY <3>1 DEF Good
    <3> QED
      BY <1>0, <2>0, <3>1, <3>2, <3>3, <3>4 DEF TabInv
  <2> QED
    BY <2>1, <2>2
<1>8. ASSUME NEW c \in Calls, RefreshLost(b, c) PROVE TabInv(b)'
  <2> DEFINE r == refresh[b][c]
  <2>0. r \in Refresh /\ r.pc = "sent" /\ shared[b] = c /\ \A d \in Calls \ {c} : refresh[b][d].pc = "none"
    BY <1>0, <1>8 DEF RefreshLost, TokensTypeOK, TabInv
  <2>1. /\ refresh' = [refresh EXCEPT ![b] = [refresh[b] EXCEPT ![c] = [r EXCEPT !.pc = "failed"]]]
        /\ live' \in {live, live \ {r.old}} /\ excused' = excused \cup {r.old}
        /\ UNCHANGED <<mem, disk, shared, signout, used>>
    BY <1>8 DEF RefreshLost
  <2>2. /\ refresh'[b][c].pc = "failed" /\ refresh'[b][c].old = r.old
        /\ \A d \in Calls \ {c} : refresh'[b][d] = refresh[b][d]
    <3>1. /\ [r EXCEPT !.pc = "failed"].pc = "failed"
          /\ [r EXCEPT !.pc = "failed"].old = r.old
      BY <2>0 DEF Refresh
    <3> QED
      BY <1>0, <2>1, <3>1 DEF TokensTypeOK
  <2>3. r.old \in excused' /\ excused \subseteq excused' /\ \A u : Good(u) => Good(u)'
    BY <2>1 DEF Good
  <2> QED
    BY <1>0, <2>0, <2>1, <2>2, <2>3 DEF TabInv
<1>9. ASSUME NEW c \in Calls, RefreshOk(b, c) PROVE TabInv(b)'
  <2>0. /\ refresh[b][c].pc = "ok" /\ shared[b] = c
        /\ \A d \in Calls \ {c} : refresh[b][d].pc = "none"
        /\ Good(refresh[b][c].new) /\ refresh[b][c].new \in used
    BY <1>0, <1>9 DEF RefreshOk, TabInv
  <2>1. /\ mem'[b] = refresh[b][c].new /\ disk' = mem'[b] /\ shared'[b] = Nil
        /\ refresh'[b][c] = NoRefresh
        /\ \A d \in Calls \ {c} : refresh'[b][d] = refresh[b][d]
        /\ UNCHANGED <<signout, live, used, excused>>
    BY <1>0, <1>9 DEF RefreshOk, Store, TokensTypeOK, server
  <2>2. \A u : Good(u) => Good(u)'
    BY <2>1 DEF Good
  <2>3. \A d \in Calls : refresh'[b][d].pc = "none"
    BY <2>0, <2>1 DEF NoRefresh
  <2> QED
    BY <1>0, <2>0, <2>1, <2>2, <2>3 DEF TabInv
<1>10. CASE LoggedOut(b)
  <2>1. /\ live' \in {live, live \ {signout[b]}} /\ signout[b] # Nil
        /\ mem'[b] = Nil /\ disk' = Nil /\ signout'[b] = Nil
        /\ UNCHANGED <<shared, refresh, used, excused>>
    BY <1>0, <1>10 DEF LoggedOut, Store, TokensTypeOK
  <2>2. \A u : Good(u) => Good(u)'
    BY <1>0, <2>1 DEF Good, TabInv
  <2> QED
    BY <1>0, <2>1, <2>2 DEF TabInv
<1>11. ASSUME NEW t \in Tokens, AccessExpires(t) \/ SessionEnds(t) PROVE TabInv(b)'
  BY <1>0, <1>11, TabKept DEF AccessExpires, SessionEnds
<1>12. CASE UNCHANGED tokenVars
  BY <1>0, <1>12, TabKept DEF tokenVars
<1> QED
  BY <1>0, <1>1, <1>2, <1>3, <1>4, <1>5, <1>6, <1>7, <1>8, <1>9, <1>10, <1>11, <1>12
     DEF TokensNext, Page, Network, Refreshing

\* In a browser with one tab, however many calls meet a 401 at once, however often
\* the page is loaded, the user signs out and in, and requests get lost, the
\* refresh endpoint refuses only tokens that the server, the network or the user
\* has ended (the shared promise of client.ts).  With two tabs it does not hold.
THEOREM NoRefusalWithoutCause == OneTab => (TokensSpec => []RefusedForCause)
<1> SUFFICES ASSUME OneTab PROVE TokensSpec => []RefusedForCause
    OBVIOUS
<1>1. TokensInit => TokensInv
  BY TokensInvInit
<1>2. TokensInv /\ [TokensNext]_tokenVars => TokensInv'
  BY TokensTypeNext, TabNext DEF TokensInv
<1>3. TokensInv => RefusedForCause
  BY DEF TokensInv, TabInv, RefusedForCause
<1> QED
  BY <1>1, <1>2, <1>3, PTL DEF TokensSpec

-----------------------------------------------------------------------------
(* The panel update card: the end of a run is told once. *)

Stages == {"apply", "restore"} \cup Working \cup Terminal

CardTypeOK ==
  /\ file \in StatusData
  /\ runner \in [run : Runs, stage : Stages \cup {"none"}]
  /\ runs \in Runs
  /\ open \in BOOLEAN
  /\ status \in StatusData \cup {NoStatus}
  /\ polling \in StatusData \cup {NotAsked, Out}
  /\ told \in [Runs -> Nat]
  /\ watched \subseteq Runs

\* What there is to be seen of a run, where it is seen: on the card, in an answer, in
\* the file.
Seen(x) == x \in {status, polling, file} /\ x \in StatusData /\ x # Blank

\* What is seen of a run after x has been seen.
Follows(x, y) ==
  x \in StatusData \ {Blank} /\ y \in StatusData \ {Blank} =>
    x.run < y.run \/ (x.run = y.run /\ (x.phase \in Terminal => y = x))

\* The runner that works is the last one, and the file has its last report; the card
\* learns of the reports in their order, but for those it misses.
ReportsInOrder ==
  /\ runner.run # 0 => runner.run = runs /\ runner.stage \in Stages
  /\ \A x : Seen(x) => x.run <= runs
  /\ AtWork /\ runner.stage \notin Working => \A x : Seen(x) => x.run < runs
  /\ AtWork /\ runner.stage \in Working => file = [phase |-> runner.stage, run |-> runs]
  /\ Follows(status, polling) /\ Follows(status, file) /\ Follows(polling, file)

\* Nothing is seen any more of run i but its end.
HasEnded(i) ==
  /\ i <= runs
  /\ ~(AtWork /\ runner.run = i)
  /\ \A x : Seen(x) => i < x.run \/ (i = x.run /\ x.phase \in Terminal)

\* Nothing is seen any more of run i.
Passed(i) == i < runs /\ \A x : Seen(x) => i < x.run

\* Why an end is told once: a run that was told has ended, so that the card either
\* shows that end or nothing before it is seen again; a run that was watched is told,
\* is shown at work, or has been overtaken.
CardInv ==
  /\ CardTypeOK
  /\ ReportsInOrder
  /\ open => prev = IF status = NoStatus THEN "idle" ELSE Bare(status.phase)
  /\ \A i \in Runs : told[i] <= 1 /\ (told[i] = 1 => HasEnded(i))
  /\ ~open => watched = {}
  /\ \A i \in watched :
       \/ told[i] = 1
       \/ status \in StatusData /\ status.run = i /\ status.phase \in Working
       \/ Passed(i)

LEMMA CardInvInit == CardInit => CardInv
<1> SUFFICES ASSUME CardInit PROVE CardInv
    OBVIOUS
<1> USE CardBoundsAssumption, CardValuesAssumption
<1>1. CardTypeOK
  BY DEF CardInit, CardTypeOK, StatusData, Blank, NoRunner, Runs, Terminal
<1>2. /\ runner.run = 0 /\ runs = 0 /\ file.run = 0 /\ ~AtWork
      /\ status \notin StatusData /\ polling \notin StatusData
  BY DEF CardInit, Blank, NoRunner, AtWork
<1>3. ReportsInOrder
  BY <1>2 DEF ReportsInOrder, Seen, Follows
<1> QED
  BY <1>1, <1>2, <1>3 DEF CardInv, CardInit

\* What the card shows stays, and nothing is seen that was not seen before.
LEMMA CardSame ==
  ASSUME CardInv, UNCHANGED <<open, prev, status, told, watched>>,
         runner' \in {runner, NoRunner}, UNCHANGED runs,
         polling' \in {polling, NotAsked, Out}, file' = file
  PROVE  CardInv'
<1> USE CardBoundsAssumption, CardValuesAssumption DEF CardInv
<1>1. CardTypeOK'
  BY DEF CardTypeOK, NoRunner, Runs
<1>2. (\A x : Seen(x)' => Seen(x)) /\ (AtWork' => AtWork /\ runner' = runner)
  BY DEF Seen, AtWork, NoRunner
<1>3. ReportsInOrder'
  <2>1. Follows(status, polling)' /\ Follows(status, file)' /\ Follows(polling, file)'
    BY DEF ReportsInOrder, Follows
  <2> QED
    BY <1>2, <2>1 DEF ReportsInOrder, NoRunner
<1>4. \A i : (HasEnded(i) => HasEnded(i)') /\ (Passed(i) => Passed(i)')
  BY <1>2 DEF HasEnded, Passed
<1> QED
  BY <1>1, <1>3, <1>4

\* A started runner has not reported; a status that is reset shows nothing.
LEMMA CardAccepted ==
  ASSUME CardInv, NEW m \in Mutations, runner.run = 0, Accepted(m),
         UNCHANGED <<open, prev, status, polling, told, watched>>
  PROVE  CardInv'
<1> USE CardBoundsAssumption, CardValuesAssumption DEF CardInv
<1>1. CASE m = "reset"
  <2>1. file' = Blank /\ UNCHANGED <<runner, runs>>
    BY <1>1 DEF Accepted
  <2>2. (\A x : Seen(x)' => Seen(x)) /\ ~AtWork'
    BY <2>1 DEF Seen, AtWork
  <2>3. CardTypeOK'
    BY <2>1 DEF CardTypeOK, StatusData
  <2>4. ReportsInOrder'
    BY <2>1, <2>2 DEF ReportsInOrder, Follows
  <2>5. \A i : (HasEnded(i) => HasEnded(i)') /\ (Passed(i) => Passed(i)')
    BY <2>1, <2>2 DEF HasEnded, Passed
  <2> QED
    BY <2>3, <2>4, <2>5
<1>2. ASSUME NEW s \in {"apply", "restore"}, Launch(s) PROVE CardInv'
  <2>1. /\ runs' = runs + 1 /\ runner' = [run |-> runs', stage |-> s] /\ file' = file
        /\ runs \in Nat /\ runs < MaxRuns
    BY <1>2 DEF Launch, CardTypeOK, Runs
  <2>2. \A x : Seen(x)' <=> Seen(x)
    BY <2>1 DEF Seen
  <2>3. CardTypeOK'
    <3>1. runs' \in Runs /\ runner'.run \in Runs
      BY <2>1 DEF Runs
    <3> QED
      BY <2>1, <3>1 DEF CardTypeOK, Stages
  <2>4. ReportsInOrder'
    <3>1. \A x : Seen(x) => x.run \in Nat
      BY DEF Seen, StatusData, Blank, Runs
    <3>2. s \notin Working /\ s \in Stages
      BY DEF Working, Stages
    <3>3. Follows(status, polling)' /\ Follows(status, file)' /\ Follows(polling, file)'
      BY <2>1 DEF ReportsInOrder, Follows
    <3> QED
      BY <2>1, <2>2, <3>1, <3>2, <3>3 DEF ReportsInOrder
  <2>5. \A i \in Runs : (HasEnded(i) => HasEnded(i)') /\ (Passed(i) => Passed(i)')
    BY <2>1, <2>2 DEF HasEnded, Passed, Runs
  <2> QED
    BY <2>1, <2>3, <2>4, <2>5 DEF CardTypeOK
<1> QED
  BY <1>1, <1>2 DEF Accepted

LEMMA CardReport == CardInv /\ Report => CardInv'
<1> SUFFICES ASSUME CardInv, Report PROVE CardInv'
    OBVIOUS
<1> USE CardBoundsAssumption, CardValuesAssumption DEF CardInv
<1>1. PICK p \in Reports[runner.stage] :
        runner' = [runner EXCEPT !.stage = p] /\ file' = [phase |-> p, run |-> runner.run]
  BY DEF Report
<1>2. AtWork /\ runner.run = runs /\ runs # 0 /\ UNCHANGED <<runs, cardPage, told, watched>>
  BY DEF Report, AtWork, ReportsInOrder, cardHistory
<1>3. p \in Working \cup Terminal /\ p # "idle"
  BY <1>1, <1>2 DEF Reports, ReportsInOrder, Stages, AtWork, Working, Terminal
<1>4. file' \in StatusData \ {Blank} /\ file'.run = runs /\ file'.phase = p
  BY <1>1, <1>2, <1>3 DEF CardTypeOK, StatusData, Blank, Runs
<1>5. runner'.run = runs /\ runner'.stage = p /\ runner' \in [run : Runs, stage : Stages \cup {"none"}]
  BY <1>1, <1>2, <1>3 DEF CardTypeOK, Stages
<1>6. CardTypeOK'
  BY <1>2, <1>4, <1>5 DEF CardTypeOK, cardPage
<1>7. \A x : Seen(x)' => Seen(x) \/ x = file'
  BY <1>2 DEF Seen, cardPage
<1>8. \A x : Seen(x) => x.run \in Nat /\ (x.run < runs \/ (x.run = runs /\ x.phase \notin Terminal))
  <2> SUFFICES ASSUME NEW x, Seen(x)
               PROVE  x.run \in Nat /\ (x.run < runs \/ (x.run = runs /\ x.phase \notin Terminal))
    OBVIOUS
  <2>1. x \in StatusData \ {Blank} /\ x.run \in Nat /\ x.run <= runs /\ runs \in Nat
    <3>1. x \in StatusData \ {Blank}
      BY DEF Seen
    <3>2. x.run \in Runs
      BY <3>1 DEF StatusData
    <3>3. x.run <= runs
      BY DEF ReportsInOrder
    <3> QED
      BY <3>1, <3>2, <3>3 DEF Runs, CardTypeOK
  <2>2. CASE runner.stage \notin Working
    <3>1. AtWork /\ runner.stage \notin Working /\ ReportsInOrder
      BY <1>2, <2>2
    <3>2. x.run < runs
      BY <3>1 DEF ReportsInOrder
    <3> QED
      BY <2>1, <3>2
  <2>3. CASE runner.stage \in Working
    <3>1. file.phase = runner.stage /\ file.run = runs /\ file.phase \notin Terminal
      BY <1>2, <2>3 DEF ReportsInOrder, AtWork
    <3>2. file \in StatusData \ {Blank}
      BY <2>3, <3>1 DEF CardTypeOK, Blank, Working
    <3>3. x = file \/ Follows(x, file)
      BY DEF Seen, ReportsInOrder
    <3> QED
      BY <2>1, <3>1, <3>2, <3>3 DEF Follows
  <2> QED
    BY <2>2, <2>3
<1>9. ReportsInOrder'
  <2>1. Follows(status, polling)'
    BY <1>2 DEF ReportsInOrder, Follows, cardPage
  <2>2. Follows(status, file)' /\ Follows(polling, file)'
    BY <1>2, <1>4, <1>8 DEF Follows, Seen, cardPage
  <2>3. AtWork' => p \in Working
    BY <1>3, <1>5 DEF AtWork
  <2> QED
    BY <1>1, <1>2, <1>3, <1>4, <1>5, <1>7, <1>8, <2>1, <2>2, <2>3 DEF ReportsInOrder, Stages, CardTypeOK, Runs
<1>10. \A i \in Runs : (HasEnded(i) => HasEnded(i)') /\ (Passed(i) => Passed(i)')
  <2> SUFFICES ASSUME NEW i \in Runs
               PROVE  (HasEnded(i) => HasEnded(i)') /\ (Passed(i) => Passed(i)')
    OBVIOUS
  <2>1. i \in Nat /\ runs \in Nat /\ runs' = runs
    BY <1>2 DEF Runs, CardTypeOK
  <2>2. HasEnded(i) => i < runs
    BY <1>2, <2>1 DEF HasEnded
  <2>3. HasEnded(i) => HasEnded(i)'
    <3> SUFFICES ASSUME HasEnded(i) PROVE HasEnded(i)'
      OBVIOUS
    <3>1. i <= runs' /\ ~(AtWork' /\ runner'.run = i)
      BY <1>2, <1>5, <2>1, <2>2
    <3>2. ASSUME NEW x, Seen(x)' PROVE i < x.run \/ (i = x.run /\ x.phase \in Terminal)
      <4>1. CASE Seen(x)
        BY <4>1 DEF HasEnded
      <4>2. CASE x = file'
        BY <1>4, <2>1, <2>2, <4>2
      <4> QED
        BY <1>7, <3>2, <4>1, <4>2
    <3> QED
      BY <3>1, <3>2 DEF HasEnded
  <2>4. Passed(i) => Passed(i)'
    BY <1>4, <1>7, <2>1 DEF Passed
  <2> QED
    BY <2>3, <2>4
<1> QED
  BY <1>2, <1>6, <1>9, <1>10 DEF CardTypeOK, cardPage

\* The handler reads the file of this moment, or a blank.
LEMMA CardRead ==
  ASSUME CardInv, polling' \in {file, Blank},
         UNCHANGED <<world, open, prev, status, told, watched>>
  PROVE  CardInv'
<1> USE CardBoundsAssumption, CardValuesAssumption DEF CardInv
<1>1. UNCHANGED <<file, runner, runs>>
  BY DEF world
<1>2. CardTypeOK'
  BY <1>1 DEF CardTypeOK, StatusData
<1>3. (\A x : Seen(x)' => Seen(x)) /\ (AtWork' <=> AtWork)
  BY <1>1 DEF Seen, AtWork
<1>4. Follows(status, polling)' /\ Follows(polling, file)' /\ Follows(status, file)'
  <2>1. Follows(status, polling)' /\ Follows(status, file)'
    BY <1>1 DEF ReportsInOrder, Follows
  <2>2. Follows(polling, file)'
    BY <1>1 DEF Follows
  <2> QED
    BY <2>1, <2>2
<1>5. ReportsInOrder'
  BY <1>1, <1>3, <1>4 DEF ReportsInOrder
<1>6. \A i : (HasEnded(i) => HasEnded(i)') /\ (Passed(i) => Passed(i)')
  BY <1>1, <1>3 DEF HasEnded, Passed
<1> QED
  BY <1>2, <1>5, <1>6

\* The card shows an answer: what it has shown is behind it.
LEMMA CardShows ==
  ASSUME CardInv, NEW s \in StatusData \cup {NoStatus}, s = NoStatus \/ s \in {status, polling},
         status' = s, polling' \in {polling, NotAsked, Out},
         s = polling => polling' \notin StatusData,
         UNCHANGED <<file, runner, runs>>
  PROVE  /\ ReportsInOrder'
         /\ \A i : (HasEnded(i) => HasEnded(i)') /\ (Passed(i) => Passed(i)')
<1> USE CardBoundsAssumption, CardValuesAssumption DEF CardInv
<1>1. (\A x : Seen(x)' => Seen(x)) /\ (AtWork' <=> AtWork)
  BY DEF Seen, AtWork
<1>2. Follows(status, polling)' /\ Follows(polling, file)' /\ Follows(status, file)'
  BY DEF ReportsInOrder, Follows
<1>3. ReportsInOrder'
  BY <1>1, <1>2 DEF ReportsInOrder
<1> QED
  BY <1>1, <1>3 DEF HasEnded, Passed

LEMMA CardShown == CardInv /\ StatusShown => CardInv'
<1> SUFFICES ASSUME CardInv, StatusShown PROVE CardInv'
    OBVIOUS
<1> USE CardBoundsAssumption, CardValuesAssumption DEF CardInv
<1> DEFINE p == polling.phase
           r == polling.run
           tells == open /\ Bare(p) # prev /\ Tells(p)
<1>1. /\ polling \in StatusData /\ polling' = NotAsked /\ status' = polling
      /\ prev' = IF open THEN Bare(p) ELSE prev
      /\ told' = [told EXCEPT ![r] = IF tells THEN @ + 1 ELSE @]
      /\ watched' = IF ~open \/ (p = "idle" /\ Active) THEN {}
                    ELSE watched \cup (IF p \in Working THEN {r} ELSE {})
      /\ UNCHANGED <<file, runner, runs, open>>
  BY DEF StatusShown, CardTypeOK, world
<1>2. r \in Runs /\ p \in {"idle"} \cup Working \cup Terminal /\ (polling # Blank => Seen(polling))
      /\ (p = "idle" <=> polling = Blank)
  BY <1>1 DEF StatusData, Blank, Seen, Runs, Working, Terminal
<1>3. CardTypeOK'
  BY <1>1, <1>2 DEF CardTypeOK
<1>4. /\ ReportsInOrder'
      /\ \A i : (HasEnded(i) => HasEnded(i)') /\ (Passed(i) => Passed(i)')
  BY <1>1, CardShows
<1>5. open' => prev' = IF status' = NoStatus THEN "idle" ELSE Bare(status'.phase)
  BY <1>1
<1>6. ASSUME NEW i, i = r, tells PROVE told[i] = 0 /\ HasEnded(i)'
  <2>1. p \in Terminal /\ polling \in StatusData \ {Blank} /\ status \in StatusData \ {Blank}
    <3>1. prev # "idle" /\ p \in Terminal /\ prev = IF status = NoStatus THEN "idle" ELSE Bare(status.phase)
      BY <1>6 DEF Tells
    <3>2. status # NoStatus /\ status # Blank
      BY <3>1 DEF Bare, Blank
    <3> QED
      BY <1>1, <1>2, <3>1, <3>2 DEF CardTypeOK, Terminal, Blank
  <2>2. told[r] = 0
    <3>1. told[r] # 0 => HasEnded(r)
      BY <1>2 DEF CardTypeOK
    <3>2. HasEnded(r) => r < status.run \/ (r = status.run /\ status.phase \in Terminal)
      BY <2>1 DEF HasEnded, Seen
    <3>3. status.run \in Nat /\ r \in Nat
      BY <2>1 DEF StatusData, Runs
    <3>4. status.run < r \/ (status.run = r /\ (status.phase \in Terminal => polling = status))
      BY <2>1 DEF ReportsInOrder, Follows
    <3>5. polling # status
      BY <1>5, <1>6, CardValuesAssumption, <2>1
    <3> QED
      BY <3>1, <3>2, <3>3, <3>4, <3>5
  <2>3. ~(AtWork /\ runner.run = r)
    <3>1. SUFFICES ASSUME AtWork, runner.run = r PROVE FALSE
      OBVIOUS
    <3>2. r = runs /\ r \in Nat /\ Seen(polling)
      BY <1>2, <2>1, <3>1 DEF ReportsInOrder, AtWork, Runs
    <3>3. runner.stage \in Working /\ file = [phase |-> runner.stage, run |-> runs]
      BY <3>1, <3>2 DEF ReportsInOrder
    <3>4. file \in StatusData \ {Blank} /\ file.run = r /\ file.phase \in Working
      BY <3>2, <3>3 DEF CardTypeOK, Blank, Working
    <3>5. polling = file
      BY <2>1, <3>2, <3>4 DEF ReportsInOrder, Follows
    <3> QED
      BY <2>1, <3>4, <3>5 DEF Working, Terminal
  <2>4. ASSUME NEW x, Seen(x)' PROVE i < x.run \/ (i = x.run /\ x.phase \in Terminal)
    <3>1. x \in StatusData \ {Blank} /\ x \in {polling, file}
      BY <1>1, <2>4 DEF Seen
    <3> QED
      BY <1>6, <2>1, <3>1 DEF ReportsInOrder, Follows
  <2>5. i <= runs
    BY <1>2, <1>6, <2>1 DEF ReportsInOrder
  <2> QED
    BY <1>1, <1>6, <2>2, <2>3, <2>4, <2>5 DEF HasEnded, AtWork
<1>7. \A i \in Runs : told'[i] <= 1 /\ (told'[i] = 1 => HasEnded(i)')
  BY <1>1, <1>2, <1>4, <1>6 DEF CardTypeOK
<1>8. ASSUME NEW i \in watched'
      PROVE  \/ told'[i] = 1
             \/ status' \in StatusData /\ status'.run = i /\ status'.phase \in Working
             \/ Passed(i)'
  <2>1. open /\ ~(p = "idle" /\ Active) /\ (i \in watched \/ (p \in Working /\ i = r)) /\ i \in Runs
    BY <1>1, <1>2, <1>8 DEF CardTypeOK
  <2>2. CASE p \in Working /\ i = r
    BY <1>1, <2>2
  <2>3. CASE told[i] = 1
    BY <1>1, <1>2, <1>6, <2>1, <2>3 DEF CardTypeOK
  <2>4. CASE Passed(i)
    BY <1>4, <2>4
  <2>5. CASE status \in StatusData /\ status.run = i /\ status.phase \in Working
    <3>1. status # NoStatus /\ status # Blank /\ Active /\ polling # Blank
      BY <1>2, <2>1, <2>5 DEF Active, Phase, Blank, Working
    <3>2. i < r \/ i = r
      BY <1>1, <2>5, <3>1 DEF ReportsInOrder, Follows
    <3>3. CASE i < r
      <4>1. r <= runs /\ i \in Nat /\ r \in Nat /\ runs \in Nat
        BY <1>2, <2>1, <3>1 DEF ReportsInOrder, Runs, CardTypeOK
      <4>2. ASSUME NEW x, Seen(x)' PROVE i < x.run
        <5>1. x \in StatusData \ {Blank} /\ x \in {polling, file}
          BY <1>1, <4>2 DEF Seen
        <5>2. x.run \in Nat
          BY <5>1 DEF StatusData, Runs
        <5>3. r < x.run \/ r = x.run
          BY <1>1, <3>1, <5>1 DEF ReportsInOrder, Follows
        <5> QED
          BY <3>3, <4>1, <5>2, <5>3
      <4> QED
        BY <1>1, <3>3, <4>1, <4>2 DEF Passed
    <3>4. CASE i = r /\ p \in Working
      BY <2>2, <3>4
    <3>5. CASE i = r /\ p \in Terminal
      <4>1. prev = Bare(status.phase)
        BY <2>1, <3>1
      <4>2. prev # "idle" /\ Bare(p) # prev
        BY <2>5, <3>5, <4>1 DEF Bare, Working, Terminal
      <4>3. tells
        BY <2>1, <3>5, <4>2 DEF Tells
      <4> QED
        BY <1>1, <1>2, <1>6, <3>5, <4>3 DEF CardTypeOK
    <3> QED
      BY <1>2, <3>1, <3>2, <3>4, <3>3, <3>5
  <2> QED
    BY <2>1, <2>2, <2>3, <2>4, <2>5
<1>9. ~open' => watched' = {}
  BY <1>1
<1> HIDE DEF p, r, tells
<1> QED
  BY <1>3, <1>4, <1>5, <1>7, <1>8, <1>9

LEMMA CardReturn == CardInv /\ Return => CardInv'
<1> SUFFICES ASSUME CardInv, Return PROVE CardInv'
    OBVIOUS
<1> USE CardBoundsAssumption, CardValuesAssumption DEF CardInv
<1>1. PICK s \in {status, NoStatus} :
        /\ status' = s
        /\ prev' = IF s = NoStatus THEN "idle" ELSE Bare(s.phase)
        /\ polling' \in IF s = NoStatus THEN {Out} ELSE {polling, Out}
        /\ watched' = IF s # NoStatus /\ s.phase \in Working THEN {s.run} ELSE {}
  BY DEF Return
<1>2. open' = TRUE /\ UNCHANGED <<file, runner, runs, told>>
  BY DEF Return, world
<1>3. s \in StatusData \cup {NoStatus} /\ (s # NoStatus => s \in StatusData /\ s.run \in Runs)
  BY <1>1 DEF CardTypeOK, StatusData, Blank, Runs
<1>4. /\ ReportsInOrder'
      /\ \A i : (HasEnded(i) => HasEnded(i)') /\ (Passed(i) => Passed(i)')
  <2>1. (\A x : Seen(x)' => Seen(x)) /\ (AtWork' <=> AtWork)
    BY <1>1, <1>2 DEF Seen, AtWork
  <2>2. Follows(status, polling)' /\ Follows(polling, file)' /\ Follows(status, file)'
    BY <1>1, <1>2 DEF ReportsInOrder, Follows
  <2>3. ReportsInOrder'
    BY <1>2, <2>1, <2>2 DEF ReportsInOrder
  <2> QED
    BY <1>2, <2>1, <2>3 DEF HasEnded, Passed
<1>5. CardTypeOK'
  BY <1>1, <1>2, <1>3 DEF CardTypeOK
<1>6. \A i \in watched' : status' \in StatusData /\ status'.run = i /\ status'.phase \in Working
  BY <1>1, <1>3
<1> QED
  BY <1>1, <1>2, <1>4, <1>5, <1>6

LEMMA CardInvNext == CardInv /\ [CardNext]_cardVars => CardInv'
<1> SUFFICES ASSUME CardInv, [CardNext]_cardVars PROVE CardInv'
    OBVIOUS
<1>1. CASE Report
  BY <1>1, CardReport
<1>2. CASE RunnerGone
  BY <1>2, CardSame DEF RunnerGone, cardPage
<1>3. CASE PollStatus \/ RefreshStatus
  BY <1>3, CardSame DEF PollStatus, RefreshStatus, world, cardHistory
<1>4. CASE StatusRead
  BY <1>4, CardRead DEF StatusRead, cardHistory
<1>5. CASE StatusShown
  BY <1>5, CardShown
<1>6. CASE StatusLost
  BY <1>6, CardSame DEF StatusLost, world, cardHistory
<1>7. CASE Apply \/ Rollback \/ Reset
  BY <1>7, CardSame DEF Apply, Rollback, Reset, world, cardPage, cardHistory
<1>8. ASSUME NEW m \in Mutations, HandleRequest(m) PROVE CardInv'
  <2>1. CASE runner.run = 0
    BY <1>8, <2>1, CardAccepted DEF HandleRequest, cardPage, cardHistory
  <2>2. CASE runner.run # 0
    BY <1>8, <2>2, CardSame DEF HandleRequest, world, cardPage, cardHistory
  <2> QED
    BY <2>1, <2>2
<1>9. ASSUME NEW m \in Mutations, RequestAnswered(m) PROVE CardInv'
  BY <1>9, CardSame DEF RequestAnswered, world
<1>10. CASE Leave
  <2>1. /\ open' = FALSE /\ watched' = {}
        /\ UNCHANGED <<file, runner, runs, prev, status, polling, told>>
    BY <1>10 DEF Leave, world
  <2>2. CardTypeOK' /\ ReportsInOrder'
    <3>1. \A x : Seen(x)' <=> Seen(x)
      BY <2>1 DEF Seen
    <3>2. Follows(status, polling)' /\ Follows(polling, file)' /\ Follows(status, file)'
      BY <2>1 DEF CardInv, ReportsInOrder, Follows
    <3> QED
      BY <2>1, <3>1, <3>2 DEF CardInv, CardTypeOK, ReportsInOrder, AtWork
  <2>3. \A i : HasEnded(i) => HasEnded(i)'
    BY <2>1 DEF HasEnded, Seen, AtWork
  <2> QED
    BY <2>1, <2>2, <2>3 DEF CardInv
<1>11. CASE Return
  BY <1>11, CardReturn
<1>12. CASE UNCHANGED cardVars
  BY <1>12, CardSame DEF cardVars, world, cardPage, cardHistory
<1> QED
  BY <1>1, <1>2, <1>3, <1>4, <1>5, <1>6, <1>7, <1>8, <1>9, <1>10, <1>11, <1>12 DEF CardNext

\* The end of a run is told at most once, whatever is lost, left, loaded again, killed
\* or answered late, and it is told when the card saw the run at work and did not
\* lose sight of it, for any number of runs (the effect on the phase in
\* SettingsPage.tsx).
THEOREM EndsAreToldOnce == CardSpec => []EndsTold
<1>1. CardInv => EndsTold
  <2> SUFFICES ASSUME CardInv PROVE EndsTold
      OBVIOUS
  <2>1. ASSUME status # NoStatus, status.phase \in Terminal, status.run \in watched
        PROVE  told[status.run] = 1
    <3>1. status \in StatusData \ {Blank} /\ status.phase \notin Working /\ status.run \in Nat
      BY <2>1 DEF CardInv, CardTypeOK, StatusData, Blank, Terminal, Working, Runs
    <3>2. ~Passed(status.run)
      BY <3>1 DEF Passed, Seen
    <3> QED
      BY <2>1, <3>1, <3>2 DEF CardInv
  <2> QED
    BY <2>1 DEF CardInv, EndsTold
<1> QED
  BY <1>1, CardInvInit, CardInvNext, PTL DEF CardSpec
=============================================================================
