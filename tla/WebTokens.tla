----------------------------- MODULE WebTokens -----------------------------
(***************************************************************************)
(* The token pair in the browser: the axios interceptors of                *)
(* frontend/src/api/client.ts, sign-in and sign-out of api/auth.ts and the *)
(* persisted store of stores/auth.ts, for several tabs of one browser      *)
(* against the refresh endpoint (AuthSessions, here with one step per      *)
(* request).                                                               *)
(*                                                                         *)
(* Each tab keeps its own copy of the store; it is written through to      *)
(* localStorage and read back only when the page loads.  A token names the *)
(* pair it belongs to.                                                     *)
(***************************************************************************)
EXTENDS Naturals, FiniteSets

CONSTANTS
  Tabs,
  Calls,      \* API calls a tab may have under way at a time
  Tokens,     \* bound: token pairs ever issued
  Nil,        \* no token
  MayReload,  \* bound: BOOLEAN, whether pages are loaded again
  MayLogout   \* bound: BOOLEAN, whether the user signs out

ASSUME NilAssumption == Nil \notin Tokens /\ Nil \notin Calls
ASSUME BoundsAssumption == MayReload \in BOOLEAN /\ MayLogout \in BOOLEAN

VARIABLES
  mem,        \* [Tabs -> token or Nil]: the store of each tab
  disk,       \* localStorage
  shared,     \* [Tabs -> call or Nil]: refreshPromise, named by the call that made it
  refresh,    \* [Tabs -> [Calls -> the request behind that promise]]
  apiCall,    \* [Tabs -> [Calls -> API call]]
  signout,    \* [Tabs -> token whose sign-out is being posted, or Nil]
  live,       \* SUBSET Tokens: what the refresh endpoint accepts
  stale,      \* SUBSET Tokens: pairs whose access token has expired
  used,       \* SUBSET Tokens: issued so far
  excused     \* history: SUBSET Tokens, ended by the server, the net or the user

tokenVars == <<mem, disk, shared, refresh, apiCall, signout, live, stale, used, excused>>
server == <<live, stale, used, excused>>

Opt == Tokens \cup {Nil}
NoCall == [pc |-> "idle", token |-> Nil, on |-> Nil]
NoRefresh == [pc |-> "none", old |-> Nil, new |-> Nil]
Call == [pc : {"idle", "sent", "waiting", "resent"}, token : Opt, on : Calls \cup {Nil}]
Refresh == [pc : {"none", "sent", "ok", "failed"}, old : Opt, new : Opt]

TokensInit ==
  /\ mem = [b \in Tabs |-> Nil] /\ disk = Nil
  /\ shared = [b \in Tabs |-> Nil]
  /\ refresh = [b \in Tabs |-> [c \in Calls |-> NoRefresh]]
  /\ apiCall = [b \in Tabs |-> [c \in Calls |-> NoCall]]
  /\ signout = [b \in Tabs |-> Nil]
  /\ live = {} /\ stale = {} /\ used = {} /\ excused = {}

\* setTokens and logout of the store: this tab's copy, and localStorage.
Store(b, t) == mem' = [mem EXCEPT ![b] = t] /\ disk' = t

\* The page of tab b is loaded: everything under way in it is forgotten.
Load(b) ==
  /\ shared' = [shared EXCEPT ![b] = Nil]
  /\ refresh' = [refresh EXCEPT ![b] = [c \in Calls |-> NoRefresh]]
  /\ apiCall' = [apiCall EXCEPT ![b] = [c \in Calls |-> NoCall]]
  /\ signout' = [signout EXCEPT ![b] = Nil]

-----------------------------------------------------------------------------
\* The login page is shown to a tab without tokens.
Login(b) ==
  /\ mem[b] = Nil
  /\ \E t \in Tokens \ used :
       /\ used' = used \cup {t} /\ live' = live \cup {t}
       /\ Store(b, t)
  /\ UNCHANGED <<shared, refresh, apiCall, signout, stale, excused>>

\* What a refresh of this tab has presented; the server may see it although the
\* page that sent it is gone.
Presented(b) == {refresh[b][c].old : c \in Calls} \cap used

Reload(b) ==
  /\ MayReload
  /\ mem' = [mem EXCEPT ![b] = disk]
  /\ live' \in {live, live \ Presented(b)}
  /\ excused' = excused \cup Presented(b)
  /\ Load(b)
  /\ UNCHANGED <<disk, stale, used>>

\* An API call leaves with the access token of the store.
Send(b, c) ==
  /\ mem[b] # Nil
  /\ apiCall[b][c].pc = "idle" /\ refresh[b][c].pc = "none"
  /\ apiCall' = [apiCall EXCEPT ![b][c] = [pc |-> "sent", token |-> mem[b], on |-> Nil]]
  /\ UNCHANGED <<mem, disk, shared, refresh, signout, server>>

Answered(b, c) ==
  /\ apiCall[b][c].pc \in {"sent", "resent"}
  /\ apiCall[b][c].token \notin stale
  /\ apiCall' = [apiCall EXCEPT ![b][c] = NoCall]
  /\ UNCHANGED <<mem, disk, shared, refresh, signout, server>>

\* A call that was already retried is rejected to its caller.
Rejected(b, c) ==
  /\ apiCall[b][c].pc = "resent" /\ apiCall[b][c].token \in stale
  /\ apiCall' = [apiCall EXCEPT ![b][c] = NoCall]
  /\ UNCHANGED <<mem, disk, shared, refresh, signout, server>>

\* Fault: every call that meets a 401 refreshes on its own.
JoinsFault(b) == FALSE

Joins(b) == shared[b] # Nil

\* 401: wait for the refresh under way, or be the one to start it, with the
\* refresh token the store holds now.
Unauthorized(b, c) ==
  /\ apiCall[b][c].pc = "sent" /\ apiCall[b][c].token \in stale
  /\ mem[b] # Nil
  /\ IF Joins(b)
     THEN /\ apiCall' = [apiCall EXCEPT ![b][c].pc = "waiting", ![b][c].on = shared[b]]
          /\ UNCHANGED <<shared, refresh>>
     ELSE /\ apiCall' = [apiCall EXCEPT ![b][c].pc = "waiting", ![b][c].on = c]
          /\ shared' = [shared EXCEPT ![b] = c]
          /\ refresh' = [refresh EXCEPT ![b][c] = [pc |-> "sent", old |-> mem[b], new |-> Nil]]
  /\ UNCHANGED <<mem, disk, signout, server>>

\* 401 and no refresh token: sign out and load the login page.
UnauthorizedSignedOut(b, c) ==
  /\ apiCall[b][c].pc = "sent" /\ apiCall[b][c].token \in stale
  /\ mem[b] = Nil
  /\ Store(b, Nil)
  /\ Load(b)
  /\ UNCHANGED server

\* The refresh endpoint: the token is exchanged if it is still live.
Exchange(b, c) ==
  LET r == refresh[b][c] IN
  /\ r.pc = "sent"
  /\ IF r.old \in live
     THEN \E t \in Tokens \ used :
            /\ refresh' = [refresh EXCEPT ![b][c] = [r EXCEPT !.pc = "ok", !.new = t]]
            /\ live' = (live \ {r.old}) \cup {t}
            /\ used' = used \cup {t}
     ELSE /\ refresh' = [refresh EXCEPT ![b][c] = [r EXCEPT !.pc = "failed"]]
          /\ UNCHANGED <<live, used>>
  /\ UNCHANGED <<mem, disk, shared, apiCall, signout, stale, excused>>

\* The request or its answer is lost, or the server fails (perhaps after the
\* token was consumed).
RefreshLost(b, c) ==
  /\ refresh[b][c].pc = "sent"
  /\ live' \in {live, live \ {refresh[b][c].old}}
  /\ excused' = excused \cup {refresh[b][c].old}
  /\ refresh' = [refresh EXCEPT ![b][c].pc = "failed"]
  /\ UNCHANGED <<mem, disk, shared, apiCall, signout, stale, used>>

\* The calls that waited for the refresh of c go out again with its result.
Retried(b, c, t) ==
  [d \in Calls |-> IF apiCall[b][d].on = c THEN [pc |-> "resent", token |-> t, on |-> Nil]
                                       ELSE apiCall[b][d]]

RefreshOk(b, c) ==
  /\ refresh[b][c].pc = "ok"
  /\ Store(b, refresh[b][c].new)
  /\ shared' = [shared EXCEPT ![b] = Nil]
  /\ refresh' = [refresh EXCEPT ![b][c] = NoRefresh]
  /\ apiCall' = [apiCall EXCEPT ![b] = Retried(b, c, refresh[b][c].new)]
  /\ UNCHANGED <<signout, server>>

\* Every call that waited signs out and loads the login page.
RefreshFailed(b, c) ==
  /\ refresh[b][c].pc = "failed"
  /\ Store(b, Nil)
  /\ Load(b)
  /\ UNCHANGED server

\* logoutRemote posts the refresh token of the store ...
Logout(b) ==
  /\ MayLogout
  /\ mem[b] # Nil /\ signout[b] = Nil
  /\ signout' = [signout EXCEPT ![b] = mem[b]]
  /\ excused' = excused \cup {mem[b]}
  /\ UNCHANGED <<mem, disk, shared, refresh, apiCall, live, stale, used>>

\* ... and whether or not the server dropped the session, clears the store; the
\* page is not loaded again.
LoggedOut(b) ==
  /\ signout[b] # Nil
  /\ live' \in {live, live \ {signout[b]}}
  /\ Store(b, Nil)
  /\ signout' = [signout EXCEPT ![b] = Nil]
  /\ UNCHANGED <<shared, refresh, apiCall, stale, used, excused>>

AccessExpires(t) ==
  /\ t \in used \ stale
  /\ stale' = stale \cup {t}
  /\ UNCHANGED <<mem, disk, shared, refresh, apiCall, signout, live, used, excused>>

\* The session of t reaches the end of its lifetime, or a credential change
\* sweeps it.
SessionEnds(t) ==
  /\ t \in live
  /\ live' = live \ {t}
  /\ excused' = excused \cup {t}
  /\ UNCHANGED <<mem, disk, shared, refresh, apiCall, signout, stale, used>>

Page(b) ==
  \/ Login(b) \/ Reload(b) \/ Logout(b)
  \/ \E c \in Calls : Send(b, c)

Refreshing(b, c) ==
  Exchange(b, c) \/ RefreshLost(b, c) \/ RefreshOk(b, c) \/ RefreshFailed(b, c)

Network(b) ==
  \/ LoggedOut(b)
  \/ \E c \in Calls :
       \/ Answered(b, c) \/ Rejected(b, c)
       \/ Unauthorized(b, c) \/ UnauthorizedSignedOut(b, c)
       \/ Refreshing(b, c)

TokensNext ==
  \/ \E b \in Tabs : Page(b) \/ Network(b)
  \/ \E t \in Tokens : AccessExpires(t) \/ SessionEnds(t)

TokensSpec == TokensInit /\ [][TokensNext]_tokenVars

\* A refresh request is answered or fails, and its promise's callbacks run.
TokensFairSpec == TokensSpec /\ \A b \in Tabs, c \in Calls : WF_tokenVars(Refreshing(b, c))

-----------------------------------------------------------------------------
TokensTypeOK ==
  /\ mem \in [Tabs -> Opt] /\ disk \in Opt
  /\ shared \in [Tabs -> Calls \cup {Nil}]
  /\ refresh \in [Tabs -> [Calls -> Refresh]]
  /\ apiCall \in [Tabs -> [Calls -> Call]]
  /\ signout \in [Tabs -> Opt]
  /\ live \subseteq used /\ stale \subseteq used /\ used \subseteq Tokens

\* client.ts: calls that meet a 401 at once share one refresh, so that none
\* presents a token another has exchanged and logs the admin out: the refresh
\* endpoint refuses a tab only for a token that the server, the network or the
\* user ended.  (With two tabs TLC refutes this: the promise is a tab's own.)
RefusedForCause ==
  \A b \in Tabs, c \in Calls :
    refresh[b][c].pc = "failed" => refresh[b][c].old \in excused

\* A tab that signed out stays signed out until the user signs in again (or
\* loads the page and finds tokens of another tab): api/auth.ts, clearing local
\* tokens always happens.  A refresh that is answered after the sign-out stores
\* its pair all the same: TLC refutes this, and no run checks it.
LogoutSticks ==
  [][\A b \in Tabs : mem[b] = Nil /\ mem'[b] # Nil => mem'[b] \notin used \/ mem'[b] = disk]_tokenVars

\* Every call that waits for a refresh goes out again or is dropped with its page.
WaitEnds == \A b \in Tabs, c \in Calls : (apiCall[b][c].pc = "waiting") ~> (apiCall[b][c].pc # "waiting")
=============================================================================
