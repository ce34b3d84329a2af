---------------------------- MODULE MCWebClient ----------------------------
(***************************************************************************)
(* Instances, for TLC, of the parts of the web client that must get        *)
(* somewhere by themselves: the token handling, the status stream, the     *)
(* update card and the device list when its requests fail.  They share no  *)
(* state; a behaviour is about one of them, its scope.                     *)
(***************************************************************************)
EXTENDS WebTokens, DeviceStream, PanelCard, DeviceList

CONSTANTS
  tab1, c1, c2, p1, p2, p3,                \* tokens: a tab, its calls, its tokens
  dashboard, devices, s1, s2, s3, s4,      \* stream: the two pages, its requests
  d1, d2, slot1,                           \* device list: devices, a change
  Scopes

MCTabs == {tab1}
MCCalls == {c1, c2}
MCTokens == {p1, p2, p3}

MCConsumers == {dashboard, devices}
MCStreams == {s1, s2, s3, s4}

MCDevices == {d1, d2}
MCFilters == {"all", "online"}
MCSlots == {slot1}

AllScopes == {"tokens", "stream", "card", "list"}

VARIABLE scope

Everything == <<tokenVars, vars, cardVars, listVars, scope>>

MCInit ==
  /\ scope \in Scopes
  /\ TokensInit /\ Init
  /\ CardInit /\ (scope # "card" => file = Blank)
  /\ ListInit /\ rows = [d \in Devices |-> {}]

\* One request of the card at a time: its buttons are disabled meanwhile.
CardScope ==
  /\ CardNext
  /\ \A m, n \in Mutations : request'[m] # "none" /\ request'[n] # "none" => m = n

\* The list while its requests fail: nobody changes it or turns the page.
ListScope ==
  /\ ListNext
  /\ changes' = 0 /\ dialog' = NoDialog /\ page' = 1 /\ filter' = "all"

MCNext ==
  /\ UNCHANGED scope
  /\ \/ scope = "tokens" /\ TokensNext /\ UNCHANGED <<vars, cardVars, listVars>>
     \/ scope = "stream" /\ Next /\ UNCHANGED <<tokenVars, cardVars, listVars>>
     \/ scope = "card" /\ CardScope /\ UNCHANGED <<tokenVars, vars, listVars>>
     \/ scope = "list" /\ ListScope /\ UNCHANGED <<tokenVars, vars, cardVars>>

\* The fairness of each module, for the behaviours about it.
MCFairness ==
  /\ \A b \in Tabs, c \in Calls : WF_tokenVars(scope = "tokens" /\ Refreshing(b, c))
  /\ WF_vars(scope = "stream" /\ TimerFires)
  /\ \A s \in Streams : WF_vars(scope = "stream" /\ s \in aborted /\ Ended(s))
  /\ WF_cardVars(scope = "card" /\ PollStatus) /\ WF_cardVars(scope = "card" /\ StatusRead)
  /\ WF_cardVars(scope = "card" /\ StatusShown) /\ WF_cardVars(scope = "card" /\ Report)
  /\ WF_listVars(scope = "list" /\ RetryTimer)
  /\ WF_listVars(scope = "list" /\ (ListRead(key) \/ ListArrives(key)))

MCFairSpec == MCInit /\ [][MCNext]_Everything /\ MCFairness
=============================================================================
