--------------------------- MODULE DevicePresence ---------------------------
(***************************************************************************)
(* Who is online (backend/internal/device/service.go): two loops, the      *)
(* discovery of syncDevices and the watcher of tickStatus, each take a     *)
(* snapshot of the sockets, ask hbbs, and write what changed to the        *)
(* devices table and to the pages that listen.  They share the state under *)
(* a mutex, and let go of it between the three steps of a round.           *)
(*                                                                         *)
(* A watcher that rests stands for the poll mode.  The database, hbbs and  *)
(* the sidecar that writes the snapshot are external.                      *)
(***************************************************************************)
EXTENDS Naturals, Sequences, FiniteSets

CONSTANTS
  Peers,        \* the devices in hbbs's table
  Home,         \* [Peers -> the address a peer connects from]
  Grace,        \* offlineGrace, in ticks
  QueueSize,    \* events a channel holds (16)
  Missing,      \* no snapshot, no row, no event, no subscriber
  MaxMishaps    \* bound: failures and restarts

ASSUME PresenceAssumption ==
  /\ DOMAIN Home = Peers
  /\ Grace \in Nat \ {0} /\ QueueSize \in Nat \ {0} /\ MaxMishaps \in Nat
ASSUME MissingAssumption ==
  Missing \notin [listed : BOOLEAN, online : BOOLEAN] \cup Seq(SUBSET Peers)

VARIABLES
  up,           \* the peers that are connected
  snapshot,     \* presence.json: active connections by address, or Missing
  age,          \* [Peers -> ticks since lastOnline], Grace if longer or never
  devices,      \* the table: [Peers -> [listed, online] or Missing]
  onlineState,  \* the map, of the peers seen so far
  round,        \* [Loops -> [pc, online]]
  lastStatus,   \* a set of peers, or Missing
  channel,      \* events a subscriber has not read, or Missing
  heard,        \* what it read last, or Missing
  \* History.
  verdict,        \* what the last round that applied to a peer said of it
  unwritten,    \* peers whose last change did not reach the table
  dropped,      \* an event of the subscriber was
  mishaps

presenceVars == <<up, snapshot, age, devices, onlineState, round, lastStatus, channel, heard,
                  verdict, unwritten, dropped, mishaps>>
world == <<up, snapshot, devices>>
stream == <<lastStatus, channel, heard, dropped>>
written == <<onlineState, verdict, unwritten>>

Loops == {"sync", "watch"}
Addresses == {Home[p] : p \in Peers}
Resting == [pc |-> "rest", online |-> <<>>]

PresenceInit ==
  /\ up \in SUBSET Peers /\ snapshot = Missing
  /\ devices \in [Peers -> [listed : {TRUE}, online : BOOLEAN] \cup {Missing}]
  /\ age = [p \in Peers |-> Grace] /\ onlineState = <<>>
  /\ round = [w \in Loops |-> Resting]
  /\ lastStatus = Missing /\ channel = Missing /\ heard = Missing
  /\ verdict = <<>> /\ unwritten = {} /\ dropped = FALSE /\ mishaps = 0

Mishap == mishaps < MaxMishaps /\ mishaps' = mishaps + 1
NoMishap == UNCHANGED mishaps

-----------------------------------------------------------------------------
(* A round. *)

\* computeOnline: each address keeps as many peers as it has connections, those
\* that were online last (ties, and times beyond the grace, in any order).
Chosen(known, here) ==
  \A a \in Addresses :
    LET peers == {p \in known : Home[p] = a}
        n == IF snapshot = Missing THEN 0 ELSE snapshot[a]
        picked == here \cap peers
    IN /\ Cardinality(picked) = (IF n < Cardinality(peers) THEN n ELSE Cardinality(peers))
       /\ \A p \in picked, q \in peers \ picked : age[p] <= age[q]

\* The others stay online for the grace.
ComputeOnline(w, known) ==
  \E here \in SUBSET known :
    /\ Chosen(known, here)
    /\ round' = [round EXCEPT ![w] =
         [pc |-> "computed", online |-> [p \in known |-> p \in here \/ age[p] < Grace]]]
    /\ age' = [p \in Peers |-> IF p \in here THEN 0 ELSE age[p]]

\* syncDevices: every peer gets a row, if the insertion does not fail.
Discover ==
  /\ round["sync"].pc = "rest"
  /\ ComputeOnline("sync", Peers)
  /\ \E lost \in SUBSET {p \in Peers : devices[p] = Missing} :
       /\ IF lost = {} THEN NoMishap ELSE Mishap
       /\ devices' = [p \in Peers |-> IF devices[p] = Missing /\ p \notin lost
                                      THEN [listed |-> TRUE, online |-> FALSE]
                                      ELSE devices[p]]
  /\ UNCHANGED <<up, snapshot, stream, written>>

\* tickStatus: the devices that are listed, or none if the table cannot be read.
TickStatus ==
  LET listed == {p \in Peers : devices[p] # Missing /\ devices[p].listed} IN
    /\ round["watch"].pc = "rest"
    /\ \/ ComputeOnline("watch", listed) /\ NoMishap
       \/ ComputeOnline("watch", {}) /\ Mishap
    /\ UNCHANGED <<world, stream, written>>

\* Fault: hbbs can only add to what the sockets say.
HbbsAnswerFault(w) == [p \in DOMAIN round[w].online |-> p \in up \/ round[w].online[p]]

HbbsAnswer(w) == [p \in DOMAIN round[w].online |-> p \in up]

\* hbbsVerdict and applyHbbsVerdict: hbbs knows, if it answers.
Judge(w) ==
  /\ round[w].pc = "computed"
  /\ \/ /\ round' = [round EXCEPT ![w] = [pc |-> "judged", online |-> HbbsAnswer(w)]]
        /\ age' = [p \in Peers |-> IF p \in DOMAIN round[w].online \cap up THEN 0 ELSE age[p]]
        /\ NoMishap
     \/ /\ round' = [round EXCEPT ![w].pc = "judged"]
        /\ Mishap /\ UNCHANGED age
  /\ UNCHANGED <<world, stream, written>>

\* Fault: a peer that was not seen yet counts as offline.
ChangedFault(online) ==
  {p \in DOMAIN online : (p \in DOMAIN onlineState /\ onlineState[p]) # online[p]}

Changed(online) ==
  {p \in DOMAIN online : p \notin DOMAIN onlineState \/ onlineState[p] # online[p]}

\* A device that is online again is listed again.
WriteStatus(online, stored) ==
  devices' = [p \in Peers |-> IF p \in stored
                              THEN [listed |-> devices[p].listed \/ online[p],
                                    online |-> online[p]]
                              ELSE devices[p]]

\* An event for every set that is not the last one.  A full channel does not get it.
PublishStatus(ids) ==
  /\ lastStatus' = ids /\ UNCHANGED heard
  /\ IF lastStatus = ids \/ channel = Missing THEN UNCHANGED <<channel, dropped>>
     ELSE IF Len(channel) < QueueSize THEN channel' = Append(channel, ids) /\ UNCHANGED dropped
     ELSE dropped' = TRUE /\ UNCHANGED channel

\* What a round says of the peers it looked at, over what was known.
Overlaid(new, known) ==
  [p \in DOMAIN new \cup DOMAIN known |-> IF p \in DOMAIN new THEN new[p] ELSE known[p]]

\* applyStatus: the map is changed before the table, which may fail to follow.
ApplyStatus(w) ==
  /\ round[w].pc = "judged"
  /\ LET online == round[w].online
         rows == {p \in Changed(online) : devices[p] # Missing}
     IN /\ \E failed \in SUBSET rows :
             /\ IF failed = {} THEN NoMishap ELSE Mishap
             /\ WriteStatus(online, rows \ failed)
             /\ unwritten' = (unwritten \cup Changed(online)) \ (rows \ failed)
        /\ onlineState' = Overlaid(online, onlineState)
        /\ verdict' = Overlaid(online, verdict)
        /\ PublishStatus({p \in DOMAIN online : online[p]})
  /\ round' = [round EXCEPT ![w] = Resting]
  /\ UNCHANGED <<up, snapshot, age>>

-----------------------------------------------------------------------------
(* What happens around it. *)

ComesAndGoes(p) ==
  /\ up' = IF p \in up THEN up \ {p} ELSE up \cup {p}
  /\ UNCHANGED <<snapshot, devices, age, round, stream, written, mishaps>>

\* The sidecar, or its file is old or broken.
SampleSockets ==
  /\ \/ /\ snapshot' = [a \in Addresses |-> Cardinality({p \in up : Home[p] = a})]
        /\ NoMishap
     \/ snapshot # Missing /\ snapshot' = Missing /\ Mishap
  /\ UNCHANGED <<up, devices, age, round, stream, written>>

TimePasses ==
  /\ age' = [p \in Peers |-> IF age[p] < Grace THEN age[p] + 1 ELSE Grace]
  /\ UNCHANGED <<world, round, stream, written, mishaps>>

\* DeleteDevice
DeleteDevice(p) ==
  /\ devices[p] # Missing /\ devices[p].listed
  /\ devices' = [devices EXCEPT ![p].listed = FALSE]
  /\ UNCHANGED <<up, snapshot, age, round, stream, written, mishaps>>

\* subscribe: the last event first.
Subscribe ==
  /\ channel = Missing
  /\ channel' = IF lastStatus = Missing THEN <<>> ELSE <<lastStatus>>
  /\ heard' = Missing /\ dropped' = FALSE
  /\ UNCHANGED <<world, age, round, lastStatus, written, mishaps>>

\* The loop of StreamDevices.
SendEvent ==
  /\ channel \notin {Missing, <<>>}
  /\ heard' = Head(channel) /\ channel' = Tail(channel)
  /\ UNCHANGED <<world, age, round, lastStatus, dropped, written, mishaps>>

Unsubscribe ==
  /\ channel # Missing
  /\ channel' = Missing /\ heard' = Missing /\ dropped' = FALSE
  /\ UNCHANGED <<world, age, round, lastStatus, written, mishaps>>

\* The backend restarts: what it remembered is gone, the table stays.
BackendRestarts ==
  /\ Mishap
  /\ age' = [p \in Peers |-> Grace] /\ onlineState' = <<>>
  /\ round' = [w \in Loops |-> Resting]
  /\ lastStatus' = Missing /\ channel' = Missing /\ heard' = Missing /\ dropped' = FALSE
  /\ UNCHANGED <<world, verdict, unwritten>>

PresenceNext ==
  \/ Discover \/ TickStatus \/ \E w \in Loops : Judge(w) \/ ApplyStatus(w)
  \/ \E p \in Peers : ComesAndGoes(p) \/ DeleteDevice(p)
  \/ SampleSockets \/ TimePasses
  \/ Subscribe \/ SendEvent \/ Unsubscribe
  \/ BackendRestarts

PresenceSpec == PresenceInit /\ [][PresenceNext]_presenceVars

\* The discovery goes on, and its requests end.
Discovery == Discover \/ Judge("sync") \/ ApplyStatus("sync")
FairPresenceSpec == PresenceSpec /\ WF_presenceVars(Discovery)

-----------------------------------------------------------------------------
PresenceTypeOK ==
  /\ up \subseteq Peers
  /\ snapshot \in [Addresses -> 0..Cardinality(Peers)] \cup {Missing}
  /\ age \in [Peers -> 0..Grace]
  /\ devices \in [Peers -> [listed : BOOLEAN, online : BOOLEAN] \cup {Missing}]
  /\ DOMAIN onlineState \subseteq DOMAIN verdict /\ DOMAIN verdict \subseteq Peers
  /\ \A w \in Loops : round[w].pc \in {"rest", "computed", "judged"}
  /\ channel # Missing => channel \in Seq(SUBSET Peers) /\ Len(channel) <= QueueSize

\* The table says of a device what the round that looked at it last has found, also
\* across restarts of the backend, unless that very change could not be written.
TableFollows ==
  \A p \in DOMAIN verdict \ unwritten : devices[p] # Missing => devices[p].online = verdict[p]

\* A page that has read all its events knows the status of the moment, whether it
\* subscribed before it, after it or in between, unless it was too slow for one.
PageKnows == channel = <<>> /\ ~dropped => heard = lastStatus

\* Table and pages follow the rounds.
StatusFollows == TableFollows /\ PageKnows

Shown(p) == devices[p] # Missing /\ devices[p].online

\* A device that stays away, or stays, is shown as such in the end: a grace, a late
\* round or a socket of somebody else at its address delay that, whichever loop ends
\* first.
SettlesDown ==
  \A p \in Peers : /\ <>[](p \in up) => <>[](p \in unwritten \/ Shown(p))
                   /\ <>[](p \notin up) => <>[](p \in unwritten \/ ~Shown(p))

-----------------------------------------------------------------------------
(* What comments in the source say, and TLC refutes. *)

\* applyStatus "publishes an SSE snapshot when the online set actually changed" (lines
\* 929 and 930): also when the two loops look at different devices.
PublishesChanges ==
  [][lastStatus \notin {Missing, lastStatus'} => onlineState' # onlineState]_presenceVars
=============================================================================
