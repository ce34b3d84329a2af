---------------------------- MODULE LoginLimiter ----------------------------
(***************************************************************************)
(* The rate limiter in front of login and refresh                          *)
(* (backend/internal/auth/ratelimit.go): a window of fixed length per key, *)
(* opened by the first attempt, in a map that is pruned only when it has   *)
(* grown past a threshold.  Each operation holds the mutex throughout, so  *)
(* each is one step; what interleaves are the handlers, whose reset comes  *)
(* some time after the attempt it rewards.                                 *)
(***************************************************************************)
EXTENDS Naturals, Sequences, FiniteSets

CONSTANTS
  LoginKeys,    \* "<ip>|<user name>": reset by a successful login
  RefreshKeys,  \* "refresh|<ip>": never reset
  Limit,        \* attempts permitted per window
  Window,       \* its length
  Slack,        \* map size that triggers pruning
  Absent,       \* no bucket
  Horizon,      \* bound: the clock's last value
  MaxCount      \* bound: attempts counted in one bucket

ASSUME LimitsAssumption ==
  /\ Limit \in Nat \ {0} /\ Window \in Nat \ {0} /\ Slack \in Nat
  /\ Horizon \in Nat /\ MaxCount \in Nat
ASSUME AbsentAssumption == Absent \notin [count : 1 .. MaxCount, start : 0 .. Horizon]

VARIABLES
  now,
  attempts,   \* [Keys -> bucket or Absent]: the map
  inflight,   \* SUBSET LoginKeys: with permitted logins still checking the password
  permits,    \* history: [Keys -> permitted attempts, in order], forgotten by reset
  refused     \* history: key of the refusal this step answered, or Absent

limiterVars == <<now, attempts, inflight, permits, refused>>

Keys == LoginKeys \cup RefreshKeys
Times == 0 .. Horizon

\* A permitted attempt: when it was made, and when the window it counts in began.
Permit == [at : Times, from : Times]

LimiterInit ==
  /\ now = 0
  /\ attempts = [k \in Keys |-> Absent]
  /\ inflight = {}
  /\ permits = [k \in Keys |-> <<>>]
  /\ refused = Absent

Over(b) == now - b.start >= Window

\* The bucket of k with this attempt counted, refused attempts included.
Bucket(k) ==
  IF attempts[k] = Absent \/ Over(attempts[k])
  THEN [count |-> 1, start |-> now]
  ELSE [attempts[k] EXCEPT !.count = @ + 1]

Buckets(map) == {k \in Keys : map[k] # Absent}

\* Fault: pruning drops the buckets that are not over.
PrunedFault(map) == [k \in Keys |-> IF Cardinality(Buckets(map)) > Slack THEN Absent ELSE map[k]]

Pruned(map) ==
  IF Cardinality(Buckets(map)) > Slack
  THEN [k \in Keys |-> IF map[k] # Absent /\ Over(map[k]) THEN Absent ELSE map[k]]
  ELSE map

\* allow: pruning comes after the refusals' early return.
Allow(k) ==
  LET b == Bucket(k)
      map == [attempts EXCEPT ![k] = b]
  IN /\ b.count <= MaxCount
     /\ IF b.count > Limit
        THEN /\ attempts' = map
             /\ refused' = k
             /\ UNCHANGED <<inflight, permits>>
        ELSE /\ attempts' = Pruned(map)
             /\ permits' = [permits EXCEPT ![k] = Append(@, [at |-> now, from |-> b.start])]
             /\ inflight' = inflight \cup ({k} \cap LoginKeys)
             /\ refused' = Absent
     /\ UNCHANGED now

\* reset, by a login whose password was right; one whose password was wrong
\* leaves the bucket.
Reset(k) ==
  /\ k \in inflight
  /\ inflight' \in {inflight, inflight \ {k}}
  /\ attempts' = [attempts EXCEPT ![k] = Absent]
  /\ permits' = [permits EXCEPT ![k] = <<>>]
  /\ refused' = Absent
  /\ UNCHANGED now

WrongPassword(k) ==
  /\ k \in inflight
  /\ inflight' \in {inflight, inflight \ {k}}
  /\ refused' = Absent
  /\ UNCHANGED <<now, attempts, permits>>

Tick ==
  /\ now < Horizon
  /\ now' = now + 1
  /\ refused' = Absent
  /\ UNCHANGED <<attempts, inflight, permits>>

LimiterNext ==
  \/ \E k \in Keys : Allow(k) \/ Reset(k) \/ WrongPassword(k)
  \/ Tick

LimiterSpec == LimiterInit /\ [][LimiterNext]_limiterVars

-----------------------------------------------------------------------------
LimiterTypeOK ==
  /\ now \in Times
  /\ attempts \in [Keys -> [count : 1 .. MaxCount, start : 0 .. now] \cup {Absent}]
  /\ inflight \subseteq LoginKeys
  /\ permits \in [Keys -> Seq(Permit)]
  /\ refused \in Keys \cup {Absent}

\* The budget: without a successful login a key gets at most Limit attempts in a
\* window, hence at most twice that in any stretch of a window's length, however
\* attempts, refusals, other keys' pruning and the clock interleave.
Budget ==
  \A k \in Keys : \A i, j \in DOMAIN permits[k] :
    j = i + 2 * Limit => permits[k][j].at >= permits[k][i].at + Window

\* Nobody is refused, or kept out by the attempts he makes while refused, unless
\* Limit attempts were permitted less than a window ago.
RefusedForCause ==
  refused # Absent =>
    LET mine == permits[refused] IN
      /\ Len(mine) >= Limit
      /\ now < mine[Len(mine) - Limit + 1].at + Window

\* The limit is kept, and nobody pays for what he did not do.
LimitExact == Budget /\ RefusedForCause
=============================================================================
