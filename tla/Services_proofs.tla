--------------------------- MODULE Services_proofs ---------------------------
(***************************************************************************)
(* What holds of the services of the backend beside the two updates: the   *)
(* login limiter, for any limit, window and number of keys; the status of  *)
(* devices, for any number of them behind any addresses.                   *)
(***************************************************************************)
EXTENDS LoginLimiter, DevicePresence, SequenceTheorems, TLAPS

-----------------------------------------------------------------------------
(* The login limiter: types. *)

BucketType == [count : 1 .. MaxCount, start : 0 .. now]

\* A bucket is not the absence of one.
LEMMA BucketIsOne ==
  ASSUME LimiterTypeOK, NEW b \in BucketType
  PROVE  b # Absent
BY AbsentAssumption, LimitsAssumption DEF BucketType, LimiterTypeOK, Times

\* What allow makes of the bucket: it counts on, or it is new and the one before
\* was over.
LEMMA BucketCounts ==
  ASSUME LimiterTypeOK, NEW k \in Keys, Bucket(k).count <= MaxCount
  PROVE  /\ Bucket(k) \in BucketType
         /\ \/ /\ attempts[k] # Absent /\ ~Over(attempts[k])
               /\ Bucket(k).start = attempts[k].start
               /\ Bucket(k).count = attempts[k].count + 1
            \/ /\ attempts[k] = Absent \/ Over(attempts[k])
               /\ Bucket(k).start = now /\ Bucket(k).count = 1
<1>1. attempts[k] \in BucketType \cup {Absent} /\ now \in Nat
  BY LimitsAssumption DEF LimiterTypeOK, BucketType, Times
<1>2. CASE attempts[k] = Absent \/ Over(attempts[k])
  BY <1>1, <1>2, LimitsAssumption DEF Bucket, BucketType
<1>3. CASE attempts[k] # Absent /\ ~Over(attempts[k])
  BY <1>1, <1>3, LimitsAssumption DEF Bucket, BucketType
<1> QED
  BY <1>2, <1>3

\* Pruning leaves a bucket alone, or drops one that is over.
LEMMA PruneDrops ==
  ASSUME NEW map, NEW k \in Keys, map = [q \in Keys |-> map[q]]
  PROVE  /\ Pruned(map)[k] = map[k] \/ (map[k] # Absent /\ Over(map[k]) /\ Pruned(map)[k] = Absent)
         /\ Pruned(map) = [q \in Keys |-> Pruned(map)[q]]
BY DEF Pruned

\* A key's map entry after allow: its own bucket counted, the others as they were
\* or dropped when over.
LEMMA AllowMap ==
  ASSUME LimiterTypeOK, NEW k \in Keys, Allow(k), NEW q \in Keys
  PROVE  /\ attempts' = [p \in Keys |-> attempts'[p]]
         /\ LET b == IF q = k THEN Bucket(k) ELSE attempts[q]
            IN  \/ attempts'[q] = b
                \/ b # Absent /\ Over(b) /\ attempts'[q] = Absent
<1> DEFINE map == [attempts EXCEPT ![k] = Bucket(k)]
<1>1. /\ map = [p \in Keys |-> map[p]]
      /\ map[q] = IF q = k THEN Bucket(k) ELSE attempts[q]
  BY DEF LimiterTypeOK
<1>2. attempts' \in {map, Pruned(map)}
  BY DEF Allow
<1> HIDE DEF map
<1> QED
  BY <1>1, <1>2, PruneDrops

LEMMA LimiterTypeInit == LimiterInit => LimiterTypeOK
BY LimitsAssumption DEF LimiterInit, LimiterTypeOK, Times

LEMMA LimiterTypeNext == LimiterTypeOK /\ [LimiterNext]_limiterVars => LimiterTypeOK'
<1> SUFFICES ASSUME LimiterTypeOK, [LimiterNext]_limiterVars PROVE LimiterTypeOK'
    OBVIOUS
<1>1. ASSUME NEW k \in Keys, Allow(k) PROVE LimiterTypeOK'
  <2>1. Bucket(k) \in BucketType /\ now' = now
    BY <1>1, BucketCounts DEF Allow
  <2>2. attempts' \in [Keys -> BucketType \cup {Absent}]
    <3>1. attempts' = [p \in Keys |-> attempts'[p]]
      BY <1>1, AllowMap
    <3>2. \A q \in Keys : attempts'[q] \in {Bucket(k), attempts[q], Absent}
      BY <1>1, AllowMap
    <3> QED
      BY <2>1, <3>1, <3>2 DEF LimiterTypeOK, BucketType
  <2>3. permits' \in [Keys -> Seq(Permit)]
    <3>1. [at |-> now, from |-> Bucket(k).start] \in Permit
      BY <2>1, LimitsAssumption DEF LimiterTypeOK, BucketType, Permit, Times
    <3>2. permits' \in {permits, [permits EXCEPT ![k] = Append(@, [at |-> now, from |-> Bucket(k).start])]}
      BY <1>1 DEF Allow
    <3>3. Append(permits[k], [at |-> now, from |-> Bucket(k).start]) \in Seq(Permit)
      BY <3>1, AppendProperties DEF LimiterTypeOK
    <3> QED
      BY <3>1, <3>2, <3>3 DEF LimiterTypeOK
  <2>4. inflight' \subseteq LoginKeys /\ refused' \in Keys \cup {Absent}
    BY <1>1 DEF Allow, LimiterTypeOK
  <2> QED
    BY <2>1, <2>2, <2>3, <2>4 DEF LimiterTypeOK, BucketType
<1>2. ASSUME NEW k \in Keys, Reset(k) PROVE LimiterTypeOK'
  BY <1>2 DEF Reset, LimiterTypeOK
<1>3. ASSUME NEW k \in Keys, WrongPassword(k) PROVE LimiterTypeOK'
  BY <1>3 DEF WrongPassword, LimiterTypeOK
<1>4. CASE Tick
  <2>1. now \in Nat /\ now' = now + 1 /\ now' \in Times
    BY <1>4, LimitsAssumption DEF Tick, LimiterTypeOK, Times
  <2>2. [count : 1 .. MaxCount, start : 0 .. now] \subseteq [count : 1 .. MaxCount, start : 0 .. now']
    BY <2>1
  <2> QED
    BY <1>4, <2>1, <2>2 DEF Tick, LimiterTypeOK
<1>5. CASE UNCHANGED limiterVars
  BY <1>5 DEF limiterVars, LimiterTypeOK
<1> QED
  BY <1>1, <1>2, <1>3, <1>4, <1>5 DEF LimiterNext

-----------------------------------------------------------------------------
(* The login limiter: the budget. *)

\* How many of a key's permitted attempts its bucket has counted; those that it
\* refused are counted too, past the limit.
Counted(k) ==
  IF attempts[k] = Absent THEN 0
  ELSE IF attempts[k].count < Limit THEN attempts[k].count ELSE Limit

\* When its window began, or may begin.
Opened(k) == IF attempts[k] = Absent THEN now ELSE attempts[k].start

\* Permits that lie in windows which follow one another, no more than Limit in each:
\* the last c in the one that began at s, the others in those before.
Fits(mine, c, s, t) ==
  /\ c <= Len(mine)
  /\ \A i \in 1 .. Len(mine) :
       /\ mine[i].from <= mine[i].at /\ mine[i].at < mine[i].from + Window
       /\ mine[i].at <= t
       /\ IF i > Len(mine) - c THEN mine[i].from = s ELSE mine[i].from + Window <= s
  /\ \A i, j \in 1 .. Len(mine) : i + Limit <= j => mine[j].from >= mine[i].from + Window

Windows(k) == Fits(permits[k], Counted(k), Opened(k), now)

\* Whoever is refused finds his window open and its permits used up.
Refusal ==
  refused # Absent =>
    attempts[refused] # Absent /\ attempts[refused].count > Limit /\ ~Over(attempts[refused])

LimiterInv ==
  /\ LimiterTypeOK
  /\ \A k \in Keys : Windows(k)
  /\ Refusal

LEMMA PermitTypes ==
  ASSUME NEW mine \in Seq(Permit)
  PROVE  /\ Len(mine) \in Nat /\ DOMAIN mine = 1 .. Len(mine)
         /\ \A i \in 1 .. Len(mine) : mine[i].at \in Nat /\ mine[i].from \in Nat
         /\ Limit \in Nat \ {0} /\ Window \in Nat \ {0}
<1>1. \A i \in 1 .. Len(mine) : mine[i] \in Permit
  OBVIOUS
<1> QED
  BY <1>1, LimitsAssumption DEF Permit, Times

\* Another attempt is permitted in the window.
LEMMA FitsAppend ==
  ASSUME NEW mine \in Seq(Permit), NEW s \in Times, NEW t \in Times, NEW c \in Nat,
         Fits(mine, c, s, t), c < Limit, s <= t, t < s + Window
  PROVE  Fits(Append(mine, [at |-> t, from |-> s]), c + 1, s, t)
<1> DEFINE p == [at |-> t, from |-> s]
           more == Append(mine, p)
           n == Len(mine)
<1>0. /\ n \in Nat /\ Limit \in Nat \ {0} /\ Window \in Nat \ {0} /\ s \in Nat /\ t \in Nat
      /\ \A i \in 1 .. n : mine[i].at \in Nat /\ mine[i].from \in Nat
  BY PermitTypes, LimitsAssumption DEF Times
<1>1. p \in Permit /\ p.at = t /\ p.from = s
  BY DEF Permit
<1>2. Len(more) = n + 1 /\ more[n + 1] = p /\ \A i \in 1 .. n : more[i] = mine[i]
  BY <1>1, AppendProperties
<1>3. n + 1 - (c + 1) = n - c /\ c <= n
  BY <1>0 DEF Fits
<1> HIDE DEF p, more
<1>4. ASSUME NEW i \in 1 .. n + 1
      PROVE  /\ more[i].from <= more[i].at /\ more[i].at < more[i].from + Window
             /\ more[i].at <= t
             /\ IF i > n - c THEN more[i].from = s ELSE more[i].from + Window <= s
  <2>1. CASE i = n + 1
    BY <1>0, <1>1, <1>2, <2>1
  <2>2. CASE i \in 1 .. n
    BY <1>2, <2>2 DEF Fits
  <2> QED
    BY <1>0, <2>1, <2>2
<1>5. ASSUME NEW i \in 1 .. n + 1, NEW j \in 1 .. n + 1, i + Limit <= j
      PROVE  more[j].from >= more[i].from + Window
  <2>1. i \in 1 .. n
    BY <1>0, <1>5
  <2>2. CASE j = n + 1
    <3>1. ~(i > n - c)
      BY <1>0, <1>3, <1>5, <2>2
    <3>2. mine[i].from + Window <= s
      BY <2>1, <3>1 DEF Fits
    <3> QED
      BY <1>0, <1>1, <1>2, <2>1, <2>2, <3>2
  <2>3. CASE j \in 1 .. n
    BY <1>2, <1>5, <2>1, <2>3 DEF Fits
  <2> QED
    BY <1>0, <2>2, <2>3
<1>6. Fits(more, c + 1, s, t)
  BY <1>0, <1>2, <1>3, <1>4, <1>5 DEF Fits
<1> QED
  BY <1>6 DEF more, p

\* The window is over, or there is none: the next one begins no sooner than s2.
LEMMA FitsClose ==
  ASSUME NEW mine \in Seq(Permit), NEW s \in Nat, NEW s2 \in Nat, NEW t \in Nat, NEW t2 \in Nat,
         NEW c \in Nat, Fits(mine, c, s, t), t <= t2,
         s + Window <= s2 \/ (c = 0 /\ s <= s2)
  PROVE  Fits(mine, 0, s2, t2)
<1> DEFINE n == Len(mine)
<1>0. /\ n \in Nat /\ Limit \in Nat \ {0} /\ Window \in Nat \ {0}
      /\ \A i \in 1 .. n : mine[i].at \in Nat /\ mine[i].from \in Nat
  BY PermitTypes
<1>1. ASSUME NEW i \in 1 .. n
      PROVE  /\ mine[i].from <= mine[i].at /\ mine[i].at < mine[i].from + Window
             /\ mine[i].at <= t2
             /\ ~(i > n - 0) /\ mine[i].from + Window <= s2
  <2>1. /\ mine[i].from <= mine[i].at /\ mine[i].at < mine[i].from + Window
        /\ mine[i].at <= t
        /\ IF i > n - c THEN mine[i].from = s ELSE mine[i].from + Window <= s
    BY DEF Fits
  <2>2. mine[i].at \in Nat /\ mine[i].from \in Nat
    BY <1>0
  <2>3. ~(i > n - 0)
    BY <1>0
  <2>4. CASE c = 0
    BY <1>0, <2>1, <2>2, <2>3, <2>4
  <2>5. CASE s + Window <= s2
    <3>1. mine[i].from + Window <= s2
      <4>1. mine[i].from = s \/ mine[i].from + Window <= s
        BY <2>1
      <4>2. mine[i].from = s => mine[i].from + Window <= s2
        BY <2>5
      <4>3. mine[i].from + Window <= s => mine[i].from + Window <= s2
        BY <1>0, <2>2, <2>5
      <4> QED
        BY <4>1, <4>2, <4>3
    <3> QED
      BY <2>1, <2>2, <2>3, <3>1
  <2> QED
    BY <2>4, <2>5
<1>2. 0 <= n
  BY <1>0
<1>3. \A i, j \in 1 .. n : i + Limit <= j => mine[j].from >= mine[i].from + Window
  BY DEF Fits
<1>4. \A i \in 1 .. n :
        /\ mine[i].from <= mine[i].at /\ mine[i].at < mine[i].from + Window
        /\ mine[i].at <= t2
        /\ IF i > n - 0 THEN mine[i].from = s2 ELSE mine[i].from + Window <= s2
  BY <1>1
<1> QED
  BY <1>2, <1>3, <1>4 DEF Fits

\* Time goes on in the window.
LEMMA FitsLater ==
  ASSUME NEW mine \in Seq(Permit), NEW s, NEW t \in Nat, NEW t2 \in Nat, NEW c,
         Fits(mine, c, s, t), t <= t2
  PROVE  Fits(mine, c, s, t2)
<1>1. \A i \in 1 .. Len(mine) : mine[i].at \in Nat
  BY PermitTypes
<1>2. \A i \in 1 .. Len(mine) : mine[i].at <= t2
  BY <1>1 DEF Fits
<1> QED
  BY <1>2 DEF Fits

\* What the limiter's variables are, for one key.
LEMMA LimiterTypes ==
  ASSUME LimiterTypeOK, NEW k \in Keys
  PROVE  /\ now \in Times /\ now \in Nat /\ Limit \in Nat \ {0} /\ Window \in Nat \ {0}
         /\ permits[k] \in Seq(Permit)
         /\ attempts[k] # Absent =>
              /\ attempts[k].count \in Nat \ {0}
              /\ attempts[k].start \in Nat /\ attempts[k].start <= now
         /\ Counted(k) \in 0 .. Limit
         /\ Opened(k) \in Times /\ Opened(k) \in Nat /\ Opened(k) <= now
<1>1. /\ now \in Times /\ now \in Nat /\ Limit \in Nat \ {0} /\ Window \in Nat \ {0}
      /\ permits[k] \in Seq(Permit)
  BY LimitsAssumption DEF LimiterTypeOK, Times
<1>2. attempts[k] # Absent =>
        /\ attempts[k].count \in Nat \ {0}
        /\ attempts[k].start \in Times
        /\ attempts[k].start \in Nat /\ attempts[k].start <= now
  BY <1>1, LimitsAssumption DEF LimiterTypeOK, Times
<1>3. Counted(k) \in 0 .. Limit
  BY <1>1, <1>2 DEF Counted
<1>4. Opened(k) \in Times /\ Opened(k) \in Nat /\ Opened(k) <= now
  BY <1>1, <1>2 DEF Opened
<1> QED
  BY <1>1, <1>2, <1>3, <1>4

LEMMA AllowWindows ==
  ASSUME LimiterTypeOK, NEW k \in Keys, Allow(k), NEW q \in Keys, Windows(q)
  PROVE  Windows(q)'
<1> DEFINE b == Bucket(k)
<1>0. /\ now \in Times /\ now \in Nat /\ Limit \in Nat \ {0} /\ Window \in Nat \ {0}
      /\ permits[q] \in Seq(Permit)
      /\ attempts[q] # Absent =>
           /\ attempts[q].count \in Nat \ {0}
           /\ attempts[q].start \in Nat /\ attempts[q].start <= now
      /\ Counted(q) \in 0 .. Limit
      /\ Opened(q) \in Times /\ Opened(q) \in Nat /\ Opened(q) <= now
      /\ Fits(permits[q], Counted(q), Opened(q), now)
  BY LimiterTypes DEF Windows
<1>1. b \in BucketType /\ b # Absent /\ now' = now
  BY BucketCounts, BucketIsOne DEF Allow
<1>2. CASE q # k
  <2>1. permits'[q] = permits[q]
    BY <1>2 DEF Allow, LimiterTypeOK
  <2>2. CASE attempts'[q] = attempts[q]
    BY <1>0, <1>1, <2>1, <2>2 DEF Windows, Counted, Opened
  <2>3. CASE attempts[q] # Absent /\ Over(attempts[q]) /\ attempts'[q] = Absent
    <3>1. Counted(q)' = 0 /\ Opened(q)' = now
      BY <1>1, <2>3 DEF Counted, Opened
    <3>2. Opened(q) + Window <= now
      BY <1>0, <2>3 DEF Opened, Over
    <3>3. Fits(permits[q], 0, now, now)
      <4>1. Counted(q) \in Nat /\ now <= now
        BY <1>0
      <4> QED
        BY <1>0, <3>2, <4>1, FitsClose
    <3> QED
      BY <1>1, <2>1, <3>1, <3>3 DEF Windows
  <2> QED
    BY <1>2, <2>2, <2>3, AllowMap
<1>3. CASE q = k /\ b.count > Limit
  <2>1. attempts'[k] = b /\ UNCHANGED permits
    BY <1>3 DEF Allow, LimiterTypeOK
  <2>2. attempts[k] # Absent /\ b.start = attempts[k].start /\ b.count = attempts[k].count + 1
    BY <1>0, <1>3, BucketCounts DEF Allow
  <2>3. Counted(k)' = Counted(k)
    BY <1>0, <1>1, <1>3, <2>1, <2>2 DEF Counted
  <2>4. Opened(k)' = Opened(k)
    BY <1>1, <2>1, <2>2 DEF Opened
  <2> QED
    BY <1>0, <1>1, <1>3, <2>1, <2>3, <2>4 DEF Windows
<1>4. CASE q = k /\ b.count <= Limit
  <2>1. permits'[k] = Append(permits[k], [at |-> now, from |-> b.start])
    BY <1>0, <1>1, <1>4 DEF Allow, LimiterTypeOK, BucketType
  <2>2. attempts'[k] = b
    <3>1. ~Over(b)
      BY <1>0, <1>1, <1>4, BucketCounts DEF Allow, Over, BucketType
    <3> QED
      BY <3>1, AllowMap
  <2>3. Opened(k)' = b.start /\ Counted(k)' = b.count
    BY <1>0, <1>1, <1>4, <2>2 DEF Opened, Counted, BucketType
  <2>4. CASE attempts[k] # Absent /\ ~Over(attempts[k]) /\ b.start = attempts[k].start
             /\ b.count = attempts[k].count + 1
    <3>1. Counted(k) = attempts[k].count /\ Counted(k) < Limit /\ Opened(k) = b.start
      BY <1>0, <1>4, <2>4 DEF Counted, Opened
    <3>2. now < b.start + Window
      BY <1>0, <1>4, <2>4 DEF Over
    <3>3. Fits(permits'[k], Counted(k) + 1, b.start, now)
      BY <1>0, <1>4, <2>1, <3>1, <3>2, FitsAppend
    <3> QED
      BY <1>1, <1>4, <2>3, <2>4, <3>1, <3>3 DEF Windows
  <2>5. CASE (attempts[k] = Absent \/ Over(attempts[k])) /\ b.start = now /\ b.count = 1
    <3>1. Opened(k) + Window <= now \/ (Counted(k) = 0 /\ Opened(k) <= now)
      BY <1>0, <1>4, <2>5 DEF Counted, Opened, Over
    <3>2. Fits(permits[k], 0, now, now)
      BY <1>0, <1>4, <3>1, FitsClose
    <3>3. Fits(permits'[k], 0 + 1, now, now)
      BY <1>0, <1>4, <2>1, <2>5, <3>2, FitsAppend
    <3> QED
      BY <1>1, <1>4, <2>3, <2>5, <3>3 DEF Windows
  <2> QED
    BY <1>4, <2>4, <2>5, BucketCounts DEF Allow
<1> QED
  BY <1>0, <1>1, <1>2, <1>3, <1>4 DEF BucketType

LEMMA LimiterInvInit == LimiterInit => LimiterInv
<1> SUFFICES ASSUME LimiterInit PROVE LimiterInv
    OBVIOUS
<1>1. LimiterTypeOK
  BY LimiterTypeInit
<1>2. ASSUME NEW k \in Keys PROVE Windows(k)
  <2>1. permits[k] = <<>> /\ Counted(k) = 0
    BY DEF LimiterInit, Counted
  <2> QED
    BY <2>1 DEF Windows, Fits
<1> QED
  BY <1>1, <1>2 DEF LimiterInv, Refusal, LimiterInit

LEMMA LimiterInvNext == LimiterInv /\ [LimiterNext]_limiterVars => LimiterInv'
<1> SUFFICES ASSUME LimiterInv, [LimiterNext]_limiterVars PROVE LimiterInv'
    OBVIOUS
<1>0. LimiterTypeOK /\ LimiterTypeOK'
  BY LimiterTypeNext DEF LimiterInv
<1>1. ASSUME NEW k \in Keys, Allow(k)
      PROVE  (\A q \in Keys : Windows(q)') /\ Refusal'
  <2>1. CASE Bucket(k).count > Limit
    <3>1. attempts'[k] = Bucket(k) /\ now' = now /\ refused' = k
      BY <1>0, <1>1, <2>1 DEF Allow, LimiterTypeOK
    <3>2. ~Over(Bucket(k)) /\ Bucket(k) # Absent
      <4>1. Bucket(k) \in BucketType
        BY <1>0, <1>1, BucketCounts DEF Allow
      <4>2. attempts[k] # Absent /\ ~Over(attempts[k]) /\ Bucket(k).start = attempts[k].start
        BY <1>0, <1>1, <2>1, BucketCounts, LimitsAssumption DEF Allow
      <4> QED
        BY <1>0, <4>1, <4>2, BucketIsOne DEF Over
    <3> QED
      BY <1>0, <1>1, <2>1, <3>1, <3>2, AllowWindows DEF LimiterInv, Refusal, Over
  <2>2. CASE ~(Bucket(k).count > Limit)
    BY <1>0, <1>1, <2>2, AllowWindows DEF LimiterInv, Refusal, Allow
  <2> QED
    BY <2>1, <2>2
<1>2. ASSUME NEW k \in Keys, Reset(k)
      PROVE  (\A q \in Keys : Windows(q)') /\ Refusal'
  <2>1. ASSUME NEW q \in Keys PROVE Windows(q)'
    <3>1. CASE q = k
      <4>1. permits'[k] = <<>> /\ attempts'[k] = Absent
        BY <1>0, <1>2 DEF Reset, LimiterTypeOK
      <4> QED
        BY <3>1, <4>1 DEF Windows, Counted, Fits
    <3>2. CASE q # k
      <4>1. permits'[q] = permits[q] /\ attempts'[q] = attempts[q] /\ now' = now
        BY <1>0, <1>2, <3>2 DEF Reset, LimiterTypeOK
      <4> QED
        BY <4>1 DEF LimiterInv, Windows, Counted, Opened
    <3> QED
      BY <3>1, <3>2
  <2> QED
    BY <1>2, <2>1 DEF Reset, Refusal
<1>3. ASSUME NEW k \in Keys, WrongPassword(k)
      PROVE  (\A q \in Keys : Windows(q)') /\ Refusal'
  BY <1>3 DEF WrongPassword, LimiterInv, Windows, Counted, Opened, Refusal
<1>4. CASE Tick
  <2>1. ASSUME NEW q \in Keys PROVE Windows(q)'
    <3>1. /\ now' = now + 1 /\ UNCHANGED <<attempts, permits>>
          /\ Fits(permits[q], Counted(q), Opened(q), now) /\ Counted(q)' = Counted(q)
      BY <1>4 DEF Tick, LimiterInv, Windows, Counted
    <3>2. /\ now \in Nat /\ permits[q] \in Seq(Permit) /\ Counted(q) \in Nat /\ Opened(q) \in Nat
      BY <1>0, LimiterTypes
    <3>3. CASE attempts[q] = Absent
      <4>1. Counted(q) = 0 /\ Opened(q) = now /\ Opened(q)' = now + 1
        BY <3>1, <3>3 DEF Counted, Opened
      <4>2. Fits(permits[q], 0, now + 1, now + 1)
        <5>1. now + 1 \in Nat /\ now <= now + 1
          BY <3>2
        <5> QED
          BY <3>1, <3>2, <4>1, <5>1, FitsClose
      <4> QED
        BY <3>1, <4>1, <4>2 DEF Windows
    <3>4. CASE attempts[q] # Absent
      <4>1. Opened(q)' = Opened(q)
        BY <3>1, <3>4 DEF Opened
      <4>2. Fits(permits[q], Counted(q), Opened(q), now + 1)
        BY <3>1, <3>2, FitsLater
      <4> QED
        BY <3>1, <4>1, <4>2 DEF Windows
    <3> QED
      BY <3>3, <3>4
  <2> QED
    BY <1>0, <1>4, <2>1 DEF Tick, Refusal, LimiterInv
<1>5. CASE UNCHANGED limiterVars
  BY <1>0, <1>5 DEF limiterVars, LimiterInv, Windows, Counted, Opened, Refusal, Over
<1> QED
  BY <1>0, <1>1, <1>2, <1>3, <1>4, <1>5 DEF LimiterNext, LimiterInv

LEMMA LimiterAlways == LimiterSpec => []LimiterInv
BY LimiterInvInit, LimiterInvNext, PTL DEF LimiterSpec

\* What the windows amount to.
LEMMA WindowsLimit == LimiterInv => LimitExact
<1> SUFFICES ASSUME LimiterInv PROVE LimitExact
    OBVIOUS
<1>0. LimiterTypeOK
  BY DEF LimiterInv
<1>1. ASSUME NEW k \in Keys, NEW i \in DOMAIN permits[k], NEW j \in DOMAIN permits[k],
             j = i + 2 * Limit
      PROVE  permits[k][j].at >= permits[k][i].at + Window
  <2> DEFINE mine == permits[k]
             m == i + Limit
  <2>0. mine \in Seq(Permit) /\ Fits(mine, Counted(k), Opened(k), now)
    BY <1>0, LimiterTypes DEF LimiterInv, Windows
  <2>1. /\ Len(mine) \in Nat /\ DOMAIN mine = 1 .. Len(mine)
        /\ \A h \in 1 .. Len(mine) : mine[h].at \in Nat /\ mine[h].from \in Nat
        /\ Limit \in Nat \ {0} /\ Window \in Nat \ {0}
    BY <2>0, PermitTypes
  <2>2. m \in 1 .. Len(mine) /\ i + Limit <= m /\ m + Limit <= j
    BY <1>1, <2>1
  <2>3. mine[m].from >= mine[i].from + Window /\ mine[j].from >= mine[m].from + Window
    BY <2>0, <2>1, <2>2 DEF Fits
  <2>4. mine[i].at < mine[i].from + Window /\ mine[j].from <= mine[j].at
    BY <2>0, <2>1 DEF Fits
  <2>5. /\ mine[i].at \in Nat /\ mine[i].from \in Nat /\ mine[m].from \in Nat
        /\ mine[j].at \in Nat /\ mine[j].from \in Nat /\ Window \in Nat
    BY <2>1, <2>2
  <2> HIDE DEF mine, m
  <2>6. mine[j].at >= mine[i].at + Window
    BY <2>3, <2>4, <2>5
  <2> QED
    BY <2>6 DEF mine
<1>2. ASSUME refused # Absent
      PROVE  /\ Len(permits[refused]) >= Limit
             /\ now < permits[refused][Len(permits[refused]) - Limit + 1].at + Window
  <2> DEFINE mine == permits[refused]
             i == Len(mine) - Limit + 1
  <2>1. refused \in Keys
    BY <1>0, <1>2 DEF LimiterTypeOK
  <2>2. Counted(refused) = Limit /\ Opened(refused) = attempts[refused].start
    BY <1>0, <1>2, <2>1, LimiterTypes DEF LimiterInv, Refusal, Counted, Opened
  <2>3. mine \in Seq(Permit) /\ Fits(mine, Limit, attempts[refused].start, now)
    BY <1>0, <2>1, <2>2, LimiterTypes DEF LimiterInv, Windows
  <2>4. /\ Len(mine) \in Nat /\ Limit \in Nat \ {0} /\ Window \in Nat \ {0}
        /\ \A h \in 1 .. Len(mine) : mine[h].at \in Nat /\ mine[h].from \in Nat
    BY <2>3, PermitTypes
  <2>5. Len(mine) >= Limit
    BY <2>3, <2>4 DEF Fits
  <2>6. i \in 1 .. Len(mine) /\ i > Len(mine) - Limit
    BY <2>4, <2>5
  <2>7. mine[i].from = attempts[refused].start /\ mine[i].from <= mine[i].at
    BY <2>3, <2>6 DEF Fits
  <2>8. now < attempts[refused].start + Window
    BY <1>0, <1>2, <2>1, LimiterTypes DEF LimiterInv, Refusal, Over
  <2>9. mine[i].at \in Nat /\ mine[i].from \in Nat /\ now \in Nat
    BY <1>0, <2>1, <2>4, <2>6, LimiterTypes
  <2> HIDE DEF mine, i
  <2>10. now < mine[i].at + Window
    BY <2>4, <2>7, <2>8, <2>9
  <2> QED
    BY <2>5, <2>10 DEF mine, i
<1> QED
  BY <1>1, <1>2 DEF LimitExact, Budget, RefusedForCause

\* Without a successful login no key gets more than twice Limit attempts in any
\* stretch of a window's length, and nobody is refused who has not had Limit of
\* them less than a window ago, whatever limit, window and keys (allow, reset).
THEOREM LimitKept == LimiterSpec => []LimitExact
BY LimiterAlways, WindowsLimit, PTL
-----------------------------------------------------------------------------
(* The status of devices: what the table has and what the pages hear. *)

Row == [listed : BOOLEAN, online : BOOLEAN]
Verdicts == UNION {[known -> BOOLEAN] : known \in SUBSET Peers}

PresenceTypes ==
  /\ up \subseteq Peers
  /\ devices \in [Peers -> Row \cup {Missing}]
  /\ onlineState \in Verdicts /\ verdict \in Verdicts
  /\ round \in [Loops -> [pc : {"rest", "computed", "judged"}, online : Verdicts]]
  /\ unwritten \subseteq Peers
  /\ lastStatus \in (SUBSET Peers) \cup {Missing} /\ heard \in (SUBSET Peers) \cup {Missing}
  /\ channel \in Seq(SUBSET Peers) \cup {Missing}

\* The backend remembers what the last round said, of the peers it has seen since
\* it started; a peer without a row still has to have its status written.
Remembered ==
  /\ \A p \in DOMAIN onlineState : p \in DOMAIN verdict /\ onlineState[p] = verdict[p]
  /\ \A p \in DOMAIN verdict \ unwritten :
       devices[p] # Missing /\ devices[p].online = verdict[p]

\* The last event under way to a page is the status of the moment, or the page has
\* read it.
Heard ==
  channel # Missing /\ ~dropped =>
    IF channel = <<>> THEN heard = lastStatus ELSE channel[Len(channel)] = lastStatus

PresenceInv == PresenceTypes /\ Remembered /\ Heard

LEMMA VerdictsIn ==
  ASSUME NEW f \in Verdicts
  PROVE  /\ f = [p \in DOMAIN f |-> f[p]] /\ DOMAIN f \subseteq Peers
         /\ \A p \in DOMAIN f : f[p] \in BOOLEAN
BY DEF Verdicts

LEMMA InVerdicts ==
  ASSUME NEW known \in SUBSET Peers, NEW f \in [known -> BOOLEAN]
  PROVE  f \in Verdicts /\ DOMAIN f = known
BY DEF Verdicts

LEMMA NothingSeen == <<>> \in Verdicts /\ DOMAIN <<>> = {}
<1>1. <<>> \in [{} -> BOOLEAN]
  OBVIOUS
<1> QED
  BY <1>1, InVerdicts

\* A round laid over what was known.
LEMMA OverlaidIs ==
  ASSUME NEW f \in Verdicts, NEW g \in Verdicts
  PROVE  /\ Overlaid(f, g) \in Verdicts
         /\ DOMAIN Overlaid(f, g) = DOMAIN f \cup DOMAIN g
         /\ \A p \in DOMAIN f : Overlaid(f, g)[p] = f[p]
         /\ \A p \in DOMAIN g \ DOMAIN f : Overlaid(f, g)[p] = g[p]
<1>1. Overlaid(f, g) = [p \in DOMAIN f \cup DOMAIN g |-> IF p \in DOMAIN f THEN f[p] ELSE g[p]]
  BY DEF Overlaid
<1>2. Overlaid(f, g) \in [DOMAIN f \cup DOMAIN g -> BOOLEAN]
  BY <1>1, VerdictsIn
<1>3. DOMAIN f \cup DOMAIN g \in SUBSET Peers
  BY VerdictsIn
<1> QED
  BY <1>1, <1>2, <1>3, InVerdicts

LEMMA PresenceInvInit == PresenceInit => PresenceInv
<1> SUFFICES ASSUME PresenceInit PROVE PresenceInv
    OBVIOUS
<1>1. Resting \in [pc : {"rest", "computed", "judged"}, online : Verdicts]
  BY NothingSeen DEF Resting
<1>2. PresenceTypes
  BY <1>1, NothingSeen DEF PresenceInit, PresenceTypes, Row
<1>3. Remembered /\ Heard
  BY NothingSeen DEF PresenceInit, Remembered, Heard
<1> QED
  BY <1>2, <1>3 DEF PresenceInv

\* A round that is under way, whatever it is to find.
LEMMA RoundTypes ==
  ASSUME PresenceTypes, NEW w \in Loops, NEW pc \in {"computed", "judged"}, NEW online \in Verdicts,
         round' = [round EXCEPT ![w] = [pc |-> pc, online |-> online]]
  PROVE  round' \in [Loops -> [pc : {"rest", "computed", "judged"}, online : Verdicts]]
BY DEF PresenceTypes

LEMMA ComputedTypes ==
  ASSUME PresenceTypes, NEW w \in Loops, NEW known \in SUBSET Peers, ComputeOnline(w, known)
  PROVE  round' \in [Loops -> [pc : {"rest", "computed", "judged"}, online : Verdicts]]
<1>1. PICK here \in SUBSET known :
        round' = [round EXCEPT ![w] =
         [pc |-> "computed", online |-> [p \in known |-> p \in here \/ age[p] < Grace]]]
  BY DEF ComputeOnline
<1>2. [p \in known |-> p \in here \/ age[p] < Grace] \in [known -> BOOLEAN]
  OBVIOUS
<1> QED
  BY <1>1, <1>2, InVerdicts, RoundTypes

\* Nothing of the table, of what was said of a peer, or of the stream changes.
LEMMA PresenceKept ==
  ASSUME PresenceInv, UNCHANGED <<devices, stream, onlineState, verdict, unwritten>>
  PROVE  Remembered' /\ Heard'
BY DEF PresenceInv, Remembered, Heard, stream

LEMMA DiscoverKeeps == ASSUME PresenceInv, Discover PROVE PresenceInv'
<1>1. round' \in [Loops -> [pc : {"rest", "computed", "judged"}, online : Verdicts]]
  BY ComputedTypes DEF Discover, PresenceInv, Loops
<1>2. PICK lost \in SUBSET {p \in Peers : devices[p] = Missing} :
        devices' = [p \in Peers |-> IF devices[p] = Missing /\ p \notin lost
                                      THEN [listed |-> TRUE, online |-> FALSE]
                                      ELSE devices[p]]
  BY DEF Discover
<1>3. devices' \in [Peers -> Row \cup {Missing}]
  BY <1>2 DEF PresenceInv, PresenceTypes, Row
<1>4. \A p \in DOMAIN verdict \ unwritten : devices'[p] = devices[p]
  <2> TAKE p \in DOMAIN verdict \ unwritten
  <2>1. p \in Peers /\ devices[p] # Missing
    BY VerdictsIn DEF PresenceInv, PresenceTypes, Remembered
  <2> QED
    BY <1>2, <2>1
<1> QED
  BY <1>1, <1>3, <1>4 DEF Discover, PresenceInv, PresenceTypes, Remembered, Heard, stream, written

LEMMA TickKeeps == ASSUME PresenceInv, TickStatus PROVE PresenceInv'
<1>1. round' \in [Loops -> [pc : {"rest", "computed", "judged"}, online : Verdicts]]
  <2>1. /\ {p \in Peers : devices[p] # Missing /\ devices[p].listed} \in SUBSET Peers
        /\ {} \in SUBSET Peers /\ "watch" \in Loops
    BY DEF Loops
  <2> QED
    BY <2>1, ComputedTypes DEF TickStatus, PresenceInv
<1>2. Remembered' /\ Heard'
  BY PresenceKept DEF TickStatus, world, written
<1> QED
  BY <1>1, <1>2 DEF TickStatus, PresenceInv, PresenceTypes, world, stream, written

LEMMA JudgeKeeps == ASSUME PresenceInv, NEW w \in Loops, Judge(w) PROVE PresenceInv'
<1>1. round' \in [Loops -> [pc : {"rest", "computed", "judged"}, online : Verdicts]]
  <2>1. round[w].online \in Verdicts /\ DOMAIN round[w].online \subseteq Peers
    BY VerdictsIn DEF PresenceInv, PresenceTypes
  <2>2. HbbsAnswer(w) \in Verdicts
    <3>1. HbbsAnswer(w) \in [DOMAIN round[w].online -> BOOLEAN]
      BY DEF HbbsAnswer
    <3> QED
      BY <2>1, <3>1, InVerdicts
  <2>3. CASE round' = [round EXCEPT ![w] = [pc |-> "judged", online |-> HbbsAnswer(w)]]
    BY <2>2, <2>3, RoundTypes DEF PresenceInv
  <2>4. CASE round' = [round EXCEPT ![w].pc = "judged"]
    BY <2>4 DEF PresenceInv, PresenceTypes
  <2> QED
    BY <2>3, <2>4 DEF Judge
<1>2. Remembered' /\ Heard'
  BY PresenceKept DEF Judge, world, written
<1> QED
  BY <1>1, <1>2 DEF Judge, PresenceInv, PresenceTypes, world, stream, written

\* An event for every status that is not the last one.
LEMMA PublishKeeps ==
  ASSUME PresenceInv, NEW ids \in SUBSET Peers, PublishStatus(ids)
  PROVE  /\ lastStatus' \in (SUBSET Peers) \cup {Missing} /\ heard' \in (SUBSET Peers) \cup {Missing}
         /\ channel' \in Seq(SUBSET Peers) \cup {Missing}
         /\ Heard'
<1>1. lastStatus' = ids /\ heard' = heard
  BY DEF PublishStatus
<1>2. CASE lastStatus = ids \/ channel = Missing
  BY <1>1, <1>2 DEF PublishStatus, PresenceInv, PresenceTypes, Heard
<1>3. CASE channel # Missing /\ channel' = Append(channel, ids) /\ UNCHANGED dropped
  <2>1. channel \in Seq(SUBSET Peers)
    BY <1>3 DEF PresenceInv, PresenceTypes
  <2>2. channel' \in Seq(SUBSET Peers) /\ channel'[Len(channel')] = ids /\ channel' # <<>>
    BY <1>3, <2>1, AppendProperties
  <2> QED
    BY <1>1, <2>2 DEF Heard, PresenceInv, PresenceTypes
<1>4. CASE dropped' = TRUE /\ UNCHANGED channel
  BY <1>1, <1>4 DEF Heard, PresenceInv, PresenceTypes
<1> QED
  BY <1>2, <1>3, <1>4 DEF PublishStatus

\* A round is applied: what it found different is written or still to be, and of
\* the others the table said so already.
LEMMA ApplyKeeps == ASSUME PresenceInv, NEW w \in Loops, ApplyStatus(w) PROVE PresenceInv'
<1> DEFINE online == round[w].online
           rows == {p \in Changed(online) : devices[p] # Missing}
<1>0. online \in Verdicts /\ DOMAIN online \subseteq Peers
      /\ \A p \in DOMAIN online : online[p] \in BOOLEAN
  BY VerdictsIn DEF PresenceInv, PresenceTypes
<1>1. PICK stored \in SUBSET rows :
        /\ WriteStatus(online, stored)
        /\ unwritten' = (unwritten \cup Changed(online)) \ stored
  <2>1. PICK failed \in SUBSET rows :
           /\ WriteStatus(online, rows \ failed)
           /\ unwritten' = (unwritten \cup Changed(online)) \ (rows \ failed)
    BY DEF ApplyStatus
  <2> QED
    BY <2>1
<1>2. /\ onlineState' = Overlaid(online, onlineState) /\ verdict' = Overlaid(online, verdict)
      /\ PublishStatus({p \in DOMAIN online : online[p]})
      /\ round' = [round EXCEPT ![w] = Resting]
      /\ up' = up
  BY DEF ApplyStatus
<1>3. Changed(online) \subseteq DOMAIN online /\ rows \subseteq Changed(online)
  BY DEF Changed
<1>4. \A p \in stored : p \in Peers /\ devices[p] \in Row /\ devices[p] # Missing
  BY <1>0, <1>3 DEF PresenceInv, PresenceTypes
<1>5. \A p \in stored : /\ devices'[p] \in Row /\ devices'[p] # Missing
                        /\ devices'[p].online = online[p]
  <2> TAKE p \in stored
  <2> DEFINE row == [listed |-> devices[p].listed \/ online[p], online |-> online[p]]
  <2>1. devices'[p] = row
    BY <1>1, <1>4 DEF WriteStatus
  <2>2. online[p] \in BOOLEAN
    BY <1>0, <1>3
  <2>3. row \in Row /\ row.online = online[p]
    BY <2>2 DEF Row
  <2> QED
    BY <2>1, <2>3, MissingAssumption DEF Row
<1>6. \A p \in Peers \ stored : devices'[p] = devices[p]
  BY <1>1 DEF WriteStatus
<1>7. devices' \in [Peers -> Row \cup {Missing}]
  <2>1. devices' = [p \in Peers |-> devices'[p]]
    BY <1>1 DEF WriteStatus
  <2> QED
    BY <1>5, <1>6, <2>1 DEF PresenceInv, PresenceTypes
<1>8. PresenceTypes' /\ Heard'
  <2>1. {p \in DOMAIN online : online[p]} \in SUBSET Peers
    BY <1>0
  <2>2. Resting \in [pc : {"rest", "computed", "judged"}, online : Verdicts]
    BY NothingSeen DEF Resting
  <2>3. round' \in [Loops -> [pc : {"rest", "computed", "judged"}, online : Verdicts]]
    BY <1>2, <2>2 DEF PresenceInv, PresenceTypes
  <2>4. onlineState' \in Verdicts /\ verdict' \in Verdicts
    BY <1>0, <1>2, OverlaidIs DEF PresenceInv, PresenceTypes
  <2>5. unwritten' \subseteq Peers
    BY <1>0, <1>1, <1>3 DEF PresenceInv, PresenceTypes
  <2>6. /\ lastStatus' \in (SUBSET Peers) \cup {Missing} /\ heard' \in (SUBSET Peers) \cup {Missing}
        /\ channel' \in Seq(SUBSET Peers) \cup {Missing}
        /\ Heard'
    BY <1>2, <2>1, PublishKeeps
  <2> QED
    BY <1>2, <1>7, <2>3, <2>4, <2>5, <2>6 DEF PresenceInv, PresenceTypes
<1>9. Remembered'
  <2>0. onlineState \in Verdicts /\ verdict \in Verdicts
    BY DEF PresenceInv, PresenceTypes
  <2>1. \A p \in DOMAIN onlineState : p \in DOMAIN verdict /\ onlineState[p] = verdict[p]
    BY DEF PresenceInv, Remembered
  <2>2. /\ DOMAIN onlineState' = DOMAIN online \cup DOMAIN onlineState
        /\ DOMAIN verdict' = DOMAIN online \cup DOMAIN verdict
        /\ \A p \in DOMAIN online : onlineState'[p] = online[p] /\ verdict'[p] = online[p]
        /\ \A p \in DOMAIN onlineState \ DOMAIN online : onlineState'[p] = onlineState[p]
        /\ \A p \in DOMAIN verdict \ DOMAIN online : verdict'[p] = verdict[p]
    BY <1>0, <1>2, <2>0, OverlaidIs
  <2>3. \A p \in DOMAIN onlineState' : p \in DOMAIN verdict' /\ onlineState'[p] = verdict'[p]
    BY <2>1, <2>2
  <2>4. ASSUME NEW p \in DOMAIN verdict' \ unwritten'
        PROVE  devices'[p] # Missing /\ devices'[p].online = verdict'[p]
    <3>1. CASE p \in stored
      BY <1>3, <1>5, <2>2, <3>1
    <3>2. CASE p \notin stored
      <4>1. p \notin unwritten /\ p \notin Changed(online)
        BY <1>1, <2>4, <3>2
      <4>2. p \in DOMAIN verdict /\ verdict'[p] = verdict[p]
        <5>1. CASE p \in DOMAIN online
          BY <2>1, <2>2, <4>1, <5>1 DEF Changed
        <5>2. CASE p \notin DOMAIN online
          BY <2>2, <2>4, <5>2
        <5> QED
          BY <5>1, <5>2
      <4>3. p \in Peers /\ devices'[p] = devices[p]
        BY <1>6, <2>0, <3>2, <4>2, VerdictsIn
      <4> QED
        BY <4>1, <4>2, <4>3 DEF PresenceInv, Remembered
    <3> QED
      BY <3>1, <3>2
  <2> QED
    BY <2>3, <2>4 DEF Remembered
<1> QED
  BY <1>8, <1>9 DEF PresenceInv

LEMMA DeleteKeeps == ASSUME PresenceInv, NEW p \in Peers, DeleteDevice(p) PROVE PresenceInv'
<1> DEFINE row == [devices[p] EXCEPT !.listed = FALSE]
<1>1. devices[p] \in Row /\ devices' = [devices EXCEPT ![p] = row]
  BY DEF DeleteDevice, PresenceInv, PresenceTypes
<1>2. row \in Row /\ row.online = devices[p].online /\ row # Missing
  <2>1. row \in Row /\ row.online = devices[p].online
    BY <1>1 DEF Row
  <2> QED
    BY <2>1, MissingAssumption DEF Row
<1> HIDE DEF row
<1>3. /\ devices' \in [Peers -> Row \cup {Missing}]
      /\ \A q \in Peers : devices[q] # Missing =>
           devices'[q] # Missing /\ devices'[q].online = devices[q].online
  BY <1>1, <1>2 DEF PresenceInv, PresenceTypes
<1>4. \A q \in DOMAIN verdict \ unwritten :
         devices'[q] # Missing /\ devices'[q].online = verdict[q]
  BY <1>3, VerdictsIn DEF PresenceInv, PresenceTypes, Remembered
<1> QED
  BY <1>3, <1>4 DEF DeleteDevice, PresenceInv, PresenceTypes, Remembered, Heard, stream, written

LEMMA StreamKeeps ==
  ASSUME PresenceInv, Subscribe \/ SendEvent \/ Unsubscribe
  PROVE  PresenceInv'
<1>1. UNCHANGED <<up, snapshot, devices, round, onlineState, verdict, unwritten, lastStatus>>
  BY DEF Subscribe, SendEvent, Unsubscribe, world, written
<1>2. PresenceTypes' /\ Heard'
  <2>1. CASE Subscribe
    <3>1. CASE lastStatus = Missing
      BY <1>1, <2>1, <3>1 DEF Subscribe, PresenceInv, PresenceTypes, Heard
    <3>2. CASE lastStatus # Missing
      <4>1. channel' = <<lastStatus>> /\ lastStatus \in SUBSET Peers
        BY <2>1, <3>2 DEF Subscribe, PresenceInv, PresenceTypes
      <4>2. /\ channel' \in Seq(SUBSET Peers) /\ channel' # <<>> /\ Len(channel') = 1
            /\ channel'[1] = lastStatus
        BY <4>1
      <4> QED
        BY <1>1, <2>1, <4>2 DEF Subscribe, PresenceInv, PresenceTypes, Heard
    <3> QED
      BY <3>1, <3>2
  <2>2. CASE SendEvent
    <3>1. /\ channel \in Seq(SUBSET Peers) /\ channel # <<>>
          /\ heard' = Head(channel) /\ channel' = Tail(channel) /\ dropped' = dropped
      BY <2>2 DEF SendEvent, PresenceInv, PresenceTypes
    <3>2. /\ heard' \in SUBSET Peers /\ channel' \in Seq(SUBSET Peers)
          /\ Len(channel) \in Nat \ {0} /\ Len(channel') = Len(channel) - 1
          /\ heard' = channel[1]
          /\ \A i \in 1 .. Len(channel') : channel'[i] = channel[i + 1]
      BY <3>1, HeadTailProperties, LenProperties
    <3>3. channel # Missing
      BY <3>1, MissingAssumption
    <3>4. channel' = <<>> => Len(channel) = 1
      BY <3>2
    <3>5. channel' # <<>> => channel'[Len(channel')] = channel[Len(channel)]
      BY <3>2, EmptySeq
    <3>6. Heard'
      BY <1>1, <3>1, <3>2, <3>3, <3>4, <3>5 DEF PresenceInv, Heard
    <3> QED
      BY <1>1, <3>2, <3>6 DEF PresenceInv, PresenceTypes
  <2>3. CASE Unsubscribe
    BY <1>1, <2>3 DEF Unsubscribe, PresenceInv, PresenceTypes, Heard
  <2> QED
    BY <2>1, <2>2, <2>3
<1>3. Remembered'
  BY <1>1 DEF PresenceInv, Remembered
<1> QED
  BY <1>2, <1>3 DEF PresenceInv

LEMMA RestartKeeps == ASSUME PresenceInv, BackendRestarts PROVE PresenceInv'
<1>1. Resting \in [pc : {"rest", "computed", "judged"}, online : Verdicts]
  BY NothingSeen DEF Resting
<1>2. PresenceTypes'
  BY <1>1, NothingSeen DEF BackendRestarts, PresenceInv, PresenceTypes, world
<1>3. Remembered' /\ Heard'
  BY NothingSeen DEF BackendRestarts, PresenceInv, Remembered, Heard, world
<1> QED
  BY <1>2, <1>3 DEF PresenceInv

LEMMA PresenceInvNext == PresenceInv /\ [PresenceNext]_presenceVars => PresenceInv'
<1> SUFFICES ASSUME PresenceInv, [PresenceNext]_presenceVars PROVE PresenceInv'
    OBVIOUS
<1>1. ASSUME UNCHANGED <<devices, round, stream, written>>, up' \subseteq Peers PROVE PresenceInv'
  BY <1>1, PresenceKept DEF PresenceInv, PresenceTypes, stream, written
<1>2. ASSUME NEW p \in Peers, ComesAndGoes(p) PROVE PresenceInv'
  BY <1>1, <1>2 DEF ComesAndGoes, PresenceInv, PresenceTypes
<1>3. CASE SampleSockets \/ TimePasses \/ UNCHANGED presenceVars
  BY <1>1, <1>3
     DEF SampleSockets, TimePasses, presenceVars, PresenceInv, PresenceTypes, world, stream, written
<1> QED
  BY <1>2, <1>3, DiscoverKeeps, TickKeeps, JudgeKeeps, ApplyKeeps, DeleteKeeps, StreamKeeps,
     RestartKeeps DEF PresenceNext

\* The table has of every device what the last round that looked at it found,
\* across restarts and whichever of the two loops it was, unless that could not be
\* written; and a page that was not too slow has heard the status of the moment once
\* it has read its events (applyStatus, publishStatus, subscribe).
THEOREM StatusReachesAll == PresenceSpec => []StatusFollows
<1>1. PresenceInv => StatusFollows
  <2>1. PresenceInv => TableFollows
    BY DEF PresenceInv, Remembered, TableFollows
  <2>2. PresenceInv => PageKnows
    <3>1. <<>> # Missing
      <4>1. <<>> \in Seq(SUBSET Peers)
        OBVIOUS
      <4> QED
        BY <4>1, MissingAssumption
    <3> QED
      BY <3>1 DEF PresenceInv, Heard, PageKnows
  <2> QED
    BY <2>1, <2>2 DEF StatusFollows
<1> QED
  BY <1>1, PresenceInvInit, PresenceInvNext, PTL DEF PresenceSpec
=============================================================================
