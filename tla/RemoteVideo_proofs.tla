-------------------------- MODULE RemoteVideo_proofs ------------------------
(***************************************************************************)
(* Proofs about a connected session, whatever the relay carries and the    *)
(* user does: the two sides of SecureChannel read one another, the stream  *)
(* of RemoteVideo can be decoded and the user is warned of a codec last,   *)
(* the display of DisplaySwitch is live, the options of StreamOptions are  *)
(* the host's, and SessionVitals acts on lasting measurements only.        *)
(***************************************************************************)
EXTENDS RemoteVideo, DisplaySwitch, StreamOptions, SessionVitals, SecureChannel,
        SequenceTheorems, WellFoundedInduction, TLAPS

Whats == {"data", "login", "hash", "key", "empty key"}
Messages == [what : Whats, number : Nat]

\* The channel of a session object, and its host
Lines == [open : BOOLEAN, firstFrameBuf : Seq({"head", "tail", "junk"}),
          relaySessionStarted : BOOLEAN, symmetricKey : BOOLEAN,
          sendSeq : Nat, recvSeq : Nat, hashing : BOOLEAN]

Peers == [key : {"awaited", "shared", "none"}, sent : Nat, read : Nat]

\* Type correctness
TypeOK ==
  /\ greeting \in Firsts
  /\ flight \in Seq({"head", "tail", "junk"})
  /\ line \in Lines
  /\ peer \in Peers
  /\ toPeer \in Seq(Messages) /\ toUs \in Seq(Messages)
  /\ misread \in BOOLEAN /\ strayed \in BOOLEAN /\ deaf \in BOOLEAN

\* Without bytes too many the first flight is what has come and what has yet to come.
FlightInv ==
  ~strayed => IF line.relaySessionStarted THEN flight = <<>>
              ELSE Len(line.firstFrameBuf) + Len(flight) = 2

\* Who has a key, and who can still come to have one.
KeyInv ==
  /\ line.symmetricKey <=> line.relaySessionStarted /\ HasIdPk(greeting)
  /\ ~line.symmetricKey => line.sendSeq = 0
  /\ HasIdPk(greeting) => peer.key # "none"
  /\ peer.key = "awaited" => peer.read = 0
  /\ peer.key = "shared" => line.symmetricKey

\* What is on its way to the host: before the key plain text, then numbers in a row.
IsKey(m) == m.what \in {"key", "empty key"}
Unsealed(g, m) ==
  m.number = 0 /\ m.what # "key" /\ (HasIdPk(g) => m.what # "empty key")
Sealed(s, from, n) == \A i \in 1..Len(s) : i >= from => s[i].number = n + (i - from)
ToPeerInv ==
  /\ peer.key = "shared" =>
       line.sendSeq = peer.read + Len(toPeer) /\ Sealed(toPeer, 1, peer.read + 1)
  /\ peer.key = "awaited" /\ line.symmetricKey =>
       \E k \in 1..Len(toPeer) :
         /\ toPeer[k].number = 0 /\ toPeer[k].what = "key"
         /\ \A i \in 1..Len(toPeer) :
              i < k => toPeer[i].number = 0 /\ ~IsKey(toPeer[i])
         /\ Sealed(toPeer, k + 1, 1)
         /\ line.sendSeq = Len(toPeer) - k
  /\ ~line.symmetricKey =>
       \A i \in 1..Len(toPeer) : Unsealed(greeting, toPeer[i])

\* What is on its way to the session.
InStep(p) ==
  /\ p.key = "shared" /\ ~strayed =>
       p.sent = line.recvSeq + Len(toUs) /\ Sealed(toUs, 1, line.recvSeq + 1)
  /\ p.key = "none" => \A i \in 1..Len(toUs) : toUs[i].number = 0
ToUsInv ==
  /\ InStep(peer)
  /\ peer.key = "awaited" => toUs = <<>> /\ peer.sent = 0 /\ (~strayed => line.recvSeq = 0)

ChannelInv == FlightInv /\ KeyInv /\ ToPeerInv /\ ToUsInv

\* The inductive invariant
IInv ==
  /\ TypeOK
  /\ line.open => ChannelInv
  /\ ~line.open => toPeer = <<>> /\ toUs = <<>>
  /\ UnderstandEachOther

-----------------------------------------------------------------------------
(* Sequences. *)

LEMMA AppendFacts ==
  ASSUME NEW S, NEW s \in Seq(S), NEW e \in S
  PROVE  /\ Append(s, e) \in Seq(S) /\ Len(Append(s, e)) = Len(s) + 1 /\ Len(s) \in Nat
         /\ DOMAIN Append(s, e) = 1..(Len(s) + 1) /\ DOMAIN s = 1..Len(s)
         /\ \A i \in 1..Len(s) : Append(s, e)[i] = s[i]
         /\ Append(s, e)[Len(s) + 1] = e
  OBVIOUS

LEMMA TailFacts ==
  ASSUME NEW S, NEW s \in Seq(S), s # <<>>
  PROVE  /\ Tail(s) \in Seq(S) /\ Len(Tail(s)) = Len(s) - 1 /\ Len(s) \in Nat \ {0}
         /\ Head(s) = s[1] /\ Head(s) \in S
         /\ DOMAIN Tail(s) = 1..(Len(s) - 1) /\ DOMAIN s = 1..Len(s)
         /\ \A i \in 1..(Len(s) - 1) : Tail(s)[i] = s[i + 1]
  OBVIOUS

LEMMA CutFacts ==
  ASSUME NEW S, NEW s \in Seq(S), NEW b \in Seq(S), NEW n \in 1..Len(s)
  PROVE  /\ b \o SubSeq(s, 1, n) \in Seq(S) /\ SubSeq(s, n + 1, Len(s)) \in Seq(S)
         /\ Len(b \o SubSeq(s, 1, n)) = Len(b) + n
         /\ Len(SubSeq(s, n + 1, Len(s))) = Len(s) - n
         /\ Len(s) \in Nat /\ Len(b) \in Nat
  <1>0. Len(s) \in Nat /\ n \in Int /\ \A i \in 1..Len(s) : s[i] \in S
    OBVIOUS
  <1>1. SubSeq(s, 1, n) \in Seq(S) /\ Len(SubSeq(s, 1, n)) = n
    <2>1. \A i \in 1..n : s[i] \in S
      BY <1>0
    <2> QED
      BY <1>0, <2>1, SubSeqProperties
  <1>2. SubSeq(s, n + 1, Len(s)) \in Seq(S) /\ Len(SubSeq(s, n + 1, Len(s))) = Len(s) - n
    <2>1. \A i \in (n + 1)..Len(s) : s[i] \in S
      BY <1>0
    <2> QED
      BY <1>0, <2>1, SubSeqProperties
  <1> QED
    BY <1>0, <1>1, <1>2, ConcatProperties

-----------------------------------------------------------------------------
(* One lemma per action, or for the actions that have a helper in common. *)

\* Both what the session says and the login that follows the hash.
LEMMA SendKeeps ==
  ASSUME IInv, NEW what \in {"data", "login"}, NEW b \in BOOLEAN,
         SendRelayMessage([line EXCEPT !.hashing = b], what),
         UNCHANGED <<greeting, flight, peer, toUs, misread, strayed, deaf>>
  PROVE  IInv'
  <1> DEFINE number == IF line.symmetricKey THEN line.sendSeq + 1 ELSE 0
             m == [what |-> what, number |-> number]
  <1>1. /\ line' = [line EXCEPT !.hashing = b,
                                !.sendSeq = IF line.symmetricKey THEN @ + 1 ELSE @]
        /\ toPeer' = IF line.open THEN Append(toPeer, m) ELSE toPeer
    BY DEF SendRelayMessage, SendRaw, IInv, TypeOK, Peers, Lines, Plain
  <1>2. m \in Messages /\ m.number = number /\ m.what = what
    <2>1. line.sendSeq \in Nat
      BY DEF IInv, TypeOK, Peers, Lines
    <2>2. number \in Nat
      BY <2>1
    <2>3. what \in Whats
      BY DEF Whats
    <2> HIDE DEF number
    <2> QED
      BY <2>2, <2>3 DEF Messages
  <1> HIDE DEF m
  <1>3. TypeOK'
    <2>1. toPeer' \in Seq(Messages)
      BY <1>1, <1>2, AppendFacts DEF IInv, TypeOK, Peers
    <2>2. TypeOK
      BY DEF IInv
    <2>3. line \in Lines
      BY DEF IInv, TypeOK, Peers
    <2>4. line' \in Lines
      <3> DEFINE n == IF line.symmetricKey THEN line.sendSeq + 1 ELSE line.sendSeq
      <3>1. line.sendSeq \in Nat
        BY <2>3 DEF Lines
      <3>2. n \in Nat
        BY <3>1
      <3>3. line' = [line EXCEPT !.hashing = b, !.sendSeq = n]
        BY <1>1, <2>3 DEF Lines
      <3> HIDE DEF n
      <3> QED
        BY <2>3, <3>2, <3>3 DEF Lines
    <2> QED
      BY <2>1, <2>2, <2>4 DEF TypeOK, Peers
  <1>4. line.open => ChannelInv'
    <2> SUFFICES ASSUME line.open PROVE ChannelInv'
      OBVIOUS
    <2>1. ChannelInv /\ TypeOK
      BY DEF IInv
    <2>2. /\ line'.symmetricKey = line.symmetricKey
          /\ line'.relaySessionStarted = line.relaySessionStarted
          /\ line'.firstFrameBuf = line.firstFrameBuf
          /\ line'.recvSeq = line.recvSeq
          /\ line'.sendSeq = IF line.symmetricKey THEN line.sendSeq + 1 ELSE line.sendSeq
      BY <1>1, <2>1 DEF TypeOK, Peers, Lines
    <2>3. FlightInv' /\ KeyInv'
      BY <2>1, <2>2 DEF ChannelInv, FlightInv, KeyInv, HasIdPk
    <2>4. ToUsInv'
      BY <2>1, <2>2 DEF ChannelInv, ToUsInv, InStep, Sealed
    <2>5. ToPeerInv'
      <3>1. /\ toPeer \in Seq(Messages) /\ toPeer' = Append(toPeer, m)
            /\ Len(toPeer') = Len(toPeer) + 1 /\ Len(toPeer) \in Nat
            /\ \A i \in 1..Len(toPeer) : toPeer'[i] = toPeer[i]
            /\ toPeer'[Len(toPeer) + 1] = m
        BY <1>1, <1>2, <2>1, AppendFacts DEF TypeOK, Peers
      <3>2. line.sendSeq \in Nat /\ peer.read \in Nat /\ peer.key \in {"awaited", "shared", "none"}
        BY <2>1 DEF TypeOK, Peers, Lines
      <3>3. ASSUME peer.key = "shared"
            PROVE  line'.sendSeq = peer.read + Len(toPeer') /\ Sealed(toPeer', 1, peer.read + 1)
        <4>1. line.symmetricKey
          BY <2>1, <3>3 DEF ChannelInv, KeyInv
        <4>2. line.sendSeq = peer.read + Len(toPeer)
          BY <2>1, <3>3 DEF ChannelInv, ToPeerInv
        <4>3. m.number = line.sendSeq + 1 /\ line'.sendSeq = line.sendSeq + 1
          BY <1>2, <2>2, <4>1
        <4>4. Sealed(toPeer, 1, peer.read + 1)
          BY <2>1, <3>3 DEF ChannelInv, ToPeerInv
        <4>5. line'.sendSeq = peer.read + Len(toPeer')
          BY <3>1, <3>2, <4>2, <4>3
        <4>6. Sealed(toPeer', 1, peer.read + 1)
          BY <3>1, <3>2, <4>2, <4>3, <4>4 DEF Sealed
        <4> QED
          BY <4>5, <4>6
      <3>4. ASSUME peer.key = "awaited", line.symmetricKey
            PROVE  \E k \in 1..Len(toPeer') :
                     /\ toPeer'[k].number = 0 /\ toPeer'[k].what = "key"
                     /\ \A i \in 1..Len(toPeer') :
                          i < k => toPeer'[i].number = 0
                                   /\ ~IsKey(toPeer'[i])
                     /\ Sealed(toPeer', k + 1, 1)
                     /\ line'.sendSeq = Len(toPeer') - k
        <4>1. PICK k \in 1..Len(toPeer) :
                /\ toPeer[k].number = 0 /\ toPeer[k].what = "key"
                /\ \A i \in 1..Len(toPeer) :
                     i < k => toPeer[i].number = 0 /\ ~IsKey(toPeer[i])
                /\ Sealed(toPeer, k + 1, 1)
                /\ line.sendSeq = Len(toPeer) - k
          BY <2>1, <3>4 DEF ChannelInv, ToPeerInv
        <4>2. m.number = line.sendSeq + 1 /\ line'.sendSeq = line.sendSeq + 1
          BY <1>2, <2>2, <3>4
        <4>3. Sealed(toPeer', k + 1, 1)
          BY SMTT(30), <3>1, <3>2, <4>1, <4>2 DEF Sealed
        <4>4. /\ k \in 1..Len(toPeer')
              /\ toPeer'[k].number = 0 /\ toPeer'[k].what = "key"
              /\ \A i \in 1..Len(toPeer') :
                   i < k => toPeer'[i].number = 0 /\ ~IsKey(toPeer'[i])
          BY <3>1, <4>1
        <4>5. line'.sendSeq = Len(toPeer') - k
          BY <3>1, <3>2, <4>1, <4>2
        <4> QED
          BY <4>3, <4>4, <4>5
      <3>5. ASSUME ~line.symmetricKey
            PROVE  \A i \in 1..Len(toPeer') : Unsealed(greeting, toPeer'[i])
        <4>1. \A i \in 1..Len(toPeer) : Unsealed(greeting, toPeer[i])
          BY <2>1, <3>5 DEF ChannelInv, ToPeerInv
        <4>2. m.number = 0
          BY <1>2, <3>5
        <4>3. Unsealed(greeting, m)
          BY <1>2, <4>2 DEF Unsealed
        <4> QED
          BY <3>1, <4>1, <4>3
      <3>6. peer' = peer /\ greeting' = greeting
        OBVIOUS
      <3> QED
        BY <2>2, <3>3, <3>4, <3>5, <3>6 DEF ToPeerInv, HasIdPk
    <2> QED
      BY <2>3, <2>4, <2>5 DEF ChannelInv
  <1>5. line'.open = line.open
    BY <1>1 DEF IInv, TypeOK, Peers, Lines
  <1> QED
    BY <1>1, <1>3, <1>4, <1>5 DEF IInv, UnderstandEachOther


LEMMA StartedIsLine ==
  ASSUME line \in Lines
  PROVE  /\ Started \in Lines /\ Started.relaySessionStarted /\ Started.open = line.open
         /\ Started.symmetricKey = line.symmetricKey
         /\ Started.sendSeq = line.sendSeq /\ Started.recvSeq = line.recvSeq
  <1> DEFINE e == <<>>
  <1>1. Started = [line EXCEPT !.firstFrameBuf = e, !.relaySessionStarted = TRUE]
    BY DEF Started
  <1>2. e \in Seq({"head", "tail", "junk"})
    OBVIOUS
  <1> HIDE DEF e
  <1>3. Started \in Lines
    BY <1>1, <1>2 DEF Lines
  <1>4. Started.relaySessionStarted /\ Started.open = line.open
    BY <1>1 DEF Lines
  <1>5. Started.symmetricKey = line.symmetricKey
    BY <1>1 DEF Lines
  <1>6. Started.sendSeq = line.sendSeq /\ Started.recvSeq = line.recvSeq
    BY <1>1 DEF Lines
  <1> QED
    BY <1>3, <1>4, <1>5, <1>6

\* The signed id, the key that answers it, and a flight that is over.
LEMMA SignedIdKeeps ==
  ASSUME TypeOK, ChannelInv, line.open, UnderstandEachOther, ~line.relaySessionStarted,
         NEW stray \in BOOLEAN, stray => strayed, HandleSignedId(stray),
         flight' \in Seq({"head", "tail", "junk"}), strayed \/ flight' = <<>>,
         UNCHANGED <<greeting, peer, toUs, misread, strayed, deaf>>
  PROVE  IInv'
  <1> DEFINE m == [what |-> PublicKey(greeting), number |-> 0]
             n == IF stray THEN 1 ELSE 0
  <1>1. line \in Lines /\ ~line.symmetricKey /\ line.sendSeq = 0
    BY DEF ChannelInv, KeyInv, TypeOK, Peers
  <1>2. toPeer' = Append(toPeer, m)
    BY DEF HandleSignedId, SendRaw, Plain
  <1>3. m \in Messages /\ m.number = 0
    BY DEF Messages, Whats, PublicKey
  <1>4. HasIdPk(greeting) => m.what = "key"
    BY DEF PublicKey
  <1>5. ~HasIdPk(greeting) => m.what = "empty key"
    BY DEF PublicKey
  <1> HIDE DEF m
  <1>6. n \in Nat
    OBVIOUS
  <1>7. /\ line' \in Lines /\ line'.relaySessionStarted /\ line'.open /\ line'.sendSeq = 0
        /\ HasIdPk(greeting) => line'.symmetricKey /\ line'.recvSeq = n
        /\ ~HasIdPk(greeting) => ~line'.symmetricKey /\ line'.recvSeq = line.recvSeq
    <2>1. CASE HasIdPk(greeting)
      <3>1. line' = [Started EXCEPT !.symmetricKey = TRUE, !.sendSeq = 0, !.recvSeq = n]
        BY <2>1 DEF HandleSignedId
      <3> HIDE DEF n
      <3>2. Started \in Lines /\ Started.relaySessionStarted /\ Started.open
        BY <1>1, StartedIsLine
      <3>3. line' \in Lines
        BY <1>6, <3>1, <3>2 DEF Lines
      <3>4. line'.relaySessionStarted /\ line'.open /\ line'.symmetricKey
        BY <3>1, <3>2 DEF Lines
      <3>5. line'.sendSeq = 0 /\ line'.recvSeq = n
        BY <3>1, <3>2 DEF Lines
      <3> QED
        BY <2>1, <3>3, <3>4, <3>5
    <2>2. CASE ~HasIdPk(greeting)
      <3>1. line' = Started
        BY <2>2 DEF HandleSignedId
      <3> HIDE DEF n
      <3> QED
        BY <1>1, <2>2, <3>1, StartedIsLine
    <2> QED
      BY <2>1, <2>2
  <1>8. TypeOK'
    <2>1. toPeer' \in Seq(Messages)
      BY <1>2, <1>3, AppendFacts DEF TypeOK, Peers
    <2> QED
      BY <1>7, <2>1 DEF TypeOK, Peers
  <1>9. FlightInv'
    BY <1>7 DEF FlightInv
  <1>10. KeyInv'
    BY <1>1, <1>7 DEF ChannelInv, KeyInv, HasIdPk
  <1>11. peer.key # "shared"
    BY <1>1 DEF ChannelInv, KeyInv
  <1>12. ToUsInv'
    <2>1. peer.key = "awaited" /\ ~strayed => line'.recvSeq = 0
      BY <1>7 DEF ChannelInv, ToUsInv, InStep
    <2> QED
      BY <1>11, <2>1 DEF ChannelInv, ToUsInv, InStep
  <1>13. ToPeerInv'
    <2>1. /\ toPeer \in Seq(Messages) /\ Len(toPeer') = Len(toPeer) + 1 /\ Len(toPeer) \in Nat
          /\ \A i \in 1..Len(toPeer) : toPeer'[i] = toPeer[i]
          /\ toPeer'[Len(toPeer) + 1] = m
      <3>1. toPeer \in Seq(Messages)
        BY DEF TypeOK, Peers
      <3> QED
        BY <1>2, <1>3, <3>1, AppendFacts
    <2>2. \A i \in 1..Len(toPeer) : Unsealed(greeting, toPeer[i])
      BY <1>1 DEF ChannelInv, ToPeerInv
    <2>3. ASSUME HasIdPk(greeting)
          PROVE  \E k \in 1..Len(toPeer') :
                   /\ toPeer'[k].number = 0 /\ toPeer'[k].what = "key"
                   /\ \A i \in 1..Len(toPeer') :
                        i < k => toPeer'[i].number = 0 /\ ~IsKey(toPeer'[i])
                   /\ Sealed(toPeer', k + 1, 1)
                   /\ line'.sendSeq = Len(toPeer') - k
      <3> DEFINE k == Len(toPeer) + 1
      <3>1. k \in 1..Len(toPeer') /\ line'.sendSeq = Len(toPeer') - k
        BY <1>7, <2>1
      <3>2. toPeer'[k].number = 0 /\ toPeer'[k].what = "key"
        BY <1>3, <1>4, <2>1, <2>3
      <3>3. \A i \in 1..Len(toPeer) : toPeer[i].number = 0 /\ ~IsKey(toPeer[i])
        BY <2>2, <2>3 DEF Unsealed, IsKey
      <3>4. \A i \in 1..Len(toPeer') : i < k => i \in 1..Len(toPeer) /\ toPeer'[i] = toPeer[i]
        BY <2>1
      <3>5. \A i \in 1..Len(toPeer') : i < k => toPeer'[i].number = 0 /\ ~IsKey(toPeer'[i])
        BY <3>3, <3>4
      <3>6. Sealed(toPeer', k + 1, 1)
        BY <2>1 DEF Sealed
      <3> HIDE DEF k
      <3> QED
        BY <3>1, <3>2, <3>5, <3>6
    <2>4. ASSUME ~HasIdPk(greeting)
          PROVE  \A i \in 1..Len(toPeer') : Unsealed(greeting, toPeer'[i])
      <3>1. Unsealed(greeting, m)
        BY <1>3, <1>5, <2>4 DEF Unsealed
      <3> QED
        BY <2>1, <2>2, <3>1
    <2>5. peer' = peer /\ greeting' = greeting
      OBVIOUS
    <2>6. line'.symmetricKey <=> HasIdPk(greeting)
      BY <1>7
    <2> QED
      BY <1>11, <2>3, <2>4, <2>5, <2>6 DEF ToPeerInv
  <1> QED
    BY <1>7, <1>8, <1>9, <1>10, <1>12, <1>13 DEF IInv, ChannelInv, UnderstandEachOther

LEMMA ArrivesKeeps == ASSUME IInv, Arrives PROVE IInv'
  <1>1. TypeOK /\ ChannelInv /\ UnderstandEachOther /\ line.open
    BY DEF IInv, Arrives
  <1>2. PICK n \in 1..Len(flight) :
          /\ flight' = SubSeq(flight, n + 1, Len(flight))
          /\ IF line.relaySessionStarted THEN Unreadable ELSE FirstFlight(SubSeq(flight, 1, n))
          /\ UNCHANGED <<greeting, peer, toUs, misread, strayed, deaf>>
    BY DEF Arrives
  <1> DEFINE Pieces == {"head", "tail", "junk"}
             buf == line.firstFrameBuf \o SubSeq(flight, 1, n)
  <1>3. line \in Lines /\ flight \in Seq(Pieces) /\ line.firstFrameBuf \in Seq(Pieces)
    BY <1>1 DEF TypeOK, Peers, Lines
  <1>4. /\ buf \in Seq(Pieces) /\ flight' \in Seq(Pieces)
        /\ Len(buf) = Len(line.firstFrameBuf) + n /\ Len(flight') = Len(flight) - n
        /\ Len(flight) \in Nat /\ Len(line.firstFrameBuf) \in Nat
    BY <1>2, <1>3, CutFacts
  <1>5. CASE line.relaySessionStarted
    <2>1. /\ line' = IF line.symmetricKey THEN [line EXCEPT !.recvSeq = @ + 1] ELSE line
          /\ toPeer' = toPeer
      BY <1>2, <1>5 DEF Unreadable
    <2>2. strayed
      <3>1. flight # <<>>
        BY <1>2
      <3> QED
        BY <1>1, <1>5, <3>1 DEF ChannelInv, FlightInv
    <2>3. /\ line' \in Lines /\ line'.open /\ line'.symmetricKey = line.symmetricKey
          /\ line'.relaySessionStarted /\ line'.sendSeq = line.sendSeq
      BY <1>1, <1>3, <1>5, <2>1 DEF Lines
    <2>4. TypeOK'
      BY <1>1, <1>2, <1>4, <2>1, <2>3 DEF TypeOK, Peers
    <2>5. FlightInv' /\ ToUsInv'
      BY <1>1, <1>2, <2>2 DEF ChannelInv, FlightInv, ToUsInv, InStep
    <2>6. KeyInv'
      BY <1>1, <1>2, <1>5, <2>3 DEF ChannelInv, KeyInv, HasIdPk
    <2>7. ToPeerInv'
      BY <1>1, <1>2, <2>1, <2>3 DEF ChannelInv, ToPeerInv
    <2> QED
      BY <1>1, <1>2, <2>3, <2>4, <2>5, <2>6, <2>7 DEF IInv, ChannelInv, UnderstandEachOther
  <1>6. CASE ~line.relaySessionStarted
    <2>1. ASSUME ~strayed PROVE Len(buf) + Len(flight') = 2
      <3>1. Len(line.firstFrameBuf) + Len(flight) = 2
        BY <1>1, <1>6, <2>1 DEF ChannelInv, FlightInv
      <3> HIDE DEF buf
      <3> QED
        BY <1>4, <3>1
    <2>2. Len(Whole) = 2
      BY DEF Whole
    <2>3. CASE buf = Whole /\ greeting = "hash" /\ line' = [Started EXCEPT !.hashing = TRUE]
               /\ toPeer' = toPeer
      <3>1. /\ line' \in Lines /\ line'.relaySessionStarted /\ line'.open
            /\ line'.symmetricKey = line.symmetricKey
            /\ line'.sendSeq = line.sendSeq /\ line'.recvSeq = line.recvSeq
        <4>1. line' \in Lines
          BY <1>3, <2>3, StartedIsLine DEF Lines
        <4>2. line'.relaySessionStarted /\ line'.open
          BY <1>1, <1>3, <2>3, StartedIsLine DEF Lines
        <4>3. line'.symmetricKey = line.symmetricKey
          BY <1>3, <2>3, StartedIsLine DEF Lines
        <4>4. line'.sendSeq = line.sendSeq /\ line'.recvSeq = line.recvSeq
          BY <1>3, <2>3, StartedIsLine DEF Lines
        <4> QED
          BY <4>1, <4>2, <4>3, <4>4
      <3>2. TypeOK'
        BY <1>1, <1>2, <1>4, <2>3, <3>1 DEF TypeOK, Peers
      <3>3. FlightInv'
        <4>1. ASSUME ~strayed PROVE flight' = <<>>
          <5>1. Len(buf) + Len(flight') = 2 /\ buf = Whole
            BY <2>1, <2>3, <4>1
          <5> QED
            BY <1>4, <2>2, <5>1
        <4> QED
          BY <1>2, <3>1, <4>1 DEF FlightInv
      <3>4. KeyInv'
        BY <1>1, <1>2, <1>6, <2>3, <3>1 DEF ChannelInv, KeyInv, HasIdPk
      <3>5. ToPeerInv' /\ ToUsInv'
        BY <1>1, <1>2, <2>3, <3>1 DEF ChannelInv, ToPeerInv, ToUsInv, InStep
      <3> QED
        BY <1>1, <1>2, <3>1, <3>2, <3>3, <3>4, <3>5 DEF IInv, ChannelInv, UnderstandEachOther
    <2>4. CASE (buf = Whole \/ HasEnvelope(buf)) /\ HandleSignedId(buf # Whole)
      <3>1. buf # Whole => strayed
        BY SMTT(30), <1>4, <2>1, <2>2, <2>4 DEF HasEnvelope
      <3>2. strayed \/ flight' = <<>>
        <4>1. ~strayed => Len(flight') = 0
          BY <1>4, <2>1, <2>2, <3>1
        <4> QED
          BY <1>4, <4>1
      <3> HIDE DEF buf
      <3> QED
        BY <1>1, <1>2, <1>4, <1>6, <2>4, <3>1, <3>2, SignedIdKeeps
    <2>5. CASE line' = [line EXCEPT !.firstFrameBuf = buf] /\ toPeer' = toPeer
      <3> HIDE DEF buf
      <3>1. /\ line' \in Lines /\ ~line'.relaySessionStarted /\ line'.open
            /\ line'.firstFrameBuf = buf
            /\ line'.symmetricKey = line.symmetricKey
            /\ line'.sendSeq = line.sendSeq /\ line'.recvSeq = line.recvSeq
        BY <1>1, <1>3, <1>4, <1>6, <2>5 DEF Lines
      <3>2. TypeOK'
        BY <1>1, <1>2, <1>4, <2>5, <3>1 DEF TypeOK, Peers
      <3>3. FlightInv'
        BY <1>2, <2>1, <3>1 DEF FlightInv
      <3>4. KeyInv'
        BY <1>1, <1>2, <1>6, <3>1 DEF ChannelInv, KeyInv, HasIdPk
      <3>5. ToPeerInv' /\ ToUsInv'
        BY <1>1, <1>2, <2>5, <3>1 DEF ChannelInv, ToPeerInv, ToUsInv, InStep
      <3> QED
        BY <1>1, <1>2, <3>1, <3>2, <3>3, <3>4, <3>5 DEF IInv, ChannelInv, UnderstandEachOther
    <2> QED
      BY <1>2, <1>6, <2>3, <2>4, <2>5 DEF FirstFlight
  <1> QED
    BY <1>5, <1>6

LEMMA HearsKeeps == ASSUME IInv, Hears PROVE IInv'
  <1> DEFINE l == IF line.symmetricKey THEN [line EXCEPT !.recvSeq = @ + 1] ELSE line
             reads == Head(toUs).number = IF line.symmetricKey THEN l.recvSeq ELSE Plain
  <1>1. /\ TypeOK /\ ChannelInv /\ UnderstandEachOther
        /\ line.open /\ line.relaySessionStarted /\ toUs # <<>>
    BY DEF IInv, Hears
  <1>2. /\ toUs' = Tail(toUs) /\ misread' = (misread \/ ~reads)
        /\ line' = IF reads /\ Head(toUs).what = "hash" THEN [l EXCEPT !.hashing = TRUE] ELSE l
        /\ UNCHANGED <<greeting, flight, peer, toPeer, strayed, deaf>>
    BY DEF Hears
  <1>3. line \in Lines /\ toUs \in Seq(Messages) /\ peer.key \in {"awaited", "shared", "none"}
    BY <1>1 DEF TypeOK, Peers
  <1>4. /\ toUs' \in Seq(Messages) /\ Len(toUs') = Len(toUs) - 1 /\ Len(toUs) \in Nat \ {0}
        /\ Head(toUs) = toUs[1]
        /\ \A i \in 1..(Len(toUs) - 1) : toUs'[i] = toUs[i + 1]
    BY <1>1, <1>2, <1>3, TailFacts
  <1>5. /\ l \in Lines /\ l.open /\ l.relaySessionStarted
        /\ l.symmetricKey = line.symmetricKey /\ l.sendSeq = line.sendSeq
    <2>1. CASE line.symmetricKey
      <3>1. l = [line EXCEPT !.recvSeq = @ + 1]
        BY <2>1
      <3> HIDE DEF l
      <3> QED
        BY <1>1, <1>3, <3>1 DEF Lines
    <2>2. CASE ~line.symmetricKey
      <3>1. l = line
        BY <2>2
      <3> HIDE DEF l
      <3> QED
        BY <1>1, <1>3, <3>1
    <2> QED
      BY <2>1, <2>2
  <1>6. line.symmetricKey => l.recvSeq = line.recvSeq + 1
    BY <1>3 DEF Lines
  <1>7. line.symmetricKey => reads = (toUs[1].number = l.recvSeq)
    BY <1>4
  <1>8. ~line.symmetricKey => reads = (toUs[1].number = 0)
    BY <1>4 DEF Plain
  <1>9. reads \in BOOLEAN
    OBVIOUS
  <1> HIDE DEF reads, l
  <1>10. /\ line' \in Lines /\ line'.open /\ line'.relaySessionStarted
         /\ line'.symmetricKey = line.symmetricKey /\ line'.sendSeq = line.sendSeq
         /\ line'.recvSeq = l.recvSeq
    <2>1. CASE line' = l
      BY <1>5, <2>1
    <2>2. CASE line' = [l EXCEPT !.hashing = TRUE]
      BY <1>5, <2>2 DEF Lines
    <2> QED
      BY <1>2, <2>1, <2>2
  <1>11. FlightInv' /\ KeyInv' /\ ToPeerInv'
    <2>1. FlightInv'
      BY <1>1, <1>2, <1>10 DEF ChannelInv, FlightInv
    <2>2. KeyInv'
      BY <1>1, <1>2, <1>10 DEF ChannelInv, KeyInv, HasIdPk
    <2>3. ToPeerInv'
      BY <1>1, <1>2, <1>10 DEF ChannelInv, ToPeerInv
    <2> QED
      BY <2>1, <2>2, <2>3
  <1>12. CASE peer.key = "shared"
    <2>1. line.symmetricKey
      BY <1>1, <1>12 DEF ChannelInv, KeyInv
    <2>2. ASSUME ~strayed
          PROVE  reads /\ peer.sent = line'.recvSeq + Len(toUs') /\ Sealed(toUs', 1, line'.recvSeq + 1)
      <3>1. peer.sent = line.recvSeq + Len(toUs) /\ line.recvSeq \in Nat
        BY <1>1, <1>3, <1>12, <2>2 DEF ChannelInv, ToUsInv, InStep, Lines
      <3>2. Sealed(toUs, 1, line.recvSeq + 1)
        BY <1>1, <1>12, <2>2 DEF ChannelInv, ToUsInv, InStep
      <3>3. line'.recvSeq = line.recvSeq + 1 /\ l.recvSeq = line.recvSeq + 1
        BY <1>6, <1>10, <2>1
      <3>4. toUs[1].number = line.recvSeq + 1
        BY <1>4, <3>1, <3>2 DEF Sealed
      <3>5. peer.sent = line'.recvSeq + Len(toUs')
        BY <1>4, <3>1, <3>3
      <3>6. Sealed(toUs', 1, line'.recvSeq + 1)
        BY SMTT(30), <1>4, <3>1, <3>2, <3>3 DEF Sealed
      <3>7. toUs[1].number = l.recvSeq
        BY <3>3, <3>4
      <3>8. reads
        BY <1>7, <2>1, <3>7
      <3> QED
        BY <3>5, <3>6, <3>8
    <2>3. ToUsInv'
      BY <1>2, <1>12, <2>2 DEF ToUsInv, InStep
    <2>4. UnderstandEachOther' /\ misread' \in BOOLEAN
      BY <1>1, <1>2, <1>9, <2>2 DEF UnderstandEachOther, TypeOK, Peers
    <2>5. TypeOK'
      BY <1>1, <1>2, <1>4, <1>10, <2>4 DEF TypeOK, Peers
    <2> QED
      BY <1>10, <1>11, <2>3, <2>4, <2>5 DEF IInv, ChannelInv
  <1>13. CASE peer.key = "none"
    <2>1. ~line.symmetricKey
      BY <1>1, <1>13 DEF ChannelInv, KeyInv
    <2>2. \A i \in 1..Len(toUs) : toUs[i].number = 0
      BY <1>1, <1>13 DEF ChannelInv, ToUsInv, InStep
    <2>3. toUs[1].number = 0 /\ \A i \in 1..Len(toUs') : toUs'[i].number = 0
      BY <1>4, <2>2
    <2>4. reads
      BY <1>8, <2>1, <2>3
    <2>5. ToUsInv'
      BY <1>2, <1>13, <2>3 DEF ToUsInv, InStep
    <2>6. UnderstandEachOther' /\ misread' \in BOOLEAN
      BY <1>1, <1>2, <2>4 DEF UnderstandEachOther, TypeOK, Peers
    <2>7. TypeOK'
      BY <1>1, <1>2, <1>4, <1>10, <2>6 DEF TypeOK, Peers
    <2> QED
      BY <1>10, <1>11, <2>5, <2>6, <2>7 DEF IInv, ChannelInv
  <1>14. CASE peer.key = "awaited"
    BY <1>1, <1>14 DEF ChannelInv, ToUsInv, InStep
  <1> QED
    BY <1>3, <1>12, <1>13, <1>14

LEMMA SealedAppend ==
  ASSUME NEW s, NEW t, NEW n \in Nat, NEW m, NEW r \in Nat, Len(s) \in Nat,
         Len(t) = Len(s) + 1, \A i \in 1..Len(s) : t[i] = s[i], t[Len(s) + 1] = m,
         Sealed(s, 1, r + 1), n = r + Len(s), m.number = n + 1
  PROVE  Sealed(t, 1, r + 1)
  <1>1. \A i \in 1..Len(s) : s[i].number = r + i
    BY DEF Sealed
  <1>2. \A i \in 1..Len(t) : t[i].number = r + i
    <2>1. ASSUME NEW i \in 1..Len(t) PROVE t[i].number = r + i
      <3>1. CASE i \in 1..Len(s)
        BY <1>1, <3>1
      <3>2. CASE i \notin 1..Len(s)
        <4>1. i = Len(s) + 1
          BY <3>2
        <4> QED
          BY <4>1
      <3> QED
        BY <3>1, <3>2
    <2> QED
      BY <2>1
  <1> QED
    BY <1>2 DEF Sealed

\* A host p, with or without its key, that may speak.
Turn(p, what) ==
  /\ p \in Peers /\ what \in Whats /\ line \in Lines /\ toUs \in Seq(Messages)
  /\ InStep(p) /\ p.key # "awaited" /\ PeerSends(p, what)
  /\ line' = line /\ strayed' = strayed

\* What the host says is in step with what it has said.
LEMMA PeerSendsKeeps ==
  ASSUME NEW p, NEW what, Turn(p, what)
  PROVE  toUs' \in Seq(Messages) /\ ToUsInv' /\ peer' \in Peers
         /\ peer'.key = p.key /\ peer'.read = p.read
  <1>0. /\ p \in Peers /\ what \in Whats /\ line \in Lines /\ toUs \in Seq(Messages)
        /\ InStep(p) /\ p.key # "awaited"
        /\ line' = line /\ strayed' = strayed
    BY DEF Turn
  <1> DEFINE number == IF p.key = "shared" THEN p.sent + 1 ELSE 0
             m == [what |-> what, number |-> number]
  <1>1. /\ toUs' = Append(toUs, m)
        /\ peer' = IF p.key = "shared" THEN [p EXCEPT !.sent = number] ELSE p
    BY DEF Turn, PeerSends, Plain
  <1>2. number \in Nat
    BY <1>0 DEF Peers
  <1>3. p.key = "shared" => number = p.sent + 1
    OBVIOUS
  <1>4. p.key = "none" => number = 0
    OBVIOUS
  <1> HIDE DEF number
  <1>5. m \in Messages /\ m.number = number
    BY <1>0, <1>2 DEF Messages
  <1> HIDE DEF m
  <1>6. /\ toUs' \in Seq(Messages) /\ Len(toUs') = Len(toUs) + 1 /\ Len(toUs) \in Nat
        /\ \A i \in 1..Len(toUs) : toUs'[i] = toUs[i]
        /\ toUs'[Len(toUs) + 1] = m
    BY <1>0, <1>1, <1>5, AppendFacts
  <1>7. line.recvSeq \in Nat /\ p.sent \in Nat
    BY <1>0 DEF Lines, Peers
  <1>8. CASE p.key = "shared"
    <2>1. peer' = [p EXCEPT !.sent = number]
      BY <1>1, <1>8
    <2>2. /\ peer' \in [key : {"awaited", "shared", "none"}, sent : Nat, read : Nat]
          /\ peer'.key = p.key /\ peer'.read = p.read /\ peer'.sent = number
      BY <1>0, <1>2, <2>1 DEF Peers
    <2>3. ASSUME ~strayed
          PROVE  peer'.sent = line.recvSeq + Len(toUs') /\ Sealed(toUs', 1, line.recvSeq + 1)
      <3>1. p.sent = line.recvSeq + Len(toUs)
        BY <1>0, <1>8, <2>3 DEF InStep
      <3>2. Sealed(toUs, 1, line.recvSeq + 1)
        BY <1>0, <1>8, <2>3 DEF InStep
      <3>3. m.number = p.sent + 1 /\ peer'.sent = p.sent + 1
        BY <1>3, <1>5, <1>8, <2>2
      <3>4. peer'.sent = line.recvSeq + Len(toUs')
        <4>1. Len(toUs') = Len(toUs) + 1 /\ Len(toUs) \in Nat
          BY <1>6
        <4> QED
          BY <1>7, <3>1, <3>3, <4>1
      <3>5. Sealed(toUs', 1, line.recvSeq + 1)
        BY <1>6, <1>7, <2>2, <3>1, <3>2, <3>3, SealedAppend
      <3> QED
        BY <3>4, <3>5
    <2>4. ToUsInv'
      BY <1>0, <1>8, <2>2, <2>3 DEF ToUsInv, InStep
    <2> QED
      BY <1>6, <2>2, <2>4 DEF Peers
  <1>9. CASE p.key = "none"
    <2>1. peer' = p
      BY <1>1, <1>9
    <2>2. m.number = 0
      BY <1>4, <1>5, <1>9
    <2>3. \A i \in 1..Len(toUs) : toUs[i].number = 0
      BY <1>0, <1>9 DEF InStep
    <2>4. \A i \in 1..Len(toUs') : toUs'[i].number = 0
      BY <1>6, <2>2, <2>3
    <2>5. ToUsInv'
      BY <1>0, <1>9, <2>1, <2>4 DEF ToUsInv, InStep
    <2> QED
      BY <1>0, <1>6, <2>1, <2>5
  <1> QED
    BY <1>0, <1>8, <1>9 DEF Peers

LEMMA PeerSaysKeeps == ASSUME IInv, PeerSays PROVE IInv'
  <1>1. /\ TypeOK /\ ChannelInv /\ UnderstandEachOther /\ line.open
        /\ peer.key # "awaited" /\ PeerSends(peer, "data")
        /\ UNCHANGED <<greeting, flight, line, toPeer, misread, strayed, deaf>>
    BY DEF IInv, PeerSays, PeerSends
  <1>2. ToUsInv /\ "data" \in Whats
    BY <1>1 DEF ChannelInv, Whats
  <1>3. /\ toUs' \in Seq(Messages) /\ ToUsInv' /\ peer' \in Peers
        /\ peer'.key = peer.key /\ peer'.read = peer.read
    <2>1. Turn(peer, "data")
      BY <1>1, <1>2 DEF TypeOK, Peers, ToUsInv, Turn
    <2> QED
      BY <2>1, PeerSendsKeeps
  <1>4. TypeOK'
    BY <1>1, <1>3 DEF TypeOK, Peers
  <1>5. FlightInv' /\ KeyInv'
    BY <1>1, <1>3 DEF ChannelInv, FlightInv, KeyInv, HasIdPk
  <1>6. ToPeerInv'
    BY <1>1, <1>3 DEF ChannelInv, ToPeerInv
  <1> QED
    BY <1>1, <1>3, <1>4, <1>5, <1>6 DEF IInv, ChannelInv, UnderstandEachOther

\* What is left of messages in a row is in a row.
LEMMA SealedTail ==
  ASSUME NEW s, NEW t, NEW k \in Nat, NEW n \in Nat, Len(s) \in Nat, Len(t) = Len(s) - 1,
         \A i \in 1..(Len(s) - 1) : t[i] = s[i + 1], Sealed(s, k + 1, n), k >= 1
  PROVE  Sealed(t, k, n)
  <1>1. \A i \in 1..Len(s) : i >= k + 1 => s[i].number = n + (i - (k + 1))
    BY DEF Sealed
  <1>2. ASSUME NEW i \in 1..Len(t), i >= k PROVE t[i].number = n + (i - k)
    <2>1. i + 1 \in 1..Len(s) /\ i + 1 >= k + 1 /\ t[i] = s[i + 1]
      BY <1>2
    <2>2. s[i + 1].number = n + ((i + 1) - (k + 1))
      BY <1>1, <2>1
    <2> QED
      BY <2>1, <2>2
  <1> QED
    BY <1>2 DEF Sealed

LEMMA PeerHearsKeeps == ASSUME IInv, PeerHears PROVE IInv'
  <1> DEFINE h == Head(toPeer)
             next == IF peer.key = "shared" THEN peer.read + 1 ELSE 0
             key == IF h.what = "key" THEN "shared" ELSE "none"
  <1>1. toPeer # <<>> /\ TypeOK /\ UnderstandEachOther
    BY DEF IInv, PeerHears
  <1>2. line.open /\ ChannelInv
    BY <1>1 DEF IInv
  <1>3. /\ toPeer' = Tail(toPeer) /\ deaf' = (deaf \/ h.number # next)
        /\ UNCHANGED <<greeting, flight, line, misread, strayed>>
        /\ IF peer.key = "awaited" /\ h.what \in {"key", "empty key"}
             THEN PeerSends([peer EXCEPT !.key = key], "hash")
             ELSE /\ peer' = IF peer.key = "shared" THEN [peer EXCEPT !.read = next] ELSE peer
                  /\ UNCHANGED toUs
    BY DEF PeerHears, Plain
  <1>4. /\ line \in Lines /\ toPeer \in Seq(Messages) /\ toUs \in Seq(Messages)
        /\ peer \in Peers
    BY <1>1 DEF TypeOK, Peers
  <1>5. /\ toPeer' \in Seq(Messages) /\ Len(toPeer') = Len(toPeer) - 1 /\ Len(toPeer) \in Nat \ {0}
        /\ h = toPeer[1]
        /\ \A i \in 1..(Len(toPeer) - 1) : toPeer'[i] = toPeer[i + 1]
    BY <1>1, <1>3, <1>4, TailFacts
  <1>6. next \in Nat
    BY <1>4 DEF Peers
  <1>7. peer.key = "shared" => next = peer.read + 1
    OBVIOUS
  <1>8. peer.key # "shared" => next = 0
    OBVIOUS
  <1> HIDE DEF h, next
  <1>9. SUFFICES /\ h.number = next /\ toUs' \in Seq(Messages) /\ ToUsInv' /\ ToPeerInv'
                 /\ peer' \in Peers
                 /\ HasIdPk(greeting) => peer'.key # "none"
                 /\ peer'.key = "awaited" => peer'.read = 0
                 /\ peer'.key = "shared" => line.symmetricKey
    <2>1. ASSUME h.number = next PROVE deaf' = FALSE
      BY <1>1, <1>3, <2>1 DEF UnderstandEachOther
    <2>2. FlightInv'
      BY <1>2, <1>3 DEF ChannelInv, FlightInv
    <2> QED
      BY <1>1, <1>2, <1>3, <1>5, <2>1, <2>2
      DEF IInv, TypeOK, Peers, ChannelInv, KeyInv, HasIdPk, UnderstandEachOther
  <1>10. CASE peer.key = "shared"
    <2>1. peer' = [peer EXCEPT !.read = next] /\ toUs' = toUs
      BY <1>3, <1>10
    <2>2. /\ peer' \in Peers
          /\ peer'.key = "shared" /\ peer'.sent = peer.sent /\ peer'.read = next
      BY <1>4, <1>6, <1>10, <2>1 DEF Peers
    <2>3. line.symmetricKey /\ (HasIdPk(greeting) => peer'.key # "none")
      BY <1>2, <1>10, <2>2 DEF ChannelInv, KeyInv
    <2>4. ToUsInv'
      BY <1>2, <1>3, <1>10, <2>1, <2>2 DEF ChannelInv, ToUsInv, InStep
    <2>5. line.sendSeq = peer.read + Len(toPeer)
      BY <1>2, <1>10 DEF ChannelInv, ToPeerInv
    <2>6. Sealed(toPeer, 1, peer.read + 1)
      BY <1>2, <1>10 DEF ChannelInv, ToPeerInv
    <2>7. next = peer.read + 1 /\ peer.read \in Nat
      BY <1>4, <1>7, <1>10 DEF Peers
    <2>8. toPeer[1].number = peer.read + 1
      BY <1>5, <2>6, <2>7 DEF Sealed
    <2>9. h.number = next
      BY <1>5, <2>7, <2>8
    <2>10. Sealed(toPeer', 1, next + 1)
      <3>1. \A i \in 1..Len(toPeer) : i >= 1 => toPeer[i].number = peer.read + 1 + (i - 1)
        BY <2>6 DEF Sealed
      <3>2. ASSUME NEW i \in 1..Len(toPeer), i >= 1 + 1
            PROVE  toPeer[i].number = next + 1 + (i - (1 + 1))
        <4>1. i >= 1
          BY <1>5, <3>2
        <4>2. toPeer[i].number = peer.read + 1 + (i - 1)
          BY <3>1, <4>1
        <4>3. i \in Int
          BY <1>5
        <4>4. toPeer[i].number = peer.read + i
          BY <2>7, <4>2, <4>3
        <4>5. next + 1 + (i - (1 + 1)) = peer.read + i
          BY <2>7, <4>3
        <4> QED
          BY <4>4, <4>5
      <3>3. Sealed(toPeer, 1 + 1, next + 1)
        BY <3>2 DEF Sealed
      <3> QED
        BY <1>5, <1>6, <3>3, SealedTail
    <2>11. line.sendSeq = next + Len(toPeer')
      BY <1>5, <2>5, <2>7
    <2>12. ToPeerInv'
      BY <1>3, <2>2, <2>3, <2>10, <2>11 DEF ToPeerInv
    <2> QED
      BY <1>4, <2>1, <2>2, <2>3, <2>4, <2>9, <2>12
  <1>11. CASE peer.key = "awaited" /\ line.symmetricKey
    <2>1. PICK k \in 1..Len(toPeer) :
            /\ toPeer[k].number = 0 /\ toPeer[k].what = "key"
            /\ \A i \in 1..Len(toPeer) : i < k => toPeer[i].number = 0 /\ ~IsKey(toPeer[i])
            /\ Sealed(toPeer, k + 1, 1)
            /\ line.sendSeq = Len(toPeer) - k
      BY <1>2, <1>11 DEF ChannelInv, ToPeerInv
    <2>2. 1 \in 1..Len(toPeer)
      BY <1>5
    <2>3. CASE k = 1
      <3>1. h.what = "key" /\ h.number = 0
        BY <1>5, <2>1, <2>3
      <3>2. h.number = next
        BY <1>8, <1>11, <3>1
      <3> DEFINE p == [peer EXCEPT !.key = "shared"]
      <3>3. PeerSends(p, "hash")
        BY <1>3, <1>11, <3>1
      <3>4. /\ p \in Peers
            /\ p.key = "shared" /\ p.sent = peer.sent /\ p.read = peer.read
        BY <1>4 DEF Peers
      <3> HIDE DEF p
      <3>5. peer.read = 0
        BY <1>2, <1>11 DEF ChannelInv, KeyInv
      <3>6. toUs = <<>> /\ peer.sent = 0
        BY <1>2, <1>11 DEF ChannelInv, ToUsInv, InStep
      <3>7. ASSUME ~strayed
            PROVE  p.sent = line.recvSeq + Len(toUs) /\ Sealed(toUs, 1, line.recvSeq + 1)
        <4>1. line.recvSeq = 0
          BY <1>2, <1>11, <3>7 DEF ChannelInv, ToUsInv, InStep
        <4>2. p.sent = line.recvSeq + Len(toUs)
          BY <3>4, <3>6, <4>1
        <4>3. Sealed(toUs, 1, line.recvSeq + 1)
          BY <3>6 DEF Sealed
        <4> QED
          BY <4>2, <4>3
      <3>7a. InStep(p)
        BY <3>4, <3>7 DEF InStep
      <3>8. /\ toUs' \in Seq(Messages) /\ ToUsInv'
            /\ peer' \in Peers
            /\ peer'.key = "shared" /\ peer'.read = 0
        <4>1. "hash" \in Whats
          BY DEF Whats
        <4> QED
          BY <1>3, <1>4, <3>3, <3>4, <3>5, <3>7a, <4>1, PeerSendsKeeps DEF Turn
      <3>9. line.sendSeq = 0 + Len(toPeer')
        BY <1>5, <2>1, <2>3
      <3>10. Sealed(toPeer', 1, 1)
        <4>1. Sealed(toPeer, 1 + 1, 1)
          BY <2>1, <2>3
        <4>2. Sealed(toPeer', 1, 1)
          BY <1>5, <4>1, SealedTail
        <4> QED
          BY <4>2
      <3>11. ToPeerInv'
        <4>1. line'.sendSeq = peer'.read + Len(toPeer')
          BY <1>3, <1>5, <3>8, <3>9
        <4>2. peer'.read + 1 = 1
          BY <3>8
        <4>3. Sealed(toPeer', 1, peer'.read + 1)
          BY <3>10, <4>2
        <4> QED
          BY <1>3, <1>11, <3>8, <4>1, <4>3 DEF ToPeerInv
      <3> QED
        BY <1>11, <3>2, <3>8, <3>11
    <2>4. CASE k # 1
      <3>1. 1 < k
        BY <1>5, <2>4
      <3>2. h.number = 0 /\ ~IsKey(h)
        BY <1>5, <2>1, <2>2, <3>1
      <3>3. h.number = next
        BY <1>8, <1>11, <3>2
      <3>4. peer' = peer /\ toUs' = toUs
        BY <1>3, <1>11, <3>2 DEF IsKey
      <3> DEFINE j == k - 1
      <3>5. j \in 1..Len(toPeer') /\ line.sendSeq = Len(toPeer') - j
        BY <1>5, <2>1, <3>1
      <3>6. toPeer'[j] = toPeer[k]
        BY <1>5, <3>1
      <3>7. \A i \in 1..Len(toPeer') :
              i < j => toPeer'[i].number = 0 /\ ~IsKey(toPeer'[i])
        <4>1. \A i \in 1..Len(toPeer') :
                i < j => toPeer'[i] = toPeer[i + 1] /\ i + 1 \in 1..Len(toPeer) /\ i + 1 < k
          BY <1>5
        <4> QED
          BY <2>1, <4>1
      <3>8. Sealed(toPeer', j + 1, 1)
        <4>1. Sealed(toPeer, k + 1, 1) /\ k >= 1 /\ k \in Nat /\ j + 1 = k
          BY <2>1
        <4>2. Sealed(toPeer', k, 1)
          BY <1>5, <4>1, SealedTail
        <4> QED
          BY <4>1, <4>2
      <3> HIDE DEF j
      <3>9. \E i \in 1..Len(toPeer') :
              /\ toPeer'[i].number = 0 /\ toPeer'[i].what = "key"
              /\ \A n \in 1..Len(toPeer') : n < i => toPeer'[n].number = 0 /\ ~IsKey(toPeer'[n])
              /\ Sealed(toPeer', i + 1, 1)
              /\ line.sendSeq = Len(toPeer') - i
        BY <2>1, <3>5, <3>6, <3>7, <3>8
      <3>10. ToPeerInv'
        BY <1>3, <1>11, <3>4, <3>9 DEF ToPeerInv
      <3>11. ToUsInv'
        BY <1>2, <1>3, <3>4 DEF ChannelInv, ToUsInv, InStep
      <3> QED
        BY <1>2, <1>4, <1>11, <3>3, <3>4, <3>10, <3>11 DEF ChannelInv, KeyInv
    <2> QED
      BY <2>3, <2>4
  <1>12. CASE peer.key # "shared" /\ ~line.symmetricKey
    <2>1. \A i \in 1..Len(toPeer) : Unsealed(greeting, toPeer[i])
      BY <1>2, <1>12 DEF ChannelInv, ToPeerInv
    <2>2. Unsealed(greeting, h)
      BY <1>5, <2>1
    <2>3. h.number = next
      BY <1>8, <1>12, <2>2 DEF Unsealed
    <2>4. \A i \in 1..Len(toPeer') : Unsealed(greeting, toPeer'[i])
      BY <1>5, <2>1
    <2>5. CASE peer.key = "awaited" /\ IsKey(h)
      <3>1. h.what = "empty key" /\ ~HasIdPk(greeting)
        BY <2>2, <2>5 DEF Unsealed, IsKey
      <3> DEFINE p == [peer EXCEPT !.key = "none"]
      <3>2. PeerSends(p, "hash")
        BY <1>3, <2>5, <3>1
      <3>3. /\ p \in Peers
            /\ p.key = "none"
        BY <1>4 DEF Peers
      <3> HIDE DEF p
      <3>4. InStep(p)
        BY <1>2, <2>5, <3>3 DEF ChannelInv, ToUsInv, InStep
      <3>5. /\ toUs' \in Seq(Messages) /\ ToUsInv'
            /\ peer' \in Peers
            /\ peer'.key = "none"
        <4>1. "hash" \in Whats
          BY DEF Whats
        <4> QED
          BY <1>3, <1>4, <3>2, <3>3, <3>4, <4>1, PeerSendsKeeps DEF Turn
      <3>6. ToPeerInv'
        BY <1>3, <1>12, <2>4, <3>5 DEF ToPeerInv
      <3> QED
        BY <2>3, <3>1, <3>5, <3>6
    <2>6. CASE ~(peer.key = "awaited" /\ IsKey(h))
      <3>1. peer' = peer /\ toUs' = toUs
        BY <1>3, <1>12, <2>6 DEF IsKey
      <3>2. ToPeerInv'
        BY <1>3, <1>12, <2>4, <3>1 DEF ToPeerInv
      <3>3. ToUsInv'
        BY <1>2, <1>3, <3>1 DEF ChannelInv, ToUsInv, InStep
      <3> QED
        BY <1>2, <1>4, <1>12, <2>3, <3>1, <3>2, <3>3 DEF ChannelInv, KeyInv
    <2> QED
      BY <2>5, <2>6
  <1>13. peer.key = "none" => ~line.symmetricKey
    BY <1>2 DEF ChannelInv, KeyInv
  <1> QED
    BY <1>4, <1>10, <1>11, <1>12, <1>13 DEF Peers

LEMMA EmptyIsSeq == ASSUME NEW S PROVE <<>> \in Seq(S)
  OBVIOUS

LEMMA FreshHolds ==
  ASSUME NEW f \in Firsts, NEW junk \in BOOLEAN
  PROVE  /\ Greets(f, junk).flight \in Seq({"head", "tail", "junk"})
         /\ Greets(f, junk).peer \in Peers
         /\ Greets(f, junk).peer = NewPeer(f)
         /\ junk \/ Len(Greets(f, junk).flight) = 2
         /\ NewLine \in Lines /\ Len(NewLine.firstFrameBuf) = 0
  <1>1. Whole \in Seq({"head", "tail", "junk"}) /\ Len(Whole) = 2
    BY DEF Whole
  <1>2. Append(Whole, "junk") \in Seq({"head", "tail", "junk"})
    BY <1>1, AppendFacts
  <1>3. NewLine \in Lines /\ Len(NewLine.firstFrameBuf) = 0
    <2> DEFINE e == <<>>
    <2>1. e \in Seq({"head", "tail", "junk"}) /\ Len(e) = 0
      OBVIOUS
    <2>2. NewLine = [open |-> TRUE, firstFrameBuf |-> e, relaySessionStarted |-> FALSE,
                     symmetricKey |-> FALSE, sendSeq |-> 0, recvSeq |-> 0, hashing |-> FALSE]
      BY DEF NewLine
    <2> HIDE DEF e
    <2> QED
      BY <2>1, <2>2 DEF Lines
  <1>4. NewPeer(f) \in Peers
    BY DEF NewPeer, Peers
  <1> QED
    BY <1>1, <1>2, <1>3, <1>4 DEF Greets

\* A session that starts: the state of ChannelInit and of Reconnect.
LEMMA StartHolds ==
  ASSUME greeting \in Firsts, strayed \in BOOLEAN,
         flight = Greets(greeting, strayed).flight, peer = Greets(greeting, strayed).peer,
         line = NewLine, toPeer = <<>>, toUs = <<>>, misread = FALSE, deaf = FALSE
  PROVE  IInv
  <1>1. /\ flight \in Seq({"head", "tail", "junk"}) /\ peer = NewPeer(greeting)
        /\ peer \in Peers
        /\ line \in Lines
    BY FreshHolds
  <1>2. Len(line.firstFrameBuf) = 0
    BY FreshHolds
  <1>2a. strayed \/ Len(flight) = 2
    BY FreshHolds
  <1>3. TypeOK
    <2>1. toPeer \in Seq(Messages) /\ toUs \in Seq(Messages)
      BY EmptyIsSeq
    <2> QED
      BY <1>1, <2>1 DEF TypeOK
  <1>4. ~line.relaySessionStarted /\ ~line.symmetricKey
    BY DEF NewLine
  <1>5. line.sendSeq = 0 /\ line.recvSeq = 0
    BY DEF NewLine
  <1>6. FlightInv
    <2>1. ASSUME ~strayed PROVE Len(line.firstFrameBuf) + Len(flight) = 2
      BY <1>2, <1>2a, <2>1
    <2> QED
      BY <1>4, <2>1 DEF FlightInv
  <1>7. /\ peer.key \in {"awaited", "none"} /\ peer.sent = 0 /\ peer.read = 0
        /\ HasIdPk(greeting) => peer.key = "awaited"
    BY <1>1 DEF NewPeer, HasIdPk
  <1>8. KeyInv
    BY <1>4, <1>5, <1>7 DEF KeyInv
  <1>9. ToPeerInv /\ ToUsInv
    BY <1>4, <1>5, <1>7 DEF ToPeerInv, ToUsInv, InStep
  <1> QED
    BY <1>3, <1>6, <1>8, <1>9 DEF IInv, ChannelInv, UnderstandEachOther, NewLine

LEMMA StepKeeps == ASSUME IInv, [ChannelNext]_channelVars PROVE IInv'
  <1>1. CASE Say
    <2>1. line = [line EXCEPT !.hashing = line.hashing] /\ line.hashing \in BOOLEAN
      BY DEF IInv, TypeOK, Peers, Lines
    <2>2. SendRelayMessage([line EXCEPT !.hashing = line.hashing], "data")
      BY <1>1, <2>1 DEF Say
    <2> QED
      BY <1>1, <2>1, <2>2, SendKeeps DEF Say
  <1>2. CASE HashDone
    BY <1>2, SendKeeps DEF HashDone
  <1>3. CASE Arrives
    BY <1>3, ArrivesKeeps
  <1>4. CASE Hears
    BY <1>4, HearsKeeps
  <1>5. CASE PeerSays
    BY <1>5, PeerSaysKeeps
  <1>6. CASE PeerHears
    BY <1>6, PeerHearsKeeps
  <1>7. CASE RelayCloses
    <2> DEFINE e == <<>>
    <2>1. e \in Seq({"head", "tail", "junk"}) /\ e \in Seq(Messages)
      OBVIOUS
    <2>2. flight' = e /\ toPeer' = e /\ toUs' = e
      BY <1>7 DEF RelayCloses
    <2>3. line' \in Lines /\ ~line'.open
      BY <1>7 DEF RelayCloses, IInv, TypeOK, Peers, Lines
    <2>4. UNCHANGED <<greeting, peer, misread, strayed, deaf>>
      BY <1>7 DEF RelayCloses
    <2>5. toPeer' = <<>> /\ toUs' = <<>>
      BY <1>7 DEF RelayCloses
    <2> HIDE DEF e
    <2>6. TypeOK'
      BY <2>1, <2>2, <2>3, <2>4 DEF IInv, TypeOK, Peers
    <2> QED
      BY <2>3, <2>4, <2>5, <2>6 DEF IInv, UnderstandEachOther
  <1>8. CASE Reconnect
    <2>1. PICK f \in Firsts, junk \in BOOLEAN :
            /\ greeting' = f /\ strayed' = junk
            /\ flight' = Greets(f, junk).flight /\ peer' = Greets(f, junk).peer
      BY <1>8 DEF Reconnect
    <2>2. line' = NewLine /\ misread' = FALSE /\ deaf' = FALSE /\ toPeer' = <<>> /\ toUs' = <<>>
      BY <1>8 DEF Reconnect, IInv
    <2>3. /\ flight' \in Seq({"head", "tail", "junk"}) /\ peer' = NewPeer(f)
          /\ peer' \in Peers
          /\ line' \in Lines
      BY <2>1, <2>2, FreshHolds
    <2>4. Len(line'.firstFrameBuf) = 0
      BY <2>2, FreshHolds
    <2>4a. junk \/ Len(flight') = 2
      <3>1. junk \/ Len(Greets(f, junk).flight) = 2
        BY FreshHolds
      <3> QED
        BY <2>1, <3>1
    <2>5. TypeOK'
      <3>1. toPeer' \in Seq(Messages) /\ toUs' \in Seq(Messages)
        BY <2>2, EmptyIsSeq
      <3> QED
        BY <2>1, <2>2, <2>3, <3>1 DEF TypeOK
    <2>6. ~line'.relaySessionStarted /\ ~line'.symmetricKey /\ line'.open
      BY <2>2 DEF NewLine
    <2>7. line'.sendSeq = 0 /\ line'.recvSeq = 0
      BY <2>2 DEF NewLine
    <2>8. FlightInv'
      <3>1. ASSUME ~junk PROVE Len(line'.firstFrameBuf) + Len(flight') = 2
        BY <2>4, <2>4a, <3>1
      <3> QED
        BY <2>1, <2>6, <3>1 DEF FlightInv
    <2>9. /\ peer'.key \in {"awaited", "none"} /\ peer'.sent = 0 /\ peer'.read = 0
          /\ HasIdPk(f) => peer'.key = "awaited"
      BY <2>3 DEF NewPeer, HasIdPk
    <2>10. KeyInv'
      BY <2>1, <2>6, <2>7, <2>9 DEF KeyInv, HasIdPk
    <2>11. ToPeerInv' /\ ToUsInv'
      BY <2>2, <2>6, <2>7, <2>9 DEF ToPeerInv, ToUsInv, InStep
    <2> QED
      BY <2>2, <2>5, <2>6, <2>8, <2>10, <2>11 DEF IInv, ChannelInv, UnderstandEachOther
  <1>9. CASE UNCHANGED channelVars
    BY <1>9 DEF channelVars, IInv, TypeOK, Peers, ChannelInv, FlightInv, KeyInv, HasIdPk, ToPeerInv,
                ToUsInv, InStep, UnderstandEachOther
  <1> QED
    BY <1>1, <1>2, <1>3, <1>4, <1>5, <1>6, <1>7, <1>8, <1>9 DEF ChannelNext

\* session.ts on the first flight and on sealed messages: however the flight is cut,
\* whenever the key is found and whatever is said meanwhile, for any number of messages
\* and sessions each side can read all that the other sends.
THEOREM NeverDeaf == ChannelSpec => []UnderstandEachOther
  <1>1. ChannelInit => IInv
    BY StartHolds DEF ChannelInit
  <1>2. IInv /\ [ChannelNext]_channelVars => IInv'
    BY StepKeeps
  <1>3. IInv => UnderstandEachOther
    BY DEF IInv
  <1> QED
    BY <1>1, <1>2, <1>3, PTL DEF ChannelSpec

-----------------------------------------------------------------------------
(* The display that is watched.                                              *)

Echoes == [display : 0..(MaxDisplays - 1), ours : BOOLEAN]

DisplayTypeOK ==
  /\ displays \in 0..MaxDisplays
  /\ currentDisplay \in Nat /\ previousDisplay \in Nat
  /\ switchPending \in Nat \cup {NoDisplay} /\ gotTargetFrames \in BOOLEAN
  /\ requests \in Seq(0..(MaxDisplays - 1)) /\ echoes \in Seq(Echoes)
  /\ rushed \in BOOLEAN

\* Requests are for displays that exist; an echo of ours tells of one that is streamed.
Asked(queue, count) == \A i \in 1..Len(queue) : queue[i] < count
Told(queue, live) == \A i \in 1..Len(queue) : queue[i].ours => queue[i].display \in live

\* A pending switch is to the display watched, can be taken back to one that is streamed,
\* and a frame has come only of one that is streamed itself.
Settling ==
  IF switchPending = NoDisplay THEN currentDisplay \in streamed
  ELSE /\ switchPending = currentDisplay /\ currentDisplay < displays
       /\ previousDisplay \in streamed
       /\ gotTargetFrames => currentDisplay \in streamed

\* All that, unless something overtook the switch.
Unrushed ==
  /\ displays > 0 /\ streamed \subseteq 0..(displays - 1)
  /\ Asked(requests, displays) /\ Told(echoes, streamed) /\ Settling

DisplayInv == DisplayTypeOK /\ InLayout /\ (~rushed => Unrushed)

LEMMA DisplayConstants == MaxDisplays \in Nat \ {0} /\ MaxInFlight \in Nat \ {0}
BY DisplayAssumption

LEMMA AskedMore ==
  ASSUME NEW S, S \subseteq Nat, NEW queue \in Seq(S), NEW x \in S, NEW count
  PROVE  /\ Append(queue, x) \in Seq(S)
         /\ Asked(queue, count) /\ x < count => Asked(Append(queue, x), count)
BY AppendFacts DEF Asked

LEMMA AskedLess ==
  ASSUME NEW S, S \subseteq Nat, NEW queue \in Seq(S), queue # <<>>, NEW count
  PROVE  /\ Tail(queue) \in Seq(S) /\ Head(queue) \in S
         /\ Asked(queue, count) => Asked(Tail(queue), count) /\ Head(queue) < count
BY TailFacts DEF Asked

LEMMA ToldMore ==
  ASSUME NEW S, NEW queue \in Seq(S), NEW x \in S, NEW live
  PROVE  /\ Append(queue, x) \in Seq(S)
         /\ Told(queue, live) /\ (x.ours => x.display \in live) => Told(Append(queue, x), live)
BY AppendFacts DEF Told

LEMMA ToldLess ==
  ASSUME NEW S, NEW queue \in Seq(S), queue # <<>>, NEW live
  PROVE  /\ Tail(queue) \in Seq(S) /\ Head(queue) \in S
         /\ Told(queue, live) => Told(Tail(queue), live)
                                 /\ (Head(queue).ours => Head(queue).display \in live)
BY TailFacts DEF Told

LEMMA DisplayNextKeeps ==
  ASSUME DisplayInv, [DisplayNext]_displayVars
  PROVE  DisplayInv'
  <1>0. /\ MaxDisplays \in Nat \ {0} /\ NoDisplay \notin Nat
        /\ DisplayTypeOK /\ InLayout /\ (~rushed => Unrushed)
    BY DisplayConstants DEF DisplayInv, NoDisplay
  <1>1. CASE SendSwitchDisplay
    <2> DEFINE next == (currentDisplay + 1) % displays
    <2>1. displays > 1 /\ next \in 0..(displays - 1) /\ next \in 0..(MaxDisplays - 1)
      BY <1>0, <1>1 DEF SendSwitchDisplay, DisplayTypeOK
    <2>2. /\ currentDisplay' = next /\ previousDisplay' = currentDisplay
          /\ switchPending' = next /\ gotTargetFrames' = FALSE
          /\ rushed' = (rushed \/ switchPending # NoDisplay)
          /\ requests' = Append(requests, next)
          /\ UNCHANGED <<displays, echoes, streamed>>
      BY <1>1 DEF SendSwitchDisplay
    <2> HIDE DEF next
    <2>3. /\ requests' \in Seq(0..(MaxDisplays - 1))
          /\ Asked(requests, displays) => Asked(requests', displays)
      <3>1. 0..(MaxDisplays - 1) \subseteq Nat /\ next < displays
        BY <1>0, <2>1 DEF DisplayTypeOK
      <3>2. requests \in Seq(0..(MaxDisplays - 1))
        BY <1>0 DEF DisplayTypeOK
      <3>3. QED
        BY <2>1, <2>2, <3>1, <3>2, AskedMore
    <2>4. next \in Nat /\ next < displays
      BY <1>0, <2>1 DEF DisplayTypeOK
    <2>5. DisplayTypeOK' /\ InLayout'
      <3>1. rushed' \in BOOLEAN /\ switchPending' \in Nat \cup {NoDisplay}
        BY <1>0, <2>2, <2>4 DEF DisplayTypeOK
      <3>2. QED
        BY <1>0, <2>2, <2>3, <2>4, <3>1 DEF DisplayTypeOK, InLayout
    <2>6. ASSUME ~rushed' PROVE Unrushed'
      <3>1. ~rushed /\ switchPending = NoDisplay
        BY <2>2, <2>6
      <3>2. Settling'
        BY <1>0, <2>2, <2>4, <3>1 DEF Unrushed, Settling
      <3>3. QED
        BY <1>0, <2>2, <2>3, <3>1, <3>2 DEF Unrushed
    <2>7. QED
      BY <2>5, <2>6 DEF DisplayInv
  <1>2. ASSUME NEW obeys \in BOOLEAN, HostSwitchesDisplay(obeys) PROVE DisplayInv'
    <2>1. /\ requests # <<>> /\ requests' = Tail(requests)
          /\ UNCHANGED <<displays, currentDisplay, previousDisplay, switchPending,
                         gotTargetFrames, rushed>>
      BY <1>2 DEF HostSwitchesDisplay
    <2>2. /\ requests' \in Seq(0..(MaxDisplays - 1)) /\ Head(requests) \in 0..(MaxDisplays - 1)
          /\ Asked(requests, displays) =>
                Asked(requests', displays) /\ Head(requests) < displays
      BY <1>0, <2>1, AskedLess DEF DisplayTypeOK
    <2>3. CASE obeys
      <3> DEFINE echo == [display |-> Head(requests), ours |-> TRUE]
      <3>1. streamed' = streamed \cup {Head(requests)} /\ echoes' = Append(echoes, echo)
        BY <1>2, <2>3 DEF HostSwitchesDisplay
      <3>2. echo \in Echoes /\ echo.display \in streamed'
        BY <2>2, <3>1 DEF Echoes
      <3> HIDE DEF echo
      <3>3. Told(echoes, streamed) => Told(echoes, streamed')
        BY <3>1 DEF Told
      <3>4. /\ echoes' \in Seq(Echoes)
            /\ Told(echoes, streamed) => Told(echoes', streamed')
        BY <1>0, <3>1, <3>2, <3>3, ToldMore DEF DisplayTypeOK
      <3>5. DisplayTypeOK' /\ InLayout'
        BY <1>0, <2>1, <2>2, <3>4 DEF DisplayTypeOK, InLayout
      <3>6. Unrushed => Settling'
        BY <2>1, <3>1 DEF Unrushed, Settling
      <3>7. ASSUME Unrushed PROVE Unrushed'
        <4>1. Head(requests) \in 0..(displays - 1)
          BY <1>0, <2>2, <3>7 DEF DisplayTypeOK, Unrushed
        <4>2. QED
          BY <2>1, <2>2, <3>1, <3>4, <3>6, <3>7, <4>1 DEF Unrushed
      <3>8. QED
        BY <1>0, <2>1, <3>5, <3>7 DEF DisplayInv
    <2>4. CASE ~obeys
      <3>1. UNCHANGED <<streamed, echoes>>
        BY <1>2, <2>4 DEF HostSwitchesDisplay
      <3>2. DisplayTypeOK' /\ InLayout'
        BY <1>0, <2>1, <2>2, <3>1 DEF DisplayTypeOK, InLayout
      <3>3. Unrushed => Unrushed'
        BY <2>1, <2>2, <3>1 DEF Unrushed, Settling
      <3>4. QED
        BY <1>0, <2>1, <3>2, <3>3 DEF DisplayInv
    <2>5. QED
      BY <2>3, <2>4
  <1>3. ASSUME NEW display \in 0..(MaxDisplays - 1), HostBroadcasts(display) PROVE DisplayInv'
    <2> DEFINE echo == [display |-> display, ours |-> FALSE]
    <2>1. /\ echoes' = Append(echoes, echo)
          /\ UNCHANGED <<displays, currentDisplay, previousDisplay, switchPending,
                         gotTargetFrames, requests, streamed, rushed>>
      BY <1>3 DEF HostBroadcasts
    <2>2. echo \in Echoes /\ ~echo.ours
      BY <1>3 DEF Echoes
    <2> HIDE DEF echo
    <2>3. /\ echoes' \in Seq(Echoes)
          /\ Told(echoes, streamed) => Told(echoes', streamed)
      BY <1>0, <2>1, <2>2, ToldMore DEF DisplayTypeOK
    <2>4. DisplayTypeOK' /\ InLayout'
      BY <1>0, <2>1, <2>3 DEF DisplayTypeOK, InLayout
    <2>5. Unrushed => Unrushed'
      BY <2>1, <2>3 DEF Unrushed, Settling
    <2>6. QED
      BY <1>0, <2>1, <2>4, <2>5 DEF DisplayInv
  <1>4. ASSUME NEW display \in 0..(MaxDisplays - 1), TargetFrame(display) PROVE DisplayInv'
    <2>1. DisplayTypeOK' /\ InLayout'
      BY <1>0, <1>4 DEF TargetFrame, DisplayTypeOK, InLayout
    <2>2. Unrushed => Unrushed'
      BY <1>0, <1>4 DEF TargetFrame, Unrushed, Settling
    <2>3. QED
      BY <1>0, <1>4, <2>1, <2>2 DEF DisplayInv, TargetFrame
  <1>5. CASE SwitchDisplay
    <2>1. /\ echoes # <<>> /\ echoes' = Tail(echoes)
          /\ switchPending' = IF Confirms THEN NoDisplay ELSE switchPending
          /\ rushed' = (rushed \/ (Confirms /\ ~Head(echoes).ours))
          /\ UNCHANGED <<displays, currentDisplay, previousDisplay, gotTargetFrames, requests,
                         streamed>>
      BY <1>5 DEF SwitchDisplay
    <2>2. /\ echoes' \in Seq(Echoes) /\ Head(echoes) \in Echoes
          /\ Told(echoes, streamed) =>
               Told(echoes', streamed) /\ (Head(echoes).ours => Head(echoes).display \in streamed)
      BY <1>0, <2>1, ToldLess DEF DisplayTypeOK
    <2>3. Head(echoes).ours \in BOOLEAN /\ Head(echoes).display \in Nat
      BY <1>0, <2>2 DEF Echoes
    <2>4. DisplayTypeOK' /\ InLayout'
      BY <1>0, <2>1, <2>2, <2>3 DEF DisplayTypeOK, InLayout
    <2>5. ASSUME Unrushed, Confirms, Head(echoes).ours PROVE currentDisplay \in streamed
      <3>1. Head(echoes).display \in 0..(displays - 1) /\ Head(echoes).display \in streamed
        BY <2>2, <2>5 DEF Unrushed
      <3>2. Head(echoes).display = switchPending
        BY <1>0, <2>5, <3>1 DEF Confirms, ClampIndex, DisplayTypeOK
      <3>3. switchPending # NoDisplay
        BY <1>0, <2>3, <3>2
      <3>4. QED
        BY <2>5, <3>1, <3>2, <3>3 DEF Unrushed, Settling
    <2>6. Unrushed /\ ~rushed' => Unrushed'
      BY <2>1, <2>2, <2>5 DEF Unrushed, Settling
    <2>7. QED
      BY <1>0, <2>1, <2>4, <2>6 DEF DisplayInv
  <1>6. CASE FinalizePendingSwitch
    <2>1. DisplayTypeOK' /\ InLayout'
      BY <1>0, <1>6 DEF FinalizePendingSwitch, ClampIndex, DisplayTypeOK, InLayout
    <2>2. Unrushed => ClampIndex(previousDisplay, displays) = previousDisplay
      BY <1>0, <1>6 DEF FinalizePendingSwitch, Unrushed, Settling, ClampIndex, DisplayTypeOK
    <2>3. Unrushed => Unrushed'
      BY <1>6, <2>2 DEF FinalizePendingSwitch, Unrushed, Settling
    <2>4. QED
      BY <1>0, <1>6, <2>1, <2>3 DEF DisplayInv, FinalizePendingSwitch
  <1>7. ASSUME NEW count \in 0..MaxDisplays, Topology(count) PROVE DisplayInv'
    BY <1>0, <1>7 DEF Topology, ClampIndex, DisplayTypeOK, InLayout, DisplayInv
  <1>8. CASE UNCHANGED displayVars
    BY <1>0, <1>8 DEF displayVars, DisplayInv, DisplayTypeOK, InLayout, Unrushed, Settling
  <1>9. QED
    BY <1>1, <1>2, <1>3, <1>4, <1>5, <1>6, <1>7, <1>8 DEF DisplayNext

\* session.ts on the switch of displays: the display watched exists, and once a switch is
\* settled it is one the host streams, for any number of monitors and messages under way.
THEOREM WatchedIsLive == DisplaySpec => []DisplayHonest
  <1>1. DisplayInit => DisplayInv
    <2> SUFFICES ASSUME DisplayInit PROVE DisplayInv
      OBVIOUS
    <2>1. DisplayTypeOK /\ InLayout
      <3>1. requests \in Seq(0..(MaxDisplays - 1)) /\ echoes \in Seq(Echoes)
        BY EmptyIsSeq DEF DisplayInit
      <3>2. displays \in 0..MaxDisplays
        BY DisplayConstants DEF DisplayInit
      <3>3. QED
        BY <3>1, <3>2 DEF DisplayInit, DisplayTypeOK, InLayout
    <2>2. Asked(requests, displays) /\ Told(echoes, streamed)
      BY DEF DisplayInit, Asked, Told
    <2>3. displays > 0 /\ streamed \subseteq 0..(displays - 1)
      BY DisplayConstants DEF DisplayInit
    <2>4. Settling
      BY DEF DisplayInit, Settling
    <2>5. QED
      BY <2>1, <2>2, <2>3, <2>4 DEF DisplayInv, Unrushed
  <1>2. DisplayInv /\ [DisplayNext]_displayVars => DisplayInv'
    BY DisplayNextKeeps
  <1>3. DisplayInv => DisplayHonest
    BY DEF DisplayInv, DisplayHonest, SettledIsLive, Unrushed, Settling
  <1>4. QED
    BY <1>1, <1>2, <1>3, PTL DEF DisplaySpec

-----------------------------------------------------------------------------
(* The options of the picture.                                               *)

KnobSettings == [quality : Nat, fps : Nat, codec : KnobCodecs \cup {AutoCodec}]

\* Out of auto mode the session's own options are those of the knobs, and were sent.
RateAgrees ==
  /\ auto = (knobs.quality = 0)
  /\ ~auto => /\ videoOptions = Options(knobs.quality, knobs.fps)
              /\ lastSent = videoOptions

\* Until it is logged in a session has the options it was dialled with.
AsDialled ==
  /\ auto = FALSE
  /\ videoOptions = Options(config.quality, config.fps)
  /\ "rate" \notin silent => videoOptions = Options(knobs.quality, knobs.fps)

KnobTypes ==
  /\ {knobs, snapshot, config} \subseteq KnobSettings
  /\ redials \subseteq KnobSettings

OptionsInv ==
  /\ KnobTypes
  /\ loginSent => UnderWay
  /\ connected => loginSent
  /\ UnderWay /\ ~connected => AsDialled
  /\ UnderWay /\ ~loginSent /\ "codec" \notin silent => config.codec = knobs.codec
  /\ loginSent /\ "codec" \notin silent => pinned = knobs.codec
  /\ connected /\ "rate" \notin silent => RateAgrees

LEMMA OptionsConstants ==
  Qualities \subseteq Nat \ {0} /\ Rates \subseteq Nat \ {0}
BY OptionsAssumption

\* What is told of is told of in full.
LEMMA NothingUntold ==
  ASSUME NEW k \in KnobSettings, NEW l \in KnobSettings
  PROVE  /\ "rate" \notin Untold(k, l) => Options(k.quality, k.fps) = Options(l.quality, l.fps)
         /\ "codec" \notin Untold(k, l) => k.codec = l.codec
  BY DEF Untold

LEMMA SameOptions ==
  ASSUME NEW q, NEW f, NEW p, NEW g, Options(q, f) = Options(p, g)
  PROVE  q = p /\ f = g
  BY DEF Options

\* A new session has the knobs it is given, and forgets none that differs from those shown.
LEMMA ConnectKeeps ==
  ASSUME OptionsInv, NEW k \in KnobSettings, Connect(k), redials' \subseteq redials
  PROVE  OptionsInv'
  <1>1. /\ config' = k /\ loginSent' = FALSE /\ connected' = FALSE /\ auto' = FALSE
        /\ videoOptions' = Options(k.quality, k.fps) /\ silent' = Untold(k, knobs)
        /\ knobs' = knobs /\ snapshot' = snapshot
    BY DEF Connect, pageVars
  <1>2. KnobTypes'
    BY <1>1 DEF OptionsInv, KnobTypes
  <1>3. knobs \in KnobSettings
    BY DEF OptionsInv, KnobTypes
  <1>4. AsDialled' /\ ("codec" \notin silent' => config'.codec = knobs'.codec)
    BY <1>1, <1>3, NothingUntold DEF AsDialled
  <1>5. QED
    BY <1>1, <1>2, <1>4 DEF OptionsInv

LEMMA OptionsNextKeeps ==
  ASSUME OptionsInv, [OptionsNext]_optionVars
  PROVE  OptionsInv'
  <1> USE OptionsConstants
  <1>0. /\ knobs \in KnobSettings /\ snapshot \in KnobSettings /\ config \in KnobSettings
        /\ redials \subseteq KnobSettings /\ NoKnobs \in KnobSettings
    BY DEF OptionsInv, KnobTypes, NoKnobs, Knobs, KnobSettings
  <1>1. ASSUME NEW q \in Qualities \cup {0}, NEW f \in Rates,
               NEW c \in KnobCodecs \cup {AutoCodec}, Hydrate(q, f, c)
        PROVE  OptionsInv'
    <2>1. Knobs(q, f, c) \in KnobSettings /\ Knobs(q, f, knobs.codec) \in KnobSettings
      BY <1>0, <1>1 DEF KnobSettings, Knobs
    <2>2. knobs' \in KnobSettings
      BY <1>1, <2>1 DEF Hydrate
    <2>3. /\ UNCHANGED <<snapshot, redials, config, loginSent, connected, auto, videoOptions,
                         lastSent, pinned>>
          /\ UnderWay => silent' = silent \cup Untold(knobs, knobs')
      BY <1>1 DEF Hydrate, dialVars, rateVars
    <2>4. UnderWay' = UnderWay /\ KnobTypes'
      BY <1>0, <2>2, <2>3 DEF KnobTypes, UnderWay
    <2>5. CASE ~UnderWay
      BY <2>3, <2>4, <2>5 DEF OptionsInv, UnderWay
    <2>6. CASE UnderWay
      <3>1. /\ "rate" \notin silent'
                 => "rate" \notin silent /\ Options(knobs.quality, knobs.fps) = Options(knobs'.quality, knobs'.fps)
            /\ "codec" \notin silent' => "codec" \notin silent /\ knobs.codec = knobs'.codec
        BY <1>0, <2>2, <2>3, <2>6, NothingUntold
      <3>2. "rate" \notin silent' => knobs.quality = knobs'.quality
        BY <3>1, SameOptions
      <3>3. QED
        BY <2>3, <2>4, <3>1, <3>2 DEF OptionsInv, AsDialled, RateAgrees
    <2>7. QED
      BY <2>5, <2>6
  <1>2. CASE Dial
    BY <1>0, <1>2, ConnectKeeps DEF Dial
  <1>3. ASSUME NEW k \in redials, Redial(k) \/ Forget(k) PROVE OptionsInv'
    <2>1. CASE Redial(k)
      <3>1. k \in KnobSettings /\ Connect(k) /\ redials' \subseteq redials
        BY <1>0, <2>1 DEF Redial
      <3>2. QED
        BY <3>1, ConnectKeeps
    <2>2. CASE Forget(k)
      BY <1>0, <2>2 DEF Forget, OptionsInv, KnobTypes, UnderWay, AsDialled, RateAgrees, pageVars, rateVars
    <2>3. QED
      BY <1>3, <2>1, <2>2
  <1>4. CASE AwaitPassword
    BY <1>0, <1>4 DEF AwaitPassword, OptionsInv, KnobTypes, UnderWay, AsDialled, RateAgrees, pageVars, rateVars
  <1>5. CASE SendLogin
    BY <1>0, <1>5 DEF SendLogin, OptionsInv, KnobTypes, UnderWay, AsDialled, RateAgrees, pageVars, rateVars
  <1>6. CASE Login
    <2>1. /\ loginSent /\ ~connected /\ UnderWay /\ connected' = TRUE /\ config' = NoKnobs
          /\ UNCHANGED <<knobs, snapshot, redials, loginSent, videoOptions, pinned, silent>>
      BY <1>6 DEF Login, OptionsInv, pageVars
    <2>2. AsDialled
      BY <2>1 DEF OptionsInv
    <2>3. /\ auto' = (config.quality = 0)
          /\ ~auto' => lastSent' = videoOptions'
      BY <1>6, <2>2 DEF Login, AutoOn, SendVideoOption, AsDialled
    <2>4. "rate" \notin silent => config.quality = knobs.quality
      BY <2>2, SameOptions DEF AsDialled
    <2>5. "rate" \notin silent => RateAgrees'
      BY <2>1, <2>2, <2>3, <2>4 DEF AsDialled, RateAgrees
    <2>6. KnobTypes' /\ UnderWay'
      BY <1>0, <2>1 DEF KnobTypes, UnderWay
    <2>7. QED
      BY <2>1, <2>5, <2>6 DEF OptionsInv
  <1>7. CASE Logout
    <2>1. /\ config' = NoKnobs /\ loginSent' = FALSE /\ connected' = FALSE
          /\ knobs' = knobs /\ snapshot' = snapshot /\ redials' \subseteq KnobSettings
      BY <1>0, <1>7 DEF Logout, pageVars
    <2>2. QED
      BY <1>0, <2>1 DEF OptionsInv, KnobTypes, UnderWay
  <1>8. CASE TellAgain
    BY <1>8 DEF TellAgain, SendVideoOption, OptionsInv, KnobTypes, UnderWay, RateAgrees, pageVars, dialVars
  <1>9. ASSUME NEW next \in AutoTargets, AutoTick(next) PROVE OptionsInv'
    BY <1>9 DEF AutoTick, SendVideoOption, OptionsInv, KnobTypes, UnderWay, RateAgrees, pageVars, dialVars
  <1>10. ASSUME NEW q \in Qualities \cup {0}, HandleQualityChange(q) PROVE OptionsInv'
    <2>1. knobs' \in KnobSettings /\ snapshot' \in KnobSettings
      BY <1>0, <1>10 DEF HandleQualityChange, KnobSettings
    <2>2. knobs'.quality = q /\ knobs'.fps = knobs.fps /\ knobs'.codec = knobs.codec
      BY <1>0, <1>10 DEF HandleQualityChange, KnobSettings
    <2>3. connected /\ UNCHANGED <<redials, config, loginSent, connected, pinned>>
      BY <1>10 DEF HandleQualityChange, dialVars
    <2>4. RateAgrees'
      <3>1. CASE q = 0
        BY <1>10, <2>2, <3>1 DEF HandleQualityChange, AutoOn, RateAgrees
      <3>2. CASE q # 0
        BY <1>10, <2>2, <3>2 DEF HandleQualityChange, SetStreamOptions, SendVideoOption, RateAgrees
      <3>3. QED
        BY <3>1, <3>2
    <2>5. "codec" \notin silent' => "codec" \notin silent
      BY <1>10 DEF HandleQualityChange
    <2>6. QED
      BY <1>0, <2>1, <2>2, <2>3, <2>4, <2>5 DEF OptionsInv, KnobTypes, UnderWay
  <1>11. ASSUME NEW f \in Rates, HandleFpsChange(f) PROVE OptionsInv'
    <2>1. knobs' \in KnobSettings /\ snapshot' \in KnobSettings
      BY <1>0, <1>11 DEF HandleFpsChange, KnobSettings
    <2>2. knobs'.quality = knobs.quality /\ knobs'.fps = f /\ knobs'.codec = knobs.codec
      BY <1>0, <1>11 DEF HandleFpsChange, KnobSettings
    <2>3. connected /\ UNCHANGED <<redials, config, loginSent, connected, pinned>>
      BY <1>11 DEF HandleFpsChange, dialVars
    <2>4. RateAgrees'
      BY <1>11, <2>2 DEF HandleFpsChange, SetStreamOptions, SendVideoOption, RateAgrees
    <2>5. "codec" \notin silent' => "codec" \notin silent
      BY <1>11 DEF HandleFpsChange
    <2>6. QED
      BY <1>0, <2>1, <2>2, <2>3, <2>4, <2>5 DEF OptionsInv, KnobTypes, UnderWay
  <1>12. ASSUME NEW c \in KnobCodecs \cup {AutoCodec}, HandleCodecChange(c) PROVE OptionsInv'
    <2>1. knobs' \in KnobSettings /\ snapshot' \in KnobSettings
      BY <1>0, <1>12 DEF HandleCodecChange, KnobSettings
    <2>2. /\ connected /\ knobs'.quality = knobs.quality /\ knobs'.fps = knobs.fps
          /\ UNCHANGED <<redials, config, loginSent, connected, auto, videoOptions, lastSent>>
      BY <1>0, <1>12 DEF HandleCodecChange, KnobSettings, dialVars, rateVars
    <2>3. /\ "rate" \notin silent' => "rate" \notin silent
          /\ \/ pinned' = knobs'.codec
             \/ UNCHANGED <<knobs, pinned, silent>>
      BY <1>0, <1>12 DEF HandleCodecChange, KnobSettings
    <2>4. QED
      BY <1>0, <2>1, <2>2, <2>3 DEF OptionsInv, KnobTypes, UnderWay, RateAgrees
  <1>13. CASE TurboOn
    <2>1. /\ knobs' = Knobs(Turbo.quality, Turbo.fps, knobs.codec) /\ snapshot' = knobs
          /\ auto' = FALSE /\ videoOptions' = Options(Turbo.quality, Turbo.fps)
          /\ lastSent' = videoOptions' /\ connected
          /\ UNCHANGED <<redials, config, loginSent, connected, pinned>>
          /\ "codec" \notin silent' => "codec" \notin silent
      BY <1>13 DEF TurboOn, SetStreamOptions, SendVideoOption, dialVars
    <2>2. knobs' \in KnobSettings /\ knobs'.quality = 2 /\ knobs'.fps = 60
          /\ knobs'.codec = knobs.codec /\ Turbo.quality = 2 /\ Turbo.fps = 60
      BY <1>0, <2>1 DEF Knobs, Turbo, KnobSettings
    <2>3. (knobs'.quality = 0) = FALSE
      BY <2>2
    <2>4. RateAgrees'
      BY <2>1, <2>2, <2>3 DEF RateAgrees
    <2>5. QED
      BY <1>0, <2>1, <2>2, <2>4 DEF OptionsInv, KnobTypes, UnderWay
  <1>14. CASE TurboOff
    BY <1>0, <1>14 DEF TurboOff, OptionsInv, KnobTypes, UnderWay, RateAgrees, dialVars
  <1>15. ASSUME NEW pick \in KnobCodecs \cup {AutoCodec}, KnobProbed(pick) PROVE OptionsInv'
    <2>1. knobs' \in KnobSettings /\ snapshot' = snapshot
      BY <1>0, <1>15 DEF KnobProbed, KnobSettings
    <2>2. /\ knobs'.quality = knobs.quality /\ knobs'.fps = knobs.fps
          /\ UNCHANGED <<redials, config, loginSent, connected, auto, videoOptions, lastSent>>
          /\ "rate" \notin silent' => "rate" \notin silent
      BY <1>0, <1>15 DEF KnobProbed, KnobSettings, dialVars, rateVars
    <2>3. \/ UNCHANGED <<knobs, pinned, silent>>
          \/ /\ knobs'.codec = pick
             /\ loginSent => pinned' = pick
             /\ ~loginSent /\ UnderWay /\ "codec" \notin silent' => config.codec = pick
      <3>1. config = [config EXCEPT !.codec = pick] => config.codec = pick
        BY <1>0 DEF KnobSettings
      <3>2. ~loginSent /\ UnderWay => config # NoKnobs
        BY DEF OptionsInv, UnderWay
      <3>3. QED
        BY <1>0, <1>15, <3>1, <3>2 DEF KnobProbed, KnobSettings
    <2>4. QED
      BY <1>0, <2>1, <2>2, <2>3 DEF OptionsInv, KnobTypes, UnderWay, AsDialled, RateAgrees
  <1>16. CASE UNCHANGED optionVars
    BY <1>16 DEF optionVars, pageVars, dialVars, rateVars, OptionsInv, KnobTypes, UnderWay, AsDialled, RateAgrees
  <1>17. QED
    BY <1>1, <1>2, <1>3, <1>4, <1>5, <1>6, <1>7, <1>8, <1>9, <1>10, <1>11, <1>12, <1>13, <1>14,
       <1>15, <1>16 DEF OptionsNext

\* RemoteControlPage.tsx on its knobs: what they show is what the host was told last, but
\* for what changed in silence between the dial and the login or by the defaults, until
\* that knob is turned; for all qualities, rates and codecs, probes and redials.
THEOREM KnobsAreTrue == OptionsSpec => []ShownIsSent
  <1>1. OptionsInit => OptionsInv
    BY OptionsConstants
       DEF OptionsInit, OptionsInv, KnobTypes, KnobSettings, Knobs, NoKnobs, UnderWay
  <1>2. OptionsInv /\ [OptionsNext]_optionVars => OptionsInv'
    BY OptionsNextKeeps
  <1>3. OptionsInv => ShownIsSent
    BY DEF OptionsInv, RateAgrees, ShownIsSent
  <1>4. QED
    BY <1>1, <1>2, <1>3, PTL DEF OptionsSpec

-----------------------------------------------------------------------------
(* What is measured, and auto mode.                                          *)

Rungs == [quality : Nat, fps : Nat]

VitalsTypeOK ==
  /\ rtt \in {"unknown", "good", "fair", "bad"}
  /\ nudges \in Nat /\ ups \in Nat /\ autoDiffTicks \in Nat
  /\ target \in Rungs
  /\ target.quality # 0 => ~Above(Rung(1, 10), target)

\* The nudge of a stall is remembered for as long as the stall lasts.
Nudged == nudges # 0 => nudges = 1 /\ up /\ videoStallNotified /\ videoAge = StallLimit

VitalsInv == VitalsTypeOK /\ Nudged /\ SteadyClimb

\* Auto mode never climbs on a round trip that is not known.
LEMMA NoBlindClimb ==
  ASSUME VitalsTypeOK, target.quality # 0, NEW kbps, NEW strained, NEW ticks \in Nat,
         Above(SelectAutoTarget(kbps, strained, ticks), target)
  PROVE  rtt # "unknown"
  <1> SUFFICES ASSUME rtt = "unknown" PROVE FALSE
    OBVIOUS
  <1> DEFINE banded == Band(kbps)
             held == IF Above(banded, target) THEN target ELSE banded
  <1>1. target \in Rungs /\ ~Above(Rung(1, 10), target)
    BY DEF VitalsTypeOK
  <1>2. banded \in Rungs
    BY DEF Band, Rung, Rungs
  <1> HIDE DEF banded
  <1>3. held \in Rungs /\ ~Above(held, target)
    BY <1>1, <1>2 DEF Rungs, Above
  <1> HIDE DEF held
  <1>4. ~Above(StepDown(held), target)
    BY <1>1, <1>3 DEF StepDown, Rung, Rungs, Above
  <1>5. SelectAutoTarget(kbps, strained, ticks) \in {Rung(1, 10), StepDown(held), held}
    BY DEF SelectAutoTarget, banded, held
  <1>6. QED
    BY <1>1, <1>3, <1>4, <1>5

LEMMA RungsOnly ==
  ASSUME VitalsTypeOK, NEW kbps, NEW strained, NEW ticks \in Nat
  PROVE  LET next == SelectAutoTarget(kbps, strained, ticks)
         IN  next \in Rungs /\ (next.quality # 0 => ~Above(Rung(1, 10), next))
  <1> DEFINE banded == Band(kbps)
             held == IF rtt = "unknown" /\ Above(banded, target) THEN target ELSE banded
             Floored(r) == r \in Rungs /\ (r.quality # 0 => ~Above(Rung(1, 10), r))
  <1>1. Floored(target)
    BY DEF VitalsTypeOK
  <1>2. Floored(banded)
    BY DEF Band, Rung, Rungs, Above
  <1> HIDE DEF banded
  <1>3. Floored(held)
    BY <1>1, <1>2
  <1>4. Floored(Rung(1, 10)) /\ Floored(Rung(2, 15)) /\ Floored(Rung(3, 30))
    BY DEF Rung, Rungs, Above
  <1> HIDE DEF held, Floored
  <1>5. Floored(StepDown(held))
    BY <1>3, <1>4 DEF StepDown
  <1>6. SelectAutoTarget(kbps, strained, ticks) \in {Rung(1, 10), StepDown(held), held}
    BY DEF SelectAutoTarget, banded, held
  <1>7. Floored(SelectAutoTarget(kbps, strained, ticks))
    BY <1>3, <1>4, <1>5, <1>6
  <1>8. QED
    BY <1>7 DEF Floored

LEMMA AutoTimerKeeps ==
  ASSUME VitalsInv, NEW kbps, NEW strained \in BOOLEAN, NEW stuck \in BOOLEAN,
         autoStuckTicks \in Nat, AutoTimer(kbps, strained, stuck)
  PROVE  VitalsInv' /\ autoStuckTicks' \in Nat
  <1>0. VitalsTypeOK /\ Nudged /\ SteadyClimb
    BY DEF VitalsInv
  <1>1. UNCHANGED <<up, rtt, videoAge, videoStallNotified, nudges>>
    BY DEF AutoTimer, linkVars, videoVitals
  <1>2. Nudged'
    BY <1>0, <1>1 DEF Nudged
  <1>3. CASE cooldown > 0
    BY <1>0, <1>1, <1>2, <1>3 DEF AutoTimer, VitalsInv, VitalsTypeOK, SteadyClimb
  <1>4. CASE ~(cooldown > 0) /\ ~lastTickHadFrames
    BY <1>0, <1>1, <1>2, <1>4 DEF AutoTimer, VitalsInv, VitalsTypeOK, SteadyClimb
  <1>5. CASE ~(cooldown > 0) /\ lastTickHadFrames
    <2> DEFINE ticks == StuckTicks(stuck)
               next == SelectAutoTarget(kbps, strained \/ stuck, ticks)
               told == autoDiffTicks + 1 >= AutoDiffNeed(target, next)
    <2>1. ticks \in Nat
      BY DEF StuckTicks
    <2>2. next \in Rungs /\ (next.quality # 0 => ~Above(Rung(1, 10), next))
      BY <1>0, <2>1, RungsOnly
    <2>3. target.quality # 0 /\ Above(next, target) => rtt # "unknown"
      BY <1>0, <2>1, NoBlindClimb
    <2>4. /\ autoStuckTicks' = ticks
          /\ IF next = target
               THEN autoDiffTicks' = 0 /\ ups' = 0 /\ UNCHANGED <<target, cooldown>>
             ELSE IF told
               THEN autoDiffTicks' = 0 /\ ups' = 0 /\ target' = next /\ cooldown' = 6
             ELSE /\ autoDiffTicks' = autoDiffTicks + 1
                  /\ ups' = IF Above(next, target) THEN ups + 1 ELSE 0
                  /\ UNCHANGED <<target, cooldown>>
      BY <1>5 DEF AutoTimer
    <2>5. ~told => autoDiffTicks + 1 < 3
                  \/ (target.quality # 0 /\ Above(next, target))
      BY <1>0 DEF AutoDiffNeed, VitalsTypeOK
    <2> HIDE DEF ticks, next, told
    <2>6. VitalsTypeOK'
      BY <1>0, <1>1, <2>2, <2>4 DEF VitalsTypeOK
    <2>7. CASE next = target \/ told
      BY <1>2, <2>1, <2>4, <2>6, <2>7 DEF VitalsInv, SteadyClimb
    <2>8. CASE next # target /\ ~told
      <3>1. /\ autoDiffTicks' = autoDiffTicks + 1 /\ target' = target
            /\ ups' = IF Above(next, target) THEN ups + 1 ELSE 0
        BY <2>4, <2>8
      <3>2. autoDiffTicks \in Nat /\ ups \in Nat
        BY <1>0 DEF VitalsTypeOK
      <3>3. SteadyClimb'
        BY <1>0, <1>1, <2>3, <2>5, <2>8, <3>1, <3>2 DEF SteadyClimb
      <3>4. QED
        BY <1>2, <2>1, <2>4, <2>6, <3>3 DEF VitalsInv
    <2>9. QED
      BY <2>7, <2>8
  <1>6. QED
    BY <1>3, <1>4, <1>5

LEMMA VitalsNextKeeps ==
  ASSUME VitalsInv, autoStuckTicks \in Nat, [VitalsNext]_vitalVars
  PROVE  VitalsInv' /\ autoStuckTicks' \in Nat
  <1>0. VitalsTypeOK /\ Nudged /\ SteadyClimb
    BY DEF VitalsInv
  <1> DEFINE Kept == /\ UNCHANGED <<rtt, ups, autoDiffTicks, target, autoStuckTicks>>
                     /\ nudges' \in Nat /\ Nudged'
  <1>1. ASSUME Kept PROVE VitalsInv' /\ autoStuckTicks' \in Nat
    BY <1>0, <1>1 DEF VitalsInv, VitalsTypeOK, SteadyClimb
  <1>2. CASE Second
    <2>1. Kept
      BY <1>0, <1>2 DEF Second, Nudged, VitalsTypeOK, NoFrame, StallLimit
    <2>2. QED
      BY <1>1, <2>1
  <1>3. CASE PingTick
    <2>1. Kept
      BY <1>0, <1>3 DEF PingTick, Nudged, VitalsTypeOK, videoVitals, autoVars
    <2>2. QED
      BY <1>1, <2>1
  <1>4. CASE TestDelay
    BY <1>0, <1>4 DEF TestDelay, Nudged, VitalsInv, VitalsTypeOK, SteadyClimb, videoVitals, autoVars
  <1>5. CASE StatsTick
    <2>1. UNCHANGED <<rtt, ups, autoDiffTicks, target, autoStuckTicks, up, videoAge>>
      BY <1>5 DEF StatsTick, linkVars, autoVars
    <2>2. CASE up /\ videoAge = StallLimit
      <3>1. videoStallNotified' /\ nudges' = IF ~videoStallNotified THEN nudges + 1 ELSE nudges
        BY <1>5, <2>2 DEF StatsTick
      <3>2. QED
        BY <1>0, <1>1, <2>1, <2>2, <3>1 DEF Nudged, VitalsTypeOK
    <2>3. CASE ~(up /\ videoAge = StallLimit)
      <3>1. nudges' = nudges
        BY <1>5, <2>3 DEF StatsTick
      <3>2. QED
        BY <1>0, <1>1, <2>1, <2>3, <3>1 DEF Nudged, VitalsTypeOK
    <2>4. QED
      BY <2>2, <2>3
  <1>6. CASE LoggedIn
    <2>1. Kept
      BY <1>0, <1>6 DEF LoggedIn, Nudged, VitalsTypeOK, linkVars, videoVitals, autoVars
    <2>2. QED
      BY <1>1, <2>1
  <1>7. CASE FrameTimed
    <2>1. Kept
      BY <1>0, <1>7 DEF FrameTimed, Nudged, VitalsTypeOK, linkVars, autoVars
    <2>2. QED
      BY <1>1, <2>1
  <1>8. ASSUME NEW kbps, NEW strained \in BOOLEAN, NEW stuck \in BOOLEAN,
               AutoTimer(kbps, strained, stuck)
        PROVE  VitalsInv' /\ autoStuckTicks' \in Nat
    BY <1>8, AutoTimerKeeps
  <1>9. ASSUME NEW enabled \in BOOLEAN, SetAutoMode(enabled)
        PROVE  VitalsInv' /\ autoStuckTicks' \in Nat
    <2>1. UNCHANGED <<up, rtt, videoAge, videoStallNotified, nudges>>
      BY <1>9 DEF SetAutoMode, linkVars, videoVitals
    <2>2. CASE enabled
      <3>1. /\ target' \in Starts /\ autoDiffTicks' = 0 /\ autoStuckTicks' = 0 /\ ups' = 0
        BY <1>9, <2>2 DEF SetAutoMode
      <3>2. target' \in Rungs /\ (target'.quality # 0 => ~Above(Rung(1, 10), target'))
        BY <3>1, StartsAssumption DEF Rungs, Above, Rung
      <3>3. QED
        BY <1>0, <2>1, <3>1, <3>2 DEF VitalsInv, VitalsTypeOK, Nudged, SteadyClimb
    <2>3. CASE ~enabled
      BY <1>0, <1>9, <2>1, <2>3 DEF SetAutoMode, VitalsInv, VitalsTypeOK, Nudged, SteadyClimb
    <2>4. QED
      BY <2>2, <2>3
  <1>10. CASE UNCHANGED vitalVars
    BY <1>0, <1>10 DEF vitalVars, linkVars, videoVitals, autoVars, VitalsInv, VitalsTypeOK, Nudged,
                       SteadyClimb
  <1>11. QED
    BY <1>2, <1>3, <1>4, <1>5, <1>6, <1>7, <1>8, <1>9, <1>10 DEF VitalsNext

\* session.ts on the watchdog and on auto mode: a stall is worth one nudge, and the
\* picture is made better on a signal that lasts only, from whatever it starts.
THEOREM ActsOnceAndLate == VitalsSpec => []WellMeasured
  <1> DEFINE Inv == VitalsInv /\ autoStuckTicks \in Nat
  <1>1. VitalsInit => Inv
    BY DEF VitalsInit, VitalsInv, VitalsTypeOK, Nudged, SteadyClimb, Rungs, Rung, Above
  <1>2. Inv /\ [VitalsNext]_vitalVars => Inv'
    BY VitalsNextKeeps
  <1>3. Inv => WellMeasured
    BY DEF VitalsInv, VitalsTypeOK, Nudged, WellMeasured, OneNudge
  <1> HIDE DEF Inv
  <1>4. QED
    BY <1>1, <1>2, <1>3, PTL DEF VitalsSpec

-----------------------------------------------------------------------------
(* The codec and the decoder: types. *)

MaybeCodec == Codecs \cup {Null}
Torn == {"no", "paused", "foreign"}
Holes == {"no", "excused", "foreign", "yes"}
Units == [codec : Codecs, key : BOOLEAN, torn : Torn]

Decoders ==
  [engine : MaybeCodec, open : BOOLEAN, queue : Nat, current : MaybeCodec, probing : MaybeCodec,
   late : SUBSET Codecs, failures : Nat, fatal : BOOLEAN, failed : SUBSET Codecs,
   awaiting : BOOLEAN, rebuild : BOOLEAN, lately : BOOLEAN, refused : Nat, shown : BOOLEAN,
   steered : BOOLEAN, sized : BOOLEAN, pending : Units \cup {Null}, call : Calls \cup {Null},
   hole : Holes, mosaic : BOOLEAN, misfed : BOOLEAN, leaked : BOOLEAN]

Sessions ==
  [manual : MaybeCodec, grace : BOOLEAN, overruled : BOOLEAN, failed : SUBSET Codecs,
   pending : Waits \cup {Null},
   prefer : Codecs, offered : SUBSET Codecs, able : SUBSET Codecs,
   askedLately : BOOLEAN, keyAsked : BOOLEAN]

LEMMA VideoConstants ==
  /\ Null \notin Codecs /\ Null \notin Calls /\ Null \notin Waits
  /\ Order[1] \in Codecs
  /\ Limit \in Nat /\ SteerBudget \in Nat \ {0}
<1>1. Order[1] \in Codecs
  <2>1. Len(Order) \in Nat /\ Order \in [1..Len(Order) -> Codecs] /\ Len(Order) # 0
    BY NegotiationAssumption
  <2> QED
    BY <2>1
<1> QED
  BY <1>1, NegotiationAssumption, DecoderAssumption

\* The first of some positions.
LEMMA FirstOf ==
  ASSUME NEW T \in SUBSET Nat, T # {}
  PROVE  Min(T) \in T
<1> DEFINE R == OpToRel(<, Nat)
<1>1. IsWellFoundedOn(R, Nat)
  BY NatLessThanWellFounded
<1>2. \A m, n \in Nat : <<m, n>> \in R <=> m < n
  BY DEF OpToRel
<1> HIDE DEF R
<1>3. PICK x \in T : \A y \in T : ~(<<y, x>> \in R)
  BY <1>1, WFMin
<1>4. ASSUME NEW y \in T PROVE x =< y
  <2>1. x \in Nat /\ y \in Nat
    OBVIOUS
  <2>2. ~(<<y, x>> \in R)
    BY <1>3
  <2>3. ~(y < x)
    BY <1>2, <2>1, <2>2
  <2> QED
    BY <2>1, <2>3
<1> QED
  BY <1>3, <1>4 DEF Min

LEMMA TargetTyped ==
  ASSUME NEW s
  PROVE  NextTarget(s) \in Codecs \cup {Null}
<1>1. Untried(s) \subseteq Nat /\ \A i \in Untried(s) : Order[i] \in Codecs
  BY NegotiationAssumption DEF Untried
<1>2. CASE Untried(s) # {}
  <2>1. Min(Untried(s)) \in Untried(s)
    BY <1>1, <1>2, FirstOf
  <2> QED
    BY <1>1, <1>2, <2>1 DEF NextTarget
<1> QED
  BY <1>2 DEF NextTarget

LEMMA NoTarget ==
  ASSUME NEW s, s.able \subseteq Codecs, NextTarget(s) = Null
  PROVE  s.able \subseteq s.failed
<1>1. Untried(s) \subseteq Nat /\ \A i \in Untried(s) : Order[i] \in Codecs
  BY NegotiationAssumption DEF Untried
<1>2. Untried(s) = {}
  <2> SUFFICES ASSUME Untried(s) # {} PROVE FALSE
      OBVIOUS
  <2>1. Order[Min(Untried(s))] \in Codecs
    BY <1>1, FirstOf
  <2> QED
    BY <2>1, VideoConstants DEF NextTarget
<1>3. ASSUME NEW c \in s.able, c \notin s.failed PROVE FALSE
  <2>1. c \in ToSet(Order)
    BY <1>3 DEF Codecs
  <2>2. PICK i \in DOMAIN Order : Order[i] = c
    BY <2>1 DEF ToSet
  <2> QED
    BY <1>2, <1>3, <2>2 DEF Untried
<1> QED
  BY <1>3

-----------------------------------------------------------------------------
(* The decoder. *)

\* No engine is open beside a probe, none after a fatal failure; the open one is of
\* the codec at hand; a codec that failed is not tried again.
Wired(d) ==
  /\ d.probing # Null => ~d.open /\ d.current = Null /\ d.probing \notin d.failed
  /\ d.current \notin d.failed
  /\ d.fatal => ~d.open /\ d.probing = Null
  /\ d.failures >= MaxFailures => d.fatal
  /\ d.open => d.current = d.engine /\ d.engine # Null
  /\ d.engine = Null => d.queue = 0
  /\ ~d.mosaic /\ ~d.leaked

\* An engine that misses a unit waits for a key frame or for its rebuild, or takes none.
Covered(d) ==
  d.open /\ d.hole = "yes" /\ ~d.awaiting => d.rebuild \/ kind[d.engine] = "rejects"

LEMMA InitWired ==
  ASSUME NEW d \in Decoders, NEW codec \in Codecs, Wired(d)
  PROVE  LET r == InitDecoder(d, codec) IN
         /\ r \in Decoders /\ Wired(r)
         /\ r.fatal = d.fatal /\ r.call = d.call
         /\ r = d \/ ~r.open
         /\ ~d.fatal /\ d.probing # codec /\ codec \notin d.failed => ~r.open
<1> DEFINE r == InitDecoder(d, codec)
           lates == IF d.probing = Null THEN d.late ELSE d.late \cup {d.probing}
           new == [d EXCEPT !.engine = Null, !.open = FALSE, !.queue = 0, !.current = Null,
                            !.rebuild = FALSE, !.lately = TRUE, !.probing = codec,
                            !.late = lates]
           skips == d.failures >= MaxFailures \/ d.fatal \/ d.probing = codec \/ codec \in d.failed
<1>1. r = IF skips THEN d ELSE new
  BY DEF InitDecoder
<1>0. lates \in SUBSET Codecs /\ d.failed \subseteq Codecs
  BY DEF Decoders, MaybeCodec
<1> HIDE DEF lates
<1>2. /\ new \in Decoders
      /\ new.engine = Null /\ new.open = FALSE /\ new.current = Null /\ new.probing = codec
      /\ new.queue = 0
      /\ new.fatal = d.fatal /\ new.call = d.call /\ new.failed = d.failed
      /\ new.failures = d.failures /\ new.mosaic = d.mosaic /\ new.leaked = d.leaked
  BY <1>0 DEF Decoders, MaybeCodec
<1> HIDE DEF r, new
<1>3. ~skips => Wired(new)
  BY <1>0, <1>2, VideoConstants DEF Wired
<1>4. skips /\ ~d.fatal /\ d.probing # codec => codec \in d.failed
  BY DEF Wired
<1> HIDE DEF skips
<1> QED
  BY <1>1, <1>2, <1>3, <1>4 DEF r

LEMMA ResetWired ==
  ASSUME NEW d \in Decoders, Wired(d)
  PROVE  LET r == Reset(d) IN
         r \in Decoders /\ Wired(r) /\ ~r.open /\ ~r.fatal /\ r.call = d.call
<1> DEFINE new == [Drop(d) EXCEPT !.rebuild = FALSE, !.sized = FALSE, !.awaiting = FALSE,
                                  !.failures = 0, !.fatal = FALSE,
                                  !.refused = 0, !.shown = FALSE, !.steered = FALSE]
<1>1. /\ new \in Decoders
      /\ new.engine = d.engine /\ new.open = d.open /\ new.current = d.current
      /\ new.queue = d.queue
      /\ new.probing = d.probing /\ new.fatal = FALSE /\ new.call = d.call /\ new.failed = d.failed
      /\ new.failures = 0 /\ new.mosaic = d.mosaic /\ new.leaked = d.leaked
  BY DEF Decoders, Drop
<1>2. Reset(d) = IF new.current = Null THEN new ELSE InitDecoder(new, new.current)
  BY DEF Reset, Reinit
<1> HIDE DEF new
<1>3. Wired(new)
  BY <1>1 DEF Wired, MaxFailures
<1>4. CASE new.current = Null
  BY <1>1, <1>2, <1>3, <1>4 DEF Wired
<1>5. CASE new.current # Null
  <2>1. new.current \in Codecs
    BY <1>1, <1>5 DEF Decoders, MaybeCodec
  <2>2. new.probing # new.current /\ new.current \notin new.failed
    BY <1>3, <1>5 DEF Wired
  <2> QED
    BY <1>1, <1>2, <1>3, <1>5, <2>1, <2>2, InitWired
<1> QED
  BY <1>4, <1>5

LEMMA MissingWired ==
  ASSUME NEW d \in Decoders, Wired(d), NEW excused \in BOOLEAN
  PROVE  LET r == Missing(d, excused) IN
         /\ r \in Decoders /\ Wired(r)
         /\ r.fatal = d.fatal /\ r.call = d.call
         /\ Covered(d) /\ (excused \/ d.awaiting \/ d.rebuild) => Covered(r)
         /\ ~d.open => Covered(r)
<1> DEFINE new == [d EXCEPT !.hole = IF excused THEN "excused" ELSE "yes"]
<1>1. CASE ~d.open \/ (excused /\ d.hole # "no")
  BY <1>1 DEF Missing, Covered
<1>2. CASE d.open /\ ~(excused /\ d.hole # "no")
  <2>1. /\ new \in Decoders /\ Missing(d, excused) = new
        /\ new.hole = IF excused THEN "excused" ELSE "yes"
        /\ new.engine = d.engine /\ new.open = d.open /\ new.current = d.current
        /\ new.queue = d.queue
        /\ new.probing = d.probing /\ new.fatal = d.fatal /\ new.call = d.call
        /\ new.failed = d.failed /\ new.failures = d.failures
        /\ new.mosaic = d.mosaic /\ new.leaked = d.leaked
        /\ new.awaiting = d.awaiting /\ new.rebuild = d.rebuild
    BY <1>2 DEF Decoders, Holes, Missing
  <2> HIDE DEF new
  <2>2. Wired(new)
    BY <2>1 DEF Wired
  <2>3. Covered(d) /\ (excused \/ d.awaiting \/ d.rebuild) => Covered(new)
    BY <2>1 DEF Covered
  <2> QED
    BY <1>2, <2>1, <2>2, <2>3
<1> QED
  BY <1>1, <1>2

LEMMA FlushWired ==
  ASSUME NEW d \in Decoders, Wired(d), Covered(d), d.open, ~d.rebuild
  PROVE  LET r == Flush(d, kind[d.engine]) IN
         /\ r \in Decoders /\ Wired(r) /\ Covered(r)
         /\ r.fatal = d.fatal
<1> DEFINE unit == d.pending
           rest == Drop(d)
           fed == [rest EXCEPT !.awaiting = FALSE]
           r == Flush(d, kind[d.engine])
<1> SUFFICES r \in Decoders /\ Wired(r) /\ Covered(r) /\ r.fatal = d.fatal
    OBVIOUS
<1>1. CASE unit = Null
  BY <1>1 DEF Flush, Wired
<1>2. CASE unit # Null
  <2>1. unit \in Units
    BY <1>2 DEF Decoders
  <2>2. /\ rest \in Decoders /\ rest.call = d.call
        /\ rest.queue = d.queue /\ rest.engine = d.engine /\ rest.open = d.open /\ rest.current = d.current
        /\ rest.probing = d.probing /\ rest.fatal = d.fatal /\ rest.failed = d.failed
        /\ rest.failures = d.failures /\ rest.mosaic = d.mosaic /\ rest.leaked = d.leaked
        /\ rest.awaiting = d.awaiting /\ rest.rebuild = d.rebuild /\ rest.hole = d.hole
    BY DEF Drop, Decoders
  <2>3. /\ fed \in Decoders
        /\ fed.queue = d.queue /\ fed.engine = d.engine /\ fed.open = d.open /\ fed.current = d.current
        /\ fed.probing = d.probing /\ fed.fatal = d.fatal /\ fed.failed = d.failed
        /\ fed.failures = d.failures /\ fed.mosaic = d.mosaic /\ fed.leaked = d.leaked
        /\ fed.awaiting = FALSE /\ fed.rebuild = d.rebuild /\ fed.hole = d.hole
    BY DEF Drop, Decoders
  <2>4. r = IF d.awaiting /\ ~unit.key THEN Missing(rest, FALSE)
            ELSE IF ~d.awaiting /\ ~unit.key /\ d.queue > Limit THEN Missing(rest, TRUE)
            ELSE IF kind[d.engine] = "rejects" THEN Refuse(fed, unit) ELSE Decode(fed, unit)
    BY <1>2 DEF Flush
  <2> HIDE DEF unit, rest, fed, r
  <2>5. Wired(rest) /\ Covered(rest) /\ Wired(fed) /\ ~d.fatal
    BY <2>2, <2>3 DEF Wired, Covered
  <2>6. CASE d.awaiting /\ ~unit.key
    BY <2>2, <2>4, <2>5, <2>6, MissingWired
  <2>7. CASE ~d.awaiting /\ ~unit.key /\ d.queue > Limit
    BY <2>2, <2>4, <2>5, <2>7, MissingWired
  <2>8. CASE /\ ~(d.awaiting /\ ~unit.key) /\ ~(~d.awaiting /\ ~unit.key /\ d.queue > Limit)
             /\ kind[d.engine] = "rejects"
    <3>1. r = Refuse(fed, unit)
      BY <2>4, <2>8
    <3> DEFINE counts == unit.key /\ ~fed.shown /\ ~fed.steered
               over == counts /\ fed.refused + 1 >= SteerBudget
               refused == IF over THEN 0 ELSE IF counts THEN fed.refused + 1 ELSE fed.refused
               steered == fed.steered \/ over
               call == IF over THEN Call("undecodable", unit.codec) ELSE fed.call
               new == [fed EXCEPT !.refused = refused, !.steered = steered, !.call = call]
    <3>2. refused \in Nat /\ steered \in BOOLEAN /\ call \in Calls \cup {Null}
      <4>1. refused \in Nat
        BY <2>3 DEF Decoders
      <4>2. call \in Calls \cup {Null}
        BY <2>1, <2>3 DEF Call, Calls, Decoders, Units
      <4> QED
        BY <4>1, <4>2
    <3>3. r = new
      BY <3>1 DEF Refuse
    <3> HIDE DEF counts, over, refused, steered, call
    <3>4. /\ new \in Decoders
          /\ new.engine = fed.engine /\ new.open = fed.open /\ new.current = fed.current
          /\ new.probing = fed.probing /\ new.fatal = fed.fatal /\ new.failed = fed.failed
          /\ new.queue = fed.queue /\ new.failures = fed.failures /\ new.mosaic = fed.mosaic /\ new.leaked = fed.leaked
      BY <2>3, <3>2 DEF Decoders
    <3> HIDE DEF new
    <3> QED
      BY <2>3, <2>5, <2>8, <3>3, <3>4 DEF Wired, Covered
  <2>9. CASE /\ ~(d.awaiting /\ ~unit.key) /\ ~(~d.awaiting /\ ~unit.key /\ d.queue > Limit)
             /\ kind[d.engine] # "rejects"
    <3> DEFINE hole == HoleUnder(fed, unit)
               mosaic == fed.mosaic \/ hole = "yes"
               misfed == fed.misfed \/ unit.codec # fed.engine
               queue == fed.queue + 1
               taken == [fed EXCEPT !.queue = queue, !.hole = hole]
               new == [taken EXCEPT !.mosaic = mosaic, !.misfed = misfed]
    <3>1. r = new
      BY <2>4, <2>9 DEF Decode
    <3>2. hole # "yes" /\ hole \in Holes
      <4>1. unit.key \/ d.hole # "yes"
        BY <2>1, <2>9 DEF Covered, Units
      <4> QED
        BY <2>3, <4>1 DEF Decoders, Holes, HoleUnder
    <3>5. queue \in Nat
      BY <2>3 DEF Decoders
    <3>4. ~mosaic /\ mosaic \in BOOLEAN /\ misfed \in BOOLEAN
      BY <2>5, <3>2 DEF Wired
    <3> HIDE DEF hole, mosaic, misfed, queue
    <3>6. /\ taken \in Decoders /\ taken.hole = hole
          /\ taken.engine = fed.engine /\ taken.open = fed.open /\ taken.current = fed.current
          /\ taken.probing = fed.probing /\ taken.fatal = fed.fatal /\ taken.failed = fed.failed
          /\ taken.failures = fed.failures /\ taken.leaked = fed.leaked
      BY <2>3, <3>2, <3>5 DEF Decoders
    <3> HIDE DEF taken
    <3>3. /\ new \in Decoders /\ new.hole = hole /\ new.mosaic = mosaic
          /\ new.engine = fed.engine /\ new.open = fed.open /\ new.current = fed.current
          /\ new.probing = fed.probing /\ new.fatal = fed.fatal /\ new.failed = fed.failed
          /\ new.failures = fed.failures /\ new.leaked = fed.leaked
      BY <3>4, <3>6 DEF Decoders
    <3> HIDE DEF new
    <3> QED
      BY <2>3, <2>5, <3>1, <3>2, <3>3, <3>4 DEF Wired, Covered
  <2>10. unit.key \in BOOLEAN
    BY <2>1 DEF Units
  <2> QED
    BY <2>6, <2>7, <2>8, <2>9
<1> QED
  BY <1>1, <1>2

\* A delta that refers to units of another display than those the engine has decoded.
Mixes(unit) == unit # Null /\ unit.torn = "foreign" /\ ~unit.key

\* An engine that decodes over its own display, and one that waits for a keyframe of it.
Clean(d) == d.open => d.hole # "foreign" /\ (Mixes(d.pending) => d.hole = "yes")
Blank(d) == d.pending = Null /\ (d.open => d.hole = "yes")

\* What becomes of a decoder that is given no unit: its engine is as it was, or new.
Ungiven(d, r) ==
  /\ r.open => r.hole = "yes" \/ (d.open /\ r.hole = d.hole)
  /\ r.pending \in {d.pending, Null}

LEMMA UngivenKeeps ==
  ASSUME NEW d, NEW r, Ungiven(d, r)
  PROVE  (Clean(d) => Clean(r)) /\ (Blank(d) => Blank(r))
  BY DEF Ungiven, Clean, Blank, Mixes

LEMMA InitUngiven ==
  ASSUME NEW d \in Decoders, NEW codec
  PROVE  Ungiven(d, InitDecoder(d, codec))
<1> DEFINE lates == IF d.probing = Null THEN d.late ELSE d.late \cup {d.probing}
           r == [d EXCEPT !.engine = Null, !.open = FALSE, !.queue = 0, !.current = Null,
                          !.rebuild = FALSE, !.lately = TRUE, !.probing = codec,
                          !.late = lates]
<1>1. InitDecoder(d, codec) \in {d, r}
  BY DEF InitDecoder
<1> HIDE DEF lates
<1>2. ~r.open /\ r.pending = d.pending
  BY DEF Decoders
<1> QED
  BY <1>1, <1>2 DEF Ungiven

LEMMA ProbeUngiven ==
  ASSUME NEW d \in Decoders, NEW k
  PROVE  Ungiven(d, ProbeAnswered(d, k))
<1> DEFINE done == [d EXCEPT !.probing = Null]
           failing == [done EXCEPT !.failures = @ + 1]
           codec == d.probing
           leaked == done.leaked \/ done.open
           new == [done EXCEPT !.engine = codec, !.open = TRUE, !.current = codec,
                               !.hole = "yes", !.leaked = leaked, !.shown = FALSE,
                               !.refused = 0, !.steered = FALSE, !.awaiting = TRUE,
                               !.call = Call("needKey", codec)]
<1>1. done.open = d.open /\ done.hole = d.hole /\ done.pending = d.pending /\ done \in Decoders
  BY DEF Decoders, MaybeCodec
<1>6. done.failures + 1 \in Nat
  BY <1>1 DEF Decoders
<1>2. /\ failing.open = d.open /\ failing.hole = d.hole /\ failing.pending = d.pending
      /\ failing \in Decoders
  BY <1>1, <1>6 DEF Decoders
<1>3. new.hole = "yes" /\ new.pending = d.pending
  BY <1>1 DEF Decoders
<1>4. ProbeAnswered(d, k) \in {FocusError(done, codec), FocusError(failing, codec), failing, new}
  BY DEF ProbeAnswered, Configured
<1> HIDE DEF done, failing, new
<1>5. ASSUME NEW x \in {done, failing}
      PROVE  LET r == FocusError(x, codec) IN r.open = d.open /\ r.hole = d.hole /\ r.pending = d.pending
  BY <1>1, <1>2 DEF FocusError, Decoders
<1> QED
  BY <1>2, <1>3, <1>4, <1>5 DEF Ungiven

LEMMA EngineUngiven ==
  ASSUME NEW d \in Decoders, NEW resized, NEW c, NEW k
  PROVE  /\ Ungiven(d, Output(d, resized))
         /\ Ungiven(d, LateAnswered(d, c))
         /\ Ungiven(d, EngineFails(d, k))
<1>1. Ungiven(d, Output(d, resized))
  BY DEF Output, Ungiven, Decoders
<1>2. Ungiven(d, LateAnswered(d, c))
  BY DEF LateAnswered, Ungiven, Decoders
<1>3. Ungiven(d, EngineFails(d, k))
  <2> DEFINE closed == [d EXCEPT !.open = FALSE, !.queue = 0]
             failing == [closed EXCEPT !.failures = @ + 1]
             codec == d.engine
  <2>1. ~closed.open /\ closed.pending = d.pending /\ closed \in Decoders
    BY DEF Decoders
  <2>7. closed.failures + 1 \in Nat
    BY <2>1 DEF Decoders
  <2>2. ~failing.open /\ failing.pending = d.pending /\ failing \in Decoders
    BY <2>1, <2>7 DEF Decoders
  <2>3. EngineFails(d, k) \in
          {closed, Unsupported(closed, codec), FocusError(failing, codec),
           [failing EXCEPT !.rebuild = TRUE, !.call = Call("reinit", codec)]}
    BY DEF EngineFails
  <2> HIDE DEF closed, failing, codec
  <2>4. LET r == Unsupported(closed, codec) IN ~r.open /\ r.pending = d.pending
    BY <2>1 DEF Unsupported, Decoders
  <2>5. LET r == FocusError(failing, codec) IN ~r.open /\ r.pending = d.pending
    BY <2>2 DEF FocusError, Decoders
  <2>6. LET r == [failing EXCEPT !.rebuild = TRUE, !.call = Call("reinit", codec)]
        IN  ~r.open /\ r.pending = d.pending
    BY <2>2 DEF Decoders
  <2> QED
    BY <2>1, <2>3, <2>4, <2>5, <2>6 DEF Ungiven
<1> QED
  BY <1>1, <1>2, <1>3

\* A reset drops what waits, and closes the engine.
LEMMA ResetBlank ==
  ASSUME NEW d \in Decoders, Wired(d)
  PROVE  Blank(Reset(d)) /\ Clean(Reset(d)) /\ ~Reset(d).open
<1> DEFINE new == [Drop(d) EXCEPT !.rebuild = FALSE, !.sized = FALSE, !.awaiting = FALSE,
                                  !.failures = 0, !.fatal = FALSE,
                                  !.refused = 0, !.shown = FALSE, !.steered = FALSE]
<1>1. new \in Decoders /\ new.pending = Null
  BY DEF Decoders, Drop
<1>2. Reset(d) \in {new, InitDecoder(new, new.current)}
  BY DEF Reset, Reinit
<1> HIDE DEF new
<1>3. Reset(d).pending = Null
  BY <1>1, <1>2, InitUngiven DEF Ungiven
<1>4. ~Reset(d).open
  BY ResetWired
<1> QED
  BY <1>3, <1>4 DEF Blank, Clean

\* The unit that waits goes to an engine that may take it.
LEMMA FlushClean ==
  ASSUME NEW d \in Decoders, d.open, Clean(d)
  PROVE  LET r == Flush(d, kind[d.engine]) IN
         /\ r.hole # "foreign"
         /\ d.pending = Null => r = d
<1> DEFINE unit == d.pending
           rest == Drop(d)
           fed == [rest EXCEPT !.awaiting = FALSE]
           r == Flush(d, kind[d.engine])
<1>1. CASE unit = Null
  BY <1>1 DEF Flush, Clean
<1>2. CASE unit # Null
  <2>1. rest.open /\ rest.hole = d.hole /\ rest \in Decoders
    BY DEF Drop, Decoders
  <2>2. fed.hole = d.hole /\ fed \in Decoders
    BY <2>1 DEF Decoders
  <2>3. r \in {Missing(rest, FALSE), Missing(rest, TRUE), Refuse(fed, unit), Decode(fed, unit)}
    BY <1>2 DEF Flush
  <2> HIDE DEF rest, fed, r
  <2>4. Missing(rest, FALSE).hole = "yes" /\ Missing(rest, TRUE).hole \in {"excused", d.hole}
    BY <2>1 DEF Missing, Decoders
  <2>5. Refuse(fed, unit).hole = d.hole
    BY <2>2 DEF Refuse, Decoders
  <2>6. Decode(fed, unit).hole # "foreign"
    <3>1. Decode(fed, unit).hole = HoleUnder(fed, unit)
      BY <2>2 DEF Decode, Decoders
    <3>2. unit.key \in BOOLEAN
      BY <1>2 DEF Decoders, Units
    <3>3. HoleUnder(fed, unit) # "foreign"
      BY <1>2, <2>2, <3>2 DEF HoleUnder, Clean, Mixes
    <3> QED
      BY <3>1, <3>3
  <2> QED
    BY <1>2, <2>3, <2>4, <2>5, <2>6 DEF Clean, r
<1> QED
  BY <1>1, <1>2

\* A unit is lost: what is missing is not of another display.
LEMMA MissingClean ==
  ASSUME NEW d \in Decoders
  PROVE  Clean(Missing(d, FALSE))
  BY DEF Missing, Clean, Decoders

\* A packet: whatever it makes of it, the decoder is not given up on account of it, and
\* does not mix displays unless it did.
LEMMA PacketWired ==
  ASSUME NEW d \in Decoders, Wired(d), Covered(d), NEW unit \in Units
  PROVE  LET r == HandlePacket(d, unit, kind) IN
         /\ r \in Decoders /\ Wired(r) /\ Covered(r) /\ r.fatal = d.fatal
         /\ Clean(d) /\ (unit.torn = "foreign" => Blank(d)) => Clean(r)
<1> DEFINE known == IF unit.codec = d.current THEN d ELSE InitDecoder(d, unit.codec)
           clean == [Drop(known) EXCEPT !.rebuild = FALSE]
           ready == IF known.rebuild THEN Rebuilt(known, unit.codec) ELSE known
           flushed == Flush(ready, kind[ready.engine])
           r == HandlePacket(d, unit, kind)
           pure == Clean(d) /\ (unit.torn = "foreign" => Blank(d))
<1> SUFFICES r \in Decoders /\ Wired(r) /\ Covered(r) /\ r.fatal = d.fatal /\ (pure => Clean(r))
    OBVIOUS
<1>0. unit.codec \in Codecs
  BY DEF Units
<1>1. known \in Decoders /\ Wired(known) /\ known.fatal = d.fatal /\ Covered(known)
  BY <1>0, InitWired DEF Covered
<1>6. known = d \/ ~known.open
  BY <1>0, InitWired
<1>2. r = IF d.fatal THEN d
          ELSE IF known.rebuild /\ known.lately THEN Missing(known, FALSE)
          ELSE IF ~ready.open THEN Missing(ready, FALSE)
          ELSE [flushed EXCEPT !.pending = unit]
  BY DEF HandlePacket
<1> HIDE DEF known, r, pure
<1>3. CASE ~d.fatal /\ known.rebuild
  <2>1. /\ clean \in Decoders
        /\ clean.engine = known.engine /\ clean.open = known.open
        /\ clean.current = known.current /\ clean.queue = known.queue
        /\ clean.probing = known.probing /\ clean.fatal = known.fatal
        /\ clean.failed = known.failed /\ clean.failures = known.failures
        /\ clean.mosaic = known.mosaic /\ clean.leaked = known.leaked
    BY <1>1 DEF Decoders, Drop
  <2> DEFINE codec == IF known.current # Null THEN known.current ELSE unit.codec
  <2>2. codec \in Codecs
    BY <1>0, <1>1 DEF Decoders, MaybeCodec
  <2>3. ready = InitDecoder(clean, codec)
    BY <1>3 DEF Rebuilt
  <2> HIDE DEF clean, ready
  <2>4. Wired(clean)
    BY <1>1, <2>1 DEF Wired
  <2>5. ready \in Decoders /\ Wired(ready) /\ ready.fatal = d.fatal
    BY <1>1, <2>1, <2>2, <2>3, <2>4, InitWired
  <2>6. ~ready.open
    <3>1. CASE known.current = Null
      <4>1. ~clean.open
        BY <2>1, <2>4, <3>1 DEF Wired
      <4> QED
        BY <2>1, <2>2, <2>3, <2>4, <4>1, InitWired
    <3>2. CASE known.current # Null
      <4>1. ~clean.fatal /\ clean.probing # codec /\ codec \notin clean.failed
        BY <1>1, <1>3, <2>1, <2>4, <3>2 DEF Wired
      <4> QED
        BY <2>1, <2>2, <2>3, <2>4, <4>1, InitWired
    <3> QED
      BY <3>1, <3>2
  <2> QED
    BY <1>1, <1>2, <1>3, <2>5, <2>6, MissingWired, MissingClean
<1>4. CASE ~d.fatal /\ ~known.rebuild
  <2>1. ready = known
    BY <1>4
  <2> HIDE DEF ready
  <2>2. CASE ~known.open
    BY <1>1, <1>2, <1>4, <2>1, <2>2, MissingWired, MissingClean
  <2>3. CASE known.open
    <3>1. flushed \in Decoders /\ Wired(flushed) /\ Covered(flushed) /\ flushed.fatal = d.fatal
      BY <1>1, <1>4, <2>1, <2>3, FlushWired
    <3> DEFINE new == [flushed EXCEPT !.pending = unit]
    <3>5. pure => flushed.hole # "foreign" /\ (d.pending = Null => flushed = d)
      BY <1>6, <2>1, <2>3, FlushClean DEF pure
    <3> HIDE DEF flushed
    <3>2. /\ new \in Decoders
          /\ new.engine = flushed.engine /\ new.open = flushed.open
          /\ new.current = flushed.current /\ new.queue = flushed.queue
          /\ new.probing = flushed.probing /\ new.fatal = flushed.fatal
          /\ new.failed = flushed.failed /\ new.failures = flushed.failures
          /\ new.mosaic = flushed.mosaic /\ new.leaked = flushed.leaked
          /\ new.awaiting = flushed.awaiting /\ new.rebuild = flushed.rebuild
          /\ new.hole = flushed.hole /\ new.pending = unit
      BY <3>1 DEF Decoders
    <3>3. r = new
      BY <1>2, <1>4, <2>1, <2>3
    <3> HIDE DEF new
    <3>4. Wired(new) /\ Covered(new)
      BY <3>1, <3>2 DEF Wired, Covered
    <3>6. pure => Clean(new)
      BY <1>6, <2>3, <3>2, <3>5 DEF Clean, Blank, Mixes, pure
    <3> QED
      BY <3>1, <3>2, <3>3, <3>4, <3>6
  <2> QED
    BY <2>2, <2>3
<1>5. CASE d.fatal
  BY <1>2, <1>5 DEF pure
<1> QED
  BY <1>3, <1>4, <1>5 DEF Decoders

\* What a callback may leave: only one that says so gives the decoder up.
Said(d) == d.fatal => d.call # Null /\ d.call.kind = "fatal"

LEMMA FocusWired ==
  ASSUME NEW d \in Decoders, Wired(d), ~d.open, d.probing = Null, NEW codec \in Codecs
  PROVE  LET r == FocusError(d, codec) IN
         r \in Decoders /\ Wired(r) /\ Covered(r) /\ Said(r)
<1> DEFINE call == Call("fatal", codec)
           r == FocusError(d, codec)
<1> SUFFICES r \in Decoders /\ Wired(r) /\ Covered(r) /\ Said(r)
    OBVIOUS
<1>1. call \in Calls /\ call.kind = "fatal"
  BY DEF Call, Calls
<1> HIDE DEF call
<1>2. /\ r \in Decoders /\ r.call = call /\ ~r.open
      /\ r.engine = d.engine /\ r.current = d.current /\ r.queue = d.queue
      /\ r.probing = Null /\ r.fatal = TRUE /\ r.failed = d.failed
      /\ r.failures = MaxFailures /\ r.mosaic = d.mosaic /\ r.leaked = d.leaked
  BY <1>1 DEF FocusError, Decoders, MaxFailures, call
<1> HIDE DEF r
<1> QED
  BY <1>1, <1>2, VideoConstants DEF Wired, Covered, Said, r

LEMMA ProbeWired ==
  ASSUME NEW d \in Decoders, Wired(d), Covered(d), d.probing # Null, NEW k
  PROVE  LET r == ProbeAnswered(d, k) IN
         r \in Decoders /\ Wired(r) /\ Covered(r) /\ Said(r)
<1> DEFINE codec == d.probing
           done == [d EXCEPT !.probing = Null]
           failing == [done EXCEPT !.failures = @ + 1]
           r == ProbeAnswered(d, k)
<1> SUFFICES r \in Decoders /\ Wired(r) /\ Covered(r) /\ Said(r)
    OBVIOUS
<1>0. codec \in Codecs /\ ~d.open /\ ~d.fatal /\ d.current = Null /\ codec \notin d.failed
  BY DEF Decoders, MaybeCodec, Wired
<1>1. /\ done \in Decoders
      /\ done.probing = Null /\ done.open = FALSE /\ done.fatal = FALSE
      /\ done.current = Null /\ done.failed = d.failed /\ done.failures = d.failures
      /\ done.engine = d.engine /\ done.queue = d.queue
      /\ done.mosaic = d.mosaic /\ done.leaked = d.leaked
  BY <1>0 DEF Decoders, MaybeCodec
<1> HIDE DEF done
<1>8. /\ failing \in Decoders /\ failing.failures = done.failures + 1
      /\ failing.probing = Null /\ failing.open = FALSE /\ failing.fatal = FALSE
      /\ failing.current = Null /\ failing.failed = d.failed
      /\ failing.engine = d.engine /\ failing.queue = d.queue
      /\ failing.mosaic = d.mosaic /\ failing.leaked = d.leaked
  <2>1. done.failures + 1 \in Nat
    BY <1>1 DEF Decoders
  <2> QED
    BY <1>1, <2>1 DEF Decoders
<1>2. r = IF k = "noconfig" THEN FocusError(done, codec)
          ELSE IF k = "throws"
               THEN IF failing.failures >= MaxFailures THEN FocusError(failing, codec) ELSE failing
          ELSE Configured(done, codec)
  BY DEF ProbeAnswered, done
<1> HIDE DEF codec, failing, r
<1>3. Wired(done) /\ (failing.failures < MaxFailures => Wired(failing))
  BY <1>1, <1>8, VideoConstants DEF Wired, MaxFailures, Decoders
<1>4. CASE k = "noconfig"
  BY <1>0, <1>1, <1>2, <1>3, <1>4, FocusWired
<1>5. CASE k # "noconfig" /\ k = "throws" /\ failing.failures >= MaxFailures
  <2> DEFINE new == FocusError(failing, codec)
             call == Call("fatal", codec)
  <2>1. call \in Calls /\ call.kind = "fatal"
    BY <1>0 DEF Call, Calls
  <2> HIDE DEF call
  <2>2. /\ new \in Decoders /\ new.call = call /\ ~new.open
        /\ new.engine = d.engine /\ new.current = Null /\ new.queue = d.queue
        /\ new.probing = Null /\ new.fatal = TRUE /\ new.failed = d.failed
        /\ new.mosaic = d.mosaic /\ new.leaked = d.leaked
    BY <1>1, <1>8, <2>1 DEF FocusError, Decoders, MaxFailures, call
  <2>3. r = new
    BY <1>2, <1>5
  <2> HIDE DEF new
  <2> QED
    BY <1>1, <1>3, <1>8, <2>1, <2>2, <2>3, VideoConstants DEF Wired, Covered, Said
<1>6. CASE k # "noconfig" /\ k = "throws" /\ ~(failing.failures >= MaxFailures)
  <2>1. r = failing /\ failing.failures < MaxFailures
    BY <1>2, <1>6, <1>8 DEF MaxFailures, Decoders
  <2> QED
    BY <1>1, <1>8, <1>3, <2>1 DEF Covered, Said
<1>7. CASE k # "noconfig" /\ k # "throws"
  <2> DEFINE call == Call("needKey", codec)
             leaked == done.leaked \/ done.open
             new == [done EXCEPT !.engine = codec, !.open = TRUE, !.current = codec,
                                 !.hole = "yes", !.leaked = leaked, !.shown = FALSE,
                                 !.refused = 0, !.steered = FALSE, !.awaiting = TRUE,
                                 !.call = call]
  <2>1. call \in Calls
    BY <1>0 DEF Call, Calls
  <2>2. leaked \in BOOLEAN /\ ~leaked
    BY <1>1, <1>8, <1>3 DEF Wired, Decoders
  <2>3. r = new
    BY <1>2, <1>7 DEF Configured
  <2> HIDE DEF call, leaked
  <2>4. /\ new \in Decoders /\ new.open /\ new.engine = codec /\ new.current = codec
        /\ new.probing = Null /\ new.fatal = FALSE /\ new.failed = d.failed
        /\ new.failures = done.failures /\ new.mosaic = d.mosaic /\ new.leaked = leaked
        /\ new.awaiting
    BY <1>0, <1>1, <2>1, <2>2 DEF Decoders, Holes, MaybeCodec
  <2> HIDE DEF new
  <2> QED
    BY <1>0, <1>1, <1>3, <2>2, <2>3, <2>4, VideoConstants DEF Wired, Covered, Said
<1> QED
  BY <1>4, <1>5, <1>6, <1>7

LEMMA LateWired ==
  ASSUME NEW d \in Decoders, Wired(d), Covered(d), NEW c
  PROVE  LET r == LateAnswered(d, c) IN
         r \in Decoders /\ Wired(r) /\ Covered(r) /\ r.fatal = d.fatal
<1> DEFINE lates == d.late \ {c}
           r == [d EXCEPT !.late = lates]
<1>1. lates \in SUBSET Codecs
  BY DEF Decoders
<1>2. LateAnswered(d, c) = r
  BY DEF LateAnswered
<1> HIDE DEF lates
<1>3. /\ r \in Decoders
      /\ r.engine = d.engine /\ r.open = d.open /\ r.current = d.current /\ r.queue = d.queue
      /\ r.probing = d.probing /\ r.fatal = d.fatal /\ r.failed = d.failed
      /\ r.failures = d.failures /\ r.mosaic = d.mosaic /\ r.leaked = d.leaked
      /\ r.awaiting = d.awaiting /\ r.rebuild = d.rebuild /\ r.hole = d.hole
  BY <1>1 DEF Decoders
<1> HIDE DEF r
<1> QED
  BY <1>2, <1>3 DEF Wired, Covered

LEMMA OutputWired ==
  ASSUME NEW d \in Decoders, Wired(d), Covered(d), d.queue > 0, NEW resized \in BOOLEAN
  PROVE  LET r == Output(d, resized) IN
         r \in Decoders /\ Wired(r) /\ Covered(r) /\ r.fatal = d.fatal
<1> DEFINE stale == d.sized /\ resized
           queue == d.queue - 1
           rebuild == d.rebuild \/ stale
           call == IF stale THEN Call("reinit", d.engine) ELSE d.call
           r == [d EXCEPT !.queue = queue, !.failures = 0, !.refused = 0, !.shown = TRUE,
                          !.sized = TRUE, !.rebuild = rebuild, !.call = call]
<1>1. queue \in Nat /\ d.engine # Null
  BY DEF Decoders, Wired
<1>2. call \in Calls \cup {Null}
  BY <1>1 DEF Decoders, MaybeCodec, Call, Calls
<1>3. rebuild \in BOOLEAN /\ (d.rebuild => rebuild)
  BY DEF Decoders
<1>4. Output(d, resized) = r
  BY DEF Output
<1> HIDE DEF stale, queue, rebuild, call
<1>5. /\ r \in Decoders /\ r.rebuild = rebuild /\ r.failures = 0
      /\ r.engine = d.engine /\ r.open = d.open /\ r.current = d.current
      /\ r.probing = d.probing /\ r.fatal = d.fatal /\ r.failed = d.failed
      /\ r.mosaic = d.mosaic /\ r.leaked = d.leaked
      /\ r.awaiting = d.awaiting /\ r.hole = d.hole
  BY <1>1, <1>2, <1>3 DEF Decoders
<1> HIDE DEF r
<1> QED
  BY <1>1, <1>3, <1>4, <1>5 DEF Wired, Covered, MaxFailures

LEMMA FailsWired ==
  ASSUME NEW d \in Decoders, Wired(d), d.open, NEW k
  PROVE  LET r == EngineFails(d, k) IN
         r \in Decoders /\ Wired(r) /\ Covered(r) /\ Said(r)
<1> DEFINE codec == d.engine
           closed == [d EXCEPT !.open = FALSE, !.queue = 0]
           failing == [closed EXCEPT !.failures = @ + 1]
           r == EngineFails(d, k)
<1> SUFFICES r \in Decoders /\ Wired(r) /\ Covered(r) /\ Said(r)
    OBVIOUS
<1>0. codec \in Codecs /\ ~d.fatal /\ d.probing = Null
  BY DEF Decoders, MaybeCodec, Wired
<1>1. /\ closed \in Decoders /\ closed.open = FALSE /\ closed.queue = 0
      /\ closed.fatal = FALSE /\ closed.probing = Null /\ closed.current = d.current
      /\ closed.failed = d.failed /\ closed.failures = d.failures /\ closed.engine = d.engine
      /\ closed.mosaic = d.mosaic /\ closed.leaked = d.leaked
  BY <1>0 DEF Decoders
<1>2. r = IF k = "unsupported" THEN Unsupported(closed, codec)
          ELSE IF failing.failures >= MaxFailures THEN FocusError(failing, codec)
          ELSE [failing EXCEPT !.rebuild = TRUE, !.call = Call("reinit", codec)]
  BY <1>0 DEF EngineFails
<1> HIDE DEF closed
<1>3. /\ failing \in Decoders /\ failing.failures = closed.failures + 1
      /\ failing.open = FALSE /\ failing.queue = 0
      /\ failing.fatal = FALSE /\ failing.probing = Null /\ failing.current = d.current
      /\ failing.failed = d.failed /\ failing.engine = d.engine
      /\ failing.mosaic = d.mosaic /\ failing.leaked = d.leaked
  <2>1. closed.failures + 1 \in Nat
    BY <1>1 DEF Decoders
  <2> QED
    BY <1>1, <2>1 DEF Decoders
<1> HIDE DEF codec, failing, r
<1>4. CASE k = "unsupported"
  <2> DEFINE call == Call("unsupported", codec)
             failed == closed.failed \cup {codec}
             given == [closed EXCEPT !.failed = failed, !.engine = Null]
             new == [given EXCEPT !.open = FALSE, !.queue = 0, !.current = Null, !.call = call]
  <2>1. call \in Calls /\ failed \in SUBSET Codecs
    BY <1>0, <1>1 DEF Call, Calls, Decoders
  <2>2. r = new
    BY <1>2, <1>4 DEF Unsupported
  <2> HIDE DEF call, failed
  <2>3. /\ new \in Decoders /\ new.open = FALSE /\ new.queue = 0 /\ new.engine = Null
        /\ new.fatal = FALSE /\ new.probing = Null /\ new.current = Null
        /\ new.failed = failed /\ new.failures = d.failures
        /\ new.mosaic = d.mosaic /\ new.leaked = d.leaked
    <3>1. Null \in MaybeCodec
      BY DEF MaybeCodec
    <3>2. /\ given \in Decoders /\ given.failed = failed /\ given.engine = Null
          /\ given.fatal = FALSE /\ given.probing = Null /\ given.failures = d.failures
          /\ given.mosaic = d.mosaic /\ given.leaked = d.leaked
      BY <1>1, <2>1, <3>1 DEF Decoders
    <3> HIDE DEF given
    <3> QED
      BY <2>1, <3>1, <3>2 DEF Decoders
  <2> HIDE DEF new
  <2>4. Null \notin failed
    BY <2>1, VideoConstants
  <2> QED
    BY <1>0, <2>2, <2>3, <2>4 DEF Wired, Covered, Said
<1>5. CASE k # "unsupported" /\ failing.failures >= MaxFailures
  <2> DEFINE call == Call("fatal", codec)
             given == [failing EXCEPT !.failures = MaxFailures, !.fatal = TRUE]
             new == [given EXCEPT !.call = call]
  <2>1. call \in Calls /\ call.kind = "fatal"
    BY <1>0 DEF Call, Calls
  <2>2. r = new
    BY <1>2, <1>5 DEF FocusError
  <2> HIDE DEF call
  <2>3. /\ new \in Decoders /\ new.call = call /\ new.open = FALSE /\ new.queue = 0
        /\ new.engine = d.engine /\ new.fatal = TRUE /\ new.probing = Null
        /\ new.current = d.current /\ new.failed = d.failed
        /\ new.mosaic = d.mosaic /\ new.leaked = d.leaked
    <3>1. MaxFailures \in Nat
      BY DEF MaxFailures
    <3>2. /\ given \in Decoders /\ given.open = FALSE /\ given.queue = 0
          /\ given.engine = d.engine /\ given.fatal = TRUE /\ given.probing = Null
          /\ given.current = d.current /\ given.failed = d.failed
          /\ given.mosaic = d.mosaic /\ given.leaked = d.leaked
      BY <1>3, <3>1 DEF Decoders
    <3> HIDE DEF given
    <3> QED
      BY <2>1, <3>2 DEF Decoders
  <2> HIDE DEF new
  <2> QED
    BY <2>1, <2>2, <2>3, VideoConstants DEF Wired, Covered, Said
<1>6. CASE k # "unsupported" /\ ~(failing.failures >= MaxFailures)
  <2> DEFINE call == Call("reinit", codec)
             new == [failing EXCEPT !.rebuild = TRUE, !.call = call]
  <2>1. call \in Calls
    BY <1>0 DEF Call, Calls
  <2>2. r = new
    BY <1>2, <1>6
  <2> HIDE DEF call
  <2>3. /\ new \in Decoders /\ new.open = FALSE /\ new.queue = 0
        /\ new.engine = d.engine /\ new.fatal = FALSE /\ new.probing = Null
        /\ new.current = d.current /\ new.failed = d.failed
        /\ new.failures = failing.failures
        /\ new.mosaic = d.mosaic /\ new.leaked = d.leaked
    BY <1>3, <2>1 DEF Decoders
  <2> HIDE DEF new
  <2> QED
    BY <1>6, <2>2, <2>3 DEF Wired, Covered, Said
<1> QED
  BY <1>4, <1>5, <1>6

-----------------------------------------------------------------------------
(* The session that negotiates. *)

\* A switch is awaited in auto mode only.
Waiting(s) == s.pending # Null => s.manual = Null

LEMMA SwitchTyped ==
  ASSUME NEW s \in Sessions, NEW from \in Codecs, NEW sought \in Codecs
  PROVE  LET r == Switch(s, from, sought) IN
         r \in Sessions /\ r.manual = s.manual /\ r.pending # Null
<1> DEFINE pending == [failed |-> from, target |-> sought, nudged |-> FALSE]
           offered == (s.able \ s.failed) \cup {sought}
           r == [s EXCEPT !.prefer = sought, !.offered = offered, !.keyAsked = TRUE,
                          !.pending = pending]
<1>1. offered \in SUBSET Codecs
  BY DEF Sessions
<1>2. pending \in Waits /\ pending # Null
  <2>1. pending \in Waits
    BY DEF Waits
  <2> QED
    BY <2>1, VideoConstants
<1>3. Switch(s, from, sought) = r
  BY DEF Switch
<1> HIDE DEF pending, offered
<1>4. r \in Sessions /\ r.manual = s.manual /\ r.pending = pending
  BY <1>1, <1>2 DEF Sessions
<1> QED
  BY <1>2, <1>3, <1>4

\* A negotiation leaves a switch awaited unless it finds no target, and in auto mode it
\* finds none only when every candidate has failed.
LEMMA NegotiateTyped ==
  ASSUME NEW s \in Sessions, Waiting(s), NEW from \in Codecs
  PROVE  LET r == Negotiate(s, from) IN
         /\ r.session \in Sessions /\ Waiting(r.session)
         /\ r.target = Null => r.session.pending = Null
         /\ r.target = Null /\ r.session.manual = Null
              => r.session.able \subseteq r.session.failed
<1> DEFINE failed == s.failed \cup {from}
           failing == [s EXCEPT !.failed = failed]
           sought == NextTarget(failing)
           r == Negotiate(s, from)
<1> SUFFICES /\ r.session \in Sessions /\ Waiting(r.session)
             /\ r.target = Null => r.session.pending = Null
             /\ r.target = Null /\ r.session.manual = Null
                  => r.session.able \subseteq r.session.failed
    OBVIOUS
<1>1. failed \in SUBSET Codecs /\ sought \in Codecs \cup {Null}
  BY TargetTyped DEF Sessions
<1>2. r = IF s.manual # Null THEN [session |-> s, target |-> Null]
          ELSE IF s.pending # Null THEN [session |-> s, target |-> s.pending.target]
          ELSE [session |-> IF sought = Null THEN failing ELSE Switch(failing, from, sought),
                target |-> sought]
  BY DEF Negotiate
<1> HIDE DEF failed
<1>3. failing \in Sessions /\ failing.manual = s.manual /\ failing.pending = s.pending
  BY <1>1 DEF Sessions
<1>7. sought = Null => failing.able \subseteq failing.failed
  BY <1>3, NoTarget DEF Sessions
<1> HIDE DEF failing, sought, r
<1>4. CASE s.manual # Null
  BY <1>2, <1>4 DEF Waiting
<1>5. CASE s.manual = Null /\ s.pending # Null
  <2>1. s.pending.target \in Codecs
    BY <1>5 DEF Sessions, Waits
  <2> QED
    BY <1>2, <1>5, <2>1, VideoConstants DEF Waiting
<1>6. CASE s.manual = Null /\ s.pending = Null
  <2>1. CASE sought = Null
    BY <1>2, <1>3, <1>6, <1>7, <2>1 DEF Waiting
  <2>2. CASE sought # Null
    <3>1. sought \in Codecs
      BY <1>1, <2>2
    <3>2. r.session = Switch(failing, from, sought) /\ r.target = sought
      BY <1>2, <1>6, <2>2
    <3> QED
      BY <1>3, <1>6, <2>2, <3>1, <3>2, SwitchTyped DEF Waiting
  <2> QED
    BY <2>1, <2>2
<1> QED
  BY <1>4, <1>5, <1>6

LEMMA TimeoutTyped ==
  ASSUME NEW s \in Sessions, Waiting(s), s.pending # Null
  PROVE  FallbackTimeout(s) \in Sessions /\ Waiting(FallbackTimeout(s))
<1>0. s.pending \in Waits /\ s.pending.target \in Codecs
  BY DEF Sessions, Waits
<1>1. CASE ~s.pending.nudged
  <2> DEFINE pending == [s.pending EXCEPT !.nudged = TRUE]
             r == [s EXCEPT !.pending = pending, !.keyAsked = TRUE]
  <2>1. pending \in Waits
    BY <1>0 DEF Waits
  <2>2. FallbackTimeout(s) = r
    BY <1>1 DEF FallbackTimeout
  <2> HIDE DEF pending
  <2>3. r \in Sessions /\ r.manual = s.manual
    BY <2>1 DEF Sessions
  <2> QED
    BY <2>2, <2>3 DEF Waiting
<1>2. CASE s.pending.nudged
  <2> DEFINE failed == s.failed \cup {s.pending.target}
             given == [s EXCEPT !.pending = Null, !.failed = failed]
  <2>1. failed \in SUBSET Codecs
    BY <1>0 DEF Sessions
  <2>2. FallbackTimeout(s) = Negotiate(given, s.pending.target).session
    BY <1>2 DEF FallbackTimeout
  <2> HIDE DEF failed
  <2>3. given \in Sessions /\ given.pending = Null
    BY <2>1 DEF Sessions
  <2> HIDE DEF given
  <2> QED
    BY <1>0, <2>2, <2>3, NegotiateTyped DEF Waiting
<1> QED
  BY <1>1, <1>2

LEMMA PreferenceTyped ==
  ASSUME NEW s \in Sessions, NEW pref \in MaybeCodec
  PROVE  LET r == SetCodecPreference(s, pref) IN r \in Sessions /\ r.pending = Null
<1> DEFINE prefer == IF pref # Null THEN pref ELSE Order[1]
           r == [s EXCEPT !.manual = pref, !.grace = TRUE, !.overruled = FALSE,
                          !.failed = {}, !.pending = Null, !.prefer = prefer,
                          !.offered = Codecs, !.keyAsked = TRUE]
<1>1. prefer \in Codecs
  BY VideoConstants DEF MaybeCodec
<1>2. SetCodecPreference(s, pref) = r
  BY DEF SetCodecPreference
<1> HIDE DEF prefer
<1>3. r \in Sessions /\ r.pending = Null
  BY <1>1 DEF Sessions
<1> QED
  BY <1>2, <1>3

LEMMA FrameTyped ==
  ASSUME NEW s \in Sessions, Waiting(s), NEW codec \in Codecs
  PROVE  LET r == FrameOf(s, codec) IN
         r \in Sessions /\ Waiting(r) /\ (r.pending # Null => s.pending # Null)
<1> DEFINE defied == s.manual # Null /\ codec # s.manual /\ ~s.overruled /\ ~s.grace
           overruled == s.overruled \/ defied
           manual == IF defied THEN Null ELSE s.manual
           pending == IF s.pending # Null /\ codec # s.pending.failed THEN Null ELSE s.pending
           r == [s EXCEPT !.overruled = overruled, !.manual = manual, !.pending = pending]
<1>1. overruled \in BOOLEAN /\ manual \in MaybeCodec /\ pending \in Waits \cup {Null}
  BY DEF Sessions, MaybeCodec
<1>2. (pending # Null => s.pending # Null) /\ (s.manual = Null => manual = Null)
  OBVIOUS
<1>3. FrameOf(s, codec) = r
  BY DEF FrameOf
<1> HIDE DEF defied, overruled, manual, pending
<1>4. r \in Sessions /\ r.manual = manual /\ r.pending = pending
  BY <1>1 DEF Sessions
<1> QED
  BY <1>2, <1>3, <1>4 DEF Waiting

LEMMA RequestTyped ==
  ASSUME NEW s \in Sessions, Waiting(s)
  PROVE  /\ RequestKeyframeNow(s) \in Sessions /\ Waiting(RequestKeyframeNow(s))
         /\ RequestKeyframeNow(s).pending = s.pending
         /\ RequestKeyframe(s) \in Sessions /\ Waiting(RequestKeyframe(s))
         /\ RequestKeyframe(s).pending = s.pending
<1> DEFINE r == RequestKeyframeNow(s)
<1>1. r \in Sessions /\ r.manual = s.manual /\ r.pending = s.pending
  BY DEF Sessions, RequestKeyframeNow
<1>2. RequestKeyframe(s) \in {s, r}
  BY DEF RequestKeyframe
<1> HIDE DEF r
<1>3. Waiting(r)
  BY <1>1 DEF Waiting
<1> QED
  BY <1>1, <1>2, <1>3 DEF r

-----------------------------------------------------------------------------
(* The picture: the stream is whole, and the user is warned of a codec last. *)

\* What holds of a session and its decoder between any two steps: no engine misses a unit
\* without waiting for what mends it, and no decoder is given up that a switch is for.
Joined(s, d) ==
  /\ s \in Sessions /\ Waiting(s)
  /\ d \in Decoders /\ d.call = Null /\ Wired(d) /\ Covered(d)
  /\ s.pending # Null => ~d.fatal

Exhausted(s) == s.manual = Null => s.able \subseteq s.failed

\* The callback of a decoder is answered.
LEMMA AnswerJoins ==
  ASSUME NEW s \in Sessions, Waiting(s),
         NEW d \in Decoders, Wired(d), Covered(d), s.pending # Null => Said(d),
         Answer(s, d)
  PROVE  /\ Joined(session', decoder')
         /\ videoFatal' = videoFatal \/ Exhausted(session')
         /\ Ungiven(d, decoder')
<1> DEFINE rest == [d EXCEPT !.call = Null]
<1>1. /\ rest \in Decoders /\ rest.call = Null
      /\ rest.engine = d.engine /\ rest.open = d.open /\ rest.current = d.current
      /\ rest.queue = d.queue /\ rest.probing = d.probing /\ rest.fatal = d.fatal
      /\ rest.failed = d.failed /\ rest.failures = d.failures
      /\ rest.mosaic = d.mosaic /\ rest.leaked = d.leaked
      /\ rest.awaiting = d.awaiting /\ rest.rebuild = d.rebuild /\ rest.hole = d.hole
      /\ rest.pending = d.pending
  BY DEF Decoders
<1> HIDE DEF rest
<1>2. Wired(rest) /\ Covered(rest) /\ Ungiven(d, rest)
  BY <1>1 DEF Wired, Covered, Ungiven
<1>3. CASE d.call = Null
  <2>1. session' = s /\ decoder' = d /\ videoFatal' = videoFatal
    BY <1>3 DEF Answer
  <2> QED
    BY <1>3, <2>1 DEF Joined, Said, Ungiven
<1>4. CASE d.call # Null /\ d.call.kind \in {"needKey", "reinit"}
  <2>1. /\ session' \in {RequestKeyframeNow(s), RequestKeyframe(s)}
        /\ decoder' = rest /\ videoFatal' = videoFatal
    BY <1>4 DEF Answer, rest
  <2>2. session' \in Sessions /\ Waiting(session') /\ session'.pending = s.pending
    BY <2>1, RequestTyped
  <2> QED
    BY <1>1, <1>2, <1>4, <2>1, <2>2 DEF Joined, Said
<1>5. CASE d.call # Null /\ d.call.kind \notin {"needKey", "reinit"}
  <2> DEFINE given == Negotiate(s, d.call.codec)
             kept == IF d.call.kind = "undecodable" THEN d.pending ELSE Null
             reset == Reset(rest)
             new == [reset EXCEPT !.pending = kept]
  <2>0. d.call.codec \in Codecs /\ kept \in Units \cup {Null} /\ kept \in {d.pending, Null}
    BY <1>5 DEF Decoders, Calls
  <2>1. IF given.target = Null
        THEN session' = given.session /\ decoder' = rest
        ELSE session' = given.session /\ decoder' = new /\ videoFatal' = videoFatal
    BY <1>5 DEF Answer, GivenUp, rest
  <2>2. /\ given.session \in Sessions /\ Waiting(given.session)
        /\ given.target = Null => given.session.pending = Null
        /\ given.target = Null => Exhausted(given.session)
    BY <2>0, NegotiateTyped DEF Exhausted
  <2>3. reset \in Decoders /\ Wired(reset) /\ ~reset.open /\ ~reset.fatal /\ reset.call = Null
    BY <1>1, <1>2, ResetWired
  <2> HIDE DEF given, kept, reset
  <2>4. /\ new \in Decoders /\ new.call = Null /\ ~new.open /\ ~new.fatal
        /\ new.engine = reset.engine /\ new.open = reset.open /\ new.current = reset.current
        /\ new.queue = reset.queue /\ new.probing = reset.probing /\ new.fatal = reset.fatal
        /\ new.failed = reset.failed /\ new.failures = reset.failures
        /\ new.mosaic = reset.mosaic /\ new.leaked = reset.leaked /\ new.pending = kept
    BY <2>0, <2>3 DEF Decoders
  <2> HIDE DEF new
  <2>5. Wired(new) /\ Covered(new) /\ Ungiven(d, new)
    BY <2>0, <2>3, <2>4 DEF Wired, Covered, Ungiven
  <2> QED
    BY <1>1, <1>2, <2>1, <2>2, <2>4, <2>5 DEF Joined
<1> QED
  BY <1>3, <1>4, <1>5

\* Since the decoder was reset for the display watched it is not fed over the units of
\* another one; as long as the next unit of the host may refer to those, it has none.
Unmixed ==
  resetDue \/ alike \/ (Clean(decoder) /\ (torn = "foreign" => Blank(decoder)))

VideoInv ==
  /\ Joined(session, decoder)
  /\ host \in [codec : Codecs, fresh : BOOLEAN]
  /\ torn \in Torn /\ paused \in BOOLEAN
  /\ Unmixed

Warned == videoFatal' \in {Null, videoFatal} \/ Exhausted(session')

LEMMA VideoStarts == VideoInit => VideoInv
<1> SUFFICES ASSUME VideoInit PROVE VideoInv
    OBVIOUS
<1>1. PICK pref, good \in Codecs \cup {Null}, able \in {Codecs, Supported} :
        session = NewSession(pref, good, able)
  BY DEF VideoInit
<1>2. able \in SUBSET Codecs
  BY DEF Supported
<1> DEFINE prefer == IF pref # Null THEN pref ELSE IF good # Null THEN good ELSE Order[1]
           offered == IF pref # Null THEN Codecs ELSE able
<1>3. prefer \in Codecs /\ offered \in SUBSET Codecs
  BY <1>2, VideoConstants
<1>4. session = [manual |-> pref, grace |-> TRUE, overruled |-> FALSE, failed |-> {},
                 pending |-> Null, prefer |-> prefer, offered |-> offered, able |-> able,
                 askedLately |-> FALSE, keyAsked |-> FALSE]
  BY <1>1 DEF NewSession
<1> HIDE DEF prefer, offered
<1>5. session \in Sessions /\ session.pending = Null /\ session.offered \subseteq Codecs
  BY <1>2, <1>3, <1>4 DEF Sessions, MaybeCodec
<1>6. /\ NewDecoder \in Decoders /\ NewDecoder.call = Null /\ NewDecoder.engine = Null
      /\ NewDecoder.current = Null /\ NewDecoder.queue = 0 /\ NewDecoder.probing = Null
      /\ NewDecoder.failures = 0 /\ NewDecoder.failed = {} /\ ~NewDecoder.open
      /\ ~NewDecoder.mosaic /\ ~NewDecoder.leaked /\ ~NewDecoder.fatal
  BY DEF NewDecoder, Decoders, Holes, MaybeCodec
<1>7. Joined(session, NewDecoder)
  BY <1>5, <1>6 DEF Joined, Waiting, Wired, Covered, MaxFailures
<1> QED
  BY <1>5, <1>6, <1>7 DEF VideoInit, VideoInv, Torn, Unmixed, Clean

LEMMA VideoStep == VideoInv /\ [VideoNext]_videoVars => VideoInv' /\ Warned
<1> SUFFICES ASSUME VideoInv, [VideoNext]_videoVars
             PROVE  VideoInv' /\ Warned
    OBVIOUS
<1> USE DEF VideoInv
<1>0. /\ session \in Sessions /\ Waiting(session)
      /\ decoder \in Decoders /\ decoder.call = Null /\ Wired(decoder) /\ Covered(decoder)
      /\ session.pending # Null => ~decoder.fatal
  BY DEF Joined
<1> DEFINE Stays == Joined(session', decoder') /\ Warned
<1>a. ASSUME Stays, kind' = kind, Unmixed',
             host' \in [codec : Codecs, fresh : BOOLEAN], torn' \in Torn, paused' \in BOOLEAN
      PROVE  VideoInv' /\ Warned
  BY <1>a DEF Joined, Covered
<1>b. ASSUME NEW d \in Decoders, Wired(d), Covered(d), session.pending # Null => Said(d),
             Answer(session, d)
      PROVE  Stays /\ Ungiven(d, decoder')
  BY <1>0, <1>b, AnswerJoins DEF Warned
<1>c. ASSUME session' \in Sessions, Waiting(session'),
             session'.pending # Null => session.pending # Null,
             decoder' = decoder, videoFatal' \in {Null, videoFatal}
      PROVE  Stays
  BY <1>0, <1>c DEF Joined, Warned
<1>d. ASSUME NEW d, Ungiven(decoder, d), Ungiven(d, decoder'), UNCHANGED <<torn, shownVars>>
      PROVE  Unmixed'
  BY <1>d, UngivenKeeps DEF Unmixed, shownVars
<1>e. ASSUME decoder' = decoder, UNCHANGED <<torn, shownVars>>
      PROVE  Unmixed'
  BY <1>e DEF Unmixed, shownVars, Clean, Blank
<1> HIDE DEF Stays
<1>1. CASE Frame
  <2>1. PICK key \in {host.fresh, host.fresh \/ session.keyAsked} :
          LET s == FrameOf([session EXCEPT !.keyAsked = @ /\ ~key], host.codec)
              unit == [codec |-> host.codec, key |-> key, torn |-> torn]
          IN IF paused THEN session' = s /\ UNCHANGED <<decoder, videoFatal>>
             ELSE Answer(s, HandlePacket(decoder, unit, kind))
    BY <1>1 DEF Frame
  <2>2. key \in BOOLEAN
    BY <1>0 DEF Sessions
  <2> DEFINE asked == session.keyAsked /\ ~key
             heard == [session EXCEPT !.keyAsked = asked]
             s == FrameOf(heard, host.codec)
             unit == [codec |-> host.codec, key |-> key, torn |-> torn]
             d == HandlePacket(decoder, unit, kind)
  <2>3. asked \in BOOLEAN
    BY <2>2
  <2>4. IF paused THEN session' = s /\ decoder' = decoder /\ videoFatal' = videoFatal
        ELSE Answer(s, d)
    BY <2>1
  <2> HIDE DEF asked
  <2>5. heard \in Sessions /\ heard.manual = session.manual /\ heard.pending = session.pending
    BY <1>0, <2>3 DEF Sessions
  <2> HIDE DEF heard
  <2>6. s \in Sessions /\ Waiting(s) /\ (s.pending # Null => session.pending # Null)
    BY <1>0, <2>5, FrameTyped DEF Waiting
  <2>7. unit \in Units
    BY <2>2 DEF Units
  <2> HIDE DEF unit, s
  <2>8. /\ d \in Decoders /\ Wired(d) /\ Covered(d) /\ d.fatal = decoder.fatal
        /\ Clean(decoder) /\ (torn = "foreign" => Blank(decoder)) => Clean(d)
    BY <1>0, <2>7, PacketWired DEF unit
  <2> HIDE DEF d
  <2>10. /\ kind' = kind /\ paused' = paused /\ torn' \in Torn
         /\ host' \in [codec : Codecs, fresh : BOOLEAN]
         /\ ~paused => torn' = "no"
         /\ torn' = "foreign" => torn = "foreign"
         /\ UNCHANGED <<resetDue, alike>>
    BY <1>1 DEF Frame, outside, shownVars, Torn
  <2>9. Stays /\ Unmixed'
    <3>1. CASE paused
      BY <1>c, <2>4, <2>6, <2>10, <3>1 DEF Unmixed, Clean, Blank
    <3>2. CASE ~paused
      <4>1. Stays /\ Ungiven(d, decoder')
        BY <1>0, <2>4, <2>6, <2>8, <3>2, AnswerJoins DEF Stays, Warned, Said
      <4> QED
        BY <2>8, <2>10, <3>2, <4>1, UngivenKeeps DEF Unmixed
    <3> QED
      BY <3>1, <3>2
  <2> QED
    BY <1>a, <2>9, <2>10
<1>2. ASSUME NEW c \in Codecs, HostSwitches(c)
      PROVE  VideoInv' /\ Warned
  <2>1. /\ session' = session /\ decoder' = decoder /\ videoFatal' = videoFatal
        /\ kind' = kind /\ paused' = paused /\ torn' = torn
        /\ host' \in [codec : Codecs, fresh : BOOLEAN] /\ UNCHANGED <<torn, shownVars>>
    BY <1>2 DEF HostSwitches
  <2> QED
    BY <1>0, <1>a, <1>c, <1>e, <2>1
<1>3. CASE Probed
  <2>1. decoder.probing # Null /\ Answer(session, ProbeAnswered(decoder, kind[decoder.probing]))
    BY <1>3 DEF Probed
  <2>3. /\ kind' = kind /\ paused' = paused /\ torn' = torn /\ host' = host
        /\ UNCHANGED <<torn, shownVars>>
    BY <1>3 DEF Probed, outside
  <2>2. Stays /\ Unmixed'
    BY <1>0, <1>b, <1>d, <2>1, <2>3, ProbeWired, ProbeUngiven
  <2> QED
    BY <1>a, <2>2, <2>3
<1>4. ASSUME NEW c \in Codecs, ProbedLate(c)
      PROVE  VideoInv' /\ Warned
  <2>1. Answer(session, LateAnswered(decoder, c))
    BY <1>4 DEF ProbedLate
  <2>3. /\ kind' = kind /\ paused' = paused /\ torn' = torn /\ host' = host
        /\ UNCHANGED <<torn, shownVars>>
    BY <1>4 DEF ProbedLate, outside
  <2>2. Stays /\ Unmixed'
    BY <1>0, <1>b, <1>d, <2>1, <2>3, LateWired, EngineUngiven DEF Said
  <2> QED
    BY <1>a, <2>2, <2>3
<1>5. ASSUME NEW resized \in BOOLEAN, Picture(resized)
      PROVE  VideoInv' /\ Warned
  <2>1. decoder.queue > 0 /\ Answer(session, Output(decoder, resized))
    BY <1>5 DEF Picture
  <2>3. /\ kind' = kind /\ paused' = paused /\ torn' = torn /\ host' = host
        /\ UNCHANGED <<torn, shownVars>>
    BY <1>5 DEF Picture, outside
  <2>2. Stays /\ Unmixed'
    BY <1>0, <1>b, <1>d, <2>1, <2>3, OutputWired, EngineUngiven DEF Said
  <2> QED
    BY <1>a, <2>2, <2>3
<1>6. CASE Failure
  <2>1. decoder.open /\ Answer(session, EngineFails(decoder, kind[decoder.engine]))
    BY <1>6 DEF Failure
  <2>3. /\ kind' = kind /\ paused' = paused /\ torn' = torn /\ host' = host
        /\ UNCHANGED <<torn, shownVars>>
    BY <1>6 DEF Failure, outside
  <2>2. Stays /\ Unmixed'
    BY <1>0, <1>b, <1>d, <2>1, <2>3, FailsWired, EngineUngiven
  <2> QED
    BY <1>a, <2>2, <2>3
<1>7. CASE FallbackDue
  <2>1. /\ session.pending # Null /\ session' = FallbackTimeout(session)
        /\ decoder' = decoder /\ videoFatal' = videoFatal
        /\ kind' = kind /\ paused' = paused /\ torn' = torn /\ host' = host
        /\ UNCHANGED <<torn, shownVars>>
    BY <1>7 DEF FallbackDue, outside
  <2>2. Stays
    BY <1>0, <1>c, <2>1, TimeoutTyped
  <2> QED
    BY <1>a, <1>e, <2>1, <2>2
<1>8. CASE RebuildAllowed
  <2> DEFINE new == [decoder EXCEPT !.lately = FALSE]
  <2>1. /\ session' = session /\ decoder' = new /\ videoFatal' = videoFatal
        /\ kind' = kind /\ paused' = paused /\ torn' = torn /\ host' = host
        /\ UNCHANGED <<torn, shownVars>>
    BY <1>8 DEF RebuildAllowed, outside
  <2>2. /\ new \in Decoders /\ new.call = Null /\ new.engine = decoder.engine
        /\ new.open = decoder.open /\ new.current = decoder.current
        /\ new.queue = decoder.queue /\ new.probing = decoder.probing
        /\ new.fatal = decoder.fatal /\ new.failed = decoder.failed
        /\ new.failures = decoder.failures /\ new.mosaic = decoder.mosaic
        /\ new.leaked = decoder.leaked /\ new.awaiting = decoder.awaiting
        /\ new.rebuild = decoder.rebuild /\ new.hole = decoder.hole
        /\ new.pending = decoder.pending
    BY <1>0 DEF Decoders
  <2> HIDE DEF new
  <2>3. Stays
    BY <1>0, <2>1, <2>2 DEF Stays, Joined, Wired, Covered, Warned
  <2>4. Unmixed'
    BY <2>1, <2>2 DEF Unmixed, Clean, Blank, shownVars
  <2> QED
    BY <1>a, <2>1, <2>3, <2>4
<1>9. CASE RequestAllowed
  <2> DEFINE new == [session EXCEPT !.askedLately = FALSE]
  <2>1. /\ session' = new /\ decoder' = decoder /\ videoFatal' = videoFatal
        /\ kind' = kind /\ paused' = paused /\ torn' = torn /\ host' = host
        /\ UNCHANGED <<torn, shownVars>>
    BY <1>9 DEF RequestAllowed, outside
  <2>2. new \in Sessions /\ new.manual = session.manual /\ new.pending = session.pending
    BY <1>0 DEF Sessions
  <2> HIDE DEF new
  <2>3. Stays
    BY <1>0, <1>c, <2>1, <2>2 DEF Waiting
  <2> QED
    BY <1>a, <1>e, <2>1, <2>3
<1>10. CASE GraceOver
  <2> DEFINE new == [session EXCEPT !.grace = FALSE]
  <2>1. /\ session' = new /\ decoder' = decoder /\ videoFatal' = videoFatal
        /\ kind' = kind /\ paused' = paused /\ torn' = torn /\ host' = host
        /\ UNCHANGED <<torn, shownVars>>
    BY <1>10 DEF GraceOver, outside
  <2>2. new \in Sessions /\ new.manual = session.manual /\ new.pending = session.pending
    BY <1>0 DEF Sessions
  <2> HIDE DEF new
  <2>3. Stays
    BY <1>0, <1>c, <2>1, <2>2 DEF Waiting
  <2> QED
    BY <1>a, <1>e, <2>1, <2>3
<1>11. CASE KeepAlive \/ Resume
  <2>1. /\ session' = RequestKeyframe(session) /\ decoder' = decoder /\ videoFatal' = videoFatal
        /\ kind' = kind /\ paused' \in BOOLEAN /\ torn' = torn /\ host' = host
        /\ UNCHANGED <<torn, shownVars>>
    BY <1>11 DEF KeepAlive, Resume, outside
  <2>2. Stays
    BY <1>0, <1>c, <2>1, RequestTyped
  <2> QED
    BY <1>a, <1>e, <2>1, <2>2
<1>12. ASSUME NEW pref \in Codecs \cup {Null}, ChooseCodec(pref)
       PROVE  VideoInv' /\ Warned
  <2>1. /\ session' = SetCodecPreference(session, pref)
        /\ decoder' = decoder /\ videoFatal' = videoFatal
        /\ kind' = kind /\ paused' = paused /\ torn' = torn /\ host' = host
        /\ UNCHANGED <<torn, shownVars>>
    BY <1>12 DEF ChooseCodec, Chooses
  <2>2. Stays
    BY <1>0, <1>c, <2>1, PreferenceTyped DEF Waiting, MaybeCodec
  <2> QED
    BY <1>a, <1>e, <2>1, <2>2
<1>13. CASE BackToAutoCodec
  <2>1. /\ session' = SetCodecPreference(session, Null)
        /\ decoder' = decoder /\ videoFatal' = Null
        /\ kind' = kind /\ paused' = paused /\ torn' = torn /\ host' = host
        /\ UNCHANGED <<torn, shownVars>>
    BY <1>13 DEF BackToAutoCodec, Chooses
  <2>2. Stays
    BY <1>0, <1>c, <2>1, PreferenceTyped DEF Waiting, MaybeCodec
  <2> QED
    BY <1>a, <1>e, <2>1, <2>2
<1>14. CASE DismissBanner
  <2>1. /\ session' = session /\ decoder' = decoder /\ videoFatal' = Null
        /\ kind' = kind /\ paused' = paused /\ torn' = torn /\ host' = host
        /\ UNCHANGED <<torn, shownVars>>
    BY <1>14 DEF DismissBanner, Chooses
  <2> QED
    BY <1>0, <1>a, <1>c, <1>e, <2>1
<1>15. CASE ResetRendered
  <2>1. /\ session' = RequestKeyframeNow(session) /\ decoder' = Reset(decoder)
        /\ videoFatal' = videoFatal
        /\ kind' = kind /\ paused' = paused /\ torn' = torn /\ host' = host
    BY <1>15 DEF ResetRendered, outside
  <2>2. Stays /\ Unmixed'
    BY <1>0, <2>1, RequestTyped, ResetWired, ResetBlank DEF Stays, Joined, Covered, Warned, Unmixed
  <2> QED
    BY <1>a, <2>1, <2>2
<1>16. CASE Pause
  <2>1. /\ session' = session /\ decoder' = decoder /\ videoFatal' = videoFatal
        /\ kind' = kind /\ paused' \in BOOLEAN /\ torn' = torn /\ host' = host
        /\ UNCHANGED <<torn, shownVars>>
    BY <1>16 DEF Pause, Chooses
  <2> QED
    BY <1>0, <1>a, <1>c, <1>e, <2>1
<1>17. CASE UNCHANGED videoVars
  <2>1. /\ session' = session /\ decoder' = decoder /\ videoFatal' = videoFatal
        /\ kind' = kind /\ paused' = paused /\ torn' = torn /\ host' = host
        /\ UNCHANGED <<torn, shownVars>>
    BY <1>17 DEF videoVars, outside
  <2> QED
    BY <1>0, <1>a, <1>c, <1>e, <2>1
<1>18. ASSUME NEW fresh \in BOOLEAN, WatchOther(fresh)
       PROVE  VideoInv' /\ Warned
  <2>1. /\ session' = session /\ decoder' = decoder /\ videoFatal' = videoFatal
        /\ kind' = kind /\ paused' = paused /\ torn' \in Torn
        /\ host' \in [codec : Codecs, fresh : BOOLEAN] /\ (resetDue' \/ alike')
    BY <1>18 DEF WatchOther, Chooses, Torn
  <2>2. Unmixed'
    BY <2>1 DEF Unmixed
  <2> QED
    BY <1>0, <1>a, <1>c, <2>1, <2>2
<1>19. CASE OtherFrame
  <2>1. /\ session' = FrameOf(session, host.codec) /\ decoder' = decoder
        /\ videoFatal' = videoFatal
        /\ kind' = kind /\ paused' = paused /\ torn' = torn /\ host' = host
        /\ UNCHANGED <<torn, shownVars>>
    BY <1>19 DEF OtherFrame, outside
  <2>2. Stays
    BY <1>0, <1>c, <2>1, FrameTyped DEF Waiting
  <2> QED
    BY <1>a, <1>e, <2>1, <2>2
<1> QED
  BY <1>1, <1>2, <1>3, <1>4, <1>5, <1>6, <1>7, <1>8, <1>9, <1>10, <1>11, <1>12, <1>13,
     <1>14, <1>15, <1>16, <1>17, <1>18, <1>19 DEF VideoNext

\* What reaches an engine is a stream that the one engine there is can decode, however
\* probes, failures and switches overtake one another (decoder.ts, session.ts): the gaps
\* are those of a pause, of a dropped backlog and of a switch between displays, and after
\* one to a display of another size none once the decoder was reset for it.
THEOREM StreamIsDecodable == VideoSpec => []StreamDecodable
<1>1. VideoInv => StreamDecodable
  BY DEF VideoInv, Joined, Wired, Unmixed, Clean, StreamDecodable, GapsExplained, OneEngine,
         ReadyForSwitch
<1> QED
  BY <1>1, VideoStarts, VideoStep, PTL DEF VideoSpec

\* In auto mode the warning banner of the page is raised only when every codec that is
\* left to try has failed (negotiateDecoderFallback in session.ts).
THEOREM WarnedLast == VideoSpec => WarnsLast
<1>1. VideoInv /\ [VideoNext]_videoVars
        => [videoFatal' \notin {Null, videoFatal} /\ session'.manual = Null
              => session'.able \subseteq session'.failed]_videoVars
  BY VideoStep DEF Warned, Exhausted
<1> QED
  BY <1>1, VideoStarts, VideoStep, PTL DEF VideoSpec, WarnsLast
=============================================================================
