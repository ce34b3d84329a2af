--------------------------- MODULE SecureChannel ---------------------------
(***************************************************************************)
(* How a session (frontend/src/lib/rustdesk/session.ts, crypto.ts) and the *)
(* controlled host come to read one another over the relay: the first      *)
(* flight of the host, which may come in pieces or with bytes too many,    *)
(* the key exchange it starts, and the numbered messages that follow.      *)
(*                                                                         *)
(* The relay keeps the order of what it carries.  A message is its         *)
(* number under the key, or Plain; an open one with the wrong number       *)
(* cannot be read.  The host skips what comes before the key it waits for. *)
(***************************************************************************)
EXTENDS Integers, Sequences

CONSTANTS
  MaxSent,      \* Bound: sealed messages of either side
  MaxUnderWay   \* Bound: messages on the relay, in either direction

VARIABLES
  greeting,     \* first message of the host: "standard", "shifted", "broken", "hash"
  flight,       \* the pieces of the first flight that are still to come
  line,         \* the channel of the session object
  peer,         \* [key, sent, read] of the host
  toPeer, toUs, \* [what, number] under way
  misread,      \* history: a message of the host could not be read
  strayed,      \* history: the first flight had bytes too many
  deaf          \* history: the host could not read a message

channelVars == <<greeting, flight, line, peer, toPeer, toUs, misread, strayed, deaf>>

Plain == 0
Firsts == {"standard", "shifted", "broken", "hash"}
Whole == <<"head", "tail">>

NewLine == [open |-> TRUE, firstFrameBuf |-> <<>>, relaySessionStarted |-> FALSE,
            symmetricKey |-> FALSE, sendSeq |-> 0, recvSeq |-> 0, hashing |-> FALSE]

\* A host without a key of its own starts with the hash, in plain text.
NewPeer(f) == [key |-> IF f = "hash" THEN "none" ELSE "awaited", sent |-> 0, read |-> 0]

\* extractIdPk: the key of the host is where it belongs, or anywhere else.
HasIdPk(f) == f \in {"standard", "shifted"}

\* encodePublicKey, or encodeEmptyPublicKey for a host without one
PublicKey(f) == IF HasIdPk(f) THEN "key" ELSE "empty key"

\* extractSignedIdEnvelope: a signed id and more behind it.
HasEnvelope(buf) == Len(buf) > Len(Whole) /\ greeting # "hash"

-----------------------------------------------------------------------------
(* Sending. *)

\* sendRelayRaw: lost unless the socket is open.
SendRaw(l, what, number) ==
  toPeer' = IF l.open THEN Append(toPeer, [what |-> what, number |-> number]) ELSE toPeer

\* sendRelayMessage
SendRelayMessage(l, what) ==
  LET number == IF l.symmetricKey THEN l.sendSeq + 1 ELSE Plain
  IN  /\ l.sendSeq < MaxSent /\ Len(toPeer) < MaxUnderWay
      /\ line' = IF l.symmetricKey THEN [l EXCEPT !.sendSeq = @ + 1] ELSE l
      /\ SendRaw(l, what, number)

\* Whatever the session has to say; the ping of the statistics does not wait for the key.
Say == /\ SendRelayMessage(line, "data")
       /\ UNCHANGED <<greeting, flight, peer, toUs, misread, strayed, deaf>>

\* The rest of handleHash
HashDone ==
  /\ line.hashing
  /\ SendRelayMessage([line EXCEPT !.hashing = FALSE], "login")
  /\ UNCHANGED <<greeting, flight, peer, toUs, misread, strayed, deaf>>

-----------------------------------------------------------------------------
(* The first flight. *)

Started == [line EXCEPT !.firstFrameBuf = <<>>, !.relaySessionStarted = TRUE]

\* Fault: the key is in use before the host has it.
HandleSignedIdFault(stray) ==
  /\ SendRaw(line, PublicKey(greeting), IF HasIdPk(greeting) THEN 1 ELSE Plain)
  /\ line' = IF HasIdPk(greeting) THEN [Started EXCEPT !.symmetricKey = TRUE, !.sendSeq = 1]
             ELSE Started

\* handleSignedId, and what it makes of the bytes that follow it: under the new key
\* they take the number of a message.
HandleSignedId(stray) ==
  /\ SendRaw(line, PublicKey(greeting), Plain)
  /\ line' = IF HasIdPk(greeting)
               THEN [Started EXCEPT !.symmetricKey = TRUE, !.sendSeq = 0,
                                    !.recvSeq = IF stray THEN 1 ELSE 0]
               ELSE Started

\* handleRelayMessage before the session has started: a whole message, or one with
\* more behind it if it is a signed id; else the rest is waited for.
FirstFlight(pieces) ==
  LET buf == line.firstFrameBuf \o pieces
  IN  \/ /\ buf = Whole /\ greeting = "hash"
         /\ line' = [Started EXCEPT !.hashing = TRUE] /\ UNCHANGED toPeer
      \/ /\ (buf = Whole /\ greeting # "hash") \/ HasEnvelope(buf)
         /\ HandleSignedId(buf # Whole)
      \/ /\ buf # Whole /\ ~HasEnvelope(buf)
         /\ line' = [line EXCEPT !.firstFrameBuf = buf] /\ UNCHANGED toPeer

\* Bytes that are no message: they do not open, or do not parse.
Unreadable ==
  /\ line' = IF line.symmetricKey THEN [line EXCEPT !.recvSeq = @ + 1] ELSE line
  /\ UNCHANGED toPeer

\* The first flight comes in frames of any length.
Arrives ==
  \E n \in 1..Len(flight) :
    /\ line.open /\ flight' = SubSeq(flight, n + 1, Len(flight))
    /\ IF line.relaySessionStarted THEN Unreadable ELSE FirstFlight(SubSeq(flight, 1, n))
    /\ UNCHANGED <<greeting, peer, toUs, misread, strayed, deaf>>

\* handleRelayMessage from then on: a frame is a message, and takes a number whether
\* it opens or not.
Hears ==
  /\ line.open /\ line.relaySessionStarted /\ flight = <<>> /\ toUs # <<>>
  /\ toUs' = Tail(toUs)
  /\ LET l == IF line.symmetricKey THEN [line EXCEPT !.recvSeq = @ + 1] ELSE line
         reads == Head(toUs).number = IF line.symmetricKey THEN l.recvSeq ELSE Plain
     IN  /\ misread' = (misread \/ ~reads)
         /\ line' = IF reads /\ Head(toUs).what = "hash" THEN [l EXCEPT !.hashing = TRUE] ELSE l
  /\ UNCHANGED <<greeting, flight, peer, toPeer, strayed, deaf>>

-----------------------------------------------------------------------------
(* The host. *)

PeerSends(p, what) ==
  LET number == IF p.key = "shared" THEN p.sent + 1 ELSE Plain
  IN  /\ line.open /\ Len(toUs) < MaxUnderWay /\ p.sent < MaxSent
      /\ toUs' = Append(toUs, [what |-> what, number |-> number])
      /\ peer' = IF p.key = "shared" THEN [p EXCEPT !.sent = number] ELSE p

PeerSays ==
  /\ peer.key # "awaited" /\ PeerSends(peer, "data")
  /\ UNCHANGED <<greeting, flight, line, toPeer, misread, strayed, deaf>>

\* The key, or an empty one, is answered with the hash.
PeerHears ==
  /\ toPeer # <<>> /\ toPeer' = Tail(toPeer)
  /\ LET m == Head(toPeer)
         number == IF peer.key = "shared" THEN peer.read + 1 ELSE Plain
     IN  /\ deaf' = (deaf \/ m.number # number)
         /\ IF peer.key = "awaited" /\ m.what \in {"key", "empty key"}
              THEN PeerSends([peer EXCEPT !.key = IF m.what = "key" THEN "shared" ELSE "none"], "hash")
              ELSE /\ peer' = IF peer.key = "shared" THEN [peer EXCEPT !.read = number] ELSE peer
                   /\ UNCHANGED toUs
  /\ UNCHANGED <<greeting, flight, line, misread, strayed>>

-----------------------------------------------------------------------------
(* The relay. *)

\* The socket closes, or the first message is given up: what was under way is lost.
RelayCloses ==
  /\ line.open
  /\ line' = [line EXCEPT !.open = FALSE]
  /\ flight' = <<>> /\ toPeer' = <<>> /\ toUs' = <<>>
  /\ UNCHANGED <<greeting, peer, misread, strayed, deaf>>

\* A host, and the flight it starts with.
Greets(f, junk) ==
  [flight |-> IF junk THEN Append(Whole, "junk") ELSE Whole, peer |-> NewPeer(f)]

\* Another session, with another object.
Reconnect ==
  /\ ~line.open /\ line' = NewLine
  /\ \E f \in Firsts, junk \in BOOLEAN :
       /\ greeting' = f /\ strayed' = junk
       /\ flight' = Greets(f, junk).flight /\ peer' = Greets(f, junk).peer
  /\ misread' = FALSE /\ deaf' = FALSE
  /\ UNCHANGED <<toPeer, toUs>>

ChannelInit ==
  /\ greeting \in Firsts /\ strayed \in BOOLEAN
  /\ flight = Greets(greeting, strayed).flight /\ peer = Greets(greeting, strayed).peer
  /\ line = NewLine /\ toPeer = <<>> /\ toUs = <<>>
  /\ misread = FALSE /\ deaf = FALSE

ChannelNext ==
  \/ Say \/ HashDone \/ Arrives \/ Hears \/ PeerSays \/ PeerHears \/ RelayCloses \/ Reconnect

ChannelSpec == ChannelInit /\ [][ChannelNext]_channelVars

-----------------------------------------------------------------------------
\* session.ts on the first flight and on sealed messages: however the flight is cut,
\* whenever the key is found and whatever is said meanwhile, each side can read all
\* that the other sends, in both directions, under the key or in plain text.
UnderstandEachOther == ~deaf /\ (misread => strayed)

-----------------------------------------------------------------------------
(* What comments in the source say, and TLC refutes. *)

\* "tolerates trailing garbage after it" (492): the bytes behind a signed id take the
\* number of the host's first message, and none of its messages is ever read.
ToleratesGarbage == ~misread

\* "an empty PublicKey tells the host to proceed" (proto.ts 386): the host, which waits
\* for a key, may be sent a ping first.
KeyFirst == peer.key = "awaited" /\ toPeer # <<>> => Head(toPeer).what # "data"
=============================================================================
