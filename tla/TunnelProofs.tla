---------------------------- MODULE TunnelProofs ----------------------------
(***************************************************************************)
(* Proofs about Transports and Tunnel for every configuration, ring size,  *)
(* delay and number of copies, and for all times that fit together as      *)
(* those of the code do: what the client dials and the server reads, that  *)
(* a dead link is noticed in time and a living one not given up, that the  *)
(* loss shown is not too high, and that the answers find the way back.     *)
(***************************************************************************)
EXTENDS Tunnel, FiniteSetTheorems, WellFoundedInduction, TLAPS

(***************************************************************************)
(* The inductive invariant, part by part.                                  *)
(***************************************************************************)
\* The messages by type.
Packets == [body : {"ping"}, nonce : Pings, id : {Xor(ShortID, RouteMask[n]) : n \in Pings},
            quicLike : BOOLEAN, stray : {Nobody, ShortID}, sealed : {TRUE}]
Frames == [quic : BOOLEAN, id : {ShortID}, packet : Packets]
UpMessages == [via : Conns, frame : Frames, copies : 1..FEC, age : 0..Delay]
DownMessages == [via : Conns, ping : Pings, copies : 1..FEC, age : 0..Delay]
Messages == up \in Seq(UpMessages) /\ down \in Seq(DownMessages)

\* Seconds since the last keep-alive was due.
SinceDue == IF pinger.pc = "wait" THEN PingEvery - pinger.timer
            ELSE IF pinger.pc = "write" /\ pinger.burst = 0 THEN PingEvery ELSE 0

\* The clocks of a connection.  While it is up, at least every PingEvery seconds
\* somebody looks whether Timeout is over.
Clocks ==
    /\ phase = "opening" => rx = opened
    /\ phase = "up" =>
           /\ rx = opened + wait
           /\ pinger.timer > 0
           /\ pinger.pc = "wait" => pinger.burst = 0
           /\ pinger.pc # "wait" => pinger.timer = PingEvery
           /\ wait <= Timeout + IF pinger.pc = "wait" THEN PingEvery - pinger.timer ELSE PingEvery

\* Where the keep-alives of this connection and those before it can be.
Mine == (base + 1)..nonce
Numbered ==
    /\ base <= nonce
    /\ phase = "up" => Gen > 0
    /\ phase # "up" => down = <<>> /\ pinger.pc = "wait"
    /\ \A i \in DOMAIN up : up[i].via <= Gen /\ (up[i].via = Gen => up[i].frame.packet.nonce \in Mine)
    /\ \A i \in DOMAIN down : down[i].ping \in Mine
    /\ heard \cup early \subseteq Mine
    /\ pinger.pc = "push" => nonce \in Mine \ heard
    /\ \A i \in DOMAIN ring : ring[i].ping \in Mine /\ (pinger.pc = "push" => ring[i].ping # nonce)
    /\ \A i, j \in DOMAIN ring : i < j => ring[i].ping < ring[j].ping

\* The network keeps packets in order of their age.
ByAge == \A i, j \in DOMAIN up : i < j => up[i].age >= up[j].age

\* An answer to one of the last keep-alives came after that was sent.
HeardLately == phase = "up" => \A k \in 0..2 :
    nonce - k \in heard \cup early => opened = 0 /\ wait <= k * PingEvery + SinceDue

\* Up to every keep-alive, there are no more open slots than unanswered ones.
OpenSlots(p) == {i \in DOMAIN ring : ~ring[i].acked /\ ring[i].ping <= p}
OpenPings(p) == {ring[i].ping : i \in OpenSlots(p)}
Unheard(p) == {n \in (base + 1)..p : n \notin heard}
Counted == \A p \in 0..MaxPings : Cardinality(OpenPings(p)) <= Cardinality(Unheard(p))

\* If the path has been wrong for some time, a keep-alive that sets it right is due
\* or under way.
OnItsWay == \E i \in DOMAIN up :
    up[i].via = Gen /\ up[i].copies = FEC /\ astray <= PingEvery + up[i].age
Path == phase = "up" =>
    /\ PathRecovers
    /\ ~missed => \/ writer = Gen /\ astray = 0
                  \/ astray <= SinceDue
                  \/ OnItsWay

IInv == TypeOK /\ Messages /\ Clocks /\ Numbered /\ ByAge /\ HeardLately /\ Counted /\ Path

-----------------------------------------------------------------------------
(* The transports.                                                          *)
\* The routing of a packet survives its way: whatever reader of the server gets a
\* frame of the client takes it for the client's, and opens it.  The one exception is
\* a bare packet over UDP that happens to look like a frame: the reader cuts off its
\* beginning, takes it for a packet of whoever the stray bytes name, and it cannot be
\* opened (server.go, main, the UDP reader).
THEOREM ServerKnowsItsClient ==
    ASSUME NEW kind \in Kinds, NEW body, NEW n, NEW quicLike \in BOOLEAN, NEW stray
    PROVE  LET r == ServerRead(kind, Frame(kind, Encrypt(body, n, quicLike, stray)))
           IN  /\ ~(kind = "udp" /\ quicLike) => r.id = ShortID /\ Decrypt(r.packet) = body
               /\ kind = "udp" /\ quicLike => r.id = stray /\ Decrypt(r.packet) = "error"
<1> DEFINE packet == Encrypt(body, n, quicLike, stray)
           frame == Frame(kind, packet)
           r == ServerRead(kind, frame)
<1>1. \A a, b : Xor(Xor(a, b), b) = a
  BY DEF Xor
<1>2. /\ frame.packet = packet /\ frame.quic = (kind = "quic") /\ frame.id = ShortID
      /\ packet.id = Xor(ShortID, RouteMask[n]) /\ packet.nonce = n
      /\ packet.body = body /\ packet.sealed /\ packet.quicLike = quicLike
      /\ packet.stray = stray /\ ~[packet EXCEPT !.sealed = FALSE].sealed
  BY DEF Frame, Encrypt
<1>3. Decrypt(packet) = body
  BY <1>2 DEF Decrypt
<1>4. WSRead(frame).id = ShortID /\ WSRead(frame).packet = packet
  BY <1>1, <1>2 DEF WSRead
<1>5. CASE kind \in Streams
  BY <1>3, <1>4, <1>5 DEF ServerRead, Streams
<1>6. CASE kind = "quic"
  BY <1>2, <1>3, <1>6 DEF ServerRead, UDPRead, Streams
<1>7. CASE kind = "udp" /\ ~quicLike
  BY <1>2, <1>3, <1>4, <1>7 DEF ServerRead, UDPRead, Streams
<1>8. CASE kind = "udp" /\ quicLike
  <2>1. r.id = stray /\ r.packet = [packet EXCEPT !.sealed = FALSE]
    BY <1>2, <1>8 DEF ServerRead, UDPRead, Streams
  <2>2. QED
    BY <1>2, <1>8, <2>1 DEF Decrypt
<1>9. QED
  BY <1>5, <1>6, <1>7, <1>8 DEF Kinds, Datagrams

LEMMA SmallestIndex ==
    ASSUME NEW I, I \subseteq Nat, I # {}
    PROVE  \E i \in I : \A j \in I : i <= j
<1> DEFINE R == {ss \in Nat \X Nat : ss[1] < ss[2]}
<1>1. IsWellFoundedOn(R, Nat)
  BY NatLessThanWellFounded DEF OpToRel
<1>2. \E i \in I : \A j \in I : ~(<<j, i>> \in R)
  <2> HIDE DEF R
  <2> QED
    BY <1>1, WFMin
<1>3. ASSUME NEW j \in Nat, NEW i \in Nat, j < i PROVE <<j, i>> \in R
  <2>1. <<j, i>> \in Nat \X Nat /\ <<j, i>>[1] = j /\ <<j, i>>[2] = i
    OBVIOUS
  <2>2. QED
    BY <1>3, <2>1
<1>4. QED
  <2> HIDE DEF R
  <2>1. PICK i \in I : \A j \in I : ~(<<j, i>> \in R)
    BY <1>2
  <2>2. \A j \in I : ~(j < i)
    BY <1>3, <2>1
  <2>3. QED
    BY <2>2

\* What TransportManager.Dial returns has answered.
LEMMA DialledAnswers ==
    ASSUME NEW S, NEW order \in Seq(S), NEW answering, Dialled(order, answering) # "none"
    PROVE  DialTransport(Dialled(order, answering), answering)
<1> DEFINE works == {i \in DOMAIN order : DialTransport(order[i], answering)}
           first == CHOOSE i \in works : \A j \in works : i <= j
<1>1. works # {}
  BY DEF Dialled
<1>2. \E i \in works : \A j \in works : i <= j
  <2>1. works \subseteq Nat
    OBVIOUS
  <2>2. QED
    BY <1>1, <2>1, SmallestIndex
<1>3. first \in works
  BY <1>2
<1>4. Dialled(order, answering) = order[first]
  BY <1>1 DEF Dialled
<1>5. QED
  BY <1>3, <1>4

-----------------------------------------------------------------------------
(* The types by group.                                                      *)
Pingers == [pc : {"write", "push", "wait"}, burst : 0..2, timer : 0..PingEvery]
Slots == [ping : Pings, age : 0..(Window + 1), acked : BOOLEAN]

ClientType ==
    /\ cfg \in Configs /\ phase \in {"opening", "up", "down", "crashed"}
    /\ opened \in 0..MaxOpen /\ kinds \in Seq(Kinds) /\ Gen <= MaxConns
    /\ pinger \in Pingers /\ nonce \in 0..MaxPings
ReaderType == rx \in Nat /\ wait \in Nat /\ ring \in Seq(Slots) /\ Len(ring) <= RingSize
ServerType ==
    /\ accepting \in Seq(Conns) /\ reading \subseteq Conns
    /\ filter \subseteq Pings /\ writer \in 0..MaxConns
HistoryType ==
    /\ base \in 0..MaxPings /\ heard \subseteq Pings /\ early \subseteq Pings
    /\ missed \in BOOLEAN /\ astray \in Nat
Typed == ClientType /\ ReaderType /\ link \in BOOLEAN /\ Messages /\ ServerType /\ HistoryType

LEMMA Types == TypeOK /\ Messages => Typed
  BY DEF TypeOK, Typed, ClientType, ReaderType, ServerType, HistoryType, Pingers, Slots

LEMMA TypesNext == Typed' => TypeOK' /\ Messages'
<1> SUFFICES ASSUME Typed' PROVE TypeOK' /\ Messages'
  OBVIOUS
<1>1. \A i \in DOMAIN up' : up'[i].via \in Conns /\ up'[i].copies \in 1..FEC /\ up'[i].age \in 0..Delay
  <2>1. \A i \in DOMAIN up' : up'[i] \in UpMessages
    BY DEF Typed, Messages
  <2>2. QED
    BY <2>1 DEF UpMessages
<1>2. \A i \in DOMAIN down' : /\ down'[i].via \in Conns /\ down'[i].ping \in Pings
                              /\ down'[i].copies \in 1..FEC /\ down'[i].age \in 0..Delay
  <2>1. \A i \in DOMAIN down' : down'[i] \in DownMessages
    BY DEF Typed, Messages
  <2>2. QED
    BY <2>1 DEF DownMessages
<1>3. QED
  BY <1>1, <1>2 DEF TypeOK, Typed, ClientType, ReaderType, ServerType, HistoryType, Pingers, Slots

LEMMA Numbers == /\ FEC \in Nat /\ FEC > 0 /\ 1 \in 1..FEC /\ FEC \in 1..FEC
                 /\ Delay \in Nat /\ Delay > 0 /\ 0 \in 0..Delay
                 /\ RingSize \in Nat /\ RingSize > 0
                 /\ MaxOpen \in Nat /\ 0 \in 0..MaxOpen
                 /\ MaxPings \in Nat /\ MaxPings > 0 /\ 0 \in 0..MaxPings
                 /\ MaxConns \in Nat /\ MaxConns > 0 /\ 0 \in 0..MaxConns
                 /\ PingEvery \in Nat /\ PingEvery > 0 /\ PingEvery \in 0..PingEvery /\ 0 \in 0..PingEvery
                 /\ Timeout \in Nat /\ ReadWait \in Nat
                 /\ Window \in Nat /\ 0 \in 0..(Window + 1)
                 /\ 2 * PingEvery <= Timeout /\ PingEvery + Timeout < ReadWait
  BY TimesAssumption, SizesAssumption

LEMMA Bounds == /\ Conns \subseteq Nat /\ Pings \subseteq Nat
                /\ Pings \subseteq 0..MaxPings /\ Conns \subseteq 0..MaxConns
  BY DEF Conns, Pings

-----------------------------------------------------------------------------
(* Sequences of messages and slots.                                         *)
LEMMA SeqOf ==
    ASSUME NEW S, NEW n \in Nat, NEW f \in [1..n -> S]
    PROVE  f \in Seq(S) /\ Len(f) = n /\ DOMAIN f = 1..n
  OBVIOUS

LEMMA Rest ==
    ASSUME NEW S, NEW s \in Seq(S), NEW k \in 1..Len(s)
    PROVE  LET r == SubSeq(s, k + 1, Len(s))
           IN  /\ r = [j \in 1..(Len(s) - k) |-> s[j + k]]
               /\ Len(r) = Len(s) - k /\ DOMAIN r = 1..(Len(s) - k)
               /\ \A j \in 1..(Len(s) - k) : r[j] = s[j + k]
  OBVIOUS

LEMMA Appended ==
    ASSUME NEW S, NEW s \in Seq(S), NEW e \in S
    PROVE  /\ Append(s, e) \in Seq(S) /\ Len(Append(s, e)) = Len(s) + 1
           /\ DOMAIN Append(s, e) = DOMAIN s \cup {Len(s) + 1}
           /\ \A i \in DOMAIN s : Append(s, e)[i] = s[i] /\ i <= Len(s)
           /\ Append(s, e)[Len(s) + 1] = e
  OBVIOUS

\* Where a packet of OneLess(net, i) was in net.
From(net, i, j) == IF net[i].copies > 1 \/ j < i THEN j ELSE j + 1

LEMMA LessFrom ==
    ASSUME NEW S, NEW net \in Seq(S), NEW i \in DOMAIN net
    PROVE  LET less == OneLess(net, i)
           IN  /\ DOMAIN less = 1..Len(less) /\ Len(less) \in Nat
               /\ \A j \in DOMAIN less :
                      /\ From(net, i, j) \in DOMAIN net
                      /\ \/ less[j] = net[From(net, i, j)]
                         \/ net[i].copies > 1 /\ j = i /\ less[j] = [net[i] EXCEPT !.copies = @ - 1]
               /\ \A j, k \in DOMAIN less : j < k => From(net, i, j) < From(net, i, k)
               /\ \A k \in DOMAIN net : k # i => \E j \in DOMAIN less : less[j] = net[k]
<1> DEFINE less == OneLess(net, i)
<1>1. CASE net[i].copies > 1
  <2>1. less = [net EXCEPT ![i].copies = @ - 1]
    BY <1>1 DEF OneLess
  <2>2. DOMAIN less = DOMAIN net /\ less \in Seq(S \cup {less[i]})
    BY <2>1
  <2>3. less[i] = [net[i] EXCEPT !.copies = @ - 1] /\ \A j \in DOMAIN net : j # i => less[j] = net[j]
    BY <2>1
  <2>4. DOMAIN less = 1..Len(less) /\ Len(less) \in Nat
    <3> HIDE DEF less
    <3> QED
      BY <2>2
  <2>5. \A j : From(net, i, j) = j
    BY <1>1 DEF From
  <2>6. QED
    <3> HIDE DEF less
    <3>1. \A j \in DOMAIN less : /\ From(net, i, j) \in DOMAIN net
                                 /\ \/ less[j] = net[From(net, i, j)]
                                    \/ j = i /\ less[j] = [net[i] EXCEPT !.copies = @ - 1]
      BY <2>2, <2>3, <2>5
    <3>2. \A k \in DOMAIN net : k # i => \E j \in DOMAIN less : less[j] = net[k]
      BY <2>2, <2>3
    <3>3. \A j, k \in DOMAIN less : j < k => From(net, i, j) < From(net, i, k)
      BY <2>5
    <3>4. QED
      BY <1>1, <2>4, <3>1, <3>2, <3>3 DEF less
<1>2. CASE ~(net[i].copies > 1)
  <2>1. less = [j \in 1..(Len(net) - 1) |-> IF j < i THEN net[j] ELSE net[j + 1]]
    BY <1>2 DEF OneLess
  <2>2. Len(net) \in Nat /\ DOMAIN net = 1..Len(net) /\ i \in 1..Len(net) /\ Len(net) - 1 \in Nat
    OBVIOUS
  <2>3. DOMAIN less = 1..(Len(net) - 1) /\ Len(less) = Len(net) - 1
    BY <2>1, <2>2
  <2>4. \A j \in DOMAIN less : From(net, i, j) \in DOMAIN net /\ less[j] = net[From(net, i, j)]
    BY <1>2, <2>1, <2>2, <2>3 DEF From
  <2>5. \A j, k \in DOMAIN less : j < k => From(net, i, j) < From(net, i, k)
    BY <1>2, <2>2, <2>3 DEF From
  <2>6. \A k \in DOMAIN net : k # i => \E j \in DOMAIN less : less[j] = net[k]
    <3>1. SUFFICES ASSUME NEW k \in DOMAIN net, k # i PROVE \E j \in DOMAIN less : less[j] = net[k]
      OBVIOUS
    <3>2. CASE k < i
      BY <2>1, <2>2, <2>3, <3>2
    <3>3. CASE k > i
      <4>1. k - 1 \in DOMAIN less /\ less[k - 1] = net[k]
        BY <2>1, <2>2, <2>3, <3>3
      <4>2. QED
        BY <4>1
    <3>4. QED
      BY <2>2, <3>1, <3>2, <3>3
  <2>7. QED
    BY <2>2, <2>3, <2>4, <2>5, <2>6
<1>3. QED
  BY <1>1, <1>2

LEMMA LessSeq ==
    ASSUME NEW S, NEW net \in Seq(S), NEW i \in DOMAIN net,
           net[i].copies > 1 => [net[i] EXCEPT !.copies = @ - 1] \in S
    PROVE  OneLess(net, i) \in Seq(S)
<1> DEFINE less == OneLess(net, i)
<1>1. less = [j \in DOMAIN less |-> less[j]]
  BY DEF OneLess
<1>2. DOMAIN less = 1..Len(less) /\ Len(less) \in Nat
  BY LessFrom
<1>3. \A j \in DOMAIN less : less[j] \in S
  <2>1. \A k \in DOMAIN net : net[k] \in S
    OBVIOUS
  <2>2. \A j \in DOMAIN less :
            /\ From(net, i, j) \in DOMAIN net
            /\ \/ less[j] = net[From(net, i, j)]
               \/ net[i].copies > 1 /\ less[j] = [net[i] EXCEPT !.copies = @ - 1]
    BY LessFrom
  <2> HIDE DEF less
  <2>3. QED
    BY <2>1, <2>2
<1> HIDE DEF less
<1>4. less \in [1..Len(less) -> S]
  BY <1>1, <1>2, <1>3
<1>5. QED
  BY <1>2, <1>4, SeqOf DEF less

\* The networks with one copy less.
LEMMA LessUp ==
    ASSUME up \in Seq(UpMessages), NEW i \in DOMAIN up
    PROVE  LET less == OneLess(up, i)
           IN  /\ less \in Seq(UpMessages)
               /\ \A j \in DOMAIN less :
                      LET k == From(up, i, j)
                      IN  /\ k \in DOMAIN up
                          /\ less[j].via = up[k].via /\ less[j].age = up[k].age
                          /\ less[j].frame = up[k].frame
               /\ \A j, k \in DOMAIN less : j < k => From(up, i, j) < From(up, i, k)
               /\ \A k \in DOMAIN up : k # i => \E j \in DOMAIN less : less[j] = up[k]
<1> DEFINE less == OneLess(up, i)
           m == [up[i] EXCEPT !.copies = @ - 1]
<1>1. up[i] \in UpMessages
  OBVIOUS
<1>2. up[i].copies > 1 => /\ m \in UpMessages
                          /\ m.via = up[i].via /\ m.age = up[i].age /\ m.frame = up[i].frame
  <2>1. up[i].copies \in 1..FEC
    BY <1>1 DEF UpMessages
  <2>2. up[i].copies > 1 => up[i].copies - 1 \in 1..FEC
    BY <2>1, Numbers
  <2>3. QED
    BY <1>1, <2>2 DEF UpMessages
<1>3. less \in Seq(UpMessages)
  BY <1>2, LessSeq
<1>4. /\ \A j \in DOMAIN less :
             /\ From(up, i, j) \in DOMAIN up
             /\ less[j] = up[From(up, i, j)] \/ (up[i].copies > 1 /\ j = i /\ less[j] = m)
      /\ \A j, k \in DOMAIN less : j < k => From(up, i, j) < From(up, i, k)
      /\ \A k \in DOMAIN up : k # i => \E j \in DOMAIN less : less[j] = up[k]
  BY LessFrom
<1>5. up[i].copies > 1 => From(up, i, i) = i
  BY DEF From
<1>6. ASSUME NEW j \in DOMAIN less
      PROVE  LET k == From(up, i, j)
             IN  /\ k \in DOMAIN up
                 /\ less[j].via = up[k].via /\ less[j].age = up[k].age
                 /\ less[j].frame = up[k].frame
  <2> HIDE DEF less, m
  <2>1. CASE less[j] = up[From(up, i, j)]
    BY <1>4, <2>1
  <2>2. CASE up[i].copies > 1 /\ j = i /\ less[j] = m
    BY <1>2, <1>4, <1>5, <2>2
  <2>3. QED
    BY <1>4, <2>1, <2>2
<1>7. QED
  <2> HIDE DEF less
  <2>1. QED
    BY <1>3, <1>4, <1>6 DEF less

LEMMA LessDown ==
    ASSUME down \in Seq(DownMessages), NEW i \in DOMAIN down
    PROVE  LET less == OneLess(down, i)
           IN  /\ less \in Seq(DownMessages)
               /\ \A j \in DOMAIN less : \E k \in DOMAIN down : less[j].ping = down[k].ping
<1> DEFINE less == OneLess(down, i)
           m == [down[i] EXCEPT !.copies = @ - 1]
<1>1. down[i] \in DownMessages
  OBVIOUS
<1>2. down[i].copies > 1 => m \in DownMessages /\ m.ping = down[i].ping
  <2>1. down[i].copies \in 1..FEC
    BY <1>1 DEF DownMessages
  <2>2. down[i].copies > 1 => down[i].copies - 1 \in 1..FEC
    BY <2>1, Numbers
  <2>3. QED
    BY <1>1, <2>2 DEF DownMessages
<1>3. less \in Seq(DownMessages)
  BY <1>2, LessSeq
<1>4. \A j \in DOMAIN less :
          /\ From(down, i, j) \in DOMAIN down
          /\ less[j] = down[From(down, i, j)] \/ (down[i].copies > 1 /\ less[j] = m)
  BY LessFrom
<1>5. \A j \in DOMAIN less : \E k \in DOMAIN down : less[j].ping = down[k].ping
  <2> HIDE DEF less, m
  <2>1. QED
    BY <1>2, <1>4
<1>6. QED
  BY <1>3, <1>5

LEMMA LargestIndex ==
    ASSUME NEW n \in Nat, NEW I, I \subseteq 1..n, I # {}
    PROVE  \E i \in I : \A j \in I : i >= j
<1> DEFINE D == {n - i : i \in I}
<1>1. D \subseteq Nat /\ D # {}
  <2>1. \A i \in I : i \in 1..n /\ n - i \in Nat
    OBVIOUS
  <2>2. QED
    BY <2>1
<1>2. PICK d \in D : \A e \in D : d <= e
  <2> HIDE DEF D
  <2>1. QED
    BY <1>1, SmallestIndex
<1>3. PICK i \in I : d = n - i
  BY <1>2
<1>4. \A j \in I : n - j \in D /\ j \in 1..n
  OBVIOUS
<1>5. ASSUME NEW j \in I PROVE i >= j
  <2>1. n - i <= n - j
    BY <1>2, <1>3, <1>4
  <2>2. i \in 1..n /\ j \in 1..n
    OBVIOUS
  <2>3. QED
    BY <2>1, <2>2
<1>6. QED
  BY <1>5

\* A second for the messages under way: the first k of them have been too long, and
\* the others are a second older.
LEMMA Arrives ==
    ASSUME NEW S, NEW net \in Seq(S), \A m \in S : m.age \in 0..Delay,
           \A m \in S : m.age < Delay => [m EXCEPT !.age = @ + 1] \in S
    PROVE  \E k \in 0..Len(net) :
               /\ Arriving(net) \in Seq(S) /\ DOMAIN Arriving(net) = 1..(Len(net) - k)
               /\ \A j \in 1..(Len(net) - k) :
                      j + k \in DOMAIN net /\ Arriving(net)[j] = [net[j + k] EXCEPT !.age = @ + 1]
               /\ \A j \in DOMAIN net : j > k => net[j].age < Delay
               /\ k > 0 => net[k].age = Delay
<1> DEFINE Aged(m) == [m EXCEPT !.age = @ + 1]
           O == {Aged(m) : m \in S}
           old == Older(net)
           late == Overripe(net)
<1>1. /\ Len(net) \in Nat /\ DOMAIN net = 1..Len(net) /\ \A i \in DOMAIN net : net[i] \in S
  OBVIOUS
<1>2. old \in Seq(O) /\ Len(old) = Len(net) /\ \A i \in DOMAIN net : old[i] = Aged(net[i])
  <2>1. old = [i \in 1..Len(net) |-> Aged(net[i])]
    BY <1>1 DEF Older
  <2>2. old \in [1..Len(net) -> O]
    BY <1>1, <2>1
  <2>3. old \in Seq(O) /\ Len(old) = Len(net)
    <3> HIDE DEF old, O
    <3>1. QED
      BY <1>1, <2>2, SeqOf
  <2>4. QED
    BY <1>1, <2>1, <2>3
<1>3. \A i \in DOMAIN net : i \notin late => net[i].age < Delay /\ Aged(net[i]) \in S
  <2>1. \A i \in DOMAIN net : i \notin late => net[i].age < Delay
    <3>1. \A i \in DOMAIN net : net[i].age \in 0..Delay /\ (i \notin late => net[i].age # Delay)
      BY <1>1 DEF Overripe
    <3>2. Delay \in Nat
      BY Numbers
    <3>3. QED
      BY <3>1, <3>2
  <2>2. QED
    BY <1>1, <2>1
<1>4. CASE late = {}
  <2>1. Arriving(net) = old
    BY <1>4 DEF Arriving
  <2>2. \A i \in DOMAIN net : net[i].age < Delay /\ old[i] \in S
    BY <1>2, <1>3, <1>4
  <2>3. old \in Seq(S) /\ DOMAIN old = 1..Len(net)
    <3>1. old = [i \in 1..Len(net) |-> old[i]]
      BY <1>1 DEF Older
    <3>2. old \in [1..Len(net) -> S]
      BY <1>1, <2>2, <3>1
    <3> HIDE DEF old
    <3>3. QED
      BY <1>1, <3>2, SeqOf
  <2>4. /\ Arriving(net) \in Seq(S) /\ DOMAIN Arriving(net) = 1..(Len(net) - 0)
        /\ \A j \in 1..(Len(net) - 0) :
               j + 0 \in DOMAIN net /\ Arriving(net)[j] = [net[j + 0] EXCEPT !.age = @ + 1]
        /\ \A j \in DOMAIN net : j > 0 => net[j].age < Delay
    <3> HIDE DEF old, late
    <3>1. QED
      BY <1>1, <1>2, <2>1, <2>2, <2>3
  <2>5. 0 \in 0..Len(net) /\ ~(0 > 0)
    BY <1>1
  <2>6. QED
    <3> HIDE DEF old, late, O
    <3>1. QED
      BY <2>4, <2>5
<1>5. CASE late # {}
  <2> DEFINE last == CHOOSE i \in late : \A j \in late : i >= j
  <2>1. Arriving(net) = SubSeq(old, last + 1, Len(net))
    BY <1>5 DEF Arriving
  <2>2. late \subseteq 1..Len(net)
    BY <1>1 DEF Overripe
  <2>3. \E i \in late : \A j \in late : i >= j
    BY <1>1, <1>5, <2>2, LargestIndex
  <2>4. last \in late /\ \A j \in late : last >= j
    BY <2>3
  <2>5. last \in 1..Len(net) /\ net[last].age = Delay
    BY <2>2, <2>4 DEF Overripe
  <2>6. \A i \in DOMAIN net : i > last => i \notin late
    <3> HIDE DEF last, late
    <3>1. QED
      BY <1>1, <2>4, <2>5
  <2> HIDE DEF last, late, old, O
  <2>7. Arriving(net) = [j \in 1..(Len(net) - last) |-> old[j + last]]
    <3>1. old \in Seq(O) /\ last \in 1..Len(old) /\ Len(old) = Len(net)
      BY <1>2, <2>5
    <3>2. SubSeq(old, last + 1, Len(old)) = [j \in 1..(Len(old) - last) |-> old[j + last]]
      BY <3>1, Rest
    <3>3. QED
      BY <2>1, <3>1, <3>2
  <2>8. \A j \in 1..(Len(net) - last) : j + last \in DOMAIN net /\ j + last > last
    BY <1>1, <2>5
  <2>9. \A j \in 1..(Len(net) - last) : old[j + last] = Aged(net[j + last]) /\ old[j + last] \in S
    BY <1>2, <1>3, <2>6, <2>8
  <2>10. Arriving(net) \in Seq(S)
    <3>1. Len(net) - last \in Nat
      BY <1>1, <2>5
    <3>3. Arriving(net) \in [1..(Len(net) - last) -> S]
      BY <2>7, <2>9
    <3>4. QED
      BY <3>1, <3>3, SeqOf
  <2>11. last \in 0..Len(net) /\ \A j \in DOMAIN net : j > last => net[j].age < Delay
    <3>1. last \in 0..Len(net)
      BY <1>1, <2>5
    <3>2. QED
      BY <1>3, <2>6, <3>1
  <2>12. DOMAIN Arriving(net) = 1..(Len(net) - last)
    BY <2>7
  <2>13. \A j \in 1..(Len(net) - last) :
             j + last \in DOMAIN net /\ Arriving(net)[j] = [net[j + last] EXCEPT !.age = @ + 1]
    BY <2>7, <2>8, <2>9
  <2>14. QED
    BY <2>5, <2>10, <2>11, <2>12, <2>13
<1>6. QED
  BY <1>4, <1>5
-----------------------------------------------------------------------------
(* Counting open slots.                                                     *)
LEMMA Finite ==
    ASSUME ReaderType, HistoryType, NEW p \in 0..MaxPings
    PROVE  /\ IsFiniteSet(OpenPings(p)) /\ OpenPings(p) \subseteq 1..MaxPings
           /\ IsFiniteSet(Unheard(p))
           /\ Cardinality(OpenPings(p)) \in Nat /\ Cardinality(Unheard(p)) \in Nat
<1>1. \A i \in DOMAIN ring : ring[i] \in Slots
  BY DEF ReaderType
<1>2. OpenPings(p) \subseteq 1..MaxPings
  BY <1>1 DEF OpenPings, OpenSlots, Slots, Pings
<1>3. IsFiniteSet(1..MaxPings) /\ IsFiniteSet((base + 1)..p)
  <2>1. MaxPings \in Int /\ base + 1 \in Int /\ p \in Int /\ 1 \in Int
    BY Numbers DEF HistoryType
  <2>2. QED
    BY <2>1, FS_Interval
<1>4. Unheard(p) \subseteq (base + 1)..p
  BY DEF Unheard
<1>5. IsFiniteSet(OpenPings(p)) /\ IsFiniteSet(Unheard(p))
  BY <1>2, <1>3, <1>4, FS_Subset
<1>6. QED
  BY <1>2, <1>5, FS_CardinalityType

\* Slots that are acknowledged or leave the ring do not count any more.
LEMMA FewerOpen ==
    ASSUME Typed, Typed', Counted, base' = base, heard' = heard,
           \A p \in 0..MaxPings : OpenPings(p)' \subseteq OpenPings(p)
    PROVE  Counted'
<1> SUFFICES ASSUME NEW p \in 0..MaxPings
             PROVE  Cardinality(OpenPings(p)') <= Cardinality(Unheard(p)')
  BY DEF Counted
<1>1. IsFiniteSet(OpenPings(p)) /\ Cardinality(OpenPings(p)) \in Nat /\ Cardinality(Unheard(p)) \in Nat
  BY Finite DEF Typed
<1>2. Cardinality(OpenPings(p)') <= Cardinality(OpenPings(p)) /\ Cardinality(OpenPings(p)') \in Nat
  BY <1>1, FS_Subset, FS_CardinalityType
<1>3. Unheard(p)' = Unheard(p)
  BY DEF Unheard
<1>4. QED
  BY <1>1, <1>2, <1>3 DEF Counted

LEMMA NoneOpen ==
    ASSUME Typed', ring' = <<>> PROVE Counted'
<1> SUFFICES ASSUME NEW p \in 0..MaxPings
             PROVE  Cardinality(OpenPings(p)') <= Cardinality(Unheard(p)')
  BY DEF Counted
<1>1. OpenPings(p)' = {}
  BY DEF OpenPings, OpenSlots
<1>2. IsFiniteSet(Unheard(p)')
  <2>1. (base + 1)' = base' + 1 /\ IsFiniteSet((base' + 1)..p)
    BY FS_Interval DEF Typed, HistoryType
  <2>2. Unheard(p)' \subseteq (base' + 1)..p
    BY DEF Unheard
  <2>3. QED
    BY <2>1, <2>2, FS_Subset
<1>3. QED
  BY <1>1, <1>2, FS_EmptySet, FS_CardinalityType

-----------------------------------------------------------------------------
(* Every step keeps the invariant: first those that change little.          *)
\* The link, the hand-over of WebSocket connections and a keep-alive that is lost.
Quiet ==
    /\ UNCHANGED <<client, reader, up, down, filter, writer, base, heard, early, astray>>
    /\ missed' \in {missed, TRUE} /\ link' \in BOOLEAN
    /\ accepting' \in Seq(Conns) /\ reading' \subseteq Conns

LEMMA QuietKeeps ==
    ASSUME IInv, Quiet PROVE IInv'
<1> USE DEF Quiet, client, reader
<1>1. Typed'
  <2>1. Typed
    BY Types DEF IInv
  <2>2. ClientType' /\ ReaderType'
    BY <2>1 DEF Typed, ClientType, ReaderType, Gen
  <2>3. Messages' /\ ServerType' /\ HistoryType'
    BY <2>1 DEF Typed, Messages, ServerType, HistoryType
  <2>4. QED
    BY <2>2, <2>3 DEF Typed
<1>2. Clocks' /\ Numbered' /\ ByAge'
  BY DEF IInv, Clocks, Numbered, Mine, Gen, ByAge
<1>3. HeardLately' /\ Counted'
  BY DEF IInv, HeardLately, SinceDue, Counted, OpenPings, OpenSlots, Unheard
<1>4. Path'
  <2>1. ~missed' => ~missed
    OBVIOUS
  <2>2. SinceDue' = SinceDue /\ OnItsWay' = OnItsWay /\ PathRecovers' = PathRecovers /\ Gen' = Gen
    BY DEF SinceDue, OnItsWay, PathRecovers, Gen
  <2>3. QED
    BY <2>1, <2>2 DEF IInv, Path
<1>5. QED
  BY <1>1, <1>2, <1>3, <1>4, TypesNext DEF IInv

LEMMA GoneKeeps ==
    ASSUME IInv, NEW label \in {"down", "crashed"}, Gone(label) PROVE IInv'
<1> USE DEF Gone, NoPings, server
<1>1. Typed /\ Typed'
  <2>1. Typed
    BY Types DEF IInv
  <2>2. ClientType'
    BY <2>1, Numbers DEF Typed, ClientType, Gen, Pingers
  <2>3. ReaderType'
    BY Numbers DEF ReaderType
  <2>4. Messages' /\ ServerType'
    BY <2>1 DEF Typed, Messages, ServerType
  <2>5. HistoryType'
    BY <2>1, Numbers DEF Typed, HistoryType
  <2>6. QED
    BY <2>1, <2>2, <2>3, <2>4, <2>5 DEF Typed
<1>2. Clocks' /\ HeardLately' /\ Path'
  BY DEF Clocks, HeardLately, Path
<1>3. Numbered' /\ ByAge'
  BY DEF IInv, Numbered, Mine, Gen, ByAge
<1>4. Counted'
  BY <1>1, NoneOpen
<1>5. QED
  BY <1>1, <1>2, <1>3, <1>4, TypesNext DEF IInv

LEMMA OpenKeeps ==
    ASSUME IInv, OpenSucceeds PROVE IInv'
<1>1. Typed
  BY Types DEF IInv
<1>2. PICK answering \in SUBSET Kinds :
          LET kind == Dialled(Priorities(cfg), answering)
          IN  /\ kind # "none"
              /\ kinds' = Append(kinds, kind)
              /\ accepting' = IF kind \in Streams THEN Append(accepting, Gen + 1) ELSE accepting
  BY DEF OpenSucceeds
<1> DEFINE kind == Dialled(Priorities(cfg), answering)
<1>3. kind \in Kinds
  <2>1. cfg \in [transport : STRING, priority : Seq(STRING), cdn : BOOLEAN]
    BY <1>1, ConfigsAssumption DEF Typed, ClientType
  <2> DEFINE names == STRING \cup {"wss", "udp"}
  <2>2. Priorities(cfg) \in Seq(names)
    <3>1. cfg.priority \in Seq(names) /\ cfg.transport \in names
      BY <2>1
    <3>2. <<"wss", "udp">> \in Seq(names) /\ <<"udp">> \in Seq(names) /\ <<cfg.transport>> \in Seq(names)
      BY <3>1
    <3>3. QED
      BY <3>1, <3>2 DEF Priorities
  <2>3. DialTransport(kind, answering)
    BY <1>2, <2>2, DialledAnswers
  <2>4. QED
    BY <1>2, <2>3 DEF DialTransport
<1> HIDE DEF kind
<1>4. /\ kinds' = Append(kinds, kind)
      /\ accepting' = IF kind \in Streams THEN Append(accepting, Gen + 1) ELSE accepting
  BY <1>2 DEF kind
<1>5. /\ phase = "opening" /\ Gen < MaxConns
      /\ phase' = "up" /\ link' = TRUE /\ wait' = 0 /\ ring' = <<>>
      /\ pinger' = [pc |-> "write", burst |-> 2, timer |-> PingEvery]
      /\ base' = nonce /\ heard' = {} /\ early' = {} /\ missed' = FALSE /\ astray' = 0
      /\ cfg' = cfg /\ opened' = opened /\ nonce' = nonce /\ rx' = rx /\ up' = up /\ down' = down
      /\ reading' = reading /\ filter' = filter /\ writer' = writer
  BY DEF OpenSucceeds
<1>6. Gen \in Nat /\ Gen' = Gen + 1 /\ kinds' \in Seq(Kinds) /\ Gen' \in 1..MaxConns
  BY <1>1, <1>3, <1>4, <1>5, Numbers DEF Typed, ClientType, Gen
<1>7. Typed'
  <2>1. ClientType'
    BY <1>1, <1>5, <1>6, Numbers DEF Typed, ClientType, Pingers
  <2>2. ReaderType'
    BY <1>1, <1>5, Numbers DEF Typed, ReaderType
  <2>3. Messages' /\ HistoryType'
    BY <1>1, <1>5, Numbers DEF Typed, Messages, HistoryType, ClientType
  <2>4. ServerType'
    <3>1. Gen + 1 \in Conns /\ accepting \in Seq(Conns)
      BY <1>1, <1>6 DEF Typed, ServerType, Conns
    <3>2. Append(accepting, Gen + 1) \in Seq(Conns)
      BY <3>1, Appended
    <3>3. QED
      BY <1>1, <1>4, <1>5, <3>1, <3>2 DEF Typed, ServerType
  <2>5. QED
    BY <1>5, <2>1, <2>2, <2>3, <2>4 DEF Typed
<1>8. Clocks'
  BY <1>1, <1>5, Numbers DEF IInv, Clocks, Typed, ClientType, ReaderType
<1>9. Numbered' /\ ByAge'
  <2>1. down = <<>>
    BY <1>5 DEF IInv, Numbered
  <2>2. \A i \in DOMAIN up : up[i] \in UpMessages /\ up[i].via \in Nat /\ up[i].via <= Gen
    <3>1. \A i \in DOMAIN up : up[i] \in UpMessages
      BY <1>1 DEF Typed, Messages
    <3>2. \A m \in UpMessages : m.via \in Nat
      BY Bounds DEF UpMessages
    <3>3. QED
      BY <3>1, <3>2 DEF IInv, Numbered
  <2>3. \A i \in DOMAIN up' : up'[i].via <= Gen' /\ up'[i].via # Gen'
    BY <1>5, <1>6, <2>2
  <2>4. base' <= nonce' /\ Gen' > 0
    BY <1>1, <1>5, <1>6 DEF Typed, ClientType
  <2>5. QED
    BY <1>5, <2>1, <2>3, <2>4 DEF IInv, Numbered, Mine, ByAge
<1>10. HeardLately' /\ Path'
  BY <1>5, Numbers DEF HeardLately, Path, PathRecovers, SinceDue
<1>11. Counted'
  BY <1>5, <1>7, NoneOpen
<1>12. QED
  BY <1>7, <1>8, <1>9, <1>10, <1>11, TypesNext DEF IInv

-----------------------------------------------------------------------------
(* persistentPingLoop.                                                      *)
LEMMA WriteKeeps ==
    ASSUME IInv, PingWrite PROVE IInv'
<1>1. Typed
  BY Types DEF IInv
<1>2. PICK quicLike \in BOOLEAN, stray \in {Nobody, ShortID} :
          LET frame == Frame(kinds[Gen], Encrypt("ping", nonce + 1, quicLike, stray))
          IN  up' = IF link THEN Append(up, [via |-> Gen, frame |-> frame, copies |-> FEC, age |-> 0])
                            ELSE up
  BY DEF PingWrite
<1> DEFINE frame == Frame(kinds[Gen], Encrypt("ping", nonce + 1, quicLike, stray))
           new == [via |-> Gen, frame |-> frame, copies |-> FEC, age |-> 0]
<1>3. /\ phase = "up" /\ pinger.pc = "write" /\ nonce < MaxPings
      /\ nonce' = nonce + 1 /\ pinger' = [pinger EXCEPT !.pc = "push"]
      /\ missed' = (missed \/ ~link)
      /\ cfg' = cfg /\ phase' = phase /\ opened' = opened /\ kinds' = kinds /\ link' = link
      /\ rx' = rx /\ wait' = wait /\ ring' = ring /\ down' = down
      /\ accepting' = accepting /\ reading' = reading /\ filter' = filter /\ writer' = writer
      /\ base' = base /\ heard' = heard /\ early' = early /\ astray' = astray
  BY DEF PingWrite, reader, server
<1>4. /\ Gen' = Gen /\ Gen \in Conns /\ nonce + 1 \in Pings
      /\ pinger'.pc = "push" /\ pinger'.burst = pinger.burst /\ pinger'.timer = pinger.timer
      /\ pinger' \in Pingers
  <2>1. Gen' = Gen /\ Gen \in Conns
    BY <1>1, <1>3 DEF Typed, ClientType, Gen, Conns, IInv, Numbered
  <2>2. nonce + 1 \in Pings
    <3>1. nonce \in 0..MaxPings /\ nonce < MaxPings /\ MaxPings \in Nat
      BY <1>1, <1>3, Numbers DEF Typed, ClientType
    <3>2. QED
      BY <3>1 DEF Pings
  <2>3. pinger \in Pingers
    BY <1>1 DEF Typed, ClientType
  <2>4. QED
    BY <1>3, <2>1, <2>2, <2>3 DEF Pingers
<1>5. new \in UpMessages /\ new.frame.packet.nonce = nonce + 1
  <2>1. Xor(ShortID, RouteMask[nonce + 1]) \in {Xor(ShortID, RouteMask[n]) : n \in Pings}
    BY <1>4
  <2>2. /\ Encrypt("ping", nonce + 1, quicLike, stray) \in Packets
        /\ Encrypt("ping", nonce + 1, quicLike, stray).nonce = nonce + 1
    BY <1>4, <2>1 DEF Encrypt, Packets
  <2>3. frame \in Frames /\ frame.packet.nonce = nonce + 1
    BY <2>2 DEF Frame, Frames
  <2>4. QED
    <3> HIDE DEF frame
    <3>1. QED
      BY <1>4, <2>3, Numbers DEF UpMessages
<1>6. new.via = Gen /\ new.copies = FEC /\ new.age = 0
  OBVIOUS
<1>7. up' = IF link THEN Append(up, new) ELSE up
  BY <1>2
<1> HIDE DEF new, frame
<1>8. /\ up \in Seq(UpMessages) /\ up' \in Seq(UpMessages)
      /\ \A i \in DOMAIN up : i \in DOMAIN up' /\ up'[i] = up[i]
      /\ \A i \in DOMAIN up' :
             i \in DOMAIN up \/ (up'[i] = new /\ \A j \in DOMAIN up : i > j)
      /\ link => \E i \in DOMAIN up' : up'[i] = new
  <2>1. up \in Seq(UpMessages)
    BY <1>1 DEF Typed, Messages
  <2>2. CASE link
    <3>1. up' = Append(up, new)
      BY <1>7, <2>2
    <3>2. /\ Append(up, new) \in Seq(UpMessages) /\ DOMAIN Append(up, new) = DOMAIN up \cup {Len(up) + 1}
          /\ \A i \in DOMAIN up : Append(up, new)[i] = up[i] /\ i <= Len(up) /\ i \in Nat /\ Len(up) \in Nat
          /\ Append(up, new)[Len(up) + 1] = new
      BY <1>5, <2>1, Appended
    <3>3. \A i \in DOMAIN up : Len(up) + 1 > i
      BY <3>2
    <3>4. QED
      BY <2>1, <3>1, <3>2, <3>3
  <2>3. CASE ~link
    BY <1>7, <2>1, <2>3
  <2>4. QED
    BY <2>2, <2>3
<1>9. Typed'
  <2>1. ClientType'
    BY <1>1, <1>3, <1>4, Bounds DEF Typed, ClientType
  <2>2. ReaderType' /\ ServerType' /\ Messages'
    BY <1>1, <1>3, <1>8 DEF Typed, ReaderType, ServerType, Messages
  <2>3. HistoryType' /\ link' \in BOOLEAN
    BY <1>1, <1>3 DEF Typed, HistoryType
  <2>4. QED
    BY <2>1, <2>2, <2>3 DEF Typed
<1>10. /\ SinceDue \in 0..PingEvery /\ SinceDue' = 0
  BY <1>1, <1>3, <1>4, Numbers DEF SinceDue, Typed, ClientType, Pingers
<1>11. Clocks'
  BY <1>3, <1>4 DEF IInv, Clocks
<1>12. nonce \in Nat /\ base \in Nat /\ Mine' = (base + 1)..(nonce + 1) /\ Mine \subseteq Mine' /\ nonce + 1 \notin Mine
       /\ (base <= nonce => nonce + 1 \in Mine')
  <2>1. nonce \in Nat /\ base \in Nat
    BY <1>1, Numbers DEF Typed, ClientType, HistoryType
  <2>2. Mine' = (base + 1)..(nonce + 1) /\ Mine = (base + 1)..nonce
    BY <1>3 DEF Mine
  <2>3. QED
    BY <2>1, <2>2
<1>13. Numbered'
  <2>1. base <= nonce /\ base' <= nonce' /\ Gen' > 0
    BY <1>3, <1>4, <1>12 DEF IInv, Numbered
  <2>2. \A i \in DOMAIN up' : up'[i].via <= Gen' /\ (up'[i].via = Gen' => up'[i].frame.packet.nonce \in Mine')
    <3>1. \A i \in DOMAIN up : up[i].via <= Gen /\ (up[i].via = Gen => up[i].frame.packet.nonce \in Mine')
      BY <1>12 DEF IInv, Numbered
    <3>2. new.via <= Gen /\ new.frame.packet.nonce \in Mine'
      BY <1>4, <1>5, <1>6, <1>12, <2>1, Bounds
    <3>3. QED
      BY <1>4, <1>8, <3>1, <3>2
  <2>3. heard \cup early \subseteq Mine' /\ nonce' \in Mine' \ heard'
    BY <1>3, <1>12, <2>1 DEF IInv, Numbered
  <2>4. \A i \in DOMAIN ring' : ring'[i].ping \in Mine' /\ ring'[i].ping # nonce'
    BY <1>3, <1>12 DEF IInv, Numbered
  <2>5. \A i, j \in DOMAIN ring' : i < j => ring'[i].ping < ring'[j].ping
    BY <1>3 DEF IInv, Numbered
  <2>6. \A i \in DOMAIN down' : down'[i].ping \in Mine'
    BY <1>3, <1>12 DEF IInv, Numbered
  <2>7. QED
    BY <1>3, <2>1, <2>2, <2>3, <2>4, <2>5, <2>6 DEF Numbered
<1>14. ByAge'
  <2>1. \A i \in DOMAIN up : up[i].age >= 0
    <3>1. \A m \in UpMessages : m.age >= 0
      BY Numbers DEF UpMessages
    <3>2. QED
      BY <1>8, <3>1
  <2>2. SUFFICES ASSUME NEW i \in DOMAIN up', NEW j \in DOMAIN up', i < j PROVE up'[i].age >= up'[j].age
    BY DEF ByAge
  <2>3. i \in Nat /\ j \in Nat
    BY <1>8
  <2>4. CASE i \in DOMAIN up /\ j \in DOMAIN up
    BY <1>8, <2>2, <2>4 DEF IInv, ByAge
  <2>5. CASE i \in DOMAIN up /\ j \notin DOMAIN up
    BY <1>6, <1>8, <2>1, <2>5
  <2>6. CASE i \notin DOMAIN up /\ j \in DOMAIN up
    BY <1>8, <2>2, <2>3, <2>6
  <2>7. CASE i \notin DOMAIN up /\ j \notin DOMAIN up
    BY <1>6, <1>8, <2>7
  <2>8. QED
    BY <2>4, <2>5, <2>6, <2>7
<1>15. HeardLately'
  <2>1. SUFFICES ASSUME NEW k \in 0..2, nonce' - k \in heard \cup early
                 PROVE  opened = 0 /\ wait <= k * PingEvery + 0
    BY <1>3, <1>10 DEF HeardLately
  <2>2. k # 0
    BY <1>3, <1>12, <2>1 DEF IInv, Numbered
  <2>3. k - 1 \in 0..2 /\ nonce - (k - 1) = nonce' - k
    BY <1>3, <1>12, <2>1, <2>2
  <2>4. opened = 0 /\ wait <= (k - 1) * PingEvery + SinceDue
    BY <1>3, <2>1, <2>3 DEF IInv, HeardLately
  <2>5. k = 1 \/ k = 2
    BY <2>2
  <2>6. wait \in Nat /\ PingEvery \in Nat
    BY <1>1, Numbers DEF Typed, ReaderType
  <2>7. CASE k = 1
    BY <1>10, <2>4, <2>6, <2>7
  <2>8. CASE k = 2
    BY <1>10, <2>4, <2>6, <2>8
  <2>9. QED
    BY <2>5, <2>7, <2>8
<1>16. Counted'
  BY <1>1, <1>3, <1>9, FewerOpen DEF IInv, OpenPings, OpenSlots
<1>17. Path'
  <2>1. PathRecovers'
    BY <1>3 DEF IInv, Path, PathRecovers
  <2>2. astray \in Nat
    BY <1>1 DEF Typed, HistoryType
  <2>3. ASSUME ~missed', ~(writer = Gen /\ astray = 0) PROVE OnItsWay'
    <3>1. link /\ ~missed
      BY <1>3, <2>3
    <3>2. CASE OnItsWay
      <4>1. PICK i \in DOMAIN up : up[i].via = Gen /\ up[i].copies = FEC /\ astray <= PingEvery + up[i].age
        BY <3>2 DEF OnItsWay
      <4>2. QED
        BY <1>3, <1>4, <1>8, <4>1 DEF OnItsWay
    <3>3. CASE astray <= SinceDue
      <4>1. PICK i \in DOMAIN up' : up'[i] = new
        BY <1>8, <3>1
      <4>2. astray <= PingEvery + new.age
        BY <1>6, <1>10, <2>2, <3>3, Numbers
      <4>3. QED
        BY <1>3, <1>4, <1>6, <4>1, <4>2 DEF OnItsWay
    <3>4. QED
      BY <1>3, <2>3, <3>1, <3>2, <3>3 DEF IInv, Path
  <2>4. QED
    BY <1>3, <1>4, <2>1, <2>3 DEF Path
<1>18. QED
  BY <1>9, <1>11, <1>13, <1>14, <1>15, <1>16, <1>17, TypesNext DEF IInv

LEMMA Pushed ==
    ASSUME ReaderType, nonce \in Pings,
           \A i \in DOMAIN ring : ring[i].ping < nonce,
           \A i, j \in DOMAIN ring : i < j => ring[i].ping < ring[j].ping
    PROVE  LET r == EchoPush(ring, nonce)
           IN  /\ r \in Seq(Slots) /\ Len(r) <= RingSize
               /\ \A i \in DOMAIN r : \/ \E j \in DOMAIN ring : r[i] = ring[j]
                                      \/ r[i].ping = nonce
               /\ \A i, j \in DOMAIN r : i < j => r[i].ping < r[j].ping
<1> DEFINE slot == [ping |-> nonce, age |-> 0, acked |-> FALSE]
           grown == Append(ring, slot)
           r == EchoPush(ring, nonce)
<1>1. slot \in Slots /\ slot.ping = nonce
  BY Numbers DEF Slots
<1>2. ring \in Seq(Slots) /\ Len(ring) <= RingSize /\ RingSize \in Nat
  BY Numbers DEF ReaderType
<1> HIDE DEF slot
<1>3. /\ grown \in Seq(Slots) /\ Len(grown) = Len(ring) + 1
      /\ DOMAIN grown = DOMAIN ring \cup {Len(ring) + 1}
      /\ \A i \in DOMAIN ring : grown[i] = ring[i] /\ i <= Len(ring)
      /\ grown[Len(ring) + 1] = slot
  BY <1>1, <1>2, Appended
<1> HIDE DEF grown
<1>4. /\ \A i \in DOMAIN ring : ring[i].ping \in Nat
      /\ nonce \in Nat
  <2>1. \A s \in Slots : s.ping \in Nat
    BY Bounds DEF Slots
  <2>2. QED
    BY <1>2, <2>1, Bounds
<1>5. /\ \A i \in DOMAIN grown : (\E j \in DOMAIN ring : grown[i] = ring[j]) \/ grown[i].ping = nonce
      /\ \A i, j \in DOMAIN grown : i < j => grown[i].ping < grown[j].ping
  <2>1. \A i \in DOMAIN grown : i \in DOMAIN ring \/ (i = Len(ring) + 1 /\ grown[i].ping = nonce)
    BY <1>1, <1>3
  <2>2. ASSUME NEW i \in DOMAIN grown, NEW j \in DOMAIN grown, i < j
        PROVE  i \in DOMAIN ring /\ grown[i].ping < grown[j].ping
    <3>1. i \in DOMAIN ring
      <4>1. Len(ring) \in Nat /\ j <= Len(ring) + 1 /\ i \in Nat /\ j \in Nat
        <5>1. DOMAIN ring = 1..Len(ring) /\ Len(ring) \in Nat
          BY <1>2
        <5>2. DOMAIN grown = 1..(Len(ring) + 1)
          BY <1>3, <5>1
        <5>3. QED
          BY <5>1, <5>2
      <4>2. i # Len(ring) + 1
        BY <2>2, <4>1
      <4>3. QED
        BY <2>1, <4>2
    <3>2. CASE j \in DOMAIN ring
      BY <1>3, <2>2, <3>1, <3>2
    <3>3. CASE grown[j].ping = nonce
      BY <1>3, <3>1, <3>3
    <3>4. QED
      BY <2>1, <3>2, <3>3
  <2>3. QED
    BY <1>3, <2>1, <2>2
<1>6. r = IF Len(grown) > RingSize THEN Tail(grown) ELSE grown
  BY DEF EchoPush, grown, slot
<1>7. CASE Len(grown) > RingSize
  <2>1. /\ Tail(grown) \in Seq(Slots) /\ Len(Tail(grown)) = Len(grown) - 1
        /\ \A i \in DOMAIN Tail(grown) : i + 1 \in DOMAIN grown /\ Tail(grown)[i] = grown[i + 1]
        /\ \A i, j \in DOMAIN Tail(grown) : i < j => i + 1 < j + 1
    BY <1>2, <1>3, <1>7
  <2>2. r = Tail(grown)
    BY <1>6, <1>7
  <2> HIDE DEF r
  <2>3. r \in Seq(Slots) /\ Len(r) <= RingSize
    BY <1>2, <1>3, <2>1, <2>2
  <2>4. \A i \in DOMAIN r : (\E j \in DOMAIN ring : r[i] = ring[j]) \/ r[i].ping = nonce
    BY <1>5, <2>1, <2>2
  <2>5. \A i, j \in DOMAIN r : i < j => r[i].ping < r[j].ping
    BY <1>5, <2>1, <2>2
  <2>6. QED
    BY <2>3, <2>4, <2>5 DEF r
<1>8. CASE ~(Len(grown) > RingSize)
  <2>1. r = grown
    BY <1>6, <1>8
  <2> HIDE DEF r
  <2>2. r \in Seq(Slots) /\ Len(r) <= RingSize
    BY <1>2, <1>3, <1>8, <2>1
  <2>3. QED
    BY <1>5, <2>1, <2>2 DEF r
<1>9. QED
  BY <1>7, <1>8

LEMMA PushKeeps ==
    ASSUME IInv, PingPush PROVE IInv'
<1>1. Typed
  BY Types DEF IInv
<1>2. /\ phase = "up" /\ pinger.pc = "push" /\ ring' = EchoPush(ring, nonce)
      /\ cfg' = cfg /\ kinds' = kinds /\ nonce' = nonce /\ wait' = wait /\ up' = up
      /\ accepting' = accepting /\ reading' = reading /\ filter' = filter /\ writer' = writer
      /\ base' = base /\ heard' = heard /\ early' = early /\ missed' = missed /\ astray' = astray
      /\ Gen' = Gen /\ Mine' = Mine
  BY DEF PingPush, server, history, Gen, Mine
<1>3. \/ /\ phase' = "opening" /\ opened' = 0 /\ rx' = 0
         /\ pinger' = NoPings /\ link' = FALSE /\ down' = <<>>
      \/ /\ rx <= Timeout /\ pinger' = AfterPing
         /\ phase' = phase /\ opened' = opened /\ rx' = rx /\ link' = link /\ down' = down
  <2>1. rx \in Nat /\ Timeout \in Nat
    BY <1>1, Numbers DEF Typed, ReaderType
  <2>2. CASE IsDead
    BY <2>2 DEF PingPush
  <2>3. CASE ~IsDead
    BY <2>1, <2>3 DEF PingPush, IsDead
  <2>4. QED
    BY <2>2, <2>3
<1>4. /\ pinger \in Pingers /\ pinger.timer = PingEvery /\ AfterPing \in Pingers
      /\ AfterPing.timer = PingEvery /\ AfterPing.pc # "push"
      /\ AfterPing.pc = "wait" => AfterPing.burst = 0
      /\ AfterPing.pc = "write" => AfterPing.burst = 1
  <2>1. pinger \in Pingers /\ pinger.timer = PingEvery
    BY <1>1, <1>2 DEF Typed, ClientType, IInv, Clocks
  <2>2. pinger.burst \in 0..2
    BY <2>1 DEF Pingers
  <2>3. PICK b \in 0..2 : b = IF pinger.burst > 0 THEN pinger.burst - 1 ELSE 0
    BY <2>2
  <2>4. PICK c \in {"write", "push", "wait"} : c = IF pinger.burst = 2 THEN "write" ELSE "wait"
    OBVIOUS
  <2>5. AfterPing = [pinger EXCEPT !.burst = b, !.pc = c]
    BY <2>3, <2>4 DEF AfterPing
  <2>6. AfterPing \in Pingers /\ AfterPing.burst = b /\ AfterPing.pc = c /\ AfterPing.timer = pinger.timer
    <3>1. /\ [pinger EXCEPT !.burst = b, !.pc = c] \in Pingers
          /\ [pinger EXCEPT !.burst = b, !.pc = c].burst = b
          /\ [pinger EXCEPT !.burst = b, !.pc = c].pc = c
          /\ [pinger EXCEPT !.burst = b, !.pc = c].timer = pinger.timer
      BY <2>1 DEF Pingers
    <3>2. QED
      BY <2>5, <3>1
  <2>7. c # "push" /\ (c = "wait" => b = 0) /\ (c = "write" => b = 1)
    BY <2>2, <2>3, <2>4
  <2>8. QED
    BY <2>1, <2>6, <2>7
<1>5. SinceDue = 0 /\ (pinger' = AfterPing => SinceDue' = 0)
  BY <1>2, <1>4, Numbers DEF SinceDue
<1>6. /\ nonce \in Mine \ heard /\ nonce \in Pings /\ nonce - 1 \in 0..MaxPings
      /\ \A i \in DOMAIN ring : ring[i].ping < nonce /\ ring[i].ping <= nonce - 1
      /\ \A i, j \in DOMAIN ring : i < j => ring[i].ping < ring[j].ping
  <2>1. /\ nonce \in Mine \ heard
        /\ \A i \in DOMAIN ring : ring[i].ping \in Mine /\ ring[i].ping # nonce
        /\ \A i, j \in DOMAIN ring : i < j => ring[i].ping < ring[j].ping
    BY <1>2 DEF IInv, Numbered
  <2>2. base \in 0..MaxPings /\ nonce \in 0..MaxPings
    BY <1>1 DEF Typed, ClientType, HistoryType
  <2>3. nonce \in 1..MaxPings
    BY <2>1, <2>2, Numbers DEF Mine
  <2>4. \A i \in DOMAIN ring : ring[i].ping < nonce /\ ring[i].ping <= nonce - 1
    BY <2>1, <2>2, <2>3 DEF Mine
  <2>5. nonce - 1 \in 0..MaxPings
    BY <2>3, Numbers
  <2>6. QED
    BY <2>1, <2>3, <2>4, <2>5 DEF Pings
<1>7. /\ ring' \in Seq(Slots) /\ Len(ring') <= RingSize
      /\ \A i \in DOMAIN ring' : \/ \E j \in DOMAIN ring : ring'[i] = ring[j]
                                 \/ ring'[i].ping = nonce
      /\ \A i, j \in DOMAIN ring' : i < j => ring'[i].ping < ring'[j].ping
  BY <1>1, <1>2, <1>6, Pushed DEF Typed
<1>8. Typed'
  <2>1. ClientType'
    BY <1>1, <1>2, <1>3, <1>4, Numbers DEF Typed, ClientType, Pingers, NoPings
  <2>2. ReaderType'
    BY <1>1, <1>2, <1>3, <1>7, Numbers DEF Typed, ReaderType
  <2>3. Messages' /\ link' \in BOOLEAN
    <3>1. down \in Seq(DownMessages) /\ <<>> \in Seq(DownMessages) /\ up \in Seq(UpMessages)
          /\ link \in BOOLEAN
      BY <1>1 DEF Typed, Messages
    <3>2. QED
      BY <1>2, <1>3, <3>1 DEF Messages
  <2>4. ServerType' /\ HistoryType'
    BY <1>1, <1>2 DEF Typed, ServerType, HistoryType
  <2>5. QED
    BY <2>1, <2>2, <2>3, <2>4 DEF Typed
<1>9. Clocks'
  <2>1. CASE phase' = "opening"
    BY <1>2, <1>3, <2>1 DEF Clocks
  <2>2. CASE phase' = "up"
    <3>1. rx = opened + wait /\ opened' = opened /\ rx' = rx /\ pinger' = AfterPing
      BY <1>2, <1>3, <2>2 DEF IInv, Clocks
    <3>2. rx <= Timeout
      BY <1>3, <2>2
    <3>3. opened \in Nat /\ wait \in Nat /\ Timeout \in Nat /\ PingEvery \in Nat
      BY <1>1, Numbers DEF Typed, ClientType, ReaderType
    <3>4. opened + wait <= Timeout
      BY <3>1, <3>2
    <3>5. wait <= Timeout /\ wait <= Timeout + PingEvery
      BY <3>3, <3>4
    <3>6. PingEvery - PingEvery = 0 /\ Timeout + 0 = Timeout
      BY <3>3
    <3>7. QED
      BY <1>2, <1>4, <2>2, <3>1, <3>5, <3>6, Numbers DEF Clocks
  <2>3. QED
    BY <1>2, <1>3, <2>1, <2>2
<1>10. Numbered' /\ ByAge'
  <2>1. phase' # "up" => down' = <<>> /\ pinger'.pc = "wait"
    BY <1>2, <1>3 DEF NoPings
  <2>2. pinger'.pc # "push"
    BY <1>3, <1>4 DEF NoPings
  <2>3. \A i \in DOMAIN down' : down'[i].ping \in Mine
    BY <1>3 DEF IInv, Numbered
  <2>4. \A i \in DOMAIN ring' : ring'[i].ping \in Mine
    BY <1>6, <1>7 DEF IInv, Numbered
  <2>5. QED
    BY <1>2, <1>7, <2>1, <2>2, <2>3, <2>4 DEF IInv, Numbered, ByAge
<1>11. HeardLately' /\ Path'
  <2>1. CASE phase' = "opening"
    BY <2>1 DEF HeardLately, Path
  <2>2. CASE phase' = "up"
    <3>1. opened' = opened /\ SinceDue' = SinceDue
      BY <1>3, <1>5, <2>2
    <3>2. OnItsWay' = OnItsWay /\ PathRecovers' = PathRecovers
      BY <1>2, <2>2 DEF OnItsWay, PathRecovers
    <3>3. QED
      BY <1>2, <2>2, <3>1, <3>2 DEF IInv, HeardLately, Path
  <2>3. QED
    BY <1>2, <1>3, <2>1, <2>2
<1>12. Counted'
  <2>1. SUFFICES ASSUME NEW p \in 0..MaxPings
                 PROVE  Cardinality(OpenPings(p)') <= Cardinality(Unheard(p)')
    BY DEF Counted
  <2>2. Unheard(p)' = Unheard(p)
    BY <1>2 DEF Unheard
  <2>3. \A i \in DOMAIN ring : ring[i].ping \in Nat
    <3>1. \A s \in Slots : s.ping \in Nat
      BY Bounds DEF Slots
    <3>2. QED
      BY <1>1, <3>1 DEF Typed, ReaderType
  <2>4. CASE p < nonce
    <3>1. OpenPings(p)' \subseteq OpenPings(p)
      <4>1. ASSUME NEW i \in DOMAIN ring', ~ring'[i].acked, ring'[i].ping <= p
            PROVE  ring'[i].ping \in OpenPings(p)
        <5>1. nonce \in Nat /\ p \in Nat
          BY <1>6, Bounds
        <5>2. PICK j \in DOMAIN ring : ring'[i] = ring[j]
          BY <1>7, <2>4, <4>1, <5>1
        <5>3. QED
          BY <4>1, <5>2 DEF OpenPings, OpenSlots
      <4>2. QED
        BY <4>1 DEF OpenPings, OpenSlots
    <3>2. /\ IsFiniteSet(OpenPings(p)) /\ Cardinality(OpenPings(p)) \in Nat
          /\ Cardinality(Unheard(p)) \in Nat
      BY <1>1, Finite DEF Typed
    <3>3. Cardinality(OpenPings(p)') <= Cardinality(OpenPings(p)) /\ Cardinality(OpenPings(p)') \in Nat
      BY <3>1, <3>2, FS_Subset, FS_CardinalityType
    <3>4. Cardinality(OpenPings(p)) <= Cardinality(Unheard(p))
      BY DEF IInv, Counted
    <3>5. QED
      BY <2>2, <3>2, <3>3, <3>4
  <2>5. CASE ~(p < nonce)
    <3> DEFINE q == nonce - 1
    <3>1. /\ IsFiniteSet(OpenPings(q)) /\ Cardinality(OpenPings(q)) \in Nat
          /\ IsFiniteSet(Unheard(q)) /\ Cardinality(Unheard(q)) \in Nat
          /\ IsFiniteSet(Unheard(p)) /\ Cardinality(Unheard(p)) \in Nat
      BY <1>1, <1>6, Finite DEF Typed
    <3>2. OpenPings(p)' \subseteq OpenPings(q) \cup {nonce}
      <4>1. ASSUME NEW i \in DOMAIN ring', ~ring'[i].acked
            PROVE  ring'[i].ping \in OpenPings(q) \cup {nonce}
        <5>1. CASE ring'[i].ping = nonce
          BY <5>1
        <5>2. ASSUME NEW j \in DOMAIN ring, ring'[i] = ring[j] PROVE ring'[i].ping \in OpenPings(q)
          BY <1>6, <4>1, <5>2 DEF OpenPings, OpenSlots
        <5>3. QED
          BY <1>7, <5>1, <5>2
      <4>2. QED
        BY <4>1 DEF OpenPings, OpenSlots
    <3>3. /\ IsFiniteSet(OpenPings(q) \cup {nonce})
          /\ Cardinality(OpenPings(q) \cup {nonce}) <= Cardinality(OpenPings(q)) + 1
          /\ Cardinality(OpenPings(q) \cup {nonce}) \in Nat
      <4>1. /\ IsFiniteSet(OpenPings(q) \cup {nonce})
            /\ \/ Cardinality(OpenPings(q) \cup {nonce}) = Cardinality(OpenPings(q))
               \/ Cardinality(OpenPings(q) \cup {nonce}) = Cardinality(OpenPings(q)) + 1
        BY <3>1, FS_AddElement
      <4>2. QED
        BY <3>1, <4>1
    <3>4. Cardinality(OpenPings(p)') <= Cardinality(OpenPings(q)) + 1 /\ Cardinality(OpenPings(p)') \in Nat
      <4>1. /\ IsFiniteSet(OpenPings(p)')
            /\ Cardinality(OpenPings(p)') <= Cardinality(OpenPings(q) \cup {nonce})
        BY <3>2, <3>3, FS_Subset
      <4>2. Cardinality(OpenPings(p)') \in Nat
        BY <4>1, FS_CardinalityType
      <4>3. QED
        BY <3>1, <3>3, <4>1, <4>2
    <3>5. Cardinality(OpenPings(q)) <= Cardinality(Unheard(q))
      BY <1>6 DEF IInv, Counted
    <3>6. Cardinality(Unheard(q) \cup {nonce}) = Cardinality(Unheard(q)) + 1
      <4>1. nonce \notin Unheard(q)
        BY <1>6, Bounds DEF Unheard
      <4>2. QED
        BY <3>1, <4>1, FS_AddElement
    <3>7. Unheard(q) \cup {nonce} \subseteq Unheard(p)
      <4>1. nonce \in Nat /\ p \in Nat /\ base \in Nat
        BY <1>1, <1>6, Bounds DEF Typed, HistoryType
      <4>2. (base + 1)..q \subseteq (base + 1)..p /\ nonce \in (base + 1)..p
        BY <1>6, <2>5, <4>1 DEF Mine
      <4>3. QED
        BY <1>6, <4>2 DEF Unheard
    <3>8. Cardinality(Unheard(q)) + 1 <= Cardinality(Unheard(p))
      BY <3>1, <3>6, <3>7, FS_Subset
    <3>9. QED
      BY <2>2, <3>1, <3>4, <3>5, <3>8
  <2>6. QED
    BY <2>4, <2>5
<1>13. QED
  BY <1>8, <1>9, <1>10, <1>11, <1>12, TypesNext DEF IInv

-----------------------------------------------------------------------------
(* A second passes.                                                         *)
LEMMA OlderUp ==
    ASSUME up \in Seq(UpMessages)
    PROVE  \E k \in 0..Len(up) :
               /\ Arriving(up) \in Seq(UpMessages) /\ DOMAIN Arriving(up) = 1..(Len(up) - k)
               /\ \A j \in 1..(Len(up) - k) :
                      LET was == up[j + k]
                          is == Arriving(up)[j]
                      IN  /\ j + k \in DOMAIN up
                          /\ is.via = was.via /\ is.frame = was.frame /\ is.copies = was.copies
                          /\ is.age = was.age + 1
               /\ \A j \in DOMAIN up : j > k => up[j].age < Delay
               /\ k > 0 => up[k].age = Delay
<1>1. \A m \in UpMessages : m.age \in 0..Delay
  BY DEF UpMessages
<1>2. ASSUME NEW m \in UpMessages
      PROVE  LET aged == [m EXCEPT !.age = @ + 1]
             IN  /\ aged.via = m.via /\ aged.frame = m.frame /\ aged.copies = m.copies
                 /\ aged.age = m.age + 1
                 /\ m.age < Delay => aged \in UpMessages
  <2>1. m.age < Delay => m.age + 1 \in 0..Delay
    BY <1>1, Numbers
  <2>2. QED
    BY <2>1 DEF UpMessages
<1>3. \A m \in UpMessages : m.age < Delay => [m EXCEPT !.age = @ + 1] \in UpMessages
  BY <1>2
<1>4. PICK k \in 0..Len(up) :
          /\ Arriving(up) \in Seq(UpMessages) /\ DOMAIN Arriving(up) = 1..(Len(up) - k)
          /\ \A j \in 1..(Len(up) - k) :
                 j + k \in DOMAIN up /\ Arriving(up)[j] = [up[j + k] EXCEPT !.age = @ + 1]
          /\ \A j \in DOMAIN up : j > k => up[j].age < Delay
          /\ k > 0 => up[k].age = Delay
  BY <1>1, <1>3, Arrives
<1>5. ASSUME NEW j \in 1..(Len(up) - k)
      PROVE  LET was == up[j + k]
                 is == Arriving(up)[j]
             IN  /\ j + k \in DOMAIN up
                 /\ is.via = was.via /\ is.frame = was.frame /\ is.copies = was.copies
                 /\ is.age = was.age + 1
  <2>1. PICK m \in UpMessages : m = up[j + k]
    BY <1>4
  <2>2. Arriving(up)[j] = [m EXCEPT !.age = @ + 1]
    BY <1>4, <2>1
  <2>3. QED
    BY <1>2, <1>4, <2>1, <2>2
<1>6. QED
  BY <1>4, <1>5

LEMMA OlderDown ==
    ASSUME down \in Seq(DownMessages)
    PROVE  /\ Arriving(down) \in Seq(DownMessages)
           /\ \A j \in DOMAIN Arriving(down) : \E i \in DOMAIN down : Arriving(down)[j].ping = down[i].ping
<1>1. \A m \in DownMessages : m.age \in 0..Delay
  BY DEF DownMessages
<1>2. ASSUME NEW m \in DownMessages
      PROVE  LET aged == [m EXCEPT !.age = @ + 1]
             IN  /\ aged.ping = m.ping
                 /\ m.age < Delay => aged \in DownMessages
  <2>1. m.age < Delay => m.age + 1 \in 0..Delay
    BY <1>1, Numbers
  <2>2. QED
    BY <2>1 DEF DownMessages
<1>3. \A m \in DownMessages : m.age < Delay => [m EXCEPT !.age = @ + 1] \in DownMessages
  BY <1>2
<1>4. PICK k \in 0..Len(down) :
          /\ Arriving(down) \in Seq(DownMessages) /\ DOMAIN Arriving(down) = 1..(Len(down) - k)
          /\ \A j \in 1..(Len(down) - k) :
                 j + k \in DOMAIN down /\ Arriving(down)[j] = [down[j + k] EXCEPT !.age = @ + 1]
          /\ \A j \in DOMAIN down : j > k => down[j].age < Delay
          /\ k > 0 => down[k].age = Delay
  BY <1>1, <1>3, Arrives
<1>5. ASSUME NEW j \in 1..(Len(down) - k)
      PROVE  \E i \in DOMAIN down : Arriving(down)[j].ping = down[i].ping
  <2>1. PICK m \in DownMessages : m = down[j + k]
    BY <1>4
  <2>2. Arriving(down)[j] = [m EXCEPT !.age = @ + 1]
    BY <1>4, <2>1
  <2>3. QED
    BY <1>2, <1>4, <2>1, <2>2
<1>6. QED
  BY <1>4, <1>5

\* The slots of the ring, a second older.
LEMMA RingOlder ==
    ASSUME ReaderType,
           ring' = [i \in DOMAIN ring |-> [ring[i] EXCEPT !.age = IF @ > Window THEN @ ELSE @ + 1]]
    PROVE  /\ ring' \in Seq(Slots) /\ Len(ring') = Len(ring) /\ DOMAIN ring' = DOMAIN ring
           /\ \A i \in DOMAIN ring : ring'[i].ping = ring[i].ping /\ ring'[i].acked = ring[i].acked
<1>1. ring \in Seq(Slots) /\ DOMAIN ring = 1..Len(ring) /\ Len(ring) \in Nat
  BY DEF ReaderType
<1>2. ASSUME NEW s \in Slots
      PROVE  LET aged == [s EXCEPT !.age = IF @ > Window THEN @ ELSE @ + 1]
             IN  aged \in Slots /\ aged.ping = s.ping /\ aged.acked = s.acked
  <2>1. (IF s.age > Window THEN s.age ELSE s.age + 1) \in 0..(Window + 1)
    BY Numbers DEF Slots
  <2>2. QED
    BY <2>1 DEF Slots
<1>3. ASSUME NEW i \in DOMAIN ring
      PROVE  /\ ring'[i] \in Slots
             /\ ring'[i].ping = ring[i].ping /\ ring'[i].acked = ring[i].acked
  <2>1. PICK s \in Slots : s = ring[i]
    BY <1>1
  <2>2. ring'[i] = [s EXCEPT !.age = IF @ > Window THEN @ ELSE @ + 1]
    BY <2>1
  <2>3. QED
    BY <1>2, <2>1, <2>2
<1>4. ring' = [i \in 1..Len(ring) |-> ring'[i]]
  BY <1>1
<1>5. ring' \in [1..Len(ring) -> Slots]
  BY <1>1, <1>3, <1>4
<1>6. ring' \in Seq(Slots) /\ Len(ring') = Len(ring) /\ DOMAIN ring' = 1..Len(ring)
  BY <1>1, <1>5, SeqOf
<1>7. QED
  BY <1>1, <1>3, <1>6

LEMMA TickKeeps ==
    ASSUME IInv, Tick PROVE IInv'
<1>1. Typed
  BY Types DEF IInv
<1>2. /\ ring' = [i \in DOMAIN ring |-> [ring[i] EXCEPT !.age = IF @ > Window THEN @ ELSE @ + 1]]
      /\ up' = Arriving(up) /\ down' = Arriving(down) /\ rx' = rx + 1
      /\ missed' = (missed \/ NeverArrives)
      /\ astray' = IF phase = "up" /\ writer # Gen /\ ~missed' THEN astray + 1 ELSE 0
      /\ cfg' = cfg /\ phase' = phase /\ kinds' = kinds /\ nonce' = nonce /\ link' = link
      /\ accepting' = accepting /\ reading' = reading /\ filter' = filter /\ writer' = writer
      /\ base' = base /\ heard' = heard /\ early' = early
      /\ Gen' = Gen /\ Mine' = Mine
  BY DEF Tick, server, Gen, Mine
<1>3. /\ opened \in 0..MaxOpen /\ opened \in Nat /\ wait \in Nat /\ rx \in Nat /\ astray \in Nat
      /\ PingEvery \in Nat /\ Timeout \in Nat
  BY <1>1, Numbers DEF Typed, ClientType, ReaderType, HistoryType
<1>4. \/ /\ phase = "opening" /\ opened < MaxOpen
         /\ opened' = opened + 1 /\ wait' = wait /\ pinger' = pinger
      \/ /\ phase = "up" /\ pinger.pc = "wait"
         /\ opened' = opened /\ wait' = wait + 1
         /\ pinger' = IF pinger.timer > 1 THEN [pinger EXCEPT !.timer = @ - 1]
                      ELSE [pc |-> "write", burst |-> 0, timer |-> PingEvery]
  <2>1. CASE phase = "opening" /\ opened < MaxOpen
    BY <2>1 DEF Tick
  <2>2. CASE phase = "up" /\ pinger.pc = "wait"
    BY <2>2 DEF Tick
  <2>3. QED
    BY <2>1, <2>2 DEF Tick
\* The timer of persistentPingLoop.
<1>5. ASSUME phase = "up"
      PROVE  /\ pinger' \in Pingers /\ pinger'.pc # "push" /\ pinger'.timer > 0
             /\ SinceDue \in 0..PingEvery /\ SinceDue' = SinceDue + 1 /\ SinceDue' <= PingEvery
             /\ pinger'.pc = "wait" => pinger'.burst = 0 /\ SinceDue' = PingEvery - pinger'.timer
             /\ pinger'.pc # "wait" => pinger'.timer = PingEvery /\ SinceDue' = PingEvery
  <2>1. /\ pinger \in Pingers /\ pinger.pc = "wait" /\ pinger.burst = 0
        /\ pinger.timer \in 1..PingEvery /\ SinceDue = PingEvery - pinger.timer
    <3>1. pinger \in Pingers /\ pinger.pc = "wait" /\ pinger.burst = 0 /\ pinger.timer > 0
      BY <1>1, <1>4, <1>5 DEF Typed, ClientType, IInv, Clocks
    <3>2. QED
      BY <1>3, <3>1 DEF Pingers, SinceDue
  <2>2. CASE pinger.timer > 1
    <3>1. pinger' = [pinger EXCEPT !.timer = @ - 1]
      BY <1>4, <1>5, <2>2
    <3>2. pinger.timer - 1 \in 0..PingEvery /\ pinger.timer - 1 > 0
      BY <1>3, <2>1, <2>2
    <3>3. /\ pinger' \in Pingers /\ pinger'.pc = "wait" /\ pinger'.burst = 0
          /\ pinger'.timer = pinger.timer - 1
      BY <2>1, <3>1, <3>2 DEF Pingers
    <3>4. SinceDue' = PingEvery - (pinger.timer - 1)
      BY <3>3 DEF SinceDue
    <3>5. QED
      BY <1>3, <2>1, <2>2, <3>2, <3>3, <3>4
  <2>3. CASE ~(pinger.timer > 1)
    <3>1. pinger' = [pc |-> "write", burst |-> 0, timer |-> PingEvery]
      BY <1>4, <1>5, <2>3
    <3>2. pinger.timer = 1
      BY <2>1, <2>3
    <3>3. /\ pinger' \in Pingers /\ pinger'.pc = "write" /\ pinger'.burst = 0
          /\ pinger'.timer = PingEvery
      BY <3>1, Numbers DEF Pingers
    <3>4. SinceDue' = PingEvery
      BY <3>3 DEF SinceDue
    <3>5. QED
      BY <1>3, <2>1, <3>2, <3>3, <3>4, Numbers
  <2>4. QED
    BY <2>2, <2>3
\* The network.
<1>6. PICK k \in 0..Len(up) :
          /\ up' \in Seq(UpMessages) /\ DOMAIN up' = 1..(Len(up) - k)
          /\ \A j \in 1..(Len(up) - k) :
                 LET was == up[j + k]
                     is == up'[j]
                 IN  /\ j + k \in DOMAIN up
                     /\ is.via = was.via /\ is.frame = was.frame /\ is.copies = was.copies
                     /\ is.age = was.age + 1
          /\ \A j \in DOMAIN up : j > k => up[j].age < Delay
          /\ k > 0 => up[k].age = Delay
  BY <1>1, <1>2, OlderUp DEF Typed, Messages
<1>7. /\ down' \in Seq(DownMessages)
      /\ \A j \in DOMAIN down' : \E i \in DOMAIN down : down'[j].ping = down[i].ping
  BY <1>1, <1>2, OlderDown DEF Typed, Messages
<1>8. \A i \in DOMAIN up : i \in Nat /\ up[i].age \in 0..Delay /\ up[i].age \in Nat
  <2>1. \A m \in UpMessages : m.age \in 0..Delay
    BY DEF UpMessages
  <2>2. up \in Seq(UpMessages)
    BY <1>1 DEF Typed, Messages
  <2>3. QED
    BY <2>1, <2>2, Numbers
<1>9. Typed'
  <2>1. ClientType'
    <3>1. opened' \in 0..MaxOpen /\ pinger' \in Pingers
      <4>1. CASE phase = "opening"
        <5>1. opened' = opened + 1 /\ opened < MaxOpen /\ pinger' = pinger
          BY <1>4, <4>1
        <5>2. QED
          BY <1>1, <1>3, <5>1, Numbers DEF Typed, ClientType
      <4>2. CASE phase = "up"
        BY <1>3, <1>4, <1>5, <4>2
      <4>3. QED
        BY <1>4, <4>1, <4>2
    <3>2. QED
      BY <1>1, <1>2, <3>1 DEF Typed, ClientType
  <2>2. ReaderType'
    <3>1. rx' \in Nat /\ wait' \in Nat
      <4>1. rx + 1 \in Nat /\ wait + 1 \in Nat
        BY <1>3
      <4>2. wait' = wait \/ wait' = wait + 1
        BY <1>4
      <4>3. QED
        BY <1>2, <1>3, <4>1, <4>2
    <3>2. QED
      BY <1>1, <1>2, <3>1, RingOlder DEF Typed, ReaderType
  <2>3. Messages' /\ link' \in BOOLEAN
    BY <1>1, <1>2, <1>6, <1>7 DEF Typed, Messages
  <2>4. ServerType'
    BY <1>1, <1>2 DEF Typed, ServerType
  <2>5. HistoryType'
    <3>1. missed' \in BOOLEAN
      BY <1>2
    <3>2. astray' = astray + 1 \/ astray' = 0
      BY <1>2
    <3>3. astray' \in Nat
      BY <1>3, <3>2
    <3>4. QED
      BY <1>1, <1>2, <3>1, <3>3 DEF Typed, HistoryType
  <2>6. QED
    BY <2>1, <2>2, <2>3, <2>4, <2>5 DEF Typed
<1>10. Clocks'
  <2>1. CASE phase = "opening"
    <3>1. rx = opened /\ rx' = rx + 1 /\ opened' = opened + 1
      BY <1>2, <1>4, <2>1 DEF IInv, Clocks
    <3>2. QED
      BY <1>2, <2>1, <3>1 DEF Clocks
  <2>2. CASE phase = "up"
    <3>1. /\ rx = opened + wait /\ pinger.pc = "wait" /\ wait <= Timeout + (PingEvery - pinger.timer)
          /\ opened' = opened /\ wait' = wait + 1 /\ rx' = rx + 1
      BY <1>2, <1>4, <2>2 DEF IInv, Clocks
    <3>2. SinceDue = PingEvery - pinger.timer
      BY <3>1 DEF SinceDue
    <3>3. rx' = opened' + wait'
      BY <1>3, <3>1
    <3>4. wait' <= Timeout + SinceDue'
      <4>1. wait <= Timeout + SinceDue
        BY <3>1, <3>2
      <4>2. SinceDue \in Nat /\ SinceDue' = SinceDue + 1
        BY <1>3, <1>5, <2>2
      <4>3. wait + 1 <= Timeout + (SinceDue + 1)
        BY <1>3, <4>1, <4>2
      <4>4. QED
        BY <3>1, <4>2, <4>3
    <3>5. wait' <= Timeout + (IF pinger'.pc = "wait" THEN PingEvery - pinger'.timer ELSE PingEvery)
      BY <1>5, <2>2, <3>4
    <3>6. QED
      BY <1>2, <1>5, <2>2, <3>3, <3>5 DEF Clocks
  <2>3. QED
    BY <1>4, <2>1, <2>2
<1>11. Numbered'
  <2>1. \A i \in DOMAIN up' : up'[i].via <= Gen /\ (up'[i].via = Gen => up'[i].frame.packet.nonce \in Mine)
    BY <1>6 DEF IInv, Numbered
  <2>2. \A i \in DOMAIN down' : down'[i].ping \in Mine
    BY <1>7 DEF IInv, Numbered
  <2>3. phase' # "up" => down' = <<>> /\ pinger'.pc = "wait"
    <3>1. SUFFICES ASSUME phase # "up" PROVE down' = <<>> /\ pinger'.pc = "wait"
      BY <1>2
    <3>2. down = <<>> /\ pinger.pc = "wait" /\ pinger' = pinger
      BY <1>4, <3>1 DEF IInv, Numbered
    <3>3. DOMAIN down = {}
      BY <3>2
    <3>4. DOMAIN down' = {}
      BY <1>7, <3>3
    <3>5. down' = <<>>
      BY <1>7, <3>4
    <3>6. QED
      BY <3>2, <3>5
  <2>4. pinger'.pc # "push"
    <3>1. CASE phase = "opening"
      BY <1>4, <3>1 DEF IInv, Numbered
    <3>2. CASE phase = "up"
      BY <1>5, <3>2
    <3>3. QED
      BY <1>4, <3>1, <3>2
  <2>5. /\ \A i \in DOMAIN ring' : ring'[i].ping \in Mine
        /\ \A i, j \in DOMAIN ring' : i < j => ring'[i].ping < ring'[j].ping
    BY <1>1, <1>2, RingOlder DEF Typed, IInv, Numbered
  <2>6. base' <= nonce' /\ (phase' = "up" => Gen' > 0) /\ heard' \cup early' \subseteq Mine'
    BY <1>2 DEF IInv, Numbered
  <2>7. QED
    BY <1>2, <2>1, <2>2, <2>3, <2>4, <2>5, <2>6 DEF Numbered
<1>12. ByAge'
  <2>1. SUFFICES ASSUME NEW i \in DOMAIN up', NEW j \in DOMAIN up', i < j
                 PROVE  up'[i].age >= up'[j].age
    BY DEF ByAge
  <2>2. i \in Nat /\ j \in Nat /\ k \in Nat /\ i + k < j + k
    BY <1>6, <2>1
  <2>3. /\ i + k \in DOMAIN up /\ up'[i].age = up[i + k].age + 1
        /\ j + k \in DOMAIN up /\ up'[j].age = up[j + k].age + 1
    BY <1>6
  <2>4. up[i + k].age >= up[j + k].age
    BY <2>2, <2>3 DEF IInv, ByAge
  <2>5. up[i + k].age \in Nat /\ up[j + k].age \in Nat
    BY <1>8, <2>3
  <2>6. up[i + k].age + 1 >= up[j + k].age + 1
    <3>1. \A a, b \in Nat : a >= b => a + 1 >= b + 1
      OBVIOUS
    <3>2. QED
      BY <2>4, <2>5, <3>1
  <2>7. QED
    BY <2>3, <2>6
<1>13. HeardLately'
  <2>1. SUFFICES ASSUME phase = "up", NEW n \in 0..2, nonce - n \in heard \cup early
                 PROVE  opened' = 0 /\ wait' <= n * PingEvery + SinceDue'
    BY <1>2 DEF HeardLately
  <2>2. opened = 0 /\ wait <= n * PingEvery + SinceDue
    BY <2>1 DEF IInv, HeardLately
  <2>3. opened' = opened /\ wait' = wait + 1 /\ SinceDue' = SinceDue + 1 /\ SinceDue \in 0..PingEvery
    BY <1>4, <1>5, <2>1
  <2>4. n * PingEvery \in Nat
    <3>1. n = 0 \/ n = 1 \/ n = 2
      OBVIOUS
    <3>2. QED
      BY <1>3, <3>1
  <2>5. QED
    BY <1>3, <2>2, <2>3, <2>4
<1>14. Counted'
  <2>1. \A p \in 0..MaxPings : OpenPings(p)' \subseteq OpenPings(p)
    BY <1>1, <1>2, RingOlder DEF Typed, OpenPings, OpenSlots
  <2>2. QED
    BY <1>1, <1>2, <1>9, <2>1, FewerOpen DEF IInv
<1>15. Path'
  <2>1. SUFFICES ASSUME phase = "up"
                 PROVE  /\ PathRecovers'
                        /\ ~missed' => \/ writer = Gen /\ astray' = 0
                                       \/ astray' <= SinceDue'
                                       \/ OnItsWay'
    BY <1>2 DEF Path
  <2>2. CASE writer = Gen \/ missed'
    <3>1. astray' = 0
      BY <1>2, <2>2
    <3>2. 0 <= PingEvery + Delay
      BY <1>3, Numbers
    <3>3. QED
      BY <2>2, <3>1, <3>2 DEF PathRecovers
  <2>3. CASE writer # Gen /\ ~missed'
    <3>1. astray' = astray + 1 /\ ~missed /\ ~NeverArrives
      BY <1>2, <2>1, <2>3
    <3>2. CASE astray <= SinceDue
      <4>1. astray' <= SinceDue' /\ astray' <= PingEvery /\ PingEvery <= PingEvery + Delay
        BY <1>3, <1>5, <2>1, <3>1, <3>2, Numbers
      <4>2. astray' <= PingEvery + Delay
        BY <1>3, <3>1, <4>1, Numbers
      <4>3. QED
        BY <4>1, <4>2 DEF PathRecovers
    <3>3. CASE OnItsWay
      <4>1. PICK i \in DOMAIN up : up[i].via = Gen /\ up[i].copies = FEC /\ astray <= PingEvery + up[i].age
        BY <3>3 DEF OnItsWay
      <4>2. up[i].age < Delay
        <5>1. up[i].age # Delay
          BY <3>1, <4>1 DEF NeverArrives
        <5>2. QED
          BY <1>8, <5>1, Numbers
      <4>3. i > k
        <5>1. SUFFICES ASSUME i <= k PROVE FALSE
          BY <1>6, <1>8
        <5>2. i \in Nat /\ k \in Nat /\ k \in DOMAIN up /\ k > 0
          BY <1>1, <1>6, <1>8, <5>1 DEF Typed, Messages
        <5>3. up[k].age = Delay
          BY <1>6, <5>2
        <5>4. CASE i = k
          BY <4>2, <5>3, <5>4, Numbers
        <5>5. CASE i < k
          <6>1. up[i].age >= up[k].age
            BY <5>2, <5>5 DEF IInv, ByAge
          <6>2. QED
            BY <1>8, <4>2, <5>3, <6>1, Numbers
        <5>6. QED
          BY <5>1, <5>2, <5>4, <5>5
      <4>4. i - k \in 1..(Len(up) - k) /\ (i - k) + k = i
        <5>1. i \in 1..Len(up) /\ Len(up) \in Nat /\ k \in Nat
          BY <1>1, <1>6 DEF Typed, Messages
        <5>2. QED
          BY <4>3, <5>1
      <4>5. /\ i - k \in DOMAIN up' /\ up'[i - k].via = Gen /\ up'[i - k].copies = FEC
            /\ up'[i - k].age = up[i].age + 1
        BY <1>6, <4>1, <4>4
      <4>6. astray' <= PingEvery + (up[i].age + 1) /\ up[i].age + 1 <= Delay
        BY <1>3, <1>8, <3>1, <4>1, <4>2, Numbers
      <4>7. OnItsWay'
        BY <1>2, <4>5, <4>6 DEF OnItsWay
      <4>8. astray' <= PingEvery + Delay
        BY <1>3, <1>8, <3>1, <4>6, Numbers
      <4>9. QED
        BY <4>7, <4>8 DEF PathRecovers
    <3>4. CASE writer = Gen /\ astray = 0
      BY <2>3, <3>4
    <3>5. QED
      BY <2>1, <3>1, <3>2, <3>3, <3>4 DEF IInv, Path
  <2>4. QED
    BY <2>2, <2>3
<1>16. QED
  BY <1>9, <1>10, <1>11, <1>12, <1>13, <1>14, <1>15, TypesNext DEF IInv

-----------------------------------------------------------------------------
(* The server takes a packet.                                               *)
LEMMA ReadNonce ==
    ASSUME NEW kind, NEW frame \in Frames
    PROVE  ServerRead(kind, frame).packet.nonce = frame.packet.nonce
<1>1. frame.packet \in Packets
  BY DEF Frames
<1>2. [frame.packet EXCEPT !.sealed = FALSE].nonce = frame.packet.nonce
  BY <1>1 DEF Packets
<1>3. WSRead(frame).packet.nonce = frame.packet.nonce
  BY DEF WSRead
<1>4. UDPRead(frame).packet.nonce = frame.packet.nonce
  <2>1. CASE frame.quic
    BY <2>1 DEF UDPRead
  <2>2. CASE ~frame.quic /\ frame.packet.quicLike
    BY <1>2, <2>2 DEF UDPRead
  <2>3. CASE ~frame.quic /\ ~frame.packet.quicLike
    BY <1>3, <2>3 DEF UDPRead
  <2>4. QED
    BY <2>1, <2>2, <2>3
<1>5. QED
  BY <1>3, <1>4 DEF ServerRead

\* What the network holds after one copy has been taken out of it.
LEMMA Taken ==
    ASSUME IInv, NEW i \in DOMAIN up, up' = OneLess(up, i), Gen' = Gen, Mine' = Mine
    PROVE  /\ up' \in Seq(UpMessages)
           /\ \A j \in DOMAIN up' :
                  up'[j].via <= Gen /\ (up'[j].via = Gen => up'[j].frame.packet.nonce \in Mine)
           /\ ByAge'
           /\ OnItsWay /\ up[i].via # Gen /\ astray' = astray => OnItsWay'
<1>1. Typed
  BY Types DEF IInv
<1>2. /\ up' \in Seq(UpMessages)
      /\ \A j \in DOMAIN up' :
             /\ From(up, i, j) \in DOMAIN up
             /\ up'[j].via = up[From(up, i, j)].via /\ up'[j].age = up[From(up, i, j)].age
             /\ up'[j].frame = up[From(up, i, j)].frame
      /\ \A j, k \in DOMAIN up' : j < k => From(up, i, j) < From(up, i, k)
      /\ \A k \in DOMAIN up : k # i => \E j \in DOMAIN up' : up'[j] = up[k]
  BY <1>1, LessUp DEF Typed, Messages
<1>3. \A j \in DOMAIN up' :
          up'[j].via <= Gen /\ (up'[j].via = Gen => up'[j].frame.packet.nonce \in Mine)
  <2>1. \A k \in DOMAIN up :
            up[k].via <= Gen /\ (up[k].via = Gen => up[k].frame.packet.nonce \in Mine)
    BY DEF IInv, Numbered
  <2>2. \A j \in DOMAIN up' : \E k \in DOMAIN up : up'[j].via = up[k].via /\ up'[j].frame = up[k].frame
    BY <1>2
  <2>3. QED
    BY <2>1, <2>2
<1>4. ByAge'
  BY <1>2 DEF IInv, ByAge
<1>5. ASSUME OnItsWay, up[i].via # Gen, astray' = astray PROVE OnItsWay'
  <2>1. PICK k \in DOMAIN up : up[k].via = Gen /\ up[k].copies = FEC /\ astray <= PingEvery + up[k].age
    BY <1>5 DEF OnItsWay
  <2>2. PICK j \in DOMAIN up' : up'[j] = up[k]
    BY <1>2, <1>5, <2>1
  <2>3. QED
    BY <1>5, <2>1, <2>2 DEF OnItsWay
<1>6. QED
  BY <1>2, <1>3, <1>4, <1>5

LEMMA TakeKeeps ==
    ASSUME IInv, NEW i \in DOMAIN up, ServerTake(i) PROVE IInv'
<1> DEFINE m == up[i]
           r == ServerRead(kinds[m.via], m.frame)
           answer == WritePacket(m.via, r.packet.nonce)
<1>1. Typed
  BY Types DEF IInv
<1>2. m \in UpMessages /\ m.via \in Conns /\ m.via \in 0..MaxConns
  <2>1. m \in UpMessages
    BY <1>1 DEF Typed, Messages
  <2>2. QED
    BY <2>1, Bounds DEF UpMessages
<1>3. r.packet.nonce = m.frame.packet.nonce /\ r.packet.nonce \in Pings
  <2>1. m.frame \in Frames
    BY <1>2 DEF UpMessages
  <2>2. m.frame.packet.nonce \in Pings
    BY <2>1 DEF Frames, Packets
  <2>3. QED
    BY <2>1, <2>2, ReadNonce
<1>4. /\ up' = OneLess(up, i)
      /\ cfg' = cfg /\ phase' = phase /\ opened' = opened /\ kinds' = kinds /\ pinger' = pinger
      /\ nonce' = nonce /\ link' = link /\ rx' = rx /\ wait' = wait /\ ring' = ring
      /\ accepting' = accepting /\ reading' = reading
      /\ base' = base /\ heard' = heard /\ early' = early
      /\ Gen' = Gen /\ Mine' = Mine /\ SinceDue' = SinceDue
  BY DEF ServerTake, client, reader, Gen, Mine, SinceDue
<1>5. \/ /\ missed' = (missed \/ m.via = Gen)
         /\ down' = down /\ filter' = filter /\ writer' = writer /\ astray' = astray
      \/ /\ writer' = m.via /\ astray' = (IF m.via = Gen THEN 0 ELSE astray)
         /\ filter' \in {filter, filter \cup {r.packet.nonce}}
         /\ missed' \in {missed, missed \/ m.via = Gen}
         /\ \/ down' = down
            \/ m.via = Gen /\ phase = "up" /\ down' = Append(down, answer)
  <2>1. CASE r.id # ShortID
    BY <2>1 DEF ServerTake
  <2>2. CASE r.id = ShortID
    <3>1. /\ writer' = m.via /\ astray' = (IF writer' = Gen THEN 0 ELSE astray)
          /\ filter' = IF r.packet.sealed THEN filter \cup {r.packet.nonce} ELSE filter
          /\ missed' = (missed \/ (m.via = Gen /\ ~r.packet.sealed))
          /\ down' = IF /\ r.packet.nonce \notin filter /\ Decrypt(r.packet) = "ping"
                        /\ writer' = Gen /\ phase = "up" /\ link
                     THEN Append(down, WritePacket(writer', r.packet.nonce))
                     ELSE down
      BY <2>2 DEF ServerTake, ReturnPath
    <3>2. filter' \in {filter, filter \cup {r.packet.nonce}}
      BY <3>1
    <3>3. missed' \in {missed, missed \/ m.via = Gen}
      <4>1. missed \in BOOLEAN
        BY <1>1 DEF Typed, HistoryType
      <4>2. CASE r.packet.sealed
        BY <3>1, <4>1, <4>2
      <4>3. CASE ~r.packet.sealed
        BY <3>1, <4>3
      <4>4. QED
        BY <4>2, <4>3
    <3>4. QED
      BY <3>1, <3>2, <3>3
  <2>3. QED
    BY <2>1, <2>2
<1>6. answer \in DownMessages /\ answer.ping = r.packet.nonce
  BY <1>2, <1>3, Numbers DEF WritePacket, DownMessages
<1>7. /\ up' \in Seq(UpMessages)
      /\ \A j \in DOMAIN up' :
             up'[j].via <= Gen /\ (up'[j].via = Gen => up'[j].frame.packet.nonce \in Mine)
      /\ ByAge'
      /\ OnItsWay /\ m.via # Gen /\ astray' = astray => OnItsWay'
  BY <1>4, Taken
<1>8. m.via = Gen => r.packet.nonce \in Mine
  BY <1>3 DEF IInv, Numbered
<1> HIDE DEF m, r, answer
<1>9. /\ down' \in Seq(DownMessages)
      /\ \A j \in DOMAIN down' : down'[j].ping \in Mine
      /\ phase # "up" => down' = <<>>
  <2>1. /\ down \in Seq(DownMessages) /\ \A j \in DOMAIN down : down[j].ping \in Mine
        /\ phase # "up" => down = <<>>
    BY <1>1 DEF Typed, Messages, IInv, Numbered
  <2>2. CASE down' = down
    BY <2>1, <2>2
  <2>3. CASE m.via = Gen /\ phase = "up" /\ down' = Append(down, answer)
    <3>1. /\ down' \in Seq(DownMessages) /\ DOMAIN down' = DOMAIN down \cup {Len(down) + 1}
          /\ \A j \in DOMAIN down : down'[j] = down[j]
          /\ down'[Len(down) + 1] = answer
      BY <1>6, <2>1, <2>3, Appended
    <3>2. answer.ping \in Mine
      BY <1>6, <1>8, <2>3
    <3>3. QED
      BY <2>1, <2>3, <3>1, <3>2
  <2>4. QED
    BY <1>5, <2>2, <2>3
<1>10. Typed'
  <2>1. ClientType' /\ ReaderType' /\ link' \in BOOLEAN
    BY <1>1, <1>4 DEF Typed, ClientType, ReaderType
  <2>2. Messages'
    BY <1>7, <1>9 DEF Messages
  <2>3. ServerType'
    <3>1. filter' \subseteq Pings /\ writer' \in 0..MaxConns
      BY <1>1, <1>2, <1>3, <1>5 DEF Typed, ServerType
    <3>2. QED
      BY <1>1, <1>4, <3>1 DEF Typed, ServerType
  <2>4. HistoryType'
    <3>1. missed' \in BOOLEAN
      BY <1>1, <1>5 DEF Typed, HistoryType
    <3>2. astray' \in Nat
      BY <1>1, <1>5, Numbers DEF Typed, HistoryType
    <3>3. QED
      BY <1>1, <1>4, <3>1, <3>2 DEF Typed, HistoryType
  <2>5. QED
    BY <2>1, <2>2, <2>3, <2>4 DEF Typed
<1>11. Clocks' /\ Counted'
  <2>1. Counted'
    BY <1>1, <1>4, <1>10, FewerOpen DEF IInv, OpenPings, OpenSlots
  <2>2. QED
    BY <1>4, <2>1 DEF IInv, Clocks
<1>12. Numbered'
  BY <1>4, <1>7, <1>9 DEF IInv, Numbered
<1>13. HeardLately'
  BY <1>4 DEF IInv, HeardLately
<1>14. Path'
  <2>1. SUFFICES ASSUME phase = "up"
                 PROVE  /\ PathRecovers'
                        /\ ~missed' => \/ writer' = Gen /\ astray' = 0
                                       \/ astray' <= SinceDue
                                       \/ OnItsWay'
    BY <1>4 DEF Path
  <2>2. SinceDue >= 0
    BY <1>1, Numbers DEF Typed, ClientType, Pingers, SinceDue
  <2>3. astray <= PingEvery + Delay
    BY <2>1 DEF IInv, Path, PathRecovers
  <2>4. ~missed => \/ writer = Gen /\ astray = 0
                   \/ astray <= SinceDue
                   \/ OnItsWay
    BY <2>1 DEF IInv, Path
  <2>5. CASE /\ missed' = (missed \/ m.via = Gen)
             /\ writer' = writer /\ astray' = astray
    <3>1. PathRecovers'
      BY <2>3, <2>5 DEF PathRecovers
    <3>2. ASSUME ~missed' PROVE ~missed /\ m.via # Gen
      BY <2>5, <3>2
    <3>3. QED
      BY <1>7, <2>4, <2>5, <3>1, <3>2
  <2>6. CASE m.via = Gen /\ writer' = m.via /\ astray' = 0
    <3>1. 0 <= PingEvery + Delay
      BY Numbers
    <3>2. QED
      BY <2>6, <3>1 DEF PathRecovers
  <2>7. CASE m.via # Gen /\ astray' = astray /\ (~missed' => ~missed)
    <3>1. PathRecovers'
      BY <2>3, <2>7 DEF PathRecovers
    <3>2. astray = 0 => astray <= SinceDue
      BY <2>2
    <3>3. QED
      BY <1>7, <2>4, <2>7, <3>1, <3>2
  <2>8. QED
    BY <1>5, <2>5, <2>6, <2>7
<1>15. QED
  BY <1>7, <1>10, <1>11, <1>12, <1>13, <1>14, TypesNext DEF IInv

-----------------------------------------------------------------------------
(* The client reads an answer.                                              *)
\* echoAck acknowledges the open slot of the oldest keep-alive, if there is one.
LEMMA Acked ==
    ASSUME ReaderType
    PROVE  LET r == EchoAck(ring)
           IN  /\ r \in Seq(Slots) /\ Len(r) = Len(ring) /\ DOMAIN r = DOMAIN ring
               /\ \A i \in DOMAIN ring : r[i].ping = ring[i].ping /\ (ring[i].acked => r[i].acked)
               /\ Open(ring) # {} =>
                      \E q \in Open(ring) : r[q].acked /\ \A j \in Open(ring) : q <= j
<1> DEFINE r == EchoAck(ring)
           q == CHOOSE i \in Open(ring) : \A j \in Open(ring) : i <= j
<1>1. ring \in Seq(Slots) /\ DOMAIN ring = 1..Len(ring) /\ Len(ring) \in Nat
  BY DEF ReaderType
<1>2. CASE Open(ring) = {}
  BY <1>1, <1>2 DEF EchoAck
<1>3. CASE Open(ring) # {}
  <2>1. Open(ring) \subseteq Nat /\ Open(ring) \subseteq DOMAIN ring
    BY <1>1 DEF Open
  <2>2. \E i \in Open(ring) : \A j \in Open(ring) : i <= j
    BY <1>3, <2>1, SmallestIndex
  <2>3. q \in Open(ring) /\ \A j \in Open(ring) : q <= j
    BY <2>2
  <2>4. r = [ring EXCEPT ![q].acked = TRUE]
    BY <1>3 DEF EchoAck
  <2> HIDE DEF q, r
  <2>5. PICK s \in Slots : s = ring[q]
    BY <1>1, <2>1, <2>3
  <2>6. r = [ring EXCEPT ![q] = [s EXCEPT !.acked = TRUE]]
    BY <2>4, <2>5
  <2>7. /\ [s EXCEPT !.acked = TRUE] \in Slots
        /\ [s EXCEPT !.acked = TRUE].ping = s.ping /\ [s EXCEPT !.acked = TRUE].acked
    BY DEF Slots
  <2>8. r \in Seq(Slots) /\ Len(r) = Len(ring) /\ DOMAIN r = DOMAIN ring
    BY <1>1, <2>1, <2>3, <2>6, <2>7
  <2>9. ASSUME NEW i \in DOMAIN ring
        PROVE  r[i].ping = ring[i].ping /\ (ring[i].acked => r[i].acked)
    <3>1. CASE i = q
      BY <2>5, <2>6, <2>7, <3>1
    <3>2. CASE i # q
      BY <2>6, <3>2
    <3>3. QED
      BY <3>1, <3>2
  <2>10. r[q].acked
    BY <2>1, <2>3, <2>6, <2>7
  <2>11. QED
    BY <2>3, <2>8, <2>9, <2>10 DEF r
<1>4. QED
  BY <1>2, <1>3

\* It closes one slot, and one keep-alive more has been answered.
LEMMA AnswerCounted ==
    ASSUME Typed, Typed', Counted, ring' = EchoAck(ring), base' = base,
           \A i, j \in DOMAIN ring : i < j => ring[i].ping < ring[j].ping,
           NEW n, heard' = heard \cup {n}
    PROVE  Counted'
<1> SUFFICES ASSUME NEW p \in 0..MaxPings
             PROVE  Cardinality(OpenPings(p)') <= Cardinality(Unheard(p)')
  BY DEF Counted
<1>1. /\ ring' \in Seq(Slots) /\ DOMAIN ring' = DOMAIN ring
      /\ \A i \in DOMAIN ring : ring'[i].ping = ring[i].ping /\ (ring[i].acked => ring'[i].acked)
      /\ Open(ring) # {} =>
             \E q \in Open(ring) : ring'[q].acked /\ \A j \in Open(ring) : q <= j
  BY Acked DEF Typed
<1>2. /\ IsFiniteSet(OpenPings(p)) /\ Cardinality(OpenPings(p)) \in Nat
      /\ IsFiniteSet(Unheard(p)) /\ Cardinality(Unheard(p)) \in Nat
      /\ Cardinality(OpenPings(p)) <= Cardinality(Unheard(p))
  BY Finite DEF Typed, Counted
<1>3. OpenSlots(p)' \subseteq OpenSlots(p)
  BY <1>1 DEF OpenSlots
<1>4. OpenPings(p)' = {ring[i].ping : i \in OpenSlots(p)'}
  BY <1>1 DEF OpenPings, OpenSlots
<1>5. Unheard(p)' = Unheard(p) \ {n}
  BY DEF Unheard
<1>6. /\ IsFiniteSet(Unheard(p)')
      /\ Cardinality(Unheard(p)') \in Nat
      /\ Cardinality(Unheard(p)') = Cardinality(Unheard(p)) \/ Cardinality(Unheard(p)') = Cardinality(Unheard(p)) - 1
  <2>1. /\ IsFiniteSet(Unheard(p) \ {n})
        /\ Cardinality(Unheard(p) \ {n})
               = IF n \in Unheard(p) THEN Cardinality(Unheard(p)) - 1 ELSE Cardinality(Unheard(p))
    BY <1>2, FS_RemoveElement
  <2>2. Cardinality(Unheard(p) \ {n}) \in Nat
    BY <2>1, FS_CardinalityType
  <2>3. QED
    BY <1>5, <2>1, <2>2
<1>7. CASE OpenSlots(p) = {}
  <2>1. OpenPings(p)' = {}
    BY <1>3, <1>4, <1>7
  <2>2. Cardinality(OpenPings(p)') = 0
    BY <2>1, FS_EmptySet
  <2>3. QED
    BY <1>6, <2>2
<1>8. CASE OpenSlots(p) # {}
  <2>1. PICK o \in OpenSlots(p) : TRUE
    BY <1>8
  <2>2. o \in Open(ring) /\ o \in DOMAIN ring /\ ring[o].ping <= p
    BY <2>1 DEF OpenSlots, Open
  <2>3. PICK q \in Open(ring) : ring'[q].acked /\ \A j \in Open(ring) : q <= j
    BY <1>1, <2>2
  <2>4. q \in DOMAIN ring /\ ~ring[q].acked /\ q <= o
    BY <2>2, <2>3 DEF Open
  <2>5. \A i \in DOMAIN ring : i \in Nat /\ ring[i].ping \in Nat
    <3>1. \A s \in Slots : s.ping \in Nat
      BY Bounds DEF Slots
    <3>2. QED
      BY <3>1 DEF Typed, ReaderType
  <2>6. ring[q].ping <= p
    <3>1. CASE q = o
      BY <2>2, <3>1
    <3>2. CASE q < o
      <4>1. ring[q].ping < ring[o].ping
        BY <2>2, <2>4, <3>2
      <4>2. QED
        BY <2>2, <2>4, <2>5, <4>1
    <3>3. QED
      BY <2>2, <2>4, <2>5, <3>1, <3>2
  <2>7. ring[q].ping \in OpenPings(p)
    BY <2>4, <2>6 DEF OpenPings, OpenSlots
  <2>8. OpenPings(p)' \subseteq OpenPings(p) \ {ring[q].ping}
    <3>1. SUFFICES ASSUME NEW i \in OpenSlots(p)' PROVE ring[i].ping \in OpenPings(p) \ {ring[q].ping}
      BY <1>4
    <3>2. i \in DOMAIN ring /\ i # q /\ i \in OpenSlots(p)
      BY <1>1, <1>3, <2>3, <3>1 DEF OpenSlots
    <3>3. ring[i].ping # ring[q].ping
      <4>1. i < q \/ q < i
        BY <2>4, <2>5, <3>2
      <4>2. ring[i].ping < ring[q].ping \/ ring[q].ping < ring[i].ping
        BY <2>4, <3>2, <4>1
      <4>3. QED
        BY <2>4, <2>5, <3>2, <4>2
    <3>4. QED
      BY <3>2, <3>3 DEF OpenPings
  <2>9. /\ IsFiniteSet(OpenPings(p) \ {ring[q].ping})
        /\ Cardinality(OpenPings(p) \ {ring[q].ping}) = Cardinality(OpenPings(p)) - 1
    <3>1. /\ IsFiniteSet(OpenPings(p) \ {ring[q].ping})
          /\ Cardinality(OpenPings(p) \ {ring[q].ping})
                 = IF ring[q].ping \in OpenPings(p) THEN Cardinality(OpenPings(p)) - 1
                   ELSE Cardinality(OpenPings(p))
      BY <1>2, FS_RemoveElement
    <3>2. QED
      BY <2>7, <3>1
  <2>10. Cardinality(OpenPings(p)') <= Cardinality(OpenPings(p)) - 1 /\ Cardinality(OpenPings(p)') \in Nat
    BY <2>8, <2>9, FS_Subset, FS_CardinalityType
  <2>11. QED
    BY <1>2, <1>6, <2>10
<1>9. QED
  BY <1>7, <1>8

LEMMA ReadKeeps ==
    ASSUME IInv, NEW i \in DOMAIN down, ClientRead(i) PROVE IInv'
<1> DEFINE n == down[i].ping
<1>1. Typed
  BY Types DEF IInv
<1>2. /\ phase = "up" /\ down' = OneLess(down, i)
      /\ rx' = 0 /\ wait' = 0 /\ opened' = 0 /\ ring' = EchoAck(ring)
      /\ cfg' = cfg /\ phase' = phase /\ kinds' = kinds /\ pinger' = pinger /\ nonce' = nonce
      /\ link' = link /\ up' = up
      /\ accepting' = accepting /\ reading' = reading /\ filter' = filter /\ writer' = writer
      /\ base' = base /\ missed' = missed /\ astray' = astray
      /\ Gen' = Gen /\ Mine' = Mine /\ SinceDue' = SinceDue
  BY DEF ClientRead, server, Gen, Mine, SinceDue
<1>3. \/ n = nonce /\ pinger.pc = "push" /\ early' = early \cup {n} /\ heard' = heard
      \/ ~(n = nonce /\ pinger.pc = "push") /\ heard' = heard \cup {n} /\ early' = early
  BY DEF ClientRead
<1>4. n \in Mine /\ n \in Pings
  <2>1. down[i] \in DownMessages
    BY <1>1 DEF Typed, Messages
  <2>2. QED
    BY <2>1 DEF IInv, Numbered, DownMessages
<1>5. /\ down' \in Seq(DownMessages)
      /\ \A j \in DOMAIN down' : \E k \in DOMAIN down : down'[j].ping = down[k].ping
  BY <1>1, <1>2, LessDown DEF Typed, Messages
<1>6. /\ ring' \in Seq(Slots) /\ Len(ring') = Len(ring) /\ DOMAIN ring' = DOMAIN ring
      /\ \A j \in DOMAIN ring : ring'[j].ping = ring[j].ping /\ (ring[j].acked => ring'[j].acked)
  BY <1>1, <1>2, Acked DEF Typed
<1> HIDE DEF n
<1>7. Typed'
  <2>1. ClientType' /\ ReaderType'
    BY <1>1, <1>2, <1>6, Numbers DEF Typed, ClientType, ReaderType
  <2>2. Messages' /\ ServerType' /\ link' \in BOOLEAN
    BY <1>1, <1>2, <1>5 DEF Typed, Messages, ServerType
  <2>3. HistoryType'
    BY <1>1, <1>2, <1>3, <1>4 DEF Typed, HistoryType
  <2>4. QED
    BY <2>1, <2>2, <2>3 DEF Typed
<1>8. Clocks'
  <2>1. 0 = 0 + 0 /\ 0 <= Timeout + IF pinger.pc = "wait" THEN PingEvery - pinger.timer ELSE PingEvery
    BY <1>1, Numbers DEF Typed, ClientType, Pingers
  <2>2. QED
    BY <1>2, <2>1 DEF IInv, Clocks
<1>9. Numbered'
  <2>1. \A j \in DOMAIN down' : down'[j].ping \in Mine
    BY <1>5 DEF IInv, Numbered
  <2>2. heard' \cup early' \subseteq Mine /\ (pinger.pc = "push" => nonce \in Mine \ heard')
    BY <1>3, <1>4 DEF IInv, Numbered
  <2>3. /\ \A j \in DOMAIN ring' : ring'[j].ping \in Mine /\ (pinger.pc = "push" => ring'[j].ping # nonce)
        /\ \A j, k \in DOMAIN ring' : j < k => ring'[j].ping < ring'[k].ping
    BY <1>6 DEF IInv, Numbered
  <2>4. /\ base <= nonce /\ Gen > 0
        /\ \A j \in DOMAIN up : up[j].via <= Gen /\ (up[j].via = Gen => up[j].frame.packet.nonce \in Mine)
    BY <1>2 DEF IInv, Numbered
  <2>5. QED
    BY <1>2, <2>1, <2>2, <2>3, <2>4 DEF Numbered
<1>10. HeardLately'
  <2>1. \A k \in 0..2 : 0 <= k * PingEvery + SinceDue
    <3>1. SinceDue \in 0..PingEvery
      BY <1>1, Numbers DEF Typed, ClientType, Pingers, SinceDue
    <3>2. \A k \in 0..2 : k = 0 \/ k = 1 \/ k = 2
      OBVIOUS
    <3>3. QED
      BY <3>1, <3>2, Numbers
  <2>2. QED
    BY <1>2, <2>1 DEF HeardLately
<1>11. Counted'
  <2>1. CASE heard' = heard
    <3>1. \A p \in 0..MaxPings : OpenPings(p)' \subseteq OpenPings(p)
      BY <1>6 DEF OpenPings, OpenSlots
    <3>2. QED
      BY <1>1, <1>2, <1>7, <2>1, <3>1, FewerOpen DEF IInv
  <2>2. CASE heard' = heard \cup {n}
    <3>1. \A j, k \in DOMAIN ring : j < k => ring[j].ping < ring[k].ping
      BY DEF IInv, Numbered
    <3>2. QED
      BY <1>1, <1>2, <1>7, <2>2, <3>1, AnswerCounted DEF IInv
  <2>3. QED
    BY <1>3, <2>1, <2>2
<1>12. Path' /\ ByAge'
  <2>1. OnItsWay' = OnItsWay /\ PathRecovers' = PathRecovers
    BY <1>2 DEF OnItsWay, PathRecovers
  <2>2. QED
    BY <1>2, <2>1 DEF IInv, Path, ByAge
<1>13. QED
  BY <1>7, <1>8, <1>9, <1>10, <1>11, <1>12, TypesNext DEF IInv

-----------------------------------------------------------------------------
(* The invariant.                                                           *)
LEMMA Initially == Init => IInv
<1> SUFFICES ASSUME Init PROVE IInv
  OBVIOUS
<1>1. /\ cfg \in Configs /\ phase = "opening" /\ opened = 0 /\ kinds = <<>> /\ link = FALSE
      /\ rx = 0 /\ wait = 0 /\ pinger = NoPings /\ nonce = 0 /\ ring = <<>> /\ up = <<>> /\ down = <<>>
      /\ accepting = <<>> /\ reading = {} /\ filter = {} /\ writer = 0
      /\ base = 0 /\ heard = {} /\ early = {} /\ missed = FALSE /\ astray = 0
  BY DEF Init
<1>2. NoPings \in Pingers /\ NoPings.pc = "wait"
  BY Numbers DEF NoPings, Pingers
<1>3. TypeOK
  <2>1. kinds \in Seq(Kinds) /\ Len(kinds) = 0 /\ ring \in Seq(Slots) /\ Len(ring) = 0 /\ accepting \in Seq(Conns)
    BY <1>1
  <2>2. DOMAIN up = {} /\ DOMAIN down = {}
    BY <1>1
  <2>3. QED
    <3>1. /\ cfg \in Configs /\ phase \in {"opening", "up", "down", "crashed"}
          /\ opened \in 0..MaxOpen
          /\ kinds \in Seq(Kinds) /\ Gen <= MaxConns /\ link \in BOOLEAN
          /\ rx \in Nat /\ wait \in Nat
      <4>1. Gen = 0 /\ 0 <= MaxConns /\ kinds \in Seq(Kinds)
        BY <2>1, Numbers DEF Gen
      <4>2. cfg \in Configs /\ phase \in {"opening", "up", "down", "crashed"} /\ link \in BOOLEAN
        BY <1>1
      <4>3. QED
        BY <1>1, <4>1, <4>2, Numbers
    <3>2. /\ pinger \in Pingers /\ nonce \in 0..MaxPings
          /\ ring \in Seq(Slots) /\ Len(ring) <= RingSize
      BY <1>1, <1>2, <2>1, Numbers
    <3>3. /\ accepting \in Seq(Conns) /\ reading \subseteq Conns
          /\ filter \subseteq Pings /\ writer \in 0..MaxConns
          /\ base \in 0..MaxPings /\ heard \subseteq Pings /\ early \subseteq Pings
          /\ missed \in BOOLEAN /\ astray \in Nat
      BY <1>1, <2>1, Numbers
    <3>4. QED
      BY <2>2, <3>1, <3>2, <3>3 DEF TypeOK, Pingers, Slots
<1>4. Messages
  BY <1>1 DEF Messages
<1>5. Clocks /\ HeardLately /\ Path
  BY <1>1 DEF Clocks, HeardLately, Path
<1>6. Numbered /\ ByAge
  BY <1>1, <1>2 DEF Numbered, ByAge
<1>7. Counted
  <2>1. SUFFICES ASSUME NEW p \in 0..MaxPings PROVE Cardinality(OpenPings(p)) <= Cardinality(Unheard(p))
    BY DEF Counted
  <2>2. ReaderType /\ HistoryType
    BY <1>3, <1>4, Types DEF Typed
  <2>3. OpenPings(p) = {}
    BY <1>1 DEF OpenPings, OpenSlots
  <2>4. Cardinality(Unheard(p)) \in Nat
    BY <2>2, Finite
  <2>5. QED
    BY <2>3, <2>4, FS_EmptySet
<1>8. QED
  BY <1>3, <1>4, <1>5, <1>6, <1>7 DEF IInv

LEMMA StepKeeps == IInv /\ [Next]_vars => IInv'
<1> SUFFICES ASSUME IInv, [Next]_vars PROVE IInv'
  OBVIOUS
<1>1. Typed
  BY Types DEF IInv
<1>2. CASE OpenSucceeds
  BY <1>2, OpenKeeps
<1>3. CASE OpenFails
  BY <1>3, GoneKeeps DEF OpenFails
<1>4. CASE PingWrite
  BY <1>4, WriteKeeps
<1>5. CASE PingPush
  BY <1>5, PushKeeps
<1>6. CASE LinkDies
  <2>1. Quiet
    BY <1>1, <1>6 DEF LinkDies, server, Quiet, Typed, ServerType
  <2>2. QED
    BY <2>1, QuietKeeps
<1>7. CASE Tick
  BY <1>7, TickKeeps
<1>8. CASE AcceptWS
  <2>1. accepting \in Seq(Conns) /\ reading \subseteq Conns /\ accepting # <<>>
    BY <1>1, <1>8 DEF AcceptWS, Typed, ServerType
  <2>2. Tail(accepting) \in Seq(Conns) /\ Head(accepting) \in Conns
    BY <2>1
  <2>3. Quiet
    BY <1>1, <1>8, <2>1, <2>2 DEF AcceptWS, history, Quiet, Typed
  <2>4. QED
    BY <2>3, QuietKeeps
<1>9. ASSUME NEW c \in Conns, ReaderEnds(c) PROVE IInv'
  <2>1. Quiet
    BY <1>1, <1>9 DEF ReaderEnds, history, Quiet, Typed, ServerType
  <2>2. QED
    BY <2>1, QuietKeeps
<1>10. ASSUME NEW i \in DOMAIN up, ServerTake(i) PROVE IInv'
  BY <1>10, TakeKeeps
<1>11. ASSUME NEW i \in DOMAIN down, ClientRead(i) PROVE IInv'
  BY <1>11, ReadKeeps
<1>12. CASE ReadPanics \/ WritePanics
  BY <1>12, GoneKeeps DEF ReadPanics, WritePanics
<1>13. CASE UNCHANGED vars
  <2>1. Quiet
    BY <1>1, <1>13 DEF vars, server, history, Quiet, Typed, ServerType
  <2>2. QED
    BY <2>1, QuietKeeps
<1>14. QED
  BY <1>2, <1>3, <1>4, <1>5, <1>6, <1>7, <1>8, <1>9, <1>10, <1>11, <1>12, <1>13 DEF Next

\* The parts of IInv hold of every state that the client, the network and the server
\* can get into.
THEOREM Invariance == Spec => []IInv
<1>1. Init => IInv
  BY Initially
<1>2. IInv /\ [Next]_vars => IInv'
  BY StepKeeps
<1>3. QED
  BY <1>1, <1>2, PTL DEF Spec

-----------------------------------------------------------------------------
(* What the runs check, for every value of the constants.                   *)
\* Types, the ring no longer than echoWindowSize, and no datagram older than Delay.
THEOREM TypeCorrect == Spec => []TypeOK
<1>1. IInv => TypeOK
  BY DEF IInv
<1>2. QED
  BY <1>1, Invariance, PTL

\* persistentPingLoop has closed a dead connection before the 10 s are over after which
\* readerLoop would leave its Read behind and start another one with another buffer.
THEOREM OneReadAtATime == Spec => []OneRead
<1>1. ASSUME IInv PROVE OneRead
  <2>1. Typed
    BY <1>1, Types DEF IInv
  <2>2. SUFFICES ASSUME phase = "up" PROVE wait < ReadWait
    BY DEF OneRead
  <2>3. wait <= Timeout + IF pinger.pc = "wait" THEN PingEvery - pinger.timer ELSE PingEvery
    BY <1>1, <2>2 DEF IInv, Clocks
  <2>4. /\ wait \in Nat
        /\ (IF pinger.pc = "wait" THEN PingEvery - pinger.timer ELSE PingEvery) \in 0..PingEvery
    BY <2>1, Numbers DEF Typed, ClientType, ReaderType, Pingers
  <2>5. QED
    BY <2>3, <2>4, Numbers
<1>2. QED
  BY <1>1, Invariance, PTL

\* echoCalcLoss never shows more losses than there are keep-alives without an answer.
THEOREM LossIsBounded == Spec => []LossBound
<1>1. ASSUME IInv PROVE LossBound
  <2> DEFINE last == CHOOSE i \in LostSlots : \A j \in LostSlots : i >= j
             newest == ring[last].ping
  <2>1. Typed
    BY <1>1, Types DEF IInv
  <2>2. SUFFICES ASSUME LostSlots # {}
                 PROVE  Cardinality(LostSlots) <= Cardinality({n \in (base + 1)..newest : n \notin heard})
    BY DEF LossBound
  <2>3. /\ ring \in Seq(Slots) /\ Len(ring) \in Nat /\ DOMAIN ring = 1..Len(ring)
        /\ LostSlots \subseteq 1..Len(ring)
    BY <2>1 DEF Typed, ReaderType, LostSlots
  <2>4. \E i \in LostSlots : \A j \in LostSlots : i >= j
    BY <2>2, <2>3, LargestIndex
  <2>5. last \in LostSlots /\ \A j \in LostSlots : last >= j
    BY <2>4
  <2> HIDE DEF last
  <2>6. \A i \in DOMAIN ring : ring[i].ping \in Pings /\ ring[i].ping \in 0..MaxPings /\ ring[i].ping \in Nat
    <3>1. \A s \in Slots : s.ping \in Pings
      BY DEF Slots
    <3>2. \A i \in DOMAIN ring : ring[i] \in Slots
      BY <2>3
    <3>3. QED
      BY <3>1, <3>2, Bounds
  <2>7. \A i, j \in DOMAIN ring : i < j => ring[i].ping < ring[j].ping
    BY <1>1 DEF IInv, Numbered
  <2>8. newest \in 0..MaxPings /\ newest \in Nat
    BY <2>3, <2>5, <2>6
  <2>9. ASSUME NEW i \in LostSlots PROVE ring[i].ping \in OpenPings(newest)
    <3>1. i \in DOMAIN ring /\ last \in DOMAIN ring /\ i \in Nat /\ last \in Nat /\ i <= last /\ ~ring[i].acked
      BY <2>3, <2>5 DEF LostSlots
    <3>2. CASE i = last
      BY <2>8, <3>1, <3>2 DEF OpenPings, OpenSlots
    <3>3. CASE i < last
      <4>1. ring[i].ping < newest
        BY <2>7, <3>1, <3>3
      <4>2. ring[i].ping <= newest
        BY <2>6, <2>8, <3>1, <4>1
      <4>3. QED
        BY <3>1, <4>2 DEF OpenPings, OpenSlots
    <3>4. QED
      BY <3>1, <3>2, <3>3
  <2>10. /\ IsFiniteSet(OpenPings(newest)) /\ Cardinality(OpenPings(newest)) \in Nat
         /\ Cardinality(Unheard(newest)) \in Nat
         /\ Cardinality(OpenPings(newest)) <= Cardinality(Unheard(newest))
    BY <1>1, <2>1, <2>8, Finite DEF Typed, IInv, Counted
  <2>11. Cardinality(LostSlots) <= Cardinality(OpenPings(newest)) /\ Cardinality(LostSlots) \in Nat
    <3> DEFINE f == [i \in LostSlots |-> ring[i].ping]
    <3>1. f \in Injection(LostSlots, OpenPings(newest))
      <4>1. f \in [LostSlots -> OpenPings(newest)]
        BY <2>9
      <4>2. ASSUME NEW i \in LostSlots, NEW j \in LostSlots, f[i] = f[j] PROVE i = j
        <5>1. i \in DOMAIN ring /\ j \in DOMAIN ring /\ i \in Nat /\ j \in Nat
          BY <2>3
        <5>2. ring[i].ping = ring[j].ping
          BY <4>2
        <5>3. ~(i < j) /\ ~(j < i)
          BY <2>6, <2>7, <5>1, <5>2
        <5>4. QED
          BY <5>1, <5>3
      <4> HIDE DEF f
      <4>3. QED
        BY <4>1, <4>2 DEF Injection, IsInjective
    <3>2. QED
      BY <2>10, <3>1, FS_Injection, FS_CardinalityType
  <2>12. {n \in (base + 1)..newest : n \notin heard} = Unheard(newest)
    BY DEF Unheard
  <2>13. QED
    BY <2>10, <2>11, <2>12
<1>2. QED
  BY <1>1, Invariance, PTL

\* After a Reconnect, processPacket sets Peer.Writer to the new connection within an
\* interval and a delay, whatever late packets of the old one do, unless the network
\* (or the UDP reader's taking a packet for a QUIC frame) loses a keep-alive.
THEOREM PathComesBack == Spec => []PathRecovers
<1>1. ASSUME IInv PROVE PathRecovers
  BY <1>1 DEF IInv, Path, PathRecovers
<1>2. QED
  BY <1>1, Invariance, PTL

\* persistentPingLoop gives up a connection only if neither of the two keep-alives
\* before the last was answered, or if openTunnel took longer than reconnectTimeout.
THEOREM NotGivenUpEarly == Spec => Patient
<1> DEFINE Kept == \/ opened > Timeout
                   \/ {nonce - 1, nonce - 2} \cap (heard \cup early) = {}
<1>1. ASSUME IInv, [Next]_vars, phase = "up", phase' = "opening" PROVE Kept
  <2>1. Typed
    BY <1>1, Types DEF IInv
  <2>2. CASE PingPush
    <3>1. pinger.pc = "push" /\ rx > Timeout
      <4>1. CASE IsDead
        BY <2>2, <4>1 DEF PingPush, IsDead
      <4>2. CASE ~IsDead
        BY <1>1, <2>2, <4>2 DEF PingPush
      <4>3. QED
        BY <2>2, <4>1, <4>2 DEF PingPush
    <3>2. /\ opened \in Nat /\ wait \in Nat /\ rx = opened + wait /\ SinceDue = 0
          /\ PingEvery \in Nat /\ Timeout \in Nat /\ 2 * PingEvery <= Timeout
      BY <1>1, <2>1, <3>1, Numbers DEF IInv, Clocks, Typed, ClientType, ReaderType, SinceDue
    <3>3. ASSUME NEW k \in {1, 2}, nonce - k \in heard \cup early PROVE FALSE
      <4>1. k \in 0..2 /\ (k = 1 \/ k = 2)
        OBVIOUS
      <4>2. opened = 0 /\ wait <= k * PingEvery + SinceDue
        BY <1>1, <3>3, <4>1 DEF IInv, HeardLately
      <4>3. k * PingEvery <= 2 * PingEvery
        BY <3>2, <4>1
      <4>4. wait <= Timeout /\ rx = wait
        BY <3>2, <4>1, <4>2, <4>3
      <4>5. QED
        BY <3>1, <3>2, <4>4
    <3>4. QED
      BY <3>3
  <2>3. CASE ~PingPush
    <3>1. phase' = phase \/ phase' \in {"up", "down", "crashed"}
      BY <1>1, <2>3
      DEF Next, vars, client, OpenSucceeds, OpenFails, PingWrite, LinkDies, Tick, AcceptWS,
          ReaderEnds, ServerTake, ClientRead, ReadPanics, WritePanics, Gone
    <3>2. QED
      BY <1>1, <3>1
  <2>4. QED
    BY <2>2, <2>3
<1>2. IInv /\ [Next]_vars => [phase = "up" /\ phase' = "opening" => Kept]_vars
  BY <1>1
<1>3. QED
  BY <1>2, Invariance, PTL DEF Spec, Patient
=============================================================================
