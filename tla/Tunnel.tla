------------------------------- MODULE Tunnel -------------------------------
(***************************************************************************)
(* One client and the server over time: the dial (core/transport.go), the  *)
(* keep-alives and the judgement of the link (core/vpn.go,                 *)
(* persistentPingLoop), the network, the server's readers and answers      *)
(* (server/server.go, server/wss_server.go), the client's readerLoop       *)
(* (core/vpn_windows.go) and the echo statistics (core/vpn.go).            *)
(*                                                                         *)
(* Time passes in seconds (Tick); the loops are quick compared to it, and  *)
(* a datagram arrives within Delay seconds or not at all.  The calls of    *)
(* Start and Stop are those of one Reconnect after the other: VpnLifecycle *)
(* has their interleavings.  What the server does with a packet is one     *)
(* step here: ServerIngress has its threads.                               *)
(***************************************************************************)
EXTENDS Transports

CONSTANTS
    Configs,        \* client configurations: records transport, priority, cdn
    FEC,            \* copies of every packet, on both ways
    PingEvery,      \* pingInterval
    Timeout,        \* reconnectTimeout
    ReadWait,       \* readerLoop's limit on one Read
    LostAfter,      \* echoCalcLoss: an open slot counts as lost
    Window,         \* echoCalcLoss: and no longer counts
    RingSize,       \* echoWindowSize
    Delay,          \* bound: seconds a datagram travels
    MaxOpen,        \* bound: seconds openTunnel takes
    MaxPings,       \* bound: keep-alives
    MaxConns        \* bound: connections

ASSUME TimesAssumption ==
    /\ {PingEvery, Timeout, ReadWait, LostAfter, Window} \subseteq Nat
    /\ 0 < PingEvery /\ 2 * PingEvery <= Timeout /\ PingEvery + Timeout < ReadWait
    /\ LostAfter < Window
ASSUME SizesAssumption == {FEC, RingSize, Delay, MaxOpen, MaxPings, MaxConns} \subseteq Nat \ {0}
ASSUME ConfigsAssumption ==
    Configs \subseteq [transport : STRING, priority : Seq(STRING), cdn : BOOLEAN]

VARIABLES
    cfg,        \* the configuration of the client
    phase,      \* "opening" (in openTunnel), "up", "down", "crashed"
    opened,     \* seconds openTunnel has taken, until a packet has come
    kinds,      \* per connection, the transport: the last one is the client's
    link,       \* the last connection works, in both directions
    rx,         \* seconds since lastPacketRx
    wait,       \* seconds readerLoop has waited for a packet
    pinger,     \* persistentPingLoop: pc, pings to send at once, seconds to the tick
    nonce,      \* keep-alives encrypted
    ring,       \* echoRing, oldest slot first
    up, down,   \* what is under way to the server, to the client
    accepting,  \* newPeerCh of the WebSocket server
    reading,    \* WebSocket connections with a reader goroutine at the server
    filter,     \* nonces in the replay filter
    writer,     \* Peer.Writer: a connection, or 0
    base,       \* history: keep-alives encrypted before this connection
    heard,      \* history: keep-alives of this connection answered
    early,      \* history: those answered before echoPush had entered them
    missed,     \* history: a keep-alive of this connection did not arrive
    astray      \* history: if none, seconds for which Peer.Writer is not this connection

client == <<cfg, phase, opened, kinds, pinger, nonce>>
reader == <<rx, wait, ring>>
server == <<accepting, reading, filter, writer>>
history == <<base, heard, early, missed, astray>>
vars == <<client, link, reader, up, down, server, history>>

Gen == Len(kinds)
Conns == 1..MaxConns
Pings == 1..MaxPings

TypeOK ==
    /\ cfg \in Configs /\ phase \in {"opening", "up", "down", "crashed"}
    /\ opened \in 0..MaxOpen
    /\ kinds \in Seq(Kinds) /\ Gen <= MaxConns /\ link \in BOOLEAN
    /\ rx \in Nat /\ wait \in Nat
    /\ pinger \in [pc : {"write", "push", "wait"}, burst : 0..2, timer : 0..PingEvery]
    /\ nonce \in 0..MaxPings
    /\ ring \in Seq([ping : Pings, age : 0..(Window + 1), acked : BOOLEAN])
    /\ Len(ring) <= RingSize
    /\ \A i \in DOMAIN up : up[i].via \in Conns /\ up[i].copies \in 1..FEC /\ up[i].age \in 0..Delay
    /\ \A i \in DOMAIN down : down[i].via \in Conns /\ down[i].ping \in Pings
                              /\ down[i].copies \in 1..FEC /\ down[i].age \in 0..Delay
    /\ accepting \in Seq(Conns) /\ reading \subseteq Conns
    /\ filter \subseteq Pings /\ writer \in 0..MaxConns
    /\ base \in 0..MaxPings /\ heard \subseteq Pings /\ early \subseteq Pings
    /\ missed \in BOOLEAN /\ astray \in Nat

NoPings == [pc |-> "wait", burst |-> 0, timer |-> 0]

Init ==
    /\ cfg \in Configs /\ phase = "opening" /\ opened = 0
    /\ kinds = <<>> /\ link = FALSE /\ rx = 0 /\ wait = 0
    /\ pinger = NoPings /\ nonce = 0 /\ ring = <<>>
    /\ up = <<>> /\ down = <<>>
    /\ accepting = <<>> /\ reading = {} /\ filter = {} /\ writer = 0
    /\ base = 0 /\ heard = {} /\ early = {} /\ missed = FALSE /\ astray = 0

-----------------------------------------------------------------------------
(* Start: the dial, then routes and adapter.  The loops start together: two *)
(* keep-alives go out at once, then one per tick.                           *)
OpenSucceeds ==
    /\ phase = "opening" /\ Gen < MaxConns
    /\ \E answering \in SUBSET Kinds :
         LET kind == Dialled(Priorities(cfg), answering)
         IN  /\ kind # "none"
             /\ kinds' = Append(kinds, kind)
             /\ accepting' = IF kind \in Streams THEN Append(accepting, Gen + 1) ELSE accepting
    /\ phase' = "up" /\ link' = TRUE /\ wait' = 0 /\ ring' = <<>>
    /\ pinger' = [pc |-> "write", burst |-> 2, timer |-> PingEvery]
    /\ base' = nonce /\ heard' = {} /\ early' = {} /\ missed' = FALSE /\ astray' = 0
    /\ UNCHANGED <<cfg, opened, nonce, rx, up, down, reading, filter, writer>>

\* What is left when the client's loops are gone.
Gone(label) ==
    /\ phase' = label /\ opened' = 0 /\ pinger' = NoPings /\ link' = FALSE
    /\ rx' = 0 /\ wait' = 0 /\ ring' = <<>> /\ down' = <<>>
    /\ heard' = {} /\ early' = {} /\ missed' = FALSE /\ astray' = 0
    /\ UNCHANGED <<cfg, kinds, nonce, up, server, base>>

\* No transport answers, no gateway, no adapter.
OpenFails == phase = "opening" /\ Gone("down")

-----------------------------------------------------------------------------
(* persistentPingLoop.                                                      *)
\* The stray bytes matter if the packet is mistaken for a frame: they are the client's
\* own ShortID or not.  (Another client's is like Nobody's here: it is that client whose
\* Peer.Writer then changes.)
PingWrite ==
    /\ phase = "up" /\ pinger.pc = "write" /\ nonce < MaxPings
    /\ \E quicLike \in {FALSE, kinds[Gen] = "udp"} :
       \E stray \in IF quicLike THEN {Nobody, ShortID} ELSE {Nobody} :
         LET frame == Frame(kinds[Gen], Encrypt("ping", nonce + 1, quicLike, stray))
         IN  up' = IF link THEN Append(up, [via |-> Gen, frame |-> frame, copies |-> FEC, age |-> 0])
                           ELSE up
    /\ nonce' = nonce + 1
    /\ pinger' = [pinger EXCEPT !.pc = "push"]
    /\ missed' = (missed \/ ~link)
    /\ UNCHANGED <<cfg, phase, opened, kinds, link, reader, down, server, base, heard, early, astray>>

\* A plausible slip: the ring has no limit.
WrongEchoPush(r, n) == Append(r, [ping |-> n, age |-> 0, acked |-> FALSE])

EchoPush(r, n) ==
    LET grown == Append(r, [ping |-> n, age |-> 0, acked |-> FALSE])
    IN  IF Len(grown) > RingSize THEN Tail(grown) ELSE grown

\* A plausible slip: the link is given up a second too early.
WrongIsDead == rx >= Timeout

IsDead == rx > Timeout

AfterPing == [pinger EXCEPT !.burst = IF @ > 0 THEN @ - 1 ELSE 0,
                            !.pc = IF pinger.burst = 2 THEN "write" ELSE "wait"]

\* A plausible slip: what is sent is taken for a sign of life.
WrongPingPush ==
    /\ phase = "up" /\ pinger.pc = "push"
    /\ ring' = EchoPush(ring, nonce)
    /\ rx' = 0
    /\ pinger' = AfterPing
    /\ UNCHANGED <<cfg, phase, opened, kinds, nonce, wait, link, up, down, server, history>>

\* echoPush, then the judgement.  A dead link is closed, and the loop ends with
\* Reconnect, whose Start sets lastPacketRx before it opens the tunnel.
PingPush ==
    /\ phase = "up" /\ pinger.pc = "push"
    /\ ring' = EchoPush(ring, nonce)
    /\ IF IsDead
       THEN /\ phase' = "opening" /\ opened' = 0 /\ rx' = 0
            /\ pinger' = NoPings
            /\ link' = FALSE /\ down' = <<>>
       ELSE /\ pinger' = AfterPing
            /\ UNCHANGED <<phase, opened, rx, link, down>>
    /\ UNCHANGED <<cfg, kinds, nonce, wait, up, server, history>>

-----------------------------------------------------------------------------
(* The network.  Datagrams overtake each other and get lost; what a stream  *)
(* carries arrives in order, as long as the link works.                     *)
Deliverable(net, i) ==
    kinds[net[i].via] \in Streams => \A j \in 1..(i - 1) : net[j].via # net[i].via

OneLess(net, i) ==
    IF net[i].copies > 1 THEN [net EXCEPT ![i].copies = @ - 1]
    ELSE [j \in 1..(Len(net) - 1) |-> IF j < i THEN net[j] ELSE net[j + 1]]

LinkDies ==
    /\ phase = "up" /\ link
    /\ link' = FALSE
    /\ missed' = TRUE
    /\ UNCHANGED <<client, reader, up, down, server, base, heard, early, astray>>

\* What the seconds do to packets under way.
Older(net) == [i \in DOMAIN net |-> [net[i] EXCEPT !.age = @ + 1]]
Overripe(net) == {i \in DOMAIN net : net[i].age = Delay}
Arriving(net) ==    \* the sequence is in the order of age
    IF Overripe(net) = {} THEN Older(net)
    ELSE LET last == CHOOSE i \in Overripe(net) : \A j \in Overripe(net) : i >= j
         IN  SubSeq(Older(net), last + 1, Len(net))
Overdue(net) == \E i \in DOMAIN net :
                    net[i].age = Delay /\ kinds[net[i].via] \in Streams /\ (net[i].via = Gen => link)
NeverArrives == \E i \in DOMAIN up : up[i].age = Delay /\ up[i].via = Gen /\ up[i].copies = FEC

Tick ==
    /\ \/ phase = "opening" /\ opened < MaxOpen
       \/ phase = "up" /\ pinger.pc = "wait"
    /\ ~Overdue(up) /\ ~Overdue(down)
    /\ opened' = IF phase = "opening" THEN opened + 1 ELSE opened
    /\ rx' = rx + 1
    /\ wait' = IF phase = "up" THEN wait + 1 ELSE wait
    /\ pinger' = CASE phase = "opening" -> pinger
                   [] phase = "up" /\ pinger.timer > 1 -> [pinger EXCEPT !.timer = @ - 1]
                   [] OTHER -> [pc |-> "write", burst |-> 0, timer |-> PingEvery]
    /\ ring' = [i \in DOMAIN ring |-> [ring[i] EXCEPT !.age = IF @ > Window THEN @ ELSE @ + 1]]
    /\ up' = Arriving(up) /\ down' = Arriving(down)
    /\ missed' = (missed \/ NeverArrives)
    /\ astray' = IF phase = "up" /\ writer # Gen /\ ~missed' THEN astray + 1 ELSE 0
    /\ UNCHANGED <<cfg, phase, kinds, nonce, link, server, base, heard, early>>

-----------------------------------------------------------------------------
(* The server.  handleWS hands a connection over through newPeerCh, and the *)
(* accept loop starts its reader, which ends when the client has closed it. *)
AcceptWS ==
    /\ accepting # <<>>
    /\ reading' = reading \cup {Head(accepting)}
    /\ accepting' = Tail(accepting)
    /\ UNCHANGED <<client, link, reader, up, down, filter, writer, history>>

ReaderEnds(c) ==
    /\ c \in reading
    /\ c # Gen \/ phase # "up"
    /\ \A i \in DOMAIN up : up[i].via # c
    /\ reading' = reading \ {c}
    /\ UNCHANGED <<client, link, reader, up, down, accepting, filter, writer, history>>

\* A plausible slip: the return path is set once and for all.
WrongReturnPath(via) == IF writer = 0 THEN via ELSE writer

ReturnPath(via) == via

\* PacketWriter.WritePacket: an answer, fec times.
WritePacket(via, n) == [via |-> via, ping |-> n, copies |-> FEC, age |-> 0]

\* A reader and processPacket: the return path is set before the filter is asked and
\* the packet opened; one that cannot be opened does not enter the filter.  An answer
\* goes out only where the connection is still there.
ServerTake(i) ==
    /\ i \in DOMAIN up /\ Deliverable(up, i)
    /\ kinds[up[i].via] \in Streams => up[i].via \in reading
    /\ LET m == up[i]
           r == ServerRead(kinds[m.via], m.frame)
       IN  /\ up' = OneLess(up, i)
           /\ IF r.id # ShortID
              THEN /\ missed' = (missed \/ m.via = Gen)
                   /\ UNCHANGED <<down, filter, writer, astray>>
              ELSE /\ writer' = ReturnPath(m.via)
                   /\ astray' = IF writer' = Gen THEN 0 ELSE astray
                   /\ filter' = IF r.packet.sealed THEN filter \cup {r.packet.nonce} ELSE filter
                   /\ down' = IF /\ r.packet.nonce \notin filter /\ Decrypt(r.packet) = "ping"
                                 /\ writer' = Gen /\ phase = "up" /\ link
                              THEN Append(down, WritePacket(writer', r.packet.nonce))
                              ELSE down
                   /\ missed' = (missed \/ (m.via = Gen /\ ~r.packet.sealed))
    /\ UNCHANGED <<client, link, reader, accepting, reading, base, heard, early>>

-----------------------------------------------------------------------------
(* readerLoop: any packet is a sign of life, an answer acknowledges a slot. *)
Open(r) == {i \in DOMAIN r : ~r[i].acked}

\* A plausible slip: the newest open slot is acknowledged.
WrongEchoAck(r) ==
    IF Open(r) = {} THEN r
    ELSE [r EXCEPT ![CHOOSE i \in Open(r) : \A j \in Open(r) : i >= j].acked = TRUE]

EchoAck(r) ==
    IF Open(r) = {} THEN r
    ELSE [r EXCEPT ![CHOOSE i \in Open(r) : \A j \in Open(r) : i <= j].acked = TRUE]

ClientRead(i) ==
    /\ phase = "up" /\ i \in DOMAIN down /\ Deliverable(down, i)
    /\ down' = OneLess(down, i)
    /\ rx' = 0 /\ wait' = 0 /\ opened' = 0
    /\ ring' = EchoAck(ring)
    /\ IF down[i].ping = nonce /\ pinger.pc = "push"
       THEN early' = early \cup {nonce} /\ UNCHANGED heard
       ELSE heard' = heard \cup {down[i].ping} /\ UNCHANGED early
    /\ UNCHANGED <<cfg, phase, kinds, pinger, nonce, link, up, server, base, missed, astray>>

\* A failed Read of a datagram socket changes nothing: the loop reads again.  That of
\* a broken WebSocket fails for ever, and the library panics at the thousandth time.
ReadPanics ==
    /\ phase = "up" /\ kinds[Gen] \in Streams /\ ~link
    /\ Gone("crashed")

\* The library panics as well when two goroutines write to a WebSocket at once:
\* wsConn has no mutex, and writerLoop may be in Write now.
WritePanics ==
    /\ phase = "up" /\ kinds[Gen] \in Streams /\ pinger.pc = "write"
    /\ Gone("crashed")

-----------------------------------------------------------------------------
Next ==
    \/ OpenSucceeds \/ OpenFails
    \/ PingWrite \/ PingPush
    \/ LinkDies \/ Tick
    \/ AcceptWS \/ \E c \in Conns : ReaderEnds(c)
    \/ \E i \in DOMAIN up : ServerTake(i)
    \/ \E i \in DOMAIN down : ClientRead(i)
    \/ ReadPanics \/ WritePanics

Spec == Init /\ [][Next]_vars

-----------------------------------------------------------------------------
(* One lost keep-alive never costs the tunnel: persistentPingLoop gives up  *)
(* a connection only if neither of the two keep-alives before the one it    *)
(* has just sent was answered.  (Or if no packet has come at all since      *)
(* openTunnel took longer than the time limit, which runs from the          *)
(* beginning of Start: a slow WebSocket handshake makes the loop give up at *)
(* its first judgement.)                                                    *)
Patient == [][phase = "up" /\ phase' = "opening" =>
                \/ opened > Timeout
                \/ {nonce - 1, nonce - 2} \cap (heard \cup early) = {}]_vars

(* A dead link is noticed in time: persistentPingLoop has closed the        *)
(* connection before the 10 s are over after which readerLoop would leave   *)
(* its Read behind and start another one with another buffer.               *)
OneRead == phase = "up" => wait < ReadWait

(* echoCalcLoss: the slots counted as lost.                                 *)
LostSlots == {i \in DOMAIN ring : ~ring[i].acked /\ ring[i].age > LostAfter /\ ring[i].age <= Window}

(* The loss shown is never larger than the number of keep-alives that got   *)
(* no answer since the connection began, although echoAck does not know     *)
(* which keep-alive an answer is for, answers come twice, late and in       *)
(* another order.  (One that comes before echoPush counts as none here.)    *)
LossBound ==
    LostSlots # {} =>
        LET newest == ring[CHOOSE i \in LostSlots : \A j \in LostSlots : i >= j].ping
        IN  Cardinality(LostSlots) <= Cardinality({n \in (base + 1)..newest : n \notin heard})

(* After a Reconnect the server's answers find the new connection, and late *)
(* packets of the old one, which set Peer.Writer back, do not keep them     *)
(* away: after one interval and one delay the path is right, unless the     *)
(* network (or the reader's mistaking it for QUIC) has lost a keep-alive.   *)
PathRecovers == phase = "up" => astray <= PingEvery + Delay
=============================================================================
