----------------------------- MODULE Transports -----------------------------
(***************************************************************************)
(* The pure part of the client's transports (core/transport.go), of the    *)
(* packet format (protocol/cipher.go, standard mode) and of the server's   *)
(* readers (server/server.go, main): which transports are tried in which   *)
(* order, what they put around a packet, and what the server makes of it.  *)
(*                                                                         *)
(* Cryptography is symbolic: a packet is a record that only the holder of  *)
(* the key can make or open.  "ws" stands for both WebSocket transports,   *)
(* which differ in TLS only; xhttp is the subject of XhttpConn.            *)
(***************************************************************************)
EXTENDS Integers, Sequences, FiniteSets

CONSTANTS
    ShortID,        \* of the client: its bits that are set
    RouteMask       \* per nonce, the hash of the routing salt and the nonce, likewise

\* No client is registered with the ShortID 0.
Nobody == {}
ASSUME ShortIDAssumption == ShortID # Nobody

\* Exclusive or, bit by bit.
Xor(a, b) == (a \ b) \cup (b \ a)

Streams == {"ws", "wss"}
Datagrams == {"udp", "quic"}
Kinds == Streams \cup Datagrams

\* TransportManager.resolvePriorities
Priorities(cfg) ==
    CASE cfg.transport \notin {"", "auto"} -> <<cfg.transport>>
      [] cfg.transport \in {"", "auto"} /\ cfg.priority # <<>> -> cfg.priority
      [] OTHER -> IF cfg.cdn THEN <<"wss", "udp">> ELSE <<"udp">>

\* TransportManager.dialTransport: answering are the kinds whose dial would succeed
\* now; for a datagram socket that is up to the own system alone.  A name that is no
\* kind fails.
DialTransport(t, answering) == t \in answering

\* TransportManager.Dial: the transport it returns, or "none".
Dialled(order, answering) ==
    LET works == {i \in DOMAIN order : DialTransport(order[i], answering)}
    IN  IF works = {} THEN "none"
        ELSE order[CHOOSE i \in works : \A j \in works : i <= j]

\* CipherPack.Encrypt: the ShortID is masked by a hash of the nonce.  quicLike: bit
\* 7 of the marker and its next two bytes happen to be zero (bit 6 is always set).
\* stray: the two bytes after them, the end of the marker and the beginning of the
\* masked ShortID, which can be anything.
Encrypt(body, nonce, quicLike, stray) ==
    [body |-> body, nonce |-> nonce, id |-> Xor(ShortID, RouteMask[nonce]),
     quicLike |-> quicLike, stray |-> stray, sealed |-> TRUE]

\* CipherPack.Decrypt opens what Encrypt made, and nothing else.
Decrypt(packet) == IF packet.sealed THEN packet.body ELSE "error"

\* quicUDPConn.Write puts a header with the plain ShortID before the packet.
Frame(kind, packet) == [quic |-> kind = "quic", id |-> ShortID, packet |-> packet]

\* What the reader of the WebSocket and the one of the UDP socket pass on: a client
\* and a packet.  A packet that looks like a frame loses its first seven bytes, so that
\* nobody can open it, and is said to be from whoever has the stray bytes for ShortID.
WSRead(frame) ==
    [id |-> Xor(frame.packet.id, RouteMask[frame.packet.nonce]), packet |-> frame.packet]
UDPRead(frame) ==
    CASE frame.quic -> [id |-> frame.id, packet |-> frame.packet]
      [] ~frame.quic /\ frame.packet.quicLike -> [id |-> frame.packet.stray,
                                                packet |-> [frame.packet EXCEPT !.sealed = FALSE]]
      [] OTHER -> WSRead(frame)
ServerRead(kind, frame) == IF kind \in Streams THEN WSRead(frame) ELSE UDPRead(frame)
=============================================================================
