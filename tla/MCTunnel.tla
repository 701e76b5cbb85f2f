------------------------------ MODULE MCTunnel ------------------------------
(* The client of the GUI with a CDN (a WebSocket, then UDP), and one that   *)
(* is told to put a QUIC header before its packets.  The times are those of *)
(* the code.                                                                *)
EXTENDS Tunnel

MCRouteMask == [n \in 1..MaxPings |-> {b \in {0, 1} : (n \div 2^b) % 2 = 1}]
MCConfigs == {[transport |-> "auto", priority |-> <<>>, cdn |-> TRUE],
              [transport |-> "quic", priority |-> <<>>, cdn |-> FALSE]}
=============================================================================
