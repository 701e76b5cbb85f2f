--------------------------- MODULE MCVpnLifecycle ---------------------------
(* Instances of VpnLifecycle for TLC: which loops a run follows.            *)
EXTENDS VpnLifecycle

\* The goroutines that use the connection and the session.
TrafficLoops == {"writer", "reader"}
WriterLoops == {"writer"}
\* The goroutine that sets routes.
RouteLoops == {"route"}
=============================================================================
