---------------------------- MODULE MCXhttpConn ----------------------------
(* Two packets, which the instance writes in two copies each: one of data   *)
(* and a keep-alive.                                                        *)
EXTENDS XhttpConn

Data(i) == [id |-> i, by |-> WriterLoop]
KeepAlive(i) == [id |-> i, by |-> PingLoop]

MCCopies == {Data(1), KeepAlive(2)}
=============================================================================
