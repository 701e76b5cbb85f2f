---------------------------- MODULE BatchChannel ----------------------------
(***************************************************************************)
(* What the batching of core/transport.go's xhttpConn promises to those    *)
(* who write to it, whatever its goroutines do: a packet goes into exactly *)
(* one POST, and the POSTs, in the order in which they were put together,  *)
(* carry the packets in the order of the writes.  XhttpConn implements     *)
(* this specification.                                                     *)
(***************************************************************************)
EXTENDS Sequences

CONSTANT Packets

VARIABLES
    queue,      \* packets written and not yet part of a POST
    posts       \* the POSTs put together so far

vars == <<queue, posts>>

Init == queue = <<>> /\ posts = <<>>

Write(p) == /\ queue' = Append(queue, p)
            /\ UNCHANGED posts

Post == /\ queue # <<>>
        /\ posts' = Append(posts, queue)
        /\ queue' = <<>>

Next == Post \/ \E p \in Packets : Write(p)

Spec == Init /\ [][Next]_vars
=============================================================================
