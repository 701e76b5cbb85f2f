-------------------------- MODULE MCServerIngress --------------------------
(* ServerIngress on a small instance: a peer that sends data, a keep-alive  *)
(* and a packet that cannot be opened, and a packet of an unknown ShortID.  *)
(* The key of the bad packet is a false positive once the other two keys of *)
(* the peer are in the filter.                                              *)
EXTENDS ServerIngress

MCPackets == {[peer |-> 1, nonce |-> "a", kind |-> "data"],
              [peer |-> 1, nonce |-> "b", kind |-> "ping"],
              [peer |-> 1, nonce |-> "c", kind |-> "bad"],
              [peer |-> 9, nonce |-> "a", kind |-> "data"]}

MCBitsOf == [k \in Keys |-> CASE k = <<1, "a">> -> {1, 2}
                              [] k = <<1, "b">> -> {2, 3}
                              [] k = <<1, "c">> -> {1, 3}
                              [] k = <<9, "a">> -> {2}]
=============================================================================
