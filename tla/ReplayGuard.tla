---------------------------- MODULE ReplayGuard ----------------------------
(***************************************************************************)
(* What the replay filter of server/server.go promises to the main packet  *)
(* loop, without the filter: between two resets no packet is accepted a    *)
(* second time, where a packet is known by its bloom key, the pair of the  *)
(* ShortID and the nonce.  ServerIngress implements this specification.    *)
(***************************************************************************)
EXTENDS Naturals

CONSTANT Keys           \* the bloom keys of the packets that may arrive

VARIABLE accepted       \* how often each was accepted since the last reset

None == [k \in Keys |-> 0]

Init == accepted = None

Accept(k) == /\ accepted[k] = 0
             /\ accepted' = [accepted EXCEPT ![k] = 1]

Forget == accepted' = None

Next == Forget \/ \E k \in Keys : Accept(k)

Spec == Init /\ [][Next]_accepted
=============================================================================
