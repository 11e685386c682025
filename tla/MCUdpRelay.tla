----------------------------- MODULE MCUdpRelay -----------------------------
(* Two clients of one address, two logins from it, a proxy with two source   *)
(* addresses, and caps of which now the one, now the other is the tighter.   *)
EXTENDS UdpRelay, TLC

CONSTANT i1

MCIpOf == [c \in Clients |-> i1]
MCThrottles == {[max |-> 1, perIp |-> 2], [max |-> 2, perIp |-> 1]}
Symmetry == Permutations(Clients) \cup Permutations(Vias)
            \cup Permutations(Players) \cup Permutations(Ids)
=============================================================================
