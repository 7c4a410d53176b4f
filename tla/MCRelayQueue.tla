---------------------------- MODULE MCRelayQueue ----------------------------
(* A relay with three neighbours: two packets from a to b, two back, and one *)
(* packet each way between a and c.                                          *)
EXTENDS RelayQueue

CONSTANTS a, b, c, p1, p2, p3, p4, p5, p6

MCNode == {a, b, c}
MCPacket == {p1, p2, p3, p4, p5, p6}
MCIn == (p1 :> a) @@ (p2 :> a) @@ (p3 :> b) @@ (p4 :> b) @@ (p5 :> a) @@ (p6 :> c)
MCOut == (p1 :> b) @@ (p2 :> b) @@ (p3 :> a) @@ (p4 :> a) @@ (p5 :> c) @@ (p6 :> a)

\* Two neighbours and two packets each way, for the liveness properties.
PairNode == {a, b}
PairPacket == {p1, p2, p3, p4}
PairIn == [p \in PairPacket |-> MCIn[p]]
PairOut == [p \in PairPacket |-> MCOut[p]]
=============================================================================
