------------------------------ MODULE LossyLink ------------------------------
(* What the message stream from one socket to a receiver promises: messages   *)
(* are numbered as they are sent, and each is delivered at most once and never *)
(* after a later one.                                                          *)
EXTENDS Integers, Sequences

CONSTANT MaxSent

VARIABLES sent, delivered

vars == <<sent, delivered>>

Init == sent = 0 /\ delivered = <<>>

Send ==
    /\ sent < MaxSent
    /\ sent' = sent + 1
    /\ UNCHANGED delivered

Deliver(m) ==
    /\ \A i \in DOMAIN delivered : delivered[i] < m
    /\ delivered' = Append(delivered, m)
    /\ UNCHANGED sent

Next == Send \/ \E m \in 1..sent : Deliver(m)

Spec == Init /\ [][Next]_vars
=============================================================================
