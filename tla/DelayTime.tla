----------------------------- MODULE DelayTime -----------------------------
(***************************************************************************)
(* For how long a relay holds a route request back (GetDelayTime,          *)
(* delay-forward.cc): the more flows cross at the hop the request took, the *)
(* shorter, so that the first copy to arrive is one that finds partners    *)
(* for network coding.                                                     *)
(*                                                                         *)
(* The code computes in doubles.  Here a delay is the exact fraction       *)
(* <<numerator, denominator>>, and so is the parameter alpha.  A setting   *)
(* is what the script gives every node: relaxedK, relaxedAlpha,            *)
(* numberOfNodes, dLimit and, in the unit of dLimit, tenSeconds.           *)
(***************************************************************************)
EXTENDS Integers

Power(base, exponent) ==
    LET power[e \in Nat] == IF e = 0 THEN 1 ELSE base * power[e - 1]
    IN power[exponent]

IsSetting(s) ==
    /\ s.relaxedK \in Nat
    /\ s.relaxedAlpha[1] \in Nat /\ s.relaxedAlpha[2] \in Nat \ {0}
    /\ s.numberOfNodes \in Nat /\ s.numberOfNodes > 1
    /\ s.dLimit \in Nat \ {0}
    /\ s.tenSeconds \in Nat

\* Mutants: the exponent is one too small; only alpha is raised to a power.
PairDelayShort(s, pairs) ==
    <<Power(s.relaxedAlpha[2], pairs) * s.dLimit,
      Power(s.relaxedAlpha[1], pairs) * Power(s.numberOfNodes - 1, pairs)>>

PairDelayFlat(s, pairs) ==
    <<Power(s.relaxedAlpha[2], pairs) * s.dLimit,
      Power(s.relaxedAlpha[1], pairs) * (s.numberOfNodes - 1)>>

\* The delay for a number of pairs of opposite flows:
\* (1 / alpha^pairs) * (1 / (nodes - 1)^(pairs + 1)) * dLimit.
PairDelay(s, pairs) ==
    <<Power(s.relaxedAlpha[2], pairs) * s.dLimit,
      Power(s.relaxedAlpha[1], pairs) * Power(s.numberOfNodes - 1, pairs + 1)>>

\* bidir counts the flows of both directions; from 2K on the hop is avoided.
GetDelayTime(s, bidir) ==
    IF s.relaxedAlpha[1] = 0 THEN <<0, 1>>
    ELSE IF bidir < 2 * s.relaxedK THEN PairDelay(s, bidir \div 2)
    ELSE IF s.relaxedK # 0 THEN <<s.tenSeconds, 1>>
    ELSE <<s.dLimit, s.numberOfNodes - 1>>

-----------------------------------------------------------------------------
Less(x, y) == x[1] * y[2] < y[1] * x[2]
Times(n, x) == <<n * x[1], x[2]>>
AlphaAtLeastOne(s) == s.relaxedAlpha[1] >= s.relaxedAlpha[2]

\* From alpha = 1 on, a route on which every relay sees one more pair of crossing
\* flows is found before a route with a single relay that sees one pair less, even
\* if it takes all relays: what lets the first copy that arrives stand for the
\* route with the most coding.
CodingRouteComesFirst(s) ==
    AlphaAtLeastOne(s) =>
        \A b, c \in 0..2 * s.relaxedK - 1 :
            b \div 2 < c \div 2 =>
                Less(Times(s.numberOfNodes - 2, GetDelayTime(s, c)), GetDelayTime(s, b))

\* With alpha (nodes - 1) at least one, the hold-backs of a route through all other
\* nodes add up to less than dLimit, while no hop has 2K flows.
RouteWithinLimit(s) ==
    s.relaxedAlpha[1] * (s.numberOfNodes - 1) >= s.relaxedAlpha[2] =>
        \A b \in 0..2 * s.relaxedK - 1 :
            Less(Times(s.numberOfNodes - 2, GetDelayTime(s, b)), <<s.dLimit, 1>>)
=============================================================================
