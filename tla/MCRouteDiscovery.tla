-------------------------- MODULE MCRouteDiscovery --------------------------
(* Two topologies of relays between the clients n0 and n1. *)
EXTENDS RouteDiscovery

CONSTANTS n0, n1, r1, r2, r3, r4

Links(pairs) == [n \in Node |-> {m \in Node : {m, n} \in pairs}]
Clients == {n0, n1}
Pair == (n0 :> n1) @@ (n1 :> n0)

\* Two relays, neighbours of each other and of both clients.
DiamondRelays == {r1, r2}
DiamondPeers == Links({{n0, r1}, {n0, r2}, {r1, r2}, {r1, n1}, {r2, n1}})
\* An earlier pair of clients has flows in both directions from n0 to r2 and back.
FlowsThroughR1 ==
    [r \in Relay |-> IF r = r1 THEN <<<<n0, r2>>, <<r2, n0>>>> ELSE <<>>]
DiamondSetting ==
    [relaxedK |-> 1, relaxedAlpha |-> <<1, 1>>, numberOfNodes |-> 4, dLimit |-> 3,
     tenSeconds |-> 4]

\* Two ways from r1 to r4, through r2 or r3.  An earlier pair of clients has
\* flows in both directions through r2.
SharedRelays == {r1, r2, r3, r4}
SharedPeers == Links({{n0, r1}, {r1, r2}, {r1, r3}, {r2, r4}, {r3, r4}, {r4, n1}})
FlowsThroughR2 ==
    [r \in Relay |-> IF r = r2 THEN <<<<r1, r4>>, <<r4, r1>>>> ELSE <<>>]
SharedSetting ==
    [relaxedK |-> 2, relaxedAlpha |-> <<2, 5>>, numberOfNodes |-> 6, dLimit |-> 10,
     tenSeconds |-> 11]

\* Settings of the scripts' kind: alpha a half, one, or more.
ScriptSettings ==
    [relaxedK : 0..3, relaxedAlpha : {<<0, 1>>, <<1, 2>>, <<1, 1>>, <<3, 2>>},
     numberOfNodes : 2..7, dLimit : {50}, tenSeconds : {10000}]
        \cup {DiamondSetting, SharedSetting}
=============================================================================
