---------------------------- MODULE RelayPromise ----------------------------
(***************************************************************************)
(* What a relay of the DF application promises, without its queues and     *)
(* timers: it keeps every packet it accepts, and sends it either alone or  *)
(* in one coded broadcast with a packet that crosses it on installed       *)
(* routes.  A packet leaves the relay once.                                *)
(***************************************************************************)
EXTENDS Integers

CONSTANTS Node, Packet, In, Out

VARIABLES
    routes,   \* directions <<previous hop, next hop>> of the installed routes
    held,     \* packets kept for later
    alone,    \* how often a packet was sent by itself
    together  \* pairs <<earlier packet, later packet>> sent as one broadcast

vars == <<routes, held, alone, together>>

\* Packets p has already been sent in a coded broadcast.
SentCoded(p) == \E c \in together : p \in {c[1], c[2]}

New(p) == p \notin held /\ alone[p] = 0 /\ ~ SentCoded(p)

\* Packets q and p cross at the relay: each one's next hop sent the other.
Crossing(q, p) == In[q] = Out[p] /\ Out[q] = In[p]

Init ==
    /\ routes = {}
    /\ held = {}
    /\ alone = [p \in Packet |-> 0]
    /\ together = {}

LearnRoute(d) ==
    /\ routes' = routes \cup {d}
    /\ UNCHANGED <<held, alone, together>>

Accept(p) ==
    /\ New(p)
    /\ held' = held \cup {p}
    /\ UNCHANGED <<routes, alone, together>>

AcceptAndCode(q, p) ==
    /\ New(p)
    /\ q \in held
    /\ Crossing(q, p)
    /\ {<<In[p], Out[p]>>, <<In[q], Out[q]>>} \subseteq routes
    /\ held' = held \ {q}
    /\ together' = together \cup {<<q, p>>}
    /\ UNCHANGED <<routes, alone>>

SendAlone(p) ==
    /\ p \in held
    /\ held' = held \ {p}
    /\ alone' = [alone EXCEPT ![p] = @ + 1]
    /\ UNCHANGED <<routes, together>>

Next ==
    \/ \E d \in Node \X Node : LearnRoute(d)
    \/ \E p \in Packet : Accept(p) \/ SendAlone(p)
    \/ \E q, p \in Packet : AcceptAndCode(q, p)

Spec == Init /\ [][Next]_vars
=============================================================================
