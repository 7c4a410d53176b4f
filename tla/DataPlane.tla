----------------------------- MODULE DataPlane -----------------------------
(***************************************************************************)
(* Data of the DF application end to end (delay-forward.cc): two clients   *)
(* that send to each other over the route n0 - r1 - r2 - n1, the queues of *)
(* both relays (an instance of RelayQueue each), the datagrams between     *)
(* them, and the end of the application at each node.                      *)
(*                                                                         *)
(* A relay sends a coded pair as one broadcast, which every neighbour      *)
(* receives or loses for itself.  When Overhears, n0 is in reach of r2 as  *)
(* well: a flood whose direct copies were lost builds the same route.      *)
(* A packet is its source and its sequence number.                         *)
(***************************************************************************)
EXTENDS Integers, Sequences, FiniteSets

CONSTANTS n0, n1,       \* the clients
          r1, r2,       \* the relays
          MaxSequence,  \* bound on the packets of each client
          Rate,         \* m_rate: packets that one event sends
          StopGroups,   \* nodes whose applications stop at the same instant
          IsDfMode, ForwardTimer, NoTimer

Client == {n0, n1}
Node == {n0, r1, r2, n1}
Packet == [source : Client, sequence : 1..MaxSequence]

ASSUME DataPlaneAssumption ==
    /\ Cardinality(Node) = 4
    /\ MaxSequence \in Nat
    /\ Rate \in Nat \ {0}
    /\ StopGroups \subseteq SUBSET Node
    /\ IsDfMode \in BOOLEAN
    /\ ForwardTimer \notin Packet /\ NoTimer \notin Packet /\ NoTimer # ForwardTimer

Destination(p) == IF p.source = n0 THEN n1 ELSE n0

\* The hops of a packet before and after each relay.
In1 == [p \in Packet |-> IF p.source = n0 THEN n0 ELSE r2]
Out1 == [p \in Packet |-> IF p.source = n0 THEN r2 ELSE n0]
In2 == [p \in Packet |-> IF p.source = n0 THEN r1 ELSE n1]
Out2 == [p \in Packet |-> IF p.source = n0 THEN n1 ELSE r1]

VARIABLES
    overhears,      \* n0 is a neighbour of r2 too
    sequenceNumber, \* m_sequenceNumber of each client
    dataEvent,      \* m_dataEvent is pending with SendData, at each client
    stopped,        \* nodes whose StopApplication has run
    net,            \* datagrams in flight
    counted,        \* m_numberOfReceiving, by packet and sender of the datagram
    gone,           \* history: copies of a packet lost, on the air or at a node
                    \* that has stopped
    flowTable1, waitingBuffer1, codingQueue1, codigTimeout1,
    waitingForwardBuffer1, pending1, received1, forwarded1, coded1,
    flowTable2, waitingBuffer2, codingQueue2, codigTimeout2,
    waitingForwardBuffer2, pending2, received2, forwarded2, coded2

relay1 == <<flowTable1, waitingBuffer1, codingQueue1, codigTimeout1,
            waitingForwardBuffer1, pending1, received1, forwarded1, coded1>>
relay2 == <<flowTable2, waitingBuffer2, codingQueue2, codigTimeout2,
            waitingForwardBuffer2, pending2, received2, forwarded2, coded2>>
clients == <<sequenceNumber, dataEvent, counted>>
vars == <<overhears, clients, stopped, net, gone, relay1, relay2>>

R1 == INSTANCE RelayQueue WITH
    Node <- {n0, r2}, In <- In1, Out <- Out1,
    flowTable <- flowTable1, waitingBuffer <- waitingBuffer1,
    codingQueue <- codingQueue1, codigTimeout <- codigTimeout1,
    waitingForwardBuffer <- waitingForwardBuffer1, pending <- pending1,
    received <- received1, forwarded <- forwarded1, coded <- coded1

R2 == INSTANCE RelayQueue WITH
    Node <- {r1, n1}, In <- In2, Out <- Out2,
    flowTable <- flowTable2, waitingBuffer <- waitingBuffer2,
    codingQueue <- codingQueue2, codigTimeout <- codigTimeout2,
    waitingForwardBuffer <- waitingForwardBuffer2, pending <- pending2,
    received <- received2, forwarded <- forwarded2, coded <- coded2

Init ==
    /\ overhears \in BOOLEAN
    /\ sequenceNumber = [c \in Client |-> 0]
    /\ dataEvent = [c \in Client |-> FALSE]
    /\ stopped = {}
    /\ net = {}
    /\ counted = [p \in Packet |-> [n \in Node |-> 0]]
    /\ gone = [p \in Packet |-> 0]
    /\ R1!Init
    /\ R2!Init

-----------------------------------------------------------------------------
(* Datagrams. *)

\* nextId that node n writes for packet p.
NextHop(n, p) ==
    CASE n = n0 -> r1
      [] n = n1 -> r2
      [] n = r1 -> Out1[p]
      [] n = r2 -> Out2[p]

\* A data message goes to the next hop only.
Data(n, p) == [from |-> n, to |-> NextHop(n, p), packets |-> {p}]

Neighbours(r) ==
    IF r = r1 THEN {n0, r2} ELSE {r1, n1} \cup (IF overhears THEN {n0} ELSE {})

\* A coded message goes to every neighbour.
Broadcast(r, c) == {[from |-> r, to |-> n, packets |-> {c[1], c[2]}] : n \in Neighbours(r)}

\* Mutant: a receiver of a coded message takes both packets.
ForAnyone(m) == m.packets

\* The packets of a datagram that name its receiver as their next hop.
ForReceiver(m) == {p \in m.packets : NextHop(m.from, p) = m.to}

Lost(packets) == gone' = [p \in Packet |-> gone[p] + (IF p \in packets THEN 1 ELSE 0)]

\* A relay sends the data messages and broadcasts its queues have released; on the
\* sockets that StopApplication has closed nothing goes out.
Transmit(r, rest, alone, pairs) ==
    IF r \in stopped
    THEN /\ net' = rest
         /\ Lost(alone \cup UNION {{c[1], c[2]} : c \in pairs})
    ELSE /\ net' = rest \cup {Data(r, p) : p \in alone}
                        \cup UNION {Broadcast(r, c) : c \in pairs}
         /\ UNCHANGED gone

Transmit1(rest) ==
    Transmit(r1, rest, {p \in Packet : forwarded1'[p] > forwarded1[p]},
             coded1' \ coded1)
Transmit2(rest) ==
    Transmit(r2, rest, {p \in Packet : forwarded2'[p] > forwarded2[p]},
             coded2' \ coded2)

-----------------------------------------------------------------------------
(* Routes and data of the clients. *)

Direction1(c) == IF c = n0 THEN <<n0, r2>> ELSE <<r2, n0>>
Direction2(c) == IF c = n0 THEN <<r1, n1>> ELSE <<n1, r1>>

\* The reply to client c comes from its partner and installs the route from there.
ForwardRREP1(c) ==
    /\ r1 \notin stopped
    /\ c = n0 => Direction2(c) \in flowTable2
    /\ R1!InstallFlow(Direction1(c))
    /\ UNCHANGED <<overhears, clients, stopped, net, gone, relay2>>

ForwardRREP2(c) ==
    /\ r2 \notin stopped
    /\ c = n1 => Direction1(c) \in flowTable1
    /\ R2!InstallFlow(Direction2(c))
    /\ UNCHANGED <<overhears, clients, stopped, net, gone, relay1>>

HasRoute(c) ==
    IF c = n0 THEN Direction1(c) \in flowTable1 ELSE Direction2(c) \in flowTable2

\* SendData calls itself until the burst is out, and then ReadyToSendData, which
\* schedules the next one.  (Before second 68 it only schedules the next one.)
SendData(c) ==
    LET last == sequenceNumber[c] + Rate
        burst == {p \in Packet : p.source = c /\ sequenceNumber[c] < p.sequence
                                              /\ p.sequence <= last}
    IN /\ last <= MaxSequence
       /\ sequenceNumber' = [sequenceNumber EXCEPT ![c] = last]
       /\ net' = net \cup {Data(c, p) : p \in burst}
       /\ dataEvent' = [dataEvent EXCEPT ![c] = TRUE]
       /\ UNCHANGED <<overhears, stopped, counted, gone, relay1, relay2>>

\* The reply reaches the client, which starts sending at once.
HandleRREP(c) ==
    /\ c \notin stopped
    /\ sequenceNumber[c] = 0
    /\ HasRoute(c)
    /\ SendData(c)

DataEventExpires(c) == dataEvent[c] /\ SendData(c)

-----------------------------------------------------------------------------
(* A datagram arrives. *)

\* Nobody reads the socket of a node that has stopped.
DropAtStopped(m) ==
    /\ m.to \in stopped
    /\ net' = net \ {m}
    /\ Lost(ForReceiver(m))
    /\ UNCHANGED <<overhears, clients, stopped, relay1, relay2>>

\* Mutant: a client counts every packet of a coded message.
CountAll(m) ==
    counted' = [p \in Packet |-> [counted[p] EXCEPT
                    ![m.from] = @ + (IF p \in m.packets THEN 1 ELSE 0)]]

\* A client counts what is addressed to it, alone or in a coded message, and does
\* not look at nextId.
CountOwn(m) ==
    counted' = [p \in Packet |-> [counted[p] EXCEPT
                    ![m.from] = @ + (IF p \in m.packets /\ Destination(p) = m.to
                                     THEN 1 ELSE 0)]]

ReceiveAtClient(m) ==
    /\ m.to \in Client \ stopped
    /\ CountOwn(m)
    /\ net' = net \ {m}
    /\ UNCHANGED <<overhears, sequenceNumber, dataEvent, stopped, gone, relay1, relay2>>

ReceiveAtRelay1(m) ==
    /\ m.to = r1 /\ r1 \notin stopped
    /\ \E p \in ForReceiver(m) : R1!Receive(p)
    /\ Transmit1(net \ {m})
    /\ UNCHANGED <<overhears, clients, stopped, relay2>>

ReceiveAtRelay2(m) ==
    /\ m.to = r2 /\ r2 \notin stopped
    /\ \E p \in ForReceiver(m) : R2!Receive(p)
    /\ Transmit2(net \ {m})
    /\ UNCHANGED <<overhears, clients, stopped, relay1>>

HandleRead(m) ==
    DropAtStopped(m) \/ ReceiveAtClient(m) \/ ReceiveAtRelay1(m) \/ ReceiveAtRelay2(m)

\* Wi-Fi loses a datagram, or one receiver's copy of a broadcast.
Lose(m) ==
    /\ net' = net \ {m}
    /\ Lost(ForReceiver(m))
    /\ UNCHANGED <<overhears, clients, stopped, relay1, relay2>>

-----------------------------------------------------------------------------
(* Timers of the relays, and the end of the application. *)

TimerExpires1 ==
    /\ R1!TimerExpires
    /\ Transmit1(net)
    /\ UNCHANGED <<overhears, clients, stopped, relay2>>

TimerExpires2 ==
    /\ R2!TimerExpires
    /\ Transmit2(net)
    /\ UNCHANGED <<overhears, clients, stopped, relay1>>

\* Mutant: m_dataEvent is not cancelled.
LeaveDataEvent(group) == UNCHANGED dataEvent

\* The only event StopApplication cancels.
CancelDataEvent(group) ==
    dataEvent' = [c \in Client |-> dataEvent[c] /\ c \notin group]

\* StopApplication of the nodes that a script stops at one instant: the stop events
\* were scheduled first, so they run one after the other.
StopApplication(group) ==
    /\ ~ group \subseteq stopped
    /\ stopped' = stopped \cup group
    /\ CancelDataEvent(group)
    /\ UNCHANGED <<overhears, sequenceNumber, counted, net, gone, relay1, relay2>>

Next ==
    \/ \E c \in Client : \/ ForwardRREP1(c) \/ ForwardRREP2(c)
                         \/ HandleRREP(c) \/ DataEventExpires(c)
    \/ \E m \in net : HandleRead(m) \/ Lose(m)
    \/ TimerExpires1 \/ TimerExpires2
    \/ \E group \in StopGroups : StopApplication(group)

Spec == Init /\ [][Next]_vars

-----------------------------------------------------------------------------
(* Correctness. *)

TypeOK ==
    /\ sequenceNumber \in [Client -> 0..MaxSequence]
    /\ dataEvent \in [Client -> BOOLEAN]
    /\ stopped \subseteq Node
    /\ \A m \in net : m.to \in Node /\ m.packets \subseteq Packet
    /\ counted \in [Packet -> [Node -> Nat]]
    /\ gone \in [Packet -> Nat]
    /\ R1!TypeOK /\ R2!TypeOK

Sent(p) == p.sequence <= sequenceNumber[p.source]

\* What RelayQueue assumes of its environment, and more: whatever a relay is about
\* to be handed, it has not been handed before; it comes from the previous hop of
\* its route, in no other datagram; and its flow is installed.
RelaysAreHandedFreshPackets ==
    \A m \in net : m.to \in {r1, r2} =>
        /\ Cardinality(ForReceiver(m)) = 1
        /\ \A p \in ForReceiver(m) :
            /\ \A k \in net : k.to = m.to /\ p \in ForReceiver(k) => k = m
            /\ m.to = r1 => p \notin received1 /\ m.from = In1[p]
                                               /\ R1!Dir(p) \in flowTable1
            /\ m.to = r2 => p \notin received2 /\ m.from = In2[p]
                                               /\ R2!Dir(p) \in flowTable2

\* The places a packet can be in: on its way to its next hop, waiting at a relay,
\* counted by its destination from its last hop, or gone.
LastHop(p) == IF p.source = n0 THEN r2 ELSE r1
Places(p) ==
      Cardinality({m \in net : p \in ForReceiver(m)})
    + (IF p \in R1!Held THEN 1 ELSE 0)
    + (IF p \in R2!Held THEN 1 ELSE 0)
    + counted[p][LastHop(p)]
    + gone[p]

\* End to end, through two relays that code it with different packets, with
\* losses, and with nodes that stop while their timers go on, a packet that was
\* sent is in exactly one place: never duplicated, and lost only where it was lost.
PacketInOnePlace == \A p \in Packet : Places(p) = IF Sent(p) THEN 1 ELSE 0

\* A client counts a packet twice only if it overheard it: in a coded broadcast
\* of the relay before its last hop, when it is in reach of that relay.
CountsTwiceOnlyIfOverheard ==
    \A p \in Packet : \A n \in Node \ {LastHop(p)} :
        /\ counted[p][n] <= 1
        /\ counted[p][n] = 1 =>
            /\ overhears /\ Destination(p) = n0 /\ n = r2
            /\ \E c \in coded2 : p \in {c[1], c[2]}

\* Coding pays only if a receiver can take the other packet out: whoever gets a
\* packet it wants out of a coded datagram has sent or forwarded the other one.
Wants(m, p) == p \in ForReceiver(m) \/ Destination(p) = m.to
ReceiverKnowsTheOther ==
    \A m \in net : \A p, q \in m.packets :
        p # q /\ Wants(m, p) =>
            \/ m.to = q.source /\ Sent(q)
            \/ m.to = r1 /\ q \in received1
            \/ m.to = r2 /\ q \in received2

\* Once a client's application has stopped it sends no data, although events that
\* were scheduled before go on at the relays.
StoppedClientsSendNothing ==
    [][\A c \in stopped \cap Client : sequenceNumber'[c] = sequenceNumber[c]]_vars

\* When every application has stopped, the events it left behind run out: each step
\* takes one datagram, timer or queued packet away, so that the timers that
\* StopApplication does not cancel cannot keep each other alive.
LeftToDo ==
    Cardinality(net) + Len(pending1) + Len(waitingForwardBuffer1)
                     + Len(pending2) + Len(waitingForwardBuffer2)
TimersRunDown == [][stopped = Node => LeftToDo' < LeftToDo]_vars
=============================================================================
