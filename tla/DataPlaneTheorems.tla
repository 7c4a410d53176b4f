------------------------- MODULE DataPlaneTheorems -------------------------
(***************************************************************************)
(* Two clients and two relays that code each other's packets: the safety   *)
(* and action properties of DataPlane for every value of its constants.    *)
(*                                                                         *)
(* Each relay is an instance of RelayQueue, and what is proved of one      *)
(* relay (RelayQueueTheorems) is used here of both, through Q1 and Q2: a   *)
(* step of the network becomes one of seven effects on packets             *)
(* (StepEffects), in which a relay is no more than the packets it has      *)
(* received, holds and has coded.                                          *)
(*                                                                         *)
(* PathInv is inductive. PacketInOnePlace alone is not: a relay could be   *)
(* handed a packet that it has had before, which RelayQueue!Receive        *)
(* refuses, or a datagram could carry a packet that nobody sent. So it is  *)
(* proved together with where datagrams come from (DatagramsAreSound), the *)
(* order of the hops (HopsAreInOrder) and the freshness of what is on the  *)
(* air (FreshAtRelays). EventsInOrder adds the routes and the events of    *)
(* the clients, OverheardOnce the overheard copies.                        *)
(***************************************************************************)
EXTENDS DataPlane, FiniteSetTheorems, TLAPS

\* The relays again, with what is proved of a relay.
Q1 == INSTANCE RelayQueueTheorems WITH
    Node <- {n0, r2}, In <- In1, Out <- Out1,
    flowTable <- flowTable1, waitingBuffer <- waitingBuffer1,
    codingQueue <- codingQueue1, codigTimeout <- codigTimeout1,
    waitingForwardBuffer <- waitingForwardBuffer1, pending <- pending1,
    received <- received1, forwarded <- forwarded1, coded <- coded1

Q2 == INSTANCE RelayQueueTheorems WITH
    Node <- {r1, n1}, In <- In2, Out <- Out2,
    flowTable <- flowTable2, waitingBuffer <- waitingBuffer2,
    codingQueue <- codingQueue2, codigTimeout <- codigTimeout2,
    waitingForwardBuffer <- waitingForwardBuffer2, pending <- pending2,
    received <- received2, forwarded <- forwarded2, coded <- coded2

LEMMA FourNodes ==
    /\ n0 # n1 /\ n0 # r1 /\ n0 # r2 /\ n1 # r1 /\ n1 # r2 /\ r1 # r2
<1>1. ASSUME NEW a, NEW b, NEW c PROVE Cardinality({a, b, c}) # 4
  <2>1. IsFiniteSet({a}) /\ Cardinality({a}) = 1
    BY FS_Singleton
  <2>2. /\ {a, b} = {a} \cup {b} /\ IsFiniteSet({a} \cup {b})
        /\ Cardinality({a} \cup {b}) \in {1, 2}
    BY <2>1, FS_AddElement
  <2>3. {a, b, c} = {a, b} \cup {c} /\ Cardinality({a, b} \cup {c}) \in {1, 2, 3}
    BY <2>2, FS_AddElement
  <2> QED
    BY <2>3
<1>2. Cardinality({n0, r1, r2, n1}) = 4
  BY DataPlaneAssumption DEF Node
<1>3. n0 = n1 => {n0, r1, r2, n1} = {n0, r1, r2}
  OBVIOUS
<1>4. n0 = r1 => {n0, r1, r2, n1} = {n0, r2, n1}
  OBVIOUS
<1>5. n0 = r2 \/ r1 = r2 => {n0, r1, r2, n1} = {n0, r1, n1}
  OBVIOUS
<1>6. n1 = r1 \/ n1 = r2 => {n0, r1, r2, n1} = {n0, r1, r2}
  OBVIOUS
<1> QED
  BY <1>1, <1>2, <1>3, <1>4, <1>5, <1>6

LEMMA RelayAssumptions1 ==
    /\ In1 \in [Packet -> {n0, r2}]
    /\ Out1 \in [Packet -> {n0, r2}]
    /\ \A p \in Packet : In1[p] # Out1[p]
BY FourNodes DEF In1, Out1

LEMMA RelayAssumptions2 ==
    /\ In2 \in [Packet -> {r1, n1}]
    /\ Out2 \in [Packet -> {r1, n1}]
    /\ \A p \in Packet : In2[p] # Out2[p]
BY FourNodes DEF In2, Out2

LEMMA TimerAssumptions ==
    /\ IsDfMode \in BOOLEAN
    /\ ForwardTimer \notin Packet
    /\ NoTimer \notin Packet
    /\ NoTimer # ForwardTimer
BY DataPlaneAssumption

LEMMA Bridge1 ==
    ASSUME NEW p, NEW d
    PROVE  /\ R1!Receive(p) <=> Q1!Receive(p)
           /\ R1!TimerExpires <=> Q1!TimerExpires
           /\ R1!InstallFlow(d) <=> Q1!InstallFlow(d)
           /\ R1!Init <=> Q1!Init
           /\ R1!Held = Q1!Held /\ R1!Held' = Q1!Held'
           /\ R1!TypeOK <=> Q1!TypeOK
<1>1. R1!InstallFlow(d) <=> Q1!InstallFlow(d)
  BY DEF R1!InstallFlow, Q1!InstallFlow, R1!queues, Q1!queues
<1>2. R1!Init <=> Q1!Init
  BY DEF R1!Init, Q1!Init, R1!Direction, Q1!Direction
<1>3. R1!TypeOK <=> Q1!TypeOK
  BY DEF R1!TypeOK, Q1!TypeOK, R1!Direction, Q1!Direction
<1>4. R1!Held = Q1!Held /\ R1!Held' = Q1!Held'
  BY DEF R1!Held, Q1!Held, R1!Contains, Q1!Contains, R1!Dir, Q1!Dir
<1>5. ASSUME NEW s, NEW e
      PROVE  R1!Cancel(s, e) = Q1!Cancel(s, e) /\ (R1!Contains(s, e) <=> Q1!Contains(s, e))
  BY DEF R1!Cancel, Q1!Cancel, R1!Contains, Q1!Contains, R1!RemoveFirst, Q1!RemoveFirst, R1!RemoveAt, Q1!RemoveAt, R1!SelectInSeq, Q1!SelectInSeq, R1!Min, Q1!Min
<1>6. ASSUME NEW e PROVE  R1!Dequeue(e) = Q1!Dequeue(e)
  BY DEF R1!Dequeue, Q1!Dequeue, R1!RemoveFirst, Q1!RemoveFirst, R1!RemoveAt, Q1!RemoveAt, R1!SelectInSeq, Q1!SelectInSeq, R1!Min, Q1!Min
<1>7. ASSUME NEW q PROVE R1!Dir(q) = Q1!Dir(q) /\ R1!Opposite(q) = Q1!Opposite(q)
  BY DEF R1!Dir, Q1!Dir, R1!Opposite, Q1!Opposite
<1>8. ASSUME NEW s, NEW e PROVE R1!RearmForward(s, e) = Q1!RearmForward(s, e)
  BY <1>5 DEF R1!RearmForward, Q1!RearmForward
<1>9. ASSUME NEW e PROVE R1!DropFirst(e) = Q1!DropFirst(e)
  BY <1>7 DEF R1!DropFirst, Q1!DropFirst, R1!Direction, Q1!Direction
<1>10. R1!CodeWithWaiting(p) <=> Q1!CodeWithWaiting(p)
  BY <1>5, <1>6, <1>7 DEF R1!CodeWithWaiting, Q1!CodeWithWaiting, R1!HasNetworkCoding, Q1!HasNetworkCoding, R1!HasWaitingData, Q1!HasWaitingData, R1!CodingData, Q1!CodingData
<1>11. R1!WaitForCoding(p) <=> Q1!WaitForCoding(p)
  BY <1>7 DEF R1!WaitForCoding, Q1!WaitForCoding, R1!HasNetworkCoding, Q1!HasNetworkCoding, R1!HasWaitingData, Q1!HasWaitingData
<1>12. R1!WaitForForward(p) <=> Q1!WaitForForward(p)
  BY <1>5, <1>7 DEF R1!WaitForForward, Q1!WaitForForward, R1!HasNetworkCoding, Q1!HasNetworkCoding, R1!ForwardEventIsRunning, Q1!ForwardEventIsRunning
<1>13. R1!Receive(p) <=> Q1!Receive(p)
  BY <1>10, <1>11, <1>12 DEF R1!Receive, Q1!Receive, R1!EncodingData, Q1!EncodingData
<1>14. R1!CodingTimeoutExpired <=> Q1!CodingTimeoutExpired
  BY <1>5, <1>7, <1>8, <1>9 DEF R1!CodingTimeoutExpired, Q1!CodingTimeoutExpired, R1!SendAlone, Q1!SendAlone
<1>15. R1!ForwardTimeoutExpired <=> Q1!ForwardTimeoutExpired
  BY <1>8 DEF R1!ForwardTimeoutExpired, Q1!ForwardTimeoutExpired, R1!SendAlone, Q1!SendAlone
<1> QED
  BY <1>1, <1>2, <1>3, <1>4, <1>13, <1>14, <1>15 DEF R1!TimerExpires, Q1!TimerExpires

LEMMA Bridge2 ==
    ASSUME NEW p, NEW d
    PROVE  /\ R2!Receive(p) <=> Q2!Receive(p)
           /\ R2!TimerExpires <=> Q2!TimerExpires
           /\ R2!InstallFlow(d) <=> Q2!InstallFlow(d)
           /\ R2!Init <=> Q2!Init
           /\ R2!Held = Q2!Held /\ R2!Held' = Q2!Held'
           /\ R2!TypeOK <=> Q2!TypeOK
<1>1. R2!InstallFlow(d) <=> Q2!InstallFlow(d)
  BY DEF R2!InstallFlow, Q2!InstallFlow, R2!queues, Q2!queues
<1>2. R2!Init <=> Q2!Init
  BY DEF R2!Init, Q2!Init, R2!Direction, Q2!Direction
<1>3. R2!TypeOK <=> Q2!TypeOK
  BY DEF R2!TypeOK, Q2!TypeOK, R2!Direction, Q2!Direction
<1>4. R2!Held = Q2!Held /\ R2!Held' = Q2!Held'
  BY DEF R2!Held, Q2!Held, R2!Contains, Q2!Contains, R2!Dir, Q2!Dir
<1>5. ASSUME NEW s, NEW e
      PROVE  R2!Cancel(s, e) = Q2!Cancel(s, e) /\ (R2!Contains(s, e) <=> Q2!Contains(s, e))
  BY DEF R2!Cancel, Q2!Cancel, R2!Contains, Q2!Contains, R2!RemoveFirst, Q2!RemoveFirst, R2!RemoveAt, Q2!RemoveAt, R2!SelectInSeq, Q2!SelectInSeq, R2!Min, Q2!Min
<1>6. ASSUME NEW e PROVE  R2!Dequeue(e) = Q2!Dequeue(e)
  BY DEF R2!Dequeue, Q2!Dequeue, R2!RemoveFirst, Q2!RemoveFirst, R2!RemoveAt, Q2!RemoveAt, R2!SelectInSeq, Q2!SelectInSeq, R2!Min, Q2!Min
<1>7. ASSUME NEW q PROVE R2!Dir(q) = Q2!Dir(q) /\ R2!Opposite(q) = Q2!Opposite(q)
  BY DEF R2!Dir, Q2!Dir, R2!Opposite, Q2!Opposite
<1>8. ASSUME NEW s, NEW e PROVE R2!RearmForward(s, e) = Q2!RearmForward(s, e)
  BY <1>5 DEF R2!RearmForward, Q2!RearmForward
<1>9. ASSUME NEW e PROVE R2!DropFirst(e) = Q2!DropFirst(e)
  BY <1>7 DEF R2!DropFirst, Q2!DropFirst, R2!Direction, Q2!Direction
<1>10. R2!CodeWithWaiting(p) <=> Q2!CodeWithWaiting(p)
  BY <1>5, <1>6, <1>7 DEF R2!CodeWithWaiting, Q2!CodeWithWaiting, R2!HasNetworkCoding, Q2!HasNetworkCoding, R2!HasWaitingData, Q2!HasWaitingData, R2!CodingData, Q2!CodingData
<1>11. R2!WaitForCoding(p) <=> Q2!WaitForCoding(p)
  BY <1>7 DEF R2!WaitForCoding, Q2!WaitForCoding, R2!HasNetworkCoding, Q2!HasNetworkCoding, R2!HasWaitingData, Q2!HasWaitingData
<1>12. R2!WaitForForward(p) <=> Q2!WaitForForward(p)
  BY <1>5, <1>7 DEF R2!WaitForForward, Q2!WaitForForward, R2!HasNetworkCoding, Q2!HasNetworkCoding, R2!ForwardEventIsRunning, Q2!ForwardEventIsRunning
<1>13. R2!Receive(p) <=> Q2!Receive(p)
  BY <1>10, <1>11, <1>12 DEF R2!Receive, Q2!Receive, R2!EncodingData, Q2!EncodingData
<1>14. R2!CodingTimeoutExpired <=> Q2!CodingTimeoutExpired
  BY <1>5, <1>7, <1>8, <1>9 DEF R2!CodingTimeoutExpired, Q2!CodingTimeoutExpired, R2!SendAlone, Q2!SendAlone
<1>15. R2!ForwardTimeoutExpired <=> Q2!ForwardTimeoutExpired
  BY <1>8 DEF R2!ForwardTimeoutExpired, Q2!ForwardTimeoutExpired, R2!SendAlone, Q2!SendAlone
<1> QED
  BY <1>1, <1>2, <1>3, <1>4, <1>13, <1>14, <1>15 DEF R2!TimerExpires, Q2!TimerExpires

-----------------------------------------------------------------------------
(* The hops of a packet, and both relays seen alike. *)

Relay == {r1, r2}
HopBefore(r, p) == IF r = r1 THEN In1[p] ELSE In2[p]

HeldAt(r) == IF r = r1 THEN R1!Held ELSE R2!Held
Received(r) == IF r = r1 THEN received1 ELSE received2
Coded(r) == IF r = r1 THEN coded1 ELSE coded2
Flows(r) == IF r = r1 THEN flowTable1 ELSE flowTable2

RelaysAreSound == Q1!RelayInv /\ Q2!RelayInv

LEMMA HopFacts ==
    ASSUME NEW p \in Packet
    PROVE  /\ p.source \in {n0, n1}
           /\ p.source = n0 =>
                /\ NextHop(n0, p) = r1 /\ NextHop(r1, p) = r2 /\ NextHop(r2, p) = n1
                /\ HopBefore(r1, p) = n0 /\ HopBefore(r2, p) = r1
                /\ Destination(p) = n1 /\ LastHop(p) = r2
           /\ p.source = n1 =>
                /\ NextHop(n1, p) = r2 /\ NextHop(r2, p) = r1 /\ NextHop(r1, p) = n0
                /\ HopBefore(r2, p) = n1 /\ HopBefore(r1, p) = r2
                /\ Destination(p) = n0 /\ LastHop(p) = r1
<1>1. p.source \in {n0, n1}
  BY DEF Packet, Client
<1> QED
  BY <1>1, FourNodes
     DEF NextHop, HopBefore, In1, In2, Out1, Out2, Destination, LastHop

\* What a relay has received, holds and has coded.
LEMMA RelayFacts ==
    ASSUME RelaysAreSound, NEW r \in Relay
    PROVE  /\ HeldAt(r) \subseteq Received(r) /\ Received(r) \subseteq Packet
           /\ Coded(r) \subseteq Packet \X Packet
           /\ \A c \in Coded(r) :
                /\ {c[1], c[2]} \subseteq Received(r) \ HeldAt(r)
                /\ c[1] # c[2]
                /\ NextHop(r, c[1]) = HopBefore(r, c[2])
                /\ NextHop(r, c[2]) = HopBefore(r, c[1])
<1>1. CASE r = r1
  <2>1. /\ R1!Held \subseteq received1 /\ received1 \subseteq Packet
        /\ coded1 \subseteq Packet \X Packet
        /\ \A c \in coded1 : /\ {c[1], c[2]} \subseteq received1 \ R1!Held
                             /\ c[1] # c[2]
                             /\ Out1[c[1]] = In1[c[2]] /\ Out1[c[2]] = In1[c[1]]
    BY Q1!SeenFacts, Bridge1, RelayAssumptions1, TimerAssumptions DEF RelaysAreSound
  <2> QED
    BY <1>1, <2>1, FourNodes DEF HeldAt, Received, Coded, NextHop, HopBefore
<1>2. CASE r = r2
  <2>1. /\ R2!Held \subseteq received2 /\ received2 \subseteq Packet
        /\ coded2 \subseteq Packet \X Packet
        /\ \A c \in coded2 : /\ {c[1], c[2]} \subseteq received2 \ R2!Held
                             /\ c[1] # c[2]
                             /\ Out2[c[1]] = In2[c[2]] /\ Out2[c[2]] = In2[c[1]]
    BY Q2!SeenFacts, Bridge2, RelayAssumptions2, TimerAssumptions DEF RelaysAreSound
  <2> QED
    BY <1>2, <2>1, FourNodes DEF HeldAt, Received, Coded, NextHop, HopBefore
<1> QED
  BY <1>1, <1>2 DEF Relay

-----------------------------------------------------------------------------
(* What a step does to a relay, seen from outside. *)

Stays(r) == UNCHANGED <<HeldAt(r), Received(r), Coded(r), Flows(r)>>

\* Packet p arrives at relay r in datagram m, and is kept or sent with a held one.
TakesIn(r, m, p) ==
    /\ p \in ForReceiver(m) \ Received(r) /\ m.to = r
    /\ Received(r)' = Received(r) \cup {p}
    /\ UNCHANGED Flows(r)
    /\ \/ /\ HeldAt(r)' = HeldAt(r) \cup {p}
          /\ UNCHANGED Coded(r)
          /\ net' = net \ {m}
       \/ \E q \in HeldAt(r) :
            /\ HeldAt(r)' = HeldAt(r) \ {q}
            /\ Coded(r)' = Coded(r) \cup {<<q, p>>}
            /\ NextHop(r, q) = HopBefore(r, p) /\ NextHop(r, p) = HopBefore(r, q)
            /\ net' = (net \ {m}) \cup Broadcast(r, <<q, p>>)

\* Held packet q leaves relay r alone, on the air or into closed sockets.
LetsGo(r, q) ==
    /\ q \in HeldAt(r)
    /\ HeldAt(r)' = HeldAt(r) \ {q}
    /\ UNCHANGED <<Received(r), Coded(r), Flows(r)>>
    /\ IF r \in stopped THEN UNCHANGED net /\ Lost({q})
                        ELSE net' = net \cup {Data(r, q)} /\ UNCHANGED gone

LEMMA StaysUnchanged ==
    ASSUME RelaysAreSound
    PROVE  /\ UNCHANGED relay1 => Q1!RelayInv' /\ Stays(r1)
           /\ UNCHANGED relay2 => Q2!RelayInv' /\ Stays(r2)
<1>1. ASSUME UNCHANGED relay1 PROVE Q1!RelayInv' /\ Stays(r1)
  <2>1. UNCHANGED Q1!vars
    BY <1>1 DEF relay1, Q1!vars, Q1!queues
  <2>2. Q1!RelayInv' /\ UNCHANGED <<Q1!Held, flowTable1, received1, coded1>>
    BY <2>1, Q1!StaySeen, RelayAssumptions1, TimerAssumptions DEF RelaysAreSound
  <2>3. R1!Held' = R1!Held
    BY <2>2, Bridge1
  <2> QED
    BY <2>2, <2>3 DEF Stays, HeldAt, Received, Coded, Flows
<1>2. ASSUME UNCHANGED relay2 PROVE Q2!RelayInv' /\ Stays(r2)
  <2>1. UNCHANGED Q2!vars
    BY <1>2 DEF relay2, Q2!vars, Q2!queues
  <2>2. Q2!RelayInv' /\ UNCHANGED <<Q2!Held, flowTable2, received2, coded2>>
    BY <2>1, Q2!StaySeen, RelayAssumptions2, TimerAssumptions DEF RelaysAreSound
  <2>3. R2!Held' = R2!Held
    BY <2>2, Bridge2
  <2> QED
    BY <2>2, <2>3, FourNodes DEF Stays, HeldAt, Received, Coded, Flows
<1> QED
  BY <1>1, <1>2

\* The union over no pairs, and over one.
LEMMA BroadcastUnion ==
    ASSUME NEW r, NEW c
    PROVE  /\ UNION {Broadcast(r, d) : d \in {}} = {}
           /\ UNION {Broadcast(r, d) : d \in {c}} = Broadcast(r, c)
           /\ UNION {{d[1], d[2]} : d \in {}} = {}
OBVIOUS

LEMMA ReceiveEffect1 ==
    ASSUME RelaysAreSound, NEW m \in net, m.packets \subseteq Packet, ReceiveAtRelay1(m)
    PROVE  /\ RelaysAreSound' /\ Stays(r2)
           /\ \E p \in Packet : TakesIn(r1, m, p)
           /\ UNCHANGED <<overhears, clients, stopped, gone>>
<1>1. PICK p \in ForReceiver(m) : R1!Receive(p)
  BY DEF ReceiveAtRelay1
<1>2. /\ p \in Packet /\ m.to = r1 /\ r1 \notin stopped
      /\ UNCHANGED <<overhears, clients, stopped, relay2>>
      /\ Transmit1(net \ {m})
  BY <1>1 DEF ReceiveAtRelay1, ForReceiver
<1>3. Q2!RelayInv' /\ Stays(r2)
  BY <1>2, StaysUnchanged
<1>4. /\ Q1!RelayInv'
      /\ p \notin received1 /\ received1' = received1 \cup {p}
      /\ UNCHANGED <<flowTable1, forwarded1>>
      /\ \/ Q1!Held' = Q1!Held \cup {p} /\ coded1' = coded1
         \/ \E q \in Q1!Held : /\ Q1!Held' = Q1!Held \ {q}
                               /\ coded1' = coded1 \cup {<<q, p>>}
                               /\ Out1[q] = In1[p] /\ Out1[p] = In1[q]
  BY <1>1, <1>2, Q1!ReceiveSeen, Bridge1, RelayAssumptions1, TimerAssumptions
     DEF RelaysAreSound
<1>5. /\ R1!Held = Q1!Held /\ R1!Held' = Q1!Held'
      /\ HeldAt(r1) = R1!Held /\ HeldAt(r1)' = R1!Held'
  BY Bridge1, FourNodes DEF HeldAt
<1>6. forwarded1 \in [Packet -> Nat] /\ forwarded1' = forwarded1
  BY <1>4, Q1!SeenFacts, RelayAssumptions1, TimerAssumptions DEF RelaysAreSound
<1>7. {x \in Packet : forwarded1'[x] > forwarded1[x]} = {}
  BY <1>6
<1>8. /\ net' = (net \ {m}) \cup UNION {Broadcast(r1, d) : d \in coded1' \ coded1}
      /\ UNCHANGED gone
  BY <1>2, <1>7 DEF Transmit1, Transmit
<1>9. CASE Q1!Held' = Q1!Held \cup {p} /\ coded1' = coded1
  <2>1. coded1' \ coded1 = {}
    BY <1>9
  <2>2. net' = net \ {m}
    BY <1>8, <2>1, BroadcastUnion
  <2>3. TakesIn(r1, m, p)
    BY <1>1, <1>2, <1>4, <1>5, <1>9, <2>2, FourNodes
       DEF TakesIn, Received, Coded, Flows
  <2> QED
    BY <1>2, <1>3, <1>4, <1>8, <2>3 DEF RelaysAreSound
<1>10. ASSUME NEW q \in Q1!Held, Q1!Held' = Q1!Held \ {q},
              coded1' = coded1 \cup {<<q, p>>}, Out1[q] = In1[p], Out1[p] = In1[q]
       PROVE  TakesIn(r1, m, p)
  <2>1. <<q, p>> \notin coded1
    <3>1. \A c \in coded1 : c[1] \notin HeldAt(r1)
      BY RelayFacts, FourNodes DEF Relay, Coded
    <3> QED
      BY <3>1, <1>5
  <2>2. coded1' \ coded1 = {<<q, p>>}
    BY <1>10, <2>1
  <2>3. net' = (net \ {m}) \cup Broadcast(r1, <<q, p>>)
    BY <1>8, <2>2, BroadcastUnion
  <2>4. NextHop(r1, q) = HopBefore(r1, p) /\ NextHop(r1, p) = HopBefore(r1, q)
    BY <1>10, FourNodes DEF NextHop, HopBefore
  <2> QED
    BY <1>1, <1>2, <1>4, <1>5, <1>10, <2>3, <2>4, FourNodes
       DEF TakesIn, Received, Coded, Flows
<1> QED
  BY <1>2, <1>3, <1>4, <1>8, <1>9, <1>10 DEF RelaysAreSound

LEMMA ReceiveEffect2 ==
    ASSUME RelaysAreSound, NEW m \in net, m.packets \subseteq Packet, ReceiveAtRelay2(m)
    PROVE  /\ RelaysAreSound' /\ Stays(r1)
           /\ \E p \in Packet : TakesIn(r2, m, p)
           /\ UNCHANGED <<overhears, clients, stopped, gone>>
<1>1. PICK p \in ForReceiver(m) : R2!Receive(p)
  BY DEF ReceiveAtRelay2
<1>2. /\ p \in Packet /\ m.to = r2 /\ r2 \notin stopped
      /\ UNCHANGED <<overhears, clients, stopped, relay1>>
      /\ Transmit2(net \ {m})
  BY <1>1 DEF ReceiveAtRelay2, ForReceiver
<1>3. Q1!RelayInv' /\ Stays(r1)
  BY <1>2, StaysUnchanged
<1>4. /\ Q2!RelayInv'
      /\ p \notin received2 /\ received2' = received2 \cup {p}
      /\ UNCHANGED <<flowTable2, forwarded2>>
      /\ \/ Q2!Held' = Q2!Held \cup {p} /\ coded2' = coded2
         \/ \E q \in Q2!Held : /\ Q2!Held' = Q2!Held \ {q}
                               /\ coded2' = coded2 \cup {<<q, p>>}
                               /\ Out2[q] = In2[p] /\ Out2[p] = In2[q]
  BY <1>1, <1>2, Q2!ReceiveSeen, Bridge2, RelayAssumptions2, TimerAssumptions
     DEF RelaysAreSound
<1>5. /\ R2!Held = Q2!Held /\ R2!Held' = Q2!Held'
      /\ HeldAt(r2) = R2!Held /\ HeldAt(r2)' = R2!Held'
  BY Bridge2, FourNodes DEF HeldAt
<1>6. forwarded2 \in [Packet -> Nat] /\ forwarded2' = forwarded2
  BY <1>4, Q2!SeenFacts, RelayAssumptions2, TimerAssumptions DEF RelaysAreSound
<1>7. {x \in Packet : forwarded2'[x] > forwarded2[x]} = {}
  BY <1>6
<1>8. /\ net' = (net \ {m}) \cup UNION {Broadcast(r2, d) : d \in coded2' \ coded2}
      /\ UNCHANGED gone
  BY <1>2, <1>7 DEF Transmit2, Transmit
<1>9. CASE Q2!Held' = Q2!Held \cup {p} /\ coded2' = coded2
  <2>1. coded2' \ coded2 = {}
    BY <1>9
  <2>2. net' = net \ {m}
    BY <1>8, <2>1, BroadcastUnion
  <2>3. TakesIn(r2, m, p)
    BY <1>1, <1>2, <1>4, <1>5, <1>9, <2>2, FourNodes
       DEF TakesIn, Received, Coded, Flows
  <2> QED
    BY <1>2, <1>3, <1>4, <1>8, <2>3 DEF RelaysAreSound
<1>10. ASSUME NEW q \in Q2!Held, Q2!Held' = Q2!Held \ {q},
              coded2' = coded2 \cup {<<q, p>>}, Out2[q] = In2[p], Out2[p] = In2[q]
       PROVE  TakesIn(r2, m, p)
  <2>1. <<q, p>> \notin coded2
    <3>1. \A c \in coded2 : c[1] \notin HeldAt(r2)
      BY RelayFacts, FourNodes DEF Relay, Coded
    <3> QED
      BY <3>1, <1>5
  <2>2. coded2' \ coded2 = {<<q, p>>}
    BY <1>10, <2>1
  <2>3. net' = (net \ {m}) \cup Broadcast(r2, <<q, p>>)
    BY <1>8, <2>2, BroadcastUnion
  <2>4. NextHop(r2, q) = HopBefore(r2, p) /\ NextHop(r2, p) = HopBefore(r2, q)
    BY <1>10, FourNodes DEF NextHop, HopBefore
  <2> QED
    BY <1>1, <1>2, <1>4, <1>5, <1>10, <2>3, <2>4, FourNodes
       DEF TakesIn, Received, Coded, Flows
<1> QED
  BY <1>2, <1>3, <1>4, <1>8, <1>9, <1>10 DEF RelaysAreSound

LEMMA TimerEffect1 ==
    ASSUME RelaysAreSound, gone \in [Packet -> Nat], TimerExpires1
    PROVE  /\ RelaysAreSound' /\ Stays(r2)
           /\ \/ Stays(r1) /\ UNCHANGED <<net, gone>>
              \/ \E q \in Packet : LetsGo(r1, q)
           /\ UNCHANGED <<overhears, clients, stopped>>
<1> DEFINE alone == {x \in Packet : forwarded1'[x] > forwarded1[x]}
<1>1. /\ R1!TimerExpires /\ Transmit1(net)
      /\ UNCHANGED <<overhears, clients, stopped, relay2>>
  BY DEF TimerExpires1
<1>2. Q2!RelayInv' /\ Stays(r2)
  BY <1>1, StaysUnchanged
<1>3. /\ Q1!RelayInv'
      /\ UNCHANGED <<flowTable1, received1, coded1>>
      /\ \/ UNCHANGED <<Q1!Held, forwarded1>>
         \/ \E q \in Q1!Held : /\ Q1!Held' = Q1!Held \ {q}
                               /\ forwarded1' = [forwarded1 EXCEPT ![q] = @ + 1]
  BY <1>1, Q1!TimerSeen, Bridge1, RelayAssumptions1, TimerAssumptions DEF RelaysAreSound
<1>4. /\ R1!Held = Q1!Held /\ R1!Held' = Q1!Held'
      /\ HeldAt(r1) = R1!Held /\ HeldAt(r1)' = R1!Held'
  BY Bridge1, FourNodes DEF HeldAt
<1>5. forwarded1 \in [Packet -> Nat]
  BY Q1!SeenFacts, RelayAssumptions1, TimerAssumptions DEF RelaysAreSound
<1>6. coded1' \ coded1 = {}
  BY <1>3
<1>7. IF r1 \in stopped
      THEN net' = net /\ Lost(alone)
      ELSE net' = net \cup {Data(r1, p) : p \in alone} /\ UNCHANGED gone
  BY <1>1, <1>6, BroadcastUnion DEF Transmit1, Transmit
<1>8. CASE UNCHANGED <<Q1!Held, forwarded1>>
  <2>1. alone = {}
    BY <1>5, <1>8
  <2>2. Lost({}) => gone' = gone
    BY DEF Lost
  <2>3. UNCHANGED <<net, gone>>
    BY <1>7, <2>1, <2>2
  <2>4. Stays(r1)
    BY <1>3, <1>4, <1>8, FourNodes DEF Stays, Received, Coded, Flows
  <2> QED
    BY <1>1, <1>2, <1>3, <2>3, <2>4 DEF RelaysAreSound
<1>9. ASSUME NEW q \in Q1!Held, Q1!Held' = Q1!Held \ {q},
             forwarded1' = [forwarded1 EXCEPT ![q] = @ + 1]
      PROVE  q \in Packet /\ LetsGo(r1, q)
  <2>1. q \in Packet
    BY <1>4, RelayFacts DEF Relay
  <2>2. alone = {q}
    BY <1>5, <1>9, <2>1
  <2>3. IF r1 \in stopped
        THEN net' = net /\ Lost({q})
        ELSE net' = net \cup {Data(r1, q)} /\ UNCHANGED gone
    BY <1>7, <2>2
  <2> QED
    BY <1>3, <1>4, <1>9, <2>1, <2>3, FourNodes DEF LetsGo, Received, Coded, Flows
<1> QED
  BY <1>1, <1>2, <1>3, <1>8, <1>9 DEF RelaysAreSound

LEMMA TimerEffect2 ==
    ASSUME RelaysAreSound, gone \in [Packet -> Nat], TimerExpires2
    PROVE  /\ RelaysAreSound' /\ Stays(r1)
           /\ \/ Stays(r2) /\ UNCHANGED <<net, gone>>
              \/ \E q \in Packet : LetsGo(r2, q)
           /\ UNCHANGED <<overhears, clients, stopped>>
<1> DEFINE alone == {x \in Packet : forwarded2'[x] > forwarded2[x]}
<1>1. /\ R2!TimerExpires /\ Transmit2(net)
      /\ UNCHANGED <<overhears, clients, stopped, relay1>>
  BY DEF TimerExpires2
<1>2. Q1!RelayInv' /\ Stays(r1)
  BY <1>1, StaysUnchanged
<1>3. /\ Q2!RelayInv'
      /\ UNCHANGED <<flowTable2, received2, coded2>>
      /\ \/ UNCHANGED <<Q2!Held, forwarded2>>
         \/ \E q \in Q2!Held : /\ Q2!Held' = Q2!Held \ {q}
                               /\ forwarded2' = [forwarded2 EXCEPT ![q] = @ + 1]
  BY <1>1, Q2!TimerSeen, Bridge2, RelayAssumptions2, TimerAssumptions DEF RelaysAreSound
<1>4. /\ R2!Held = Q2!Held /\ R2!Held' = Q2!Held'
      /\ HeldAt(r2) = R2!Held /\ HeldAt(r2)' = R2!Held'
  BY Bridge2, FourNodes DEF HeldAt
<1>5. forwarded2 \in [Packet -> Nat]
  BY Q2!SeenFacts, RelayAssumptions2, TimerAssumptions DEF RelaysAreSound
<1>6. coded2' \ coded2 = {}
  BY <1>3
<1>7. IF r2 \in stopped
      THEN net' = net /\ Lost(alone)
      ELSE net' = net \cup {Data(r2, p) : p \in alone} /\ UNCHANGED gone
  BY <1>1, <1>6, BroadcastUnion DEF Transmit2, Transmit
<1>8. CASE UNCHANGED <<Q2!Held, forwarded2>>
  <2>1. alone = {}
    BY <1>5, <1>8
  <2>2. Lost({}) => gone' = gone
    BY DEF Lost
  <2>3. UNCHANGED <<net, gone>>
    BY <1>7, <2>1, <2>2
  <2>4. Stays(r2)
    BY <1>3, <1>4, <1>8, FourNodes DEF Stays, Received, Coded, Flows
  <2> QED
    BY <1>1, <1>2, <1>3, <2>3, <2>4 DEF RelaysAreSound
<1>9. ASSUME NEW q \in Q2!Held, Q2!Held' = Q2!Held \ {q},
             forwarded2' = [forwarded2 EXCEPT ![q] = @ + 1]
      PROVE  q \in Packet /\ LetsGo(r2, q)
  <2>1. q \in Packet
    BY <1>4, RelayFacts DEF Relay
  <2>2. alone = {q}
    BY <1>5, <1>9, <2>1
  <2>3. IF r2 \in stopped
        THEN net' = net /\ Lost({q})
        ELSE net' = net \cup {Data(r2, q)} /\ UNCHANGED gone
    BY <1>7, <2>2
  <2> QED
    BY <1>3, <1>4, <1>9, <2>1, <2>3, FourNodes DEF LetsGo, Received, Coded, Flows
<1> QED
  BY <1>1, <1>2, <1>3, <1>8, <1>9 DEF RelaysAreSound

LEMMA InstallEffect1 ==
    ASSUME RelaysAreSound, NEW c \in Client, ForwardRREP1(c)
    PROVE  /\ RelaysAreSound' /\ Stays(r2)
           /\ UNCHANGED <<HeldAt(r1), Received(r1), Coded(r1)>>
           /\ flowTable1' = flowTable1 \cup {Direction1(c)}
           /\ UNCHANGED <<overhears, clients, stopped, net, gone, flowTable2>>
<1>1. /\ R1!InstallFlow(Direction1(c))
      /\ UNCHANGED <<overhears, clients, stopped, net, gone, relay2>>
  BY DEF ForwardRREP1
<1>2. Q2!RelayInv' /\ Stays(r2)
  BY <1>1, StaysUnchanged
<1>3. Direction1(c) \in Q1!Direction
  BY DEF Direction1, Q1!Direction
<1>4. /\ Q1!RelayInv'
      /\ flowTable1' = flowTable1 \cup {Direction1(c)}
      /\ UNCHANGED <<Q1!Held, received1, forwarded1, coded1>>
  BY <1>1, <1>3, Q1!InstallSeen, Bridge1, RelayAssumptions1, TimerAssumptions
     DEF RelaysAreSound
<1>5. R1!Held' = R1!Held
  BY <1>4, Bridge1
<1> QED
  BY <1>1, <1>2, <1>4, <1>5, FourNodes
     DEF HeldAt, Received, Coded, RelaysAreSound, relay2

LEMMA InstallEffect2 ==
    ASSUME RelaysAreSound, NEW c \in Client, ForwardRREP2(c)
    PROVE  /\ RelaysAreSound' /\ Stays(r1)
           /\ UNCHANGED <<HeldAt(r2), Received(r2), Coded(r2)>>
           /\ flowTable2' = flowTable2 \cup {Direction2(c)}
           /\ UNCHANGED <<overhears, clients, stopped, net, gone, flowTable1>>
<1>1. /\ R2!InstallFlow(Direction2(c))
      /\ UNCHANGED <<overhears, clients, stopped, net, gone, relay1>>
  BY DEF ForwardRREP2
<1>2. Q1!RelayInv' /\ Stays(r1)
  BY <1>1, StaysUnchanged
<1>3. Direction2(c) \in Q2!Direction
  BY DEF Direction2, Q2!Direction
<1>4. /\ Q2!RelayInv'
      /\ flowTable2' = flowTable2 \cup {Direction2(c)}
      /\ UNCHANGED <<Q2!Held, received2, forwarded2, coded2>>
  BY <1>1, <1>3, Q2!InstallSeen, Bridge2, RelayAssumptions2, TimerAssumptions
     DEF RelaysAreSound
<1>5. R2!Held' = R2!Held
  BY <1>4, Bridge2
<1> QED
  BY <1>1, <1>2, <1>4, <1>5, FourNodes
     DEF HeldAt, Received, Coded, RelaysAreSound, relay1

-----------------------------------------------------------------------------
(* What a step does to the packets on the route. *)

Others(r) == \A o \in Relay \ {r} : Stays(o)
RelaysStay == \A o \in Relay : Stays(o)

Vanishes(m) ==
    /\ net' = net \ {m} /\ Lost(ForReceiver(m)) /\ RelaysStay
    /\ UNCHANGED clients

Rests ==
    /\ \A r \in Relay : UNCHANGED <<HeldAt(r), Received(r), Coded(r)>>
    /\ UNCHANGED <<net, gone, counted, sequenceNumber>>

GoneType == gone \in [Packet -> Nat] /\ \A m \in net : m.packets \subseteq Packet

LEMMA StepEffects ==
    ASSUME RelaysAreSound, GoneType, [Next]_vars
    PROVE  /\ RelaysAreSound' /\ UNCHANGED overhears
           /\ \/ \E c \in Client : SendData(c) /\ RelaysStay
              \/ \E m \in net : Vanishes(m)
              \/ \E m \in net : ReceiveAtClient(m) /\ RelaysStay
              \/ \E m \in net, r \in Relay, p \in Packet :
                    TakesIn(r, m, p) /\ Others(r) /\ UNCHANGED <<clients, gone>>
              \/ \E r \in Relay, q \in Packet :
                    LetsGo(r, q) /\ Others(r) /\ UNCHANGED clients
              \/ Rests
<1>1. ASSUME UNCHANGED <<relay1, relay2>> PROVE RelaysAreSound' /\ RelaysStay
  BY <1>1, StaysUnchanged DEF RelaysAreSound, RelaysStay, Relay
<1>2. (Stays(r1) => Others(r2)) /\ (Stays(r2) => Others(r1))
      /\ (Stays(r1) /\ Stays(r2) => RelaysStay)
  BY DEF Others, RelaysStay, Relay
<1>3. RelaysStay /\ UNCHANGED <<net, gone, counted, sequenceNumber>> => Rests
  BY DEF RelaysStay, Stays, Rests
<1>4. ASSUME NEW c \in Client, HandleRREP(c) \/ DataEventExpires(c)
      PROVE  SendData(c) /\ RelaysAreSound' /\ RelaysStay /\ UNCHANGED overhears
  <2>1. SendData(c)
    BY <1>4 DEF HandleRREP, DataEventExpires
  <2> QED
    BY <1>1, <2>1 DEF SendData
<1>5. ASSUME NEW m \in net, DropAtStopped(m) \/ Lose(m)
      PROVE  Vanishes(m) /\ RelaysAreSound' /\ UNCHANGED overhears
  BY <1>1, <1>5 DEF DropAtStopped, Lose, Vanishes
<1>6. ASSUME NEW m \in net, ReceiveAtClient(m)
      PROVE  RelaysAreSound' /\ RelaysStay /\ UNCHANGED overhears
  BY <1>1, <1>6 DEF ReceiveAtClient
<1>7. ASSUME NEW m \in net, ReceiveAtRelay1(m)
      PROVE  /\ RelaysAreSound' /\ UNCHANGED overhears
             /\ \E p \in Packet : TakesIn(r1, m, p) /\ Others(r1)
                                    /\ UNCHANGED <<clients, gone>>
  BY <1>2, <1>7, ReceiveEffect1 DEF GoneType
<1>8. ASSUME NEW m \in net, ReceiveAtRelay2(m)
      PROVE  /\ RelaysAreSound' /\ UNCHANGED overhears
             /\ \E p \in Packet : TakesIn(r2, m, p) /\ Others(r2)
                                    /\ UNCHANGED <<clients, gone>>
  BY <1>2, <1>8, ReceiveEffect2 DEF GoneType
<1>9. ASSUME TimerExpires1
      PROVE  /\ RelaysAreSound' /\ UNCHANGED overhears
             /\ \/ Rests
                \/ \E q \in Packet : LetsGo(r1, q) /\ Others(r1) /\ UNCHANGED clients
  BY <1>2, <1>3, <1>9, TimerEffect1 DEF GoneType, clients
<1>10. ASSUME TimerExpires2
       PROVE  /\ RelaysAreSound' /\ UNCHANGED overhears
              /\ \/ Rests
                 \/ \E q \in Packet : LetsGo(r2, q) /\ Others(r2) /\ UNCHANGED clients
  BY <1>2, <1>3, <1>10, TimerEffect2 DEF GoneType, clients
<1>11. ASSUME NEW c \in Client, ForwardRREP1(c) \/ ForwardRREP2(c)
       PROVE  RelaysAreSound' /\ UNCHANGED overhears /\ Rests
  BY <1>11, InstallEffect1, InstallEffect2 DEF Rests, Relay, Stays, clients
<1>12. ASSUME NEW group \in StopGroups, StopApplication(group)
       PROVE  RelaysAreSound' /\ UNCHANGED overhears /\ Rests
  BY <1>1, <1>3, <1>12 DEF StopApplication
<1>13. ASSUME UNCHANGED vars
       PROVE  RelaysAreSound' /\ UNCHANGED overhears /\ Rests
  BY <1>1, <1>3, <1>13 DEF vars, clients
<1>14. r1 \in Relay /\ r2 \in Relay
  BY DEF Relay
<1> QED
  BY <1>4, <1>5, <1>6, <1>7, <1>8, <1>9, <1>10, <1>11, <1>12, <1>13, <1>14
     DEF Next, HandleRead

-----------------------------------------------------------------------------
(* The inductive invariant. *)

\* Node n has sent packet p: the source counted it, the relay no longer holds it.
Left(n, p) == IF n \in Client THEN p.source = n /\ Sent(p)
                              ELSE p \in Received(n) \ HeldAt(n)

\* Every datagram was sent with what its sender let go.
DatagramsAreSound ==
    \A m \in net : \/ \E n \in Node, p \in Packet : Left(n, p) /\ m = Data(n, p)
                   \/ \E r \in Relay : \E c \in Coded(r) : m \in Broadcast(r, c)

\* A relay has received only what the hop before it has sent.
HopsAreInOrder == \A r \in Relay : \A p \in Received(r) : Left(HopBefore(r, p), p)

\* What is on its way to a relay is new there.
FreshAtRelays ==
    \A m \in net : m.to \in Relay => \A p \in ForReceiver(m) : p \notin Received(m.to)

OwnTypes ==
    /\ IsFiniteSet(net)
    /\ sequenceNumber \in [Client -> 0..MaxSequence]
    /\ counted \in [Packet -> [Node -> Nat]]
    /\ gone \in [Packet -> Nat]

PathInv ==
    /\ OwnTypes
    /\ RelaysAreSound
    /\ DatagramsAreSound
    /\ HopsAreInOrder
    /\ FreshAtRelays
    /\ PacketInOnePlace

LEMMA DataFacts ==
    ASSUME NEW p \in Packet, NEW n \in Node, n \in Client => p.source = n
    PROVE  /\ Data(n, p).from = n /\ Data(n, p).to = NextHop(n, p)
           /\ Data(n, p).packets = {p} /\ ForReceiver(Data(n, p)) = {p}
           /\ NextHop(n, p) \in Node
           /\ NextHop(n, p) \in Relay => HopBefore(NextHop(n, p), p) = n
           /\ NextHop(n, p) \in Client => Destination(p) = NextHop(n, p) /\ LastHop(p) = n
<1>1. NextHop(n, p) \in Node
  BY HopFacts DEF Node, Client
<1> QED
  BY <1>1, HopFacts, FourNodes DEF Data, ForReceiver, Node, Client, Relay

\* Of a coded pair one packet goes each way.
LEMMA BroadcastFacts ==
    ASSUME RelaysAreSound, NEW r \in Relay, NEW c \in Coded(r), NEW m \in Broadcast(r, c)
    PROVE  /\ m.from = r /\ m.to \in Neighbours(r) /\ m.to \in Node /\ m.to # r
           /\ m.packets = {c[1], c[2]} /\ c[1] \in Packet /\ c[2] \in Packet
           /\ m.to \in Relay => \E p \in m.packets : ForReceiver(m) = {p}
           /\ \A p \in m.packets : Left(r, p)
<1>1. PICK n \in Neighbours(r) : m = [from |-> r, to |-> n, packets |-> {c[1], c[2]}]
  BY DEF Broadcast
<1>2. /\ c[1] \in Packet /\ c[2] \in Packet /\ c[1] # c[2]
      /\ NextHop(r, c[1]) = HopBefore(r, c[2])
      /\ NextHop(r, c[2]) = HopBefore(r, c[1])
      /\ {c[1], c[2]} \subseteq Received(r) \ HeldAt(r)
  BY RelayFacts
<1>3. n \in Node /\ n # r
  BY FourNodes DEF Neighbours, Node, Relay
<1>4. r \notin Client
  BY FourNodes DEF Relay, Client
<1>5. ForReceiver(m) = {p \in {c[1], c[2]} : NextHop(r, p) = n}
  BY <1>1 DEF ForReceiver
<1>6. ASSUME n \in Relay
      PROVE  \/ NextHop(r, c[1]) = n /\ NextHop(r, c[2]) # n
             \/ NextHop(r, c[2]) = n /\ NextHop(r, c[1]) # n
  BY <1>2, <1>3, <1>6, HopFacts, FourNodes DEF Relay
<1>7. m.to \in Relay => \E p \in {c[1], c[2]} : ForReceiver(m) = {p}
  BY <1>1, <1>2, <1>5, <1>6
<1> QED
  BY <1>1, <1>2, <1>3, <1>4, <1>7 DEF Left

LEMMA DatagramFacts ==
    ASSUME RelaysAreSound, DatagramsAreSound, NEW m \in net
    PROVE  /\ m.from \in Node /\ m.to \in Node /\ m.packets \subseteq Packet
           /\ \A p \in m.packets : Left(m.from, p)
           /\ m.to \in Relay =>
                /\ \E p \in m.packets : ForReceiver(m) = {p}
                /\ \A p \in ForReceiver(m) : HopBefore(m.to, p) = m.from
           /\ m.to \in Client =>
                /\ m.from \in Relay
                /\ \A p \in m.packets : p \in ForReceiver(m) <=>
                                          Destination(p) = m.to /\ LastHop(p) = m.from
<1>1. CASE \E n \in Node, p \in Packet : Left(n, p) /\ m = Data(n, p)
  <2>1. PICK n \in Node, p \in Packet : Left(n, p) /\ m = Data(n, p)
    BY <1>1
  <2>2. n \in Client => p.source = n
    BY <2>1 DEF Left
  <2>3. NextHop(n, p) \in Client => n \in Relay
    BY <2>2, HopFacts, FourNodes DEF Node, Client, Relay
  <2> QED
    BY <2>1, <2>2, <2>3, DataFacts
<1>2. CASE \E r \in Relay : \E c \in Coded(r) : m \in Broadcast(r, c)
  <2>1. PICK r \in Relay : \E c \in Coded(r) : m \in Broadcast(r, c)
    BY <1>2
  <2>2. /\ m.from = r /\ m.to \in Neighbours(r) /\ m.to \in Node
        /\ m.packets \subseteq Packet
        /\ m.to \in Relay => \E p \in m.packets : ForReceiver(m) = {p}
        /\ \A p \in m.packets : Left(r, p)
    BY <2>1, BroadcastFacts
  <2>3. m.from \in Node
    BY <2>2 DEF Relay, Node
  <2>4. ASSUME NEW p \in m.packets
        PROVE  /\ m.to \in Relay /\ NextHop(r, p) = m.to => HopBefore(m.to, p) = r
               /\ m.to \in Client =>
                    (NextHop(r, p) = m.to <=> Destination(p) = m.to /\ LastHop(p) = r)
    BY <2>2, HopFacts, FourNodes DEF Relay, Client, Neighbours
  <2> QED
    BY <2>2, <2>3, <2>4 DEF ForReceiver
<1> QED
  BY <1>1, <1>2 DEF DatagramsAreSound

-----------------------------------------------------------------------------
(* Places of a packet. *)

OnAir(p) == {m \in net : p \in ForReceiver(m)}
AtRelay(r, p) == IF p \in HeldAt(r) THEN 1 ELSE 0
AtClient(p) == counted[p][LastHop(p)]

LEMMA PlacesSum ==
    ASSUME NEW p
    PROVE  /\ Places(p) = Cardinality(OnAir(p)) + AtRelay(r1, p) + AtRelay(r2, p)
                            + AtClient(p) + gone[p]
           /\ Places(p)' = Cardinality(OnAir(p)') + AtRelay(r1, p)' + AtRelay(r2, p)'
                             + AtClient(p)' + gone[p]'
BY FourNodes DEF Places, OnAir, AtRelay, AtClient, HeldAt

LEMMA PlacesParts ==
    ASSUME OwnTypes, NEW p \in Packet
    PROVE  /\ IsFiniteSet(OnAir(p)) /\ Cardinality(OnAir(p)) \in Nat
           /\ AtRelay(r1, p) \in {0, 1} /\ AtRelay(r2, p) \in {0, 1}
           /\ AtClient(p) \in Nat /\ gone[p] \in Nat
<1>1. OnAir(p) \subseteq net /\ IsFiniteSet(net)
  BY DEF OnAir, OwnTypes
<1>2. IsFiniteSet(OnAir(p)) /\ Cardinality(OnAir(p)) \in Nat
  BY <1>1, FS_Subset, FS_CardinalityType
<1>3. LastHop(p) \in Node
  BY DEF LastHop, Node
<1> QED
  BY <1>2, <1>3 DEF OwnTypes, AtClient, AtRelay

\* A sum of at most one: whatever place counts is the only one.
LEMMA OnlyPlace ==
    ASSUME OwnTypes, PacketInOnePlace, NEW p \in Packet
    PROVE  /\ ~ Sent(p) => OnAir(p) = {}
           /\ \A r \in Relay : p \in HeldAt(r) => Sent(p) /\ OnAir(p) = {}
           /\ \A m \in OnAir(p) : /\ Sent(p) /\ OnAir(p) = {m}
                                  /\ \A r \in Relay : p \notin HeldAt(r)
<1> DEFINE a == Cardinality(OnAir(p))
           h == AtRelay(r1, p)
           k == AtRelay(r2, p)
           c == AtClient(p)
           g == gone[p]
           s == IF Sent(p) THEN 1 ELSE 0
<1>1. a \in Nat /\ h \in {0, 1} /\ k \in {0, 1} /\ c \in Nat /\ g \in Nat
  BY PlacesParts
<1>2. a + h + k + c + g = s
  BY PlacesSum DEF PacketInOnePlace
<1>3. s \in {0, 1}
  OBVIOUS
<1>4. (a = 0 <=> OnAir(p) = {}) /\ (a = 1 => \E m : OnAir(p) = {m})
  BY PlacesParts, FS_EmptySet, FS_Singleton
<1>5. \A r \in Relay : p \in HeldAt(r) => h = 1 \/ k = 1
  BY DEF AtRelay, Relay
<1>6. Sent(p) <=> s = 1
  OBVIOUS
<1> HIDE DEF a, h, k, c, g, s
<1>7. /\ s = 0 => a = 0 /\ h = 0 /\ k = 0
      /\ h = 1 \/ k = 1 => s = 1 /\ a = 0
      /\ a # 0 => a = 1 /\ s = 1 /\ h = 0 /\ k = 0
  BY <1>1, <1>2, <1>3
<1>8. ~ Sent(p) => OnAir(p) = {}
  BY <1>3, <1>4, <1>6, <1>7
<1>9. \A r \in Relay : p \in HeldAt(r) => Sent(p) /\ OnAir(p) = {}
  BY <1>4, <1>5, <1>6, <1>7
<1>10. ASSUME NEW m \in OnAir(p)
       PROVE  Sent(p) /\ OnAir(p) = {m} /\ \A r \in Relay : p \notin HeldAt(r)
  BY <1>4, <1>5, <1>6, <1>7
<1> QED
  BY <1>8, <1>9, <1>10

LEMMA AirGains ==
    ASSUME OwnTypes, NEW p \in Packet, NEW m, OnAir(p) = {}, OnAir(p)' = {m}
    PROVE  Cardinality(OnAir(p)) = 0 /\ Cardinality(OnAir(p)') = 1
BY FS_EmptySet, FS_Singleton

LEMMA AirLoses ==
    ASSUME OwnTypes, PacketInOnePlace, NEW p \in Packet, NEW m \in OnAir(p),
           OnAir(p)' = OnAir(p) \ {m}
    PROVE  Cardinality(OnAir(p)) = 1 /\ Cardinality(OnAir(p)') = 0
<1>1. OnAir(p) = {m} /\ OnAir(p)' = {}
  BY OnlyPlace
<1> QED
  BY <1>1, FS_EmptySet, FS_Singleton

\* The copies at relays change by what the relay that acts gains or loses.
LEMMA RelayGains ==
    ASSUME NEW r \in Relay, Others(r), NEW p
    PROVE  AtRelay(r1, p)' + AtRelay(r2, p)' - AtRelay(r1, p) - AtRelay(r2, p) =
             AtRelay(r, p)' - AtRelay(r, p)
<1>1. ASSUME NEW o \in Relay, Stays(o) PROVE AtRelay(o, p)' = AtRelay(o, p)
  BY <1>1 DEF Stays, AtRelay
<1>2. \A o \in Relay : AtRelay(o, p) \in {0, 1} /\ AtRelay(o, p)' \in {0, 1}
  BY DEF AtRelay
<1> QED
  BY <1>1, <1>2, FourNodes DEF Others, Relay

-----------------------------------------------------------------------------
(* Finite sets of datagrams, and what grows with every step. *)

LEMMA FiniteImage ==
    ASSUME NEW S, IsFiniteSet(S), NEW f, DOMAIN f = S, f = [x \in S |-> f[x]]
    PROVE  IsFiniteSet({f[x] : x \in S})
<1> DEFINE T == {f[x] : x \in S}
<1>1. f \in Surjection(S, T)
  BY DEF Surjection
<1> QED
  BY <1>1, FS_Surjection

LEMMA PacketsAreFinite == IsFiniteSet(Packet)
<1> DEFINE S == Client \X (1..MaxSequence)
           f == [x \in S |-> [source |-> x[1], sequence |-> x[2]]]
<1>1. IsFiniteSet(1..MaxSequence)
  BY FS_Interval, DataPlaneAssumption
<1>2. IsFiniteSet({n0}) /\ Client = {n0} \cup {n1}
  BY FS_Singleton DEF Client
<1>3. IsFiniteSet(S)
  BY <1>1, <1>2, FS_AddElement, FS_Product
<1>4. IsFiniteSet({f[x] : x \in S})
  <2>1. DOMAIN f = S /\ f = [x \in S |-> f[x]]
    OBVIOUS
  <2> HIDE DEF f, S
  <2> QED
    BY <1>3, <2>1, FiniteImage
<1>5. Packet \subseteq {f[x] : x \in S}
  <2> SUFFICES ASSUME NEW p \in Packet PROVE p \in {f[x] : x \in S}
    OBVIOUS
  <2>1. /\ p = [source |-> p.source, sequence |-> p.sequence]
        /\ <<p.source, p.sequence>> \in S
    BY DEF Packet
  <2> QED
    BY <2>1
<1> QED
  BY <1>4, <1>5, FS_Subset

LEMMA DataIsFinite ==
    ASSUME NEW n, NEW P \in SUBSET Packet
    PROVE  IsFiniteSet({Data(n, p) : p \in P})
<1> DEFINE f == [p \in P |-> Data(n, p)]
<1>1. IsFiniteSet(P)
  BY PacketsAreFinite, FS_Subset
<1>2. IsFiniteSet({f[p] : p \in P})
  BY <1>1, FiniteImage
<1> QED
  BY <1>2

LEMMA BroadcastIsFinite ==
    ASSUME NEW r, NEW c
    PROVE  IsFiniteSet(Broadcast(r, c))
<1> DEFINE N == Neighbours(r)
           f == [n \in N |-> [from |-> r, to |-> n, packets |-> {c[1], c[2]}]]
<1>1. N \subseteq {n0, r1, r2, n1}
  BY DEF Neighbours
<1>2. IsFiniteSet({n0, r1, r2, n1})
  <2>1. IsFiniteSet({n0}) /\ {n0, r1} = {n0} \cup {r1}
    BY FS_Singleton
  <2>2. IsFiniteSet({n0, r1}) /\ {n0, r1, r2} = {n0, r1} \cup {r2}
    BY <2>1, FS_AddElement
  <2>3. IsFiniteSet({n0, r1, r2}) /\ {n0, r1, r2, n1} = {n0, r1, r2} \cup {n1}
    BY <2>2, FS_AddElement
  <2> QED
    BY <2>3, FS_AddElement
<1>3. IsFiniteSet({f[n] : n \in N})
  <2>1. DOMAIN f = N /\ f = [n \in N |-> f[n]]
    OBVIOUS
  <2>2. IsFiniteSet(N)
    BY <1>1, <1>2, FS_Subset
  <2> HIDE DEF f, N
  <2> QED
    BY <2>1, <2>2, FiniteImage
<1> QED
  BY <1>3 DEF Broadcast

\* SendData counts the packets of the burst, which no node has sent before.
LEMMA BurstFacts ==
    ASSUME OwnTypes, NEW c \in Client, SendData(c)
    PROVE  \E burst \in SUBSET Packet :
             /\ net' = net \cup {Data(c, p) : p \in burst}
             /\ \A p \in burst : p.source = c /\ ~ Sent(p)
             /\ \A p \in Packet : Sent(p)' <=> Sent(p) \/ p \in burst
             /\ UNCHANGED <<counted, gone>>
<1> DEFINE last == sequenceNumber[c] + Rate
           burst == {p \in Packet : p.source = c /\ sequenceNumber[c] < p.sequence
                                                 /\ p.sequence <= last}
<1>1. /\ sequenceNumber' = [sequenceNumber EXCEPT ![c] = last]
      /\ net' = net \cup {Data(c, p) : p \in burst}
      /\ UNCHANGED <<counted, gone>>
  BY DEF SendData
<1>2. \A k \in Client : sequenceNumber[k] \in Nat
  BY DataPlaneAssumption DEF OwnTypes
<1>3. \A p \in Packet : p.source \in Client /\ p.sequence \in Nat
  BY DataPlaneAssumption DEF Packet
<1>4. Rate \in Nat
  BY DataPlaneAssumption
<1>5. \A p \in burst : p.source = c /\ ~ Sent(p)
  BY <1>2, <1>3 DEF Sent
<1>6. ASSUME NEW p \in Packet PROVE Sent(p)' <=> Sent(p) \/ p \in burst
  <2>1. CASE p.source = c
    <3>1. sequenceNumber'[p.source] = last
      BY <1>1, <2>1 DEF OwnTypes
    <3> QED
      BY <1>2, <1>3, <1>4, <2>1, <3>1 DEF Sent
  <2>2. CASE p.source # c
    BY <1>1, <1>3, <2>2 DEF Sent, OwnTypes
  <2> QED
    BY <2>1, <2>2
<1> QED
  BY <1>1, <1>5, <1>6

Grows ==
    /\ \A r \in Relay : /\ Received(r) \ HeldAt(r) \subseteq Received(r)' \ HeldAt(r)'
                        /\ Coded(r) \subseteq Coded(r)'
    /\ \A p \in Packet : Sent(p) => Sent(p)'

LEMMA InvGoneType == PathInv => GoneType
BY DatagramFacts DEF PathInv, OwnTypes, GoneType

LEMMA StepGrows ==
    ASSUME PathInv, [Next]_vars
    PROVE  Grows
<1>1. \A r \in Relay : HeldAt(r) \subseteq Received(r)
  BY RelayFacts DEF PathInv
<1>2. UNCHANGED sequenceNumber => \A p \in Packet : Sent(p) => Sent(p)'
  BY DEF Sent
<1>3. ASSUME NEW r \in Relay, Stays(r)
      PROVE  /\ Received(r) \ HeldAt(r) \subseteq Received(r)' \ HeldAt(r)'
             /\ Coded(r) \subseteq Coded(r)'
  BY <1>3 DEF Stays
<1>4. ASSUME NEW c \in Client, SendData(c), RelaysStay PROVE Grows
  <2>1. \A p \in Packet : Sent(p) => Sent(p)'
    BY <1>4, BurstFacts DEF PathInv
  <2> QED
    BY <1>3, <1>4, <2>1 DEF RelaysStay, Grows
<1>5. ASSUME NEW m \in net, Vanishes(m) \/ (ReceiveAtClient(m) /\ RelaysStay) PROVE Grows
  BY <1>2, <1>3, <1>5 DEF Vanishes, ReceiveAtClient, RelaysStay, clients, Grows
<1>6. ASSUME NEW m \in net, NEW r \in Relay, NEW p \in Packet, TakesIn(r, m, p),
             Others(r), UNCHANGED clients
      PROVE  Grows
  <2>1. /\ Received(r) \ HeldAt(r) \subseteq Received(r)' \ HeldAt(r)'
        /\ Coded(r) \subseteq Coded(r)'
    BY <1>1, <1>6 DEF TakesIn
  <2> QED
    BY <1>2, <1>3, <1>6, <2>1 DEF Others, clients, Grows
<1>7. ASSUME NEW r \in Relay, NEW q \in Packet, LetsGo(r, q), Others(r), UNCHANGED clients
      PROVE  Grows
  <2>1. /\ Received(r) \ HeldAt(r) \subseteq Received(r)' \ HeldAt(r)'
        /\ Coded(r) \subseteq Coded(r)'
    BY <1>7 DEF LetsGo
  <2> QED
    BY <1>2, <1>3, <1>7, <2>1 DEF Others, clients, Grows
<1>8. Rests => Grows
  BY <1>2 DEF Rests, Grows
<1> QED
  BY <1>4, <1>5, <1>6, <1>7, <1>8, InvGoneType, StepEffects DEF PathInv

LEMMA LeftStays ==
    ASSUME Grows, NEW n \in Node, NEW p \in Packet, Left(n, p)
    PROVE  Left(n, p)'
<1>1. n \in Client \/ n \in Relay
  BY DEF Node, Client, Relay
<1> QED
  BY <1>1 DEF Left, Grows

-----------------------------------------------------------------------------
(* Each part of the invariant is kept. *)

\* What was on the air stays sound.
LEMMA OldDatagrams ==
    ASSUME DatagramsAreSound, Grows, UNCHANGED overhears, NEW m \in net
    PROVE  \/ \E n \in Node, p \in Packet : Left(n, p)' /\ m = Data(n, p)
           \/ \E r \in Relay : \E c \in Coded(r)' : m \in Broadcast(r, c)'
<1>1. \A r, c : Broadcast(r, c)' = Broadcast(r, c)
  BY DEF Broadcast, Neighbours
<1> QED
  BY <1>1, LeftStays DEF DatagramsAreSound, Grows

LEMMA NextDatagrams ==
    ASSUME PathInv, [Next]_vars
    PROVE  DatagramsAreSound'
<1> DEFINE S(m) == \/ \E n \in Node, p \in Packet : Left(n, p)' /\ m = Data(n, p)
                   \/ \E r \in Relay : \E c \in Coded(r)' : m \in Broadcast(r, c)'
<1>1. Grows /\ UNCHANGED overhears
  BY StepGrows, StepEffects, InvGoneType DEF PathInv
<1>2. \A m \in net : S(m)
  BY <1>1, OldDatagrams DEF PathInv
<1>3. \A r, c : Broadcast(r, c)' = Broadcast(r, c)
  BY <1>1 DEF Broadcast, Neighbours
<1>4. SUFFICES ASSUME NEW m \in net' \ net PROVE S(m)
  BY <1>2 DEF DatagramsAreSound, Data, NextHop
<1>5. ASSUME NEW c \in Client, SendData(c) PROVE S(m)
  <2>1. PICK burst \in SUBSET Packet :
             /\ net' = net \cup {Data(c, p) : p \in burst}
             /\ \A p \in burst : p.source = c
             /\ \A p \in burst : Sent(p)'
    BY <1>5, BurstFacts DEF PathInv
  <2>2. PICK p \in burst : m = Data(c, p)
    BY <1>4, <2>1
  <2>3. Left(c, p)' /\ c \in Node
    BY <2>1 DEF Left, Client, Node
  <2> QED
    BY <2>2, <2>3
<1>6. ASSUME NEW k \in net, NEW r \in Relay, NEW p \in Packet, TakesIn(r, k, p)
      PROVE  S(m)
  <2>1. PICK q \in HeldAt(r) : /\ Coded(r)' = Coded(r) \cup {<<q, p>>}
                               /\ net' = (net \ {k}) \cup Broadcast(r, <<q, p>>)
    BY <1>4, <1>6 DEF TakesIn
  <2>2. m \in Broadcast(r, <<q, p>>) /\ <<q, p>> \in Coded(r)'
    BY <1>4, <2>1
  <2> QED
    BY <1>3, <2>2
<1>7. ASSUME NEW r \in Relay, NEW q \in Packet, LetsGo(r, q) PROVE S(m)
  <2>1. m = Data(r, q)
    BY <1>4, <1>7 DEF LetsGo
  <2>2. q \in Received(r)' \ HeldAt(r)'
    BY <1>7, RelayFacts DEF LetsGo, PathInv
  <2>3. Left(r, q)' /\ r \in Node
    BY <2>2, FourNodes DEF Left, Client, Node, Relay
  <2> QED
    BY <2>1, <2>3
<1> QED
  BY <1>4, <1>5, <1>6, <1>7, InvGoneType, StepEffects
     DEF PathInv, Vanishes, ReceiveAtClient, Rests

LEMMA NextHopsInOrder ==
    ASSUME PathInv, [Next]_vars
    PROVE  HopsAreInOrder'
<1>1. Grows
  BY StepGrows
<1>2. ASSUME NEW r \in Relay, NEW p \in Received(r) PROVE Left(HopBefore(r, p), p)'
  <2>1. p \in Packet /\ HopBefore(r, p) \in Node
    BY <1>2, RelayFacts, HopFacts DEF PathInv, Node, Relay
  <2> QED
    BY <1>1, <1>2, <2>1, LeftStays DEF PathInv, HopsAreInOrder
<1>3. ASSUME NEW m \in net, NEW r \in Relay, NEW p \in Packet, TakesIn(r, m, p)
      PROVE  Left(HopBefore(r, p), p)'
  <2>1. m.to = r /\ p \in ForReceiver(m)
    BY <1>3 DEF TakesIn
  <2>2. HopBefore(r, p) = m.from /\ Left(m.from, p) /\ m.from \in Node
    BY <1>3, <2>1, DatagramFacts DEF PathInv, ForReceiver
  <2> QED
    BY <1>1, <2>2, LeftStays
<1>4. \A r \in Relay : \A p : HopBefore(r, p)' = HopBefore(r, p)
  BY DEF HopBefore
<1>5. \/ \A r \in Relay : Received(r)' = Received(r)
      \/ \E m \in net, r \in Relay, p \in Packet : TakesIn(r, m, p) /\ Others(r)
  BY InvGoneType, StepEffects
     DEF PathInv, RelaysStay, Vanishes, Rests, LetsGo, Others, Stays
<1>6. CASE \A r \in Relay : Received(r)' = Received(r)
  BY <1>2, <1>6 DEF HopsAreInOrder
<1>7. ASSUME NEW m \in net, NEW r \in Relay, NEW p \in Packet, TakesIn(r, m, p), Others(r)
      PROVE  HopsAreInOrder'
  <2>1. /\ Received(r)' = Received(r) \cup {p}
        /\ \A o \in Relay \ {r} : Received(o)' = Received(o)
    BY <1>7 DEF TakesIn, Others, Stays
  <2> QED
    BY <1>2, <1>3, <1>7, <2>1 DEF HopsAreInOrder
<1> QED
  BY <1>5, <1>6, <1>7

\* What a node has not sent the next hop has not received.
LEMMA NotAheadOfHop ==
    ASSUME PathInv, NEW n \in Node, NEW p \in Packet, n \in Client => p.source = n,
           ~ Left(n, p), NextHop(n, p) \in Relay
    PROVE  p \notin Received(NextHop(n, p))
<1>1. HopBefore(NextHop(n, p), p) = n
  BY DataFacts
<1> QED
  BY <1>1 DEF PathInv, HopsAreInOrder

LEMMA NextFresh ==
    ASSUME PathInv, [Next]_vars
    PROVE  FreshAtRelays'
<1> SUFFICES ASSUME NEW m \in net', m.to \in Relay, NEW x \in ForReceiver(m)
             PROVE  x \notin Received(m.to)'
  BY DEF FreshAtRelays, ForReceiver, NextHop
<1>1. \A k \in net : k.to \in Relay => \A y \in ForReceiver(k) : y \notin Received(k.to)
  BY DEF PathInv, FreshAtRelays
<1>2. ASSUME \A r \in Relay : Received(r)' = Received(r), m \in net
      PROVE  x \notin Received(m.to)'
  BY <1>1, <1>2
<1>3. ASSUME NEW c \in Client, SendData(c), RelaysStay, m \notin net
      PROVE  x \notin Received(m.to)'
  <2>1. PICK burst \in SUBSET Packet :
             /\ net' = net \cup {Data(c, p) : p \in burst}
             /\ \A p \in burst : p.source = c /\ ~ Sent(p)
    BY <1>3, BurstFacts DEF PathInv
  <2>2. PICK p \in burst : m = Data(c, p)
    BY <1>3, <2>1
  <2>3. ~ Left(c, p) /\ c \in Node /\ p.source = c
    BY <2>1 DEF Left, Client, Node
  <2>4. x = p /\ m.to = NextHop(c, p)
    BY <2>2, <2>3, DataFacts
  <2>5. p \notin Received(m.to)
    BY <2>3, <2>4, NotAheadOfHop
  <2> QED
    BY <1>3, <2>4, <2>5 DEF RelaysStay, Stays
<1>4. ASSUME NEW r \in Relay, NEW q \in Packet, LetsGo(r, q), Others(r), m \notin net
      PROVE  x \notin Received(m.to)'
  <2>1. m = Data(r, q) /\ q \in HeldAt(r)
    BY <1>4 DEF LetsGo
  <2>2. ~ Left(r, q) /\ r \in Node /\ r \notin Client
    BY <2>1, FourNodes DEF Left, Node, Relay, Client
  <2>3. x = q /\ m.to = NextHop(r, q)
    BY <2>1, <2>2, DataFacts
  <2>4. q \notin Received(m.to)
    BY <2>2, <2>3, NotAheadOfHop
  <2> QED
    BY <1>4, <2>3, <2>4 DEF LetsGo, Others, Stays
<1>5. ASSUME NEW k \in net, NEW r \in Relay, NEW p \in Packet, TakesIn(r, k, p), Others(r)
      PROVE  x \notin Received(m.to)'
  <2>1. /\ p \in ForReceiver(k) /\ k.to = r /\ p \notin Received(r)
        /\ Received(r)' = Received(r) \cup {p}
        /\ \A o \in Relay \ {r} : Received(o)' = Received(o)
    BY <1>5 DEF TakesIn, Others, Stays
  <2>2. CASE m \in net /\ m # k
    <3>1. x \notin Received(m.to)
      BY <1>1, <2>2
    <3>2. ~ (m.to = r /\ x = p)
      <4>1. k \in OnAir(p) /\ OnAir(p) = {k}
        BY <2>1, OnlyPlace DEF PathInv, OnAir
      <4> QED
        BY <2>2, <4>1 DEF OnAir
    <3> QED
      BY <2>1, <3>1, <3>2
  <2>3. CASE ~ (m \in net /\ m # k)
    <3>1. PICK q \in HeldAt(r) : /\ net' = (net \ {k}) \cup Broadcast(r, <<q, p>>)
                                 /\ NextHop(r, q) = HopBefore(r, p)
                                 /\ NextHop(r, p) = HopBefore(r, q)
      BY <1>5, <2>3 DEF TakesIn
    <3>2. PICK n \in Neighbours(r) : m = [from |-> r, to |-> n, packets |-> {q, p}]
      BY <2>3, <3>1 DEF Broadcast
    <3>3. x \in {q, p} /\ m.to = NextHop(r, x) /\ m.to # r
      BY <3>2, FourNodes DEF ForReceiver, Neighbours, Relay
    <3>4. q \in Packet /\ HeldAt(r) \subseteq Received(r)
      BY RelayFacts DEF PathInv
    <3>5. ~ Left(r, x) /\ r \in Node /\ r \notin Client
      BY <2>1, <3>3, <3>4, FourNodes DEF Left, Node, Relay, Client
    <3>6. x \notin Received(m.to)
      BY <3>3, <3>4, <3>5, NotAheadOfHop
    <3> QED
      BY <2>1, <3>3, <3>6
  <2> QED
    BY <2>2, <2>3
<1>6. ASSUME NEW k \in net, Vanishes(k) \/ (ReceiveAtClient(k) /\ RelaysStay)
      PROVE  m \in net /\ \A r \in Relay : Received(r)' = Received(r)
  BY <1>6 DEF Vanishes, ReceiveAtClient, RelaysStay, Stays
<1>7. ASSUME Rests PROVE m \in net /\ \A r \in Relay : Received(r)' = Received(r)
  BY <1>7 DEF Rests
<1>8. RelaysStay => \A r \in Relay : Received(r)' = Received(r)
  BY DEF RelaysStay, Stays
<1>9. ASSUME NEW r \in Relay, NEW q \in Packet, LetsGo(r, q), Others(r)
      PROVE  \A o \in Relay : Received(o)' = Received(o)
  BY <1>9 DEF LetsGo, Others, Stays
<1> QED
  BY <1>2, <1>3, <1>4, <1>5, <1>6, <1>7, <1>8, <1>9, InvGoneType, StepEffects DEF PathInv

LEMMA NextOwnTypes ==
    ASSUME PathInv, [Next]_vars
    PROVE  OwnTypes'
<1>1. OwnTypes
  BY DEF PathInv
<1>2. \A m \in net : IsFiniteSet(net \ {m})
  BY <1>1, FS_RemoveElement DEF OwnTypes
<1>3. ASSUME NEW P, Lost(P) PROVE gone' \in [Packet -> Nat]
  BY <1>1, <1>3 DEF Lost, OwnTypes
<1>4. ASSUME NEW c \in Client, SendData(c) PROVE OwnTypes'
  <2>1. PICK burst \in SUBSET Packet : net' = net \cup {Data(c, p) : p \in burst}
    BY <1>1, <1>4, BurstFacts
  <2>2. IsFiniteSet(net')
    BY <1>1, <2>1, DataIsFinite, FS_Union DEF OwnTypes
  <2>3. /\ sequenceNumber[c] + Rate \in 0..MaxSequence
        /\ sequenceNumber' = [sequenceNumber EXCEPT ![c] = sequenceNumber[c] + Rate]
        /\ UNCHANGED <<counted, gone>>
    BY <1>1, <1>4, DataPlaneAssumption DEF SendData, OwnTypes
  <2> QED
    BY <1>1, <2>2, <2>3 DEF OwnTypes
<1>5. ASSUME NEW m \in net, Vanishes(m) PROVE OwnTypes'
  BY <1>1, <1>2, <1>3, <1>5 DEF Vanishes, OwnTypes, clients
<1>6. ASSUME NEW m \in net, ReceiveAtClient(m) PROVE OwnTypes'
  <2>1. counted' \in [Packet -> [Node -> Nat]]
    <3>1. m.from \in Node
      BY <1>6, DatagramFacts DEF PathInv
    <3>2. ASSUME NEW p \in Packet
          PROVE  [counted[p] EXCEPT ![m.from] =
                    @ + (IF p \in m.packets /\ Destination(p) = m.to THEN 1 ELSE 0)]
                   \in [Node -> Nat]
      <4>1. counted[p] \in [Node -> Nat]
        BY <1>1 DEF OwnTypes
      <4> QED
        BY <3>1, <4>1
    <3> QED
      BY <1>6, <3>2 DEF ReceiveAtClient, CountOwn
  <2> QED
    BY <1>1, <1>2, <1>6, <2>1 DEF ReceiveAtClient, OwnTypes
<1>7. ASSUME NEW m \in net, NEW r \in Relay, NEW p \in Packet, TakesIn(r, m, p),
             UNCHANGED <<clients, gone>>
      PROVE  OwnTypes'
  <2>1. IsFiniteSet(net')
    <3>1. /\ IsFiniteSet(net \ {m})
          /\ \A q : IsFiniteSet(Broadcast(r, <<q, p>>))
      BY <1>2, BroadcastIsFinite
    <3>2. \A q : IsFiniteSet((net \ {m}) \cup Broadcast(r, <<q, p>>))
      BY <3>1, FS_Union
    <3>3. CASE net' = net \ {m}
      BY <3>1, <3>3
    <3>4. CASE \E q \in HeldAt(r) : net' = (net \ {m}) \cup Broadcast(r, <<q, p>>)
      BY <3>2, <3>4
    <3>5. \/ net' = net \ {m}
          \/ \E q \in HeldAt(r) : net' = (net \ {m}) \cup Broadcast(r, <<q, p>>)
      BY <1>7 DEF TakesIn
    <3> QED
      BY <3>3, <3>4, <3>5
  <2> QED
    BY <1>1, <1>7, <2>1 DEF OwnTypes, clients
<1>8. ASSUME NEW r \in Relay, NEW q \in Packet, LetsGo(r, q), UNCHANGED clients
      PROVE  OwnTypes'
  <2>1. IsFiniteSet(net') /\ gone' \in [Packet -> Nat]
    BY <1>1, <1>3, <1>8, FS_AddElement DEF LetsGo, OwnTypes
  <2> QED
    BY <1>1, <1>8, <2>1 DEF OwnTypes, clients
<1>9. Rests => OwnTypes'
  BY <1>1 DEF Rests, OwnTypes
<1> QED
  BY <1>4, <1>5, <1>6, <1>7, <1>8, <1>9, InvGoneType, StepEffects DEF PathInv

-----------------------------------------------------------------------------
(* A packet moves from one place to the next. *)

LEMMA RelaysKeep ==
    ASSUME RelaysStay, NEW p
    PROVE  AtRelay(r1, p)' = AtRelay(r1, p) /\ AtRelay(r2, p)' = AtRelay(r2, p)
BY DEF RelaysStay, Stays, AtRelay, Relay

LEMMA SendPlaces ==
    ASSUME PathInv, NEW c \in Client, SendData(c), RelaysStay, NEW x \in Packet
    PROVE  Places(x)' = IF Sent(x)' THEN 1 ELSE 0
<1>1. PICK burst \in SUBSET Packet :
         /\ net' = net \cup {Data(c, p) : p \in burst}
         /\ \A p \in burst : p.source = c /\ ~ Sent(p)
         /\ \A p \in Packet : Sent(p)' <=> Sent(p) \/ p \in burst
         /\ UNCHANGED <<counted, gone>>
  BY BurstFacts DEF PathInv
<1>2. \A p \in burst : ForReceiver(Data(c, p)) = {p}
  BY <1>1, DataFacts DEF Client, Node
<1>3. OnAir(x)' = OnAir(x) \cup (IF x \in burst THEN {Data(c, x)} ELSE {})
  <2>1. OnAir(x)' = {m \in net' : x \in ForReceiver(m)}
    BY DEF OnAir, ForReceiver, NextHop
  <2> QED
    BY <1>1, <1>2, <2>1 DEF OnAir
<1>4. UNCHANGED <<AtClient(x), gone[x], AtRelay(r1, x), AtRelay(r2, x)>>
  BY <1>1, RelaysKeep DEF AtClient, LastHop
<1>5. Places(x) = IF Sent(x) THEN 1 ELSE 0
  BY DEF PathInv, PacketInOnePlace
<1>6. CASE x \in burst
  <2>1. OnAir(x) = {} /\ OnAir(x)' = {Data(c, x)} /\ ~ Sent(x) /\ Sent(x)'
    BY <1>1, <1>3, <1>6, OnlyPlace DEF PathInv
  <2>2. Cardinality(OnAir(x)) = 0 /\ Cardinality(OnAir(x)') = 1
    BY <2>1, AirGains DEF PathInv
  <2>3. /\ AtRelay(r1, x) \in {0, 1} /\ AtRelay(r2, x) \in {0, 1}
        /\ AtClient(x) \in Nat /\ gone[x] \in Nat
    BY PlacesParts DEF PathInv
  <2>4. Places(x)' = Places(x) + 1
    BY <1>4, <2>2, <2>3, PlacesSum
  <2> QED
    BY <1>5, <2>1, <2>4
<1>7. CASE x \notin burst
  <2>1. OnAir(x)' = OnAir(x) /\ (Sent(x)' <=> Sent(x))
    BY <1>1, <1>3, <1>7
  <2> QED
    BY <1>4, <1>5, <2>1, PlacesSum
<1> QED
  BY <1>6, <1>7

LEMMA VanishPlaces ==
    ASSUME PathInv, NEW m \in net, Vanishes(m), NEW x \in Packet
    PROVE  Places(x)' = IF Sent(x)' THEN 1 ELSE 0
<1>1. /\ net' = net \ {m} /\ UNCHANGED <<AtRelay(r1, x), AtRelay(r2, x)>>
      /\ UNCHANGED <<counted, sequenceNumber>> /\ Lost(ForReceiver(m))
  BY RelaysKeep DEF Vanishes, clients
<1>2. OnAir(x)' = OnAir(x) \ {m} /\ (x \in ForReceiver(m) <=> m \in OnAir(x))
  BY <1>1 DEF OnAir, ForReceiver, NextHop
<1>3. UNCHANGED AtClient(x) /\ (Sent(x)' <=> Sent(x))
  BY <1>1 DEF AtClient, LastHop, Sent
<1>4. gone'[x] = gone[x] + (IF x \in ForReceiver(m) THEN 1 ELSE 0)
  BY <1>1 DEF Lost
<1>5. Places(x) = IF Sent(x) THEN 1 ELSE 0
  BY DEF PathInv, PacketInOnePlace
<1>6. CASE m \in OnAir(x)
  <2>1. Cardinality(OnAir(x)) = 1 /\ Cardinality(OnAir(x)') = 0
    BY <1>2, <1>6, AirLoses DEF PathInv
  <2>2. gone'[x] = gone[x] + 1
    BY <1>2, <1>4, <1>6
  <2> QED
    BY <1>1, <1>3, <1>5, <2>1, <2>2, PlacesSum, PlacesParts DEF PathInv
<1>7. CASE m \notin OnAir(x)
  <2>1. OnAir(x)' = OnAir(x) /\ gone'[x] = gone[x]
    BY <1>2, <1>4, <1>7, PlacesParts DEF PathInv
  <2> QED
    BY <1>1, <1>3, <1>5, <2>1, PlacesSum
<1> QED
  BY <1>6, <1>7

LEMMA ClientPlaces ==
    ASSUME PathInv, NEW m \in net, ReceiveAtClient(m), RelaysStay, NEW x \in Packet
    PROVE  Places(x)' = IF Sent(x)' THEN 1 ELSE 0
<1>1. /\ net' = net \ {m} /\ UNCHANGED <<AtRelay(r1, x), AtRelay(r2, x)>>
      /\ UNCHANGED <<gone, sequenceNumber>> /\ CountOwn(m) /\ m.to \in Client
  BY RelaysKeep DEF ReceiveAtClient
<1>2. OnAir(x)' = OnAir(x) \ {m} /\ (x \in ForReceiver(m) <=> m \in OnAir(x))
  BY <1>1 DEF OnAir, ForReceiver, NextHop
<1>3. Sent(x)' <=> Sent(x)
  BY <1>1 DEF Sent
<1>4. /\ m.from \in Node
      /\ x \in ForReceiver(m) <=> /\ x \in m.packets
                                  /\ Destination(x) = m.to /\ LastHop(x) = m.from
  BY <1>1, DatagramFacts DEF PathInv, ForReceiver
<1>5. counted \in [Packet -> [Node -> Nat]] /\ LastHop(x) \in Node
  BY DEF PathInv, OwnTypes, LastHop, Node
<1>6. AtClient(x)' = AtClient(x) + (IF x \in ForReceiver(m) THEN 1 ELSE 0)
  <2>1. counted'[x] = [counted[x] EXCEPT
                         ![m.from] = @ + (IF x \in m.packets /\ Destination(x) = m.to
                                          THEN 1 ELSE 0)]
    BY <1>1 DEF CountOwn
  <2>2. counted[x] \in [Node -> Nat] /\ AtClient(x)' = counted'[x][LastHop(x)]
    BY <1>5 DEF AtClient, LastHop
  <2> QED
    BY <1>4, <1>5, <2>1, <2>2 DEF AtClient
<1>7. Places(x) = IF Sent(x) THEN 1 ELSE 0
  BY DEF PathInv, PacketInOnePlace
<1>8. CASE m \in OnAir(x)
  <2>1. Cardinality(OnAir(x)) = 1 /\ Cardinality(OnAir(x)') = 0
    BY <1>2, <1>8, AirLoses DEF PathInv
  <2>2. AtClient(x)' = AtClient(x) + 1
    BY <1>2, <1>6, <1>8
  <2> QED
    BY <1>1, <1>3, <1>7, <2>1, <2>2, PlacesSum, PlacesParts DEF PathInv
<1>9. CASE m \notin OnAir(x)
  <2>1. OnAir(x)' = OnAir(x) /\ AtClient(x)' = AtClient(x)
    BY <1>2, <1>6, <1>9, PlacesParts DEF PathInv
  <2> QED
    BY <1>1, <1>3, <1>7, <2>1, PlacesSum
<1> QED
  BY <1>8, <1>9

\* Every packet of a coded pair reaches its next hop in one of the broadcast copies.
LEMMA BroadcastAir ==
    ASSUME NEW r \in Relay, NEW q \in Packet, NEW p \in Packet, NEW x \in Packet
    PROVE  {k \in Broadcast(r, <<q, p>>) : x \in ForReceiver(k)} =
             IF x \in {q, p}
             THEN {[from |-> r, to |-> NextHop(r, x), packets |-> {q, p}]} ELSE {}
<1>1. NextHop(r, x) \in Neighbours(r)
  BY HopFacts, FourNodes DEF Neighbours, Relay
<1>2. Broadcast(r, <<q, p>>) =
        {[from |-> r, to |-> n, packets |-> {q, p}] : n \in Neighbours(r)}
  BY DEF Broadcast
<1>3. \A n : x \in ForReceiver([from |-> r, to |-> n, packets |-> {q, p}])
               <=> x \in {q, p} /\ NextHop(r, x) = n
  BY DEF ForReceiver
<1> QED
  BY <1>1, <1>2, <1>3

\* What leaves one place of a packet turns up in another.
LEMMA Balanced ==
    ASSUME PathInv, NEW r \in Relay, Others(r), NEW x \in Packet,
           UNCHANGED <<sequenceNumber, counted>>,
           Cardinality(OnAir(x)') \in Nat, gone'[x] \in Nat,
           Cardinality(OnAir(x)') + AtRelay(r, x)' + gone'[x] =
             Cardinality(OnAir(x)) + AtRelay(r, x) + gone[x]
    PROVE  Places(x)' = IF Sent(x)' THEN 1 ELSE 0
<1> DEFINE a == Cardinality(OnAir(x))
           b == Cardinality(OnAir(x)')
           h1 == AtRelay(r1, x)
           k1 == AtRelay(r1, x)'
           h2 == AtRelay(r2, x)
           k2 == AtRelay(r2, x)'
           h == AtRelay(r, x)
           k == AtRelay(r, x)'
           c == AtClient(x)
           P == Places(x)
           Q == Places(x)'
<1>1. UNCHANGED AtClient(x) /\ (Sent(x)' <=> Sent(x))
  BY DEF AtClient, LastHop, Sent
<1>2. P = IF Sent(x) THEN 1 ELSE 0
  BY DEF PathInv, PacketInOnePlace
<1>3. k1 + k2 - h1 - h2 = k - h
  BY RelayGains
<1>4. h1 \in {0, 1} /\ h2 \in {0, 1} /\ k1 \in {0, 1} /\ k2 \in {0, 1}
      /\ h \in {0, 1} /\ k \in {0, 1}
  BY DEF AtRelay
<1>5. c \in Nat /\ gone[x] \in Nat /\ a \in Nat
  BY PlacesParts DEF PathInv
<1>6. P = a + h1 + h2 + c + gone[x] /\ Q = b + k1 + k2 + AtClient(x)' + gone'[x]
  BY PlacesSum
<1>7. b \in Nat /\ gone'[x] \in Nat /\ b + k + gone'[x] = a + h + gone[x]
      /\ AtClient(x)' = c
  BY <1>1
<1> HIDE DEF a, b, h1, h2, k1, k2, h, k, c, P, Q
<1>8. Q = P
  BY <1>3, <1>4, <1>5, <1>6, <1>7
<1> QED
  BY <1>1, <1>2, <1>8 DEF Q

LEMMA TakePlaces ==
    ASSUME PathInv, NEW m \in net, NEW r \in Relay, NEW p \in Packet, TakesIn(r, m, p),
           Others(r), UNCHANGED <<clients, gone>>, NEW x \in Packet
    PROVE  Places(x)' = IF Sent(x)' THEN 1 ELSE 0
<1>1. /\ p \in ForReceiver(m) /\ p \notin Received(r) /\ m.to = r /\ m \in OnAir(p)
      /\ UNCHANGED <<sequenceNumber, counted, gone>>
  BY DEF TakesIn, clients, OnAir
<1>2. ForReceiver(m) = {p}
  <2>1. \E y \in m.packets : ForReceiver(m) = {y}
    BY <1>1, DatagramFacts DEF PathInv
  <2> QED
    BY <1>1, <2>1
<1>3. OnAir(p) = {m} /\ p \notin HeldAt(r)
  BY <1>1, OnlyPlace DEF PathInv
<1>4. x # p => m \notin OnAir(x)
  BY <1>2 DEF OnAir
<1>5. gone[x] \in Nat /\ Cardinality(OnAir(x)) \in Nat
  BY PlacesParts DEF PathInv
<1>6. \A k : (x \in ForReceiver(k))' <=> x \in ForReceiver(k)
  BY DEF ForReceiver, NextHop
<1>7. ASSUME NEW a \in Nat, NEW b \in Nat, Cardinality(OnAir(x)) = a,
             Cardinality(OnAir(x)') = b, b + AtRelay(r, x)' = a + AtRelay(r, x)
      PROVE  Places(x)' = IF Sent(x)' THEN 1 ELSE 0
  <2>1. AtRelay(r, x)' \in {0, 1} /\ AtRelay(r, x) \in {0, 1}
    BY DEF AtRelay
  <2>2. Cardinality(OnAir(x)') + AtRelay(r, x)' + gone'[x] =
          Cardinality(OnAir(x)) + AtRelay(r, x) + gone[x]
    BY <1>1, <1>5, <1>7, <2>1
  <2> QED
    BY <1>1, <1>5, <1>7, <2>2, Balanced
<1>8. CASE HeldAt(r)' = HeldAt(r) \cup {p} /\ net' = net \ {m}
  <2>1. OnAir(x)' = OnAir(x) \ {m}
    BY <1>6, <1>8 DEF OnAir
  <2>2. CASE x = p
    <3>1. Cardinality(OnAir(x)) = 1 /\ Cardinality(OnAir(x)') = 0
      BY <1>1, <2>1, <2>2, AirLoses DEF PathInv
    <3>2. AtRelay(r, x) = 0 /\ AtRelay(r, x)' = 1
      BY <1>3, <1>8, <2>2 DEF AtRelay
    <3> QED
      BY <1>7, <3>1, <3>2
  <2>3. CASE x # p
    <3>1. OnAir(x)' = OnAir(x) /\ AtRelay(r, x)' = AtRelay(r, x)
      BY <1>4, <1>8, <2>1, <2>3 DEF AtRelay
    <3> QED
      BY <1>5, <1>7, <3>1
  <2> QED
    BY <2>2, <2>3
<1>9. ASSUME NEW q \in HeldAt(r), HeldAt(r)' = HeldAt(r) \ {q},
             net' = (net \ {m}) \cup Broadcast(r, <<q, p>>)
      PROVE  Places(x)' = IF Sent(x)' THEN 1 ELSE 0
  <2> DEFINE copy == [from |-> r, to |-> NextHop(r, x), packets |-> {q, p}]
  <2>1. q \in Packet /\ q # p
    BY <1>3, RelayFacts DEF PathInv
  <2>2. OnAir(x)' = (OnAir(x) \ {m}) \cup (IF x \in {q, p} THEN {copy} ELSE {})
    <3>1. {k \in Broadcast(r, <<q, p>>) : x \in ForReceiver(k)} =
            IF x \in {q, p} THEN {copy} ELSE {}
      BY <2>1, BroadcastAir
    <3> QED
      BY <1>6, <1>9, <3>1 DEF OnAir
  <2>3. CASE x = p
    <3>1. OnAir(x)' = {copy} /\ OnAir(x) = {m}
      BY <1>3, <2>2, <2>3
    <3>2. Cardinality(OnAir(x)) = 1 /\ Cardinality(OnAir(x)') = 1
      BY <3>1, FS_Singleton
    <3>3. AtRelay(r, x) = 0 /\ AtRelay(r, x)' = 0
      BY <1>3, <1>9, <2>3 DEF AtRelay
    <3> QED
      BY <1>7, <3>2, <3>3
  <2>4. CASE x = q
    <3>1. OnAir(x) = {}
      BY <1>9, <2>4, OnlyPlace DEF PathInv
    <3>2. Cardinality(OnAir(x)) = 0 /\ Cardinality(OnAir(x)') = 1
      BY <2>2, <2>4, <3>1, AirGains DEF PathInv
    <3>3. AtRelay(r, x) = 1 /\ AtRelay(r, x)' = 0
      BY <1>9, <2>4 DEF AtRelay
    <3> QED
      BY <1>7, <3>2, <3>3
  <2>5. CASE x \notin {q, p}
    <3>1. OnAir(x)' = OnAir(x) /\ AtRelay(r, x)' = AtRelay(r, x)
      BY <1>4, <1>9, <2>2, <2>5 DEF AtRelay
    <3> QED
      BY <1>5, <1>7, <3>1
  <2> QED
    BY <2>3, <2>4, <2>5
<1> QED
  BY <1>8, <1>9 DEF TakesIn

LEMMA GoPlaces ==
    ASSUME PathInv, NEW r \in Relay, NEW q \in Packet, LetsGo(r, q), Others(r),
           UNCHANGED clients, NEW x \in Packet
    PROVE  Places(x)' = IF Sent(x)' THEN 1 ELSE 0
<1>1. /\ q \in HeldAt(r) /\ HeldAt(r)' = HeldAt(r) \ {q}
      /\ UNCHANGED <<sequenceNumber, counted>>
  BY DEF LetsGo, clients
<1>2. gone[x] \in Nat /\ Cardinality(OnAir(x)) \in Nat
  BY PlacesParts DEF PathInv
<1>3. \A k : (x \in ForReceiver(k))' <=> x \in ForReceiver(k)
  BY DEF ForReceiver, NextHop
<1>4. AtRelay(r, x)' = AtRelay(r, x) - (IF x = q THEN 1 ELSE 0)
      /\ AtRelay(r, x) \in {0, 1}
  BY <1>1 DEF AtRelay
<1>5. CASE r \in stopped
  <2>1. net' = net /\ gone'[x] = gone[x] + (IF x = q THEN 1 ELSE 0)
    BY <1>5 DEF LetsGo, Lost
  <2>2. OnAir(x)' = OnAir(x)
    BY <1>3, <2>1 DEF OnAir
  <2>3. gone'[x] \in Nat
    BY <1>2, <2>1
  <2>4. Cardinality(OnAir(x)') + AtRelay(r, x)' + gone'[x] =
          Cardinality(OnAir(x)) + AtRelay(r, x) + gone[x]
    BY <1>2, <1>4, <2>1, <2>2
  <2> QED
    BY <1>1, <1>2, <2>2, <2>3, <2>4, Balanced
<1>6. CASE r \notin stopped
  <2>1. net' = net \cup {Data(r, q)} /\ gone' = gone
    BY <1>6 DEF LetsGo
  <2>2. ForReceiver(Data(r, q)) = {q}
    BY DataFacts, FourNodes DEF Relay, Node, Client
  <2>3. OnAir(x)' = OnAir(x) \cup (IF x = q THEN {Data(r, q)} ELSE {})
    BY <1>3, <2>1, <2>2 DEF OnAir
  <2>4. Cardinality(OnAir(x)') = Cardinality(OnAir(x)) + (IF x = q THEN 1 ELSE 0)
    <3>1. CASE x = q
      <4>1. OnAir(x) = {}
        BY <1>1, <3>1, OnlyPlace DEF PathInv
      <4>2. Cardinality(OnAir(x)) = 0 /\ Cardinality(OnAir(x)') = 1
        BY <2>3, <3>1, <4>1, AirGains DEF PathInv
      <4> QED
        BY <3>1, <4>2
    <3>2. CASE x # q
      BY <1>2, <2>3, <3>2
    <3> QED
      BY <3>1, <3>2
  <2>5. Cardinality(OnAir(x)') \in Nat
    BY <1>2, <2>4
  <2>6. Cardinality(OnAir(x)') + AtRelay(r, x)' + gone'[x] =
          Cardinality(OnAir(x)) + AtRelay(r, x) + gone[x]
    BY <1>2, <1>4, <2>1, <2>4
  <2> QED
    BY <1>1, <1>2, <2>1, <2>5, <2>6, Balanced
<1> QED
  BY <1>5, <1>6

LEMMA RestPlaces ==
    ASSUME PathInv, Rests, NEW x \in Packet
    PROVE  Places(x)' = IF Sent(x)' THEN 1 ELSE 0
<1>1. UNCHANGED <<net, gone, counted, sequenceNumber, HeldAt(r1), HeldAt(r2)>>
  BY DEF Rests, Relay
<1>2. OnAir(x)' = OnAir(x)
  BY <1>1 DEF OnAir, ForReceiver, NextHop
<1>3. UNCHANGED <<AtClient(x), gone[x], AtRelay(r1, x), AtRelay(r2, x)>>
      /\ (Sent(x)' <=> Sent(x))
  BY <1>1 DEF AtClient, LastHop, AtRelay, Sent
<1>4. Places(x) = IF Sent(x) THEN 1 ELSE 0
  BY DEF PathInv, PacketInOnePlace
<1> QED
  BY <1>2, <1>3, <1>4, PlacesSum

LEMMA NextPlaces ==
    ASSUME PathInv, [Next]_vars
    PROVE  PacketInOnePlace'
<1> SUFFICES ASSUME NEW x \in Packet PROVE Places(x)' = IF Sent(x)' THEN 1 ELSE 0
  BY DEF PacketInOnePlace, Packet, Client
<1> QED
  BY SendPlaces, VanishPlaces, ClientPlaces, TakePlaces, GoPlaces, RestPlaces,
     InvGoneType, StepEffects DEF PathInv

-----------------------------------------------------------------------------
(* The first theorem of the data plane. *)

LEMMA InitPath == Init => PathInv
<1> SUFFICES ASSUME Init PROVE PathInv
  OBVIOUS
<1>1. /\ net = {} /\ sequenceNumber = [c \in Client |-> 0]
      /\ counted = [p \in Packet |-> [n \in Node |-> 0]]
      /\ gone = [p \in Packet |-> 0] /\ R1!Init /\ R2!Init
  BY DEF Init
<1>2. Q1!RelayInv /\ Q1!Held = {} /\ received1 = {}
  BY <1>1, Q1!InitSeen, Bridge1, RelayAssumptions1, TimerAssumptions
<1>3. Q2!RelayInv /\ Q2!Held = {} /\ received2 = {}
  BY <1>1, Q2!InitSeen, Bridge2, RelayAssumptions2, TimerAssumptions
<1>4. \A r \in Relay : HeldAt(r) = {} /\ Received(r) = {}
  BY <1>2, <1>3, Bridge1, Bridge2 DEF Relay, HeldAt, Received
<1>5. OwnTypes
  BY <1>1, FS_EmptySet, DataPlaneAssumption DEF OwnTypes
<1>6. DatagramsAreSound /\ HopsAreInOrder /\ FreshAtRelays
  BY <1>1, <1>4 DEF DatagramsAreSound, HopsAreInOrder, FreshAtRelays
<1>7. PacketInOnePlace
  <2> SUFFICES ASSUME NEW p \in Packet PROVE Places(p) = IF Sent(p) THEN 1 ELSE 0
    BY DEF PacketInOnePlace
  <2>1. OnAir(p) = {} /\ Cardinality(OnAir(p)) = 0
    BY <1>1, FS_EmptySet DEF OnAir
  <2>2. AtRelay(r1, p) = 0 /\ AtRelay(r2, p) = 0
    BY <1>4 DEF AtRelay, Relay
  <2>3. AtClient(p) = 0 /\ gone[p] = 0
    BY <1>1 DEF AtClient, LastHop, Node
  <2>4. ~ Sent(p)
    <3>1. p.source \in Client /\ p.sequence \in 1..MaxSequence
      BY DEF Packet
    <3> QED
      BY <1>1, <3>1, DataPlaneAssumption DEF Sent
  <2> QED
    BY <2>1, <2>2, <2>3, <2>4, PlacesSum
<1> QED
  BY <1>2, <1>3, <1>5, <1>6, <1>7 DEF PathInv, RelaysAreSound

LEMMA NextPath == PathInv /\ [Next]_vars => PathInv'
<1> SUFFICES ASSUME PathInv, [Next]_vars PROVE PathInv'
  OBVIOUS
<1>1. RelaysAreSound'
  BY InvGoneType, StepEffects DEF PathInv
<1> QED
  BY <1>1, NextOwnTypes, NextDatagrams, NextHopsInOrder, NextFresh, NextPlaces
     DEF PathInv

LEMMA AlwaysPath == Spec => []PathInv
<1> QED
  BY InitPath, NextPath, PTL DEF Spec

\* PacketInOnePlace for every value of the constants: a packet that a client sent
\* is, at every moment, in exactly one of a datagram to its next hop, a queue of a
\* relay, the count of its destination and the losses, however the two relays code
\* and whoever stops when.
THEOREM DataPacketInOnePlace == Spec => []PacketInOnePlace
<1>1. PathInv => PacketInOnePlace
  BY DEF PathInv
<1> QED
  BY <1>1, AlwaysPath, PTL

-----------------------------------------------------------------------------
(* Routes come before packets, and stops cancel what clients have scheduled. *)

\* A client sends over a route whose every hop is installed, and has an event
\* pending only while it runs.
EventsInOrder ==
    /\ \A c \in Client : sequenceNumber[c] > 0 => HasRoute(c)
    /\ Direction1(n0) \in flowTable1 => Direction2(n0) \in flowTable2
    /\ Direction2(n1) \in flowTable2 => Direction1(n1) \in flowTable1
    /\ \A c \in Client : dataEvent[c] => sequenceNumber[c] > 0 /\ c \notin stopped
    /\ dataEvent \in [Client -> BOOLEAN] /\ stopped \subseteq Node

\* What a client overhears of packet p: copies of a coded broadcast of r2.
Overheard(p) == {m \in net : m.from = r2 /\ m.to = n0 /\ p \in m.packets}
Overhearable(p) == overhears /\ \E c \in coded2 : p \in {c[1], c[2]}

\* Packet p is on the air towards an overhearing client, or counted by it, at most
\* once, and only if r2 coded it.
OverheardOnce ==
    \A p \in Packet :
        /\ \A n \in Node \ {LastHop(p)} : counted[p][n] = 0 \/ (n = r2 /\ p.source = n1)
        /\ p.source = n1 =>
             counted[p][r2] + Cardinality(Overheard(p)) <= IF Overhearable(p) THEN 1 ELSE 0

LEMMA InitEvents == Init => EventsInOrder
<1> SUFFICES ASSUME Init PROVE EventsInOrder
  OBVIOUS
<1>1. R1!Init => flowTable1 = {}
  BY DEF R1!Init
<1>2. R2!Init => flowTable2 = {}
  BY DEF R2!Init
<1>3. \A c \in Client : sequenceNumber[c] = 0 /\ dataEvent[c] = FALSE
  BY DEF Init
<1> QED
  BY <1>1, <1>2, <1>3 DEF Init, EventsInOrder

\* What a step does to routes and to the clients' events.
LEMMA EventEffects ==
    ASSUME PathInv, [Next]_vars
    PROVE  \/ UNCHANGED <<flowTable1, flowTable2, sequenceNumber, dataEvent, stopped>>
           \/ \E c \in Client :
                /\ c = n0 => Direction2(c) \in flowTable2
                /\ flowTable1' = flowTable1 \cup {Direction1(c)}
                /\ UNCHANGED <<flowTable2, sequenceNumber, dataEvent, stopped>>
           \/ \E c \in Client :
                /\ c = n1 => Direction1(c) \in flowTable1
                /\ flowTable2' = flowTable2 \cup {Direction2(c)}
                /\ UNCHANGED <<flowTable1, sequenceNumber, dataEvent, stopped>>
           \/ \E c \in Client :
                /\ \/ c \notin stopped /\ HasRoute(c)
                   \/ dataEvent[c]
                /\ sequenceNumber' = [sequenceNumber EXCEPT ![c] = @ + Rate]
                /\ dataEvent' = [dataEvent EXCEPT ![c] = TRUE]
                /\ UNCHANGED <<flowTable1, flowTable2, stopped>>
           \/ \E group \in StopGroups :
                /\ ~ group \subseteq stopped
                /\ stopped' = stopped \cup group
                /\ CancelDataEvent(group)
                /\ UNCHANGED <<flowTable1, flowTable2, sequenceNumber>>
<1> DEFINE same == UNCHANGED <<flowTable1, flowTable2, sequenceNumber, dataEvent, stopped>>
<1>1. RelaysAreSound /\ GoneType /\ gone \in [Packet -> Nat]
  BY InvGoneType DEF PathInv, GoneType
<1>2. \A r \in Relay : Flows(r) = IF r = r1 THEN flowTable1 ELSE flowTable2
  BY DEF Flows
<1>3. (Stays(r1) /\ Flows(r2)' = Flows(r2)) \/ (Stays(r2) /\ Flows(r1)' = Flows(r1))
        => UNCHANGED <<flowTable1, flowTable2>>
  BY FourNodes DEF Stays, Flows
<1>4. ASSUME NEW m \in net, ReceiveAtRelay1(m) PROVE same
  <2>1. PICK p \in Packet : TakesIn(r1, m, p)
    BY <1>1, <1>4, ReceiveEffect1 DEF GoneType
  <2>2. Stays(r2) /\ UNCHANGED <<clients, stopped>>
    BY <1>1, <1>4, ReceiveEffect1 DEF GoneType
  <2> QED
    BY <1>3, <2>1, <2>2 DEF TakesIn, clients
<1>5. ASSUME NEW m \in net, ReceiveAtRelay2(m) PROVE same
  <2>1. PICK p \in Packet : TakesIn(r2, m, p)
    BY <1>1, <1>5, ReceiveEffect2 DEF GoneType
  <2>2. Stays(r1) /\ UNCHANGED <<clients, stopped>>
    BY <1>1, <1>5, ReceiveEffect2 DEF GoneType
  <2> QED
    BY <1>3, <2>1, <2>2 DEF TakesIn, clients
<1>6. ASSUME TimerExpires1 PROVE same
  <2>1. /\ Stays(r2) /\ UNCHANGED <<clients, stopped>>
        /\ Stays(r1) \/ \E q \in Packet : LetsGo(r1, q)
    BY <1>1, <1>6, TimerEffect1
  <2> QED
    BY <1>3, <2>1 DEF LetsGo, Stays, clients
<1>7. ASSUME TimerExpires2 PROVE same
  <2>1. /\ Stays(r1) /\ UNCHANGED <<clients, stopped>>
        /\ Stays(r2) \/ \E q \in Packet : LetsGo(r2, q)
    BY <1>1, <1>7, TimerEffect2
  <2> QED
    BY <1>3, <2>1 DEF LetsGo, Stays, clients
<1>8. ASSUME NEW m \in net, DropAtStopped(m) \/ Lose(m) \/ ReceiveAtClient(m) PROVE same
  BY <1>8 DEF DropAtStopped, Lose, ReceiveAtClient, clients, relay1, relay2
<1>9. ASSUME NEW c \in Client, HandleRREP(c) \/ DataEventExpires(c)
      PROVE  /\ \/ c \notin stopped /\ HasRoute(c)
                \/ dataEvent[c]
             /\ sequenceNumber' = [sequenceNumber EXCEPT ![c] = @ + Rate]
             /\ dataEvent' = [dataEvent EXCEPT ![c] = TRUE]
             /\ UNCHANGED <<flowTable1, flowTable2, stopped>>
  BY <1>9 DEF HandleRREP, DataEventExpires, SendData, relay1, relay2
<1>10. ASSUME NEW c \in Client, ForwardRREP1(c)
       PROVE  /\ c = n0 => Direction2(c) \in flowTable2
              /\ flowTable1' = flowTable1 \cup {Direction1(c)}
              /\ UNCHANGED <<flowTable2, sequenceNumber, dataEvent, stopped>>
  BY <1>1, <1>10, InstallEffect1 DEF ForwardRREP1, clients
<1>11. ASSUME NEW c \in Client, ForwardRREP2(c)
       PROVE  /\ c = n1 => Direction1(c) \in flowTable1
              /\ flowTable2' = flowTable2 \cup {Direction2(c)}
              /\ UNCHANGED <<flowTable1, sequenceNumber, dataEvent, stopped>>
  BY <1>1, <1>11, InstallEffect2 DEF ForwardRREP2, clients
<1>12. ASSUME NEW group \in StopGroups, StopApplication(group)
       PROVE  /\ ~ group \subseteq stopped
              /\ stopped' = stopped \cup group
              /\ CancelDataEvent(group)
              /\ UNCHANGED <<flowTable1, flowTable2, sequenceNumber>>
  BY <1>12 DEF StopApplication, relay1, relay2
<1>13. UNCHANGED vars => same
  BY DEF vars, clients, relay1, relay2
<1> QED
  BY <1>4, <1>5, <1>6, <1>7, <1>8, <1>9, <1>10, <1>11, <1>12, <1>13 DEF Next, HandleRead

LEMMA NextEvents ==
    ASSUME PathInv, EventsInOrder, [Next]_vars
    PROVE  EventsInOrder'
<1>1. \A c \in Client : sequenceNumber[c] \in Nat
  BY DataPlaneAssumption DEF PathInv, OwnTypes
<1>2. CASE UNCHANGED <<flowTable1, flowTable2, sequenceNumber, dataEvent, stopped>>
  BY <1>2 DEF EventsInOrder, HasRoute, Direction1, Direction2
<1>3. ASSUME NEW c \in Client, c = n0 => Direction2(c) \in flowTable2,
             flowTable1' = flowTable1 \cup {Direction1(c)},
             UNCHANGED <<flowTable2, sequenceNumber, dataEvent, stopped>>
      PROVE  EventsInOrder'
  BY <1>3, FourNodes DEF EventsInOrder, HasRoute, Direction1, Direction2, Client
<1>4. ASSUME NEW c \in Client, c = n1 => Direction1(c) \in flowTable1,
             flowTable2' = flowTable2 \cup {Direction2(c)},
             UNCHANGED <<flowTable1, sequenceNumber, dataEvent, stopped>>
      PROVE  EventsInOrder'
  BY <1>4, FourNodes DEF EventsInOrder, HasRoute, Direction1, Direction2, Client
<1>5. ASSUME NEW c \in Client, (c \notin stopped /\ HasRoute(c)) \/ dataEvent[c],
             sequenceNumber' = [sequenceNumber EXCEPT ![c] = @ + Rate],
             dataEvent' = [dataEvent EXCEPT ![c] = TRUE],
             UNCHANGED <<flowTable1, flowTable2, stopped>>
      PROVE  EventsInOrder'
  <2>1. HasRoute(c) /\ c \notin stopped
    BY <1>5 DEF EventsInOrder
  <2>2. /\ sequenceNumber'[c] > 0
        /\ \A k \in Client \ {c} : sequenceNumber'[k] = sequenceNumber[k]
    BY <1>1, <1>5, DataPlaneAssumption DEF PathInv, OwnTypes
  <2>3. /\ dataEvent' \in [Client -> BOOLEAN]
        /\ \A k \in Client \ {c} : dataEvent'[k] = dataEvent[k]
    BY <1>5 DEF EventsInOrder
  <2>4. \A k \in Client : HasRoute(k)' <=> HasRoute(k)
    BY <1>5 DEF HasRoute, Direction1, Direction2
  <2> QED
    BY <1>5, <2>1, <2>2, <2>3, <2>4 DEF EventsInOrder, Direction1, Direction2
<1>6. ASSUME NEW group \in StopGroups, stopped' = stopped \cup group,
             CancelDataEvent(group),
             UNCHANGED <<flowTable1, flowTable2, sequenceNumber>>
      PROVE  EventsInOrder'
  <2>1. \A k \in Client : HasRoute(k)' <=> HasRoute(k)
    BY <1>6 DEF HasRoute, Direction1, Direction2
  <2>2. dataEvent' \in [Client -> BOOLEAN]
    <3>1. \A k \in Client : (dataEvent[k] /\ k \notin group) \in BOOLEAN
      OBVIOUS
    <3> QED
      BY <1>6, <3>1 DEF CancelDataEvent
  <2>3. \A k \in Client : dataEvent'[k] => dataEvent[k] /\ k \notin group
    BY <1>6 DEF CancelDataEvent
  <2>4. stopped' \subseteq Node
    BY <1>6, DataPlaneAssumption DEF EventsInOrder
  <2> QED
    BY <1>6, <2>1, <2>2, <2>3, <2>4 DEF EventsInOrder, Direction1, Direction2
<1> QED
  BY <1>2, <1>3, <1>4, <1>5, <1>6, EventEffects

LEMMA AlwaysEvents == Spec => [](PathInv /\ EventsInOrder)
<1> QED
  BY InitPath, NextPath, InitEvents, NextEvents, PTL DEF Spec

\* RelaysAreHandedFreshPackets for every value of the constants: what the theorems
\* about a relay assume of the packets it receives, the rest of the network keeps.
THEOREM DataRelaysAreHandedFreshPackets == Spec => []RelaysAreHandedFreshPackets
<1>1. ASSUME PathInv, EventsInOrder PROVE RelaysAreHandedFreshPackets
  <2> SUFFICES ASSUME NEW m \in net, m.to \in {r1, r2}
               PROVE  /\ Cardinality(ForReceiver(m)) = 1
                      /\ \A p \in ForReceiver(m) :
                          /\ \A k \in net : k.to = m.to /\ p \in ForReceiver(k) => k = m
                          /\ m.to = r1 => p \notin received1 /\ m.from = In1[p]
                                                             /\ R1!Dir(p) \in flowTable1
                          /\ m.to = r2 => p \notin received2 /\ m.from = In2[p]
                                                             /\ R2!Dir(p) \in flowTable2
    BY DEF RelaysAreHandedFreshPackets
  <2>1. /\ m.to \in Relay /\ m.packets \subseteq Packet
        /\ \E y \in m.packets : ForReceiver(m) = {y}
        /\ \A p \in ForReceiver(m) : HopBefore(m.to, p) = m.from
    BY <1>1, DatagramFacts DEF PathInv, Relay
  <2>2. Cardinality(ForReceiver(m)) = 1
    BY <2>1, FS_Singleton
  <2>3. ASSUME NEW p \in ForReceiver(m)
        PROVE  /\ \A k \in net : k.to = m.to /\ p \in ForReceiver(k) => k = m
               /\ p \in Packet /\ Sent(p) /\ p \notin Received(m.to)
               /\ HopBefore(m.to, p) = m.from
    <3>1. p \in Packet /\ m \in OnAir(p)
      BY <2>1, <2>3 DEF OnAir, ForReceiver
    <3>2. Sent(p) /\ OnAir(p) = {m}
      BY <1>1, <3>1, OnlyPlace DEF PathInv
    <3> QED
      BY <1>1, <2>1, <2>3, <3>1, <3>2 DEF PathInv, FreshAtRelays, OnAir
  <2>4. ASSUME NEW p \in Packet, Sent(p)
        PROVE  R1!Dir(p) \in flowTable1 /\ R2!Dir(p) \in flowTable2
    <3>1. p.source \in Client /\ sequenceNumber[p.source] > 0
      <4>1. p.source \in Client /\ p.sequence \in 1..MaxSequence
        BY DEF Packet
      <4>2. sequenceNumber[p.source] \in Nat
        BY <1>1, <4>1, DataPlaneAssumption DEF PathInv, OwnTypes
      <4> QED
        BY <2>4, <4>1, <4>2, DataPlaneAssumption DEF Sent
    <3>2. HasRoute(p.source)
      BY <1>1, <3>1 DEF EventsInOrder
    <3>3. Direction1(p.source) \in flowTable1 /\ Direction2(p.source) \in flowTable2
      BY <1>1, <3>1, <3>2, FourNodes DEF EventsInOrder, HasRoute, Client
    <3>4. R1!Dir(p) = Direction1(p.source) /\ R2!Dir(p) = Direction2(p.source)
      BY <3>1, FourNodes
         DEF R1!Dir, R2!Dir, Direction1, Direction2, In1, Out1, In2, Out2, Client
    <3> QED
      BY <3>3, <3>4
  <2> QED
    BY <2>2, <2>3, <2>4, FourNodes DEF Received, HopBefore
<1> QED
  BY <1>1, AlwaysEvents, PTL

\* StoppedClientsSendNothing for every value of the constants: a client sends from
\* a pending event, which its stop cancels, or on a reply, which it no longer reads.
THEOREM DataStoppedClientsSendNothing == Spec => StoppedClientsSendNothing
<1>1. ASSUME PathInv, EventsInOrder, [Next]_vars
      PROVE  \A c \in stopped \cap Client : sequenceNumber'[c] = sequenceNumber[c]
  <2> SUFFICES ASSUME NEW c \in stopped \cap Client
               PROVE  sequenceNumber'[c] = sequenceNumber[c]
    OBVIOUS
  <2>1. ASSUME NEW k \in Client, (k \notin stopped /\ HasRoute(k)) \/ dataEvent[k],
               sequenceNumber' = [sequenceNumber EXCEPT ![k] = @ + Rate]
        PROVE  sequenceNumber'[c] = sequenceNumber[c]
    <3>1. k # c
      BY <1>1, <2>1 DEF EventsInOrder
    <3> QED
      BY <1>1, <2>1, <3>1 DEF PathInv, OwnTypes
  <2> QED
    BY <1>1, <2>1, EventEffects
<1>2. PathInv /\ EventsInOrder /\ [Next]_vars
        => [\A c \in stopped \cap Client : sequenceNumber'[c] = sequenceNumber[c]]_vars
  BY <1>1
<1> QED
  BY <1>2, AlwaysEvents, PTL DEF Spec, StoppedClientsSendNothing

\* TimersRunDown for every value of the constants: once all applications have
\* stopped, no timer of a relay arms another for ever.
THEOREM DataTimersRunDown == Spec => TimersRunDown
<1> DEFINE a == Cardinality(net)
           e1 == Len(pending1)
           f1 == Len(waitingForwardBuffer1)
           e2 == Len(pending2)
           f2 == Len(waitingForwardBuffer2)
<1>1. ASSUME PathInv, EventsInOrder, Next, stopped = Node
      PROVE  LeftToDo' < LeftToDo
  <2>1. IsFiniteSet(net) /\ a \in Nat /\ \A m \in net : m.to \in Node
    BY <1>1, FS_CardinalityType, DatagramFacts DEF PathInv, OwnTypes
  <2>2. e1 \in Nat /\ f1 \in Nat
    <3>1. Q1!TypeOK
      BY <1>1, Q1!SeenFacts, RelayAssumptions1, TimerAssumptions DEF PathInv, RelaysAreSound
    <3>2. pending1 \in Seq(Packet \cup {ForwardTimer}) /\ waitingForwardBuffer1 \in Seq(Packet)
      BY <3>1 DEF Q1!TypeOK
    <3> QED
      BY <3>2
  <2>3. e2 \in Nat /\ f2 \in Nat
    <3>1. Q2!TypeOK
      BY <1>1, Q2!SeenFacts, RelayAssumptions2, TimerAssumptions DEF PathInv, RelaysAreSound
    <3>2. pending2 \in Seq(Packet \cup {ForwardTimer}) /\ waitingForwardBuffer2 \in Seq(Packet)
      BY <3>1 DEF Q2!TypeOK
    <3> QED
      BY <3>2
  <2>4. LeftToDo = a + e1 + f1 + e2 + f2 /\ LeftToDo' = a' + e1' + f1' + e2' + f2'
    BY DEF LeftToDo
  <2>5. Client \subseteq stopped /\ r1 \in stopped /\ r2 \in stopped
    BY <1>1 DEF Node, Client
  <2>6. ASSUME NEW m \in net, DropAtStopped(m) \/ Lose(m) PROVE LeftToDo' < LeftToDo
    <3>1. net' = net \ {m} /\ UNCHANGED <<relay1, relay2>>
      BY <2>6 DEF DropAtStopped, Lose
    <3>2. a' = a - 1
      BY <2>1, <3>1, FS_RemoveElement
    <3>3. e1' = e1 /\ f1' = f1 /\ e2' = e2 /\ f2' = f2
      BY <3>1 DEF relay1, relay2
    <3> HIDE DEF a, e1, f1, e2, f2
    <3> QED
      BY <2>1, <2>2, <2>3, <2>4, <3>2, <3>3
  <2>7. ASSUME TimerExpires1 PROVE LeftToDo' < LeftToDo
    <3>1. /\ e1' \in Nat /\ f1' \in Nat /\ e1' + f1' < e1 + f1
      BY <1>1, <2>7, Q1!TimerRunsDown, Bridge1, RelayAssumptions1, TimerAssumptions
         DEF TimerExpires1, PathInv, RelaysAreSound
    <3>2. UNCHANGED relay2 /\ net' = net
      <4>1. UNCHANGED relay2 /\ Transmit1(net)
        BY <2>7 DEF TimerExpires1
      <4> QED
        BY <2>5, <4>1 DEF Transmit1, Transmit
    <3>3. a' = a /\ e2' = e2 /\ f2' = f2
      BY <3>2 DEF relay2
    <3>4. \A x, y \in Nat : x + y < e1 + f1 => a + x + y + e2 + f2 < a + e1 + f1 + e2 + f2
      <4> HIDE DEF a, e1, f1, e2, f2
      <4> QED
        BY <2>1, <2>2, <2>3
    <3> QED
      BY <2>4, <3>1, <3>3, <3>4
  <2>8. ASSUME TimerExpires2 PROVE LeftToDo' < LeftToDo
    <3>1. /\ e2' \in Nat /\ f2' \in Nat /\ e2' + f2' < e2 + f2
      BY <1>1, <2>8, Q2!TimerRunsDown, Bridge2, RelayAssumptions2, TimerAssumptions
         DEF TimerExpires2, PathInv, RelaysAreSound
    <3>2. UNCHANGED relay1 /\ net' = net
      <4>1. UNCHANGED relay1 /\ Transmit2(net)
        BY <2>8 DEF TimerExpires2
      <4> QED
        BY <2>5, <4>1 DEF Transmit2, Transmit
    <3>3. a' = a /\ e1' = e1 /\ f1' = f1
      BY <3>2 DEF relay1
    <3>4. \A x, y \in Nat : x + y < e2 + f2 => a + e1 + f1 + x + y < a + e1 + f1 + e2 + f2
      <4> HIDE DEF a, e1, f1, e2, f2
      <4> QED
        BY <2>1, <2>2, <2>3
    <3> QED
      BY <2>4, <3>1, <3>3, <3>4
  <2>9. ASSUME NEW c \in Client
        PROVE  ~ (ForwardRREP1(c) \/ ForwardRREP2(c) \/ HandleRREP(c) \/ DataEventExpires(c))
    BY <1>1, <2>5 DEF ForwardRREP1, ForwardRREP2, HandleRREP, DataEventExpires, EventsInOrder
  <2>10. \A m \in net : ~ (ReceiveAtClient(m) \/ ReceiveAtRelay1(m) \/ ReceiveAtRelay2(m))
    BY <2>5 DEF ReceiveAtClient, ReceiveAtRelay1, ReceiveAtRelay2
  <2>11. \A group \in StopGroups : ~ StopApplication(group)
    BY <1>1, DataPlaneAssumption DEF StopApplication
  <2> QED
    BY <1>1, <2>6, <2>7, <2>8, <2>9, <2>10, <2>11 DEF Next, HandleRead
<1>2. PathInv /\ EventsInOrder /\ [Next]_vars
        => [stopped = Node => LeftToDo' < LeftToDo]_vars
  BY <1>1
<1> QED
  BY <1>2, AlwaysEvents, PTL DEF Spec, TimersRunDown

\* The types, which the invariants above contain.
THEOREM DataTypeOK == Spec => []TypeOK
<1>1. ASSUME PathInv, EventsInOrder PROVE TypeOK
  <2>1. R1!TypeOK /\ R2!TypeOK
    BY <1>1, Q1!SeenFacts, Q2!SeenFacts, Bridge1, Bridge2, RelayAssumptions1,
       RelayAssumptions2, TimerAssumptions
       DEF PathInv, RelaysAreSound
  <2>2. \A m \in net : m.to \in Node /\ m.packets \subseteq Packet
    BY <1>1, DatagramFacts DEF PathInv
  <2> QED
    BY <1>1, <2>1, <2>2 DEF TypeOK, PathInv, OwnTypes, EventsInOrder
<1> QED
  BY <1>1, AlwaysEvents, PTL

\* ReceiverKnowsTheOther for every value of the constants: a receiver can decode
\* what it takes out of a coded datagram, for it has sent or received the other
\* packet before.  It follows from the order of the hops alone.
THEOREM DataReceiverKnowsTheOther == Spec => []ReceiverKnowsTheOther
<1>1. ASSUME PathInv PROVE ReceiverKnowsTheOther
  <2> SUFFICES ASSUME NEW m \in net, NEW p \in m.packets, NEW q \in m.packets,
                      p # q, Wants(m, p)
               PROVE  \/ m.to = q.source /\ Sent(q)
                      \/ m.to = r1 /\ q \in received1
                      \/ m.to = r2 /\ q \in received2
    BY DEF ReceiverKnowsTheOther
  <2>1. PICK r \in Relay : \E c \in Coded(r) : m \in Broadcast(r, c)
    <3>1. ASSUME NEW n, NEW x, m = Data(n, x) PROVE FALSE
      BY <3>1 DEF Data
    <3> QED
      BY <1>1, <3>1 DEF PathInv, DatagramsAreSound
  <2>2. PICK c \in Coded(r) : m \in Broadcast(r, c)
    BY <2>1
  <2>3. /\ m.from = r /\ m.to \in Neighbours(r) /\ m.packets = {c[1], c[2]}
        /\ c[1] \in Packet /\ c[2] \in Packet
        /\ \A x \in m.packets : Left(r, x)
    BY <1>1, <2>2, BroadcastFacts DEF PathInv
  <2>4. NextHop(r, p) = HopBefore(r, q)
    BY <1>1, <2>2, <2>3, RelayFacts DEF PathInv
  <2>5. q \in Received(r) /\ q \in Packet /\ p \in Packet
    BY <2>3, FourNodes DEF Left, Relay, Client
  <2>6. Left(HopBefore(r, q), q)
    BY <1>1, <2>5 DEF PathInv, HopsAreInOrder
  <2>7. CASE m.to = HopBefore(r, q)
    BY <2>3, <2>6, <2>7, FourNodes DEF Left, Received, Client, Neighbours, Relay
  <2>8. CASE m.to # HopBefore(r, q)
    <3>1. r = r2 /\ m.to = n0 /\ HopBefore(r, q) = r1 /\ q.source = n0
      BY <2>3, <2>4, <2>5, <2>8, HopFacts, FourNodes
         DEF Wants, ForReceiver, Neighbours, Relay
    <3>2. Left(HopBefore(r1, q), q) /\ HopBefore(r1, q) = n0
      <4>1. q \in Received(r1)
        BY <2>6, <3>1, FourNodes DEF Left, Client
      <4> QED
        BY <1>1, <2>5, <3>1, <4>1, HopFacts DEF PathInv, HopsAreInOrder, Relay
    <3> QED
      BY <3>1, <3>2 DEF Left, Client
  <2> QED
    BY <2>7, <2>8
<1> QED
  BY <1>1, AlwaysPath, PTL

-----------------------------------------------------------------------------
(* Overhearing. *)

\* The only copies that a client takes from another sender than the last hop are
\* broadcasts of r2 that n0 overhears.
LEMMA OtherSender ==
    ASSUME RelaysAreSound, DatagramsAreSound, NEW m \in net, NEW p \in m.packets,
           Destination(p) = m.to, m.from # LastHop(p)
    PROVE  p.source = n1 /\ m \in Overheard(p)
<1>1. p \in Packet /\ m.from \in Relay /\ m.to \in Client
  <2>1. p \in Packet
    BY DatagramFacts
  <2>2. m.to \in Client
    BY <2>1, HopFacts DEF Client
  <2> QED
    BY <2>1, <2>2, DatagramFacts
<1>2. CASE \E n \in Node, x \in Packet : Left(n, x) /\ m = Data(n, x)
  <2>1. PICK n \in Node, x \in Packet : Left(n, x) /\ m = Data(n, x)
    BY <1>2
  <2> QED
    BY <1>1, <2>1, DataFacts DEF Left
<1>3. CASE \E r \in Relay : \E c \in Coded(r) : m \in Broadcast(r, c)
  <2>1. PICK r \in Relay : \E c \in Coded(r) : m \in Broadcast(r, c)
    BY <1>3
  <2>2. m.from = r /\ m.to \in Neighbours(r)
    BY <2>1, BroadcastFacts
  <2> QED
    BY <1>1, <2>2, HopFacts, FourNodes DEF Neighbours, Relay, Client, Overheard
<1> QED
  BY <1>2, <1>3 DEF DatagramsAreSound

LEMMA OverheardFacts ==
    ASSUME PathInv, NEW p \in Packet
    PROVE  /\ IsFiniteSet(Overheard(p)) /\ Cardinality(Overheard(p)) \in Nat
           /\ counted[p][r2] \in Nat
<1>1. Overheard(p) \subseteq net /\ IsFiniteSet(net)
  BY DEF Overheard, PathInv, OwnTypes
<1>2. r2 \in Node
  BY DEF Node
<1> QED
  BY <1>1, <1>2, FS_Subset, FS_CardinalityType DEF PathInv, OwnTypes

\* Fewer copies on the air and a larger bound.
LEMMA OverheardLess ==
    ASSUME PathInv, OverheardOnce, UNCHANGED counted, IsFiniteSet(net'),
           \A p \in Packet : Overheard(p)' \subseteq Overheard(p),
           \A p \in Packet : Overhearable(p) => Overhearable(p)'
    PROVE  OverheardOnce'
<1>1. ASSUME NEW p \in Packet, p.source = n1
      PROVE  counted'[p][r2] + Cardinality(Overheard(p)') <=
                IF Overhearable(p)' THEN 1 ELSE 0
  <2> DEFINE a == Cardinality(Overheard(p))
             b == Cardinality(Overheard(p)')
             c == counted[p][r2]
  <2>1. a \in Nat /\ c \in Nat /\ IsFiniteSet(Overheard(p))
    BY OverheardFacts
  <2>2. b \in Nat /\ b <= a
    BY <2>1, FS_Subset, FS_CardinalityType
  <2>3. c + a <= (IF Overhearable(p) THEN 1 ELSE 0) /\ (Overhearable(p) => Overhearable(p)')
    BY <1>1 DEF OverheardOnce
  <2>4. c + b <= IF Overhearable(p)' THEN 1 ELSE 0
    <3> HIDE DEF a, b, c
    <3> QED
      BY <2>1, <2>2, <2>3
  <2> QED
    BY <2>4
<1>2. ASSUME NEW p \in Packet, NEW n \in Node \ {LastHop(p)}
      PROVE  counted'[p][n] = 0 \/ (n = r2 /\ p.source = n1)
  BY <1>2 DEF OverheardOnce
<1> QED
  BY <1>1, <1>2 DEF OverheardOnce, LastHop

\* n0 counts a copy that was on the air, or any other copy from the last hop.
LEMMA CountOverheard ==
    ASSUME PathInv, OverheardOnce, NEW m \in net, ReceiveAtClient(m),
           \A p \in Packet : Overhearable(p)' <=> Overhearable(p)
    PROVE  OverheardOnce'
<1>1. /\ net' = net \ {m} /\ CountOwn(m) /\ m.from \in Node /\ m.packets \subseteq Packet
      /\ RelaysAreSound /\ DatagramsAreSound /\ r2 \in Node
      /\ counted \in [Packet -> [Node -> Nat]]
  BY DatagramFacts DEF ReceiveAtClient, PathInv, OwnTypes, Node
<1>2. ASSUME NEW p \in Packet, NEW n \in Node
      PROVE  counted'[p][n] = counted[p][n] +
               (IF n = m.from /\ p \in m.packets /\ Destination(p) = m.to THEN 1 ELSE 0)
  <2>1. counted'[p] = [counted[p] EXCEPT
                         ![m.from] = @ + (IF p \in m.packets /\ Destination(p) = m.to
                                          THEN 1 ELSE 0)]
    BY <1>1 DEF CountOwn
  <2>2. counted[p] \in [Node -> Nat]
    BY <1>1
  <2> QED
    BY <1>1, <2>1, <2>2
<1>3. ASSUME NEW p \in Packet, NEW n \in Node \ {LastHop(p)}
      PROVE  counted'[p][n] = 0 \/ (n = r2 /\ p.source = n1)
  <2>1. counted[p][n] = 0 \/ (n = r2 /\ p.source = n1)
    BY <1>3 DEF OverheardOnce
  <2>2. n = m.from /\ p \in m.packets /\ Destination(p) = m.to => n = r2 /\ p.source = n1
    BY <1>1, OtherSender DEF Overheard
  <2> QED
    BY <1>2, <2>1, <2>2
<1>4. ASSUME NEW p \in Packet, p.source = n1
      PROVE  counted'[p][r2] + Cardinality(Overheard(p)') <=
                IF Overhearable(p)' THEN 1 ELSE 0
  <2> DEFINE a == Cardinality(Overheard(p))
             b == Cardinality(Overheard(p)')
             c == counted[p][r2]
             d == counted'[p][r2]
  <2>1. a \in Nat /\ c \in Nat /\ IsFiniteSet(Overheard(p))
    BY OverheardFacts
  <2>2. Overheard(p)' = Overheard(p) \ {m}
    BY <1>1 DEF Overheard
  <2>3. Destination(p) = n0
    BY <1>4, HopFacts
  <2>4. d + b = c + a /\ d \in Nat /\ b \in Nat
    <3>1. CASE m \in Overheard(p)
      <4>1. b = a - 1 /\ b \in Nat
        BY <2>1, <2>2, <3>1, FS_RemoveElement, FS_CardinalityType
      <4>2. d = c + 1
        BY <1>1, <1>2, <2>3, <3>1 DEF Overheard
      <4> HIDE DEF a, b, c, d
      <4> QED
        BY <2>1, <4>1, <4>2
    <3>2. CASE m \notin Overheard(p)
      <4>1. b = a
        BY <2>2, <3>2
      <4>2. ~ (r2 = m.from /\ p \in m.packets /\ Destination(p) = m.to)
        BY <2>3, <3>2 DEF Overheard
      <4>3. d = c
        BY <1>1, <1>2, <2>1, <4>2
      <4> QED
        BY <2>1, <4>1, <4>3
    <3> QED
      BY <3>1, <3>2
  <2>5. c + a <= (IF Overhearable(p) THEN 1 ELSE 0)
    BY <1>4 DEF OverheardOnce
  <2>6. d + b <= (IF Overhearable(p)' THEN 1 ELSE 0)
    <3> HIDE DEF a, b, c, d
    <3> QED
      BY <2>4, <2>5
  <2> QED
    BY <2>6
<1> QED
  BY <1>3, <1>4 DEF OverheardOnce, LastHop

\* A pair that r2 codes has been in no pair before: its broadcast is the first copy
\* of either packet that n0 can overhear.
LEMMA CodeOverheard ==
    ASSUME PathInv, OverheardOnce, NEW m \in net, NEW p \in Packet, NEW q \in HeldAt(r2),
           p \notin Received(r2), m.to = r2, coded2' = coded2 \cup {<<q, p>>},
           net' = (net \ {m}) \cup Broadcast(r2, <<q, p>>), UNCHANGED <<overhears, counted>>
    PROVE  OverheardOnce'
<1> DEFINE copy == [from |-> r2, to |-> n0, packets |-> {q, p}]
<1>1. Broadcast(r2, <<q, p>>) =
        {[from |-> r2, to |-> n, packets |-> {q, p}] : n \in Neighbours(r2)}
  BY DEF Broadcast
<1>2. n0 \in Neighbours(r2) <=> overhears
  BY FourNodes DEF Neighbours
<1>3. ASSUME NEW x \in Packet
      PROVE  Overheard(x)' = Overheard(x) \cup
                               (IF overhears /\ x \in {q, p} THEN {copy} ELSE {})
  BY <1>1, <1>2, FourNodes DEF Overheard
<1>4. \A x \in {q, p} : ~ \E c \in coded2 : x \in {c[1], c[2]}
  <2>1. \A c \in Coded(r2) : {c[1], c[2]} \subseteq Received(r2) \ HeldAt(r2)
    BY RelayFacts DEF PathInv, Relay
  <2> QED
    BY <2>1, FourNodes DEF Coded
<1>5. ASSUME NEW x \in Packet PROVE Overhearable(x)' <=> Overhearable(x)
                                      \/ (overhears /\ x \in {q, p})
  BY DEF Overhearable
<1>6. ASSUME NEW x \in Packet, x.source = n1
      PROVE  counted'[x][r2] + Cardinality(Overheard(x)') <=
                IF Overhearable(x)' THEN 1 ELSE 0
  <2>1. /\ Cardinality(Overheard(x)) \in Nat /\ counted[x][r2] \in Nat
        /\ IsFiniteSet(Overheard(x))
    BY OverheardFacts
  <2>2. counted[x][r2] + Cardinality(Overheard(x)) <= IF Overhearable(x) THEN 1 ELSE 0
    BY <1>6 DEF OverheardOnce
  <2>3. CASE overhears /\ x \in {q, p}
    <3>1. ~ Overhearable(x) /\ Overhearable(x)'
      BY <1>4, <1>5, <2>3 DEF Overhearable
    <3>2. counted[x][r2] = 0 /\ Cardinality(Overheard(x)) = 0
      BY <2>1, <2>2, <3>1
    <3>3. Overheard(x) = {}
      BY <2>1, <3>2, FS_EmptySet
    <3>4. Overheard(x)' = {copy}
      BY <1>3, <2>3, <3>3
    <3>5. Cardinality(Overheard(x)') = 1
      BY <3>4, FS_Singleton
    <3> QED
      BY <3>1, <3>2, <3>5
  <2>4. CASE ~ (overhears /\ x \in {q, p})
    <3>1. Overheard(x)' = Overheard(x) /\ (Overhearable(x)' <=> Overhearable(x))
      BY <1>3, <1>5, <2>4
    <3> QED
      BY <2>2, <3>1
  <2> QED
    BY <2>3, <2>4
<1>7. ASSUME NEW x \in Packet, NEW n \in Node \ {LastHop(x)}
      PROVE  counted'[x][n] = 0 \/ (n = r2 /\ x.source = n1)
  BY <1>7 DEF OverheardOnce
<1> QED
  BY <1>6, <1>7 DEF OverheardOnce, LastHop

LEMMA NextOverheard ==
    ASSUME PathInv, OverheardOnce, [Next]_vars
    PROVE  OverheardOnce'
<1>1. IsFiniteSet(net') /\ UNCHANGED overhears /\ Grows
  BY NextOwnTypes, StepGrows, StepEffects, InvGoneType DEF OwnTypes, PathInv
<1>2. \A p \in Packet : Overhearable(p) => Overhearable(p)'
  <2>1. coded2 \subseteq coded2'
    BY <1>1, FourNodes DEF Grows, Relay, Coded
  <2> QED
    BY <1>1, <2>1 DEF Overhearable
<1>3. ASSUME \A m \in net' \ net : m.from # r2 \/ m.to # n0, UNCHANGED counted
      PROVE  OverheardOnce'
  <2>1. \A p \in Packet : Overheard(p)' \subseteq Overheard(p)
    BY <1>3 DEF Overheard
  <2> QED
    BY <1>1, <1>2, <1>3, <2>1, OverheardLess
<1>4. ASSUME NEW c \in Client, SendData(c) PROVE OverheardOnce'
  <2>1. PICK burst \in SUBSET Packet : /\ net' = net \cup {Data(c, p) : p \in burst}
                                       /\ UNCHANGED counted
    BY <1>4, BurstFacts DEF PathInv
  <2>2. \A m \in net' \ net : m.from # r2
    BY <2>1, FourNodes DEF Data, Client
  <2> QED
    BY <1>3, <2>1, <2>2
<1>5. ASSUME NEW m \in net, Vanishes(m) PROVE OverheardOnce'
  <2>1. net' \ net = {} /\ UNCHANGED counted
    BY <1>5 DEF Vanishes, clients
  <2> QED
    BY <1>3, <2>1
<1>6. ASSUME NEW m \in net, ReceiveAtClient(m), RelaysStay PROVE OverheardOnce'
  <2>1. coded2' = coded2
    BY <1>6, FourNodes DEF RelaysStay, Relay, Stays, Coded
  <2>2. \A p \in Packet : Overhearable(p)' <=> Overhearable(p)
    BY <1>1, <2>1 DEF Overhearable
  <2> QED
    BY <1>6, <2>2, CountOverheard
<1>7. ASSUME NEW m \in net, NEW r \in Relay, NEW p \in Packet, TakesIn(r, m, p),
             UNCHANGED <<clients, gone>>
      PROVE  OverheardOnce'
  <2>1. UNCHANGED counted
    BY <1>7 DEF clients
  <2>2. CASE net' = net \ {m}
    <3>1. net' \ net = {}
      BY <2>2
    <3> QED
      BY <1>3, <2>1, <3>1
  <2>3. ASSUME NEW q \in HeldAt(r), Coded(r)' = Coded(r) \cup {<<q, p>>},
               net' = (net \ {m}) \cup Broadcast(r, <<q, p>>)
        PROVE  OverheardOnce'
    <3>1. CASE r = r1
      <4>1. \A k \in Broadcast(r, <<q, p>>) : k.from # r2
        BY <3>1, FourNodes DEF Broadcast
      <4>2. net' \ net \subseteq Broadcast(r, <<q, p>>)
        BY <2>3
      <4> QED
        BY <1>3, <2>1, <4>1, <4>2
    <3>2. CASE r = r2
      <4>1. coded2' = coded2 \cup {<<q, p>>}
        BY <2>3, <3>2, FourNodes DEF Coded
      <4>2. p \notin Received(r2) /\ m.to = r2
        BY <1>7, <3>2 DEF TakesIn
      <4> QED
        BY <1>1, <2>1, <2>3, <3>2, <4>1, <4>2, CodeOverheard
    <3> QED
      BY <3>1, <3>2 DEF Relay
  <2> QED
    BY <1>7, <2>2, <2>3 DEF TakesIn
<1>8. ASSUME NEW r \in Relay, NEW q \in Packet, LetsGo(r, q), UNCHANGED clients
      PROVE  OverheardOnce'
  <2>1. (\A m \in net' \ net : m = Data(r, q)) /\ UNCHANGED counted
    BY <1>8 DEF LetsGo, clients
  <2>2. Data(r, q).from # r2 \/ Data(r, q).to # n0
    BY HopFacts, FourNodes DEF Data, Relay
  <2> QED
    BY <1>3, <2>1, <2>2
<1>9. ASSUME Rests PROVE OverheardOnce'
  <2>1. net' \ net = {} /\ UNCHANGED counted
    BY <1>9 DEF Rests
  <2> QED
    BY <1>3, <2>1
<1> QED
  BY <1>4, <1>5, <1>6, <1>7, <1>8, <1>9, InvGoneType, StepEffects DEF PathInv

LEMMA InitOverheard == Init => OverheardOnce
<1> SUFFICES ASSUME Init PROVE OverheardOnce
  OBVIOUS
<1>1. \A p \in Packet : \A n \in Node : counted[p][n] = 0
  BY DEF Init
<1>2. \A p : Cardinality(Overheard(p)) = 0
  <2>1. \A p : Overheard(p) = {}
    BY DEF Init, Overheard
  <2> QED
    BY <2>1, FS_EmptySet
<1> QED
  BY <1>1, <1>2 DEF OverheardOnce, Node

\* CountsTwiceOnlyIfOverheard for every value of the constants: apart from its one
\* copy from the last hop, a client counts of a packet at most the one copy that it
\* overheard of the broadcast of a coded pair.
THEOREM DataCountsTwiceOnlyIfOverheard == Spec => []CountsTwiceOnlyIfOverheard
<1>1. ASSUME PathInv, OverheardOnce PROVE CountsTwiceOnlyIfOverheard
  <2> SUFFICES ASSUME NEW p \in Packet, NEW n \in Node \ {LastHop(p)}
               PROVE  /\ counted[p][n] <= 1
                      /\ counted[p][n] = 1 =>
                          /\ overhears /\ Destination(p) = n0 /\ n = r2
                          /\ \E c \in coded2 : p \in {c[1], c[2]}
    BY DEF CountsTwiceOnlyIfOverheard
  <2>1. counted[p][n] = 0 \/ (n = r2 /\ p.source = n1)
    BY <1>1 DEF OverheardOnce
  <2>2. CASE n = r2 /\ p.source = n1
    <3>1. /\ Cardinality(Overheard(p)) \in Nat /\ counted[p][n] \in Nat
          /\ counted[p][n] + Cardinality(Overheard(p)) <= IF Overhearable(p) THEN 1 ELSE 0
      BY <1>1, <2>2, OverheardFacts DEF OverheardOnce
    <3>2. counted[p][n] <= 1 /\ (counted[p][n] = 1 => Overhearable(p))
      BY <3>1
    <3> QED
      BY <2>2, <3>2, HopFacts DEF Overhearable
  <2> QED
    BY <2>1, <2>2
<1>2. Spec => [](PathInv /\ OverheardOnce)
  BY InitPath, NextPath, InitOverheard, NextOverheard, PTL DEF Spec
<1> QED
  BY <1>1, <1>2, PTL

-----------------------------------------------------------------------------
(* Each relay of the network is a relay. *)

\* In the network, with the arrivals that it allows and whenever applications stop,
\* both relays keep the promise of RelayPromise: what is proved of a relay by
\* itself holds of each where they are composed.  (MaxSequence is a bound of the
\* model; with no packets RelayQueue has no flows.)
THEOREM DataRelaysKeepTheirPromise ==
    ASSUME MaxSequence # 0
    PROVE  Spec => Q1!KeepsPromise /\ Q2!KeepsPromise
<1>0. ASSUME NEW c \in Client
      PROVE  /\ \E p \in Packet : Q1!Dir(p) = Direction1(c)
             /\ \E p \in Packet : Q2!Dir(p) = Direction2(c)
  <2> DEFINE p == [source |-> c, sequence |-> 1]
  <2>1. p \in Packet /\ p.source = c
    BY DataPlaneAssumption DEF Packet
  <2>2. Q1!Dir(p) = Direction1(c) /\ Q2!Dir(p) = Direction2(c)
    BY <2>1, FourNodes
       DEF Q1!Dir, Q2!Dir, Direction1, Direction2, In1, Out1, In2, Out2, Client
  <2> QED
    BY <2>1, <2>2
<1>1. ASSUME GoneType, [Next]_vars PROVE [Q1!Next]_(Q1!vars) /\ [Q2!Next]_(Q2!vars)
  <2> DEFINE step == [Q1!Next]_(Q1!vars) /\ [Q2!Next]_(Q2!vars)
  <2>1. UNCHANGED relay1 => UNCHANGED Q1!vars
    BY DEF relay1, Q1!vars, Q1!queues
  <2>2. UNCHANGED relay2 => UNCHANGED Q2!vars
    BY DEF relay2, Q2!vars, Q2!queues
  <2>3. ASSUME NEW m \in net, ReceiveAtRelay1(m) PROVE step
    <3>1. PICK p \in Packet : R1!Receive(p)
      BY <1>1, <2>3 DEF ReceiveAtRelay1, ForReceiver, GoneType
    <3> QED
      BY <2>2, <2>3, <3>1, Bridge1 DEF ReceiveAtRelay1, Q1!Next
  <2>4. ASSUME NEW m \in net, ReceiveAtRelay2(m) PROVE step
    <3>1. PICK p \in Packet : R2!Receive(p)
      BY <1>1, <2>4 DEF ReceiveAtRelay2, ForReceiver, GoneType
    <3> QED
      BY <2>1, <2>4, <3>1, Bridge2 DEF ReceiveAtRelay2, Q2!Next
  <2>5. TimerExpires1 => step
    BY <2>2, Bridge1 DEF TimerExpires1, Q1!Next
  <2>6. TimerExpires2 => step
    BY <2>1, Bridge2 DEF TimerExpires2, Q2!Next
  <2>7. ASSUME NEW c \in Client, ForwardRREP1(c) PROVE step
    <3>1. PICK p \in Packet : Q1!Dir(p) = Direction1(c)
      BY <1>0
    <3>2. Q1!InstallFlow(Q1!Dir(p))
      BY <2>7, <3>1, Bridge1 DEF ForwardRREP1
    <3> QED
      BY <2>2, <2>7, <3>2 DEF ForwardRREP1, Q1!Next
  <2>8. ASSUME NEW c \in Client, ForwardRREP2(c) PROVE step
    <3>1. PICK p \in Packet : Q2!Dir(p) = Direction2(c)
      BY <1>0
    <3>2. Q2!InstallFlow(Q2!Dir(p))
      BY <2>8, <3>1, Bridge2 DEF ForwardRREP2
    <3> QED
      BY <2>1, <2>8, <3>2 DEF ForwardRREP2, Q2!Next
  <2>9. UNCHANGED <<relay1, relay2>> => step
    BY <2>1, <2>2
  <2>10. ASSUME NEW c \in Client, HandleRREP(c) \/ DataEventExpires(c) PROVE step
    BY <2>9, <2>10 DEF HandleRREP, DataEventExpires, SendData
  <2>11. ASSUME NEW m \in net, DropAtStopped(m) \/ Lose(m) \/ ReceiveAtClient(m) PROVE step
    BY <2>9, <2>11 DEF DropAtStopped, Lose, ReceiveAtClient
  <2>12. ASSUME NEW group \in StopGroups, StopApplication(group) PROVE step
    BY <2>9, <2>12 DEF StopApplication
  <2>13. UNCHANGED vars => step
    BY <2>9 DEF vars
  <2> QED
    BY <1>1, <2>3, <2>4, <2>5, <2>6, <2>7, <2>8, <2>10, <2>11, <2>12, <2>13
       DEF Next, HandleRead
<1>2. Init => Q1!Init /\ Q2!Init
  BY Bridge1, Bridge2 DEF Init
<1>3. Spec => Q1!Spec /\ Q2!Spec
  <2>1. Spec => []GoneType
    BY AlwaysPath, InvGoneType, PTL
  <2> QED
    BY <1>1, <1>2, <2>1, PTL DEF Spec, Q1!Spec, Q2!Spec
<1>4. Q1!Spec => Q1!KeepsPromise
  BY Q1!RelayKeepsPromise, RelayAssumptions1, TimerAssumptions
<1>5. Q2!Spec => Q2!KeepsPromise
  BY Q2!RelayKeepsPromise, RelayAssumptions2, TimerAssumptions
<1> QED
  BY <1>3, <1>4, <1>5
=============================================================================
