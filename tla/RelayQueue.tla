----------------------------- MODULE RelayQueue -----------------------------
(***************************************************************************)
(* The packet queues of one relay of the DF (delay-forward) application,   *)
(* src/applications/model/delay-forward.cc: the coding queue, in which a   *)
(* data packet waits for a packet of the opposite direction with which it  *)
(* can be broadcast as one coded packet, the plain forward queue, and the  *)
(* timers of both.                                                         *)
(*                                                                         *)
(* A packet is the parsed datagram that the relay was asked to forward:    *)
(* In[p] is its previous hop (senderId) and Out[p] its next hop            *)
(* (m_routingIdTable[destinationId]).  Everything else a packet carries is *)
(* copied by the code and not looked at.  The environment hands each       *)
(* packet to the relay at most once.                                       *)
(*                                                                         *)
(* Both timers are armed with the same delay, m_queueTime, so the timers   *)
(* of the relay expire in the order in which they were armed: the part of  *)
(* the simulator's event list that belongs to the relay is the sequence    *)
(* "pending".  A coding timer is named after the packet whose arrival      *)
(* armed it; the only other timer is the forward timer.                    *)
(***************************************************************************)
EXTENDS Integers, Sequences, SequencesExt, Counting

CONSTANTS Node,         \* neighbours of the relay
          Packet,       \* data packets the relay may be asked to forward
          In, Out,      \* previous and next hop of each packet
          IsDfMode,     \* m_IsDfMode: network coding is switched on
          ForwardTimer, \* the pending event ForwardTimeoutExpired
          NoTimer       \* a key that m_codigTimeout does not hold

ASSUME PacketAssumption ==
    /\ In \in [Packet -> Node]
    /\ Out \in [Packet -> Node]
    /\ \A p \in Packet : In[p] # Out[p]

ASSUME TimerAssumption ==
    /\ IsDfMode \in BOOLEAN
    /\ ForwardTimer \notin Packet
    /\ NoTimer \notin Packet
    /\ NoTimer # ForwardTimer

VARIABLES
    flowTable,            \* m_flowTable: the hops of the installed routes
    waitingBuffer,        \* m_waitingBuffer: packets waiting, per direction
    codingQueue,          \* m_codingQueue: directions, in order of arrival
    codigTimeout,         \* m_codigTimeout: last timer armed, per direction
    waitingForwardBuffer, \* m_waitingForwardBuffer
    pending,              \* the relay's part of the simulator's event list
    received,             \* history: packets handed to the relay
    forwarded,            \* history: how often a packet was sent alone
    coded                 \* history: <<waiting packet, arrived packet>> sent
                          \* as one coded broadcast

queues == <<waitingBuffer, codingQueue, codigTimeout, waitingForwardBuffer>>
vars == <<flowTable, queues, pending, received, forwarded, coded>>

Direction == Node \X Node
Dir(p) == <<In[p], Out[p]>>
Opposite(d) == <<d[2], d[1]>>

Init ==
    /\ flowTable = {}
    /\ waitingBuffer = [d \in Direction |-> <<>>]
    /\ codingQueue = <<>>
    /\ codigTimeout = [d \in Direction |-> NoTimer]
    /\ waitingForwardBuffer = <<>>
    /\ pending = <<>>
    /\ received = {}
    /\ forwarded = [p \in Packet |-> 0]
    /\ coded = {}

-----------------------------------------------------------------------------
(* Tests the handlers make. *)

\* Mutant: a flow of either direction makes a packet codable.
HasEitherFlow(d) == d \in flowTable \/ Opposite(d) \in flowTable

\* SetBidiractional gives every direction of m_flowTable a count of at least
\* one, its own entry, and leaves the zero that StartApplication wrote at every
\* other direction: the count is positive exactly for the installed ones.
HasNetworkCoding(d) == d \in flowTable

\* Mutant: the test is off by one.
HasTwoWaiting(d) == Len(waitingBuffer[d]) > 1

HasWaitingData(d) == waitingBuffer[d] # <<>>

\* Mutant: the head of the coding queue is erased, whatever its direction.
DequeueHead(d) == Tail(codingQueue)

\* std::find on m_codingQueue, then erase: the first entry of the direction.
Dequeue(d) == RemoveFirst(codingQueue, d)

ForwardEventIsRunning == Contains(pending, ForwardTimer)

\* Simulator::Cancel: a timer that already expired, or none, is left alone.
Cancel(events, timer) == RemoveFirst(events, timer)

-----------------------------------------------------------------------------
(* A route reply passes through the relay (ForwardRREP).  Only directions that *)
(* some packet takes are installed: no other is ever looked up.               *)

InstallFlow(d) ==
    /\ d \notin flowTable
    /\ flowTable' = flowTable \cup {d}
    /\ UNCHANGED <<queues, pending, received, forwarded, coded>>

-----------------------------------------------------------------------------
(* A packet to forward arrives, as DF_DATA or inside a DF_CODING broadcast  *)
(* (EncodingData).  Both take the same decision: broadcasts are only made   *)
(* when IsDfMode, which EncodingData therefore does not test.               *)

\* One broadcast carries the waiting packet q and the packet p that arrived.
CodingData(q, p) == coded' = coded \cup {<<q, p>>}

CodeWithWaiting(p) ==
    LET d == Opposite(Dir(p))
        q == Head(waitingBuffer[d])
    IN /\ IsDfMode
       /\ HasNetworkCoding(Dir(p))
       /\ HasWaitingData(d)
       /\ CodingData(q, p)
       /\ waitingBuffer' = [waitingBuffer EXCEPT ![d] = Tail(@)]
       /\ codingQueue' = Dequeue(d)
       /\ pending' = Cancel(pending, codigTimeout[d])
       /\ codigTimeout' = [codigTimeout EXCEPT ![d] = NoTimer]
       /\ UNCHANGED <<waitingForwardBuffer, forwarded>>

WaitForCoding(p) ==
    LET d == Dir(p)
    IN /\ IsDfMode
       /\ HasNetworkCoding(d)
       /\ ~ HasWaitingData(Opposite(d))
       /\ waitingBuffer' = [waitingBuffer EXCEPT ![d] = Append(@, p)]
       /\ codingQueue' = Append(codingQueue, d)
       /\ pending' = Append(pending, p)
       /\ codigTimeout' = [codigTimeout EXCEPT ![d] = p]
       /\ UNCHANGED <<waitingForwardBuffer, forwarded, coded>>

WaitForForward(p) ==
    /\ ~ (IsDfMode /\ HasNetworkCoding(Dir(p)))
    /\ waitingForwardBuffer' = Append(waitingForwardBuffer, p)
    /\ pending' = IF ForwardEventIsRunning THEN pending
                                           ELSE Append(pending, ForwardTimer)
    /\ UNCHANGED <<waitingBuffer, codingQueue, codigTimeout, forwarded, coded>>

EncodingData(p) == CodeWithWaiting(p) \/ WaitForCoding(p) \/ WaitForForward(p)

Receive(p) ==
    /\ p \notin received
    /\ received' = received \cup {p}
    /\ EncodingData(p)
    /\ UNCHANGED flowTable

-----------------------------------------------------------------------------
(* A timer expires.  It has left the event list when its handler runs.      *)

\* ForwardData sends p alone, and then makes sure that a nonempty forward buffer
\* has a timer.
SendAlone(p) == forwarded' = [forwarded EXCEPT ![p] = @ + 1]

\* Mutants: ForwardData does not look at the forward buffer; it stores an event
\* that was never scheduled.
RearmNever(events, buffer) == events
RearmUnscheduled(events, buffer) == Append(events, NoTimer)

\* The event list after that call, when it is "events" before it and the forward
\* buffer is "buffer".
RearmForward(events, buffer) ==
    IF buffer # <<>> /\ ~ Contains(events, ForwardTimer)
    THEN Append(events, ForwardTimer)
    ELSE events

\* Mutants: all packets of the direction are erased with the first one; the
\* packet stays in its buffer.
DropAll(d) == [waitingBuffer EXCEPT ![d] = <<>>]
DropNone(d) == waitingBuffer

\* The first packet leaves the buffer of direction d.  When that was the last one
\* the code erases a map entry, but the one of the opposite direction.
DropFirst(d) ==
    [e \in Direction |->
        IF e = d THEN Tail(waitingBuffer[d])
        ELSE IF e = Opposite(d) /\ Len(waitingBuffer[d]) = 1 THEN <<>>
        ELSE waitingBuffer[e]]

\* The handler does not know which packet its timer was armed for: it forwards
\* the packet at the head of the coding queue.
CodingTimeoutExpired ==
    /\ pending # <<>>
    /\ Head(pending) # ForwardTimer
    /\ IF codingQueue = <<>>
       THEN /\ pending' = Tail(pending)
            /\ UNCHANGED <<waitingBuffer, codingQueue, codigTimeout, forwarded>>
       ELSE LET d == Head(codingQueue)
                p == Head(waitingBuffer[d])
            IN /\ SendAlone(p)
               /\ pending' = Cancel(RearmForward(Tail(pending),
                                                 waitingForwardBuffer),
                                    codigTimeout[Dir(p)])
               /\ codingQueue' = Tail(codingQueue)
               /\ codigTimeout' = [codigTimeout EXCEPT ![Dir(p)] = NoTimer]
               /\ waitingBuffer' = DropFirst(d)
    /\ UNCHANGED <<flowTable, waitingForwardBuffer, received, coded>>

ForwardTimeoutExpired ==
    /\ pending # <<>>
    /\ Head(pending) = ForwardTimer
    /\ IF waitingForwardBuffer = <<>>
       THEN /\ pending' = Tail(pending)
            /\ UNCHANGED <<waitingForwardBuffer, forwarded>>
       ELSE /\ SendAlone(Head(waitingForwardBuffer))
            /\ waitingForwardBuffer' = Tail(waitingForwardBuffer)
            /\ pending' = RearmForward(Tail(pending), Tail(waitingForwardBuffer))
    /\ UNCHANGED <<flowTable, waitingBuffer, codingQueue, codigTimeout,
                   received, coded>>

-----------------------------------------------------------------------------
TimerExpires == CodingTimeoutExpired \/ ForwardTimeoutExpired

Next ==
    \/ \E p \in Packet : InstallFlow(Dir(p)) \/ Receive(p)
    \/ TimerExpires

Spec == Init /\ [][Next]_vars

\* The simulator processes every pending event in time order (Simulator::Run),
\* so a timer that is never cancelled expires.  Nothing is assumed of arrivals.
FairSpec == Spec /\ WF_vars(TimerExpires)

-----------------------------------------------------------------------------
(* Correctness. *)

TypeOK ==
    /\ flowTable \subseteq Direction
    /\ waitingBuffer \in [Direction -> Seq(Packet)]
    /\ codingQueue \in Seq(Direction)
    /\ codigTimeout \in [Direction -> Packet \cup {NoTimer}]
    /\ waitingForwardBuffer \in Seq(Packet)
    /\ pending \in Seq(Packet \cup {ForwardTimer})
    /\ received \subseteq Packet
    /\ forwarded \in [Packet -> Nat]
    /\ coded \subseteq Packet \X Packet

\* Packets of opposite directions never wait at the same time: the second one
\* would have been coded with the first.  CodingTimeoutExpired relies on it when
\* it erases the buffer of the opposite direction.
NeverBothDirections ==
    \A d \in Direction : waitingBuffer[d] # <<>> => waitingBuffer[Opposite(d)] = <<>>

\* The coding queue names a direction once for every packet that waits in its
\* buffer.  CodingTimeoutExpired takes the first packet of the direction at the
\* head, and the coding branch erases the position std::find returns: with an
\* empty buffer, or a direction that is not queued, both are undefined behaviour.
QueueMatchesBuffer ==
    \A d \in Direction : Len(waitingBuffer[d]) = Count(codingQueue, d)

\* While packets wait in the forward buffer exactly one forward timer is pending,
\* whichever of the four places that may arm it did; with none the buffer would
\* only move when the next packet happened to arrive.
ForwardBufferHasTimer ==
    /\ waitingForwardBuffer # <<>> => ForwardEventIsRunning
    /\ Count(pending, ForwardTimer) <= 1

\* How many times the relay holds or has sent packet p.
Copies(p) ==
      Count(waitingForwardBuffer, p)
    + Count(waitingBuffer[Dir(p)], p)
    + forwarded[p]
    + Cardinality({c \in coded : c[1] = p})
    + Cardinality({c \in coded : c[2] = p})

\* A packet the relay was handed is in exactly one place: waiting for a partner,
\* waiting in the forward buffer, sent alone once, or sent in one coded broadcast.
\* Timers that fire early, late or twice neither lose nor repeat a packet.
ExactlyOnce == \A p \in Packet : Copies(p) = IF p \in received THEN 1 ELSE 0

\* A coded broadcast joins two packets that cross at the relay on installed
\* routes: the next hop of each is the previous hop of the other, so each of them
\* knows the packet it has to take out.
DecodableByNextHops ==
    \A c \in coded :
        /\ Out[c[1]] = In[c[2]]
        /\ Out[c[2]] = In[c[1]]
        /\ Dir(c[2]) \in flowTable
        /\ Dir(c[1]) \in flowTable

\* The packets the relay still has to send.
Held == {p \in Packet : \/ Contains(waitingForwardBuffer, p)
                        \/ Contains(waitingBuffer[Dir(p)], p)}

\* The queues and timers implement the relay's promise: see RelayPromise.
Promise == INSTANCE RelayPromise WITH
    routes <- flowTable, held <- Held, alone <- forwarded, together <- coded

KeepsPromise == Promise!Spec

\* A packet in the forward buffer is eventually sent, whatever arrives meanwhile.
ForwardBufferDrains ==
    \A p \in Packet :
        Contains(waitingForwardBuffer, p) ~> forwarded[p] = 1

\* "Timeout for waiting packet expired" (delay-forward.cc:1374): a packet that
\* waits for a partner is sent at the latest when its timeout expires.
WaitingPacketIsSent ==
    \A p \in Packet :
        Contains(waitingBuffer[Dir(p)], p)
            ~> ~ Contains(waitingBuffer[Dir(p)], p)

\* "received pacekt can be networkcoding" (delay-forward.cc:1707): only a packet
\* whose opposite direction is a known flow is made to wait for a partner.
WaitsOnlyForAKnownFlow ==
    \A d \in Direction : waitingBuffer[d] # <<>> => Opposite(d) \in flowTable
=============================================================================
