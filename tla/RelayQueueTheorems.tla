-------------------------- MODULE RelayQueueTheorems --------------------------
(***************************************************************************)
(* The queues of a relay stay consistent for any set of neighbours and     *)
(* packets; it sends every packet once, codes only packets that cross at   *)
(* it, and thereby implements RelayPromise.                                *)
(*                                                                         *)
(* NeverBothDirections and QueueMatchesBuffer need each other: the timeout *)
(* handler erases the buffer of the opposite direction, which keeps the    *)
(* counts right only while that buffer is empty.  Both need to know that a *)
(* packet waits in the buffer of its own direction.                        *)
(*                                                                         *)
(* Seen through the copies of packets that wait, every step of the queues  *)
(* and timers is one of four: a packet starts to wait, a packet arrives    *)
(* and leaves with a waiting one, a waiting packet leaves alone, or        *)
(* nothing moves.  That is StepEffects; what follows it does not look at   *)
(* queues or timers any more.                                              *)
(***************************************************************************)
EXTENDS RelayQueue, OperatorTheorems

BufferHoldsItsDirection ==
    \A d \in Direction : \A i \in DOMAIN waitingBuffer[d] :
        Dir(waitingBuffer[d][i]) = d

IInv ==
    /\ TypeOK
    /\ BufferHoldsItsDirection
    /\ NeverBothDirections
    /\ QueueMatchesBuffer
    /\ ForwardBufferHasTimer

Timer == Packet \cup {ForwardTimer}

-----------------------------------------------------------------------------
(* Directions and timers. *)

LEMMA DirectionFacts ==
    /\ \A p \in Packet : Dir(p) \in Direction /\ Dir(p) # Opposite(Dir(p))
    /\ \A d \in Direction : Opposite(d) \in Direction /\ Opposite(Opposite(d)) = d
BY PacketAssumption DEF Dir, Opposite, Direction

\* A nonempty sequence has a positive length and a head of its element type.
LEMMA NonEmpty ==
    ASSUME NEW S, NEW s \in Seq(S)
    PROVE  /\ Len(s) \in Nat
           /\ s = <<>> <=> Len(s) = 0
           /\ s # <<>> => /\ Head(s) \in S /\ Head(s) = s[1] /\ 1 \in DOMAIN s
                          /\ Tail(s) \in Seq(S)
                          /\ Len(Tail(s)) = Len(s) - 1
BY EmptySeq, LenProperties, HeadTailProperties

\* Cancelling a coding timer, or none, keeps the forward timer.
LEMMA CancelCoding ==
    ASSUME NEW events \in Seq(Timer), NEW t \in Packet \cup {NoTimer}
    PROVE  /\ Cancel(events, t) \in Seq(Timer)
           /\ Count(Cancel(events, t), ForwardTimer) = Count(events, ForwardTimer)
<1>1. t # ForwardTimer
  BY TimerAssumption
<1>2. Count(events, ForwardTimer) \in Nat
  BY CountType
<1>3. Count(RemoveFirst(events, t), ForwardTimer) =
        Count(events, ForwardTimer)
          - (IF Contains(events, t) /\ t = ForwardTimer THEN 1 ELSE 0)
  BY CountRemoveFirst
<1> QED
  BY <1>1, <1>2, <1>3, RemoveFirstType DEF Cancel

\* After the test in ForwardData at most one forward timer is pending, and one
\* is when the forward buffer holds a packet.
LEMMA RearmCounts ==
    ASSUME NEW events \in Seq(Timer), NEW buffer,
           Count(events, ForwardTimer) <= 1
    PROVE  LET after == RearmForward(events, buffer)
           IN  /\ after \in Seq(Timer)
               /\ Count(after, ForwardTimer) <= 1
               /\ buffer # <<>> => Count(after, ForwardTimer) = 1
<1>1. Count(events, ForwardTimer) \in Nat /\ ForwardTimer \in Timer
  BY CountType DEF Timer
<1>2. Count(events, ForwardTimer) = 0 <=> ~ Contains(events, ForwardTimer)
  BY CountZero
<1>3. CASE buffer # <<>> /\ ~ Contains(events, ForwardTimer)
  <2>1. RearmForward(events, buffer) = Append(events, ForwardTimer)
    BY <1>3 DEF RearmForward
  <2>2. Count(Append(events, ForwardTimer), ForwardTimer) =
          Count(events, ForwardTimer) + 1
    BY <1>1, CountAppend
  <2>3. Append(events, ForwardTimer) \in Seq(Timer)
    BY <1>1, AppendProperties
  <2> QED
    BY <1>1, <1>2, <1>3, <2>1, <2>2, <2>3
<1>4. CASE ~ (buffer # <<>> /\ ~ Contains(events, ForwardTimer))
  <2>1. RearmForward(events, buffer) = events
    BY <1>4 DEF RearmForward
  <2> QED
    BY <1>1, <1>2, <1>4, <2>1
<1> QED
  BY <1>3, <1>4

\* The forward timer conjunct in terms of a count.
LEMMA ForwardTimerCount ==
    ASSUME pending \in Seq(Timer)
    PROVE  /\ Count(pending, ForwardTimer) \in Nat
           /\ ForwardEventIsRunning <=> Count(pending, ForwardTimer) # 0
BY CountType, CountZero DEF ForwardEventIsRunning

-----------------------------------------------------------------------------
(* The initial state and every action. *)

LEMMA InitIInv == Init => IInv
<1> SUFFICES ASSUME Init PROVE IInv
  OBVIOUS
<1>1. \A S : <<>> \in Seq(S) /\ Len(<<>>) = 0
  BY EmptySeq
<1>2. TypeOK
  BY <1>1 DEF Init, TypeOK
<1>3. BufferHoldsItsDirection
  BY <1>1 DEF Init, BufferHoldsItsDirection
<1>4. NeverBothDirections
  BY DirectionFacts DEF Init, NeverBothDirections
<1>5. QueueMatchesBuffer
  BY <1>1, CountEmpty DEF Init, QueueMatchesBuffer
<1>6. ForwardBufferHasTimer
  BY CountEmpty DEF Init, ForwardBufferHasTimer
<1> QED
  BY <1>2, <1>3, <1>4, <1>5, <1>6 DEF IInv

\* A packet arrives and a packet of the opposite direction is waiting.
LEMMA CodeWithWaitingStep ==
    ASSUME IInv, NEW p \in Packet, Receive(p), CodeWithWaiting(p)
    PROVE  IInv'
<1> DEFINE d == Opposite(Dir(p))
           W == waitingBuffer
<1>1. /\ d \in Direction /\ Dir(p) \in Direction /\ Opposite(d) = Dir(p) /\ d # Dir(p)
      /\ \A e \in Direction : Opposite(e) \in Direction /\ Opposite(Opposite(e)) = e
  BY DirectionFacts
<1>2. /\ W[d] # <<>> /\ W' = [W EXCEPT ![d] = Tail(@)]
      /\ codingQueue' = RemoveFirst(codingQueue, d)
      /\ pending' = Cancel(pending, codigTimeout[d])
      /\ codigTimeout' = [codigTimeout EXCEPT ![d] = NoTimer]
      /\ coded' = coded \cup {<<Head(W[d]), p>>}
      /\ UNCHANGED <<waitingForwardBuffer, forwarded, flowTable>>
      /\ received' = received \cup {p}
  BY DEF CodeWithWaiting, CodingData, Receive, HasWaitingData, Dequeue
<1> HIDE DEF d
<1>3. TypeOK
  BY DEF IInv
<1>4. W \in [Direction -> Seq(Packet)] /\ \A e \in Direction : W[e] \in Seq(Packet)
  BY <1>3 DEF TypeOK
<1>5. /\ Head(W[d]) \in Packet /\ Tail(W[d]) \in Seq(Packet) /\ Len(W[d]) \in Nat
      /\ Len(Tail(W[d])) = Len(W[d]) - 1 /\ Len(W[d]) # 0
      /\ \A i \in 1..Len(Tail(W[d])) : Tail(W[d])[i] = W[d][i + 1]
      /\ DOMAIN Tail(W[d]) = 1..Len(Tail(W[d])) /\ DOMAIN W[d] = 1..Len(W[d])
  BY <1>1, <1>2, <1>4, NonEmpty, HeadTailProperties, LenProperties
<1>6. /\ pending \in Seq(Timer) /\ codigTimeout[d] \in Packet \cup {NoTimer}
      /\ codingQueue \in Seq(Direction)
  BY <1>1, <1>3 DEF TypeOK, Timer
<1>7. /\ pending' \in Seq(Timer)
      /\ Count(pending', ForwardTimer) = Count(pending, ForwardTimer)
  BY <1>2, <1>6, CancelCoding
<1>8. TypeOK'
  <2>1. codingQueue' \in Seq(Direction)
    BY <1>2, <1>6, RemoveFirstType
  <2>2. waitingBuffer' \in [Direction -> Seq(Packet)]
    BY <1>2, <1>4, <1>5
  <2>3. codigTimeout' \in [Direction -> Packet \cup {NoTimer}]
    BY <1>2, <1>3 DEF TypeOK
  <2>4. coded' \subseteq Packet \X Packet
    BY <1>2, <1>3, <1>5 DEF TypeOK
  <2> QED
    BY <1>2, <1>3, <1>7, <2>1, <2>2, <2>3, <2>4 DEF TypeOK, Timer
<1>9. BufferHoldsItsDirection'
  <2> SUFFICES ASSUME NEW e \in Direction, NEW i \in DOMAIN W'[e]
               PROVE  Dir(W'[e][i]) = e
    BY DEF BufferHoldsItsDirection, Dir
  <2>1. CASE e = d
    <3>1. W'[e] = Tail(W[d])
      BY <1>1, <1>2, <1>4, <2>1
    <3>2. i \in 1..Len(Tail(W[d])) /\ i + 1 \in DOMAIN W[d]
      BY <1>5, <3>1
    <3> QED
      BY <1>1, <1>5, <2>1, <3>1, <3>2 DEF IInv, BufferHoldsItsDirection
  <2>2. CASE e # d
    BY <1>1, <1>2, <1>4, <2>2 DEF IInv, BufferHoldsItsDirection
  <2> QED
    BY <2>1, <2>2
<1>10. NeverBothDirections'
  <2> SUFFICES ASSUME NEW e \in Direction, W'[e] # <<>>
               PROVE  W'[Opposite(e)] = <<>>
    BY DEF NeverBothDirections, Opposite
  <2>1. W[e] # <<>>
    BY <1>2, <1>4
  <2>2. W[Opposite(e)] = <<>>
    BY <2>1 DEF IInv, NeverBothDirections
  <2>3. Opposite(e) # d
    BY <1>2, <2>2
  <2> QED
    BY <1>1, <1>2, <1>4, <2>2, <2>3
<1>11. QueueMatchesBuffer'
  <2> SUFFICES ASSUME NEW e \in Direction
               PROVE  Len(W'[e]) = Count(codingQueue', e)
    BY DEF QueueMatchesBuffer
  <2>1. Len(W[e]) = Count(codingQueue, e) /\ Len(W[d]) = Count(codingQueue, d)
    BY <1>1 DEF IInv, QueueMatchesBuffer
  <2>2. Contains(codingQueue, d)
    BY <1>5, <1>6, <2>1, CountZero
  <2>3. Count(codingQueue', e) = Count(codingQueue, e) - (IF d = e THEN 1 ELSE 0)
    BY <1>2, <1>6, <2>2, CountRemoveFirst
  <2>4. Len(W[e]) \in Nat
    BY <1>4, LenProperties
  <2>5. CASE e = d
    BY <1>2, <1>4, <1>5, <2>1, <2>3, <2>5
  <2>6. CASE e # d
    BY <1>2, <1>4, <2>1, <2>3, <2>4, <2>6
  <2> QED
    BY <2>5, <2>6
<1>12. ForwardBufferHasTimer'
  <2>1. /\ Contains(pending, ForwardTimer) <=> Count(pending, ForwardTimer) # 0
        /\ Contains(pending', ForwardTimer) <=> Count(pending', ForwardTimer) # 0
    BY <1>6, <1>7, CountZero
  <2> QED
    BY <1>2, <1>7, <2>1 DEF IInv, ForwardBufferHasTimer, ForwardEventIsRunning
<1> QED
  BY <1>8, <1>9, <1>10, <1>11, <1>12 DEF IInv

\* A packet arrives that has to wait for a partner.
LEMMA WaitForCodingStep ==
    ASSUME IInv, NEW p \in Packet, Receive(p), WaitForCoding(p)
    PROVE  IInv'
<1> DEFINE d == Dir(p)
           W == waitingBuffer
<1>1. /\ d \in Direction /\ Opposite(d) \in Direction /\ Opposite(d) # d
      /\ \A e \in Direction : Opposite(e) \in Direction /\ Opposite(Opposite(e)) = e
  BY DirectionFacts
<1>2. /\ W[Opposite(d)] = <<>> /\ W' = [W EXCEPT ![d] = Append(@, p)]
      /\ codingQueue' = Append(codingQueue, d)
      /\ pending' = Append(pending, p)
      /\ codigTimeout' = [codigTimeout EXCEPT ![d] = p]
      /\ UNCHANGED <<waitingForwardBuffer, forwarded, flowTable, coded>>
      /\ received' = received \cup {p}
  BY DEF WaitForCoding, Receive, HasWaitingData
<1>3. TypeOK /\ Dir(p) = d
  BY DEF IInv
<1> HIDE DEF d
<1>4. W \in [Direction -> Seq(Packet)] /\ \A e \in Direction : W[e] \in Seq(Packet)
  BY <1>3 DEF TypeOK
<1>5. /\ Append(W[d], p) \in Seq(Packet) /\ Len(W[d]) \in Nat
      /\ Len(Append(W[d], p)) = Len(W[d]) + 1
      /\ \A i \in 1..Len(W[d]) : Append(W[d], p)[i] = W[d][i]
      /\ Append(W[d], p)[Len(W[d]) + 1] = p
      /\ DOMAIN Append(W[d], p) = 1..Len(W[d]) + 1 /\ DOMAIN W[d] = 1..Len(W[d])
  BY <1>1, <1>4, AppendProperties, LenProperties
<1>6. pending \in Seq(Timer) /\ p \in Timer /\ codingQueue \in Seq(Direction)
  BY <1>3 DEF TypeOK, Timer
<1>7. /\ pending' \in Seq(Timer)
      /\ Count(pending', ForwardTimer) = Count(pending, ForwardTimer)
  <2>1. p # ForwardTimer /\ Count(pending, ForwardTimer) \in Nat
    BY <1>6, TimerAssumption, CountType
  <2> QED
    BY <1>2, <1>6, <2>1, AppendProperties, CountAppend
<1>8. TypeOK'
  <2>1. codingQueue' \in Seq(Direction)
    BY <1>1, <1>2, <1>6, AppendProperties
  <2>2. waitingBuffer' \in [Direction -> Seq(Packet)]
    BY <1>2, <1>4, <1>5
  <2>3. codigTimeout' \in [Direction -> Packet \cup {NoTimer}]
    BY <1>2, <1>3 DEF TypeOK
  <2> QED
    BY <1>2, <1>3, <1>7, <2>1, <2>2, <2>3 DEF TypeOK, Timer
<1>9. BufferHoldsItsDirection'
  <2> SUFFICES ASSUME NEW e \in Direction, NEW i \in DOMAIN W'[e]
               PROVE  Dir(W'[e][i]) = e
    BY DEF BufferHoldsItsDirection, Dir
  <2>1. CASE e = d
    <3>1. W'[e] = Append(W[d], p)
      BY <1>1, <1>2, <1>4, <2>1
    <3>2. CASE i = Len(W[d]) + 1
      BY <1>3, <1>5, <2>1, <3>1, <3>2
    <3>3. CASE i # Len(W[d]) + 1
      <4>1. i \in DOMAIN W[d] /\ W'[e][i] = W[d][i]
        BY <1>5, <3>1, <3>3
      <4> QED
        BY <1>1, <2>1, <4>1 DEF IInv, BufferHoldsItsDirection
    <3> QED
      BY <3>2, <3>3
  <2>2. CASE e # d
    BY <1>1, <1>2, <1>4, <2>2 DEF IInv, BufferHoldsItsDirection
  <2> QED
    BY <2>1, <2>2
<1>10. NeverBothDirections'
  <2> SUFFICES ASSUME NEW e \in Direction, W'[e] # <<>>
               PROVE  W'[Opposite(e)] = <<>>
    BY DEF NeverBothDirections, Opposite
  <2>1. CASE e = d
    BY <1>1, <1>2, <1>4, <2>1
  <2>2. CASE e # d
    <3>1. W[e] # <<>>
      BY <1>2, <1>4, <2>2
    <3>2. W[Opposite(e)] = <<>>
      BY <3>1 DEF IInv, NeverBothDirections
    <3>3. Opposite(e) # d
      BY <1>1, <1>2, <3>1
    <3> QED
      BY <1>1, <1>2, <1>4, <3>2, <3>3
  <2> QED
    BY <2>1, <2>2
<1>11. QueueMatchesBuffer'
  <2> SUFFICES ASSUME NEW e \in Direction
               PROVE  Len(W'[e]) = Count(codingQueue', e)
    BY DEF QueueMatchesBuffer
  <2>1. Len(W[e]) = Count(codingQueue, e)
    BY DEF IInv, QueueMatchesBuffer
  <2>2. Count(codingQueue', e) = Count(codingQueue, e) + (IF d = e THEN 1 ELSE 0)
    BY <1>1, <1>2, <1>6, CountAppend
  <2>3. Len(W[e]) \in Nat
    BY <1>4, LenProperties
  <2>4. CASE e = d
    BY <1>2, <1>4, <1>5, <2>1, <2>2, <2>4
  <2>5. CASE e # d
    BY <1>2, <1>4, <2>1, <2>2, <2>3, <2>5
  <2> QED
    BY <2>4, <2>5
<1>12. ForwardBufferHasTimer'
  <2>1. /\ Contains(pending, ForwardTimer) <=> Count(pending, ForwardTimer) # 0
        /\ Contains(pending', ForwardTimer) <=> Count(pending', ForwardTimer) # 0
    BY <1>6, <1>7, CountZero
  <2> QED
    BY <1>2, <1>7, <2>1 DEF IInv, ForwardBufferHasTimer, ForwardEventIsRunning
<1> QED
  BY <1>8, <1>9, <1>10, <1>11, <1>12 DEF IInv

\* A packet arrives that cannot be coded.
LEMMA WaitForForwardStep ==
    ASSUME IInv, NEW p \in Packet, Receive(p), WaitForForward(p)
    PROVE  IInv'
<1>1. /\ UNCHANGED <<waitingBuffer, codingQueue, codigTimeout, forwarded, coded,
                     flowTable>>
      /\ waitingForwardBuffer' = Append(waitingForwardBuffer, p)
      /\ received' = received \cup {p}
      /\ pending' = IF ForwardEventIsRunning THEN pending
                    ELSE Append(pending, ForwardTimer)
  BY DEF WaitForForward, Receive
<1>2. TypeOK
  BY DEF IInv
<1>3. pending \in Seq(Timer) /\ ForwardTimer \in Timer
  BY <1>2 DEF TypeOK, Timer
<1>4. /\ Count(pending, ForwardTimer) \in Nat /\ Count(pending, ForwardTimer) <= 1
      /\ ForwardEventIsRunning <=> Count(pending, ForwardTimer) # 0
  BY <1>3, ForwardTimerCount DEF IInv, ForwardBufferHasTimer
<1>5. pending' \in Seq(Timer) /\ Count(pending', ForwardTimer) = 1
  <2>1. CASE ForwardEventIsRunning
    BY <1>1, <1>3, <1>4, <2>1
  <2>2. CASE ~ ForwardEventIsRunning
    <3>1. Count(Append(pending, ForwardTimer), ForwardTimer) =
            Count(pending, ForwardTimer) + 1
      BY <1>3, CountAppend
    <3> QED
      BY <1>1, <1>3, <1>4, <2>2, <3>1, AppendProperties
  <2> QED
    BY <2>1, <2>2
<1>6. TypeOK'
  <2>1. waitingForwardBuffer' \in Seq(Packet)
    BY <1>1, <1>2, AppendProperties DEF TypeOK
  <2> QED
    BY <1>1, <1>2, <1>5, <2>1 DEF TypeOK, Timer
<1>7. BufferHoldsItsDirection'
  BY <1>1 DEF IInv, BufferHoldsItsDirection, Dir
<1>8. NeverBothDirections'
  BY <1>1 DEF IInv, NeverBothDirections, Opposite
<1>9. QueueMatchesBuffer'
  BY <1>1 DEF IInv, QueueMatchesBuffer
<1>10. ForwardBufferHasTimer'
  <2>1. Contains(pending', ForwardTimer) <=> Count(pending', ForwardTimer) # 0
    BY <1>5, CountZero
  <2> QED
    BY <1>5, <2>1 DEF ForwardBufferHasTimer, ForwardEventIsRunning
<1> QED
  BY <1>6, <1>7, <1>8, <1>9, <1>10 DEF IInv

\* The timer at the head of the event list leaves it.
LEMMA TimerLeaves ==
    ASSUME IInv, pending # <<>>
    PROVE  /\ Tail(pending) \in Seq(Timer)
           /\ Count(Tail(pending), ForwardTimer) =
                Count(pending, ForwardTimer)
                  - (IF Head(pending) = ForwardTimer THEN 1 ELSE 0)
           /\ Count(pending, ForwardTimer) \in {0, 1}
           /\ waitingForwardBuffer # <<>> => Count(pending, ForwardTimer) = 1
           /\ Count(Tail(pending), ForwardTimer) \in {0, 1}
<1>1. pending \in Seq(Timer)
  BY DEF IInv, TypeOK, Timer
<1>2. Tail(pending) \in Seq(Timer)
  BY <1>1, NonEmpty
<1>3. /\ Count(pending, ForwardTimer) \in Nat
      /\ Count(Tail(pending), ForwardTimer) \in Nat
  BY <1>1, <1>2, CountType
<1>4. Count(Tail(pending), ForwardTimer) =
        Count(pending, ForwardTimer) - (IF Head(pending) = ForwardTimer THEN 1 ELSE 0)
  BY <1>1, CountTail
<1>5. /\ Count(pending, ForwardTimer) <= 1
      /\ waitingForwardBuffer # <<>> => Count(pending, ForwardTimer) # 0
  BY <1>1, ForwardTimerCount DEF IInv, ForwardBufferHasTimer
<1> QED
  BY <1>2, <1>3, <1>4, <1>5

\* A coding timer expires and finds the coding queue empty.
LEMMA IdleTimeoutStep ==
    ASSUME IInv, CodingTimeoutExpired, codingQueue = <<>>
    PROVE  IInv'
<1>1. /\ pending # <<>> /\ Head(pending) # ForwardTimer /\ pending' = Tail(pending)
      /\ UNCHANGED <<flowTable, queues, received, forwarded, coded>>
  BY DEF CodingTimeoutExpired, queues
<1>2. /\ pending' \in Seq(Timer)
      /\ Count(pending', ForwardTimer) = Count(pending, ForwardTimer)
      /\ Count(pending, ForwardTimer) \in {0, 1}
      /\ waitingForwardBuffer # <<>> => Count(pending, ForwardTimer) = 1
  BY <1>1, TimerLeaves
<1>3. TypeOK'
  BY <1>1, <1>2 DEF IInv, TypeOK, Timer, queues
<1>4. BufferHoldsItsDirection' /\ NeverBothDirections' /\ QueueMatchesBuffer'
  BY <1>1 DEF IInv, BufferHoldsItsDirection, Dir, NeverBothDirections, Opposite,
              QueueMatchesBuffer, queues
<1>5. Contains(pending', ForwardTimer) <=> Count(pending', ForwardTimer) # 0
  BY <1>2, CountZero
<1> QED
  BY <1>1, <1>2, <1>3, <1>4, <1>5
     DEF IInv, ForwardBufferHasTimer, ForwardEventIsRunning, queues

\* A coding timer expires and the packet at the head of the coding queue is sent.
LEMMA FlushTimeoutStep ==
    ASSUME IInv, CodingTimeoutExpired, codingQueue # <<>>
    PROVE  IInv'
<1> DEFINE d == Head(codingQueue)
           W == waitingBuffer
           p == Head(W[d])
           events == RearmForward(Tail(pending), waitingForwardBuffer)
<1>1. /\ pending # <<>> /\ Head(pending) # ForwardTimer
      /\ forwarded' = [forwarded EXCEPT ![p] = @ + 1]
      /\ pending' = Cancel(events, codigTimeout[Dir(p)])
      /\ codingQueue' = Tail(codingQueue)
      /\ codigTimeout' = [codigTimeout EXCEPT ![Dir(p)] = NoTimer]
      /\ waitingBuffer' = DropFirst(d)
      /\ UNCHANGED <<flowTable, waitingForwardBuffer, received, coded>>
  BY DEF CodingTimeoutExpired, SendAlone
<1>2. TypeOK
  BY DEF IInv
<1>3. /\ codingQueue \in Seq(Direction) /\ d \in Direction
      /\ Tail(codingQueue) \in Seq(Direction)
  BY <1>2, NonEmpty DEF TypeOK
<1>4. /\ \A e \in Direction : Count(Tail(codingQueue), e) =
             Count(codingQueue, e) - (IF d = e THEN 1 ELSE 0)
      /\ \A e \in Direction : Count(Tail(codingQueue), e) \in Nat
  BY <1>3, CountTail, CountType
<1> HIDE DEF d
<1>5. W \in [Direction -> Seq(Packet)] /\ \A e \in Direction : W[e] \in Seq(Packet)
  BY <1>2 DEF TypeOK
<1>6. /\ \A e \in Direction : Len(W[e]) \in Nat /\ (W[e] = <<>> <=> Len(W[e]) = 0)
      /\ \A e \in Direction : Len(W[e]) = Count(codingQueue, e)
      /\ W[d] # <<>>
  <2>1. \A e \in Direction : Len(W[e]) \in Nat /\ (W[e] = <<>> <=> Len(W[e]) = 0)
    BY <1>5, NonEmpty
  <2>2. \A e \in Direction : Len(W[e]) = Count(codingQueue, e)
    BY DEF IInv, QueueMatchesBuffer
  <2>3. Len(W[d]) # 0
    BY <1>3, <1>4, <2>1, <2>2
  <2> QED
    BY <1>3, <2>1, <2>2, <2>3
<1>7. /\ p \in Packet /\ Tail(W[d]) \in Seq(Packet)
      /\ Len(Tail(W[d])) = Len(W[d]) - 1
      /\ \A i \in 1..Len(Tail(W[d])) : Tail(W[d])[i] = W[d][i + 1]
      /\ DOMAIN Tail(W[d]) = 1..Len(Tail(W[d])) /\ DOMAIN W[d] = 1..Len(W[d])
      /\ p = W[d][1] /\ 1 \in DOMAIN W[d]
  BY <1>3, <1>5, <1>6, NonEmpty, HeadTailProperties, LenProperties
<1>8. Dir(p) = d
  BY <1>3, <1>7 DEF IInv, BufferHoldsItsDirection
<1>9. /\ Opposite(d) # d /\ Opposite(d) \in Direction
      /\ \A e \in Direction : Opposite(e) \in Direction /\ Opposite(Opposite(e)) = e
  BY <1>3, <1>7, <1>8, DirectionFacts
<1>10. W[Opposite(d)] = <<>>
  BY <1>3, <1>6 DEF IInv, NeverBothDirections
<1> HIDE DEF p
\* The entry erased for the opposite direction was empty.
<1>11. W' = [W EXCEPT ![d] = Tail(@)]
  BY <1>1, <1>3, <1>5, <1>9, <1>10 DEF DropFirst
<1>12. /\ pending' \in Seq(Timer)
       /\ Count(pending', ForwardTimer) <= 1
       /\ waitingForwardBuffer # <<>> => Count(pending', ForwardTimer) = 1
  <2>1. Tail(pending) \in Seq(Timer) /\ Count(Tail(pending), ForwardTimer) <= 1
    BY <1>1, TimerLeaves
  <2>2. /\ events \in Seq(Timer) /\ Count(events, ForwardTimer) <= 1
        /\ waitingForwardBuffer # <<>> => Count(events, ForwardTimer) = 1
    BY <2>1, RearmCounts
  <2>3. codigTimeout[Dir(p)] \in Packet \cup {NoTimer}
    BY <1>2, <1>3, <1>8 DEF TypeOK
  <2>4. pending' = Cancel(events, codigTimeout[Dir(p)])
        /\ waitingForwardBuffer' = waitingForwardBuffer
    BY <1>1
  <2> HIDE DEF events
  <2>5. /\ Cancel(events, codigTimeout[Dir(p)]) \in Seq(Timer)
        /\ Count(Cancel(events, codigTimeout[Dir(p)]), ForwardTimer)
             = Count(events, ForwardTimer)
    BY <2>2, <2>3, CancelCoding
  <2> QED
    BY <2>2, <2>4, <2>5
<1>13. TypeOK'
  <2>1. waitingBuffer' \in [Direction -> Seq(Packet)]
    BY <1>5, <1>7, <1>11
  <2>2. codigTimeout' \in [Direction -> Packet \cup {NoTimer}]
    BY <1>1, <1>2 DEF TypeOK
  <2>3. forwarded' \in [Packet -> Nat]
    BY <1>1, <1>2, <1>7 DEF TypeOK
  <2> QED
    BY <1>1, <1>2, <1>3, <1>12, <2>1, <2>2, <2>3 DEF TypeOK, Timer
<1>14. BufferHoldsItsDirection'
  <2> SUFFICES ASSUME NEW e \in Direction, NEW i \in DOMAIN W'[e]
               PROVE  Dir(W'[e][i]) = e
    BY DEF BufferHoldsItsDirection, Dir
  <2>1. CASE e = d
    <3>1. W'[e] = Tail(W[d])
      BY <1>3, <1>5, <1>11, <2>1
    <3>2. i \in 1..Len(Tail(W[d])) /\ i + 1 \in DOMAIN W[d]
      BY <1>3, <1>6, <1>7, <3>1
    <3> QED
      BY <1>3, <1>7, <2>1, <3>1, <3>2 DEF IInv, BufferHoldsItsDirection
  <2>2. CASE e # d
    BY <1>5, <1>11, <2>2 DEF IInv, BufferHoldsItsDirection
  <2> QED
    BY <2>1, <2>2
<1>15. NeverBothDirections'
  <2> SUFFICES ASSUME NEW e \in Direction, W'[e] # <<>>
               PROVE  W'[Opposite(e)] = <<>>
    BY DEF NeverBothDirections, Opposite
  <2>1. W[e] # <<>>
    BY <1>5, <1>6, <1>11
  <2>2. W[Opposite(e)] = <<>>
    BY <2>1 DEF IInv, NeverBothDirections
  <2>3. Opposite(e) # d
    BY <1>6, <2>2
  <2> QED
    BY <1>5, <1>9, <1>11, <2>2, <2>3
<1>16. QueueMatchesBuffer'
  <2> SUFFICES ASSUME NEW e \in Direction
               PROVE  Len(W'[e]) = Count(codingQueue', e)
    BY DEF QueueMatchesBuffer
  <2>1. CASE e = d
    BY <1>1, <1>3, <1>4, <1>5, <1>6, <1>7, <1>11, <2>1
  <2>2. CASE e # d
    BY <1>1, <1>4, <1>5, <1>6, <1>11, <2>2
  <2> QED
    BY <2>1, <2>2
<1>17. ForwardBufferHasTimer'
  <2>1. Contains(pending', ForwardTimer) <=> Count(pending', ForwardTimer) # 0
    BY <1>12, CountZero
  <2> QED
    BY <1>1, <1>12, <2>1 DEF ForwardBufferHasTimer, ForwardEventIsRunning
<1> QED
  BY <1>13, <1>14, <1>15, <1>16, <1>17 DEF IInv

\* The forward timer expires.
LEMMA ForwardTimeoutStep ==
    ASSUME IInv, ForwardTimeoutExpired
    PROVE  IInv'
<1>1. /\ pending # <<>> /\ Head(pending) = ForwardTimer
      /\ UNCHANGED <<flowTable, waitingBuffer, codingQueue, codigTimeout,
                     received, coded>>
  BY DEF ForwardTimeoutExpired
<1>2. TypeOK
  BY DEF IInv
<1>3. Tail(pending) \in Seq(Timer) /\ Count(Tail(pending), ForwardTimer) <= 1
  BY <1>1, TimerLeaves
<1>4. /\ pending' \in Seq(Timer)
      /\ Count(pending', ForwardTimer) <= 1
      /\ waitingForwardBuffer' # <<>> => Count(pending', ForwardTimer) = 1
      /\ waitingForwardBuffer' \in Seq(Packet)
      /\ forwarded' \in [Packet -> Nat]
  <2>1. CASE waitingForwardBuffer = <<>>
    BY <1>2, <1>3, <2>1 DEF ForwardTimeoutExpired, TypeOK
  <2>2. CASE waitingForwardBuffer # <<>>
    <3> DEFINE rest == Tail(waitingForwardBuffer)
    <3>1. Head(waitingForwardBuffer) \in Packet /\ rest \in Seq(Packet)
      BY <1>2, <2>2, NonEmpty DEF TypeOK
    <3>2. /\ pending' = RearmForward(Tail(pending), rest)
          /\ waitingForwardBuffer' = rest
          /\ forwarded' = [forwarded EXCEPT ![Head(waitingForwardBuffer)] = @ + 1]
      BY <2>2 DEF ForwardTimeoutExpired, SendAlone
    <3>3. forwarded' \in [Packet -> Nat]
      BY <1>2, <3>1, <3>2 DEF TypeOK
    <3> HIDE DEF rest
    <3> QED
      BY <1>3, <3>1, <3>2, <3>3, RearmCounts
  <2> QED
    BY <2>1, <2>2
<1>5. TypeOK'
  BY <1>1, <1>2, <1>4 DEF TypeOK, Timer
<1>6. BufferHoldsItsDirection' /\ NeverBothDirections' /\ QueueMatchesBuffer'
  BY <1>1 DEF IInv, BufferHoldsItsDirection, Dir, NeverBothDirections, Opposite,
              QueueMatchesBuffer
<1>7. Contains(pending', ForwardTimer) <=> Count(pending', ForwardTimer) # 0
  BY <1>4, CountZero
<1> QED
  BY <1>4, <1>5, <1>6, <1>7 DEF IInv, ForwardBufferHasTimer, ForwardEventIsRunning

\* A route is installed, or nothing happens.
LEMMA OtherSteps ==
    ASSUME IInv, UNCHANGED vars \/ \E p \in Packet : InstallFlow(Dir(p))
    PROVE  IInv'
<1>1. /\ UNCHANGED <<waitingBuffer, codingQueue, codigTimeout,
                     waitingForwardBuffer, pending, received, forwarded, coded>>
      /\ flowTable' \subseteq Direction
  BY DirectionFacts DEF InstallFlow, vars, queues, IInv, TypeOK
<1> QED
  BY <1>1 DEF IInv, TypeOK, BufferHoldsItsDirection, Dir, NeverBothDirections,
              Opposite, QueueMatchesBuffer, ForwardBufferHasTimer,
              ForwardEventIsRunning

-----------------------------------------------------------------------------
\* The invariant is inductive.
LEMMA NextIInv == IInv /\ [Next]_vars => IInv'
<1> SUFFICES ASSUME IInv, [Next]_vars PROVE IInv'
  OBVIOUS
<1>1. ASSUME NEW p \in Packet, Receive(p) PROVE IInv'
  <2>1. CodeWithWaiting(p) \/ WaitForCoding(p) \/ WaitForForward(p)
    BY <1>1 DEF Receive, EncodingData
  <2> QED
    BY <1>1, <2>1, CodeWithWaitingStep, WaitForCodingStep, WaitForForwardStep
<1>2. ASSUME TimerExpires PROVE IInv'
  BY <1>2, IdleTimeoutStep, FlushTimeoutStep, ForwardTimeoutStep DEF TimerExpires
<1> QED
  BY <1>1, <1>2, OtherSteps DEF Next

\* Every reachable state of the relay satisfies the inductive invariant.
THEOREM RelayInvariant == Spec => []IInv
<1>1. Init => IInv
  BY InitIInv
<1>2. IInv /\ [Next]_vars => IInv'
  BY NextIInv
<1> QED
  BY <1>1, <1>2, PTL DEF Spec

\* Each variable of the relay keeps its type.
THEOREM RelayTypeOK == Spec => []TypeOK
<1>1. IInv => TypeOK
  BY DEF IInv
<1> QED
  BY <1>1, RelayInvariant, PTL

\* Packets of opposite directions never wait at the same time, so that erasing
\* the buffer of the opposite direction in CodingTimeoutExpired loses nothing.
THEOREM RelayNeverBothDirections == Spec => []NeverBothDirections
<1>1. IInv => NeverBothDirections
  BY DEF IInv
<1> QED
  BY <1>1, RelayInvariant, PTL

\* The coding queue and the waiting buffers agree: neither the timeout handler
\* nor the coding branch ever indexes an empty buffer or erases what is not there.
THEOREM RelayQueueMatchesBuffer == Spec => []QueueMatchesBuffer
<1>1. IInv => QueueMatchesBuffer
  BY DEF IInv
<1> QED
  BY <1>1, RelayInvariant, PTL

\* A nonempty forward buffer has exactly one pending timer.
THEOREM RelayForwardBufferHasTimer == Spec => []ForwardBufferHasTimer
<1>1. IInv => ForwardBufferHasTimer
  BY DEF IInv
<1> QED
  BY <1>1, RelayInvariant, PTL

-----------------------------------------------------------------------------
(* Copies of packets. *)

\* Copies of p that wait at the relay.
Waiting(p) == Count(waitingForwardBuffer, p) + Count(waitingBuffer[Dir(p)], p)

\* Broadcasts in which p is the packet that waited, or the one that arrived.
CodedFirst(p) == {c \in coded : c[1] = p}
CodedSecond(p) == {c \in coded : c[2] = p}

WaitsOnInstalledFlow == \A d \in Direction : waitingBuffer[d] # <<>> => d \in flowTable

OnceInv ==
    /\ IsFiniteSet(coded)
    /\ WaitsOnInstalledFlow
    /\ DecodableByNextHops
    /\ ExactlyOnce

-----------------------------------------------------------------------------
(* What a step does to the waiting packets. *)

StartsWaiting(p) ==
    /\ p \notin received
    /\ received' = received \cup {p}
    /\ \A r \in Packet : Waiting(r)' = Waiting(r) + (IF r = p THEN 1 ELSE 0)
    /\ UNCHANGED <<flowTable, forwarded, coded>>

LeaveTogether(q, p) ==
    /\ p \notin received
    /\ received' = received \cup {p}
    /\ Dir(q) = Opposite(Dir(p))
    /\ {Dir(p), Dir(q)} \subseteq flowTable
    /\ \A r \in Packet : Waiting(r)' = Waiting(r) - (IF r = q THEN 1 ELSE 0)
    /\ Waiting(q) # 0
    /\ coded' = coded \cup {<<q, p>>}
    /\ UNCHANGED <<flowTable, forwarded>>

LeavesAlone(p) ==
    /\ \A r \in Packet : Waiting(r)' = Waiting(r) - (IF r = p THEN 1 ELSE 0)
    /\ Waiting(p) # 0
    /\ forwarded' = [forwarded EXCEPT ![p] = @ + 1]
    /\ UNCHANGED <<flowTable, received, coded>>

NothingMoves ==
    /\ \A r \in Packet : Waiting(r)' = Waiting(r)
    /\ UNCHANGED <<received, forwarded, coded>>
    /\ flowTable' = flowTable \/ \E d \in Direction : flowTable' = flowTable \cup {d}

LEMMA WaitingType ==
    ASSUME IInv, NEW p \in Packet
    PROVE  /\ Dir(p) \in Direction
           /\ waitingForwardBuffer \in Seq(Packet)
           /\ waitingBuffer[Dir(p)] \in Seq(Packet)
           /\ Count(waitingForwardBuffer, p) \in Nat
           /\ Count(waitingBuffer[Dir(p)], p) \in Nat
           /\ Waiting(p) \in Nat
<1>1. /\ Dir(p) \in Direction
      /\ waitingForwardBuffer \in Seq(Packet)
      /\ waitingBuffer[Dir(p)] \in Seq(Packet)
  BY DirectionFacts DEF IInv, TypeOK
<1>2. /\ Count(waitingForwardBuffer, p) \in Nat
      /\ Count(waitingBuffer[Dir(p)], p) \in Nat
  BY <1>1, CountType
<1> QED
  BY <1>1, <1>2 DEF Waiting

\* The packet at the head of a nonempty buffer of direction d takes d, and when it
\* leaves, one of its waiting copies does.
LEMMA HeadLeaves ==
    ASSUME IInv, NEW d \in Direction, waitingBuffer[d] # <<>>,
           waitingBuffer' = [waitingBuffer EXCEPT ![d] = Tail(@)],
           UNCHANGED waitingForwardBuffer
    PROVE  LET q == Head(waitingBuffer[d])
           IN  /\ q \in Packet
               /\ Dir(q) = d
               /\ Waiting(q) # 0
               /\ \A r \in Packet : Waiting(r)' = Waiting(r) - (IF r = q THEN 1 ELSE 0)
<1> DEFINE W == waitingBuffer
           q == Head(W[d])
<1>1. W \in [Direction -> Seq(Packet)] /\ W[d] \in Seq(Packet)
  BY DEF IInv, TypeOK
<1>2. q \in Packet /\ q = W[d][1] /\ 1 \in DOMAIN W[d] /\ Tail(W[d]) \in Seq(Packet)
  BY <1>1, NonEmpty
<1>3. Dir(q) = d
  BY <1>2 DEF IInv, BufferHoldsItsDirection
<1>4. \A r \in Packet :
        /\ Count(Tail(W[d]), r) = Count(W[d], r) - (IF q = r THEN 1 ELSE 0)
        /\ Count(Tail(W[d]), r) \in Nat
  BY <1>1, <1>2, CountTail, CountType
<1> HIDE DEF q
<1>5. ASSUME NEW r \in Packet
      PROVE  Waiting(r)' = Waiting(r) - (IF r = q THEN 1 ELSE 0)
  <2>1. /\ Dir(r) \in Direction
        /\ Count(waitingForwardBuffer, r) \in Nat /\ Count(W[Dir(r)], r) \in Nat
    BY WaitingType
  <2>2. Waiting(r)' = Count(waitingForwardBuffer, r) + Count(W'[Dir(r)], r)
    BY DEF Waiting, Dir
  <2>3. CASE Dir(r) = d
    <3>1. W'[Dir(r)] = Tail(W[d])
      BY <1>1, <2>3
    <3> QED
      BY <1>4, <2>1, <2>2, <2>3, <3>1 DEF Waiting
  <2>4. CASE Dir(r) # d
    <3>1. W'[Dir(r)] = W[Dir(r)] /\ r # q
      BY <1>1, <1>3, <2>1, <2>4
    <3> QED
      BY <2>1, <2>2, <3>1 DEF Waiting
  <2> QED
    BY <2>3, <2>4
<1>6. Waiting(q) # 0
  <2>1. /\ Count(waitingForwardBuffer, q) \in Nat /\ Count(W[d], q) \in Nat
    BY <1>2, <1>3, WaitingType
  <2>2. Count(W[d], q) # 0
    BY <1>2, <1>4, <2>1
  <2> QED
    BY <1>3, <2>1, <2>2 DEF Waiting
<1> QED
  BY <1>2, <1>3, <1>5, <1>6 DEF q

\* A packet that joins a buffer adds one waiting copy of itself.
LEMMA JoinsBuffer ==
    ASSUME IInv, NEW p \in Packet,
           \/ /\ waitingBuffer' = [waitingBuffer EXCEPT ![Dir(p)] = Append(@, p)]
              /\ UNCHANGED waitingForwardBuffer
           \/ /\ waitingForwardBuffer' = Append(waitingForwardBuffer, p)
              /\ UNCHANGED waitingBuffer
    PROVE  \A r \in Packet : Waiting(r)' = Waiting(r) + (IF r = p THEN 1 ELSE 0)
<1> SUFFICES ASSUME NEW r \in Packet
             PROVE  Waiting(r)' = Waiting(r) + (IF r = p THEN 1 ELSE 0)
  OBVIOUS
<1> DEFINE W == waitingBuffer
           F == waitingForwardBuffer
<1>1. /\ Dir(r) \in Direction /\ Dir(p) \in Direction
      /\ F \in Seq(Packet) /\ W[Dir(p)] \in Seq(Packet)
      /\ Count(F, r) \in Nat /\ Count(W[Dir(r)], r) \in Nat
  BY WaitingType
<1>2. W \in [Direction -> Seq(Packet)]
  BY DEF IInv, TypeOK
<1>3. /\ Count(Append(F, p), r) = Count(F, r) + (IF p = r THEN 1 ELSE 0)
      /\ Count(Append(W[Dir(p)], p), r) = Count(W[Dir(p)], r) + (IF p = r THEN 1 ELSE 0)
  BY <1>1, CountAppend
<1>4. Waiting(r)' = Count(F', r) + Count(W'[Dir(r)], r)
  BY DEF Waiting, Dir
<1>5. CASE W' = [W EXCEPT ![Dir(p)] = Append(@, p)] /\ F' = F
  <2>1. CASE Dir(r) = Dir(p)
    <3>1. W'[Dir(r)] = Append(W[Dir(p)], p)
      BY <1>1, <1>2, <1>5, <2>1
    <3> QED
      BY <1>1, <1>3, <1>4, <1>5, <2>1, <3>1 DEF Waiting
  <2>2. CASE Dir(r) # Dir(p)
    <3>1. W'[Dir(r)] = W[Dir(r)] /\ r # p
      BY <1>1, <1>2, <1>5, <2>2
    <3> QED
      BY <1>1, <1>4, <1>5, <3>1 DEF Waiting
  <2> QED
    BY <2>1, <2>2
<1>6. CASE F' = Append(F, p) /\ W' = W
  BY <1>1, <1>3, <1>4, <1>6 DEF Waiting
<1> QED
  BY <1>5, <1>6

LEMMA ReceiveEffects ==
    ASSUME IInv, WaitsOnInstalledFlow, NEW p \in Packet, Receive(p)
    PROVE  \/ StartsWaiting(p)
           \/ \E q \in Packet : LeaveTogether(q, p)
<1>1. /\ p \notin received /\ received' = received \cup {p} /\ flowTable' = flowTable
      /\ CodeWithWaiting(p) \/ WaitForCoding(p) \/ WaitForForward(p)
  BY DEF Receive, EncodingData
<1>2. CASE WaitForCoding(p) \/ WaitForForward(p)
  <2>1. UNCHANGED <<forwarded, coded>>
    BY <1>2 DEF WaitForCoding, WaitForForward
  <2>2. \A r \in Packet : Waiting(r)' = Waiting(r) + (IF r = p THEN 1 ELSE 0)
    BY <1>2, JoinsBuffer DEF WaitForCoding, WaitForForward
  <2> QED
    BY <1>1, <2>1, <2>2 DEF StartsWaiting
<1>3. CASE CodeWithWaiting(p)
  <2> DEFINE d == Opposite(Dir(p))
             q == Head(waitingBuffer[d])
  <2>1. /\ waitingBuffer[d] # <<>> /\ Dir(p) \in flowTable
        /\ waitingBuffer' = [waitingBuffer EXCEPT ![d] = Tail(@)]
        /\ coded' = coded \cup {<<q, p>>}
        /\ UNCHANGED <<waitingForwardBuffer, forwarded>>
    BY <1>3 DEF CodeWithWaiting, CodingData, HasWaitingData, HasNetworkCoding
  <2>2. d \in Direction
    BY DirectionFacts
  <2> HIDE DEF d
  <2>3. /\ q \in Packet /\ Dir(q) = d /\ Waiting(q) # 0
        /\ \A r \in Packet : Waiting(r)' = Waiting(r) - (IF r = q THEN 1 ELSE 0)
    BY <2>1, <2>2, HeadLeaves
  <2>4. d \in flowTable
    BY <2>1, <2>2 DEF WaitsOnInstalledFlow
  <2>5. Dir(q) = Opposite(Dir(p))
    BY <2>3 DEF d
  <2> HIDE DEF q
  <2>6. LeaveTogether(q, p)
    BY <1>1, <2>1, <2>3, <2>4, <2>5 DEF LeaveTogether
  <2> QED
    BY <2>3, <2>6
<1> QED
  BY <1>1, <1>2, <1>3

\* The timeout handler takes the head of the coding queue from a buffer that holds a
\* packet, and the entry of the opposite direction that it erases is empty.
LEMMA HeadDirection ==
    ASSUME IInv, codingQueue # <<>>
    PROVE  LET d == Head(codingQueue)
           IN  /\ d \in Direction
               /\ waitingBuffer[d] # <<>>
               /\ DropFirst(d) = [waitingBuffer EXCEPT ![d] = Tail(@)]
<1> DEFINE W == waitingBuffer
           d == Head(codingQueue)
<1>1. codingQueue \in Seq(Direction) /\ d \in Direction
  BY NonEmpty DEF IInv, TypeOK
<1>2. /\ Count(Tail(codingQueue), d) = Count(codingQueue, d) - 1
      /\ Count(Tail(codingQueue), d) \in Nat
  BY <1>1, CountTail, CountType, NonEmpty
<1> HIDE DEF d
<1>3. W \in [Direction -> Seq(Packet)] /\ W[d] \in Seq(Packet)
  BY <1>1 DEF IInv, TypeOK
<1>4. Len(W[d]) = Count(codingQueue, d) /\ Len(W[d]) \in Nat
  BY <1>1, <1>3, LenProperties DEF IInv, QueueMatchesBuffer
<1>5. W[d] # <<>>
  BY <1>2, <1>3, <1>4, NonEmpty
<1>6. W[Opposite(d)] = <<>> /\ Opposite(d) \in Direction
  BY <1>1, <1>5, DirectionFacts DEF IInv, NeverBothDirections
<1>7. DropFirst(d) = [W EXCEPT ![d] = Tail(@)]
  BY <1>1, <1>3, <1>5, <1>6 DEF DropFirst
<1> QED
  BY <1>1, <1>5, <1>7 DEF d

LEMMA TimerEffects ==
    ASSUME IInv, TimerExpires
    PROVE  NothingMoves \/ \E p \in Packet : LeavesAlone(p)
<1> DEFINE W == waitingBuffer
           F == waitingForwardBuffer
<1>1. UNCHANGED <<flowTable, waitingBuffer, waitingForwardBuffer, received, forwarded,
                  coded>>
        => NothingMoves
  BY DEF NothingMoves, Waiting, Dir
<1>2. CASE CodingTimeoutExpired /\ codingQueue = <<>>
  BY <1>1, <1>2 DEF CodingTimeoutExpired
<1>3. CASE CodingTimeoutExpired /\ codingQueue # <<>>
  <2> DEFINE d == Head(codingQueue)
             p == Head(W[d])
  <2>1. /\ forwarded' = [forwarded EXCEPT ![p] = @ + 1]
        /\ W' = DropFirst(d)
        /\ UNCHANGED <<flowTable, waitingForwardBuffer, received, coded>>
    BY <1>3 DEF CodingTimeoutExpired, SendAlone
  <2>2. d \in Direction /\ W[d] # <<>> /\ W' = [W EXCEPT ![d] = Tail(@)]
    BY <1>3, <2>1, HeadDirection
  <2> HIDE DEF d
  <2>3. /\ p \in Packet /\ Waiting(p) # 0
        /\ \A r \in Packet : Waiting(r)' = Waiting(r) - (IF r = p THEN 1 ELSE 0)
    BY <2>1, <2>2, HeadLeaves
  <2> HIDE DEF p
  <2>4. LeavesAlone(p)
    BY <2>1, <2>3 DEF LeavesAlone
  <2> QED
    BY <2>3, <2>4
<1>4. CASE ForwardTimeoutExpired /\ F = <<>>
  BY <1>1, <1>4 DEF ForwardTimeoutExpired
<1>5. CASE ForwardTimeoutExpired /\ F # <<>>
  <2> DEFINE p == Head(F)
  <2>1. /\ forwarded' = [forwarded EXCEPT ![p] = @ + 1]
        /\ F' = Tail(F)
        /\ UNCHANGED <<flowTable, waitingBuffer, received, coded>>
    BY <1>5 DEF ForwardTimeoutExpired, SendAlone
  <2>2. F \in Seq(Packet) /\ p \in Packet /\ Tail(F) \in Seq(Packet)
    BY <1>5, NonEmpty DEF IInv, TypeOK
  <2>3. \A r \in Packet :
          /\ Count(Tail(F), r) = Count(F, r) - (IF p = r THEN 1 ELSE 0)
          /\ Count(Tail(F), r) \in Nat
    BY <1>5, <2>2, CountTail, CountType
  <2> HIDE DEF p
  <2>4. ASSUME NEW r \in Packet
        PROVE  /\ Waiting(r)' = Waiting(r) - (IF r = p THEN 1 ELSE 0)
               /\ r = p => Waiting(r) # 0
    <3>1. Count(F, r) \in Nat /\ Count(W[Dir(r)], r) \in Nat
      BY WaitingType
    <3>2. Waiting(r)' = Count(Tail(F), r) + Count(W[Dir(r)], r)
      BY <2>1 DEF Waiting, Dir
    <3> QED
      BY <2>3, <3>1, <3>2 DEF Waiting
  <2>5. LeavesAlone(p)
    BY <2>1, <2>2, <2>4 DEF LeavesAlone
  <2> QED
    BY <2>2, <2>5
<1> QED
  BY <1>2, <1>3, <1>4, <1>5 DEF TimerExpires

LEMMA StepEffects ==
    ASSUME IInv, WaitsOnInstalledFlow, [Next]_vars
    PROVE  \/ \E p \in Packet : StartsWaiting(p)
           \/ \E q, p \in Packet : LeaveTogether(q, p)
           \/ \E p \in Packet : LeavesAlone(p)
           \/ NothingMoves
<1>1. ASSUME NEW p \in Packet, InstallFlow(Dir(p)) PROVE NothingMoves
  <2>1. Dir(p) \in Direction
    BY DirectionFacts
  <2> QED
    BY <1>1, <2>1 DEF InstallFlow, NothingMoves, Waiting, Dir, queues
<1>2. ASSUME UNCHANGED vars PROVE NothingMoves
  BY <1>2 DEF vars, queues, NothingMoves, Waiting, Dir
<1> QED
  BY <1>1, <1>2, ReceiveEffects, TimerEffects DEF Next

-----------------------------------------------------------------------------
(* Every packet is in one place. *)

LEMMA CodedType ==
    ASSUME IsFiniteSet(coded), NEW p
    PROVE  /\ IsFiniteSet(CodedFirst(p)) /\ Cardinality(CodedFirst(p)) \in Nat
           /\ IsFiniteSet(CodedSecond(p)) /\ Cardinality(CodedSecond(p)) \in Nat
<1>1. CodedFirst(p) \subseteq coded /\ CodedSecond(p) \subseteq coded
  BY DEF CodedFirst, CodedSecond
<1> QED
  BY <1>1, FS_Subset, FS_CardinalityType

LEMMA CopiesSum ==
    ASSUME NEW p
    PROVE  Copies(p) = Waiting(p) + forwarded[p] + Cardinality(CodedFirst(p))
                         + Cardinality(CodedSecond(p))
BY DEF Copies, Waiting, CodedFirst, CodedSecond

\* All parts of the sum are natural numbers, so a sum of zero or one says a lot.
LEMMA CopiesParts ==
    ASSUME IInv, OnceInv, NEW p \in Packet
    PROVE  /\ Waiting(p) \in Nat /\ forwarded[p] \in Nat
           /\ Cardinality(CodedFirst(p)) \in Nat
           /\ Cardinality(CodedSecond(p)) \in Nat
           /\ Waiting(p) + forwarded[p] + Cardinality(CodedFirst(p))
                + Cardinality(CodedSecond(p)) = IF p \in received THEN 1 ELSE 0
<1>1. forwarded[p] \in Nat
  BY DEF IInv, TypeOK
<1> QED
  BY <1>1, WaitingType, CodedType, CopiesSum DEF OnceInv, ExactlyOnce

\* One copy at most: whatever counts is the only one.
LEMMA CopiesAtMostOne ==
    ASSUME IInv, OnceInv, NEW p \in Packet
    PROVE  /\ p \notin received =>
                /\ Waiting(p) = 0 /\ forwarded[p] = 0
                /\ Cardinality(CodedFirst(p)) = 0 /\ Cardinality(CodedSecond(p)) = 0
           /\ Waiting(p) # 0 => Waiting(p) = 1
<1> DEFINE w == Waiting(p)
           f == forwarded[p]
           A == Cardinality(CodedFirst(p))
           B == Cardinality(CodedSecond(p))
           s == IF p \in received THEN 1 ELSE 0
<1>1. /\ w \in Nat /\ f \in Nat /\ A \in Nat /\ B \in Nat
      /\ w + f + A + B = s
  BY CopiesParts
<1>2. s \in {0, 1} /\ (p \notin received => s = 0)
  OBVIOUS
<1> HIDE DEF w, f, A, B, s
<1>3. s = 0 => w = 0 /\ f = 0 /\ A = 0 /\ B = 0
  BY <1>1
<1>4. w # 0 => w = 1
  BY <1>1, <1>2
<1>5. /\ p \notin received => w = 0 /\ f = 0 /\ A = 0 /\ B = 0
      /\ w # 0 => w = 1
  BY <1>2, <1>3, <1>4
<1> QED
  BY <1>5 DEF w, f, A, B

\* A packet the relay was not handed yet appears in no broadcast.
LEMMA NewIsNotCoded ==
    ASSUME IInv, OnceInv, NEW p \in Packet, p \notin received
    PROVE  \A c \in coded : p # c[1] /\ p # c[2]
<1>1. Cardinality(CodedFirst(p)) = 0 /\ Cardinality(CodedSecond(p)) = 0
  BY CopiesAtMostOne
<1>2. CodedFirst(p) = {} /\ CodedSecond(p) = {}
  BY <1>1, CodedType, FS_EmptySet DEF OnceInv
<1> QED
  BY <1>2 DEF CodedFirst, CodedSecond

\* What one more broadcast adds to the counts.
LEMMA CodedGrows ==
    ASSUME IInv, OnceInv, NEW q \in Packet, NEW p \in Packet, p \notin received,
           coded' = coded \cup {<<q, p>>}
    PROVE  /\ IsFiniteSet(coded')
           /\ \A r \in Packet :
                /\ Cardinality(CodedFirst(r))' =
                     Cardinality(CodedFirst(r)) + (IF r = q THEN 1 ELSE 0)
                /\ Cardinality(CodedSecond(r))' =
                     Cardinality(CodedSecond(r)) + (IF r = p THEN 1 ELSE 0)
<1>1. <<q, p>> \notin coded
  BY NewIsNotCoded
<1>2. IsFiniteSet(coded')
  BY FS_AddElement DEF OnceInv
<1>3. ASSUME NEW r \in Packet
      PROVE  Cardinality(CodedFirst(r))' =
               Cardinality(CodedFirst(r)) + (IF r = q THEN 1 ELSE 0)
  <2>1. CodedFirst(r)' = IF r = q THEN CodedFirst(r) \cup {<<q, p>>} ELSE CodedFirst(r)
    BY DEF CodedFirst
  <2>2. <<q, p>> \notin CodedFirst(r)
    BY <1>1 DEF CodedFirst
  <2>3. /\ Cardinality(CodedFirst(r)) \in Nat
        /\ Cardinality(CodedFirst(r) \cup {<<q, p>>}) = Cardinality(CodedFirst(r)) + 1
    BY <2>2, CodedType, FS_AddElement DEF OnceInv
  <2> QED
    BY <2>1, <2>3
<1>4. ASSUME NEW r \in Packet
      PROVE  Cardinality(CodedSecond(r))' =
               Cardinality(CodedSecond(r)) + (IF r = p THEN 1 ELSE 0)
  <2>1. CodedSecond(r)' =
          IF r = p THEN CodedSecond(r) \cup {<<q, p>>} ELSE CodedSecond(r)
    BY DEF CodedSecond
  <2>2. <<q, p>> \notin CodedSecond(r)
    BY <1>1 DEF CodedSecond
  <2>3. /\ Cardinality(CodedSecond(r)) \in Nat
        /\ Cardinality(CodedSecond(r) \cup {<<q, p>>}) = Cardinality(CodedSecond(r)) + 1
    BY <2>2, CodedType, FS_AddElement DEF OnceInv
  <2> QED
    BY <2>1, <2>3
<1> QED
  BY <1>2, <1>3, <1>4

LEMMA ExactlyOnceStep ==
    ASSUME IInv, OnceInv, [Next]_vars
    PROVE  IsFiniteSet(coded') /\ ExactlyOnce'
<1>1. coded' = coded \/ \E q, p \in Packet : LeaveTogether(q, p)
  BY StepEffects DEF OnceInv, StartsWaiting, LeavesAlone, NothingMoves
<1>2. IsFiniteSet(coded')
  BY <1>1, CodedGrows DEF OnceInv, LeaveTogether
<1>3. ASSUME NEW r \in Packet
      PROVE  Copies(r)' = IF r \in received' THEN 1 ELSE 0
  <2> DEFINE A == Cardinality(CodedFirst(r))
             B == Cardinality(CodedSecond(r))
  <2>1. /\ Waiting(r) \in Nat /\ forwarded[r] \in Nat /\ A \in Nat /\ B \in Nat
        /\ Waiting(r) + forwarded[r] + A + B = IF r \in received THEN 1 ELSE 0
    BY CopiesParts
  <2>2. Copies(r)' = Waiting(r)' + forwarded'[r] + A' + B'
    BY DEF Copies, Waiting, CodedFirst, CodedSecond
  <2>3. coded' = coded => A' = A /\ B' = B
    BY DEF CodedFirst, CodedSecond
  <2>4. forwarded \in [Packet -> Nat]
    BY DEF IInv, TypeOK
  <2>5. ASSUME NEW p \in Packet, StartsWaiting(p)
        PROVE  Copies(r)' = IF r \in received' THEN 1 ELSE 0
    <3>1. /\ Waiting(r)' = Waiting(r) + (IF r = p THEN 1 ELSE 0)
          /\ forwarded'[r] = forwarded[r] /\ A' = A /\ B' = B
          /\ p \notin received /\ received' = received \cup {p}
      BY <2>3, <2>5 DEF StartsWaiting
    <3> HIDE DEF A, B
    <3> QED
      BY <2>1, <2>2, <3>1
  <2>6. ASSUME NEW q \in Packet, NEW p \in Packet, LeaveTogether(q, p)
        PROVE  Copies(r)' = IF r \in received' THEN 1 ELSE 0
    <3> DEFINE first == IF r = q THEN 1 ELSE 0
               second == IF r = p THEN 1 ELSE 0
    <3>1. /\ p \notin received /\ received' = received \cup {p}
          /\ Waiting(r)' = Waiting(r) - first
          /\ forwarded'[r] = forwarded[r]
      BY <2>6 DEF LeaveTogether
    <3>2. A' = A + first /\ B' = B + second
      BY <2>6, CodedGrows DEF LeaveTogether
    <3>3. first \in Nat /\ second \in Nat
      OBVIOUS
    <3> HIDE DEF A, B, first, second
    <3>4. Copies(r)' = Waiting(r) + forwarded[r] + A + B + second
      BY <2>1, <2>2, <3>1, <3>2, <3>3
    <3> QED
      BY <2>1, <3>1, <3>4 DEF second
  <2>7. ASSUME NEW p \in Packet, LeavesAlone(p)
        PROVE  Copies(r)' = IF r \in received' THEN 1 ELSE 0
    <3>1. /\ Waiting(r)' = Waiting(r) - (IF r = p THEN 1 ELSE 0)
          /\ forwarded'[r] = forwarded[r] + (IF r = p THEN 1 ELSE 0)
          /\ A' = A /\ B' = B /\ received' = received
      BY <2>3, <2>4, <2>7 DEF LeavesAlone
    <3> HIDE DEF A, B
    <3> QED
      BY <2>1, <2>2, <3>1
  <2>8. ASSUME NothingMoves
        PROVE  Copies(r)' = IF r \in received' THEN 1 ELSE 0
    BY <2>1, <2>2, <2>3, <2>8 DEF NothingMoves
  <2> QED
    BY <2>5, <2>6, <2>7, <2>8, StepEffects DEF OnceInv
<1> QED
  BY <1>2, <1>3 DEF ExactlyOnce

\* A packet starts to wait for a partner only on an installed flow.
LEMMA WaitsOnInstalledFlowStep ==
    ASSUME IInv, WaitsOnInstalledFlow, [Next]_vars
    PROVE  WaitsOnInstalledFlow'
<1> DEFINE W == waitingBuffer
<1>1. W \in [Direction -> Seq(Packet)]
  BY DEF IInv, TypeOK
<1>2. flowTable \subseteq flowTable'
  BY StepEffects DEF StartsWaiting, LeaveTogether, LeavesAlone, NothingMoves
<1>3. ASSUME NEW d \in Direction, W[d] # <<>>, W' = [W EXCEPT ![d] = Tail(@)]
      PROVE  WaitsOnInstalledFlow'
  BY <1>1, <1>2, <1>3 DEF WaitsOnInstalledFlow
<1>4. UNCHANGED waitingBuffer => WaitsOnInstalledFlow'
  BY <1>2 DEF WaitsOnInstalledFlow
<1>5. ASSUME NEW p \in Packet, Receive(p) PROVE WaitsOnInstalledFlow'
  <2>1. CASE CodeWithWaiting(p)
    <3>1. Opposite(Dir(p)) \in Direction
      BY DirectionFacts
    <3> QED
      BY <1>3, <2>1, <3>1 DEF CodeWithWaiting, HasWaitingData
  <2>2. CASE WaitForCoding(p)
    <3>1. Dir(p) \in flowTable /\ W' = [W EXCEPT ![Dir(p)] = Append(@, p)]
      BY <2>2 DEF WaitForCoding, HasNetworkCoding
    <3> QED
      BY <1>1, <1>2, <3>1 DEF WaitsOnInstalledFlow
  <2>3. CASE WaitForForward(p)
    BY <1>4, <2>3 DEF WaitForForward
  <2> QED
    BY <1>5, <2>1, <2>2, <2>3 DEF Receive, EncodingData
<1>6. ASSUME TimerExpires PROVE WaitsOnInstalledFlow'
  <2>1. CASE CodingTimeoutExpired /\ codingQueue # <<>>
    BY <1>3, <2>1, HeadDirection DEF CodingTimeoutExpired
  <2>2. CASE CodingTimeoutExpired /\ codingQueue = <<>>
    BY <1>4, <2>2 DEF CodingTimeoutExpired
  <2>3. CASE ForwardTimeoutExpired
    BY <1>4, <2>3 DEF ForwardTimeoutExpired
  <2> QED
    BY <1>6, <2>1, <2>2, <2>3 DEF TimerExpires
<1> QED
  BY <1>4, <1>5, <1>6 DEF Next, InstallFlow, vars, queues

LEMMA DecodableStep ==
    ASSUME IInv, OnceInv, [Next]_vars
    PROVE  DecodableByNextHops'
<1>1. ASSUME coded' = coded, flowTable \subseteq flowTable'
      PROVE  DecodableByNextHops'
  BY <1>1 DEF OnceInv, DecodableByNextHops, Dir
<1>2. ASSUME NEW q \in Packet, NEW p \in Packet, LeaveTogether(q, p)
      PROVE  DecodableByNextHops'
  <2>1. /\ Dir(q) = Opposite(Dir(p)) /\ {Dir(p), Dir(q)} \subseteq flowTable
        /\ coded' = coded \cup {<<q, p>>} /\ flowTable' = flowTable
    BY <1>2 DEF LeaveTogether
  <2>2. Out[q] = In[p] /\ Out[p] = In[q]
    BY <2>1 DEF Dir, Opposite
  <2> QED
    BY <2>1, <2>2 DEF OnceInv, DecodableByNextHops, Dir
<1> QED
  BY <1>1, <1>2, StepEffects
     DEF OnceInv, StartsWaiting, LeavesAlone, NothingMoves

LEMMA InitOnceInv == Init => OnceInv
<1> SUFFICES ASSUME Init PROVE OnceInv
  OBVIOUS
<1>1. coded = {} /\ IsFiniteSet(coded) /\ Cardinality({}) = 0
  BY FS_EmptySet DEF Init
<1>2. WaitsOnInstalledFlow /\ DecodableByNextHops
  BY <1>1 DEF Init, WaitsOnInstalledFlow, DecodableByNextHops
<1>3. ASSUME NEW p \in Packet PROVE Copies(p) = 0 /\ p \notin received
  <2>1. Dir(p) \in Direction /\ Count(<<>>, p) = 0
    BY DirectionFacts, CountEmpty
  <2>2. Waiting(p) = 0 /\ forwarded[p] = 0
    BY <2>1 DEF Init, Waiting
  <2>3. CodedFirst(p) = {} /\ CodedSecond(p) = {}
    BY <1>1 DEF CodedFirst, CodedSecond
  <2>4. Copies(p) = Waiting(p) + forwarded[p] + Cardinality({}) + Cardinality({})
    BY <2>3, CopiesSum
  <2> QED
    BY <1>1, <2>2, <2>4 DEF Init
<1> QED
  BY <1>1, <1>2, <1>3 DEF OnceInv, ExactlyOnce

LEMMA NextOnceInv == IInv /\ OnceInv /\ [Next]_vars => OnceInv'
BY ExactlyOnceStep, WaitsOnInstalledFlowStep, DecodableStep DEF OnceInv

LEMMA OnceInvariant == Spec => [](IInv /\ OnceInv)
<1>1. Init => IInv /\ OnceInv
  BY InitIInv, InitOnceInv
<1>2. (IInv /\ OnceInv) /\ [Next]_vars => (IInv /\ OnceInv)'
  BY NextIInv, NextOnceInv
<1> QED
  BY <1>1, <1>2, PTL DEF Spec

\* A packet the relay was handed is in exactly one buffer, or was sent exactly once:
\* timers that outlive their packet or are cancelled for another neither lose nor
\* repeat one.
THEOREM RelayExactlyOnce == Spec => []ExactlyOnce
<1>1. OnceInv => ExactlyOnce
  BY DEF OnceInv
<1> QED
  BY <1>1, OnceInvariant, PTL

\* CodingData only ever joins packets that cross at the relay on installed flows.
THEOREM RelayDecodableByNextHops == Spec => []DecodableByNextHops
<1>1. OnceInv => DecodableByNextHops
  BY DEF OnceInv
<1> QED
  BY <1>1, OnceInvariant, PTL

-----------------------------------------------------------------------------
(* The relay implements RelayPromise. *)

LEMMA HeldWaits ==
    ASSUME IInv, NEW p \in Packet
    PROVE  p \in Held <=> Waiting(p) # 0
<1>1. /\ Contains(waitingForwardBuffer, p) <=> Count(waitingForwardBuffer, p) # 0
      /\ Contains(waitingBuffer[Dir(p)], p) <=> Count(waitingBuffer[Dir(p)], p) # 0
      /\ Count(waitingForwardBuffer, p) \in Nat
      /\ Count(waitingBuffer[Dir(p)], p) \in Nat
  BY WaitingType, CountZero
<1> QED
  BY <1>1 DEF Held, Waiting

LEMMA HeldIsPackets == Held \subseteq Packet /\ Held' \subseteq Packet
BY DEF Held

\* Waiting copies after a step, as membership in Held.
LEMMA HeldWaitsPrime ==
    ASSUME IInv', NEW p \in Packet
    PROVE  p \in Held' <=> Waiting(p)' # 0
<1> DEFINE F == waitingForwardBuffer'
           B == waitingBuffer'[Dir(p)]
<1>1. F \in Seq(Packet) /\ B \in Seq(Packet)
  BY DirectionFacts DEF IInv, TypeOK
<1>2. /\ Contains(F, p) <=> Count(F, p) # 0
      /\ Contains(B, p) <=> Count(B, p) # 0
      /\ Count(F, p) \in Nat /\ Count(B, p) \in Nat
  BY <1>1, CountZero, CountType
<1>3. Waiting(p)' = Count(F, p) + Count(B, p)
  BY DEF Waiting, Dir
<1>4. p \in Held' <=> Contains(F, p) \/ Contains(B, p)
  BY DEF Held, Dir
<1> QED
  BY <1>2, <1>3, <1>4

\* A packet the relay was not handed yet is new to the promise too.
LEMMA NewPacket ==
    ASSUME IInv, OnceInv, NEW p \in Packet, p \notin received
    PROVE  Promise!New(p) /\ Waiting(p) = 0
<1>1. Waiting(p) = 0 /\ forwarded[p] = 0
  BY CopiesAtMostOne
<1>2. p \notin Held
  BY <1>1, HeldWaits
<1>3. ~ Promise!SentCoded(p)
  BY NewIsNotCoded DEF Promise!SentCoded
<1> QED
  BY <1>1, <1>2, <1>3 DEF Promise!New

LEMMA AcceptStep ==
    ASSUME IInv, OnceInv, IInv', NEW p \in Packet, StartsWaiting(p)
    PROVE  Promise!Accept(p)
<1>1. /\ p \notin received
      /\ \A r \in Packet : Waiting(r)' = Waiting(r) + (IF r = p THEN 1 ELSE 0)
      /\ UNCHANGED <<flowTable, forwarded, coded>>
  BY DEF StartsWaiting
<1>2. \A r \in Packet : Waiting(r) \in Nat
  BY WaitingType
<1>3. \A r \in Packet : Waiting(r)' # 0 <=> (Waiting(r) # 0 \/ r = p)
  BY <1>1, <1>2
<1>4. Held' = Held \cup {p}
  BY <1>3, HeldWaits, HeldWaitsPrime, HeldIsPackets
<1> QED
  BY <1>1, <1>4, NewPacket DEF Promise!Accept

\* A packet of which one copy waits is no longer held when that copy leaves.
LEMMA LeavesHeld ==
    ASSUME IInv, OnceInv, IInv', NEW q \in Packet, Waiting(q) # 0,
           \A r \in Packet : Waiting(r)' = Waiting(r) - (IF r = q THEN 1 ELSE 0)
    PROVE  q \in Held /\ Held' = Held \ {q}
<1>1. Waiting(q) = 1
  BY CopiesAtMostOne
<1>2. \A r \in Packet : Waiting(r) \in Nat
  BY WaitingType
<1>3. \A r \in Packet : Waiting(r)' # 0 <=> (Waiting(r) # 0 /\ r # q)
  BY <1>1, <1>2
<1> QED
  BY <1>3, HeldWaits, HeldWaitsPrime, HeldIsPackets

LEMMA AcceptAndCodeStep ==
    ASSUME IInv, OnceInv, IInv', NEW q \in Packet, NEW p \in Packet,
           LeaveTogether(q, p)
    PROVE  Promise!AcceptAndCode(q, p)
<1>1. /\ p \notin received /\ Waiting(q) # 0
      /\ Dir(q) = Opposite(Dir(p)) /\ {Dir(p), Dir(q)} \subseteq flowTable
      /\ \A r \in Packet : Waiting(r)' = Waiting(r) - (IF r = q THEN 1 ELSE 0)
      /\ coded' = coded \cup {<<q, p>>}
      /\ UNCHANGED <<flowTable, forwarded>>
  BY DEF LeaveTogether
<1>2. q \in Held /\ Held' = Held \ {q}
  BY <1>1, LeavesHeld
<1>3. Promise!Crossing(q, p)
  BY <1>1 DEF Promise!Crossing, Dir, Opposite
<1> QED
  BY <1>1, <1>2, <1>3, NewPacket DEF Promise!AcceptAndCode, Dir

LEMMA SendAloneStep ==
    ASSUME IInv, OnceInv, IInv', NEW p \in Packet, LeavesAlone(p)
    PROVE  Promise!SendAlone(p)
BY LeavesHeld DEF LeavesAlone, Promise!SendAlone

LEMMA StayStep ==
    ASSUME IInv, IInv', NothingMoves
    PROVE  UNCHANGED Promise!vars \/ \E d \in Node \X Node : Promise!LearnRoute(d)
<1>1. \A r \in Packet : Waiting(r)' = Waiting(r)
  BY DEF NothingMoves
<1>2. Held' = Held
  BY <1>1, HeldWaits, HeldWaitsPrime, HeldIsPackets
<1> QED
  BY <1>2 DEF NothingMoves, Promise!vars, Promise!LearnRoute, Direction

LEMMA InitPromise == Init => Promise!Init
<1> SUFFICES ASSUME Init PROVE Promise!Init
  OBVIOUS
<1>1. \A p \in Packet : Waiting(p) = 0
  BY DirectionFacts, CountEmpty DEF Init, Waiting
<1>2. Held = {}
  BY <1>1, InitIInv, HeldWaits, HeldIsPackets
<1> QED
  BY <1>2 DEF Init, Promise!Init

LEMMA NextPromise ==
    ASSUME IInv, OnceInv, IInv', [Next]_vars
    PROVE  [Promise!Next]_(Promise!vars)
<1>1. ASSUME NEW p \in Packet, StartsWaiting(p) PROVE Promise!Next
  BY <1>1, AcceptStep DEF Promise!Next
<1>2. ASSUME NEW q \in Packet, NEW p \in Packet, LeaveTogether(q, p)
      PROVE  Promise!Next
  BY <1>2, AcceptAndCodeStep DEF Promise!Next
<1>3. ASSUME NEW p \in Packet, LeavesAlone(p) PROVE Promise!Next
  BY <1>3, SendAloneStep DEF Promise!Next
<1>4. ASSUME NothingMoves PROVE [Promise!Next]_(Promise!vars)
  BY <1>4, StayStep DEF Promise!Next
<1> QED
  BY <1>1, <1>2, <1>3, <1>4, StepEffects DEF OnceInv

\* Whatever the queues and timers of the DF application do, a packet leaves the relay
\* once, and together only with a packet that crosses it on installed routes.
THEOREM RelayKeepsPromise == Spec => KeepsPromise
<1>1. Init => Promise!Init
  BY InitPromise
<1>2. IInv /\ OnceInv /\ IInv' /\ [Next]_vars => [Promise!Next]_(Promise!vars)
  BY NextPromise
<1> QED
  BY <1>1, <1>2, OnceInvariant, PTL DEF Spec, KeepsPromise, Promise!Spec

-----------------------------------------------------------------------------
(* What the rest of a network sees of a relay: packets it was handed, packets it *)
(* holds, and what it sends.  For modules that compose relays.                   *)

RelayInv == IInv /\ OnceInv

LEMMA InitSeen == Init => RelayInv /\ received = {} /\ Held = {} /\ flowTable = {} /\ coded = {}
<1>1. Init => \A p \in Packet : Waiting(p) = 0
  BY DirectionFacts, CountEmpty DEF Init, Waiting
<1>2. Init => Held = {}
  BY <1>1, InitIInv, HeldWaits, HeldIsPackets
<1> QED
  BY <1>2, InitIInv, InitOnceInv DEF RelayInv, Init

LEMMA SeenFacts ==
    ASSUME RelayInv
    PROVE  /\ TypeOK
           /\ Held \subseteq received /\ received \subseteq Packet
           /\ flowTable \subseteq Direction
           /\ coded \subseteq Packet \X Packet
           /\ forwarded \in [Packet -> Nat]
           /\ \A c \in coded : /\ {c[1], c[2]} \subseteq received \ Held
                               /\ c[1] # c[2]
                               /\ Out[c[1]] = In[c[2]] /\ Out[c[2]] = In[c[1]]
<1>1. TypeOK /\ IInv /\ OnceInv
  BY DEF RelayInv, IInv
<1>2. Held \subseteq Packet
  BY HeldIsPackets
<1>3. ASSUME NEW p \in Packet, p \in Held PROVE p \in received
  <2>1. Waiting(p) # 0
    BY <1>1, <1>3, HeldWaits
  <2> QED
    BY <1>1, <2>1, CopiesAtMostOne
<1>4. ASSUME NEW c \in coded, NEW p \in {c[1], c[2]} PROVE p \in received \ Held
  <2>1. p \in Packet
    BY <1>1 DEF TypeOK
  <2> DEFINE A == Cardinality(CodedFirst(p))
             B == Cardinality(CodedSecond(p))
             s == IF p \in received THEN 1 ELSE 0
  <2>2. CodedFirst(p) # {} \/ CodedSecond(p) # {}
    BY DEF CodedFirst, CodedSecond
  <2>3. A # 0 \/ B # 0
    BY <1>1, <2>1, <2>2, CodedType, FS_EmptySet DEF OnceInv
  <2>4. /\ Waiting(p) \in Nat /\ forwarded[p] \in Nat /\ A \in Nat /\ B \in Nat
        /\ Waiting(p) + forwarded[p] + A + B = s /\ s \in {0, 1}
    BY <1>1, <2>1, CopiesParts
  <2> HIDE DEF A, B, s
  <2>5. s = 1 /\ Waiting(p) = 0
    BY <2>3, <2>4
  <2> QED
    BY <1>1, <2>1, <2>5, HeldWaits DEF s
<1>5. ASSUME NEW c \in coded
      PROVE  c[1] # c[2] /\ Out[c[1]] = In[c[2]] /\ Out[c[2]] = In[c[1]]
  <2>1. c[1] \in Packet /\ c[2] \in Packet
    BY <1>1 DEF TypeOK
  <2>2. Out[c[1]] = In[c[2]] /\ Out[c[2]] = In[c[1]]
    BY <1>1 DEF OnceInv, DecodableByNextHops
  <2> QED
    BY <2>1, <2>2, PacketAssumption
<1>6. Held \subseteq received
  BY <1>2, <1>3
<1>7. \A c \in coded : {c[1], c[2]} \subseteq received \ Held
  BY <1>4
<1> QED
  BY <1>1, <1>5, <1>6, <1>7 DEF TypeOK

LEMMA ReceiveSeen ==
    ASSUME RelayInv, NEW p \in Packet, Receive(p)
    PROVE  /\ RelayInv'
           /\ p \notin received /\ received' = received \cup {p}
           /\ UNCHANGED <<flowTable, forwarded>>
           /\ \/ Held' = Held \cup {p} /\ coded' = coded
              \/ \E q \in Held : /\ Held' = Held \ {q}
                                 /\ coded' = coded \cup {<<q, p>>}
                                 /\ Out[q] = In[p] /\ Out[p] = In[q]
<1>1. /\ IInv /\ OnceInv /\ IInv' /\ OnceInv'
  BY NextIInv, NextOnceInv DEF RelayInv, Next
<1>2. CASE StartsWaiting(p)
  <2>1. Promise!Accept(p)
    BY <1>1, <1>2, AcceptStep
  <2> QED
    BY <1>1, <1>2, <2>1 DEF StartsWaiting, Promise!Accept, RelayInv
<1>3. ASSUME NEW q \in Packet, LeaveTogether(q, p)
      PROVE  q \in Held /\ Held' = Held \ {q} /\ Out[q] = In[p] /\ Out[p] = In[q]
  BY <1>1, <1>3, LeavesHeld DEF LeaveTogether, Dir, Opposite
<1> QED
  BY <1>1, <1>2, <1>3, ReceiveEffects DEF RelayInv, OnceInv, LeaveTogether

LEMMA TimerSeen ==
    ASSUME RelayInv, TimerExpires
    PROVE  /\ RelayInv'
           /\ UNCHANGED <<flowTable, received, coded>>
           /\ \/ UNCHANGED <<Held, forwarded>>
              \/ \E q \in Held : /\ Held' = Held \ {q}
                                 /\ forwarded' = [forwarded EXCEPT ![q] = @ + 1]
<1>1. IInv /\ OnceInv /\ IInv' /\ OnceInv'
  BY NextIInv, NextOnceInv DEF RelayInv, Next
<1>2. CASE NothingMoves
  <2>1. Held' = Held
    BY <1>1, <1>2, HeldWaits, HeldWaitsPrime, HeldIsPackets DEF NothingMoves
  <2>2. flowTable' = flowTable
    BY DEF TimerExpires, CodingTimeoutExpired, ForwardTimeoutExpired
  <2> QED
    BY <1>1, <1>2, <2>1, <2>2 DEF NothingMoves, RelayInv
<1>3. ASSUME NEW q \in Packet, LeavesAlone(q)
      PROVE  q \in Held /\ Held' = Held \ {q}
  BY <1>1, <1>3, LeavesHeld DEF LeavesAlone
<1> QED
  BY <1>1, <1>2, <1>3, TimerEffects DEF RelayInv, LeavesAlone

LEMMA InstallSeen ==
    ASSUME RelayInv, NEW d \in Direction, InstallFlow(d)
    PROVE  /\ RelayInv'
           /\ flowTable' = flowTable \cup {d}
           /\ UNCHANGED <<Held, received, forwarded, coded>>
<1>1. /\ flowTable' = flowTable \cup {d}
      /\ UNCHANGED <<queues, pending, received, forwarded, coded>>
  BY DEF InstallFlow
<1>2. IInv'
  BY <1>1
     DEF RelayInv, IInv, TypeOK, NeverBothDirections, QueueMatchesBuffer,
         ForwardBufferHasTimer, ForwardEventIsRunning, BufferHoldsItsDirection,
         queues, Opposite, Dir
<1>3. OnceInv'
  BY <1>1
     DEF RelayInv, OnceInv, WaitsOnInstalledFlow, DecodableByNextHops, ExactlyOnce,
         Copies, Dir, queues
<1> QED
  BY <1>1, <1>2, <1>3 DEF RelayInv, Held, Dir, queues

LEMMA StaySeen ==
    ASSUME RelayInv, UNCHANGED vars
    PROVE  RelayInv' /\ UNCHANGED <<Held, flowTable, received, forwarded, coded>>
<1>1. IInv' /\ OnceInv'
  BY NextIInv, NextOnceInv DEF RelayInv
<1> QED
  BY <1>1 DEF RelayInv, vars, queues, Held, Dir

LEMMA CancelShrinks ==
    ASSUME NEW events \in Seq(Timer), NEW t
    PROVE  Cancel(events, t) \in Seq(Timer) /\ Len(Cancel(events, t)) <= Len(events)
<1>1. CASE Contains(events, t)
  <2>1. PICK k : IsDeletion(RemoveFirst(events, t), events, k)
    BY <1>1, RemoveFirstProperties
  <2> QED
    BY <2>1, RemoveFirstType DEF Cancel, IsDeletion
<1>2. CASE ~ Contains(events, t)
  BY <1>2 DEF Cancel, RemoveFirst, Contains
<1> QED
  BY <1>1, <1>2

\* Every timer that expires leaves less to do than it found.
LEMMA TimerRunsDown ==
    ASSUME RelayInv, TimerExpires
    PROVE  /\ Len(pending) \in Nat /\ Len(waitingForwardBuffer) \in Nat
           /\ Len(pending') \in Nat /\ Len(waitingForwardBuffer') \in Nat
           /\ Len(pending') + Len(waitingForwardBuffer')
                < Len(pending) + Len(waitingForwardBuffer)
<1> DEFINE F == waitingForwardBuffer
           rest == Tail(pending)
<1>1. /\ pending \in Seq(Timer) /\ F \in Seq(Packet) /\ IInv
      /\ pending' \in Seq(Timer) /\ F' \in Seq(Packet)
  BY TimerSeen DEF RelayInv, IInv, TypeOK, Timer
<1>2. pending # <<>>
  BY DEF TimerExpires, CodingTimeoutExpired, ForwardTimeoutExpired
<1>3. rest \in Seq(Timer) /\ Len(rest) = Len(pending) - 1 /\ Len(pending) \in Nat
  BY <1>1, <1>2, NonEmpty, HeadTailProperties, LenProperties
<1>4. /\ Len(pending) \in Nat /\ Len(F) \in Nat /\ Len(pending') \in Nat
      /\ Len(F') \in Nat /\ Len(rest) \in Nat
  BY <1>1, <1>3, LenProperties
<1>5. CASE CodingTimeoutExpired
  <2>1. F' = F /\ Head(pending) # ForwardTimer
    BY <1>5 DEF CodingTimeoutExpired
  <2>2. Len(pending') <= Len(rest)
    <3>1. CASE codingQueue = <<>>
      <4>1. pending' = rest
        BY <1>5, <3>1 DEF CodingTimeoutExpired
      <4> QED
        BY <1>4, <4>1
    <3>2. CASE codingQueue # <<>>
      <4>1. PICK t : pending' = Cancel(RearmForward(rest, F), t)
        BY <1>5, <3>2 DEF CodingTimeoutExpired
      <4>2. F # <<>> => Contains(rest, ForwardTimer)
        <5>1. F # <<>> => Count(rest, ForwardTimer) = 1
          BY <1>1, <1>2, <2>1, TimerLeaves
        <5>2. Count(rest, ForwardTimer) = 0 <=> ~ Contains(rest, ForwardTimer)
          BY <1>3, CountZero
        <5> QED
          BY <5>1, <5>2
      <4>3. RearmForward(rest, F) = rest
        BY <4>2 DEF RearmForward
      <4> QED
        BY <1>3, <4>1, <4>3, CancelShrinks
    <3> QED
      BY <3>1, <3>2
  <2> QED
    BY <1>3, <1>4, <2>1, <2>2
<1>6. CASE ForwardTimeoutExpired
  <2>1. CASE F = <<>>
    <3>1. pending' = rest /\ F' = F
      BY <1>6, <2>1 DEF ForwardTimeoutExpired
    <3> QED
      BY <1>3, <1>4, <3>1
  <2>2. CASE F # <<>>
    <3>1. F' = Tail(F) /\ pending' = RearmForward(rest, Tail(F))
      BY <1>6, <2>2 DEF ForwardTimeoutExpired
    <3>2. Len(F') = Len(F) - 1
      BY <1>1, <2>2, <3>1, HeadTailProperties
    <3>3. ForwardTimer \in Timer
      BY DEF Timer
    <3>4. Len(pending') <= Len(rest) + 1
      BY <1>3, <1>4, <3>1, <3>3, AppendProperties DEF RearmForward
    <3> QED
      BY <1>3, <1>4, <3>2, <3>4
  <2> QED
    BY <2>1, <2>2
<1> QED
  BY <1>4, <1>5, <1>6 DEF TimerExpires
=============================================================================
