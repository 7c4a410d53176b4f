--------------------------- MODULE RouteTheorems ---------------------------
(***************************************************************************)
(* What floods do in any network of relays and clients, with any settings  *)
(* of the delay, in both modes and with any losses.                        *)
(*                                                                         *)
(* Requests: none runs in a circle, because every relay on its path has    *)
(* recorded the flood (RequestIsSound), in delay mode only when it passed  *)
(* the request on, but before anybody else could see the longer path.      *)
(*                                                                         *)
(* Replies: a flood is answered once (RepliesAreFew), so the reply comes   *)
(* back along the one trail on which, from the node that last learned to   *)
(* the partner, everybody and nobody else knows the way (TrailsAreSound).  *)
(*                                                                         *)
(* Holding back: a relay remembers the earliest of the copies it holds     *)
(* (HoldingIsSound), and every relay takes its share of dLimit (Patient).  *)
(***************************************************************************)
EXTENDS RouteDiscovery, OperatorTheorems

\* The path of a request m is simple, and its relays have recorded the flood in st.
RequestIsSound(m, st) ==
    /\ m.source \in Client
    /\ m.path \in Seq(Node) /\ Len(m.path) > 0
    /\ IsSimplePath(m.path)
    /\ m.path[1] = m.source
    /\ Last(m.path) = m.sender
    /\ \A i \in 2..Len(m.path) : m.path[i] \in Relay /\ m.source \in st[m.path[i]]

\* A request on the air goes to a neighbour of its sender.
IsOnTheAir(m, st) ==
    /\ RequestIsSound(m, st)
    /\ m.to \in Peers[m.sender] /\ m.to \in Node /\ m.sender \in Node

\* A relay holds no request that has been through it.
IsHeld(e, st) ==
    /\ DOMAIN e = {"at", "request", "left"}
    /\ RequestIsSound(e.request, st)
    /\ e.at \in Relay /\ e.at \in Peers[e.request.sender]
    /\ ~ Contains(e.request.path, e.at)

RequestsAreSound ==
    /\ sequenceTable \in [Node -> SUBSET Client]
    /\ \A m \in net : m.type = "rreq" => IsOnTheAir(m, sequenceTable)
    /\ \A e \in pending : IsHeld(e, sequenceTable)

-----------------------------------------------------------------------------
(* Paths. *)

\* Recording more floods does not make a request unsound.
LEMMA MoreRecorded ==
    ASSUME NEW st, NEW su, \A n \in Node : st[n] \subseteq su[n]
    PROVE  /\ \A m : RequestIsSound(m, st) => RequestIsSound(m, su)
           /\ \A m : IsOnTheAir(m, st) => IsOnTheAir(m, su)
           /\ \A e : IsHeld(e, st) => IsHeld(e, su)
<1>1. ASSUME NEW m, RequestIsSound(m, st) PROVE RequestIsSound(m, su)
  <2>1. ASSUME NEW i \in 2..Len(m.path)
        PROVE  m.path[i] \in Relay /\ m.source \in su[m.path[i]]
    BY <1>1 DEF RequestIsSound, Node
  <2> QED
    BY <1>1, <2>1 DEF RequestIsSound
<1> QED
  BY <1>1 DEF IsOnTheAir, IsHeld

\* The sender of a sound request is a node.
LEMMA SenderIsNode ==
    ASSUME NEW m, NEW st, RequestIsSound(m, st)
    PROVE  m.sender \in Node
<1>1. Len(m.path) \in 1..Len(m.path)
  BY LenProperties DEF RequestIsSound
<1> QED
  BY <1>1, ElementOfSeq DEF RequestIsSound, Last

\* A relay that has not recorded a flood is not on the path of its requests.
LEMMA UnrecordedIsFresh ==
    ASSUME NEW m, NEW st, RequestIsSound(m, st), NEW r \in Relay, m.source \notin st[r]
    PROVE  ~ Contains(m.path, r)
<1> SUFFICES ASSUME NEW i \in 1..Len(m.path), m.path[i] = r PROVE FALSE
  BY DEF Contains
<1>1. CASE i = 1
  BY <1>1, TopologyAssumption DEF RequestIsSound
<1>2. CASE i # 1
  <2>1. i \in 2..Len(m.path)
    BY <1>2
  <2> QED
    BY <2>1 DEF RequestIsSound
<1> QED
  BY <1>1, <1>2

\* What a relay sends that is not yet on the path and has recorded the flood.
LEMMA LongerPath ==
    ASSUME NEW m, NEW st, RequestIsSound(m, st),
           NEW r \in Relay, r \in Peers[m.sender], ~ Contains(m.path, r),
           m.source \in st[r],
           NEW n \in Peers[r], NEW b, NEW w
    PROVE  IsOnTheAir(Rreq(m.source, r, n, Append(m.path, r), b, w), st)
<1> DEFINE c == Rreq(m.source, r, n, Append(m.path, r), b, w)
<1>1. PICK p \in Seq(Node) : p = m.path
  BY DEF RequestIsSound
<1>2. PICK q \in Seq(Node) : q = Append(p, r)
  <2>1. r \in Node
    BY DEF Node
  <2>2. Append(p, r) \in Seq(Node)
    BY <1>1, <2>1, AppendProperties
  <2> QED
    BY <2>2
<1>3. PICK k \in Nat : k = Len(p) /\ k > 0
  BY <1>1, LenProperties DEF RequestIsSound
<1>4. /\ Len(q) = k + 1 /\ DOMAIN q = 1..k + 1 /\ DOMAIN p = 1..k
      /\ \A i \in 1..k : q[i] = p[i]
      /\ q[k + 1] = r
  BY <1>1, <1>2, <1>3, LenProperties
<1>5. /\ c.source = m.source /\ c.path = q /\ c.sender = r /\ c.to = n
  BY <1>1, <1>2 DEF Rreq
<1>6. \A i \in 1..k : p[i] # r
  BY <1>1, <1>3 DEF Contains
<1>7. IsInjective(q)
  <2> SUFFICES ASSUME NEW i \in 1..k + 1, NEW j \in 1..k + 1, q[i] = q[j] PROVE i = j
    BY <1>4 DEF IsInjective
  <2>1. (i \in 1..k \/ i = k + 1) /\ (j \in 1..k \/ j = k + 1)
    BY <1>3
  <2>2. \A x, y \in 1..k : p[x] = p[y] => x = y
    BY <1>1, <1>4 DEF RequestIsSound, IsSimplePath, IsInjective
  <2> QED
    BY <1>4, <1>6, <2>1, <2>2
<1>8. \A i \in 1..Len(q) - 1 : q[i + 1] \in Peers[q[i]]
  <2> SUFFICES ASSUME NEW i \in 1..k PROVE q[i + 1] \in Peers[q[i]]
    BY <1>3, <1>4
  <2>1. CASE i = k
    <3>1. p[k] = m.sender
      BY <1>1, <1>3 DEF RequestIsSound, Last
    <3> QED
      BY <1>4, <2>1, <3>1
  <2>2. CASE i # k
    <3>1. i \in 1..k - 1 /\ i + 1 \in 1..k
      BY <1>3, <2>2
    <3>2. p[i + 1] \in Peers[p[i]]
      BY <1>1, <1>3, <3>1 DEF RequestIsSound, IsSimplePath
    <3> QED
      BY <1>4, <3>1, <3>2
  <2> QED
    BY <2>1, <2>2
<1>9. q[1] = m.source /\ Last(q) = r
  BY <1>1, <1>3, <1>4 DEF RequestIsSound, Last
<1>10. \A i \in 2..Len(q) : q[i] \in Relay /\ m.source \in st[q[i]]
  <2> SUFFICES ASSUME NEW i \in 2..k + 1 PROVE q[i] \in Relay /\ m.source \in st[q[i]]
    BY <1>4
  <2>1. CASE i = k + 1
    BY <1>4, <2>1
  <2>2. CASE i # k + 1
    <3>1. i \in 2..k /\ i \in 1..k
      BY <1>3, <2>2
    <3> QED
      BY <1>1, <1>3, <1>4, <3>1 DEF RequestIsSound
  <2> QED
    BY <2>1, <2>2
<1>11. n \in Node /\ r \in Node
  BY TopologyAssumption DEF Node
<1>12. RequestIsSound(c, st)
  BY <1>3, <1>4, <1>5, <1>7, <1>8, <1>9, <1>10 DEF RequestIsSound, IsSimplePath
<1> QED
  BY <1>5, <1>11, <1>12 DEF IsOnTheAir

-----------------------------------------------------------------------------
(* Every action keeps the requests sound. *)

\* What is new must be sound, and nothing recorded is forgotten.
LEMMA SoundStep ==
    ASSUME RequestsAreSound,
           sequenceTable' \in [Node -> SUBSET Client],
           \A n \in Node : sequenceTable[n] \subseteq sequenceTable'[n],
           \A m \in net' : m.type = "rreq" =>
                               m \in net \/ IsOnTheAir(m, sequenceTable'),
           \A e \in pending' : e \in pending \/ IsHeld(e, sequenceTable')
    PROVE  RequestsAreSound'
<1>1. PICK st : st = sequenceTable
  OBVIOUS
<1>2. PICK su : su = sequenceTable'
  OBVIOUS
<1>3. /\ \A m : IsOnTheAir(m, st) => IsOnTheAir(m, su)
      /\ \A e : IsHeld(e, st) => IsHeld(e, su)
  BY <1>1, <1>2, MoreRecorded
<1>4. ASSUME NEW m \in net', m.type = "rreq" PROVE IsOnTheAir(m, sequenceTable')
  BY <1>1, <1>2, <1>3, <1>4 DEF RequestsAreSound
<1>5. ASSUME NEW e \in pending' PROVE IsHeld(e, sequenceTable')
  BY <1>1, <1>2, <1>3 DEF RequestsAreSound
<1> QED
  BY <1>4, <1>5 DEF RequestsAreSound

\* A client puts itself on the path of its flood.
LEMMA SendRREQSound ==
    ASSUME RequestsAreSound, NEW s \in Client, SendRREQ(s) PROVE RequestsAreSound'
<1>1. ASSUME NEW n \in Peers[s]
      PROVE  IsOnTheAir(Rreq(s, s, n, <<s>>, 0, 0), sequenceTable)
  <2>1. PICK p \in Seq(Node) : p = <<s>>
    <3>1. s \in Node
      BY DEF Node
    <3>2. <<s>> \in Seq(Node)
      BY <3>1
    <3> QED
      BY <3>2
  <2>2. Len(p) = 1 /\ p[1] = s /\ DOMAIN p = 1..1
    BY <2>1
  <2>3. IsSimplePath(p) /\ Last(p) = s
    BY <2>2 DEF IsSimplePath, IsInjective, Last
  <2>4. s \in Node /\ n \in Node
    BY TopologyAssumption DEF Node
  <2> DEFINE m == Rreq(s, s, n, p, 0, 0)
  <2>5. m.source = s /\ m.sender = s /\ m.to = n /\ m.path = p
    BY DEF Rreq
  <2> HIDE DEF m
  <2>6. RequestIsSound(m, sequenceTable)
    <3>1. IsSimplePath(m.path) /\ Last(m.path) = m.sender
      BY <2>3, <2>5
    <3>2. Len(m.path) = 1
      BY <2>2, <2>5
    <3>3. \A i \in 2..Len(m.path) : FALSE
      BY <3>2
    <3> QED
      BY <2>1, <2>2, <2>5, <3>1, <3>2, <3>3 DEF RequestIsSound
  <2>7. IsOnTheAir(m, sequenceTable)
    BY <2>4, <2>5, <2>6 DEF IsOnTheAir
  <2> QED
    BY <2>1, <2>7 DEF m
<1>2. /\ sequenceTable' = sequenceTable /\ pending' = pending
      /\ net' = net \cup {Rreq(s, s, n, <<s>>, 0, 0) : n \in Peers[s]}
  BY DEF SendRREQ, tables
<1>3. \A m \in net' : m \in net \/ IsOnTheAir(m, sequenceTable')
  BY <1>1, <1>2
<1>4. sequenceTable' \in [Node -> SUBSET Client]
  BY <1>2 DEF RequestsAreSound
<1> QED
  BY <1>2, <1>3, <1>4, SoundStep

\* What a relay that has recorded a flood passes on is sound.
LEMMA CopiesSound ==
    ASSUME NEW st, NEW m, RequestIsSound(m, st),
           NEW r \in Relay, r \in Peers[m.sender], ~ Contains(m.path, r),
           m.source \in st[r],
           NEW c \in ForwardedCopies(r, m)
    PROVE  IsOnTheAir(c, st)
<1>1. PICK n \in Peers[r] :
        c = Rreq(m.source, r, n, Append(m.path, r),
                 IF dfMode THEN Bidirection(r, m.sender, n) ELSE m.bidirection,
                 IF dfMode THEN m.waited + DelayTicks(m.bidirection) ELSE m.waited)
  BY DEF ForwardedCopies
<1>2. PICK b, w : c = Rreq(m.source, r, n, Append(m.path, r), b, w)
  BY <1>1
<1> QED
  BY <1>2, LongerPath

\* Recording a flood forgets none.
LEMMA RecordFloodGrows ==
    ASSUME sequenceTable \in [Node -> SUBSET Client],
           NEW r \in Node, NEW s \in Client,
           sequenceTable' = [sequenceTable EXCEPT ![r] = @ \cup {s}]
    PROVE  /\ sequenceTable' \in [Node -> SUBSET Client]
           /\ \A n \in Node : sequenceTable[n] \subseteq sequenceTable'[n]
           /\ s \in sequenceTable'[r]
  OBVIOUS

\* Forwarding at once or after a delay.
LEMMA ForwardSound ==
    ASSUME RequestsAreSound, NEW m, NEW r \in Relay, RequestIsSound(m, sequenceTable),
           r \in Peers[m.sender], ~ Contains(m.path, r),
           RecordFlood(r, m),
           \A x \in net' : x \in net \/ x \in ForwardedCopies(r, m),
           \A e \in pending' : e \in pending
    PROVE  RequestsAreSound'
<1>1. m.source \in Client /\ r \in Node
  BY DEF RequestIsSound, Node
<1>2. /\ sequenceTable' \in [Node -> SUBSET Client]
      /\ \A n \in Node : sequenceTable[n] \subseteq sequenceTable'[n]
      /\ m.source \in sequenceTable'[r]
  BY <1>1, RecordFloodGrows DEF RecordFlood, RequestsAreSound
<1>3. PICK st : st = sequenceTable
  OBVIOUS
<1>4. PICK su : su = sequenceTable'
  OBVIOUS
<1>5. RequestIsSound(m, su)
  BY <1>2, <1>3, <1>4, MoreRecorded
<1>6. ASSUME NEW c \in ForwardedCopies(r, m) PROVE IsOnTheAir(c, su)
  BY <1>2, <1>4, <1>5, CopiesSound
<1>7. \A x \in net' : x \in net \/ IsOnTheAir(x, sequenceTable')
  BY <1>4, <1>6
<1> QED
  BY <1>2, <1>7, SoundStep

LEMMA HoldBackSound ==
    ASSUME RequestsAreSound, NEW m \in net, m.type = "rreq", NEW r \in Relay, r = m.to,
           m.source \notin sequenceTable[r], HoldBack(r, m)
    PROVE  RequestsAreSound'
<1>1. /\ RequestIsSound(m, sequenceTable)
      /\ r \in Peers[m.sender]
  BY DEF RequestsAreSound, IsOnTheAir
<1>2. ~ Contains(m.path, r)
  BY <1>1, UnrecordedIsFresh
<1> DEFINE e == Schedule(r, m)
<1>3. DOMAIN e = {"at", "request", "left"} /\ e.at = r /\ e.request = m
  BY DEF Schedule
<1>4. pending' = pending \cup {e} /\ net' = net \ {m} /\ sequenceTable' = sequenceTable
  BY DEF HoldBack
<1> HIDE DEF e
<1>5. IsHeld(e, sequenceTable)
  BY <1>1, <1>2, <1>3 DEF IsHeld
<1>6. sequenceTable \in [Node -> SUBSET Client]
  BY DEF RequestsAreSound
<1>7. /\ \A x \in net' : x \in net
      /\ \A x \in pending' : x \in pending \/ IsHeld(x, sequenceTable')
  BY <1>4, <1>5
<1> QED
  BY <1>4, <1>6, <1>7, SoundStep

LEMMA HandleRREQSound ==
    ASSUME RequestsAreSound, NEW m \in net, m.type = "rreq", HandleRREQ(m.to, m)
    PROVE  RequestsAreSound'
<1>1. PICK n \in Node : n = m.to
  BY DEF RequestsAreSound, IsOnTheAir
<1>2. sequenceTable \in [Node -> SUBSET Client] /\ m.source \in Client
  BY DEF RequestsAreSound, IsOnTheAir, RequestIsSound
<1>3. CASE DropMessage(m) \/ IgnoreLater(n, m)
  <2>1. net' = net \ {m} /\ sequenceTable' = sequenceTable /\ pending' = pending
    BY <1>3 DEF DropMessage, IgnoreLater, tables
  <2> QED
    BY <1>2, <2>1, SoundStep
<1>4. CASE SendRREP(n, m)
  <2>1. sequenceTable' = [sequenceTable EXCEPT ![n] = @ \cup {m.source}]
    BY <1>4 DEF SendRREP
  <2>2. pending' = pending
    BY <1>4 DEF SendRREP, tables
  <2>3. \A x \in net' : x \in net \/ x.type # "rreq"
    BY <1>4 DEF SendRREP, Rrep
  <2>4. /\ sequenceTable' \in [Node -> SUBSET Client]
        /\ \A k \in Node : sequenceTable[k] \subseteq sequenceTable'[k]
    BY <1>2, <2>1, RecordFloodGrows
  <2> QED
    BY <2>2, <2>3, <2>4, SoundStep
<1>5. CASE n \in Relay /\ ~ HasSequenceNumber(n, m.source) /\ ForwardRREQ(n, m)
  <2>1. RequestIsSound(m, sequenceTable) /\ n \in Peers[m.sender]
    BY <1>1 DEF RequestsAreSound, IsOnTheAir
  <2>2. ~ Contains(m.path, n)
    BY <1>5, <2>1, UnrecordedIsFresh DEF HasSequenceNumber
  <2>3. /\ RecordFlood(n, m)
        /\ \A x \in net' : x \in net \/ x \in ForwardedCopies(n, m)
        /\ pending' = pending
    BY <1>5 DEF ForwardRREQ, tables
  <2> QED
    BY <1>5, <2>1, <2>2, <2>3, ForwardSound
<1>6. CASE n \in Relay /\ ~ HasSequenceNumber(n, m.source) /\ HoldBack(n, m)
  BY <1>1, <1>6, HoldBackSound DEF HasSequenceNumber
<1>7. HandleRREQ(n, m)
  BY <1>1
<1> QED
  BY <1>3, <1>4, <1>5, <1>6, <1>7 DEF HandleRREQ

\* Replies put no request on the air.
LEMMA HandleRREPSound ==
    ASSUME RequestsAreSound, NEW m \in net, HandleRREP(m.to, m)
    PROVE  RequestsAreSound'
<1>1. sequenceTable' = sequenceTable /\ pending' = pending
  BY DEF HandleRREP, DropMessage, tables
<1>2. \A x \in net' : x \in net \/ x.type # "rreq"
  BY DEF HandleRREP, DropMessage, ForwardRREP, Rrep
<1>3. sequenceTable \in [Node -> SUBSET Client]
  BY DEF RequestsAreSound
<1> QED
  BY <1>1, <1>2, <1>3, SoundStep

LEMMA DelayForwardRREQSound ==
    ASSUME RequestsAreSound, NEW e \in pending, DelayForwardRREQ(e)
    PROVE  RequestsAreSound'
<1>1. PICK r \in Relay : r = e.at
  BY DEF RequestsAreSound, IsHeld
<1> DEFINE m == e.request
<1>2. RequestIsSound(m, sequenceTable) /\ r \in Peers[m.sender] /\ ~ Contains(m.path, r)
  BY <1>1 DEF RequestsAreSound, IsHeld
<1>3. /\ RecordFlood(r, m)
      /\ \A x \in net' : x \in net \/ x \in ForwardedCopies(r, m)
      /\ \A x \in pending' : x \in pending
  BY <1>1 DEF DelayForwardRREQ
<1> QED
  BY <1>2, <1>3, ForwardSound

\* A tick changes what is left of the delays and nothing else.
LEMMA TickSound ==
    ASSUME RequestsAreSound, Tick PROVE RequestsAreSound'
<1>1. ASSUME NEW x \in pending' PROVE IsHeld(x, sequenceTable)
  <2>1. PICK e \in pending : x = [e EXCEPT !.left = @ - 1]
    BY DEF Tick
  <2>2. IsHeld(e, sequenceTable)
    BY DEF RequestsAreSound
  <2>3. DOMAIN e = {"at", "request", "left"}
    BY <2>2 DEF IsHeld
  <2>4. DOMAIN x = DOMAIN e /\ x.at = e.at /\ x.request = e.request
    BY <2>1, <2>3
  <2> QED
    BY <2>2, <2>4 DEF IsHeld
<1>2. net' = net /\ sequenceTable' = sequenceTable
  BY DEF Tick
<1>3. sequenceTable \in [Node -> SUBSET Client]
  BY DEF RequestsAreSound
<1> QED
  BY <1>1, <1>2, <1>3, SoundStep

LEMMA NextSound == ASSUME RequestsAreSound, [Next]_vars PROVE RequestsAreSound'
<1>1. ASSUME NEW s \in Client, SendRREQ(s) PROVE RequestsAreSound'
  BY <1>1, SendRREQSound
<1>2. ASSUME NEW m \in net, Receive(m) PROVE RequestsAreSound'
  BY <1>2, HandleRREQSound, HandleRREPSound DEF Receive
<1>3. ASSUME NEW m \in net, Lose(m) PROVE RequestsAreSound'
  <2>1. net' = net \ {m} /\ sequenceTable' = sequenceTable /\ pending' = pending
    BY <1>3 DEF Lose, tables
  <2>2. sequenceTable \in [Node -> SUBSET Client]
    BY DEF RequestsAreSound
  <2> QED
    BY <2>1, <2>2, SoundStep
<1>4. ASSUME NEW e \in pending, DelayForwardRREQ(e) PROVE RequestsAreSound'
  BY <1>4, DelayForwardRREQSound
<1>5. CASE Tick
  BY <1>5, TickSound
<1>6. CASE UNCHANGED vars
  BY <1>6 DEF RequestsAreSound, vars, tables
<1> QED
  BY <1>1, <1>2, <1>3, <1>4, <1>5, <1>6 DEF Next

\* In every network, in both modes and whatever is lost, every request is sound:
\* each relay on its path has recorded the flood it belongs to, and no relay
\* holds one back that has been through it.
THEOREM RouteRequestsAreSound == Spec => []RequestsAreSound
<1>1. Init => RequestsAreSound
  BY DEF Init, RequestsAreSound
<1> QED
  BY <1>1, NextSound, PTL DEF Spec

\* A request never runs in a circle: the path it carries is a simple path from its
\* source to the node that sent it, and no relay on it holds it back again.
THEOREM RouteRequestsCarrySimplePaths == Spec => []RequestsCarrySimplePaths
<1>1. RequestsAreSound => RequestsCarrySimplePaths
  BY DEF RequestsAreSound, IsOnTheAir, IsHeld, RequestIsSound,
         RequestsCarrySimplePaths, Requests
<1> QED
  BY <1>1, RouteRequestsAreSound, PTL

-----------------------------------------------------------------------------
(* A flood is answered once. *)

\* A partner that answered has recorded the flood for good, so a second request of
\* it finds the record; and what the relays pass on replaces what they took.
RepliesAreFew ==
    /\ routingIdTable = [n \in Node |-> [d \in Client |-> routingIdTable[n][d]]]
    /\ \A m \in net : m.type = "rrep" =>
           /\ m.destination \in Client /\ m.source = Partner[m.destination]
           /\ m.destination \in sequenceTable[m.source]
           /\ routingIdTable[m.destination][m.source] = None
    /\ \A m, w \in net :
           m.type = "rrep" /\ w.type = "rrep" /\ m.destination = w.destination => m = w
    /\ \A s \in Client :
           routingIdTable[s][Partner[s]] # None => s \in sequenceTable[Partner[s]]

\* No step that neither replies nor learns can disturb it.
LEMMA FewStep ==
    ASSUME RepliesAreFew,
           \A n \in Node : sequenceTable[n] \subseteq sequenceTable'[n],
           routingIdTable' = routingIdTable,
           \A m \in net' : m.type = "rrep" => m \in net
    PROVE  RepliesAreFew'
<1>1. \A s \in Client : Partner[s] \in Node
  BY TopologyAssumption DEF Node
<1> QED
  BY <1>1 DEF RepliesAreFew

LEMMA RecordFloodFew ==
    ASSUME RequestsAreSound, RepliesAreFew, NEW m, NEW r \in Relay, m.source \in Client,
           RecordFlood(r, m), routingIdTable' = routingIdTable,
           \A x \in net' : x \in net \/ x \in ForwardedCopies(r, m)
    PROVE  RepliesAreFew'
<1>1. \A n \in Node : sequenceTable[n] \subseteq sequenceTable'[n]
  BY RecordFloodGrows DEF RecordFlood, RequestsAreSound, Node
<1>2. \A x \in ForwardedCopies(r, m) : x.type = "rreq"
  BY DEF ForwardedCopies, Rreq
<1>3. \A x \in net' : x.type = "rrep" => x \in net
  BY <1>2
<1> QED
  BY <1>1, <1>3, FewStep

\* The partner answers the first request of a flood that reaches it.
LEMMA SendRREPFew ==
    ASSUME RequestsAreSound, RepliesAreFew,
           NEW s \in Client, NEW m \in net, m.source = s, NEW d, d = Partner[s],
           s \notin sequenceTable[d], SendRREP(d, m)
    PROVE  RepliesAreFew'
<1> DEFINE a == Rrep(d, s, d, m.sender, m.path)
<1>1. a.type = "rrep" /\ a.destination = s /\ a.source = d
  BY DEF Rrep
<1>2. /\ \A x \in net' : x \in net \/ x = a
      /\ sequenceTable' = [sequenceTable EXCEPT ![d] = @ \cup {s}]
      /\ routingIdTable' = routingIdTable
  BY DEF SendRREP, routes
<1> HIDE DEF a
<1>3. d \in Client /\ d \in Node
  BY TopologyAssumption DEF Node
<1>4. /\ \A n \in Node : sequenceTable[n] \subseteq sequenceTable'[n]
      /\ s \in sequenceTable'[d]
  BY <1>2, <1>3, RecordFloodGrows DEF RequestsAreSound
<1>5. \A x \in net : x.type = "rrep" => x.destination # s
  BY DEF RepliesAreFew
<1>6. routingIdTable[s][d] = None
  BY DEF RepliesAreFew
<1>7. \A c \in Client : Partner[c] \in Node
  BY TopologyAssumption DEF Node
<1>8. ASSUME NEW x \in net', x.type = "rrep"
      PROVE  /\ x.destination \in Client /\ x.source = Partner[x.destination]
             /\ x.destination \in sequenceTable'[x.source]
             /\ routingIdTable'[x.destination][x.source] = None
  <2>1. CASE x = a
    BY <1>1, <1>2, <1>4, <1>6, <2>1
  <2>2. CASE x \in net
    BY <1>2, <1>4, <1>7, <1>8, <2>2 DEF RepliesAreFew
  <2> QED
    BY <1>2, <2>1, <2>2
<1>9. ASSUME NEW x \in net', NEW w \in net', x.type = "rrep", w.type = "rrep",
             x.destination = w.destination
      PROVE  x = w
  BY <1>1, <1>2, <1>5, <1>9 DEF RepliesAreFew
<1>10. \A c \in Client :
         routingIdTable'[c][Partner[c]] # None => c \in sequenceTable'[Partner[c]]
  BY <1>2, <1>4, <1>7 DEF RepliesAreFew
<1>11. routingIdTable' = [n \in Node |-> [c \in Client |-> routingIdTable'[n][c]]]
  BY <1>2 DEF RepliesAreFew
<1> QED
  BY <1>8, <1>9, <1>10, <1>11 DEF RepliesAreFew

\* A reply is taken off the air where it is dropped, learned or passed on.
LEMMA HandleRREPFew ==
    ASSUME RepliesAreFew, NEW m \in net, m.type = "rrep", NEW n, HandleRREP(n, m)
    PROVE  RepliesAreFew'
<1>1. sequenceTable' = sequenceTable
  BY DEF HandleRREP, DropMessage
<1>2. CASE n = m.source /\ DropMessage(m)
  BY <1>1, <1>2, FewStep DEF DropMessage, routes
<1> DEFINE c == m.destination
           d == m.source
           learned == [routingIdTable EXCEPT ![n][d] = m.sender]
<1>3. /\ c \in Client /\ d = Partner[c] /\ c \in sequenceTable[d]
      /\ d \in Client /\ Partner[d] = c
  BY TopologyAssumption DEF RepliesAreFew
<1>4. \A x \in net : x.type = "rrep" /\ x.destination = c => x = m
  BY DEF RepliesAreFew
<1>5. learned = [k \in Node |-> [p \in Client |-> learned[k][p]]]
  <2>1. PICK t : t = routingIdTable
    OBVIOUS
  <2>2. t = [k \in Node |-> [p \in Client |-> t[k][p]]]
    BY <2>1 DEF RepliesAreFew
  <2>3. PICK u : u = [t EXCEPT ![n][d] = m.sender]
    OBVIOUS
  <2>4. ASSUME NEW k \in Node PROVE u[k] = [p \in Client |-> u[k][p]]
    <3>1. t[k] = [p \in Client |-> t[k][p]]
      BY <2>2
    <3>2. u[k] = t[k] \/ u[k] = [t[k] EXCEPT ![d] = m.sender]
      BY <2>2, <2>3
    <3> QED
      BY <3>1, <3>2
  <2>5. u = [k \in Node |-> u[k]]
    BY <2>2, <2>3
  <2>6. u = [k \in Node |-> [p \in Client |-> u[k][p]]]
    BY <2>4, <2>5
  <2> QED
    BY <2>1, <2>3, <2>6
<1>6. CASE n = c /\ LearnRoute(n, m) /\ net' = net \ {m}
  <2>1. routingIdTable' = learned /\ net' = net \ {m}
    BY <1>6 DEF LearnRoute
  <2>2. \A s \in Client, p \in Client : s # c => learned[s][p] = routingIdTable[s][p]
    BY <1>6 DEF RepliesAreFew, Node
  <2>3. learned = [k \in Node |-> [p \in Client |-> learned[k][p]]]
    BY <1>5
  <2> HIDE DEF learned, c, d
  <2>4. ASSUME NEW x \in net', x.type = "rrep"
        PROVE  /\ x.destination \in Client /\ x.source = Partner[x.destination]
               /\ x.destination \in sequenceTable'[x.source]
               /\ routingIdTable'[x.destination][x.source] = None
    <3>1. /\ x.destination \in Client /\ x.source = Partner[x.destination]
          /\ x.destination \in sequenceTable[x.source]
          /\ routingIdTable[x.destination][x.source] = None
      BY <2>1, <2>4 DEF RepliesAreFew
    <3>2. x.destination # c
      BY <1>4, <2>1, <2>4 DEF c
    <3>3. x.source \in Client
      BY <3>1, TopologyAssumption
    <3> QED
      BY <1>1, <2>1, <2>2, <3>1, <3>2, <3>3
  <2>5. \A x, w \in net' :
          x.type = "rrep" /\ w.type = "rrep" /\ x.destination = w.destination => x = w
    BY <2>1 DEF RepliesAreFew
  <2>6. ASSUME NEW s \in Client, routingIdTable'[s][Partner[s]] # None
        PROVE  s \in sequenceTable'[Partner[s]]
    <3>1. CASE s = c
      BY <1>1, <1>3, <3>1
    <3>2. CASE s # c
      <4>1. Partner[s] \in Client
        BY TopologyAssumption
      <4>2. routingIdTable[s][Partner[s]] # None
        BY <2>1, <2>2, <2>6, <3>2, <4>1
      <4> QED
        BY <1>1, <4>2 DEF RepliesAreFew
    <3> QED
      BY <3>1, <3>2
  <2> QED
    BY <2>1, <2>3, <2>4, <2>5, <2>6 DEF RepliesAreFew
<1>7. CASE n \notin {d, c} /\ LearnRoute(n, m) /\ ForwardRREP(n, m)
  <2>1. PICK a : /\ \A x \in net' : x = a \/ (x \in net /\ x # m)
                 /\ a.type = "rrep" /\ a.destination = c /\ a.source = d
    <3> DEFINE path == WithoutSelf(n, m.path)
               b == Rrep(d, c, n, Last(path), path)
    <3>1. net' = (net \ {m}) \cup {b}
      BY <1>7 DEF ForwardRREP
    <3>2. b.type = "rrep" /\ b.destination = c /\ b.source = d
      BY DEF Rrep
    <3> HIDE DEF b
    <3> QED
      BY <3>1, <3>2
  <2>2. routingIdTable' = learned
    BY <1>7 DEF LearnRoute
  <2>3. ASSUME NEW s \in Client
        PROVE  learned[s][Partner[s]] = routingIdTable[s][Partner[s]]
    <3>1. s # n \/ Partner[s] # d
      BY <1>3, <1>7, TopologyAssumption
    <3>2. s \in Node /\ Partner[s] \in Client
      BY TopologyAssumption DEF Node
    <3> QED
      BY <3>1, <3>2 DEF RepliesAreFew
  <2>4. learned = [k \in Node |-> [p \in Client |-> learned[k][p]]]
    BY <1>5
  <2> HIDE DEF learned, c, d
  <2>5. \A x \in net' : x.type = "rrep" =>
           /\ x.destination \in Client /\ x.source = Partner[x.destination]
           /\ x.destination \in sequenceTable'[x.source]
    BY <1>1, <1>3, <2>1 DEF RepliesAreFew
  <2>6. routingIdTable[c][d] = None
    BY DEF RepliesAreFew, c, d
  <2>7. ASSUME NEW x \in net', x.type = "rrep"
        PROVE  routingIdTable'[x.destination][x.source] = None
    <3>1. x.destination \in Client /\ x.source = Partner[x.destination]
      BY <2>5, <2>7
    <3>2. routingIdTable[x.destination][x.source] = None
      BY <2>1, <2>6, <2>7 DEF RepliesAreFew
    <3> QED
      BY <2>2, <2>3, <3>1, <3>2
  <2>8. \A x \in net : x.type = "rrep" /\ x.destination = c => x = m
    BY <1>4 DEF c
  <2>9. \A x, w \in net' :
          x.type = "rrep" /\ w.type = "rrep" /\ x.destination = w.destination => x = w
    BY <2>1, <2>8 DEF RepliesAreFew
  <2>10. \A s \in Client :
           routingIdTable'[s][Partner[s]] # None => s \in sequenceTable'[Partner[s]]
    BY <1>1, <2>2, <2>3 DEF RepliesAreFew
  <2> QED
    BY <2>2, <2>4, <2>5, <2>7, <2>9, <2>10 DEF RepliesAreFew
<1> QED
  BY <1>2, <1>6, <1>7 DEF HandleRREP

LEMMA HandleRREQFew ==
    ASSUME RequestsAreSound, RepliesAreFew,
           NEW m \in net, m.type = "rreq", NEW n, n = m.to, HandleRREQ(n, m)
    PROVE  RepliesAreFew'
<1>1. m.source \in Client
  BY DEF RequestsAreSound, IsOnTheAir, RequestIsSound
<1>2. CASE DropMessage(m) \/ IgnoreLater(n, m) \/ HoldBack(n, m)
  <2>1. /\ net' = net \ {m} /\ sequenceTable' = sequenceTable
        /\ routingIdTable' = routingIdTable
    BY <1>2 DEF DropMessage, IgnoreLater, HoldBack, routes
  <2> QED
    BY <2>1, FewStep
<1>3. CASE n = Partner[m.source] /\ ~ HasSequenceNumber(n, m.source) /\ SendRREP(n, m)
  BY <1>1, <1>3, SendRREPFew DEF HasSequenceNumber
<1>4. CASE n \in Relay /\ ForwardRREQ(n, m)
  <2>1. /\ RecordFlood(n, m) /\ routingIdTable' = routingIdTable
        /\ \A x \in net' : x \in net \/ x \in ForwardedCopies(n, m)
    BY <1>4 DEF ForwardRREQ, routes
  <2> QED
    BY <1>1, <1>4, <2>1, RecordFloodFew
<1> QED
  BY <1>2, <1>3, <1>4 DEF HandleRREQ

LEMMA NextFew ==
    ASSUME RequestsAreSound, RepliesAreFew, [Next]_vars PROVE RepliesAreFew'
<1>1. ASSUME NEW s \in Client, SendRREQ(s) PROVE RepliesAreFew'
  <2>1. sequenceTable' = sequenceTable /\ routingIdTable' = routingIdTable
    BY <1>1 DEF SendRREQ, routes
  <2>2. \A x \in net' : x.type = "rrep" => x \in net
    BY <1>1 DEF SendRREQ, Rreq
  <2> QED
    BY <2>1, <2>2, FewStep
<1>2. ASSUME NEW m \in net, Receive(m) PROVE RepliesAreFew'
  BY <1>2, HandleRREQFew, HandleRREPFew DEF Receive
<1>3. ASSUME NEW m \in net, Lose(m) PROVE RepliesAreFew'
  <2>1. /\ net' = net \ {m} /\ sequenceTable' = sequenceTable
        /\ routingIdTable' = routingIdTable
    BY <1>3 DEF Lose, routes
  <2> QED
    BY <2>1, FewStep
<1>4. ASSUME NEW e \in pending, DelayForwardRREQ(e) PROVE RepliesAreFew'
  <2>1. PICK r \in Relay : r = e.at /\ e.request.source \in Client
    BY DEF RequestsAreSound, IsHeld, RequestIsSound
  <2>2. /\ RecordFlood(r, e.request) /\ routingIdTable' = routingIdTable
        /\ \A x \in net' : x \in net \/ x \in ForwardedCopies(r, e.request)
    BY <1>4, <2>1 DEF DelayForwardRREQ, routes
  <2> QED
    BY <2>1, <2>2, RecordFloodFew
<1>5. CASE Tick
  <2>1. /\ net' = net /\ sequenceTable' = sequenceTable
        /\ routingIdTable' = routingIdTable
    BY <1>5 DEF Tick, routes
  <2> QED
    BY <2>1, FewStep
<1>6. CASE UNCHANGED vars
  <2>1. /\ net' = net /\ sequenceTable' = sequenceTable
        /\ routingIdTable' = routingIdTable
    BY <1>6 DEF vars, routes
  <2> QED
    BY <2>1, FewStep
<1> QED
  BY <1>1, <1>2, <1>3, <1>4, <1>5, <1>6 DEF Next

\* Whatever is lost and whichever way the copies of a flood take, the replies to a
\* client in flight and the route it already has never add up to more than one,
\* and there is none before its partner has recorded the flood.
THEOREM RouteOneReplyPerFlood == Spec => []OneReplyPerFlood
<1>1. Init => RepliesAreFew
  <2> SUFFICES ASSUME Init PROVE RepliesAreFew
    OBVIOUS
  <2>1. net = {} /\ routingIdTable = [n \in Node |-> [d \in Client |-> None]]
    BY DEF Init
  <2>2. \A s \in Client : routingIdTable[s][Partner[s]] = None
    BY <2>1, TopologyAssumption DEF Node
  <2> QED
    BY <2>1, <2>2 DEF RepliesAreFew
<1>2. RepliesAreFew => OneReplyPerFlood
  <2> SUFFICES ASSUME RepliesAreFew, NEW s \in Client
               PROVE  Cardinality({m \in Replies : m.destination = s})
                        + (IF routingIdTable[s][Partner[s]] # None THEN 1 ELSE 0)
                          <= (IF s \in sequenceTable[Partner[s]] THEN 1 ELSE 0)
    BY DEF OneReplyPerFlood
  <2> DEFINE R == {m \in Replies : m.destination = s}
  <2>1. \A m \in R : /\ s \in sequenceTable[Partner[s]]
                     /\ routingIdTable[s][Partner[s]] = None
    BY DEF RepliesAreFew, Replies
  <2>2. \A m, w \in R : m = w
    BY DEF RepliesAreFew, Replies
  <2>3. routingIdTable[s][Partner[s]] # None => s \in sequenceTable[Partner[s]]
    BY DEF RepliesAreFew
  <2> HIDE DEF R
  <2>4. CASE R = {}
    <3>1. Cardinality(R) = 0
      BY <2>4, FS_EmptySet
    <3> QED
      BY <2>3, <3>1 DEF R
  <2>5. CASE R # {}
    <3>1. PICK m \in R : R = {m}
      BY <2>2, <2>5
    <3>2. Cardinality(R) = 1
      BY <3>1, FS_Singleton
    <3> QED
      BY <2>1, <3>1, <3>2 DEF R
  <2> QED
    BY <2>4, <2>5
<1>3. RequestsAreSound /\ RepliesAreFew /\ [Next]_vars => RepliesAreFew'
  BY NextFew
<1> QED
  BY <1>1, <1>2, <1>3, RouteRequestsAreSound, PTL DEF Spec

-----------------------------------------------------------------------------
(* The path of a reply loses its last node at every hop. *)

\* The first k elements of a sequence.
Prefix(p, k) == [i \in 1..k |-> p[i]]

LEMMA PrefixFacts ==
    ASSUME NEW S, NEW p \in Seq(S), NEW k \in 0..Len(p)
    PROVE  /\ Prefix(p, k) \in Seq(S) /\ Len(Prefix(p, k)) = k
           /\ \A i \in 1..k : Prefix(p, k)[i] = p[i]
           /\ k < Len(p) => Append(Prefix(p, k), p[k + 1]) = Prefix(p, k + 1)
<1>1. k \in Nat /\ Len(p) \in Nat
  BY LenProperties
<1>2. \A i \in 1..k : p[i] \in S
  BY <1>1, ElementOfSeq
<1>3. Prefix(p, k) \in Seq(S) /\ Len(Prefix(p, k)) = k
  BY <1>1, <1>2 DEF Prefix
<1>4. \A i \in 1..k : Prefix(p, k)[i] = p[i]
  BY DEF Prefix
<1>5. ASSUME k < Len(p) PROVE Append(Prefix(p, k), p[k + 1]) = Prefix(p, k + 1)
  <2>1. PICK q \in Seq(S) : q = Prefix(p, k)
    BY <1>3
  <2>2. p[k + 1] \in S
    BY <1>1, <1>5, ElementOfSeq
  <2>3. Len(q) = k /\ \A i \in 1..k : q[i] = p[i]
    BY <1>3, <1>4, <2>1
  <2>4. Append(q, p[k + 1]) = [i \in 1..k + 1 |-> p[i]]
    <3>1. PICK a \in Seq(S) : a = Append(q, p[k + 1])
      BY <2>2, AppendProperties
    <3>2. Len(a) = k + 1 /\ \A i \in 1..k + 1 : a[i] = p[i]
      BY <1>1, <2>2, <2>3, <3>1, AppendProperties
    <3>3. a = [i \in 1..Len(a) |-> a[i]]
      BY LenProperties
    <3> QED
      BY <3>1, <3>2, <3>3
  <2> QED
    BY <2>1, <2>4 DEF Prefix
<1> QED
  BY <1>3, <1>4, <1>5

\* ForwardRREP takes off the path what is its last element, and only that.
LEMMA WithoutLast ==
    ASSUME NEW p \in Seq(Node), NEW k \in Nat, Len(p) = k + 1,
           NEW n, p[k + 1] = n, \A i \in 1..k : p[i] # n
    PROVE  WithoutSelf(n, p) = Prefix(p, k)
<1> DEFINE all(f) == f = [j \in 0..Len(p) |->
                            IF j = 0 THEN <<>>
                            ELSE IF p[j] = n THEN f[j - 1] ELSE Append(f[j - 1], p[j])]
           tempRoutes == CHOOSE f : all(f)
           g == [j \in 0..Len(p) |-> IF j = k + 1 THEN Prefix(p, k) ELSE Prefix(p, j)]
<1>1. \A j \in 0..k : g[j] = Prefix(p, j)
  OBVIOUS
<1>2. g[0] = <<>> /\ g[k + 1] = Prefix(p, k)
  BY DEF Prefix
<1>3. ASSUME NEW j \in 0..Len(p), j # 0
      PROVE  g[j] = IF p[j] = n THEN g[j - 1] ELSE Append(g[j - 1], p[j])
  <2>1. CASE j = k + 1
    BY <1>1, <2>1
  <2>2. CASE j # k + 1
    <3>1. j \in 1..k /\ j - 1 \in 0..k /\ j - 1 \in 0..Len(p) /\ j - 1 < Len(p)
          /\ (j - 1) + 1 = j
      BY <1>3, <2>2
    <3>2. Append(Prefix(p, j - 1), p[j]) = Prefix(p, j)
      BY <3>1, PrefixFacts
    <3> QED
      BY <1>1, <3>1, <3>2
  <2> QED
    BY <2>1, <2>2
<1>4. g = [j \in 0..Len(p) |-> g[j]]
  OBVIOUS
<1> HIDE DEF g
<1>5. all(g)
  BY <1>2, <1>3, <1>4
<1>6. all(tempRoutes)
  BY <1>5
<1> DEFINE S == {j \in Nat : j <= k + 1 => tempRoutes[j] = g[j]}
<1> HIDE DEF tempRoutes
<1>7. 0 \in S
  BY <1>2, <1>6
<1>8. ASSUME NEW j \in Nat, j \in S PROVE j + 1 \in S
  <2> SUFFICES ASSUME j + 1 <= k + 1 PROVE tempRoutes[j + 1] = g[j + 1]
    OBVIOUS
  <2>1. j + 1 \in 0..Len(p) /\ j + 1 # 0 /\ (j + 1) - 1 = j
    OBVIOUS
  <2>2. tempRoutes[j] = g[j]
    BY <1>8
  <2> QED
    BY <1>3, <1>6, <2>1, <2>2
<1> HIDE DEF S
<1>9. Nat \subseteq S
  BY <1>7, <1>8, SetInduction
<1>10. tempRoutes[k + 1] = g[k + 1]
  BY <1>9 DEF S
<1> QED
  BY <1>2, <1>10 DEF WithoutSelf, tempRoutes

-----------------------------------------------------------------------------
(* Trails: the way of the reply, and afterwards of the data. *)

\* p is a simple path over relays from client s to its partner.
IsTrail(p, s) ==
    /\ p \in Seq(Node) /\ Len(p) > 1
    /\ IsSimplePath(p)
    /\ p[1] = s /\ p[Len(p)] = Partner[s]
    /\ \A i \in 2..Len(p) - 1 : p[i] \in Relay

\* The nodes of trail p to d from the i-th on have the next hop, and the relays among
\* them the flow, in the tables rt and ft; nobody else knows a way to d.
InPlace(p, i, d, rt, ft) ==
    /\ \A j \in i..Len(p) - 1 : rt[p[j]][d] = p[j + 1]
    /\ \A j \in i..Len(p) - 1 : j > 1 => Contains(ft[p[j]], <<p[j - 1], p[j + 1]>>)
    /\ \A n \in Node : (\A j \in i..Len(p) - 1 : n # p[j]) => rt[n][d] = None

\* Reply m has come back to the k-th node of trail p.
ReplyFollows(m, p, k) ==
    /\ k \in 1..Len(p) - 1
    /\ m.path \in Seq(Node) /\ Len(m.path) = k
    /\ \A i \in 1..k : m.path[i] = p[i]
    /\ m.sender = p[k + 1] /\ m.to = p[k]

IsComingBack(m, rt, ft) ==
    \E p, k : /\ IsTrail(p, m.destination) /\ ReplyFollows(m, p, k)
              /\ InPlace(p, k + 1, m.source, rt, ft)

TrailsAreSound ==
    /\ routingIdTable \in [Node -> [Client -> Node \cup {None}]]
    /\ flowTable \in [Relay -> Seq(Node \X Node)]
    /\ \A s \in Client :
         s \notin sequenceTable[Partner[s]] =>
             \A n \in Node : routingIdTable[n][Partner[s]] = None
    /\ \A m \in net : m.type = "rrep" => IsComingBack(m, routingIdTable, flowTable)
    /\ \A s \in Client :
         routingIdTable[s][Partner[s]] # None =>
             \E p : IsTrail(p, s) /\ InPlace(p, 1, Partner[s], routingIdTable, flowTable)

\* From ft to fu flows are only added.
MoreFlows(ft, fu) == \A r \in Relay : \A x : Contains(ft[r], x) => Contains(fu[r], x)

\* From rt to ru only node n has learned, that next is its next hop to d.
Learned(rt, ru, n, d, next) ==
    \A m \in Node, c \in Client :
        ru[m][c] = IF m = n /\ c = d THEN next ELSE rt[m][c]

\* What is in place for a destination stays there while its next hops do not change
\* and flows are only added.
LEMMA InPlaceStays ==
    ASSUME NEW p, NEW i, NEW s, IsTrail(p, s), i \in Nat, i > 0, NEW d,
           NEW rt, NEW ft, NEW ru, NEW fu,
           InPlace(p, i, d, rt, ft),
           \A n \in Node : ru[n][d] = rt[n][d],
           MoreFlows(ft, fu)
    PROVE  InPlace(p, i, d, ru, fu)
<1>1. ASSUME NEW j \in i..Len(p) - 1
      PROVE  p[j] \in Node /\ (j > 1 => p[j] \in Relay)
  <2>1. Len(p) \in Nat /\ j \in 1..Len(p) /\ (j > 1 => j \in 2..Len(p) - 1)
    BY LenProperties DEF IsTrail
  <2> QED
    BY <2>1, ElementOfSeq DEF IsTrail
<1>2. \A j \in i..Len(p) - 1 : ru[p[j]][d] = p[j + 1]
  BY <1>1 DEF InPlace
<1>3. ASSUME NEW j \in i..Len(p) - 1, j > 1 PROVE Contains(fu[p[j]], <<p[j - 1], p[j + 1]>>)
  BY <1>1, <1>3 DEF InPlace, MoreFlows
<1>4. \A n \in Node : (\A j \in i..Len(p) - 1 : n # p[j]) => ru[n][d] = None
  BY DEF InPlace
<1> QED
  BY <1>2, <1>3, <1>4 DEF InPlace

\* Steps that neither reply nor learn.
LEMMA TrailsStay ==
    ASSUME TrailsAreSound,
           \A n \in Node : sequenceTable[n] \subseteq sequenceTable'[n],
           routingIdTable' = routingIdTable, flowTable' = flowTable,
           \A m \in net' : m.type = "rrep" => m \in net
    PROVE  TrailsAreSound'
<1>1. \A s \in Client : Partner[s] \in Node
  BY TopologyAssumption DEF Node
<1>2. \A m \in net' : m.type = "rrep" => IsComingBack(m, routingIdTable', flowTable')
  BY DEF TrailsAreSound
<1>3. \A s \in Client :
        routingIdTable'[s][Partner[s]] # None =>
            \E p : IsTrail(p, s) /\ InPlace(p, 1, Partner[s], routingIdTable', flowTable')
  BY DEF TrailsAreSound
<1> QED
  BY <1>1, <1>2, <1>3 DEF TrailsAreSound

\* The partner that answers a request extends its path to a trail.
LEMMA TrailBegins ==
    ASSUME NEW m, NEW st, RequestIsSound(m, st), NEW d, d = Partner[m.source],
           d \in Peers[m.sender]
    PROVE  IsTrail(Append(m.path, d), m.source)
<1>1. PICK p \in Seq(Node) : p = m.path
  BY DEF RequestIsSound
<1>2. d \in Node /\ d \notin Relay
  BY TopologyAssumption DEF RequestIsSound, Node
<1>3. PICK q \in Seq(Node) : q = Append(p, d)
  BY <1>2, AppendProperties
<1>4. PICK k \in Nat : k = Len(p) /\ k > 0
  BY <1>1, LenProperties DEF RequestIsSound
<1>5. /\ Len(q) = k + 1 /\ DOMAIN q = 1..k + 1 /\ DOMAIN p = 1..k
      /\ \A i \in 1..k : q[i] = p[i]
      /\ q[k + 1] = d
  BY <1>1, <1>2, <1>3, <1>4, AppendProperties, LenProperties
<1>6. \A i \in 1..k : p[i] # d
  <2> SUFFICES ASSUME NEW i \in 1..k, p[i] = d PROVE FALSE
    OBVIOUS
  <2>1. i # 1
    BY <1>1, TopologyAssumption DEF RequestIsSound
  <2>2. i \in 2..Len(m.path)
    BY <1>1, <1>4, <2>1
  <2> QED
    BY <1>1, <1>2, <2>2 DEF RequestIsSound
<1>7. IsInjective(q)
  <2> SUFFICES ASSUME NEW i \in 1..k + 1, NEW j \in 1..k + 1, q[i] = q[j] PROVE i = j
    BY <1>5 DEF IsInjective
  <2>1. (i \in 1..k \/ i = k + 1) /\ (j \in 1..k \/ j = k + 1)
    BY <1>4
  <2>2. \A x, y \in 1..k : p[x] = p[y] => x = y
    BY <1>1, <1>5 DEF RequestIsSound, IsSimplePath, IsInjective
  <2> QED
    BY <1>5, <1>6, <2>1, <2>2
<1>8. \A i \in 1..Len(q) - 1 : q[i + 1] \in Peers[q[i]]
  <2> SUFFICES ASSUME NEW i \in 1..k PROVE q[i + 1] \in Peers[q[i]]
    BY <1>4, <1>5
  <2>1. CASE i = k
    <3>1. p[k] = m.sender
      BY <1>1, <1>4 DEF RequestIsSound, Last
    <3> QED
      BY <1>5, <2>1, <3>1
  <2>2. CASE i # k
    <3>1. i \in 1..k - 1 /\ i + 1 \in 1..k
      BY <1>4, <2>2
    <3>2. p[i + 1] \in Peers[p[i]]
      BY <1>1, <1>4, <3>1 DEF RequestIsSound, IsSimplePath
    <3> QED
      BY <1>5, <3>1, <3>2
  <2> QED
    BY <2>1, <2>2
<1>9. \A i \in 2..Len(q) - 1 : q[i] \in Relay
  <2> SUFFICES ASSUME NEW i \in 2..k PROVE q[i] \in Relay
    BY <1>4, <1>5
  <2>1. i \in 2..Len(m.path) /\ i \in 1..k
    BY <1>1, <1>4
  <2> QED
    BY <1>1, <1>5, <2>1 DEF RequestIsSound
<1>10. q[1] = m.source /\ Len(q) > 1
  BY <1>1, <1>4, <1>5 DEF RequestIsSound
<1> QED
  BY <1>1, <1>3, <1>5, <1>7, <1>8, <1>9, <1>10 DEF IsTrail, IsSimplePath

LEMMA SendRREPTrails ==
    ASSUME RequestsAreSound, TrailsAreSound,
           NEW m \in net, m.type = "rreq", NEW d, d = m.to, d = Partner[m.source],
           m.source \notin sequenceTable[d], SendRREP(d, m)
    PROVE  TrailsAreSound'
<1> DEFINE s == m.source
           a == Rrep(d, s, d, m.sender, m.path)
<1>1. /\ a.type = "rrep" /\ a.destination = s /\ a.source = d
      /\ a.sender = d /\ a.to = m.sender /\ a.path = m.path
  BY DEF Rrep
<1>2. /\ \A x \in net' : x \in net \/ x = a
      /\ sequenceTable' = [sequenceTable EXCEPT ![d] = @ \cup {s}]
      /\ routingIdTable' = routingIdTable /\ flowTable' = flowTable
  BY DEF SendRREP, routes
<1>3. RequestIsSound(m, sequenceTable) /\ d \in Peers[m.sender]
  BY DEF RequestsAreSound, IsOnTheAir
<1>4. s \in Client /\ d \in Client /\ d \in Node
  BY <1>3, TopologyAssumption DEF RequestIsSound, Node
<1>5. \A n \in Node : sequenceTable[n] \subseteq sequenceTable'[n]
  BY <1>2, <1>4, RecordFloodGrows DEF RequestsAreSound
<1>6. IsComingBack(a, routingIdTable, flowTable)
  <2>1. PICK p \in Seq(Node) : p = m.path
    BY <1>3 DEF RequestIsSound
  <2>2. PICK k \in Nat : k = Len(p) /\ k > 0
    BY <1>3, <2>1, LenProperties DEF RequestIsSound
  <2>3. PICK q : q = Append(p, d)
    OBVIOUS
  <2>4. IsTrail(q, s)
    BY <1>3, <2>1, <2>3, TrailBegins
  <2>5. Len(q) = k + 1 /\ q[k + 1] = d /\ \A i \in 1..k : q[i] = p[i]
    BY <1>4, <2>1, <2>2, <2>3, AppendProperties
  <2>6. p[k] = m.sender
    BY <1>3, <2>1, <2>2 DEF RequestIsSound, Last
  <2>7. k \in 1..Len(q) - 1 /\ k \in 1..k
    BY <2>2, <2>5
  <2>8. ReplyFollows(a, q, k)
    BY <1>1, <2>1, <2>2, <2>5, <2>6, <2>7 DEF ReplyFollows
  <2>9. InPlace(q, k + 1, d, routingIdTable, flowTable)
    <3>1. \A j \in k + 1..Len(q) - 1 : FALSE
      BY <2>2, <2>5
    <3>2. \A n \in Node : routingIdTable[n][d] = None
      BY <1>4 DEF TrailsAreSound
    <3> QED
      BY <3>1, <3>2 DEF InPlace
  <2> QED
    BY <1>1, <2>4, <2>8, <2>9 DEF IsComingBack
<1> HIDE DEF a
<1>7. \A x \in net' : x.type = "rrep" => IsComingBack(x, routingIdTable', flowTable')
  BY <1>2, <1>6 DEF TrailsAreSound
<1>8. \A c \in Client : Partner[c] \in Node
  BY TopologyAssumption DEF Node
<1>9. \A c \in Client :
        routingIdTable'[c][Partner[c]] # None =>
            \E p : IsTrail(p, c) /\ InPlace(p, 1, Partner[c], routingIdTable', flowTable')
  BY <1>2 DEF TrailsAreSound
<1> QED
  BY <1>2, <1>5, <1>7, <1>8, <1>9 DEF TrailsAreSound

\* Learning extends what is in place by one node, which knew no next hop before.
LEMMA LearnStep ==
    ASSUME NEW s \in Client, NEW d, d = Partner[s], NEW p, IsTrail(p, s),
           NEW k \in 1..Len(p) - 1,
           NEW rt, rt \in [Node -> [Client -> Node \cup {None}]], NEW ft,
           InPlace(p, k + 1, d, rt, ft),
           NEW ru, NEW fu, Learned(rt, ru, p[k], d, p[k + 1]), MoreFlows(ft, fu),
           k > 1 => Contains(fu[p[k]], <<p[k - 1], p[k + 1]>>)
    PROVE  InPlace(p, k, d, ru, fu) /\ rt[p[k]][d] = None
<1>1. /\ d \in Client /\ Len(p) \in Nat /\ k \in Nat
      /\ k \in 1..Len(p) /\ k + 1 \in 1..Len(p) /\ DOMAIN p = 1..Len(p)
  BY LenProperties, TopologyAssumption DEF IsTrail
<1>2. PICK x \in Node : x = p[k]
  BY <1>1, ElementOfSeq DEF IsTrail
<1>3. PICK y \in Node : y = p[k + 1]
  BY <1>1, ElementOfSeq DEF IsTrail
<1>4. /\ ru[x][d] = y
      /\ \A n \in Node, c \in Client : n # x \/ c # d => ru[n][c] = rt[n][c]
  BY <1>1, <1>2, <1>3 DEF Learned
<1>5. \A j \in k + 1..Len(p) - 1 : p[j] \in Node /\ p[j] # x /\ (p[j] \in Relay)
  <2> SUFFICES ASSUME NEW j \in k + 1..Len(p) - 1
               PROVE  p[j] \in Node /\ p[j] # x /\ p[j] \in Relay
    OBVIOUS
  <2>1. j \in 1..Len(p) /\ j \in 2..Len(p) - 1 /\ j # k
    BY <1>1
  <2>2. \A a, b \in 1..Len(p) : p[a] = p[b] => a = b
    BY <1>1 DEF IsTrail, IsSimplePath, IsInjective
  <2> QED
    BY <1>1, <1>2, <2>1, <2>2, ElementOfSeq DEF IsTrail
<1>6. rt[x][d] = None
  BY <1>2, <1>5 DEF InPlace
<1>7. ASSUME NEW j \in k..Len(p) - 1 PROVE ru[p[j]][d] = p[j + 1]
  <2>1. CASE j = k
    BY <1>2, <1>3, <1>4, <2>1
  <2>2. CASE j # k
    <3>1. j \in k + 1..Len(p) - 1
      BY <1>1, <2>2
    <3>2. rt[p[j]][d] = p[j + 1]
      BY <3>1 DEF InPlace
    <3> QED
      BY <1>1, <1>4, <1>5, <3>1, <3>2
  <2> QED
    BY <2>1, <2>2
<1>8. ASSUME NEW j \in k..Len(p) - 1, j > 1
      PROVE  Contains(fu[p[j]], <<p[j - 1], p[j + 1]>>)
  <2>1. CASE j = k
    BY <1>8, <2>1
  <2>2. CASE j # k
    <3>1. j \in k + 1..Len(p) - 1
      BY <1>1, <2>2
    <3>2. Contains(ft[p[j]], <<p[j - 1], p[j + 1]>>)
      BY <1>8, <3>1 DEF InPlace
    <3> QED
      BY <1>5, <3>1, <3>2 DEF MoreFlows
  <2> QED
    BY <2>1, <2>2
<1>9. ASSUME NEW n \in Node, \A j \in k..Len(p) - 1 : n # p[j] PROVE ru[n][d] = None
  <2>1. n # x /\ \A j \in k + 1..Len(p) - 1 : n # p[j]
    BY <1>1, <1>2, <1>9
  <2>2. rt[n][d] = None
    BY <2>1 DEF InPlace
  <2> QED
    BY <1>1, <1>4, <2>1, <2>2
<1>10. InPlace(p, k, d, ru, fu)
  BY <1>7, <1>8, <1>9 DEF InPlace
<1> QED
  BY <1>2, <1>6, <1>10

\* A reply is passed on along its trail, and installs a flow of neighbours on it.
LEMMA ForwardRREPFollows ==
    ASSUME NEW s \in Client, NEW p, IsTrail(p, s), NEW k \in 2..Len(p) - 1, NEW m,
           ReplyFollows(m, p, k)
    PROVE  LET path == WithoutSelf(p[k], m.path)
           IN /\ p[k] \in Relay /\ Last(path) = p[k - 1]
              /\ <<p[k - 1], m.sender>> \in Node \X Node
              /\ ReplyFollows(Rrep(m.source, m.destination, p[k], Last(path), path),
                              p, k - 1)
<1>1. /\ Len(p) \in Nat /\ DOMAIN p = 1..Len(p) /\ k \in Nat
      /\ k - 1 \in Nat /\ k - 1 \in 1..Len(p) /\ k \in 1..Len(p) /\ k + 1 \in 1..Len(p)
      /\ k - 1 \in 1..Len(p) - 1
  BY LenProperties DEF IsTrail
<1>2. PICK q \in Seq(Node) : q = m.path /\ Len(q) = k /\ \A i \in 1..k : q[i] = p[i]
  BY DEF ReplyFollows
<1>3. \A i \in 1..k - 1 : q[i] # p[k]
  <2> SUFFICES ASSUME NEW i \in 1..k - 1, q[i] = p[k] PROVE FALSE
    OBVIOUS
  <2>1. i \in 1..k /\ i \in 1..Len(p) /\ i # k
    BY <1>1
  <2>2. p[i] = p[k] => i = k
    BY <1>1, <2>1 DEF IsTrail, IsSimplePath, IsInjective
  <2> QED
    BY <1>2, <2>1, <2>2
<1>4. WithoutSelf(p[k], q) = Prefix(q, k - 1)
  <2>1. Len(q) = (k - 1) + 1 /\ q[(k - 1) + 1] = p[k]
    BY <1>1, <1>2
  <2> QED
    BY <1>1, <1>3, <2>1, WithoutLast
<1>5. PICK path \in Seq(Node) :
        path = Prefix(q, k - 1) /\ Len(path) = k - 1 /\ \A i \in 1..k - 1 : path[i] = q[i]
  <2>1. k - 1 \in 0..Len(q)
    BY <1>1, <1>2
  <2> QED
    BY <2>1, PrefixFacts
<1>6. Last(path) = p[k - 1]
  <2>1. k - 1 \in 1..k - 1 /\ k - 1 \in 1..k
    BY <1>1
  <2> QED
    BY <1>2, <1>5, <2>1 DEF Last
<1>7. p[k] \in Relay /\ p[k - 1] \in Node /\ p[k + 1] \in Node /\ m.sender = p[k + 1]
  BY <1>1, ElementOfSeq DEF IsTrail, ReplyFollows
<1> DEFINE b == Rrep(m.source, m.destination, p[k], Last(path), path)
<1>8. b.path = path /\ b.sender = p[k] /\ b.to = p[k - 1]
  BY <1>6 DEF Rrep
<1>9. \A i \in 1..k - 1 : path[i] = p[i]
  <2> SUFFICES ASSUME NEW i \in 1..k - 1 PROVE path[i] = p[i]
    OBVIOUS
  <2>1. i \in 1..k
    BY <1>1
  <2> QED
    BY <1>2, <1>5, <2>1
<1> HIDE DEF b
<1>10. ReplyFollows(b, p, k - 1)
  BY <1>1, <1>5, <1>8, <1>9 DEF ReplyFollows
<1> QED
  BY <1>2, <1>4, <1>5, <1>6, <1>7, <1>10 DEF b

\* The k-th node of a trail learns from the reply m, which goes on if there is a
\* node before it.
LEMMA LearnTrails ==
    ASSUME TrailsAreSound, RepliesAreFew, NEW m \in net, m.type = "rrep",
           NEW p, NEW k, IsTrail(p, m.destination), ReplyFollows(m, p, k),
           InPlace(p, k + 1, m.source, routingIdTable, flowTable),
           sequenceTable' = sequenceTable,
           routingIdTable' = [routingIdTable EXCEPT ![p[k]][m.source] = p[k + 1]],
           flowTable' \in [Relay -> Seq(Node \X Node)],
           MoreFlows(flowTable, flowTable'),
           k > 1 => Contains(flowTable'[p[k]], <<p[k - 1], p[k + 1]>>),
           \A x \in net' : x.type = "rrep" =>
               \/ x \in net /\ x # m
               \/ /\ k > 1 /\ ReplyFollows(x, p, k - 1)
                  /\ x.destination = m.destination /\ x.source = m.source
    PROVE  TrailsAreSound'
<1> DEFINE s == m.destination
           d == m.source
<1>1. s \in Client /\ d = Partner[s] /\ s \in sequenceTable[d] /\ d \in Client
      /\ routingIdTable[s][d] = None
  BY TopologyAssumption DEF RepliesAreFew
<1>2. PICK rt, ft : rt = routingIdTable /\ ft = flowTable
  OBVIOUS
<1>3. PICK ru, fu : ru = routingIdTable' /\ fu = flowTable'
  OBVIOUS
<1>4. k \in 1..Len(p) - 1
  BY DEF ReplyFollows
<1>5. /\ ru \in [Node -> [Client -> Node \cup {None}]]
      /\ InPlace(p, k, d, ru, fu)
      /\ \A n \in Node, c \in Client : n # p[k] \/ c # d => ru[n][c] = rt[n][c]
  <2>1. rt \in [Node -> [Client -> Node \cup {None}]]
    BY <1>2 DEF TrailsAreSound
  <2>2. PICK x \in Node, y \in Node : x = p[k] /\ y = p[k + 1]
    <3>1. k \in 1..Len(p) /\ k + 1 \in 1..Len(p)
      BY <1>4, LenProperties DEF IsTrail
    <3> QED
      BY <3>1, ElementOfSeq DEF IsTrail
  <2>3. ru = [rt EXCEPT ![x][d] = y]
    BY <1>2, <1>3, <2>2
  <2>4. /\ ru \in [Node -> [Client -> Node \cup {None}]]
        /\ Learned(rt, ru, p[k], d, p[k + 1])
    BY <1>1, <2>1, <2>2, <2>3 DEF Learned
  <2>5. s \in Client /\ d = Partner[s] /\ IsTrail(p, s) /\ InPlace(p, k + 1, d, rt, ft)
    BY <1>1, <1>2
  <2>6. MoreFlows(ft, fu)
    BY <1>2, <1>3
  <2>7. k > 1 => Contains(fu[p[k]], <<p[k - 1], p[k + 1]>>)
    BY <1>3
  <2> HIDE DEF s, d
  <2>8. InPlace(p, k, d, ru, fu)
    BY <1>4, <2>1, <2>4, <2>5, <2>6, <2>7, LearnStep
  <2> QED
    BY <1>1, <2>4, <2>8 DEF Learned
\* The trails to other destinations are not touched.
<1>6. ASSUME NEW c \in Client, c # s, NEW q, NEW i, IsTrail(q, c), i \in Nat, i > 0,
             InPlace(q, i, Partner[c], rt, ft)
      PROVE  InPlace(q, i, Partner[c], ru, fu)
  <2>1. Partner[c] \in Client /\ Partner[c] # d
    BY <1>1, <1>6, TopologyAssumption
  <2>2. \A n \in Node : ru[n][Partner[c]] = rt[n][Partner[c]]
    BY <1>5, <2>1
  <2>3. MoreFlows(ft, fu)
    BY <1>2, <1>3
  <2> QED
    BY <1>6, <2>2, <2>3, InPlaceStays
<1>7. ASSUME NEW x \in net', x.type = "rrep" PROVE IsComingBack(x, ru, fu)
  <2>1. CASE x \in net /\ x # m
    <3>1. x.destination \in Client /\ x.source = Partner[x.destination] /\ x.destination # s
      BY <1>7, <2>1 DEF RepliesAreFew
    <3>2. PICK q, i : /\ IsTrail(q, x.destination) /\ ReplyFollows(x, q, i)
                      /\ InPlace(q, i + 1, x.source, rt, ft)
      BY <1>2, <1>7, <2>1 DEF TrailsAreSound, IsComingBack
    <3>3. i + 1 \in Nat /\ i + 1 > 0
      BY <3>2 DEF ReplyFollows
    <3>4. InPlace(q, i + 1, x.source, ru, fu)
      BY <1>6, <3>1, <3>2, <3>3
    <3> QED
      BY <3>2, <3>4 DEF IsComingBack
  <2>2. CASE /\ k > 1 /\ ReplyFollows(x, p, k - 1)
             /\ x.destination = s /\ x.source = d
    <3>1. (k - 1) + 1 = k
      BY <1>4
    <3> QED
      BY <1>5, <2>2, <3>1 DEF IsComingBack
  <2> QED
    BY <1>7, <2>1, <2>2
<1>8. ASSUME NEW c \in Client, ru[c][Partner[c]] # None
      PROVE  \E q : IsTrail(q, c) /\ InPlace(q, 1, Partner[c], ru, fu)
  <2>0. c \in Node /\ Partner[c] \in Client
    BY TopologyAssumption DEF Node
  <2>1. CASE c = s
    <3>1. c = p[k]
      BY <1>1, <1>2, <1>5, <1>8, <2>0, <2>1
    <3>2. k = 1
      <4>1. DOMAIN p = 1..Len(p) /\ k \in 1..Len(p) /\ 1 \in 1..Len(p) /\ p[1] = s
        BY <1>4, LenProperties DEF IsTrail
      <4> QED
        BY <2>1, <3>1, <4>1 DEF IsTrail, IsSimplePath, IsInjective
    <3> QED
      BY <1>1, <1>5, <2>1, <3>2
  <2>2. CASE c # s
    <3>1. Partner[c] # d
      BY <1>1, <2>2, TopologyAssumption
    <3>2. rt[c][Partner[c]] # None
      BY <1>5, <1>8, <2>0, <3>1
    <3>3. PICK q : IsTrail(q, c) /\ InPlace(q, 1, Partner[c], rt, ft)
      BY <1>2, <3>2 DEF TrailsAreSound
    <3>4. 1 \in Nat /\ 1 > 0
      OBVIOUS
    <3>5. InPlace(q, 1, Partner[c], ru, fu)
      BY <1>6, <2>2, <3>3, <3>4
    <3> QED
      BY <3>3, <3>5
  <2> QED
    BY <2>1, <2>2
<1>9. ASSUME NEW c \in Client, c \notin sequenceTable[Partner[c]], NEW n \in Node
      PROVE  ru[n][Partner[c]] = None
  <2>1. c # s /\ Partner[c] \in Client
    BY <1>1, <1>9, TopologyAssumption
  <2>2. Partner[c] # d
    BY <1>1, <2>1, TopologyAssumption
  <2>3. rt[n][Partner[c]] = None
    BY <1>2, <1>9 DEF TrailsAreSound
  <2> QED
    BY <1>5, <2>1, <2>2, <2>3
<1> QED
  BY <1>3, <1>5, <1>7, <1>8, <1>9 DEF TrailsAreSound

\* Where a reply is received.
LEMMA ReceiverOfReply ==
    ASSUME RepliesAreFew, NEW m \in net, m.type = "rrep",
           NEW p, NEW k, IsTrail(p, m.destination), ReplyFollows(m, p, k)
    PROVE  /\ m.destination \in Client /\ m.source = Partner[m.destination]
           /\ m.to = p[k] /\ m.sender = p[k + 1] /\ m.to # m.source
           /\ m.to = m.destination <=> k = 1
           /\ k # 1 => k \in 2..Len(p) - 1
<1>1. /\ DOMAIN p = 1..Len(p) /\ Len(p) \in Nat /\ k \in 1..Len(p) /\ 1 \in 1..Len(p)
      /\ Len(p) \in 1..Len(p) /\ k # Len(p) /\ k \in 1..Len(p) - 1
  BY LenProperties DEF IsTrail, ReplyFollows
<1>2. p[1] = m.destination /\ p[Len(p)] = Partner[m.destination]
  BY DEF IsTrail
<1>3. \A i, j \in 1..Len(p) : p[i] = p[j] => i = j
  BY <1>1 DEF IsTrail, IsSimplePath, IsInjective
<1>4. m.destination \in Client /\ m.source = Partner[m.destination]
  BY DEF RepliesAreFew
<1>5. m.to = p[k] /\ m.sender = p[k + 1]
  BY DEF ReplyFollows
<1>6. p[k] # p[Len(p)] /\ (p[k] = p[1] <=> k = 1)
  BY <1>1, <1>3
<1>7. k # 1 => k \in 2..Len(p) - 1
  <2>1. PICK n \in Nat : n = Len(p) /\ k \in 1..n - 1
    BY <1>1
  <2>2. k # 1 => k \in 2..n - 1
    BY <2>1
  <2> QED
    BY <2>1, <2>2
<1> QED
  BY <1>2, <1>4, <1>5, <1>6, <1>7

LEMMA HandleRREPTrails ==
    ASSUME TrailsAreSound, RepliesAreFew, NEW m \in net, m.type = "rrep",
           HandleRREP(m.to, m)
    PROVE  TrailsAreSound'
<1>1. PICK p, k : /\ IsTrail(p, m.destination) /\ ReplyFollows(m, p, k)
                  /\ InPlace(p, k + 1, m.source, routingIdTable, flowTable)
  BY DEF TrailsAreSound, IsComingBack
<1>2. /\ m.destination \in Client /\ m.source = Partner[m.destination]
      /\ m.to = p[k] /\ m.sender = p[k + 1] /\ m.to # m.source
      /\ m.to = m.destination <=> k = 1
      /\ k # 1 => k \in 2..Len(p) - 1
  BY <1>1, ReceiverOfReply
<1>3. flowTable \in [Relay -> Seq(Node \X Node)]
  BY DEF TrailsAreSound
<1>4. CASE m.to = m.destination /\ LearnRoute(m.to, m) /\ net' = net \ {m}
           /\ UNCHANGED <<sequenceTable, tables, flowTable, forwards>>
  <2>1. /\ routingIdTable' = [routingIdTable EXCEPT ![p[k]][m.source] = p[k + 1]]
        /\ k = 1 /\ ~ k > 1
    BY <1>2, <1>4 DEF LearnRoute
  <2>2. sequenceTable' = sequenceTable /\ flowTable' = flowTable
        /\ \A x \in net' : x \in net /\ x # m
    BY <1>4
  <2> QED
    <3>1. flowTable' \in [Relay -> Seq(Node \X Node)]
      BY <1>3, <2>2
    <3>2. MoreFlows(flowTable, flowTable')
      BY <2>2 DEF MoreFlows
    <3>3. /\ k > 1 => Contains(flowTable'[p[k]], <<p[k - 1], p[k + 1]>>)
          /\ \A x \in net' : x.type = "rrep" => x \in net /\ x # m
      BY <2>1, <2>2
    <3> QED
      BY <1>1, <2>1, <2>2, <3>1, <3>2, <3>3, LearnTrails
<1>5. CASE m.to \notin {m.source, m.destination} /\ LearnRoute(m.to, m)
           /\ ForwardRREP(m.to, m) /\ UNCHANGED <<sequenceTable, tables, forwards>>
  <2>0. k \in 2..Len(p) - 1 /\ k > 1
    BY <1>2, <1>5
  <2>1. routingIdTable' = [routingIdTable EXCEPT ![p[k]][m.source] = p[k + 1]]
    BY <1>2, <1>5 DEF LearnRoute
  <2> DEFINE path == WithoutSelf(p[k], m.path)
             b == Rrep(m.source, m.destination, p[k], Last(path), path)
             f == <<p[k - 1], p[k + 1]>>
  <2>2. /\ p[k] \in Relay /\ Last(path) = p[k - 1]
        /\ <<p[k - 1], m.sender>> \in Node \X Node
        /\ ReplyFollows(b, p, k - 1)
    BY <1>1, <1>2, <2>0, ForwardRREPFollows
  <2>3. /\ flowTable' = [flowTable EXCEPT ![p[k]] = Append(@, <<Last(path), m.sender>>)]
        /\ net' = (net \ {m}) \cup {b}
    BY <1>2, <1>5 DEF ForwardRREP
  <2>4. b.destination = m.destination /\ b.source = m.source
    BY DEF Rrep
  <2>5. f \in Node \X Node /\ flowTable' = [flowTable EXCEPT ![p[k]] = Append(@, f)]
    BY <1>2, <2>2, <2>3
  <2> HIDE DEF b, f, path
  <2>6. PICK t \in Seq(Node \X Node) : t = flowTable[p[k]]
    BY <1>3, <2>2
  <2>7. /\ Append(t, f) \in Seq(Node \X Node) /\ Contains(Append(t, f), f)
        /\ \A x : Contains(t, x) => Contains(Append(t, f), x)
    <3>1. PICK u \in Seq(Node \X Node) : u = Append(t, f)
      BY <2>5, AppendProperties
    <3>2. /\ Len(u) = Len(t) + 1 /\ u[Len(u)] = f
          /\ \A i \in 1..Len(t) : u[i] = t[i] /\ i \in 1..Len(u)
          /\ Len(u) \in 1..Len(u)
      BY <2>5, <3>1, AppendProperties, LenProperties
    <3> QED
      BY <3>1, <3>2 DEF Contains
  <2>8. flowTable' \in [Relay -> Seq(Node \X Node)]
    BY <1>3, <2>5, <2>6, <2>7
  <2>9. MoreFlows(flowTable, flowTable')
    BY <1>3, <2>5, <2>6, <2>7 DEF MoreFlows
  <2>10. Contains(flowTable'[p[k]], f)
    BY <1>3, <2>2, <2>5, <2>6, <2>7
  <2>11. sequenceTable' = sequenceTable
    BY <1>5
  <2>12. \A x \in net' : x.type = "rrep" =>
           \/ x \in net /\ x # m
           \/ /\ k > 1 /\ ReplyFollows(x, p, k - 1)
              /\ x.destination = m.destination /\ x.source = m.source
    BY <2>0, <2>2, <2>3, <2>4
  <2> QED
    BY <1>1, <2>1, <2>8, <2>9, <2>10, <2>11, <2>12, LearnTrails DEF f
<1> QED
  BY <1>2, <1>4, <1>5 DEF HandleRREP

LEMMA HandleRREQTrails ==
    ASSUME RequestsAreSound, TrailsAreSound, NEW m \in net, m.type = "rreq",
           NEW n, n = m.to, HandleRREQ(n, m)
    PROVE  TrailsAreSound'
<1>1. m.source \in Client
  BY DEF RequestsAreSound, IsOnTheAir, RequestIsSound
<1>2. CASE DropMessage(m) \/ IgnoreLater(n, m) \/ HoldBack(n, m)
  <2>1. /\ net' = net \ {m} /\ sequenceTable' = sequenceTable
        /\ routingIdTable' = routingIdTable /\ flowTable' = flowTable
    BY <1>2 DEF DropMessage, IgnoreLater, HoldBack, routes
  <2> QED
    BY <2>1, TrailsStay
<1>3. CASE n = Partner[m.source] /\ ~ HasSequenceNumber(n, m.source) /\ SendRREP(n, m)
  BY <1>3, SendRREPTrails DEF HasSequenceNumber
<1>4. CASE n \in Relay /\ ForwardRREQ(n, m)
  <2>1. /\ sequenceTable' = [sequenceTable EXCEPT ![n] = @ \cup {m.source}]
        /\ routingIdTable' = routingIdTable /\ flowTable' = flowTable
        /\ \A x \in net' : x \in net \/ x \in ForwardedCopies(n, m)
    BY <1>4 DEF ForwardRREQ, RecordFlood, routes
  <2>2. \A x \in ForwardedCopies(n, m) : x.type = "rreq"
    BY DEF ForwardedCopies, Rreq
  <2>3. \A k \in Node : sequenceTable[k] \subseteq sequenceTable'[k]
    BY <1>1, <1>4, <2>1, RecordFloodGrows DEF RequestsAreSound, Node
  <2>4. \A x \in net' : x.type = "rrep" => x \in net
    BY <2>1, <2>2
  <2> QED
    BY <2>1, <2>3, <2>4, TrailsStay
<1> QED
  BY <1>2, <1>3, <1>4 DEF HandleRREQ

LEMMA NextTrails ==
    ASSUME RequestsAreSound, RepliesAreFew, TrailsAreSound, [Next]_vars
    PROVE  TrailsAreSound'
<1>1. ASSUME NEW s \in Client, SendRREQ(s) PROVE TrailsAreSound'
  <2>1. /\ sequenceTable' = sequenceTable
        /\ routingIdTable' = routingIdTable /\ flowTable' = flowTable
    BY <1>1 DEF SendRREQ, routes
  <2>2. \A x \in net' : x.type = "rrep" => x \in net
    BY <1>1 DEF SendRREQ, Rreq
  <2> QED
    BY <2>1, <2>2, TrailsStay
<1>2. ASSUME NEW m \in net, Receive(m) PROVE TrailsAreSound'
  BY <1>2, HandleRREQTrails, HandleRREPTrails DEF Receive
<1>3. ASSUME NEW e \in pending, DelayForwardRREQ(e) PROVE TrailsAreSound'
  <2>1. PICK r \in Relay : r = e.at /\ e.request.source \in Client
    BY DEF RequestsAreSound, IsHeld, RequestIsSound
  <2>2. /\ sequenceTable' = [sequenceTable EXCEPT ![r] = @ \cup {e.request.source}]
        /\ routingIdTable' = routingIdTable /\ flowTable' = flowTable
        /\ \A x \in net' : x \in net \/ x \in ForwardedCopies(r, e.request)
    BY <1>3, <2>1 DEF DelayForwardRREQ, RecordFlood, routes
  <2>3. \A x \in ForwardedCopies(r, e.request) : x.type = "rreq"
    BY DEF ForwardedCopies, Rreq
  <2>4. \A k \in Node : sequenceTable[k] \subseteq sequenceTable'[k]
    BY <2>1, <2>2, RecordFloodGrows DEF RequestsAreSound, Node
  <2>5. \A x \in net' : x.type = "rrep" => x \in net
    BY <2>2, <2>3
  <2> QED
    BY <2>2, <2>4, <2>5, TrailsStay
<1>4. CASE Tick \/ (\E m \in net : Lose(m)) \/ UNCHANGED vars
  <2>1. /\ \A x \in net' : x \in net
        /\ sequenceTable' = sequenceTable
        /\ routingIdTable' = routingIdTable /\ flowTable' = flowTable
    BY <1>4 DEF Tick, Lose, vars, routes
  <2> QED
    BY <2>1, TrailsStay
<1> QED
  BY <1>1, <1>2, <1>3, <1>4 DEF Next

TrailInv == RequestsAreSound /\ RepliesAreFew /\ TrailsAreSound

\* In every network and whatever is lost, each reply comes back along a trail on which
\* everybody behind it, and nobody else, knows the way to the partner; and a client
\* with a route has a trail on which everybody does.
THEOREM RouteTrailsAreSound == Spec => []TrailInv
<1>1. Init => TrailInv
  <2> SUFFICES ASSUME Init PROVE TrailInv
    OBVIOUS
  <2>1. /\ net = {} /\ pending = {} /\ flowTable = Installed
        /\ routingIdTable = [n \in Node |-> [d \in Client |-> None]]
        /\ sequenceTable = [n \in Node |-> {}]
    BY DEF Init
  <2>2. \A s \in Client : s \in Node /\ Partner[s] \in Client
    BY TopologyAssumption DEF Node
  <2>3. \A n \in Node, s \in Client : routingIdTable[n][Partner[s]] = None
    BY <2>1, <2>2
  <2>4. RequestsAreSound
    BY <2>1 DEF RequestsAreSound
  <2>5. RepliesAreFew
    BY <2>1, <2>2, <2>3 DEF RepliesAreFew
  <2>6. TrailsAreSound
    BY <2>1, <2>2, <2>3, TopologyAssumption DEF TrailsAreSound
  <2> QED
    BY <2>4, <2>5, <2>6 DEF TrailInv
<1>2. TrailInv /\ [Next]_vars => TrailInv'
  BY NextSound, NextFew, NextTrails DEF TrailInv
<1> QED
  BY <1>1, <1>2, PTL DEF Spec

\* Every reply still knows its way back: ForwardRREP never takes the last element of
\* an empty path, and the node it sends to is the neighbour the path names.
THEOREM RouteRepliesKnowTheWayBack == Spec => []RepliesKnowTheWayBack
<1>1. ASSUME TrailsAreSound, RepliesAreFew, NEW m \in Replies
      PROVE  /\ IsSimplePath(m.path)
             /\ m.path[1] = m.destination
             /\ Last(m.path) = m.to
             /\ m.to \in Peers[m.sender]
  <2>1. m \in net /\ m.type = "rrep"
    BY DEF Replies
  <2>2. PICK p, k : IsTrail(p, m.destination) /\ ReplyFollows(m, p, k)
    BY <1>1, <2>1 DEF TrailsAreSound, IsComingBack
  <2>3. PICK q \in Seq(Node) : q = m.path /\ Len(q) = k /\ \A i \in 1..k : q[i] = p[i]
    BY <2>2 DEF ReplyFollows
  <2>4. /\ DOMAIN q = 1..k /\ DOMAIN p = 1..Len(p) /\ Len(p) \in Nat
        /\ k \in Nat /\ k \in 1..Len(p) - 1 /\ 1 \in 1..k /\ k \in 1..k
        /\ \A i \in 1..k : i \in 1..Len(p)
    BY <2>2, <2>3, LenProperties DEF IsTrail, ReplyFollows
  <2>5. IsInjective(q)
    BY <2>2, <2>3, <2>4 DEF IsTrail, IsSimplePath, IsInjective
  <2>6. \A i \in 1..k - 1 : q[i + 1] \in Peers[q[i]]
    <3> SUFFICES ASSUME NEW i \in 1..k - 1 PROVE q[i + 1] \in Peers[q[i]]
      OBVIOUS
    <3>1. i \in 1..k /\ i + 1 \in 1..k /\ i \in 1..Len(p) - 1
      BY <2>4
    <3>2. p[i + 1] \in Peers[p[i]]
      BY <2>2, <3>1 DEF IsTrail, IsSimplePath
    <3> QED
      BY <2>3, <3>1, <3>2
  <2>7. q[1] = m.destination /\ Last(q) = p[k] /\ m.to = p[k] /\ m.sender = p[k + 1]
    BY <2>2, <2>3, <2>4 DEF IsTrail, ReplyFollows, Last
  <2>8. m.to \in Peers[m.sender]
    <3>1. p[k] \in Node /\ p[k + 1] \in Node
      BY <2>2, <2>4, ElementOfSeq DEF IsTrail
    <3>2. p[k + 1] \in Peers[p[k]]
      BY <2>2, <2>4 DEF IsTrail, IsSimplePath
    <3> QED
      BY <2>7, <3>1, <3>2, TopologyAssumption
  <2> QED
    BY <2>3, <2>5, <2>6, <2>7, <2>8 DEF IsSimplePath
<1>2. TrailInv => RepliesKnowTheWayBack
  BY <1>1 DEF TrailInv, RepliesKnowTheWayBack
<1> QED
  BY <1>2, RouteTrailsAreSound, PTL

\* Nothing but the reply that comes back along a trail changes an entry, and the
\* entry it changes held none.
LEMMA NextStable ==
    ASSUME TrailInv, [Next]_vars, NEW n \in Node, NEW d \in Client,
           routingIdTable[n][d] # None
    PROVE  routingIdTable'[n][d] = routingIdTable[n][d]
<1>1. CASE routingIdTable' = routingIdTable
  BY <1>1
<1>2. ASSUME NEW m \in net, m.type = "rrep", HandleRREP(m.to, m), LearnRoute(m.to, m)
      PROVE  routingIdTable'[n][d] = routingIdTable[n][d]
  <2>1. PICK p, k : /\ IsTrail(p, m.destination) /\ ReplyFollows(m, p, k)
                    /\ InPlace(p, k + 1, m.source, routingIdTable, flowTable)
    BY <1>2 DEF TrailInv, TrailsAreSound, IsComingBack
  <2>2. /\ k \in Nat /\ k \in 1..Len(p) /\ Len(p) \in Nat /\ DOMAIN p = 1..Len(p)
        /\ \A j \in k + 1..Len(p) - 1 : j \in 1..Len(p) /\ j # k
    BY <2>1, LenProperties DEF ReplyFollows, IsTrail
  <2>3. \A j \in k + 1..Len(p) - 1 : p[j] # p[k]
    BY <2>1, <2>2 DEF IsTrail, IsSimplePath, IsInjective
  <2>4. p[k] \in Node /\ m.to = p[k]
    BY <2>1, <2>2, ElementOfSeq DEF IsTrail, ReplyFollows
  <2>5. routingIdTable[m.to][m.source] = None
    BY <2>1, <2>3, <2>4 DEF InPlace
  <2>6. routingIdTable \in [Node -> [Client -> Node \cup {None}]]
    BY DEF TrailInv, TrailsAreSound
  <2>7. routingIdTable' = [routingIdTable EXCEPT ![m.to][m.source] = m.sender]
    BY <1>2 DEF LearnRoute
  <2> QED
    BY <2>4, <2>5, <2>6, <2>7
<1>3. \/ routingIdTable' = routingIdTable
      \/ \E m \in net : /\ m.type = "rrep" /\ HandleRREP(m.to, m)
                        /\ LearnRoute(m.to, m)
  <2>1. ASSUME NEW m \in net, m.type = "rreq", HandleRREQ(m.to, m)
        PROVE  routingIdTable' = routingIdTable
    BY <2>1 DEF HandleRREQ, DropMessage, SendRREP, ForwardRREQ, HoldBack, IgnoreLater, routes
  <2>2. ASSUME NEW m \in net, HandleRREP(m.to, m)
        PROVE  routingIdTable' = routingIdTable \/ LearnRoute(m.to, m)
    BY <2>2 DEF HandleRREP, DropMessage, routes
  <2>3. ASSUME NEW m \in net, Receive(m)
        PROVE  \/ routingIdTable' = routingIdTable
               \/ m.type = "rrep" /\ HandleRREP(m.to, m) /\ LearnRoute(m.to, m)
    BY <2>1, <2>2, <2>3 DEF Receive
  <2>4. CASE \/ \E s \in Client : SendRREQ(s)
             \/ \E m \in net : Lose(m)
             \/ \E e \in pending : DelayForwardRREQ(e)
             \/ Tick
             \/ UNCHANGED vars
    BY <2>4 DEF SendRREQ, Lose, DelayForwardRREQ, Tick, vars, routes
  <2> QED
    BY <2>3, <2>4 DEF Next
<1> QED
  BY <1>1, <1>2, <1>3

\* A next hop, once installed, is never withdrawn or changed: only a reply changes one,
\* and none comes twice to the same node for the same partner.
THEOREM RouteRoutesAreStable == Spec => RoutesAreStable
<1>1. TrailInv /\ [Next]_vars =>
        [\A n \in Node, d \in Client :
           routingIdTable[n][d] # None =>
               routingIdTable'[n][d] = routingIdTable[n][d]]_vars
  BY NextStable
<1> QED
  BY <1>1, RouteTrailsAreSound, PTL DEF Spec, RoutesAreStable

\* A trail has no more nodes than there are.
LEMMA TrailIsShort ==
    ASSUME NEW p, NEW s, IsTrail(p, s)
    PROVE  Cardinality(Node) \in Nat /\ Len(p) <= Cardinality(Node)
<1>1. IsFiniteSet(Node) /\ Cardinality(Node) \in Nat
  BY TopologyAssumption, FS_CardinalityType
<1>2. /\ DOMAIN p = 1..Len(p) /\ Len(p) \in Nat
      /\ p \in [1..Len(p) -> Node]
      /\ \A i, j \in 1..Len(p) : p[i] = p[j] => i = j
  BY LenProperties, ElementOfSeq DEF IsTrail, IsSimplePath, IsInjective
<1>3. IsFiniteSet(1..Len(p)) /\ Cardinality(1..Len(p)) = Len(p)
  BY <1>2, FS_Interval
<1>4. Cardinality(1..Len(p)) <= Cardinality(Node)
  <2>1. p \in Injection(1..Len(p), Node)
    BY <1>2 DEF Injection, IsInjective
  <2> QED
    BY <1>1, <1>3, <2>1, FS_Injection DEF ExistsInjection
<1> QED
  BY <1>1, <1>3, <1>4

\* A packet that follows the next hops of a trail is at its (k + 1)-th node after k
\* hops, and stays at the end of it.
LEMMA HopsFollowTrail ==
    ASSUME NEW s \in Client, NEW p, IsTrail(p, s),
           InPlace(p, 1, Partner[s], routingIdTable, flowTable)
    PROVE  \A k \in 0..Cardinality(Node) :
             AfterHops(s)[k] = IF k < Len(p) THEN p[k + 1] ELSE p[Len(p)]
<1> DEFINE d == Partner[s]
           N == Cardinality(Node)
           all(f) == f = [k \in 0..N |->
                            IF k = 0 THEN s
                            ELSE IF f[k - 1] \in {d, None} THEN f[k - 1]
                            ELSE routingIdTable[f[k - 1]][d]]
           hop == CHOOSE f : all(f)
           g == [k \in 0..N |-> IF k < Len(p) THEN p[k + 1] ELSE p[Len(p)]]
<1>1. /\ DOMAIN p = 1..Len(p) /\ Len(p) \in Nat /\ Len(p) > 1
      /\ \A i, j \in 1..Len(p) : p[i] = p[j] => i = j
      /\ \A i \in 1..Len(p) : p[i] \in Node /\ p[i] # None
      /\ p[1] = s /\ p[Len(p)] = d
      /\ \A i \in 1..Len(p) - 1 : routingIdTable[p[i]][d] = p[i + 1]
  BY LenProperties, ElementOfSeq, TopologyAssumption
     DEF IsTrail, IsSimplePath, IsInjective, InPlace
<1>2. N \in Nat
  BY TrailIsShort
<1>0. Len(p) \in Nat /\ Len(p) > 1
  BY <1>1
<1> HIDE DEF N, d
<1>3. g[0] = s
  BY <1>1, <1>2
<1>4. ASSUME NEW k \in 0..N, k # 0
      PROVE  g[k] = IF g[k - 1] \in {d, None} THEN g[k - 1]
                    ELSE routingIdTable[g[k - 1]][d]
  <2>0. k - 1 \in 0..N /\ k \in Nat /\ k - 1 \in Nat
    BY <1>2, <1>4
  <2>1. CASE k < Len(p)
    <3>1. g[k - 1] = p[k] /\ g[k] = p[k + 1] /\ k \in 1..Len(p) - 1 /\ k \in 1..Len(p)
      BY <1>1, <2>0, <2>1
    <3>2. p[k] # d /\ p[k] # None
      <4>1. k # Len(p) /\ Len(p) \in 1..Len(p)
        BY <1>0, <2>0, <2>1
      <4> QED
        BY <1>1, <3>1, <4>1
    <3> QED
      BY <1>1, <3>1, <3>2
  <2>2. CASE ~ k < Len(p)
    <3>1. g[k - 1] = d /\ g[k] = d
      <4>1. k - 1 < Len(p) => (k - 1) + 1 = Len(p)
        BY <1>0, <2>0, <2>2
      <4> QED
        BY <1>1, <2>0, <2>2, <4>1
    <3> QED
      BY <3>1
  <2> QED
    BY <2>1, <2>2
<1>5. g = [k \in 0..N |-> g[k]]
  OBVIOUS
<1> HIDE DEF g
<1>6. all(g)
  BY <1>3, <1>4, <1>5
<1>7. all(hop)
  BY <1>6
<1> HIDE DEF hop
<1> DEFINE S == {k \in Nat : k <= N => hop[k] = g[k]}
<1>8. 0 \in S
  BY <1>2, <1>3, <1>7
<1>9. ASSUME NEW k \in Nat, k \in S PROVE k + 1 \in S
  <2> SUFFICES ASSUME k + 1 <= N PROVE hop[k + 1] = g[k + 1]
    OBVIOUS
  <2>1. k + 1 \in 0..N /\ k + 1 # 0 /\ (k + 1) - 1 = k
    BY <1>2
  <2>2. hop[k] = g[k]
    BY <1>2, <1>9
  <2> QED
    BY <1>4, <1>7, <2>1, <2>2
<1> HIDE DEF S
<1>10. Nat \subseteq S
  BY <1>8, <1>9, SetInduction
<1>11. \A k \in 0..N : hop[k] = g[k]
  BY <1>2, <1>10 DEF S
<1> QED
  BY <1>2, <1>11 DEF AfterHops, hop, g, N, d

\* As soon as a client has a route, every hop of it up to its partner is in place, it
\* has no loop, and each relay on it has installed the flow under which the client's
\* data will look for coding.
THEOREM RouteRoutesAreComplete == Spec => []RoutesAreComplete
<1>1. ASSUME TrailInv, NEW s \in Client, routingIdTable[s][Partner[s]] # None
      PROVE  /\ AfterHops(s)[Cardinality(Node)] = Partner[s]
             /\ \A k \in 1..Cardinality(Node) - 1 :
                  AfterHops(s)[k] # Partner[s] =>
                      Contains(flowTable[AfterHops(s)[k]],
                               <<AfterHops(s)[k - 1], AfterHops(s)[k + 1]>>)
  <2>1. PICK p : IsTrail(p, s) /\ InPlace(p, 1, Partner[s], routingIdTable, flowTable)
    BY <1>1 DEF TrailInv, TrailsAreSound
  <2> DEFINE N == Cardinality(Node)
             hop == AfterHops(s)
             L == Len(p)
  <2>2. N \in Nat /\ L \in Nat /\ L > 1 /\ L <= N /\ p[L] = Partner[s]
    BY <2>1, TrailIsShort, LenProperties DEF IsTrail
  <2>3. \A k \in 0..N : hop[k] = IF k < L THEN p[k + 1] ELSE p[L]
    BY <2>1, HopsFollowTrail
  <2>4. \A j \in 1..L - 1 : j > 1 => Contains(flowTable[p[j]], <<p[j - 1], p[j + 1]>>)
    BY <2>1 DEF InPlace
  <2> HIDE DEF N, hop, L
  <2>5. hop[N] = Partner[s]
    <3>1. N \in 0..N /\ ~ N < L
      BY <2>2
    <3> QED
      BY <2>2, <2>3, <3>1
  <2>6. ASSUME NEW k \in 1..N - 1, hop[k] # Partner[s]
        PROVE  Contains(flowTable[hop[k]], <<hop[k - 1], hop[k + 1]>>)
    <3>1. k \in 0..N /\ k - 1 \in 0..N /\ k + 1 \in 0..N
      BY <2>2
    <3>2. k < L /\ k + 1 # L
      <4>1. hop[k] = IF k < L THEN p[k + 1] ELSE p[L]
        BY <2>3, <3>1
      <4> QED
        BY <2>2, <2>6, <4>1
    <3>3. k + 1 \in 1..L - 1 /\ k + 1 > 1 /\ (k + 1) - 1 = k
      BY <2>2, <3>2
    <3>4. hop[k] = p[k + 1]
      BY <2>3, <3>1, <3>2
    <3>5. hop[k - 1] = p[k]
      <4>1. k - 1 < L /\ (k - 1) + 1 = k
        BY <2>2, <3>2
      <4> QED
        BY <2>3, <3>1, <4>1
    <3>6. hop[k + 1] = p[(k + 1) + 1]
      <4>1. k + 1 < L
        BY <2>2, <3>2
      <4> QED
        BY <2>3, <3>1, <4>1
    <3>7. Contains(flowTable[p[k + 1]], <<p[(k + 1) - 1], p[(k + 1) + 1]>>)
      BY <2>4, <3>3
    <3> QED
      BY <3>3, <3>4, <3>5, <3>6, <3>7
  <2> QED
    BY <2>5, <2>6 DEF N, hop
<1>2. TrailInv => RoutesAreComplete
  BY <1>1 DEF RoutesAreComplete
<1> QED
  BY <1>2, RouteTrailsAreSound, PTL

-----------------------------------------------------------------------------
(* Where requests come from. *)

\* A request of the next state is one of this state, the first of a flood, or what a
\* relay sends when it forwards one of this state.
LEMMA NewRequests ==
    ASSUME TrailInv, [Next]_vars, NEW x \in Requests'
    PROVE  \/ x \in Requests
           \/ \E s \in Client, n \in Node : x = Rreq(s, s, n, <<s>>, 0, 0)
           \/ \E r \in Relay, m \in Requests : x \in ForwardedCopies(r, m)
<1> DEFINE Goal == \/ x \in Requests
                   \/ \E s \in Client, n \in Node : x = Rreq(s, s, n, <<s>>, 0, 0)
                   \/ \E r \in Relay, m \in Requests : x \in ForwardedCopies(r, m)
<1>1. /\ \A m \in net : m.type = "rreq" => m \in Requests
      /\ \A e \in pending : e.request \in Requests
  BY DEF Requests
<1>2. (x \in net' /\ x.type = "rreq") \/ \E e \in pending' : x = e.request
  BY DEF Requests
<1>3. ASSUME \A m \in net' : m.type = "rreq" => m \in net,
             \A e \in pending' : e \in pending
      PROVE  Goal
  BY <1>1, <1>2, <1>3
<1>4. ASSUME NEW s \in Client, SendRREQ(s) PROVE Goal
  <2>1. \A n \in Peers[s] : n \in Node
    BY TopologyAssumption DEF Node
  <2>2. pending' = pending /\ net' = net \cup {Rreq(s, s, n, <<s>>, 0, 0) : n \in Peers[s]}
    BY <1>4 DEF SendRREQ, tables
  <2> QED
    BY <1>1, <1>2, <2>1, <2>2
<1>5. ASSUME NEW m \in net, m.type = "rreq", HandleRREQ(m.to, m) PROVE Goal
  <2>1. CASE DropMessage(m) \/ SendRREP(m.to, m) \/ IgnoreLater(m.to, m)
    <3>1. /\ \A y \in net' : y.type = "rreq" => y \in net
          /\ pending' = pending
      BY <2>1 DEF DropMessage, SendRREP, IgnoreLater, Rrep, tables
    <3> QED
      BY <1>3, <3>1
  <2>2. CASE m.to \in Relay /\ ForwardRREQ(m.to, m)
    <3>1. /\ net' = (net \ {m}) \cup ForwardedCopies(m.to, m)
          /\ pending' = pending
      BY <2>2 DEF ForwardRREQ, tables
    <3> QED
      BY <1>1, <1>2, <1>5, <2>2, <3>1
  <2>3. CASE HoldBack(m.to, m)
    <3>1. /\ net' = net \ {m}
          /\ pending' = pending \cup {Schedule(m.to, m)}
      BY <2>3 DEF HoldBack
    <3>2. Schedule(m.to, m).request = m
      BY DEF Schedule
    <3> QED
      BY <1>1, <1>2, <1>5, <3>1, <3>2
  <2> QED
    BY <1>5, <2>1, <2>2, <2>3 DEF HandleRREQ
<1>6. ASSUME NEW m \in net, HandleRREP(m.to, m) PROVE Goal
  <2>1. /\ \A y \in net' : y.type = "rreq" => y \in net
        /\ pending' = pending
    BY <1>6 DEF HandleRREP, DropMessage, ForwardRREP, Rrep, tables
  <2> QED
    BY <1>3, <2>1
<1>7. ASSUME NEW e \in pending, DelayForwardRREQ(e) PROVE Goal
  <2>1. e.at \in Relay
    BY DEF TrailInv, RequestsAreSound, IsHeld
  <2>2. net' = net \cup ForwardedCopies(e.at, e.request) /\ \A f \in pending' : f \in pending
    BY <1>7 DEF DelayForwardRREQ
  <2> QED
    BY <1>1, <1>2, <2>1, <2>2
<1>8. ASSUME Tick PROVE Goal
  <2>1. net' = net /\ pending' = {[e EXCEPT !.left = @ - 1] : e \in pending}
    BY <1>8 DEF Tick
  <2>2. \A e \in pending : [e EXCEPT !.left = @ - 1].request = e.request
    BY DEF TrailInv, RequestsAreSound, IsHeld
  <2>3. \A e \in pending' : e.request \in Requests
    BY <1>1, <2>1, <2>2
  <2>4. x \in Requests
    BY <1>1, <1>2, <2>1, <2>3
  <2> QED
    BY <2>4
<1>9. CASE (\E m \in net : Lose(m)) \/ UNCHANGED vars
  <2>1. /\ \A y \in net' : y \in net
        /\ pending' = pending
    BY <1>9 DEF Lose, vars, tables
  <2> QED
    BY <1>3, <2>1
<1>10. ASSUME NEW m \in net, Receive(m) PROVE Goal
  BY <1>5, <1>6, <1>10 DEF Receive
<1>11. Goal
  BY <1>4, <1>7, <1>8, <1>9, <1>10 DEF Next
<1> QED
  BY <1>11 DEF Goal

-----------------------------------------------------------------------------
(* What relays remember of the floods they hold back. *)

\* Delays and counts are natural numbers.
LEMMA DelayTicksType ==
    ASSUME NEW b \in Nat
    PROVE  DelayTicks(b) \in Nat
<1>1. IsSetting(Setting)
  BY TopologyAssumption
<1>2. PICK x \in Nat, y \in Nat : x = GetDelayTime(Setting, b)[1]
                                 /\ y = GetDelayTime(Setting, b)[2] /\ y > 0
  BY <1>1, GetDelayTimeType
<1> QED
  BY <1>2, QuotientFacts DEF DelayTicks

LEMMA BidirectionType ==
    ASSUME flowTable \in [Relay -> Seq(Node \X Node)], NEW r \in Relay, NEW in, NEW out
    PROVE  Bidirection(r, in, out) \in Nat
<1>1. PICK f \in Seq(Node \X Node) : f = flowTable[r]
  OBVIOUS
<1> DEFINE C == {i \in DOMAIN f : f[i] \in {<<in, out>>, <<out, in>>}}
<1>2. IsFiniteSet(1..Len(f)) /\ DOMAIN f = 1..Len(f)
  BY FS_Interval, LenProperties
<1>3. C \in SUBSET (1..Len(f))
  BY <1>2
<1>4. Cardinality(C) \in Nat
  BY <1>2, <1>3, FS_Subset, FS_CardinalityType
<1> QED
  BY <1>1, <1>4 DEF Bidirection

\* The delays and counts of the requests.
RequestsAreTyped == \A m \in Requests : m.bidirection \in Nat /\ m.waited \in Nat

LEMMA NextRequestsTyped ==
    ASSUME TrailInv, RequestsAreTyped, [Next]_vars
    PROVE  RequestsAreTyped'
<1> SUFFICES ASSUME NEW x \in Requests' PROVE x.bidirection \in Nat /\ x.waited \in Nat
  BY DEF RequestsAreTyped
<1>1. CASE x \in Requests
  BY <1>1 DEF RequestsAreTyped
<1>2. CASE \E s \in Client, n \in Node : x = Rreq(s, s, n, <<s>>, 0, 0)
  BY <1>2 DEF Rreq
<1>3. ASSUME NEW r \in Relay, NEW m \in Requests, x \in ForwardedCopies(r, m)
      PROVE  x.bidirection \in Nat /\ x.waited \in Nat
  <2>1. PICK b \in Nat, w \in Nat : b = m.bidirection /\ w = m.waited
    BY DEF RequestsAreTyped
  <2>2. DelayTicks(b) \in Nat
    BY DelayTicksType
  <2>3. \A n : Bidirection(r, m.sender, n) \in Nat
    BY BidirectionType DEF TrailInv, TrailsAreSound
  <2>4. PICK n : x = Rreq(m.source, r, n, Append(m.path, r),
                          IF dfMode THEN Bidirection(r, m.sender, n) ELSE b,
                          IF dfMode THEN w + DelayTicks(b) ELSE w)
    BY <1>3, <2>1 DEF ForwardedCopies
  <2>5. /\ x.bidirection = IF dfMode THEN Bidirection(r, m.sender, n) ELSE b
        /\ x.waited = IF dfMode THEN w + DelayTicks(b) ELSE w
    BY <2>4 DEF Rreq
  <2> QED
    BY <2>2, <2>3, <2>5
<1> QED
  BY <1>1, <1>2, <1>3, NewRequests

\* What relay r remembers of the flood of s, given what it has recorded.
Remembers(r, s, delay, held, recorded) ==
    IF delay = None THEN s \in recorded
    ELSE /\ \E e \in held : e.at = r /\ e.request.source = s /\ e.left = delay
         /\ \A e \in held : e.at = r /\ e.request.source = s => e.left >= delay

\* A relay that has no entry of a flood holds no copy of it; one that has remembers
\* the earliest of the copies it holds, or has forwarded the flood.
HoldingIsSound ==
    /\ rreqTimeout \in [Relay -> SUBSET Client]
    /\ rreqDelays \in [Relay -> [Client -> Nat \cup {None}]]
    /\ \A e \in pending : e.left \in Nat /\ e.request.source \in rreqTimeout[e.at]
    /\ \A r \in Relay, s \in Client : s \notin rreqTimeout[r] => rreqDelays[r][s] = None
    /\ \A r \in Relay : \A s \in rreqTimeout[r] :
         Remembers(r, s, rreqDelays[r][s], pending, sequenceTable[r])

\* Steps that hold nothing back and forward nothing held.
LEMMA HoldingStays ==
    ASSUME HoldingIsSound, \A n \in Node : sequenceTable[n] \subseteq sequenceTable'[n],
           rreqTimeout' = rreqTimeout, rreqDelays' = rreqDelays, pending' = pending
    PROVE  HoldingIsSound'
<1>1. ASSUME NEW r \in Relay, NEW s \in rreqTimeout[r]
      PROVE  Remembers(r, s, rreqDelays[r][s], pending, sequenceTable'[r])
  <2>1. r \in Node /\ Remembers(r, s, rreqDelays[r][s], pending, sequenceTable[r])
    BY DEF HoldingIsSound, Node
  <2> QED
    BY <2>1 DEF Remembers
<1> QED
  BY <1>1 DEF HoldingIsSound

LEMMA HoldBackHolding ==
    ASSUME RequestsAreSound, HoldingIsSound, RequestsAreTyped,
           NEW m \in net, m.type = "rreq", NEW r \in Relay, HoldBack(r, m)
    PROVE  HoldingIsSound'
<1> DEFINE e == Schedule(r, m)
<1>1. PICK s \in Client : s = m.source
  BY DEF RequestsAreSound, IsOnTheAir, RequestIsSound
<1>2. PICK t \in Nat : t = DelayTicks(m.bidirection)
  <2>1. m.bidirection \in Nat
    BY DEF RequestsAreTyped, Requests
  <2> QED
    BY <2>1, DelayTicksType
<1>3. e.at = r /\ e.request = m /\ e.left = t
  BY <1>2 DEF Schedule
<1>4. /\ pending' = pending \cup {e} /\ sequenceTable' = sequenceTable
      /\ rreqTimeout' = [rreqTimeout EXCEPT ![r] = @ \cup {s}]
      /\ rreqDelays' = [rreqDelays EXCEPT ![r][s] = t]
      /\ s \in rreqTimeout[r] => rreqDelays[r][s] # None /\ t < rreqDelays[r][s]
  BY <1>1, <1>2 DEF HoldBack, IsEarlier
<1> HIDE DEF e
<1>5. /\ rreqTimeout \in [Relay -> SUBSET Client]
      /\ rreqDelays \in [Relay -> [Client -> Nat \cup {None}]]
  BY DEF HoldingIsSound
<1>6. /\ rreqTimeout' \in [Relay -> SUBSET Client]
      /\ rreqDelays' \in [Relay -> [Client -> Nat \cup {None}]]
      /\ s \in rreqTimeout'[r] /\ rreqDelays'[r][s] = t
      /\ \A k \in Relay, c \in Client : k # r \/ c # s =>
           /\ rreqDelays'[k][c] = rreqDelays[k][c]
           /\ c \in rreqTimeout'[k] <=> c \in rreqTimeout[k]
  BY <1>1, <1>2, <1>4, <1>5
<1>7. ASSUME NEW x \in pending'
      PROVE  x.left \in Nat /\ x.request.source \in rreqTimeout'[x.at]
  <2>1. CASE x = e
    BY <1>1, <1>3, <1>6, <2>1
  <2>2. CASE x \in pending
    <3>1. x.left \in Nat /\ x.request.source \in rreqTimeout[x.at] /\ x.at \in Relay
      BY <2>2 DEF HoldingIsSound, RequestsAreSound, IsHeld
    <3> QED
      BY <1>4, <1>5, <3>1
  <2> QED
    BY <1>4, <2>1, <2>2
<1>8. ASSUME NEW k \in Relay, NEW c \in Client, c \notin rreqTimeout'[k]
      PROVE  rreqDelays'[k][c] = None
  BY <1>6, <1>8 DEF HoldingIsSound
<1>9. ASSUME NEW k \in Relay, NEW c \in rreqTimeout'[k]
      PROVE  Remembers(k, c, rreqDelays'[k][c], pending', sequenceTable[k])
  <2>0. c \in Client /\ t # None
    BY <1>2, <1>6, TopologyAssumption
  <2>1. CASE k = r /\ c = s
    <3>1. \A x \in pending : x.at = r /\ x.request.source = s => x.left >= t
      <4> SUFFICES ASSUME NEW x \in pending, x.at = r, x.request.source = s
                   PROVE  x.left >= t
        OBVIOUS
      <4>1. s \in rreqTimeout[r] /\ x.left \in Nat
        BY DEF HoldingIsSound
      <4>2. x.left >= rreqDelays[r][s]
        BY <1>4, <4>1 DEF HoldingIsSound, Remembers
      <4>3. rreqDelays[r][s] \in Nat
        BY <1>4, <1>5, <4>1
      <4> QED
        BY <1>4, <4>1, <4>2, <4>3
    <3>2. e \in pending' /\ e.left >= t
      BY <1>3, <1>4
    <3> QED
      BY <1>1, <1>3, <1>4, <1>6, <2>0, <2>1, <3>1, <3>2 DEF Remembers
  <2>2. CASE k # r \/ c # s
    <3>1. Remembers(k, c, rreqDelays[k][c], pending, sequenceTable[k])
      BY <1>6, <2>0, <2>2 DEF HoldingIsSound
    <3>2. e.at # k \/ e.request.source # c
      BY <1>1, <1>3, <2>2
    <3>3. \A x \in pending' : x.at = k /\ x.request.source = c => x \in pending
      BY <1>4, <3>2
    <3>4. \A x \in pending : x \in pending'
      BY <1>4
    <3>5. rreqDelays'[k][c] = rreqDelays[k][c]
      BY <1>6, <2>0, <2>2
    <3> QED
      BY <3>1, <3>3, <3>4, <3>5 DEF Remembers
  <2> QED
    BY <2>1, <2>2
<1> QED
  BY <1>4, <1>6, <1>7, <1>8, <1>9 DEF HoldingIsSound

LEMMA DelayForwardRREQHolding ==
    ASSUME RequestsAreSound, HoldingIsSound, NEW e \in pending, DelayForwardRREQ(e)
    PROVE  HoldingIsSound'
<1>1. PICK r \in Relay, s \in Client : r = e.at /\ s = e.request.source
  BY DEF RequestsAreSound, IsHeld, RequestIsSound
<1>2. /\ pending' = pending \ {e} /\ rreqTimeout' = rreqTimeout
      /\ rreqDelays' = [rreqDelays EXCEPT ![r][s] = None]
      /\ sequenceTable' = [sequenceTable EXCEPT ![r] = @ \cup {s}]
  BY <1>1 DEF DelayForwardRREQ, RecordFlood
<1>3. /\ rreqTimeout \in [Relay -> SUBSET Client]
      /\ rreqDelays \in [Relay -> [Client -> Nat \cup {None}]]
      /\ sequenceTable \in [Node -> SUBSET Client] /\ r \in Node
  BY DEF HoldingIsSound, RequestsAreSound, Node
<1>4. /\ rreqDelays' \in [Relay -> [Client -> Nat \cup {None}]]
      /\ rreqDelays'[r][s] = None
      /\ \A k \in Relay, c \in Client : k # r \/ c # s =>
           rreqDelays'[k][c] = rreqDelays[k][c]
  BY <1>2, <1>3
<1>5. s \in sequenceTable'[r] /\ \A n \in Node : sequenceTable[n] \subseteq sequenceTable'[n]
  BY <1>2, <1>3
<1>6. ASSUME NEW k \in Relay, NEW c \in rreqTimeout[k]
      PROVE  Remembers(k, c, rreqDelays'[k][c], pending', sequenceTable'[k])
  <2>0. c \in Client /\ k \in Node
    BY <1>3 DEF Node
  <2>1. CASE k = r /\ c = s
    BY <1>4, <1>5, <2>1 DEF Remembers
  <2>2. CASE k # r \/ c # s
    <3>1. Remembers(k, c, rreqDelays[k][c], pending, sequenceTable[k])
      BY DEF HoldingIsSound
    <3>2. \A x \in pending : x.at = k /\ x.request.source = c => x \in pending'
      BY <1>1, <1>2, <2>2
    <3>3. rreqDelays'[k][c] = rreqDelays[k][c] /\ sequenceTable[k] \subseteq sequenceTable'[k]
      BY <1>4, <1>5, <2>0, <2>2
    <3>4. \A x \in pending' : x \in pending
      BY <1>2
    <3> QED
      BY <3>1, <3>2, <3>3, <3>4 DEF Remembers
  <2> QED
    BY <2>1, <2>2
<1>7. \A x \in pending' : x.left \in Nat /\ x.request.source \in rreqTimeout[x.at]
  BY <1>2 DEF HoldingIsSound
<1>8. \A k \in Relay, c \in Client : c \notin rreqTimeout[k] => rreqDelays'[k][c] = None
  BY <1>4 DEF HoldingIsSound
<1> QED
  BY <1>2, <1>3, <1>4, <1>6, <1>7, <1>8 DEF HoldingIsSound

\* Time passes for the held requests and for what is remembered of them alike.
LEMMA TickHolding ==
    ASSUME RequestsAreSound, HoldingIsSound, Tick
    PROVE  HoldingIsSound'
<1>1. /\ pending' = {[e EXCEPT !.left = @ - 1] : e \in pending}
      /\ rreqTimeout' = rreqTimeout /\ sequenceTable' = sequenceTable
      /\ \A e \in pending : e.left > 0
      /\ rreqDelays' = [r \in Relay |-> [s \in Client |->
                          IF rreqDelays[r][s] = None THEN None ELSE rreqDelays[r][s] - 1]]
  BY DEF Tick
<1> DEFINE later(e) == [e EXCEPT !.left = @ - 1]
<1>2. ASSUME NEW e \in pending
      PROVE  /\ later(e) \in pending' /\ later(e).at = e.at
             /\ later(e).request = e.request /\ later(e).left = e.left - 1
             /\ e.left \in Nat /\ e.left > 0 /\ e.at \in Relay
             /\ e.request.source \in rreqTimeout[e.at]
  BY <1>1 DEF RequestsAreSound, IsHeld, HoldingIsSound
<1>3. \A x \in pending' : \E e \in pending : x = later(e)
  BY <1>1
<1> HIDE DEF later
<1>4. ASSUME NEW x \in pending'
      PROVE  x.left \in Nat /\ x.request.source \in rreqTimeout[x.at]
  <2>1. PICK e \in pending : x = later(e)
    BY <1>3
  <2> QED
    BY <1>2, <2>1
<1>5. ASSUME NEW r \in Relay, NEW s \in rreqTimeout[r]
      PROVE  /\ Remembers(r, s, rreqDelays'[r][s], pending', sequenceTable[r])
             /\ rreqDelays'[r][s] \in Nat \cup {None}
  <2>0. s \in Client /\ rreqDelays[r][s] \in Nat \cup {None}
    BY DEF HoldingIsSound
  <2>1. Remembers(r, s, rreqDelays[r][s], pending, sequenceTable[r])
    BY DEF HoldingIsSound
  <2>2. CASE rreqDelays[r][s] = None
    <3>1. rreqDelays'[r][s] = None
      BY <1>1, <2>0, <2>2
    <3> QED
      BY <2>1, <2>2, <3>1 DEF Remembers
  <2>3. CASE rreqDelays[r][s] # None
    <3>1. PICK t \in Nat : t = rreqDelays[r][s]
      BY <2>0, <2>3
    <3>2. rreqDelays'[r][s] = t - 1
      BY <1>1, <2>0, <2>3, <3>1
    <3>3. PICK e \in pending : e.at = r /\ e.request.source = s /\ e.left = t
      BY <2>1, <2>3, <3>1 DEF Remembers
    <3>4. t > 0 /\ t - 1 \in Nat /\ t - 1 # None
      BY <1>2, <3>1, <3>3, TopologyAssumption
    <3>5. \E x \in pending' : x.at = r /\ x.request.source = s /\ x.left = t - 1
      BY <1>2, <3>3
    <3>6. ASSUME NEW x \in pending', x.at = r, x.request.source = s PROVE x.left >= t - 1
      <4>1. PICK f \in pending : x = later(f)
        BY <1>3
      <4>2. f.at = r /\ f.request.source = s /\ x.left = f.left - 1 /\ f.left \in Nat
        BY <1>2, <3>6, <4>1
      <4>3. f.left >= t
        BY <2>1, <2>3, <3>1, <4>2 DEF Remembers
      <4> QED
        BY <4>2, <4>3
    <3> QED
      BY <3>2, <3>4, <3>5, <3>6 DEF Remembers
  <2> QED
    BY <2>2, <2>3
<1>6. ASSUME NEW r \in Relay, NEW s \in Client, s \notin rreqTimeout[r]
      PROVE  rreqDelays'[r][s] = None
  BY <1>1, <1>6 DEF HoldingIsSound
<1>7. rreqDelays' \in [Relay -> [Client -> Nat \cup {None}]]
  <2>1. \A r \in Relay, s \in Client : rreqDelays'[r][s] \in Nat \cup {None}
    BY <1>5, <1>6
  <2>2. rreqDelays' = [r \in Relay |-> [s \in Client |-> rreqDelays'[r][s]]]
    BY <1>1
  <2> QED
    BY <2>1, <2>2
<1>8. rreqTimeout \in [Relay -> SUBSET Client]
  BY DEF HoldingIsSound
<1> QED
  BY <1>1, <1>4, <1>5, <1>6, <1>7, <1>8 DEF HoldingIsSound

LEMMA NextHolding ==
    ASSUME TrailInv, RequestsAreTyped, HoldingIsSound, [Next]_vars
    PROVE  HoldingIsSound'
<1>0. RequestsAreSound /\ sequenceTable \in [Node -> SUBSET Client]
  BY DEF TrailInv, RequestsAreSound
<1>1. ASSUME NEW m \in net, m.type = "rreq", HandleRREQ(m.to, m) PROVE HoldingIsSound'
  <2>1. m.source \in Client /\ m.to \in Node
    BY <1>0, <1>1 DEF RequestsAreSound, IsOnTheAir, RequestIsSound
  <2>2. CASE DropMessage(m) \/ IgnoreLater(m.to, m)
    <3>1. /\ sequenceTable' = sequenceTable /\ rreqTimeout' = rreqTimeout
          /\ rreqDelays' = rreqDelays /\ pending' = pending
      BY <2>2 DEF DropMessage, IgnoreLater, tables
    <3> QED
      BY <3>1, HoldingStays
  <2>3. CASE SendRREP(m.to, m) \/ ForwardRREQ(m.to, m)
    <3>1. /\ sequenceTable' = [sequenceTable EXCEPT ![m.to] = @ \cup {m.source}]
          /\ rreqTimeout' = rreqTimeout /\ rreqDelays' = rreqDelays /\ pending' = pending
      BY <2>3 DEF SendRREP, ForwardRREQ, RecordFlood, tables
    <3>2. \A n \in Node : sequenceTable[n] \subseteq sequenceTable'[n]
      BY <1>0, <2>1, <3>1, RecordFloodGrows
    <3> QED
      BY <3>1, <3>2, HoldingStays
  <2>4. CASE m.to \in Relay /\ HoldBack(m.to, m)
    BY <1>0, <1>1, <2>4, HoldBackHolding
  <2> QED
    BY <1>1, <2>2, <2>3, <2>4 DEF HandleRREQ
<1>2. ASSUME NEW e \in pending, DelayForwardRREQ(e) PROVE HoldingIsSound'
  BY <1>0, <1>2, DelayForwardRREQHolding
<1>3. CASE Tick
  BY <1>0, <1>3, TickHolding
<1>4. CASE \/ \E s \in Client : SendRREQ(s)
           \/ \E m \in net : HandleRREP(m.to, m)
           \/ \E m \in net : Lose(m)
           \/ UNCHANGED vars
  <2>1. /\ sequenceTable' = sequenceTable /\ rreqTimeout' = rreqTimeout
        /\ rreqDelays' = rreqDelays /\ pending' = pending
    BY <1>4 DEF SendRREQ, HandleRREP, DropMessage, Lose, vars, tables
  <2> QED
    BY <2>1, HoldingStays
<1>5. ASSUME NEW m \in net, Receive(m) PROVE HoldingIsSound'
  BY <1>1, <1>4, <1>5 DEF Receive
<1> QED
  BY <1>2, <1>3, <1>4, <1>5 DEF Next

HoldInv == TrailInv /\ RequestsAreTyped /\ HoldingIsSound

\* A relay that has no entry of a flood holds none of its copies; with an entry it
\* remembers the earliest of them, or has forwarded the flood.
THEOREM RouteHoldingIsSound == Spec => []HoldInv
<1>1. Init => RequestsAreTyped /\ HoldingIsSound
  <2> SUFFICES ASSUME Init PROVE RequestsAreTyped /\ HoldingIsSound
    OBVIOUS
  <2>1. /\ net = {} /\ pending = {} /\ rreqTimeout = [r \in Relay |-> {}]
        /\ rreqDelays = [r \in Relay |-> [s \in Client |-> None]]
    BY DEF Init
  <2>2. Requests = {}
    BY <2>1 DEF Requests
  <2> QED
    BY <2>1, <2>2 DEF RequestsAreTyped, HoldingIsSound
<1>2. TrailInv /\ RequestsAreTyped /\ HoldingIsSound /\ [Next]_vars
        => (RequestsAreTyped /\ HoldingIsSound)'
  BY NextRequestsTyped, NextHolding
<1>3. Spec => [](RequestsAreTyped /\ HoldingIsSound)
  BY <1>1, <1>2, RouteTrailsAreSound, PTL DEF Spec
<1> QED
  BY <1>3, RouteTrailsAreSound, PTL DEF HoldInv

\* What a relay remembers of a flood it holds back is the delay of the copy that will
\* be forwarded first, however many copies arrive while it waits; with nothing
\* remembered, the flood has been forwarded.
THEOREM RouteRememberedDelayIsEarliest == Spec => []RememberedDelayIsEarliest
<1>1. ASSUME HoldingIsSound, NEW r \in Relay, NEW s \in rreqTimeout[r]
      PROVE  LET held == {e \in pending : e.at = r /\ e.request.source = s}
             IN IF rreqDelays[r][s] = None
                THEN s \in sequenceTable[r]
                ELSE /\ \E e \in held : e.left = rreqDelays[r][s]
                     /\ \A e \in held : e.left >= rreqDelays[r][s]
  <2>1. Remembers(r, s, rreqDelays[r][s], pending, sequenceTable[r])
    BY <1>1 DEF HoldingIsSound
  <2> QED
    BY <2>1 DEF Remembers
<1>2. HoldInv => RememberedDelayIsEarliest
  BY <1>1 DEF HoldInv, RememberedDelayIsEarliest
<1> QED
  BY <1>2, RouteHoldingIsSound, PTL

\* The histories and the mode.
HistoryOK ==
    /\ dfMode \in BOOLEAN
    /\ flooded \subseteq Client
    /\ forwards \in [Relay -> [Client -> Nat]]

LEMMA NextHistory ==
    ASSUME TrailInv, HistoryOK, [Next]_vars PROVE HistoryOK'
<1>1. ASSUME NEW r \in Relay, NEW s \in Client,
             forwards' = [forwards EXCEPT ![r][s] = @ + 1]
      PROVE  forwards' \in [Relay -> [Client -> Nat]]
  <2>1. PICK g \in [Client -> Nat] : g = forwards[r]
    BY DEF HistoryOK
  <2>2. [g EXCEPT ![s] = @ + 1] \in [Client -> Nat]
    OBVIOUS
  <2>3. forwards' = [forwards EXCEPT ![r] = [g EXCEPT ![s] = @ + 1]]
    BY <1>1, <2>1
  <2> QED
    BY <2>2, <2>3 DEF HistoryOK
<1>2. ASSUME NEW m \in net, Receive(m) PROVE HistoryOK'
  <2>1. dfMode' = dfMode /\ flooded' = flooded
    BY <1>2 DEF Receive
  <2>2. CASE m.type = "rreq" /\ HandleRREQ(m.to, m)
    <3>1. \/ forwards' = forwards
          \/ m.to \in Relay /\ forwards' = [forwards EXCEPT ![m.to][m.source] = @ + 1]
      BY <2>2 DEF HandleRREQ, DropMessage, SendRREP, ForwardRREQ, RecordFlood, HoldBack,
                  IgnoreLater
    <3>2. m.source \in Client
      BY <2>2 DEF TrailInv, RequestsAreSound, IsOnTheAir, RequestIsSound
    <3> QED
      BY <1>1, <2>1, <3>1, <3>2 DEF HistoryOK
  <2>3. CASE m.type = "rrep" /\ HandleRREP(m.to, m)
    <3>1. forwards' = forwards
      BY <2>3 DEF HandleRREP, DropMessage
    <3> QED
      BY <2>1, <3>1 DEF HistoryOK
  <2> QED
    BY <1>2, <2>2, <2>3 DEF Receive
<1>3. ASSUME NEW e \in pending, DelayForwardRREQ(e) PROVE HistoryOK'
  <2>1. PICK r \in Relay, s \in Client : r = e.at /\ s = e.request.source
    BY DEF TrailInv, RequestsAreSound, IsHeld, RequestIsSound
  <2>2. /\ forwards' = [forwards EXCEPT ![r][s] = @ + 1]
        /\ dfMode' = dfMode /\ flooded' = flooded
    BY <1>3, <2>1 DEF DelayForwardRREQ, RecordFlood
  <2> QED
    BY <1>1, <2>2 DEF HistoryOK
<1>4. ASSUME NEW s \in Client, SendRREQ(s) PROVE HistoryOK'
  BY <1>4 DEF SendRREQ, HistoryOK
<1>5. CASE Tick \/ (\E m \in net : Lose(m)) \/ UNCHANGED vars
  BY <1>5 DEF Tick, Lose, vars, HistoryOK
<1> QED
  BY <1>2, <1>3, <1>4, <1>5 DEF Next

\* Every variable of route discovery keeps its type.
THEOREM RouteTypeOK == Spec => []TypeOK
<1>1. Init => HistoryOK
  BY DEF Init, HistoryOK
<1>2. TrailInv /\ HistoryOK /\ [Next]_vars => HistoryOK'
  BY NextHistory
<1>3. Spec => []HistoryOK
  BY <1>1, <1>2, RouteTrailsAreSound, PTL DEF Spec
<1>4. HoldInv /\ HistoryOK => TypeOK
  <2> SUFFICES ASSUME HoldInv, HistoryOK PROVE TypeOK
    OBVIOUS
  <2>1. \A e \in pending : e.at \in Relay /\ e.left \in Nat
    BY DEF HoldInv, TrailInv, RequestsAreSound, IsHeld, HoldingIsSound
  <2>2. \A m \in Requests : m.source \in Client /\ m.path \in Seq(Node)
                            /\ m.bidirection \in Nat /\ m.waited \in Nat
    BY DEF HoldInv, TrailInv, RequestsAreSound, IsOnTheAir, IsHeld, RequestIsSound,
           Requests, RequestsAreTyped
  <2>3. ASSUME NEW m \in Replies
        PROVE  {m.source, m.destination} \subseteq Client /\ m.path \in Seq(Node)
    <3>1. m \in net /\ m.type = "rrep"
      BY DEF Replies
    <3>2. m.destination \in Client /\ m.source = Partner[m.destination]
      BY <3>1 DEF HoldInv, TrailInv, RepliesAreFew
    <3>3. m.path \in Seq(Node)
      BY <3>1 DEF HoldInv, TrailInv, TrailsAreSound, IsComingBack, ReplyFollows
    <3> QED
      BY <3>2, <3>3, TopologyAssumption
  <2> QED
    BY <2>1, <2>2, <2>3 DEF TypeOK, HistoryOK, HoldInv, TrailInv, RequestsAreSound,
                            TrailsAreSound, HoldingIsSound
<1> QED
  BY <1>3, <1>4, RouteHoldingIsSound, PTL

-----------------------------------------------------------------------------
(* How long relays hold a request back. *)

\* A hop costs its share of dLimit, or tenSeconds when it is full.
LEMMA DelayShare ==
    ASSUME SettingFits, NEW b \in Nat
    PROVE  \/ DelayTicks(b) >= Setting.tenSeconds
           \/ DelayTicks(b) * (Setting.numberOfNodes - 1) <= Setting.dLimit
<1>1. IsSetting(Setting)
  BY TopologyAssumption
<1>2. PICK m \in Nat, d \in Nat, t \in Nat :
        m = Setting.numberOfNodes - 1 /\ m > 0 /\ d = Setting.dLimit /\ t = Setting.tenSeconds
  BY <1>1 DEF IsSetting
<1>3. CASE Setting.relaxedAlpha[1] = 0
  <2>1. GetDelayTime(Setting, b) = <<0, 1>>
    BY <1>3 DEF GetDelayTime
  <2>2. DelayTicks(b) = 0 /\ 0 * m = 0
    BY <2>1 DEF DelayTicks
  <2> QED
    BY <1>2, <2>2
<1>4. CASE Setting.relaxedAlpha[1] # 0 /\ b < 2 * Setting.relaxedK
  <2>1. PICK i \in Nat : GetDelayTime(Setting, b) = PairDelay(Setting, i)
    <3>1. b \div 2 \in Nat
      OBVIOUS
    <3> QED
      BY <1>4, <3>1 DEF GetDelayTime
  <2>2. PICK x \in Nat, y \in Nat :
          x = PairDelay(Setting, i)[1] /\ y = PairDelay(Setting, i)[2] /\ y > 0
    BY <1>1, <2>1, GetDelayTimeType
  <2>3. x * m <= d * y
    BY <1>1, <1>2, <1>4, <2>2, PairDelayShare DEF SettingFits, IsSpreading
  <2>4. PICK q \in Nat : q = x \div y /\ q * y <= x
    BY <2>2, QuotientFacts
  <2>5. (q * y) * m <= x * m
    BY <2>4, ProductFacts
  <2>6. (q * y) * m = (q * m) * y
    OBVIOUS
  <2>7. q * m \in Nat /\ (q * m) * y <= d * y
    BY <2>3, <2>5, <2>6, ProductFacts
  <2>8. q * m <= d
    BY <2>2, <2>7, ProductFacts
  <2>9. DelayTicks(b) = q
    BY <2>1, <2>2, <2>4 DEF DelayTicks
  <2> QED
    BY <1>2, <2>8, <2>9
<1>5. CASE Setting.relaxedAlpha[1] # 0 /\ ~ b < 2 * Setting.relaxedK /\ Setting.relaxedK # 0
  <2>1. GetDelayTime(Setting, b) = <<t, 1>>
    BY <1>2, <1>5 DEF GetDelayTime
  <2>2. DelayTicks(b) = t
    BY <2>1 DEF DelayTicks
  <2> QED
    BY <1>2, <2>2
<1>6. CASE Setting.relaxedAlpha[1] # 0 /\ ~ b < 2 * Setting.relaxedK /\ Setting.relaxedK = 0
  <2>1. GetDelayTime(Setting, b) = <<d, m>>
    BY <1>2, <1>6 DEF GetDelayTime
  <2>2. DelayTicks(b) = d \div m
    BY <2>1 DEF DelayTicks
  <2>3. DelayTicks(b) * m <= d
    BY <1>2, <2>2, QuotientFacts
  <2> QED
    BY <1>2, <2>3
<1> QED
  BY <1>3, <1>4, <1>5, <1>6

\* The relays that passed a request on took at most a share each, unless one was full.
Patient(m) ==
    \/ m.waited >= Setting.tenSeconds
    \/ m.waited * (Setting.numberOfNodes - 1) <= (Len(m.path) - 1) * Setting.dLimit

RequestsArePatient == \A m \in Requests : Patient(m)

LEMMA NextPatient ==
    ASSUME SettingFits, HoldInv, RequestsArePatient, [Next]_vars
    PROVE  RequestsArePatient'
<1> SUFFICES ASSUME NEW x \in Requests' PROVE Patient(x)
  BY DEF RequestsArePatient, Patient
<1>1. PICK m \in Nat, d \in Nat, t \in Nat :
        m = Setting.numberOfNodes - 1 /\ d = Setting.dLimit /\ t = Setting.tenSeconds
  BY TopologyAssumption DEF IsSetting
<1>2. CASE x \in Requests
  BY <1>2 DEF RequestsArePatient
<1>3. CASE \E s \in Client, n \in Node : x = Rreq(s, s, n, <<s>>, 0, 0)
  <2>1. PICK s \in Client : x.waited = 0 /\ x.path = <<s>>
    BY <1>3 DEF Rreq
  <2>2. Len(x.path) = 1 /\ 0 * m = 0 /\ (1 - 1) * d = 0
    BY <2>1
  <2>3. x.waited * m = 0 /\ (Len(x.path) - 1) * d = 0
    BY <2>1, <2>2
  <2> QED
    BY <1>1, <2>3 DEF Patient
<1>4. ASSUME NEW r \in Relay, NEW c \in Requests, x \in ForwardedCopies(r, c)
      PROVE  Patient(x)
  <2>1. PICK b \in Nat, w \in Nat : b = c.bidirection /\ w = c.waited
    BY DEF HoldInv, RequestsAreTyped
  <2>2. PICK e \in Nat : e = DelayTicks(b)
    BY DelayTicksType
  <2>3. PICK p \in Seq(Node) : p = c.path /\ Len(p) > 0
    BY DEF HoldInv, TrailInv, RequestsAreSound, IsOnTheAir, IsHeld, RequestIsSound, Requests
  <2>4. PICK k \in Nat : Len(p) = k + 1
    <3>1. Len(p) - 1 \in Nat
      BY <2>3, LenProperties
    <3> QED
      BY <3>1
  <2>5. /\ x.path = Append(p, r)
        /\ x.waited = IF dfMode THEN w + e ELSE w
    BY <1>4, <2>1, <2>2, <2>3 DEF ForwardedCopies, Rreq
  <2>6. Len(x.path) - 1 = k + 1
    <3>1. r \in Node
      BY DEF Node
    <3>2. Len(Append(p, r)) = Len(p) + 1
      BY <3>1, AppendProperties
    <3> QED
      BY <2>4, <2>5, <3>2
  <2>7. w >= t \/ w * m <= k * d
    <3>1. w >= t \/ w * m <= (Len(p) - 1) * d
      BY <1>1, <2>1, <2>3 DEF RequestsArePatient, Patient
    <3>2. Len(p) - 1 = k
      BY <2>4
    <3> QED
      BY <3>1, <3>2
  <2>8. e >= t \/ e * m <= d
    BY <1>1, <2>2, DelayShare
  <2>9. (k + 1) * d = k * d + d /\ (w + e) * m = w * m + e * m
        /\ w * m \in Nat /\ e * m \in Nat /\ k * d \in Nat
    OBVIOUS
  <2>10. w + e >= t \/ (w + e) * m <= (k + 1) * d
    BY <2>7, <2>8, <2>9
  <2>11. w >= t \/ w * m <= (k + 1) * d
    BY <2>7, <2>9
  <2> QED
    BY <1>1, <2>5, <2>6, <2>10, <2>11 DEF Patient
<1> QED
  BY <1>2, <1>3, <1>4, NewRequests DEF HoldInv

\* No request has been through more relays than there are.
LEMMA RequestPathIsShort ==
    ASSUME NEW m, NEW st, RequestIsSound(m, st)
    PROVE  Cardinality(Relay) \in Nat /\ Len(m.path) - 1 \in Nat
           /\ Len(m.path) - 1 <= Cardinality(Relay)
<1>1. IsFiniteSet(Relay)
  BY TopologyAssumption, FS_Subset DEF Node
<1>2. PICK p \in Seq(Node) : p = m.path
  BY DEF RequestIsSound
<1>3. PICK k \in Nat : Len(p) = k + 1 /\ DOMAIN p = 1..k + 1
  <2>1. Len(p) - 1 \in Nat
    BY <1>2, LenProperties DEF RequestIsSound
  <2> QED
    BY <2>1, LenProperties
<1> DEFINE f == [i \in 1..k |-> p[i + 1]]
<1>4. f \in Injection(1..k, Relay)
  <2>1. ASSUME NEW i \in 1..k PROVE p[i + 1] \in Relay
    <3>1. i + 1 \in 2..Len(m.path)
      BY <1>2, <1>3
    <3> QED
      BY <1>2, <3>1 DEF RequestIsSound
  <2>2. ASSUME NEW i \in 1..k, NEW j \in 1..k, p[i + 1] = p[j + 1] PROVE i = j
    <3>1. i + 1 \in 1..k + 1 /\ j + 1 \in 1..k + 1
      OBVIOUS
    <3>2. i + 1 = j + 1
      BY <1>2, <1>3, <2>2, <3>1 DEF RequestIsSound, IsSimplePath, IsInjective
    <3> QED
      BY <3>2
  <2> QED
    BY <2>1, <2>2 DEF Injection, IsInjective
<1>5. Cardinality(1..k) <= Cardinality(Relay)
  BY <1>1, <1>4, FS_Injection
<1>6. Cardinality(1..k) = k
  BY FS_Interval
<1> QED
  BY <1>1, <1>2, <1>3, <1>5, <1>6, FS_CardinalityType

\* Whichever way a request takes and however often a relay passes it on, relays hold it
\* back for less than dLimit altogether, unless one of its hops was full: in every
\* network that has no more nodes than the setting says, with alpha zero or
\* alpha (nodes - 1) at least one.
THEOREM RouteHoldBackWithinLimit ==
    ASSUME SettingFits
    PROVE  Spec => []HoldBackWithinLimit
<1>1. Init => RequestsArePatient
  <2> SUFFICES ASSUME Init PROVE RequestsArePatient
    OBVIOUS
  <2>1. Requests = {}
    BY DEF Init, Requests
  <2> QED
    BY <2>1 DEF RequestsArePatient
<1>2. HoldInv /\ RequestsArePatient /\ [Next]_vars => RequestsArePatient'
  BY NextPatient
<1>3. HoldInv /\ RequestsArePatient => HoldBackWithinLimit
  <2> SUFFICES ASSUME HoldInv, RequestsArePatient, NEW x \in net, x.type = "rreq",
                      x.waited < Setting.tenSeconds
               PROVE  x.waited < Setting.dLimit
    BY DEF HoldBackWithinLimit
  <2>1. PICK n \in Nat, d \in Nat, t \in Nat :
          /\ n = Setting.numberOfNodes - 2 /\ d = Setting.dLimit /\ d > 0
          /\ t = Setting.tenSeconds /\ Setting.numberOfNodes - 1 = n + 1
    BY TopologyAssumption DEF IsSetting
  <2>2. x \in Requests
    BY DEF Requests
  <2>3. PICK w \in Nat : w = x.waited /\ w < t
    BY <2>1, <2>2 DEF HoldInv, RequestsAreTyped
  <2>4. PICK k \in Nat : k = Len(x.path) - 1 /\ k <= Cardinality(Relay)
                         /\ Cardinality(Relay) \in Nat
    BY RequestPathIsShort DEF HoldInv, TrailInv, RequestsAreSound, IsOnTheAir
  <2>5. k <= n
    BY <2>1, <2>4 DEF SettingFits
  <2>6. w * (n + 1) <= k * d
    <3>1. w >= t \/ w * (n + 1) <= k * d
      BY <2>1, <2>2, <2>3, <2>4 DEF RequestsArePatient, Patient
    <3> QED
      BY <2>3, <3>1
  <2>7. k * d <= n * d /\ n * d \in Nat /\ k * d \in Nat /\ w * (n + 1) \in Nat
    BY <2>5, ProductFacts
  <2>8. ~ d <= w
    <3> SUFFICES ASSUME d <= w PROVE FALSE
      OBVIOUS
    <3>1. d * (n + 1) <= w * (n + 1) /\ d * (n + 1) = n * d + d
      BY ProductFacts
    <3> QED
      BY <2>1, <2>6, <2>7, <3>1
  <2> QED
    BY <2>1, <2>3, <2>8
<1> QED
  BY <1>1, <1>2, <1>3, RouteHoldingIsSound, PTL DEF Spec

\* In delay mode a route with more coding comes first, and no route is held back for
\* dLimit: a fact of GetDelayTime for whatever setting the script gives.
THEOREM RouteDelaysFavourCoding == Spec => []DelaysFavourCoding
<1>1. EverySettingFavoursCoding
  BY TopologyAssumption, DelayCodingRouteComesFirst, DelayRouteWithinLimit
     DEF EverySettingFavoursCoding
<1>2. DelaysFavourCoding
  BY <1>1 DEF DelaysFavourCoding
<1> QED
  BY <1>2, PTL
=============================================================================
