--------------------------- MODULE RouteDiscovery ---------------------------
(***************************************************************************)
(* Route discovery of the DF application (delay-forward.cc): a client      *)
(* floods a route request (RREQ) for its partner, every relay holds the    *)
(* request back for a time that depends on how many flows already take the *)
(* same hop, and the partner answers the first copy with a route reply     *)
(* (RREP) that installs the route hop by hop on its way back.              *)
(*                                                                         *)
(* A client floods once (ReadyToSendData schedules SendRREQ from           *)
(* StartApplication only), so the sequence number a node has recorded for  *)
(* a source is either absent or that of its one flood: m_sequenceTable is  *)
(* the set "sequenceTable" of sources, and a pair (source, destination) is *)
(* known by its source.                                                    *)
(*                                                                         *)
(* Time is counted in ticks.  Instead of absolute times the model keeps    *)
(* what is left of them: predictionTime < m_rreqDelays[..] compares two    *)
(* absolute times, and so do the two remainders.  A datagram takes any     *)
(* time to arrive, and may be lost when Lossy.                             *)
(***************************************************************************)
EXTENDS Integers, Sequences, SequencesExt, DelayTime

CONSTANTS Relay, Client,
          Peers,     \* neighbours of each node
          Partner,   \* m_destinationNodeId of each client
          Settings,  \* parameters of the delay, in ticks of the model's clock
          Setting,   \* those that the script gave the nodes
          Installed, \* flows that earlier discoveries left at each relay
          Lossy,     \* datagrams may be lost
          None       \* an entry that a map does not hold

Node == Relay \cup Client

ASSUME TopologyAssumption ==
    /\ Relay \cap Client = {}
    /\ IsFiniteSet(Node) /\ None \notin Node \cup Nat
    /\ Peers \in [Node -> SUBSET Node]
    /\ \A m, n \in Node : m \in Peers[n] => n \in Peers[m] /\ m # n
    /\ Partner \in [Client -> Client]
    /\ \A s \in Client : Partner[s] # s /\ Partner[Partner[s]] = s
    /\ Installed \in [Relay -> Seq(Node \X Node)]
    /\ Setting \in Settings /\ \A s \in Settings : IsSetting(s)
    /\ Lossy \in BOOLEAN

VARIABLES
    dfMode,         \* m_IsDfMode, the same at every node of a simulation
    flooded,        \* clients that have sent their RREQ
    sequenceTable,  \* m_sequenceTable: sources whose flood a node has recorded
    rreqTimeout,    \* m_rreqTimeout: sources with an entry, at each relay
    rreqDelays,     \* m_rreqDelays: what is left of the remembered prediction
    pending,        \* DelayForwardRREQ events in the simulator's event list
    routingIdTable, \* m_routingIdTable: next hop to each client
    flowTable,      \* m_flowTable: <<hop back to the source, hop to its partner>>
    net,            \* datagrams in flight
    forwards        \* history: how often a relay forwarded a source's flood

tables == <<rreqTimeout, rreqDelays, pending>>
routes == <<routingIdTable, flowTable>>
vars == <<dfMode, flooded, sequenceTable, tables, routes, net, forwards>>

\* waited is a history of the request: for how long relays have held it back.
Rreq(s, from, to, path, b, w) ==
    [type |-> "rreq", source |-> s, sender |-> from, to |-> to, path |-> path,
     bidirection |-> b, waited |-> w]

\* d answers s; the reply is unicast to the node it names as next.
Rrep(d, s, from, to, path) ==
    [type |-> "rrep", source |-> d, destination |-> s, sender |-> from, to |-> to,
     path |-> path]

Init ==
    /\ dfMode \in BOOLEAN
    /\ flooded = {}
    /\ sequenceTable = [n \in Node |-> {}]
    /\ rreqTimeout = [r \in Relay |-> {}]
    /\ rreqDelays = [r \in Relay |-> [s \in Client |-> None]]
    /\ pending = {}
    /\ routingIdTable = [n \in Node |-> [d \in Client |-> None]]
    /\ flowTable = Installed
    /\ net = {}
    /\ forwards = [r \in Relay |-> [s \in Client |-> 0]]

-----------------------------------------------------------------------------
\* SetBidiractional and GetBidirectional: an installed direction counts the flows
\* of both directions of that hop pair; a direction that is not installed has the
\* zero of StartApplication, or no entry, even if its opposite is installed.
Bidirection(r, in, out) ==
    IF Contains(flowTable[r], <<in, out>>)
    THEN Cardinality({i \in DOMAIN flowTable[r] :
                        flowTable[r][i] \in {<<in, out>>, <<out, in>>}})
    ELSE 0

\* Seconds(delayTime) in the clock's resolution.
DelayTicks(b) == GetDelayTime(Setting, b)[1] \div GetDelayTime(Setting, b)[2]

\* Mutant: a node does not recognise a flood it has recorded.
NeverRecorded(n, s) == FALSE

HasSequenceNumber(n, s) == s \in sequenceTable[n]

SendRREQ(s) ==
    /\ s \notin flooded
    /\ flooded' = flooded \cup {s}
    /\ net' = net \cup {Rreq(s, s, n, <<s>>, 0, 0) : n \in Peers[s]}
    /\ UNCHANGED <<dfMode, sequenceTable, tables, routes, forwards>>

-----------------------------------------------------------------------------
(* A relay passes a request on: at once, or when its delay is over. *)

\* Mutant: a relay leaves clients out when it forwards a flood.
CopiesToRelays(r, m) ==
    {Rreq(m.source, r, n, Append(m.path, r), 0, m.waited) :
        n \in (Peers[r] \ {m.sender}) \cap Relay}

\* What relay r sends when it forwards request m.  Only the delaying variant
\* computes the bidirection count; the other leaves the member as it came.
ForwardedCopies(r, m) ==
    {Rreq(m.source, r, n, Append(m.path, r),
          IF dfMode THEN Bidirection(r, m.sender, n) ELSE m.bidirection,
          IF dfMode THEN m.waited + DelayTicks(m.bidirection) ELSE m.waited) :
        n \in Peers[r] \ {m.sender}}

\* Mutant: a relay does not record the flood it forwards.
RecordNothing(r, m) ==
    /\ UNCHANGED sequenceTable
    /\ forwards' = [forwards EXCEPT ![r][m.source] = @ + 1]

RecordFlood(r, m) ==
    /\ sequenceTable' = [sequenceTable EXCEPT ![r] = @ \cup {m.source}]
    /\ forwards' = [forwards EXCEPT ![r][m.source] = @ + 1]

ForwardRREQ(r, m) ==
    /\ ~ dfMode
    /\ RecordFlood(r, m)
    /\ net' = (net \ {m}) \cup ForwardedCopies(r, m)
    /\ UNCHANGED <<tables, routes>>

Schedule(r, m) == [at |-> r, request |-> m, left |-> DelayTicks(m.bidirection)]

\* Mutant: every further copy replaces the remembered one.
AlwaysEarlier(r, m) == TRUE

\* The prediction for copy m is earlier than the remembered one.  An m_rreqDelays
\* entry that was erased reads as zero, and nothing is earlier than that.
IsEarlier(r, m) ==
    /\ rreqDelays[r][m.source] # None
    /\ DelayTicks(m.bidirection) < rreqDelays[r][m.source]

\* The first copy of a flood, or one whose prediction is earlier than the one
\* remembered.  The event of an earlier copy stays in the event list.
HoldBack(r, m) ==
    /\ dfMode
    /\ m.source \in rreqTimeout[r] => IsEarlier(r, m)
    /\ pending' = pending \cup {Schedule(r, m)}
    /\ rreqTimeout' = [rreqTimeout EXCEPT ![r] = @ \cup {m.source}]
    /\ rreqDelays' = [rreqDelays EXCEPT ![r][m.source] = DelayTicks(m.bidirection)]
    /\ net' = net \ {m}
    /\ UNCHANGED <<sequenceTable, routes, forwards>>

IgnoreLater(r, m) ==
    /\ dfMode
    /\ m.source \in rreqTimeout[r] /\ ~ IsEarlier(r, m)
    /\ net' = net \ {m}
    /\ UNCHANGED <<sequenceTable, tables, routes, forwards>>

\* The delay of a held request is over.  Simulator::Cancel of the stored event
\* has no effect: that event is the running one, or it expired before.
DelayForwardRREQ(e) ==
    LET r == e.at
        m == e.request
    IN /\ e.left = 0
       /\ RecordFlood(r, m)
       /\ net' = net \cup ForwardedCopies(r, m)
       /\ pending' = pending \ {e}
       /\ rreqDelays' = [rreqDelays EXCEPT ![r][m.source] = None]
       /\ UNCHANGED <<dfMode, flooded, rreqTimeout, routes>>

-----------------------------------------------------------------------------
(* A request arrives. *)

SendRREP(d, m) ==
    /\ sequenceTable' = [sequenceTable EXCEPT ![d] = @ \cup {m.source}]
    /\ net' = (net \ {m}) \cup {Rrep(d, m.source, d, m.sender, m.path)}
    /\ UNCHANGED <<tables, routes, forwards>>

DropMessage(m) ==
    /\ net' = net \ {m}
    /\ UNCHANGED <<sequenceTable, tables, routes, forwards>>

HandleRREQ(n, m) ==
    \/ /\ \/ n = m.source
          \/ HasSequenceNumber(n, m.source)
          \/ n \in Client /\ n # Partner[m.source]
       /\ DropMessage(m)
    \/ /\ n = Partner[m.source]
       /\ ~ HasSequenceNumber(n, m.source)
       /\ SendRREP(n, m)
    \/ /\ n \in Relay
       /\ ~ HasSequenceNumber(n, m.source)
       /\ ForwardRREQ(n, m) \/ HoldBack(n, m) \/ IgnoreLater(n, m)

-----------------------------------------------------------------------------
(* A reply arrives.  Every receiver but its sender records the next hop. *)

\* Mutant: only the client that asked records the next hop.
LearnAtEnd(n, m) ==
    routingIdTable' = IF n = m.destination
                      THEN [routingIdTable EXCEPT ![n][m.source] = m.sender]
                      ELSE routingIdTable

LearnRoute(n, m) ==
    routingIdTable' = [routingIdTable EXCEPT ![n][m.source] = m.sender]

\* Mutant: n stays on the path.
WithSelf(n, path) == path

\* ForwardRREP: n takes itself off the path; the new last element is next.
WithoutSelf(n, path) ==
    LET tempRoutes[j \in 0..Len(path)] ==
            IF j = 0 THEN <<>>
            ELSE IF path[j] = n THEN tempRoutes[j - 1]
            ELSE Append(tempRoutes[j - 1], path[j])
    IN tempRoutes[Len(path)]

ForwardRREP(n, m) ==
    LET path == WithoutSelf(n, m.path)
    IN /\ flowTable' = [flowTable EXCEPT ![n] = Append(@, <<Last(path), m.sender>>)]
       /\ net' = (net \ {m})
                   \cup {Rrep(m.source, m.destination, n, Last(path), path)}

HandleRREP(n, m) ==
    \/ /\ n = m.source
       /\ DropMessage(m)
    \/ /\ n = m.destination
       /\ LearnRoute(n, m)
       /\ net' = net \ {m}
       /\ UNCHANGED <<sequenceTable, tables, flowTable, forwards>>
    \/ /\ n \notin {m.source, m.destination}
       /\ LearnRoute(n, m)
       /\ ForwardRREP(n, m)
       /\ UNCHANGED <<sequenceTable, tables, forwards>>

Receive(m) ==
    /\ \/ m.type = "rreq" /\ HandleRREQ(m.to, m)
       \/ m.type = "rrep" /\ HandleRREP(m.to, m)
    /\ UNCHANGED <<dfMode, flooded>>

-----------------------------------------------------------------------------
(* The environment: time passes, datagrams are lost. *)

\* Mutant: time advances past an event that is due.
TickPastDue ==
    /\ pending # {}
    /\ pending' = {[e EXCEPT !.left = @ - 1] : e \in pending}
    /\ UNCHANGED <<dfMode, flooded, sequenceTable, rreqTimeout, rreqDelays, routes,
                   net, forwards>>

\* Simulation time advances only when no event is due.
Tick ==
    /\ pending # {}
    /\ \A e \in pending : e.left > 0
    /\ pending' = {[e EXCEPT !.left = @ - 1] : e \in pending}
    /\ rreqDelays' = [r \in Relay |-> [s \in Client |->
                        IF rreqDelays[r][s] = None THEN None
                        ELSE rreqDelays[r][s] - 1]]
    /\ UNCHANGED <<dfMode, flooded, sequenceTable, rreqTimeout, routes, net,
                   forwards>>

Lose(m) ==
    /\ Lossy
    /\ net' = net \ {m}
    /\ UNCHANGED <<dfMode, flooded, sequenceTable, tables, routes, forwards>>

Next ==
    \/ \E s \in Client : SendRREQ(s)
    \/ \E m \in net : Receive(m) \/ Lose(m)
    \/ \E e \in pending : DelayForwardRREQ(e)
    \/ Tick

Spec == Init /\ [][Next]_vars

\* The simulator runs every event, so a held request is forwarded, time advances
\* and every datagram that is not lost arrives.
FairSpec ==
    /\ Spec
    /\ WF_vars(\E m \in net : Receive(m))
    /\ WF_vars(\E e \in pending : DelayForwardRREQ(e))
    /\ WF_vars(Tick)

-----------------------------------------------------------------------------
(* Correctness. *)

Requests == {m \in net : m.type = "rreq"} \cup {e.request : e \in pending}
Replies == {m \in net : m.type = "rrep"}

TypeOK ==
    /\ dfMode \in BOOLEAN
    /\ flooded \subseteq Client
    /\ sequenceTable \in [Node -> SUBSET Client]
    /\ rreqTimeout \in [Relay -> SUBSET Client]
    /\ rreqDelays \in [Relay -> [Client -> Nat \cup {None}]]
    /\ \A e \in pending : e.at \in Relay /\ e.left \in Nat
    /\ routingIdTable \in [Node -> [Client -> Node \cup {None}]]
    /\ flowTable \in [Relay -> Seq(Node \X Node)]
    /\ \A m \in Requests : m.source \in Client /\ m.path \in Seq(Node)
                           /\ m.bidirection \in Nat /\ m.waited \in Nat
    /\ \A m \in Replies : {m.source, m.destination} \subseteq Client
                          /\ m.path \in Seq(Node)
    /\ forwards \in [Relay -> [Client -> Nat]]

\* path leads from its first node along neighbours, and meets no node twice.
IsSimplePath(path) ==
    /\ IsInjective(path)
    /\ \A i \in 1..Len(path) - 1 : path[i + 1] \in Peers[path[i]]

\* A request never runs in a circle, although a relay records a flood only when it
\* passes it on, long after it took the first copy, and may pass it on again: the
\* route it carries is a simple path from the source to the node that sent it, and
\* a relay holds no copy that has been through it.
RequestsCarrySimplePaths ==
    /\ \A m \in Requests : /\ IsSimplePath(m.path)
                           /\ m.path[1] = m.source
                           /\ Last(m.path) = m.sender
    /\ \A e \in pending : ~ Contains(e.request.path, e.at)

EverySettingFavoursCoding ==
    \A s \in Settings : CodingRouteComesFirst(s) /\ RouteWithinLimit(s)

\* GetDelayTime (delay-forward.cc:513): in delay mode a route with more coding comes
\* first, and no route is held back for dLimit, with every setting.
DelaysFavourCoding == dfMode => EverySettingFavoursCoding

\* There are no more relays than the setting tells, and alpha is zero or
\* alpha (nodes - 1) at least one.
SettingFits ==
    /\ Cardinality(Relay) <= Setting.numberOfNodes - 2
    /\ \/ Setting.relaxedAlpha[1] = 0
       \/ Setting.relaxedAlpha[1] * (Setting.numberOfNodes - 1) >= Setting.relaxedAlpha[2]

\* Whichever way a request takes, and however often a relay passes it on, relays
\* hold it back for less than dLimit altogether, unless one of its hops was full.
HoldBackWithinLimit ==
    \A m \in {x \in net : x.type = "rreq"} :
        m.waited < Setting.tenSeconds => m.waited < Setting.dLimit

\* Every reply still knows its way back: the path it carries starts at the client
\* that asked and ends at the neighbour it is sent to.  ForwardRREP takes the last
\* element without testing that there is one.
RepliesKnowTheWayBack ==
    \A m \in Replies : /\ IsSimplePath(m.path)
                       /\ m.path[1] = m.destination
                       /\ Last(m.path) = m.to
                       /\ m.to \in Peers[m.sender]

\* The node that a packet of client s has reached after k hops.
AfterHops(s) ==
    LET d == Partner[s]
        hop[k \in 0..Cardinality(Node)] ==
            IF k = 0 THEN s
            ELSE IF hop[k - 1] \in {d, None} THEN hop[k - 1]
            ELSE routingIdTable[hop[k - 1]][d]
    IN hop

\* As soon as a client has a route, every hop of it up to its partner is in place,
\* it has no loop, and each relay on it has installed the flow from the hop before
\* it to the hop after it, the pair under which its data will look for coding.
RoutesAreComplete ==
    \A s \in Client :
        routingIdTable[s][Partner[s]] # None =>
            LET hop == AfterHops(s)
            IN /\ hop[Cardinality(Node)] = Partner[s]
               /\ \A k \in 1..Cardinality(Node) - 1 :
                    hop[k] # Partner[s] =>
                        Contains(flowTable[hop[k]], <<hop[k - 1], hop[k + 1]>>)

\* What a relay remembers of a flood it holds back is the delay of the copy that
\* will be forwarded first; with nothing remembered, the flood has been forwarded.
RememberedDelayIsEarliest ==
    \A r \in Relay : \A s \in rreqTimeout[r] :
        LET held == {e \in pending : e.at = r /\ e.request.source = s}
        IN IF rreqDelays[r][s] = None
           THEN s \in sequenceTable[r]
           ELSE /\ \E e \in held : e.left = rreqDelays[r][s]
                /\ \A e \in held : e.left >= rreqDelays[r][s]

\* A node records the flood of a source only when the source has started one, and
\* a partner answers it once: the replies to s in flight and the route s already
\* has never add up to more than one.
OneReplyPerFlood ==
    \A s \in Client :
        Cardinality({m \in Replies : m.destination = s})
          + (IF routingIdTable[s][Partner[s]] # None THEN 1 ELSE 0)
            <= (IF s \in sequenceTable[Partner[s]] THEN 1 ELSE 0)

\* Routes are never withdrawn or changed once installed.
RoutesAreStable ==
    [][\A n \in Node, d \in Client :
         routingIdTable[n][d] # None =>
             routingIdTable'[n][d] = routingIdTable[n][d]]_vars

\* Without loss every flood ends with a route to the partner.
FloodsYieldRoutes ==
    \A s \in Client :
        s \in flooded ~> routingIdTable[s][Partner[s]] # None

\* "The RREQ already was received" (delay-forward.cc:1526): a relay forwards the
\* flood of a source at most once.
ForwardsFloodOnce == \A r \in Relay, s \in Client : forwards[r][s] <= 1
=============================================================================
