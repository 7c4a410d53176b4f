# Verification of the DF network-coding application and what it runs on

The repository is ns-3 with one addition: the DF (delay-forward) application in
`src/applications/model/delay-forward.{h,cc}` and its helper, driven by the
scripts in `scratch/`. Nodes of an ad-hoc Wi-Fi network look for routes by
flooding, hold a flood back where few flows would share a hop, and code packets
that cross at a relay into one broadcast. This directory models that application
first, then the parts of ns-3 around it that have concurrency of their own: the
simulator's event list, on which every timer of the application rests
(`core/model/default-simulator-impl.cc`), the parallel test driver (`test.py`)
and the two threads of the visualizer (`visualizer/visualizer/core.py`). The
rest of ns-3 appears only as the environment: a network that delays and loses
datagrams. Line numbers are those of `delay-forward.cc` unless a file is named.

## Inventory

| Component | State | Operations | Interacts with | Status |
|---|---|---|---|---|
| Relay queues | `m_waitingBuffer`, `m_codingQueue`, `m_codigTimeout`, `m_waitingForwardBuffer`, `m_forwardEvent` | DF_DATA at a relay 1674-1784, `EncodingData` 1204, `CodingData` 1068, `ForwardData` 1013, `CodingTimeoutExpired` 1339, `ForwardTimeoutExpired` 1396 | flow table (read), event list (schedule, cancel), sockets | modelled: `RelayQueue` |
| Route discovery | `m_sequenceTable`, `m_rreqTimeout`, `m_rreqDelays`, `m_routingIdTable`, `m_flowTable`, `m_bidirectionTable` | `SendRREQ` 598, `ForwardRREQ` 658, `DelayForwardRREQ` 725, `SendRREP` 814, `ForwardRREP` 873, RREQ and RREP in `HandleRead` 1496-1635 | messages between nodes, delay computation, event list | modelled: `RouteDiscovery` |
| Delay computation | K, alpha, number of nodes, dLimit | `GetDelayTime` 513 | route discovery | modelled: `DelayTime` |
| Message framing | `m_bufferedData` | the two `Send` calls of every sender, the loop of `HandleRead` 1432-1479, 1974-1977 | UDP sockets | modelled: `Framing` |
| Data plane of clients | `m_sequenceNumber`, `m_copiedRate`, `m_dataEvent`, counters | `SendData` 939, `ReadyToSendData` 363, DF_DATA and DF_CODING at a destination 1637-1966, getters 1989-2050 | relay queues of two relays, routes, the broadcast medium | partly: `DataPlane` (the getters are left out) |
| Life cycle | sockets, `m_dataEvent` | `StartApplication` 70, `StopApplication` 223, setters | all of the above | partly: stop in `DataPlane`, start as Init |
| Event list | `m_events`, `m_uid`, `m_currentTs`, `m_currentUid`, `m_unscheduledEvents`, `m_eventsWithContext`, its flag and mutex, `m_destroyEvents` | `Schedule*`, `Cancel`, `Remove`, `IsExpired`, `Run`, `ProcessOneEvent`, `ProcessEventsWithContext`, `Stop`, `Destroy`, `DoDispose` | every timer; a second thread that posts events | modelled: `EventCore` |
| Test driver | `input_queue`, `output_queue`, `thread_exit`, the job records | `worker_thread.run`, `run_job_synchronously`, dispatch, collection and join in `run_tests`, `sigint_hook` | processes of the tests | modelled: `TestRunner` |
| Visualizer | `go`, `quit`, `lock`, `target_time`, `pause_messages`, `_update_timeout_id` | `SimulationThread.run`, `update_model`, `update_view_timeout`, play, speed, `_quit` | event loop of GTK, `PyViz::SimulatorRunUntil` | modelled: `Visualizer` |
| Helper, scenario scripts | configuration | straight-line set-up | applications | not modelled |
| UDP, ARP, Wi-Fi, DSR, the rest of ns-3 | - | - | network | not modelled (upstream) |

What makes each of them correct, and what makes that hard:

* Relay queues. A packet leaves a relay once, alone or in one broadcast whose
  receivers can take the other packet out; nothing waits without a timer. The
  same facts are kept in four structures that four handlers update, timers
  outlive the packets they were armed for, and the timeout handler does not know
  which packet its timer was for.
* Route discovery. A route is complete, has no loop and agrees with the flow
  tables that decide about coding; a flood is answered once. Floods of both
  clients, copies over several ways, held copies whose events are never
  cancelled, replies and losses interleave, and a relay in delay mode records a
  flood only when it passes it on.
* Delays. A route with more coding is found first, and the hold-backs along a
  route stay below dLimit; halved odd counts, the jump at 2K and a small alpha
  are the edges.
* Framing. A lost datagram damages a bounded number of messages and never
  produces a wrong one.
* Data plane. End to end a packet is in one place: two relays code it with
  different packets, each neighbour receives or loses its own copy of a
  broadcast, a client counts what it overhears, and nodes stop while their
  queue timers go on.
* Event list. Events run once and in order; a handle says "expired" exactly when
  the event will not run, although nothing looks it up; events posted by another
  thread are neither lost nor counted twice, although a flag is read without the
  mutex that guards it.
* Test driver. Exit status 0 means that everything passed, even if an interrupt
  comes between any two steps of the workers; no job is lost; the driver ends.
* Visualizer. Messages are shown once, the model stays within one period of what the
  window shows, closing the window ends both threads. `update_view_timeout` runs the event loop again
  inside itself, so every other callback may run in the middle of it.

`PROJECT.json` lists the hazards line by line.

## Modules

| Module | What it is |
|---|---|
| `RelayQueue` | the queues and timers of one relay |
| `RelayPromise` | abstract specification of a relay: keep, send alone once, or send with a crossing packet |
| `Counting`, `OperatorTheorems` | occurrences in a sequence; lemmas about them and the theorems about `GetDelayTime` |
| `RelayQueueTheorems` | inductive invariant of `RelayQueue`, that packets leave once, the refinement of `RelayPromise`, and what a network sees of a relay |
| `MCRelayQueue` | instances of `RelayQueue` |
| `DelayTime` | `GetDelayTime` on exact fractions, and what its values promise |
| `RouteDiscovery`, `MCRouteDiscovery` | flooding, hold-back, replies and route tables of all nodes; two topologies |
| `RouteTheorems` | proofs of all safety properties of `RouteDiscovery`: requests, replies, routes, hold-back |
| `Framing` | the byte stream of one sender at one receiver |
| `LossyLink` | abstract specification of a stream: each message at most once, in order |
| `FramingTheorems` | exact and ordered delivery of the stream, proved |
| `DataPlane`, `MCDataPlane` | two clients, two instances of `RelayQueue`, the datagrams between them, and the stop of each node |
| `DataPlaneTheorems` | proofs of all properties of `DataPlane`, from what is proved of one relay |
| `EventCore` | the event list and its second thread |
| `EventOrder` | abstract specification of an event list: each event at most once, in order, under a clock that never goes back |
| `EventCoreTheorems` | inductive invariant of `EventCore`, and the refinement of `EventOrder` |
| `TestRunner`, `MCTestRunner`, `TestRunnerTheorems` | the test driver, an instance, and its proofs |
| `Visualizer`, `VisualizerTheorems` | the threads of the visualizer, and their proofs |

### RelayQueue and the code

One relay. A packet is what the handlers look at: its previous hop (`senderId`)
and its next hop (`m_routingIdTable[destinationId]`). `Receive(p)` is the whole
branch for a packet to forward, in DF_DATA or out of a coded broadcast; its three
disjuncts are the three ends of the nested conditions. `m_queueTime` is the delay
of both timers, so timers expire in the order in which they were armed and the
relay's part of the event list is the sequence `pending`. The handle stored in
`m_codigTimeout` is the name of the packet whose arrival armed the timer.
`Cancel` of a timer that ran or does not exist does nothing, as
`DefaultSimulatorImpl::Cancel` (through `IsExpired`) does. `InstallFlow` is the
part of `ForwardRREP` the queues depend on: an installed direction has a positive
entry in `m_bidirectionTable` because `SetBidiractional` counts the direction
itself.

The environment may deliver any packet at any time, before or after its flow is
installed. In the whole program a packet only follows an installed route
(`RoutesAreComplete`, `RelaysAreHandedFreshPackets`), so in delay mode the forward
buffer is hardly used; the queues are modelled and proved without that assumption.

`received`, `forwarded` and `coded` are history variables for the properties.
Statistics counters are left out: they are only written.

### DelayTime and the code

`GetDelayTime(s, bidir)` has every branch of the function. The code computes in
doubles; here a delay is an exact fraction `<<numerator, denominator>>`, and so is
alpha. `bidir` counts the flows of both directions and is halved by integer
division, as in the code. `CodingRouteComesFirst` and `RouteWithinLimit` state what
the values are for, and under which condition on alpha: below it the code does not
keep them.

### RouteDiscovery and the code

All nodes. A client floods once (`ReadyToSendData` schedules `SendRREQ` only while
it has no flow, and nothing repeats it), so `m_sequenceTable` is a set of sources
and the pair (source, destination) of the hold-back maps is the source. Time is
what is left until an event: `Tick` lets it pass when no event is due. Message
delays are arbitrary, which covers the medium access of Wi-Fi. `m_rreqDelays`
erased while `m_rreqTimeout` is kept is the value `None`, which no prediction is
below, as the zero that `operator[]` creates. Requests go to every neighbour but
the one they came from; the relay in delay mode writes the count for the hop pair
(previous, next) into each copy, in plain mode it leaves the member as it came. A
copy is held back for `GetDelayTime` of that count, in whole ticks of the model's clock.
`Simulator::Cancel` in `DelayForwardRREQ` (809) has no effect, since the stored
event is the one that runs or one that ran before.

### Framing and the code

The JSON text of a message and the delimiter are two datagrams. A text is the
number of its message, the buffer is the sequence of texts since the last
delimiter, and a piece parses exactly when it is one text. The stream keeps the
order of datagrams (one socket, one address, one hop) and loses any of them.

### DataPlane and the code

The route n0 - r1 - r2 - n1 in both directions. The relays are two instances of
`RelayQueue`, with the hops of each packet before and after that relay; what they
newly forwarded or coded in a step is what goes on the air. A data message
goes to the next hop only, a coded one to every neighbour, and each copy arrives or
is lost by itself. `ForReceiver` is the test of `nextId` a relay makes; a client
(`CountOwn`) looks at the destination only. When `overhears` holds, n0 is in reach
of r2 too: the direct copies of the flood were lost, and the route is the same.
`SendData` is a whole burst of `m_rate` packets and arms `m_dataEvent` again.
`StopApplication` cancels `m_dataEvent` and closes the sockets: what a stopped relay
still sends goes nowhere, what arrives is not read, its queue timers run on. A group
of nodes that a script stops at one instant stops in one step.

### EventCore and the code

A key is a time and a number. The main thread is in `Run` (the test of its loop, a
handler, or one of the three points inside `ProcessEventsWithContext` between which
the other thread can act), in `Destroy`, or in user code. `DoDispose` goes through the same
three points once more, so it too may miss an event that is being posted, and then drops
the list. User code is any sequence
of `Schedule`, `Cancel`, `Remove`, `Stop` and `ScheduleDestroy`, outside `Run`, in a
handler or in a handler of `Destroy`. The other thread pushes and clears the flag
in two steps under the mutex. The scheduler behind `m_events` is a set with a least
element. `IsExpired` compares keys and looks at the mark of the event, as the code
does; that this is right is a property, not a definition.

### TestRunner and the code

Queues are sequences, a worker is at one of five points. `Check` is the body of the
loop in `worker_thread.run` from the look at `thread_exit` to the start of the process,
`Launch` and `Finish` are the two ends of `run_job_synchronously`. A process ends
with any exit status; its output may not decode (line 805 of `test.py`), and then 1
replaces the status. `Collect` is one iteration over the results: it counts the
status, and copies the results file of a suite whose status is 0, 1 or 2, which
raises when there is no file. `outcome`, `file` and `decoded` are what really happened,
for the properties. The comment in `run_tests` says "If the return code is 0, 1, or
2, we have a valid xml file"; that holds but for output that did not decode, and
`CopiedFilesAreWhole` says so.

### Visualizer and the code

`simPc` follows `SimulationThread.run`. The main thread dispatches one callback at a
time; `frames` is the stack of calls of `update_view_timeout` that wait in the inner
event loop. GLib does not call a timer again that is being called, but another timer
may fire, so the stack can be deeper than one. `idle` counts the callbacks
`update_model` that wait; they come before timers (their priority) and block on
the lock. While `update_view_timeout` holds the lock it takes the messages
(`TakeMessages`), replaces the list, draws the view, reads the clock, writes the target and
releases the lock, one action each, so that a step of the simulation thread between any
two of them is a behaviour unless the lock forbids it. `FinishUpdate` is the rest of the
function after the lock is released.

`SimulatorRunUntil` is what `pyviz.cc` does with the event list, not a jump to the target.
`SimEnter` clears the messages and, if the target is ahead, schedules
`CallbackStopSimulation` for it. Then events run in the order of their times:
`ProgramEvent` is one of the program, which may push a message (several of them in one
run; the flag that `DoPause` sets beside it is read nowhere) or stop the simulator;
`StopCallback` is the callback, which schedules `Simulator::Stop` behind itself if
`m_runUntil` has come; `StopEvent` is that `Simulator::Stop`. A run that the program ended
leaves its callback in the list, where a later run meets it, and two callbacks of the same
time leave a `Simulator::Stop` that ends the next run before the clock moves. Time is in
ticks; the conversion of the target to seconds in floating point and back is not modelled.
The other
callbacks that take the lock (tooltips, dragging, nodes of interest) take and release
it in one piece, as `update_model` does, and are left out.

## Runs

| Run | Instance | Shows |
|---|---|---|
| `relay_queue` | 3 neighbours, 6 packets: a and b exchange two each way, a and c one each way | all safety properties of the relay, and that it implements `RelayPromise` |
| `relay_liveness` | the same without network coding (`m_IsDfMode` false, the mode in which the forward buffer is used) | the forward buffer drains |
| `relay_stranded` | 2 neighbours, 2 packets each way | violation: a waiting packet outlives its timeout |
| `relay_one_way` | the same | violation: a packet waits for a flow that does not exist |
| `route_diamond` | clients n0, n1; relays r1, r2, neighbours of each other, flows of an earlier pair on r1; K = 1; loss; both modes | types, replies, complete and stable routes, one answer, hold-back within its limit; `GetDelayTime` over 98 settings |
| `route_shared` | clients n0, n1; ways r1-r2-r4 and r1-r3-r4, flows of an earlier pair on r2; K = 2; no loss; both modes | no request runs in a circle; the remembered delay is the earliest where copies of one flood have different delays; every flood yields a route |
| `route_twice` | as `route_shared`, with loss | violation: a relay forwards a flood twice |
| `framing` | 5 messages | exactly the undamaged messages, in order |
| `data_plane` | 2 packets each way, bursts of 1; r1 may stop early, then all nodes together; with and without overhearing | relays are handed each packet once, packets are in one place end to end, coded packets can be decoded, stopped clients are silent, timers run down |
| `event_core` | 4 events, delays 0 and 1 | counts, handles and the flag are right; `EventOrder` is implemented |
| `test_runner` | 2 workers; two suites, a skipped suite, an example; output of one suite may not decode | no job lost, no false success, at most one late launch, files, the run ends |
| `visualizer` | periods 1 and 2, gaps of at most a tick between events, 2 messages, 3 firings, 4 user actions | messages, the model within one period of the view, the one cause of a second timer, quitting ends both threads |

The type invariants of `EventCore`, `TestRunner` and `Visualizer` are proved and not part
of their runs.

Bounds and why they are enough. A waiting packet can only meet packets of its own
and of the opposite direction, so two packets each way on one pair reach every
overtaking of timers (armed twice, overwritten, cancelled, leaked); the third
neighbour adds a second pair of directions in the same coding queue, so that the
head of the queue and the packet whose timer expires differ in direction too. Two
relays that hear each other are the smallest network in which copies of a flood
compete for both clients; the second topology has a circle of relays, and is the
smallest in which a later copy has the shorter delay, for which one relay needs
installed flows. The settings of the delays cover alpha zero, below, at and above
one, every K up to 3 and up to 7 nodes, so both sides of every comparison of
`GetDelayTime`. Five messages cover a lost delimiter followed by a lost text
followed by intact messages. Two packets each way over two relays are the least with
which a packet is coded with different partners at the two. Four events are the
least for one that runs, one cancelled or removed in its handler at the same time,
one posted in between and one posted after the look at the flag. Two workers and
four jobs let one worker be between its look at `thread_exit` and the launch
while the other throws jobs back. Three firings and four user actions are the least
with which the second timer of the visualizer arises (start, call, pause and change
of speed inside it, start again) and then fires. Two messages fit in one run or in two; three firings and two periods
also give a callback left over by a run that the program ended, with a later target at the
same time, before it or after it. Every counter is bounded by the
constants named `Max...`, or by the number of packets, floods or jobs; no state
constraint is used. Deadlock is not checked because every instance comes to rest:
all packets sent, all floods over, the list destroyed, the run returned, both threads
ended.

Fairness. `Simulator::Run` executes every event unless it is cancelled, so the
relay's timers (`TimerExpires`), held requests, the passing of time and, without
loss, the arrival of datagrams are weakly fair. Nothing is assumed about arrivals
of data or the start of a flood. In `TestRunner` the main thread and each worker
are scheduled and every process that is launched ends; the interrupt is not fair. In
`Visualizer` both threads are scheduled, and with the simulation thread the events of its
run, of which only finitely many fall on one time; that a run ends follows. The user and
the timers are not fair. `DataPlane` and `EventCore` state safety only; that left-over
timers end is stated there as an action property with a decreasing measure, which needs
no fairness.

## Where code and comments disagree

* `relay_stranded`: `m_codigTimeout` has one handle per direction. A second packet
  that arrives within the queue time overwrites it (1745, 1287); the timeout of the
  first then cancels the timer of the second (1378), which waits until other
  traffic takes it along.
* `relay_one_way`: `HasNetworkCoding` (566) asks for a positive count, and the count
  includes the flow itself (465-470). Packets of a one-way flow always wait.
* `route_twice`: a better copy schedules a second event and leaves the first in
  the list (1564); both forward the flood.

Two more observations are stated as the exact condition of a property. In the
visualizer, pausing and changing the speed inside the inner loop of
`update_view_timeout` lets that call clear the id of the timer that the speed control
started; the next play starts a second one, and both stay (`OneUpdateTimer`). In the test
driver, output that does not decode hides the status of a crash (`CopiedFilesAreWhole`).
The data plane counts a packet twice at a client that overhears the relay before its last hop
(`CountsTwiceOnlyIfOverheard`).

## Proofs

All theorems hold for every value of the constants that satisfies the named
assumption of the module. Every invariant and every action property of the passing runs
is stated by a theorem, and so is each refinement.

`RelayQueueTheorems`, for every set of neighbours and packets and both modes, from
`PacketAssumption` (hops are nodes, a packet does not go back where it came from) and
`TimerAssumption` (names of timers differ): `RelayTypeOK`,
`RelayNeverBothDirections`, `RelayQueueMatchesBuffer`, `RelayForwardBufferHasTimer`, each
`Spec => []...`, from `RelayInvariant`.

The inductive invariant `IInv` adds `BufferHoldsItsDirection` to the four. It is
needed because `NeverBothDirections` and `QueueMatchesBuffer` support each other:
the timeout handler derives the direction from the packet it takes and erases the
entry of the opposite direction; that keeps the counts right only while that
entry is empty and the packet was in the buffer of its own direction. There is one
lemma per way an action can end, and one step per conjunct in it.

The second part of the module builds on it: `RelayExactlyOnce`, `RelayDecodableByNextHops`, and
`RelayKeepsPromise`, the refinement of `RelayPromise`. The argument has two halves.
`StepEffects` looks at queues and timers, and only it does: seen through the copies of
packets that wait, every step is one of four (a packet starts to wait, a packet
arrives and leaves with a waiting one, a waiting packet leaves alone, nothing moves).
It uses `IInv` where a handler takes the head of a queue: `HeadDirection` says that
the buffer the timeout handler takes from is not empty and the entry it erases for
the opposite direction is. The second half counts. The invariant `OnceInv` adds to
the two properties that `coded` is finite, which `Cardinality` needs, and
`WaitsOnInstalledFlow`, which makes the flow of the waiting packet known and not
only that of the one that arrives. The four effects map one to one to the actions of
`RelayPromise`; `ExactlyOnce` is what shows that a packet the relay was not handed
yet is new there, and that a packet which leaves is no longer held. Its last
section (`RelayInv`, `ReceiveSeen`, `TimerSeen`, `TimerRunsDown`) states a step of the relay by
what others can see: what it has received, holds, sent alone and coded.

`OperatorTheorems` has what several components need: how `Count` changes when a
sequence grows at its end or loses an element, and the arithmetic of `GetDelayTime`.
`Power` is a recursive function, and that it unfolds as written has to be shown by
induction; the library's induction theorems take an operator, so `SetInduction` states
induction for a set, from the well-foundedness of the natural numbers. `PowersExist`
gives the functions on 0..n, `PowersAgree` that they extend each other, `PowerUnfolds`
the recursion. From it, for every K, alpha, number of nodes and dLimit,
`DelayRouteWithinLimit` (each hop takes at most its share of dLimit) and
`DelayCodingRouteComesFirst` (a whole route of hops with one more pair of flows is held
back for less than one hop with fewer).

`EventCoreTheorems`, from `EventCoreAssumption` (delays and the bound are natural
numbers): `EventCoreTypeOK`, `EventCoreCountIsExact`, `EventCoreHandlesAreExact`,
`EventCoreFlagMissesNothing` and the refinement `EventCoreKeepsOrder`. Two
strengthenings carry it. Every event in the list lies ahead of the clock in the order
of times and numbers, so that its handle is unexpired unless it was cancelled, and
a key is never reused. Every handle that is no longer in the list is expired, because its
event ran, and then lies at or before the clock, or was removed, and then carries
the mark. The steps map to `EventOrder` by what they do to the events that will
still run: scheduling and taking over posted events is `Add`, cancelling,
removing and the end of the list `Drop`, a handler `RunNext`, and an event that was
cancelled lets the clock `Pass`.

`TestRunnerTheorems`, for any finite set of workers, any number of tests and any sets
of examples, skipped tests and undecodable outputs: `TestRunnerTypeOK`,
`TestRunnerSuccess`, `TestRunnerInterrupt`, `TestRunnerCopies`, `TestRunnerNoJobLost`.
`OnePlace` follows a job through the queues and workers: it is in one place at most,
so it is started and collected once. `GoodAreCounted` says that the tally of passed and skipped tests is the
number of collected jobs that were not thrown back and are good; when it equals the
number of jobs, all of them are, and `RunsAreRecorded` turns that into what the
processes did. `NoJobLost` counts: a job that one place gives up is one that another
takes; the jobs of the input queue are all of it but its break jobs, so a
worker that takes a break job takes none.

`VisualizerTheorems`, for any periods and any number of firings and actions:
`VisualizerTypeOK` (with the places where each thread holds the lock),
`VisualizerMessages`, `VisualizerModelTime`, `VisualizerOneTimer`. The messages are kept
in order because the list is read and replaced by the main thread under the lock,
so that what it took is still what the list holds (`TakenIsCurrent`). The time of the
model needs two facts. No callback is in the past, and a run has one at its target or the
`Simulator::Stop` that follows it (`RunHasAnEnd`), so the clock cannot pass the target; this
covers the callbacks of earlier runs. And the clock still is what was drawn and what
was read when the target is written (`ClockStandsStill`), because the thread that moves it
holds the lock while it does.
`TimerIsKnown` strengthens the property about timers: unless an id was cleared
while its timer lived, the only timer is the one the view knows.

`FramingTheorems`, for any number of messages and any losses, from `FramingAssumption`
(the delimiter is no text): `FramingDeliversExactly` and the refinement
`FramingDeliversInOrder` of `LossyLink`. Seen one after the other, the texts delivered,
buffered and on their way increase, and losing or moving one keeps that
(`InOrder`). The buffer is what arrived since the last delimiter (`BufferIsSuffix`),
which is what makes a buffer of one text the same as a text that arrived alone.

`RouteTheorems`, for every set of relays and clients, symmetric neighbourhoods,
settings of the delay, both modes, with or without loss, from `TopologyAssumption`.
Three inductive invariants, one on top of the other:

* `RequestsAreSound` and `RepliesAreFew` (`RouteRequestsCarrySimplePaths`,
  `RouteOneReplyPerFlood`). A relay in delay mode records a flood only when its
  event runs, so between its first copy and that event it takes further copies. None
  of them has been through it, because every relay on the path of a request has
  recorded the flood before the longer path was on the air; the same holds for the
  copies that wait, also if the relay has passed on another one meanwhile. A flood
  is answered once because the partner records it with its answer and never forgets
  it, and because a relay that passes a reply on takes the old one off the air.
* `TrailInv` (`RouteTypeOK`, `RouteRepliesKnowTheWayBack`, `RouteRoutesAreComplete`,
  `RouteRoutesAreStable`). The one reply of a flood lies on a trail from the client
  that asked to its partner; exactly the nodes on the partner's side of it have
  installed the flow, each with the next node of the trail as next hop. So a reply
  is never at the end of its path at a relay, and a relay that gets a reply had no
  hop for that flow.
* `HoldInv` (`RouteRememberedDelayIsEarliest`, `RouteHoldBackWithinLimit`). Events
  of a relay for one flood are those the remembered delay belongs to and those left
  from copies that were replaced, which all come later. `Patient` gives each relay
  on a path its share of dLimit. The limit needs `SettingFits`: alpha zero or alpha
  (nodes - 1) at least one, and no more relays than the setting's nodes less two.
  The scripts satisfy it: `scratch/final.cc:1018` passes the number of all nodes,
  clients included, and alpha is a half unless a parameter says otherwise.
  `RouteDelaysFavourCoding` needs no hypothesis, since the property names its
  conditions.

`DataPlaneTheorems`, for any number of packets, bursts of any size, any groups of
nodes that stop together, with and without overhearing and network coding, from
`DataPlaneAssumption` (four different nodes, a burst is not empty, names of timers
differ). Both relays are instances of `RelayQueueTheorems`, so a step of the network
is first reduced to seven effects on packets (`StepEffects`): a client sends a
burst, a datagram vanishes, a client counts one, a relay takes a packet in (and
keeps it or sends it with one it held), lets one go, or nothing moves. `PathInv` is
inductive. `DataPacketInOnePlace` needs its other parts: that every datagram carries
what its sender let go (`DatagramsAreSound`), that a relay has received only what
the hop before it sent (`HopsAreInOrder`), and that what is on its way to a relay is
new there (`FreshAtRelays`). They support each other: freshness of a datagram holds
because its sender still held the packet, so that the next hop cannot have had it;
and a relay that codes a packet finds its own copy the only one (`OnlyPlace`).
`EventsInOrder` adds routes and events (`DataRelaysAreHandedFreshPackets`,
`DataStoppedClientsSendNothing`, `DataTimersRunDown`), `OverheardOnce` the copies
that n0 overhears (`DataCountsTwiceOnlyIfOverheard`). `DataReceiverKnowsTheOther`
follows from the order of the hops. `DataRelaysKeepTheirPromise` composes: each
relay of the network behaves as a relay by itself, so it implements `RelayPromise`.

Only model-checked: the liveness properties `ForwardBufferDrains`,
`FloodsYieldRoutes`, `RunEnds` and `QuitEnds`, because fairness and ENABLED are out
of the prover's reach. The violations are counterexamples of TLC. The instance of
`route_diamond`, which checks the hold-back, satisfies `SettingFits`.

## Not modelled

* `GetLatency` and `GetThroughput`: sequential arithmetic on what was counted. Their
  results depend on the number of calls; one read of the code shows it.
* The start of data at second 68: before it `SendData` schedules itself only.
* The helper and the scenario scripts: straight-line set-up.
* Upstream ns-3 (UDP, ARP, Wi-Fi, DSR and the other models): not changed for DF, and
  far larger than the application. It makes up nearly all of the repository's
  lines, most of them generated Python bindings, so the share of the repository that
  the map covers stays small.
* Drawing and tool tips of the visualizer; options, lists of tests and the translation
  of results in `test.py`: sequential text processing.

## Plan

What could follow: the safety parts of the liveness properties as theorems (what
`DataTimersRunDown` is for the data plane: a measure that every step of the driver, of the
visualizer's quitting and of a flood takes down); an abstract specification of
the whole data plane, a bag of packets on their way with losses, and its refinement by
`DataPlane`; more than two relays on the route.
