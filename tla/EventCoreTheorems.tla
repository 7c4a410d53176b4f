------------------------- MODULE EventCoreTheorems -------------------------
(***************************************************************************)
(* The event list keeps its counts and handles right and runs events in    *)
(* order, for any delays and any number of events.                         *)
(*                                                                         *)
(* Everything rests on one fact about the list: whatever waits in it comes *)
(* after the event that runs (InTheFuture), and a handle whose event has   *)
(* left the list is seen as expired (GoneIsExpired).  The first makes the  *)
(* comparison of keys in IsExpired exact; the second makes Remove find its *)
(* event, so that the count stays exact.                                   *)
(***************************************************************************)
EXTENDS EventCore, OperatorTheorems

\* What is created, now or when posted events are taken, stays within the bound.
WithinBound == uid + Len(eventsWithContext) + Len(taken) <= FirstUid + MaxEvents

\* Numbers are handed out in order.
NumbersAreUsed ==
    /\ \A e \in events : e.uid \in FirstUid..uid - 1
    /\ ran \in Seq(Key)
    /\ \A i \in DOMAIN ran : ran[i].uid < uid

\* What waits comes after the event that runs.
InTheFuture ==
    \A e \in events : e.ts > currentTs \/ (e.ts = currentTs /\ e.uid > currentUid)

\* A handle whose event has left the list is expired.
GoneIsExpired == pc # "destroyed" => \A id \in issued \ events : IsExpired(id)

\* The count of the list, which is finite.
CountIsExact == IsFiniteSet(events) /\ UnscheduledEventsIsExact

\* The critical section of ProcessEventsWithContext, and what the flag says.
CriticalSection ==
    /\ pc \in {"reset", "lastReset"} <=> mutex = "main"
    /\ mutex = "main" => eventsWithContext = <<>>
    /\ mutex # "other" /\ eventsWithContextEmpty => eventsWithContext = <<>>

IInv ==
    /\ TypeOK
    /\ WithinBound
    /\ NumbersAreUsed
    /\ InTheFuture
    /\ GoneIsExpired
    /\ CountIsExact
    /\ CriticalSection

-----------------------------------------------------------------------------
(* Lemmas. *)

\* An unexpired handle names an event of the list.
LEMMA UnexpiredWaits ==
    ASSUME IInv, UserCode, NEW id \in issued, ~ IsExpired(id)
    PROVE  id \in events
BY DEF IInv, GoneIsExpired, UserCode

\* The numbers of what ran stay below any later number.
LEMMA RanStaysBelow ==
    ASSUME IInv, NEW n \in Nat
    PROVE  \A i \in DOMAIN ran : ran[i].uid < uid + n
<1> TAKE i \in DOMAIN ran
<1>1. ran[i] \in Key /\ ran[i].uid < uid
  BY LenProperties, ElementOfSeq DEF IInv, NumbersAreUsed
<1>2. ran[i].uid \in Nat /\ uid \in Nat
  BY <1>1, EventCoreAssumption DEF IInv, TypeOK, Key, FirstUid
<1> QED
  BY <1>1, <1>2

\* What was posted gets numbers of its own and times that are not over.
LEMMA PostedKeys ==
    ASSUME IInv, NEW i \in DOMAIN taken
    PROVE  /\ PostedKey(i) \in Key
           /\ PostedKey(i).ts >= currentTs
           /\ PostedKey(i).uid = uid + i - 1
           /\ i \in Nat \ {0} /\ i <= Len(taken)
<1>1. taken \in Seq(Delays) /\ Len(taken) \in Nat /\ DOMAIN taken = 1..Len(taken)
  BY LenProperties DEF IInv, TypeOK
<1>2. i \in 1..Len(taken) /\ taken[i] \in Nat
  BY <1>1, ElementOfSeq, EventCoreAssumption
<1>3. uid \in Nat /\ currentTs \in Nat
  BY EventCoreAssumption DEF IInv, TypeOK, FirstUid
<1> QED
  BY <1>1, <1>2, <1>3 DEF PostedKey, Key

\* Taking over what was posted adds as many events as there are in the queue.
LEMMA PostedAreCounted ==
    ASSUME IInv
    PROVE  LET new == {PostedKey(i) : i \in DOMAIN taken} IN
           /\ IsFiniteSet(events \cup new)
           /\ Cardinality(events \cup new) = Cardinality(events) + Len(taken)
<1> DEFINE new == {PostedKey(i) : i \in DOMAIN taken}
           f == [i \in 1..Len(taken) |-> PostedKey(i)]
<1>1. Len(taken) \in Nat /\ DOMAIN taken = 1..Len(taken)
  BY LenProperties DEF IInv, TypeOK
<1>2. uid \in Nat
  BY EventCoreAssumption DEF IInv, TypeOK, FirstUid
<1>3. f \in Bijection(1..Len(taken), new)
  <2>1. f \in [1..Len(taken) -> new]
    BY <1>1
  <2>2. \A i, j \in 1..Len(taken) : f[i] = f[j] => i = j
    BY <1>1, <1>2, PostedKeys
  <2>3. \A k \in new : \E i \in 1..Len(taken) : f[i] = k
    BY <1>1
  <2> QED
    BY <2>1, <2>2, <2>3 DEF Bijection, Injection, Surjection, IsInjective
<1>4. IsFiniteSet(1..Len(taken)) /\ Cardinality(1..Len(taken)) = Len(taken)
  <2> DEFINE n == Len(taken)
  <2>1. n \in Nat
    BY <1>1
  <2> HIDE DEF n
  <2>2. IsFiniteSet(1..n) /\ Cardinality(1..n) = IF 1 > n THEN 0 ELSE n - 1 + 1
    BY <2>1, FS_Interval
  <2>3. Cardinality(1..n) = n
    BY <2>1, <2>2
  <2> QED
    BY <2>2, <2>3 DEF n
<1>5. IsFiniteSet(new) /\ Cardinality(new) = Len(taken)
  <2>1. ExistsBijection(1..Len(taken), new)
    BY <1>3 DEF ExistsBijection
  <2> HIDE DEF new, f
  <2> QED
    BY <2>1, <1>4, FS_Bijection
<1>6. events \cap new = {}
  <2>1. \A k \in new : k.uid >= uid
    BY <1>2, PostedKeys
  <2>2. \A e \in events : e.uid < uid
    BY <1>2 DEF IInv, NumbersAreUsed, FirstUid
  <2>3. \A k \in new : k.uid \in Nat
    BY <1>2, PostedKeys
  <2>4. \A e \in events : e.uid \in Nat
    BY DEF IInv, TypeOK, Key
  <2> QED
    BY <1>2, <2>1, <2>2, <2>3, <2>4
<1>7. IsFiniteSet(events) /\ Cardinality(events) \in Nat
  BY FS_CardinalityType DEF IInv, CountIsExact
<1> HIDE DEF new
<1>8. Cardinality(events \cap new) = 0
  BY <1>6, FS_EmptySet
<1>9. /\ IsFiniteSet(events \cup new)
      /\ Cardinality(events \cup new) =
            Cardinality(events) + Cardinality(new) - Cardinality(events \cap new)
  BY <1>5, <1>7, FS_Union
<1>10. Cardinality(events \cup new) = Cardinality(events) + Len(taken)
  BY <1>1, <1>5, <1>7, <1>8, <1>9
<1> QED
  BY <1>9, <1>10 DEF new
-----------------------------------------------------------------------------
(* The invariant holds initially, and every step preserves it. *)

LEMMA InitInvariant == Init => IInv
<1> SUFFICES ASSUME Init PROVE IInv
  OBVIOUS
<1>1. TypeOK
  <2>1. <<>> \in Seq(Delays) /\ <<>> \in Seq(FirstUid..uid - 1)
    OBVIOUS
  <2>2. uid \in FirstUid..FirstUid + MaxEvents /\ currentTs \in Nat /\ currentUid \in 0..uid - 1
    BY EventCoreAssumption DEF Init, FirstUid
  <2> QED
    BY <2>1, <2>2 DEF Init, TypeOK
<1>2. WithinBound
  BY EventCoreAssumption DEF Init, WithinBound, FirstUid
<1>3. NumbersAreUsed /\ InTheFuture /\ GoneIsExpired /\ CriticalSection
  BY DEF Init, NumbersAreUsed, InTheFuture, GoneIsExpired, CriticalSection
<1>4. CountIsExact
  BY FS_EmptySet DEF Init, CountIsExact, UnscheduledEventsIsExact
<1> QED
  BY <1>1, <1>2, <1>3, <1>4 DEF IInv

\* A step that leaves the list, the clock and the handles alone.
LEMMA ListUntouched ==
    ASSUME IInv, pc = "destroyed" => pc' = "destroyed",
           UNCHANGED <<list, clock, cancelled, issued, ran>>
    PROVE  NumbersAreUsed' /\ InTheFuture' /\ GoneIsExpired' /\ CountIsExact'
<1>1. UNCHANGED <<events, uid, unscheduledEvents, currentTs, currentUid>>
  BY DEF list, clock
<1>2. NumbersAreUsed' /\ InTheFuture'
  BY <1>1 DEF IInv, NumbersAreUsed, InTheFuture
<1>3. GoneIsExpired'
  BY <1>1 DEF IInv, GoneIsExpired, IsExpired
<1>4. CountIsExact'
  BY <1>1 DEF IInv, CountIsExact, UnscheduledEventsIsExact
<1> QED
  BY <1>2, <1>3, <1>4

\* A new event gets a number above all others and a time that is not over.
LEMMA ScheduleStep ==
    ASSUME IInv, NEW delay \in Delays, Schedule(delay)
    PROVE  IInv'
<1> DEFINE k == NewKey(delay)
<1>1. /\ k \in Key /\ k.uid = uid /\ k.ts >= currentTs
      /\ uid \in Nat /\ currentTs \in Nat /\ currentUid \in 0..uid - 1
  BY EventCoreAssumption DEF IInv, TypeOK, NewKey, Key, FirstUid
<1>2. /\ events' = events \cup {k} /\ issued' = issued \cup {k} /\ uid' = uid + 1
      /\ unscheduledEvents' = unscheduledEvents + 1
      /\ UNCHANGED <<pc, clock, stop, cancelled, posted, destroyEvents, ran>>
      /\ UserCode /\ MayCreate
  BY DEF Schedule
<1> HIDE DEF k
<1>3. TypeOK'
  BY <1>1, <1>2, EventCoreAssumption DEF IInv, TypeOK, MayCreate, clock, posted, FirstUid
<1>4. WithinBound'
  BY <1>2, EventCoreAssumption DEF IInv, TypeOK, WithinBound, MayCreate, posted, FirstUid
<1>5. NumbersAreUsed'
  <2>1. \A e \in events : e.uid \in FirstUid..uid
    BY <1>1 DEF IInv, NumbersAreUsed, FirstUid
  <2>2. \A i \in DOMAIN ran : ran[i].uid < uid + 1
    BY RanStaysBelow
  <2>3. k.uid \in FirstUid..uid
    BY <1>1 DEF IInv, TypeOK, FirstUid
  <2> QED
    BY <1>1, <1>2, <2>1, <2>2, <2>3 DEF IInv, NumbersAreUsed
<1>6. InTheFuture'
  BY <1>1, <1>2 DEF IInv, InTheFuture, Key, clock
<1>7. GoneIsExpired'
  BY <1>2 DEF IInv, GoneIsExpired, IsExpired, clock
<1>8. CountIsExact'
  <2>1. k \notin events
    BY <1>1 DEF IInv, NumbersAreUsed, FirstUid
  <2> QED
    BY <1>2, <2>1, FS_AddElement
    DEF IInv, CountIsExact, UnscheduledEventsIsExact, UserCode
<1>9. CriticalSection'
  BY <1>2 DEF IInv, CriticalSection, posted
<1> QED
  BY <1>3, <1>4, <1>5, <1>6, <1>7, <1>8, <1>9 DEF IInv

\* An event that is cancelled stays in the list; its handle names one of them.
LEMMA CancelStep ==
    ASSUME IInv, NEW id \in issued, Cancel(id)
    PROVE  IInv'
<1>1. id \in events
  BY UnexpiredWaits DEF Cancel
<1>2. TypeOK' /\ WithinBound'
  BY <1>1 DEF IInv, TypeOK, WithinBound, NumbersAreUsed, Cancel, list, clock, posted
<1>3. NumbersAreUsed' /\ InTheFuture' /\ CountIsExact' /\ CriticalSection'
  BY DEF IInv, NumbersAreUsed, InTheFuture, CountIsExact, UnscheduledEventsIsExact,
         CriticalSection, Cancel, list, clock, posted
<1>4. GoneIsExpired'
  BY DEF IInv, GoneIsExpired, IsExpired, Cancel, list, clock
<1> QED
  BY <1>2, <1>3, <1>4 DEF IInv

\* Remove finds its event in the list, so that one less is counted.
LEMMA RemoveEventStep ==
    ASSUME IInv, NEW id \in issued, RemoveEvent(id)
    PROVE  IInv'
<1>1. id \in events
  BY UnexpiredWaits DEF RemoveEvent
<1>2. TypeOK' /\ WithinBound'
  BY <1>1 DEF IInv, TypeOK, WithinBound, NumbersAreUsed, RemoveEvent, clock, posted
<1>3. NumbersAreUsed' /\ InTheFuture' /\ CriticalSection'
  BY DEF IInv, NumbersAreUsed, InTheFuture, CriticalSection, RemoveEvent, clock, posted
<1>4. GoneIsExpired'
  BY DEF IInv, GoneIsExpired, IsExpired, RemoveEvent, clock
<1>5. CountIsExact'
  BY <1>1, FS_RemoveElement
  DEF IInv, CountIsExact, UnscheduledEventsIsExact, RemoveEvent, CountRemoved, UserCode
<1> QED
  BY <1>2, <1>3, <1>4, <1>5 DEF IInv

\* Posted events enter the list with new numbers and times that are not over.
LEMMA TakePostedStep ==
    ASSUME IInv,
           TakePosted("reset", "loop") \/ TakePosted("lastReset", "drop")
    PROVE  IInv'
<1> DEFINE new == {PostedKey(i) : i \in DOMAIN taken}
<1>1. /\ events' = events \cup new
      /\ uid' = uid + Len(taken)
      /\ unscheduledEvents' = unscheduledEvents + Len(taken)
      /\ eventsWithContextEmpty' = TRUE /\ mutex' = "free" /\ taken' = <<>>
      /\ pc \in {"reset", "lastReset"} /\ pc' \in {"loop", "drop"}
      /\ UNCHANGED <<clock, stop, cancelled, eventsWithContext, destroyEvents, issued, ran>>
  BY DEF TakePosted
<1>2. /\ uid \in Nat /\ Len(taken) \in Nat /\ Len(eventsWithContext) \in Nat
      /\ currentTs \in Nat /\ currentUid \in 0..uid - 1
  BY LenProperties, EventCoreAssumption DEF IInv, TypeOK, FirstUid
<1>3. \A e \in new : e \in Key /\ e.ts >= currentTs /\ e.uid \in uid..uid + Len(taken) - 1
  <2> SUFFICES ASSUME NEW i \in DOMAIN taken
               PROVE  /\ PostedKey(i) \in Key /\ PostedKey(i).ts >= currentTs
                      /\ PostedKey(i).uid \in uid..uid + Len(taken) - 1
    OBVIOUS
  <2> QED
    BY <1>2, PostedKeys
<1>4. CountIsExact'
  <2>1. IsFiniteSet(events \cup new)
        /\ Cardinality(events \cup new) = Cardinality(events) + Len(taken)
    BY PostedAreCounted
  <2>2. unscheduledEvents = Cardinality(events)
    BY <1>1 DEF IInv, CountIsExact, UnscheduledEventsIsExact
  <2> HIDE DEF new
  <2> QED
    BY <1>1, <2>1, <2>2 DEF CountIsExact, UnscheduledEventsIsExact
<1> HIDE DEF new
<1>5. TypeOK'
  <2>1. uid' \in FirstUid..FirstUid + MaxEvents
    BY <1>1, <1>2, EventCoreAssumption DEF IInv, WithinBound, TypeOK, FirstUid
  <2>2. events' \subseteq Key /\ issued' \subseteq Key
    BY <1>1, <1>3 DEF IInv, TypeOK
  <2>3. cancelled' \subseteq FirstUid..uid' - 1 /\ destroyEvents' \in Seq(FirstUid..uid' - 1)
    BY <1>1, <1>2 DEF IInv, TypeOK, FirstUid
  <2>4. currentTs' \in Nat /\ currentUid' \in 0..uid' - 1
    BY <1>1, <1>2 DEF clock
  <2> QED
    BY <1>1, <2>1, <2>2, <2>3, <2>4 DEF IInv, TypeOK
<1>6. WithinBound'
  BY <1>1, <1>2 DEF IInv, WithinBound
<1>7. NumbersAreUsed'
  <2>1. \A e \in events \cup new : e.uid \in FirstUid..uid + Len(taken) - 1
    BY <1>2, <1>3 DEF IInv, TypeOK, NumbersAreUsed, FirstUid
  <2>2. \A i \in DOMAIN ran : ran[i].uid < uid + Len(taken)
    BY <1>2, RanStaysBelow
  <2>3. \A e \in events' : e.uid \in FirstUid..uid' - 1
    <3> SUFFICES ASSUME NEW e \in events'
                 PROVE  e.uid \in FirstUid..uid' - 1
      OBVIOUS
    <3>1. e \in events \cup new
      BY <1>1
    <3>2. e.uid \in FirstUid..uid + Len(taken) - 1
      BY <2>1, <3>1
    <3>3. uid' = uid + Len(taken)
      BY <1>1
    <3> QED
      BY <1>2, <3>2, <3>3 DEF FirstUid
  <2>4. ran' \in Seq(Key) /\ \A i \in DOMAIN ran' : ran'[i].uid < uid'
    BY <1>1, <2>2 DEF IInv, NumbersAreUsed
  <2> QED
    BY <2>3, <2>4 DEF NumbersAreUsed
<1>8. InTheFuture'
  BY <1>1, <1>2, <1>3 DEF IInv, InTheFuture, Key, clock
<1>9. GoneIsExpired' /\ CriticalSection'
  BY <1>1 DEF IInv, GoneIsExpired, IsExpired, CriticalSection, clock
<1> QED
  BY <1>4, <1>5, <1>6, <1>7, <1>8, <1>9 DEF IInv

\* The event that runs is the first one: all others come after it.
LEMMA ProcessOneEventStep ==
    ASSUME IInv, NEW e \in events, ProcessOneEvent(e)
    PROVE  IInv'
<1>1. /\ e \in Key /\ e.uid \in FirstUid..uid - 1
      /\ uid \in Nat /\ currentTs \in Nat /\ currentUid \in 0..uid - 1
      /\ e.ts > currentTs \/ (e.ts = currentTs /\ e.uid > currentUid)
  BY EventCoreAssumption DEF IInv, TypeOK, NumbersAreUsed, InTheFuture, FirstUid
<1>2. /\ events' = events \ {e} /\ currentTs' = e.ts /\ currentUid' = e.uid
      /\ unscheduledEvents' = unscheduledEvents - 1
      /\ pc = "loop" /\ pc' \in {"check", "handler"}
      /\ ran' = ran \/ ran' = Append(ran, e)
      /\ \A f \in events \ {e} : Earlier(e, f)
      /\ UNCHANGED <<uid, stop, cancelled, posted, destroyEvents, issued>>
  BY DEF ProcessOneEvent, IsNext
<1>3. TypeOK'
  BY <1>1, <1>2 DEF IInv, TypeOK, Key, FirstUid, posted
<1>4. WithinBound' /\ CriticalSection'
  BY <1>2 DEF IInv, WithinBound, CriticalSection, posted
<1>5. NumbersAreUsed'
  <2>1. \A i \in DOMAIN Append(ran, e) : Append(ran, e)[i].uid < uid
    BY <1>1, LenProperties, AppendProperties DEF IInv, NumbersAreUsed, FirstUid
  <2>2. Append(ran, e) \in Seq(Key)
    BY <1>1 DEF IInv, NumbersAreUsed
  <2> QED
    BY <1>2, <2>1, <2>2 DEF IInv, NumbersAreUsed
<1>6. InTheFuture'
  BY <1>1, <1>2 DEF IInv, TypeOK, Earlier, InTheFuture, Key
<1>7. GoneIsExpired'
  <2> SUFFICES ASSUME NEW id \in issued, id \notin events \/ id = e
               PROVE  IsExpired(id)'
    BY <1>2 DEF GoneIsExpired
  <2>1. CASE id = e
    BY <1>1, <1>2, <2>1 DEF IsExpired, Key
  <2>2. CASE id \notin events
    <3>1. IsExpired(id) /\ id \in Key
      BY <1>2, <2>2 DEF IInv, GoneIsExpired, TypeOK
    <3> QED
      BY <1>1, <1>2, <3>1 DEF IsExpired, Key
  <2> QED
    BY <2>1, <2>2
<1>8. CountIsExact'
  BY <1>2, FS_RemoveElement DEF IInv, CountIsExact, UnscheduledEventsIsExact
<1> QED
  BY <1>3, <1>4, <1>5, <1>6, <1>7, <1>8 DEF IInv

\* Destroy events take numbers of the same count, but never enter the list.
LEMMA DestroyEventSteps ==
    ASSUME IInv,
           \/ ScheduleDestroy
           \/ \E d \in ToSet(destroyEvents) : CancelDestroy(d) \/ RemoveDestroy(d)
           \/ InvokeDestroyEvent
    PROVE  IInv'
<1>0. /\ uid \in Nat /\ currentUid \in 0..uid - 1
      /\ destroyEvents \in Seq(FirstUid..uid - 1)
  BY EventCoreAssumption DEF IInv, TypeOK, FirstUid
<1>1. CASE ScheduleDestroy
  <2>1. TypeOK'
    BY <1>1, EventCoreAssumption
    DEF IInv, TypeOK, ScheduleDestroy, MayCreate, FirstUid, clock, posted
  <2>2. WithinBound' /\ CriticalSection'
    BY <1>1, EventCoreAssumption
    DEF IInv, TypeOK, WithinBound, CriticalSection, ScheduleDestroy, MayCreate, FirstUid, posted
  <2>3. NumbersAreUsed'
    <3>1. \A i \in DOMAIN ran : ran[i].uid < uid + 1
      BY RanStaysBelow
    <3>2. \A e \in events : e.uid \in FirstUid..uid
      BY <1>0 DEF IInv, NumbersAreUsed, FirstUid
    <3> QED
      BY <1>0, <1>1, <3>1, <3>2 DEF IInv, NumbersAreUsed, ScheduleDestroy
  <2>4. InTheFuture' /\ GoneIsExpired' /\ CountIsExact'
    BY <1>1 DEF IInv, InTheFuture, GoneIsExpired, IsExpired, CountIsExact,
                UnscheduledEventsIsExact, ScheduleDestroy, clock
  <2> QED
    BY <2>1, <2>2, <2>3, <2>4 DEF IInv
<1>2. ASSUME NEW d \in ToSet(destroyEvents), CancelDestroy(d)
      PROVE  IInv'
  <2>1. d \in FirstUid..uid - 1
    <3>1. PICK i \in 1..Len(destroyEvents) : d = destroyEvents[i]
      BY <1>0, LenProperties DEF ToSet
    <3> QED
      BY <1>0, <3>1, ElementOfSeq
  <2>2. TypeOK' /\ WithinBound' /\ CriticalSection'
    BY <1>2, <2>1
    DEF IInv, TypeOK, WithinBound, CriticalSection, CancelDestroy, list, clock, posted
  <2>3. NumbersAreUsed' /\ InTheFuture' /\ GoneIsExpired' /\ CountIsExact'
    BY <1>2 DEF IInv, NumbersAreUsed, InTheFuture, GoneIsExpired, IsExpired, CountIsExact,
                UnscheduledEventsIsExact, CancelDestroy, list, clock
  <2> QED
    BY <2>2, <2>3 DEF IInv
<1>3. ASSUME NEW d \in ToSet(destroyEvents), RemoveDestroy(d)
      PROVE  IInv'
  <2>1. destroyEvents' \in Seq(FirstUid..uid - 1)
    BY <1>0, <1>3, RemoveFirstType DEF RemoveDestroy
  <2>2. TypeOK' /\ WithinBound' /\ CriticalSection'
    BY <1>3, <2>1
    DEF IInv, TypeOK, WithinBound, CriticalSection, RemoveDestroy, list, clock, posted
  <2>3. NumbersAreUsed' /\ InTheFuture' /\ GoneIsExpired' /\ CountIsExact'
    BY <1>3, ListUntouched DEF RemoveDestroy
  <2> QED
    BY <2>2, <2>3 DEF IInv
<1>4. CASE InvokeDestroyEvent
  <2>1. TypeOK' /\ WithinBound' /\ CriticalSection'
    BY <1>0, <1>4
    DEF IInv, TypeOK, WithinBound, CriticalSection, InvokeDestroyEvent, list, clock, posted
  <2>2. NumbersAreUsed' /\ InTheFuture' /\ GoneIsExpired' /\ CountIsExact'
    BY <1>4, ListUntouched DEF InvokeDestroyEvent
  <2> QED
    BY <2>1, <2>2 DEF IInv
<1> QED
  BY <1>1, <1>2, <1>3, <1>4

\* DoDispose empties the list, and what was posted before is not run.
LEMMA DropEventsStep ==
    ASSUME IInv, DropEvents
    PROVE  IInv'
<1>1. TypeOK'
  BY DEF IInv, TypeOK, DropEvents, clock, posted
<1>2. WithinBound' /\ NumbersAreUsed' /\ CriticalSection'
  BY DEF IInv, WithinBound, NumbersAreUsed, CriticalSection, DropEvents, posted
<1>3. InTheFuture' /\ GoneIsExpired' /\ CountIsExact'
  BY FS_EmptySet DEF InTheFuture, GoneIsExpired, CountIsExact, UnscheduledEventsIsExact,
                     DropEvents
<1> QED
  BY <1>1, <1>2, <1>3 DEF IInv

\* The control of Run and DoDispose and the other thread, as far as they leave the
\* list alone.
LEMMA ControlSteps ==
    ASSUME IInv,
           \/ \E delay \in Delays : PushPosted(delay)
           \/ ClearFlag \/ Stop \/ Run
           \/ CheckPosted("check", "swap", "loop")
           \/ CheckPosted("lastCheck", "lastSwap", "drop")
           \/ SwapQueues("swap", "reset") \/ SwapQueues("lastSwap", "lastReset")
           \/ HandlerReturns \/ RunReturns \/ Destroy \/ DoDispose
    PROVE  IInv'
<1>1. NumbersAreUsed' /\ InTheFuture' /\ GoneIsExpired' /\ CountIsExact'
  BY ListUntouched DEF PushPosted, ClearFlag, Stop, Run, CheckPosted, SwapQueues,
                       HandlerReturns, RunReturns, Destroy, DoDispose
<1>2. ASSUME NEW delay \in Delays, PushPosted(delay)
      PROVE  TypeOK' /\ WithinBound' /\ CriticalSection'
  BY <1>2, EventCoreAssumption
  DEF IInv, TypeOK, WithinBound, CriticalSection, PushPosted, MayCreate, FirstUid, list, clock
<1>3. CASE SwapQueues("swap", "reset") \/ SwapQueues("lastSwap", "lastReset")
  <2>1. /\ mutex = "free" /\ mutex' = "main" /\ pc' \in {"reset", "lastReset"}
        /\ pc \in {"swap", "lastSwap"}
        /\ taken' = eventsWithContext /\ eventsWithContext' = <<>>
        /\ UNCHANGED <<list, clock, stop, cancelled, eventsWithContextEmpty, destroyEvents,
                       issued, ran>>
    BY <1>3 DEF SwapQueues, HolderAfterSwap
  <2>2. TypeOK'
    BY <2>1 DEF IInv, TypeOK, list, clock
  <2>3. WithinBound'
    BY <2>1, EventCoreAssumption, LenProperties DEF IInv, TypeOK, WithinBound, FirstUid, list
  <2>4. CriticalSection'
    BY <2>1 DEF CriticalSection
  <2> QED
    BY <1>1, <2>2, <2>3, <2>4 DEF IInv
<1>4. CASE ClearFlag
  <2>1. TypeOK'
    BY <1>4 DEF IInv, TypeOK, ClearFlag, list, clock
  <2>2. WithinBound'
    BY <1>4 DEF IInv, WithinBound, ClearFlag, list
  <2>3. CriticalSection'
    BY <1>4 DEF IInv, CriticalSection, ClearFlag
  <2> QED
    BY <1>1, <2>1, <2>2, <2>3 DEF IInv
<1>5. CASE Stop
  <2>1. TypeOK'
    BY <1>5 DEF IInv, TypeOK, Stop, list, clock, posted
  <2>2. WithinBound'
    BY <1>5 DEF IInv, WithinBound, Stop, list, posted
  <2>3. CriticalSection'
    BY <1>5 DEF IInv, CriticalSection, Stop, posted
  <2> QED
    BY <1>1, <2>1, <2>2, <2>3 DEF IInv
<1>6. CASE \/ Run \/ HandlerReturns \/ RunReturns \/ Destroy \/ DoDispose
           \/ CheckPosted("check", "swap", "loop")
           \/ CheckPosted("lastCheck", "lastSwap", "drop")
  <2>1. /\ pc \notin {"reset", "lastReset"}
        /\ pc' \in {"idle", "check", "swap", "loop", "destroy", "lastCheck", "lastSwap", "drop"}
        /\ stop' \in {stop, FALSE}
        /\ UNCHANGED <<list, clock, cancelled, posted, destroyEvents, issued, ran>>
    BY <1>6 DEF Run, CheckPosted, HandlerReturns, RunReturns, Destroy, DoDispose
  <2>2. TypeOK'
    BY <2>1 DEF IInv, TypeOK, list, clock, posted
  <2>3. WithinBound'
    BY <2>1 DEF IInv, WithinBound, list, posted
  <2>4. CriticalSection'
    BY <2>1 DEF IInv, CriticalSection, posted
  <2> QED
    BY <1>1, <2>2, <2>3, <2>4 DEF IInv
<1> QED
  BY <1>1, <1>2, <1>3, <1>4, <1>5, <1>6 DEF IInv

\* Every step preserves the invariant.
LEMMA NextInvariant == IInv /\ [Next]_vars => IInv'
<1> SUFFICES ASSUME IInv, [Next]_vars PROVE IInv'
  OBVIOUS
<1>1. CASE UNCHANGED vars
  BY <1>1 DEF IInv, TypeOK, WithinBound, NumbersAreUsed, InTheFuture, GoneIsExpired, IsExpired,
              CountIsExact, UnscheduledEventsIsExact, CriticalSection, vars, list, clock, posted
<1>2. CASE Next
  BY <1>2, ScheduleStep, CancelStep, RemoveEventStep, TakePostedStep, ProcessOneEventStep,
     DestroyEventSteps, DropEventsStep, ControlSteps DEF Next, ProcessEventsWithContext
<1> QED
  BY <1>1, <1>2

-----------------------------------------------------------------------------
(* The invariants. *)

\* The inductive invariant holds always, whatever the delays and the bound.
THEOREM EventCoreInvariant == Spec => []IInv
BY InitInvariant, NextInvariant, PTL DEF Spec

\* The state of the list is well typed: numbers stay within what was handed out.
THEOREM EventCoreTypeOK == Spec => []TypeOK
<1>1. IInv => TypeOK
  BY DEF IInv
<1> QED
  BY <1>1, EventCoreInvariant, PTL

\* The count that Run tests at its end is exact in every state.
THEOREM EventCoreCountIsExact == Spec => []UnscheduledEventsIsExact
<1>1. IInv => UnscheduledEventsIsExact
  BY DEF IInv, CountIsExact
<1> QED
  BY <1>1, EventCoreInvariant, PTL

\* IsExpired, which looks only at the key, tells exactly whether the event waits.
THEOREM EventCoreHandlesAreExact == Spec => []HandlesAreExact
<1>1. IInv => HandlesAreExact
  <2> SUFFICES ASSUME IInv, pc # "destroyed", NEW id \in issued
               PROVE  IsExpired(id) <=> id \notin Live
    BY DEF HandlesAreExact
  <2>1. CASE id \in events
    <3>1. id.ts \in Nat /\ id.uid \in Nat /\ currentTs \in Nat /\ currentUid \in Int
      BY <2>1 DEF IInv, TypeOK, Key
    <3>2. id.ts > currentTs \/ (id.ts = currentTs /\ id.uid > currentUid)
      BY <2>1 DEF IInv, InTheFuture
    <3> QED
      BY <2>1, <3>1, <3>2 DEF IsExpired, Live
  <2>2. CASE id \notin events
    BY <2>2 DEF IInv, GoneIsExpired, Live
  <2> QED
    BY <2>1, <2>2
<1> QED
  BY <1>1, EventCoreInvariant, PTL

\* The flag that ProcessEventsWithContext reads without the mutex hides nothing.
THEOREM EventCoreFlagMissesNothing == Spec => []FlagMissesNothing
<1>1. IInv => FlagMissesNothing
  BY DEF IInv, CriticalSection, FlagMissesNothing
<1> QED
  BY <1>1, EventCoreInvariant, PTL

-----------------------------------------------------------------------------
(* The list implements the order of events. *)

\* Events that are dropped, or nothing, while clock and history stand still.
LEMMA ShrinkIsOrdered ==
    ASSUME UNCHANGED <<currentTs, ran>>, Live' \subseteq Live
    PROVE  [Order!Next]_(Order!vars)
<1>1. Order!Drop(Live \ Live')
  BY DEF Order!Drop
<1> QED
  BY <1>1 DEF Order!Next

\* New events have the highest numbers and times that are not over.
LEMMA GrowthIsOrdered ==
    ASSUME IInv, NEW new, events' = events \cup new,
           \A e \in new : e \in Key /\ e.ts >= currentTs /\ e.uid >= uid,
           UNCHANGED <<currentTs, ran, cancelled>>
    PROVE  [Order!Next]_(Order!vars)
<1>1. uid \in Nat /\ cancelled \subseteq FirstUid..uid - 1
  BY EventCoreAssumption DEF IInv, TypeOK, FirstUid
<1>2. \A e \in Live' \ Live : e \in new
  BY DEF Live
<1>3. Live' = Live \cup (Live' \ Live)
  BY DEF Live
<1>4. \A f \in Live : f.uid \in Nat /\ f.uid < uid
  BY <1>1 DEF IInv, NumbersAreUsed, Live, FirstUid
<1>5. \A i \in DOMAIN ran : ran[i].uid < uid /\ ran[i].uid \in Nat
  <2> TAKE i \in DOMAIN ran
  <2>1. ran[i] \in Key
    BY LenProperties, ElementOfSeq DEF IInv, NumbersAreUsed
  <2> QED
    BY <2>1 DEF IInv, NumbersAreUsed, Key
<1>6. \A e \in new : e.uid \in Nat
  BY DEF Key
<1> DEFINE grown == Live' \ Live
<1>7. /\ \A e \in grown : \A f \in Live : f.uid < e.uid
      /\ \A e \in grown : \A i \in DOMAIN ran : ran[i].uid < e.uid
  BY <1>1, <1>2, <1>4, <1>5, <1>6
<1>8. \A e \in grown : e.ts >= currentTs
  BY <1>2
<1>9. Order!Add(grown)
  BY <1>3, <1>7, <1>8 DEF Order!Add
<1> QED
  BY <1>9 DEF Order!Next

\* The event that is processed runs next in the order, or passes if cancelled.
LEMMA ProcessIsOrdered ==
    ASSUME IInv, NEW e \in events, ProcessOneEvent(e)
    PROVE  [Order!Next]_(Order!vars)
<1>1. /\ e \in Key /\ e.ts >= currentTs
      /\ currentTs' = e.ts /\ cancelled' = cancelled /\ events' = events \ {e}
      /\ \A f \in events \ {e} : Earlier(e, f)
  BY DEF IInv, TypeOK, InTheFuture, Key, ProcessOneEvent, IsNext
<1>2. CASE e.uid \in cancelled
  <2>1. Live' = Live /\ ran' = ran
    BY <1>1, <1>2 DEF Live, ProcessOneEvent
  <2>2. \A f \in Live : e.ts <= f.ts
    BY <1>1, <1>2 DEF IInv, TypeOK, Live, Earlier, Key
  <2>3. Order!Pass(currentTs')
    BY <1>1, <2>1, <2>2 DEF Order!Pass
  <2> QED
    BY <2>3 DEF Order!Next
<1>3. CASE e.uid \notin cancelled
  <2>1. e \in Live /\ Live' = Live \ {e} /\ ran' = Append(ran, e)
    BY <1>1, <1>3 DEF Live, ProcessOneEvent
  <2>2. \A f \in Live \ {e} : Order!Before(e, f)
    BY <1>1 DEF Live, Earlier, Order!Before
  <2>3. Order!RunNext(e)
    BY <1>1, <2>1, <2>2 DEF Order!RunNext
  <2> QED
    BY <2>1, <2>3 DEF Order!Next
<1> QED
  BY <1>2, <1>3

\* Every step is a step of the order or leaves it alone.
LEMMA NextIsOrdered == IInv /\ [Next]_vars => [Order!Next]_(Order!vars)
<1> SUFFICES ASSUME IInv, [Next]_vars PROVE [Order!Next]_(Order!vars)
  OBVIOUS
<1>1. ASSUME NEW delay \in Delays, Schedule(delay)
      PROVE  [Order!Next]_(Order!vars)
  <2> DEFINE new == {NewKey(delay)}
  <2>1. \A e \in new : e \in Key /\ e.ts >= currentTs /\ e.uid >= uid
    BY EventCoreAssumption DEF IInv, TypeOK, NewKey, Key, FirstUid
  <2>2. events' = events \cup new /\ UNCHANGED <<currentTs, ran, cancelled>>
    BY <1>1 DEF Schedule, clock
  <2> HIDE DEF new
  <2> QED
    BY <2>1, <2>2, GrowthIsOrdered
<1>2. CASE TakePosted("reset", "loop") \/ TakePosted("lastReset", "drop")
  <2> DEFINE new == {PostedKey(i) : i \in DOMAIN taken}
  <2>1. \A e \in new : e \in Key /\ e.ts >= currentTs /\ e.uid >= uid
    <3>1. uid \in Nat
      BY EventCoreAssumption DEF IInv, TypeOK, FirstUid
    <3> QED
      BY <3>1, PostedKeys
  <2>2. events' = events \cup new /\ UNCHANGED <<currentTs, ran, cancelled>>
    BY <1>2 DEF TakePosted, clock
  <2> HIDE DEF new
  <2> QED
    BY <2>1, <2>2, GrowthIsOrdered
<1>3. ASSUME NEW e \in events, ProcessOneEvent(e)
      PROVE  [Order!Next]_(Order!vars)
  BY <1>3, ProcessIsOrdered
<1>4. ASSUME NEW id \in issued, Cancel(id) \/ RemoveEvent(id)
      PROVE  [Order!Next]_(Order!vars)
  <2>1. UNCHANGED <<currentTs, ran>> /\ Live' \subseteq Live
    BY <1>4 DEF Cancel, RemoveEvent, Live, list, clock
  <2> QED
    BY <2>1, ShrinkIsOrdered
<1>5. ASSUME NEW d \in ToSet(destroyEvents), CancelDestroy(d) \/ RemoveDestroy(d)
      PROVE  [Order!Next]_(Order!vars)
  <2>1. UNCHANGED <<currentTs, ran>> /\ Live' \subseteq Live
    BY <1>5 DEF CancelDestroy, RemoveDestroy, Live, list, clock
  <2> QED
    BY <2>1, ShrinkIsOrdered
<1>6. CASE DropEvents \/ ScheduleDestroy \/ InvokeDestroyEvent
  <2>1. UNCHANGED <<currentTs, ran>> /\ Live' \subseteq Live
    BY <1>6 DEF DropEvents, ScheduleDestroy, InvokeDestroyEvent, Live, list, clock
  <2> QED
    BY <2>1, ShrinkIsOrdered
<1>7. CASE \/ UNCHANGED vars
           \/ \E delay \in Delays : PushPosted(delay)
           \/ ClearFlag \/ Stop \/ Run
           \/ CheckPosted("check", "swap", "loop")
           \/ CheckPosted("lastCheck", "lastSwap", "drop")
           \/ SwapQueues("swap", "reset") \/ SwapQueues("lastSwap", "lastReset")
           \/ HandlerReturns \/ RunReturns \/ Destroy \/ DoDispose
  <2>1. UNCHANGED <<events, cancelled, currentTs, ran>>
    BY <1>7 DEF vars, PushPosted, ClearFlag, Stop, Run, CheckPosted, SwapQueues,
                HandlerReturns, RunReturns, Destroy, DoDispose, list, clock
  <2>2. UNCHANGED <<currentTs, ran>> /\ Live' \subseteq Live
    BY <2>1 DEF Live
  <2> QED
    BY <2>2, ShrinkIsOrdered
<1> QED
  BY <1>1, <1>2, <1>3, <1>4, <1>5, <1>6, <1>7 DEF Next, ProcessEventsWithContext

\* Whatever handlers and the other thread do, each event runs at most once and in
\* order, and the clock never goes back.
THEOREM EventCoreKeepsOrder == Spec => KeepsOrder
<1>1. Init => Order!Init
  BY DEF Init, Order!Init, Live
<1> QED
  BY <1>1, NextIsOrdered, EventCoreInvariant, PTL DEF Spec, KeepsOrder, Order!Spec

=============================================================================
