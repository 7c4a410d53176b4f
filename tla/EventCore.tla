----------------------------- MODULE EventCore -----------------------------
(***************************************************************************)
(* The simulator's event list (core/model/default-simulator-impl.cc), on   *)
(* which every timer of the application rests: the main thread schedules,  *)
(* cancels, removes and runs events, while another thread posts events     *)
(* through ScheduleWithContext.                                            *)
(*                                                                         *)
(* The main thread is outside Run ("idle"), at the test of the loop in Run *)
(* ("loop"), in the handler of an event ("handler"), in                    *)
(* ProcessEventsWithContext: before the flag is read ("check"), before the *)
(* queues are swapped ("swap"), before the flag is set ("reset"), or in    *)
(* Destroy ("destroy").  DoDispose calls ProcessEventsWithContext once     *)
(* more ("lastCheck", "lastSwap", "lastReset") and drops the list ("drop", *)
(* then "destroyed").  User code runs while it is "idle", in a "handler"   *)
(* or in a handler of "destroy".                                           *)
(***************************************************************************)
EXTENDS Integers, Sequences, FiniteSets, SequencesExt

CONSTANTS Delays,    \* delays that events are scheduled with
          MaxEvents  \* bound on the events of a run, posted ones included

ASSUME EventCoreAssumption == Delays \subseteq Nat /\ MaxEvents \in Nat

FirstUid == 4   \* smaller ones are reserved

VARIABLES
    pc,                     \* where the main thread is
    events,                 \* m_events: keys [ts, uid]
    uid,                    \* m_uid: the next one
    currentTs, currentUid,  \* m_currentTs, m_currentUid: of the event that runs
    stop,                   \* m_stop
    unscheduledEvents,      \* m_unscheduledEvents
    cancelled,              \* uids of events with m_cancel
    eventsWithContext,      \* m_eventsWithContext: delays of posted events
    eventsWithContextEmpty, \* m_eventsWithContextEmpty
    mutex,                  \* who holds m_eventsWithContextMutex
    taken,                  \* the queue that was swapped out
    destroyEvents,          \* m_destroyEvents
    issued,                 \* history: keys handed to the user as EventIds
    ran                     \* history: events whose Notify was called

list == <<events, uid, unscheduledEvents>>
clock == <<currentTs, currentUid>>
posted == <<eventsWithContext, eventsWithContextEmpty, mutex, taken>>
vars == <<pc, list, clock, stop, cancelled, posted, destroyEvents, issued, ran>>

Init ==
    /\ pc = "idle"
    /\ events = {}
    /\ uid = FirstUid
    /\ currentTs = 0 /\ currentUid = 0
    /\ stop = FALSE
    /\ unscheduledEvents = 0
    /\ cancelled = {}
    /\ eventsWithContext = <<>>
    /\ eventsWithContextEmpty = TRUE
    /\ mutex = "free"
    /\ taken = <<>>
    /\ destroyEvents = <<>>
    /\ issued = {}
    /\ ran = <<>>

-----------------------------------------------------------------------------
(* User code in the main thread. *)

UserCode == pc \in {"idle", "handler", "destroy"}
MayCreate == uid + Len(eventsWithContext) + Len(taken) < FirstUid + MaxEvents

NewKey(delay) == [ts |-> currentTs + delay, uid |-> uid]

\* Schedule, ScheduleNow (without delay), and ScheduleWithContext in this thread.
Schedule(delay) ==
    /\ UserCode /\ MayCreate
    /\ events' = events \cup {NewKey(delay)}
    /\ issued' = issued \cup {NewKey(delay)}
    /\ uid' = uid + 1
    /\ unscheduledEvents' = unscheduledEvents + 1
    /\ UNCHANGED <<pc, clock, stop, cancelled, posted, destroyEvents, ran>>

\* Mutant: an event of the current time is not expired, even after it ran.
ExpiredLater(id) == id.ts < currentTs \/ id.uid \in cancelled

\* IsExpired looks only at the key and the event, never into the list.
IsExpired(id) ==
    \/ id.ts < currentTs
    \/ id.ts = currentTs /\ id.uid <= currentUid
    \/ id.uid \in cancelled

\* The event stays in the list, and will do nothing.
Cancel(id) ==
    /\ UserCode
    /\ ~ IsExpired(id)
    /\ cancelled' = cancelled \cup {id.uid}
    /\ UNCHANGED <<pc, list, clock, stop, posted, destroyEvents, issued, ran>>

\* Mutant: an event that was removed still counts.
CountStays == UNCHANGED unscheduledEvents

CountRemoved == unscheduledEvents' = unscheduledEvents - 1

RemoveEvent(id) ==
    /\ UserCode
    /\ ~ IsExpired(id)
    /\ events' = events \ {id}
    /\ cancelled' = cancelled \cup {id.uid}
    /\ CountRemoved
    /\ UNCHANGED <<pc, uid, clock, stop, posted, destroyEvents, issued, ran>>

Stop ==
    /\ UserCode
    /\ ~ stop
    /\ stop' = TRUE
    /\ UNCHANGED <<pc, list, clock, cancelled, posted, destroyEvents, issued, ran>>

\* The number is consumed although the EventId carries the reserved one.
ScheduleDestroy ==
    /\ UserCode /\ MayCreate
    /\ destroyEvents' = Append(destroyEvents, uid)
    /\ uid' = uid + 1
    /\ UNCHANGED <<pc, events, unscheduledEvents, clock, stop, cancelled, posted,
                   issued, ran>>

CancelDestroy(d) ==
    /\ UserCode
    /\ Contains(destroyEvents, d) /\ d \notin cancelled
    /\ cancelled' = cancelled \cup {d}
    /\ UNCHANGED <<pc, list, clock, stop, posted, destroyEvents, issued, ran>>

RemoveDestroy(d) ==
    /\ UserCode
    /\ Contains(destroyEvents, d)
    /\ destroyEvents' = RemoveFirst(destroyEvents, d)
    /\ UNCHANGED <<pc, list, clock, stop, cancelled, posted, issued, ran>>

-----------------------------------------------------------------------------
(* Run. *)

Run ==
    /\ pc = "idle"
    /\ pc' = "check"
    /\ stop' = FALSE
    /\ UNCHANGED <<list, clock, cancelled, posted, destroyEvents, issued, ran>>

\* ProcessEventsWithContext, of which every point is a parameter since two callers
\* enter it.  The flag is read without the mutex.
CheckPosted(check, swap, return) ==
    /\ pc = check
    /\ pc' = IF eventsWithContextEmpty THEN return ELSE swap
    /\ UNCHANGED <<list, clock, stop, cancelled, posted, destroyEvents, issued, ran>>

\* Mutant: the mutex is released between the swap and the flag.
ReleaseEarly == "free"

HolderAfterSwap == "main"

SwapQueues(swap, reset) ==
    /\ pc = swap
    /\ mutex = "free"
    /\ mutex' = HolderAfterSwap
    /\ taken' = eventsWithContext
    /\ eventsWithContext' = <<>>
    /\ pc' = reset
    /\ UNCHANGED <<list, clock, stop, cancelled, eventsWithContextEmpty,
                   destroyEvents, issued, ran>>

\* Mutant: posted events are due at their delay after the start.
KeyFromStart(i) == [ts |-> taken[i], uid |-> uid + i - 1]

\* The time of a posted event counts from when it is taken.
PostedKey(i) == [ts |-> currentTs + taken[i], uid |-> uid + i - 1]

\* The flag, the end of the critical section, and the insertion of what was taken,
\* which no other thread sees.
TakePosted(reset, return) ==
    /\ pc = reset
    /\ eventsWithContextEmpty' = TRUE
    /\ mutex' = "free"
    /\ events' = events \cup {PostedKey(i) : i \in DOMAIN taken}
    /\ uid' = uid + Len(taken)
    /\ unscheduledEvents' = unscheduledEvents + Len(taken)
    /\ taken' = <<>>
    /\ pc' = return
    /\ UNCHANGED <<clock, stop, cancelled, eventsWithContext, destroyEvents, issued,
                   ran>>

ProcessEventsWithContext(check, swap, reset, return) ==
    \/ CheckPosted(check, swap, return)
    \/ SwapQueues(swap, reset)
    \/ TakePosted(reset, return)

Earlier(e, f) == e.ts < f.ts \/ (e.ts = f.ts /\ e.uid < f.uid)
IsNext(e) == e \in events /\ \A f \in events \ {e} : Earlier(e, f)

ProcessOneEvent(e) ==
    /\ pc = "loop"
    /\ ~ stop
    /\ IsNext(e)
    /\ events' = events \ {e}
    /\ unscheduledEvents' = unscheduledEvents - 1
    /\ currentTs' = e.ts
    /\ currentUid' = e.uid
    /\ IF e.uid \in cancelled
       THEN pc' = "check" /\ UNCHANGED ran
       ELSE pc' = "handler" /\ ran' = Append(ran, e)
    /\ UNCHANGED <<uid, stop, cancelled, posted, destroyEvents, issued>>

HandlerReturns ==
    /\ pc = "handler"
    /\ pc' = "check"
    /\ UNCHANGED <<list, clock, stop, cancelled, posted, destroyEvents, issued, ran>>

RunReturns ==
    /\ pc = "loop"
    /\ events = {} \/ stop
    /\ pc' = "idle"
    /\ UNCHANGED <<list, clock, stop, cancelled, posted, destroyEvents, issued, ran>>

-----------------------------------------------------------------------------
(* Destroy, and DoDispose, which drops what is left. *)

Destroy ==
    /\ pc = "idle"
    /\ pc' = "destroy"
    /\ UNCHANGED <<list, clock, stop, cancelled, posted, destroyEvents, issued, ran>>

InvokeDestroyEvent ==
    /\ pc = "destroy"
    /\ destroyEvents # <<>>
    /\ destroyEvents' = Tail(destroyEvents)
    /\ UNCHANGED <<pc, list, clock, stop, cancelled, posted, issued, ran>>

\* DoDispose takes over what was posted, as the flag says.
DoDispose ==
    /\ pc = "destroy"
    /\ destroyEvents = <<>>
    /\ pc' = "lastCheck"
    /\ UNCHANGED <<list, clock, stop, cancelled, posted, destroyEvents, issued, ran>>

\* The list is emptied; the count of unscheduled events is left as it is.
DropEvents ==
    /\ pc = "drop"
    /\ pc' = "destroyed"
    /\ events' = {}
    /\ UNCHANGED <<uid, unscheduledEvents, clock, stop, cancelled, posted,
                   destroyEvents, issued, ran>>

-----------------------------------------------------------------------------
(* ScheduleWithContext in another thread. *)

PushPosted(delay) ==
    /\ pc # "destroyed"
    /\ MayCreate
    /\ mutex = "free"
    /\ mutex' = "other"
    /\ eventsWithContext' = Append(eventsWithContext, delay)
    /\ UNCHANGED <<pc, list, clock, stop, cancelled, eventsWithContextEmpty, taken,
                   destroyEvents, issued, ran>>

ClearFlag ==
    /\ mutex = "other"
    /\ eventsWithContextEmpty' = FALSE
    /\ mutex' = "free"
    /\ UNCHANGED <<pc, list, clock, stop, cancelled, eventsWithContext, taken,
                   destroyEvents, issued, ran>>

Next ==
    \/ \E delay \in Delays : Schedule(delay) \/ PushPosted(delay)
    \/ ClearFlag
    \/ \E id \in issued : Cancel(id) \/ RemoveEvent(id)
    \/ Stop \/ ScheduleDestroy
    \/ \E d \in ToSet(destroyEvents) : CancelDestroy(d) \/ RemoveDestroy(d)
    \/ Run
    \/ ProcessEventsWithContext("check", "swap", "reset", "loop")
    \/ ProcessEventsWithContext("lastCheck", "lastSwap", "lastReset", "drop")
    \/ \E e \in events : ProcessOneEvent(e)
    \/ HandlerReturns \/ RunReturns
    \/ Destroy \/ InvokeDestroyEvent \/ DoDispose \/ DropEvents

Spec == Init /\ [][Next]_vars

-----------------------------------------------------------------------------
(* Correctness. *)

Key == [ts : Nat, uid : Nat]
Live == {e \in events : e.uid \notin cancelled}

TypeOK ==
    /\ pc \in {"idle", "check", "swap", "reset", "loop", "handler", "destroy",
               "lastCheck", "lastSwap", "lastReset", "drop", "destroyed"}
    /\ events \subseteq Key /\ issued \subseteq Key
    /\ uid \in FirstUid..FirstUid + MaxEvents
    /\ currentTs \in Nat /\ currentUid \in 0..uid - 1
    /\ stop \in BOOLEAN /\ eventsWithContextEmpty \in BOOLEAN
    /\ cancelled \subseteq FirstUid..uid - 1
    /\ mutex \in {"free", "main", "other"}
    /\ eventsWithContext \in Seq(Delays) /\ taken \in Seq(Delays)
    /\ destroyEvents \in Seq(FirstUid..uid - 1)

\* The consistency test at the end of Run (default-simulator-impl.cc:207-209), in every
\* state: no event is lost, or counted twice, by posting, cancelling or removing.
UnscheduledEventsIsExact ==
    pc # "destroyed" => unscheduledEvents = Cardinality(events)

\* A handle tells the truth although IsExpired never looks into the list: an event
\* is unexpired exactly while it is in the list and will call its function; from
\* its own handler on, or once cancelled or removed, it is expired.  Remove relies
\* on it to find its event.
HandlesAreExact ==
    pc # "destroyed" => \A id \in issued : IsExpired(id) <=> id \notin Live

\* Reading the flag without the mutex misses nothing: when nobody is inside the
\* critical section and the flag says that nothing was posted, nothing waits there.
FlagMissesNothing ==
    mutex = "free" /\ eventsWithContextEmpty => eventsWithContext = <<>>

Order == INSTANCE EventOrder WITH now <- currentTs, waiting <- Live

\* Whatever the handlers and the other thread do, each event runs at most once, in
\* the order of times and numbers, and the clock never goes back.
KeepsOrder == Order!Spec
=============================================================================
