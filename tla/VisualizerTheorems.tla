------------------------- MODULE VisualizerTheorems -------------------------
(***************************************************************************)
(* What the two threads of the visualizer keep, for any periods and any    *)
(* number of firings and user actions: the messages of the simulator are   *)
(* shown once and in order, the model stays within one period of what the  *)
(* window shows, and a second update timer has one cause only.             *)
(*                                                                         *)
(* Two facts carry the second one: a run has an event that ends it at its  *)
(* target (RunHasAnEnd), and no run can move the clock while the main      *)
(* thread draws, reads the clock and writes the target (ClockStandsStill). *)
(***************************************************************************)
EXTENDS Visualizer, FiniteSetTheorems, SequenceTheorems, TLAPS

\* What update_view_timeout took is what the list holds until it replaces it.
TakenIsCurrent == mainPc = "replace" => taken = pauseMessages

\* No callback is in the past, and a run has one at its target or Simulator::Stop after it.
RunHasAnEnd ==
    /\ IsFiniteSet(callbacks)
    /\ \A c \in callbacks : now <= c.at
    /\ simPc = "run" => runUntil = targetTime
    /\ simPc = "run" => stops > 0 \/ \E c \in callbacks : c.at = runUntil

\* The clock is still what the main thread drew and read.
ClockStandsStill ==
    /\ viewTime <= now
    /\ mainPc \in {"read", "set"} => viewTime = now
    /\ mainPc = "set" => clockRead = now

\* The only timer is the one whose id the view knows.
TimerIsKnown == untracked \/ sources \subseteq {updateTimeoutId}

IInv ==
    /\ TypeOK
    /\ TakenIsCurrent
    /\ MessagesShownOnce
    /\ RunHasAnEnd
    /\ ClockStandsStill
    /\ ModelNotAheadOfView
    /\ TimerIsKnown

-----------------------------------------------------------------------------
(* Sequences of messages. *)

\* The messages so far, in order.
Messages(n) == [i \in 1..n |-> i]

LEMMA MessagesGrow ==
    ASSUME NEW n \in Nat
    PROVE  Messages(n + 1) = Messages(n) \o <<n + 1>>
<1>1. /\ Messages(n) \in Seq(Nat) /\ Len(Messages(n)) = n
      /\ Messages(n + 1) \in Seq(Nat) /\ Len(Messages(n + 1)) = n + 1
      /\ <<n + 1>> \in Seq(Nat) /\ Len(<<n + 1>>) = 1
  BY DEF Messages
<1>2. /\ Messages(n) \o <<n + 1>> \in Seq(Nat)
      /\ Len(Messages(n) \o <<n + 1>>) = n + 1
      /\ \A i \in 1..n + 1 : (Messages(n) \o <<n + 1>>)[i] =
            IF i <= n THEN Messages(n)[i] ELSE <<n + 1>>[i - n]
  BY <1>1, ConcatProperties
<1>3. \A i \in 1..n + 1 : Messages(n + 1)[i] = (Messages(n) \o <<n + 1>>)[i]
  <2> TAKE i \in 1..n + 1
  <2>1. CASE i <= n
    BY <1>2, <2>1 DEF Messages
  <2>2. CASE i = n + 1
    BY <1>2, <2>2 DEF Messages
  <2>3. i <= n \/ i = n + 1
    OBVIOUS
  <2> QED
    BY <2>1, <2>2, <2>3
<1> QED
  BY <1>1, <1>2, <1>3, SeqEqual

\* Sequences of messages stay so when there are more.
LEMMA MessagesStay ==
    ASSUME NEW n \in Nat, NEW s \in Seq(1..n)
    PROVE  s \in Seq(1..n + 1)
BY SeqMonotonic, 1..n \subseteq 1..n + 1

\* Whatever is appended in two parts may be appended at once.
LEMMA Regroup ==
    \A S : \A s, t, u \in Seq(S) : (s \o t) \o u = s \o (t \o u)
BY ConcatAssociative

\* A set within a singleton has at most one element.
LEMMA AtMostOne ==
    ASSUME NEW x, NEW S \in SUBSET {x}
    PROVE  Cardinality(S) <= 1
<1>1. S = {} \/ S = {x}
  OBVIOUS
<1>2. Cardinality({}) = 0 /\ Cardinality({x}) = 1
  BY FS_EmptySet, FS_Singleton
<1> QED
  BY <1>1, <1>2

\* The parts of MessagesShownOnce are sequences of messages.
LEMMA PartsType ==
    ASSUME TypeOK
    PROVE  /\ shown \in Seq(1..produced) /\ pauseMessages \in Seq(1..produced)
           /\ TakenMessages \in Seq(1..produced) /\ RunMessages \in Seq(1..produced)
           /\ shown \o TakenMessages \in Seq(1..produced)
           /\ shown \o TakenMessages \o pauseMessages \in Seq(1..produced)
           /\ shown \o TakenMessages \o pauseMessages \o RunMessages \in Seq(1..produced)
<1>1. /\ shown \in Seq(1..produced) /\ pauseMessages \in Seq(1..produced)
      /\ TakenMessages \in Seq(1..produced) /\ RunMessages \in Seq(1..produced)
  BY EmptySeq DEF TypeOK, TakenMessages, RunMessages
<1>2. shown \o TakenMessages \in Seq(1..produced)
  BY <1>1, ConcatProperties
<1>3. shown \o TakenMessages \o pauseMessages \in Seq(1..produced)
  BY <1>1, <1>2, ConcatProperties
<1> QED
  BY <1>1, <1>2, <1>3, ConcatProperties

-----------------------------------------------------------------------------
(* The invariant holds at the start. *)

LEMMA InitInvariant == Init => IInv
<1> SUFFICES ASSUME Init PROVE IInv
  OBVIOUS
<1>1. TypeOK
  <2>1. /\ pauseMessages \in Seq(1..produced) /\ simMessages \in Seq(1..produced)
        /\ taken \in Seq(1..produced) /\ shown \in Seq(1..produced)
        /\ frames \in Seq(1..nextId - 1)
    BY EmptySeq DEF Init
  <2>2. firings \in 0..MaxFirings /\ actions \in 0..MaxActions
    BY VisualizerAssumption DEF Init
  <2>3. nextId \in Nat /\ sources \subseteq 1..nextId - 1 /\ updateTimeoutId \in 0..nextId - 1
    BY DEF Init
  <2>4. /\ lock \in {"free", "sim", "main"} /\ go \in BOOLEAN /\ quit \in BOOLEAN
        /\ active \in BOOLEAN /\ mainQuit \in BOOLEAN /\ untracked \in BOOLEAN
    BY DEF Init
  <2> QED
    BY <2>1, <2>2, <2>3, <2>4 DEF Init, TypeOK
<1>2. TakenIsCurrent /\ ModelNotAheadOfView /\ TimerIsKnown
  BY DEF Init, TakenIsCurrent, ModelNotAheadOfView, TimerIsKnown
<1>3. RunHasAnEnd /\ ClockStandsStill
  BY FS_EmptySet DEF Init, RunHasAnEnd, ClockStandsStill
<1>4. MessagesShownOnce
  <2>1. [i \in 1..produced |-> i] = <<>>
    BY DEF Init
  <2>2. <<>> \in Seq(Nat) /\ <<>> \o <<>> = <<>>
    BY EmptySeq, ConcatEmptySeq
  <2> QED
    BY <2>1, <2>2 DEF Init, MessagesShownOnce, TakenMessages, RunMessages
<1> QED
  BY <1>1, <1>2, <1>4, <1>3 DEF IInv

-----------------------------------------------------------------------------
(* Each step keeps the types and who holds the lock. *)

LEMMA SimTypeOK == ASSUME TypeOK, RunHasAnEnd, SimStep PROVE TypeOK'
<1> USE DEF sync, simulator, shared, timers, drawing, view
<1>1. CASE SimTest
  BY <1>1 DEF SimTest, TypeOK
<1>2. CASE SimWait
  BY <1>2 DEF SimWait, TypeOK
<1>3. CASE SimClear
  BY <1>3 DEF SimClear, TypeOK
<1>4. CASE SimCheck
  BY <1>4 DEF SimCheck, TypeOK
<1>5. CASE SimAcquire
  BY <1>5 DEF SimAcquire, TypeOK
<1>6. CASE SimEnter
  <2>1. simMessages' \in Seq(1..produced)
    BY <1>6, EmptySeq DEF SimEnter
  <2>2. Cardinality({c \in callbacks : c.at = targetTime}) \in Nat
    <3> DEFINE same == {c \in callbacks : c.at = targetTime}
    <3>1. same \subseteq callbacks /\ IsFiniteSet(callbacks)
      BY DEF RunHasAnEnd
    <3> HIDE DEF same
    <3>2. Cardinality(same) \in Nat
      BY <3>1, FS_Subset, FS_CardinalityType
    <3> QED
      BY <3>2 DEF same
  <2>3. callbacks' \subseteq [at : Nat, nth : Nat] /\ runUntil' \in Nat
    <3> DEFINE n == Cardinality({c \in callbacks : c.at = targetTime})
    <3>1. \/ UNCHANGED <<callbacks, runUntil>>
          \/ callbacks' = callbacks \cup {[at |-> targetTime, nth |-> n]} /\ runUntil' = targetTime
      BY <1>6 DEF SimEnter
    <3>2. n \in Nat
      BY <2>2
    <3> HIDE DEF n
    <3> QED
      BY <3>1, <3>2 DEF TypeOK
  <2>4. simPc' \in {"run", "report"}
    BY <1>6 DEF SimEnter
  <2> QED
    BY <1>6, <2>1, <2>3, <2>4 DEF SimEnter, TypeOK
<1>7. CASE ProgramEvent
  <2>1. now' \in Nat
    BY <1>7, VisualizerAssumption DEF ProgramEvent, TypeOK
  <2>2. CASE UNCHANGED <<simMessages, produced>>
    BY <1>7, <2>1, <2>2 DEF ProgramEvent, TypeOK
  <2>3. CASE simMessages' = Append(simMessages, produced + 1) /\ produced' = produced + 1
    <3>1. /\ pauseMessages \in Seq(1..produced + 1) /\ simMessages \in Seq(1..produced + 1)
          /\ taken \in Seq(1..produced + 1) /\ shown \in Seq(1..produced + 1)
      BY MessagesStay DEF TypeOK
    <3>2. produced + 1 \in 1..produced + 1 /\ produced + 1 \in Nat
      BY DEF TypeOK
    <3>3. Append(simMessages, produced + 1) \in Seq(1..produced + 1)
      BY <3>1, <3>2, AppendProperties
    <3> QED
      BY <1>7, <2>1, <2>3, <3>1, <3>2, <3>3 DEF ProgramEvent, TypeOK
  <2> QED
    BY <1>7, <2>2, <2>3 DEF ProgramEvent
<1>8. ASSUME NEW c \in callbacks, StopCallback(c) PROVE TypeOK'
  <2>1. now' \in Nat /\ stops' \in Nat /\ callbacks' \subseteq [at : Nat, nth : Nat]
    BY <1>8 DEF StopCallback, TypeOK
  <2> QED
    BY <1>8, <2>1 DEF StopCallback, TypeOK
<1>9. CASE StopEvent
  <2>1. stops' \in Nat
    BY <1>9 DEF StopEvent, TypeOK
  <2> QED
    BY <1>9, <2>1 DEF StopEvent, TypeOK
<1>10. CASE SimReport
  <2>1. pauseMessages' \in Seq(1..produced)
    BY <1>10, ConcatProperties DEF SimReport, TypeOK
  <2> QED
    BY <1>10, <2>1 DEF SimReport, TypeOK
<1> QED
  BY <1>1, <1>2, <1>3, <1>4, <1>5, <1>6, <1>10, <1>7, <1>8, <1>9 DEF SimStep

LEMMA MainTypeOK == ASSUME TypeOK, MainStep PROVE TypeOK'
<1> USE DEF sync, simulator, shared, timers, drawing, view
<1>1. CASE DispatchUpdateModel
  BY <1>1 DEF DispatchUpdateModel, TypeOK
<1>2. CASE UpdateModel
  BY <1>2 DEF UpdateModel, TypeOK
<1>3. CASE TryAcquire
  BY <1>3 DEF TryAcquire, LockIsFree, TypeOK
<1>4. CASE LeaveInnerLoop
  BY <1>4 DEF LeaveInnerLoop, TypeOK
<1>5. CASE TakeMessages
  BY <1>5 DEF TakeMessages, TypeOK
<1>6. CASE SetTarget
  <2>1. targetTime' \in Nat /\ asked' \in Nat
    BY <1>6, VisualizerAssumption DEF SetTarget, TypeOK
  <2> QED
    BY <1>6, <2>1 DEF SetTarget, TypeOK
<1>7. CASE ReplaceList
  BY <1>7, EmptySeq DEF ReplaceList, TypeOK
<1>8. CASE DrawView
  BY <1>8 DEF DrawView, TypeOK
<1>9. CASE ReadClock
  BY <1>9 DEF ReadClock, TypeOK
<1>10. CASE ReleaseLock
  BY <1>10 DEF ReleaseLock, TypeOK
<1>11. CASE FinishUpdate
  <2>1. shown' \in Seq(1..produced) /\ taken' \in Seq(1..produced)
    BY <1>11, ConcatProperties, EmptySeq DEF FinishUpdate, TypeOK
  <2>2. frames' \in Seq(1..nextId - 1)
    <3>1. Len(frames) \in Nat
      BY LenProperties DEF TypeOK
    <3>2. \A i \in 1..Len(frames) : frames[i] \in 1..nextId - 1
      BY ElementOfSeq DEF TypeOK
    <3>3. \A i \in 1..Len(frames) - 1 : frames[i] \in 1..nextId - 1
      BY <3>1, <3>2
    <3> QED
      BY <1>11, <3>1, <3>3, SubSeqProperties DEF FinishUpdate
  <2>3. /\ sources' \subseteq sources
        /\ updateTimeoutId' = updateTimeoutId \/ updateTimeoutId' = 0
        /\ go' \in BOOLEAN /\ untracked' \in BOOLEAN /\ active' \in BOOLEAN
    BY <1>11 DEF FinishUpdate, TypeOK
  <2>4. updateTimeoutId' \in 0..nextId - 1
    BY <2>3 DEF TypeOK
  <2> QED
    BY <1>11, <2>1, <2>2, <2>3, <2>4 DEF FinishUpdate, TypeOK
<1>12. CASE QuitWakes
  BY <1>12 DEF QuitWakes, Wake, TypeOK
<1>13. CASE QuitJoins
  BY <1>13 DEF QuitJoins, TypeOK
<1>14. CASE MainReturns
  BY <1>14 DEF MainReturns, TypeOK
<1> QED
  BY <1>1, <1>2, <1>3, <1>4, <1>5, <1>6, <1>11, <1>12, <1>13, <1>14, <1>7, <1>8, <1>9, <1>10
  DEF MainStep

\* A new timer keeps the ids in range.
LEMMA StartTypes ==
    ASSUME TypeOK, StartUpdateTimer
    PROVE  /\ sources' \subseteq 1..nextId' - 1
           /\ updateTimeoutId' \in 0..nextId' - 1
           /\ \A s \in Seq(1..nextId - 1) : s \in Seq(1..nextId' - 1)
<1>1. nextId \in Nat /\ 1..nextId - 1 \subseteq 1..nextId' - 1
  BY DEF TypeOK, StartUpdateTimer
<1>2. sources' \subseteq 1..nextId' - 1 /\ updateTimeoutId' \in 0..nextId' - 1
  BY <1>1 DEF TypeOK, StartUpdateTimer, SourcesToKeep
<1> QED
  BY <1>1, <1>2, SeqMonotonic

LEMMA UserTypeOK ==
    ASSUME TypeOK, (\E s \in sources : FireTimer(s)) \/ TogglePlay \/ ChangeSpeed \/ Quit
    PROVE  TypeOK'
<1> USE DEF sync, simulator, shared, timers, drawing, view
<1>1. ASSUME NEW s \in sources, FireTimer(s) PROVE TypeOK'
  <2>1. frames' \in Seq(1..nextId - 1) /\ firings' \in 0..MaxFirings
    BY <1>1, VisualizerAssumption DEF FireTimer, TypeOK
  <2> QED
    BY <1>1, <2>1 DEF FireTimer, TypeOK
<1>2. CASE TogglePlay
  <2>1. actions' \in 0..MaxActions
    BY <1>2, VisualizerAssumption DEF TogglePlay, UserActs, TypeOK
  <2>2. CASE ~active
    <3>1. StartUpdateTimer /\ nextId' \in Nat
      BY <1>2, <2>2 DEF TogglePlay, StartUpdateTimer, TypeOK
    <3>2. /\ sources' \subseteq 1..nextId' - 1 /\ updateTimeoutId' \in 0..nextId' - 1
          /\ frames' \in Seq(1..nextId' - 1) /\ active' \in BOOLEAN
      BY <1>2, <3>1, StartTypes DEF TogglePlay, TypeOK
    <3> QED
      BY <1>2, <2>1, <3>1, <3>2 DEF TogglePlay, UserActs, TypeOK
  <2>3. CASE active
    <3>1. /\ sources' \subseteq 1..nextId' - 1 /\ updateTimeoutId' \in 0..nextId' - 1
          /\ frames' \in Seq(1..nextId' - 1) /\ active' \in BOOLEAN /\ nextId' \in Nat
      BY <1>2, <2>3 DEF TogglePlay, TypeOK
    <3> QED
      BY <1>2, <2>1, <3>1 DEF TogglePlay, UserActs, TypeOK
  <2> QED
    BY <2>2, <2>3
<1>3. CASE ChangeSpeed
  <2>1. actions' \in 0..MaxActions
    BY <1>3, VisualizerAssumption DEF ChangeSpeed, UserActs, TypeOK
  <2>2. StartUpdateTimer /\ nextId' \in Nat
    BY <1>3 DEF ChangeSpeed, StartUpdateTimer, TypeOK
  <2> QED
    BY <1>3, <2>1, <2>2, StartTypes DEF ChangeSpeed, UserActs, TypeOK
<1>4. CASE Quit
  BY <1>4 DEF Quit, TypeOK
<1> QED
  BY <1>1, <1>2, <1>3, <1>4

LEMMA TypeCorrect == ASSUME TypeOK, RunHasAnEnd, [Next]_vars PROVE TypeOK'
<1>1. CASE UNCHANGED vars
  BY <1>1 DEF vars, sync, simulator, shared, timers, drawing, view, TypeOK
<1> QED
  BY <1>1, SimTypeOK, MainTypeOK, UserTypeOK DEF Next

-----------------------------------------------------------------------------
(* Each step keeps the rest of the invariant. *)

\* The simulation thread writes the list only while it holds the lock.
LEMMA TakenStays == ASSUME IInv, [Next]_vars PROVE TakenIsCurrent'
<1> USE DEF sync, simulator, shared, timers, drawing, view, TakenIsCurrent, IInv
<1>1. CASE UNCHANGED vars
  BY <1>1 DEF vars
<1>2. CASE SimStep
  <2>1. CASE SimReport
    BY <2>1 DEF SimReport, TypeOK
  <2> QED
    BY <1>2, <2>1 DEF SimStep, SimTest, SimWait, SimClear, SimCheck, SimAcquire, SimEnter,
                      ProgramEvent, StopCallback, StopEvent
<1>3. CASE MainStep
  BY <1>3 DEF MainStep, DispatchUpdateModel, UpdateModel, TryAcquire, LeaveInnerLoop,
              TakeMessages, ReplaceList, DrawView, ReadClock, SetTarget, ReleaseLock,
              FinishUpdate, QuitWakes, QuitJoins, MainReturns
<1>4. ASSUME NEW s \in sources, FireTimer(s) PROVE TakenIsCurrent'
  BY <1>4 DEF FireTimer
<1>5. CASE TogglePlay \/ ChangeSpeed \/ Quit
  BY <1>5 DEF TogglePlay, ChangeSpeed, UserActs, Quit
<1> QED
  BY <1>1, <1>2, <1>3, <1>4, <1>5 DEF Next

\* What moves the clock, and what bounds it in a run.
LEMMA ClockMoves ==
    ASSUME IInv, NEW t \in Nat, simPc = "run", DueBy(t)
    PROVE  t <= targetTime
<1>1. CASE stops > 0
  BY <1>1 DEF IInv, DueBy, ModelNotAheadOfView
<1>2. CASE \E c \in callbacks : c.at = runUntil
  BY <1>2 DEF IInv, DueBy, RunHasAnEnd
<1> QED
  BY <1>1, <1>2 DEF IInv, RunHasAnEnd

\* A step that leaves the clock, the view and the target alone.
LEMMA ClockUntouched ==
    ASSUME IInv, UNCHANGED <<now, viewTime, targetTime, asked, clockRead>>,
           mainPc' \in {"read", "set"} => mainPc' = mainPc
    PROVE  ClockStandsStill' /\ ModelNotAheadOfView'
BY DEF IInv, ClockStandsStill, ModelNotAheadOfView

\* A step that leaves the event list and the target alone.
LEMMA ListUntouched ==
    ASSUME IInv, UNCHANGED <<simulator, targetTime>>, simPc' = "run" => simPc = "run"
    PROVE  RunHasAnEnd'
BY DEF IInv, RunHasAnEnd, simulator

\* The simulation thread, which holds the lock: the callback of the target, or
\* Simulator::Stop after it, comes before any later time.
LEMMA SimStaysBehind ==
    ASSUME IInv, SimStep
    PROVE  RunHasAnEnd' /\ ClockStandsStill' /\ ModelNotAheadOfView'
<1> USE DEF sync, shared, timers, drawing, view
<1>0. /\ now \in Nat /\ targetTime \in Nat /\ viewTime \in Nat /\ asked \in Nat
      /\ runUntil \in Nat /\ stops \in Nat /\ \A c \in callbacks : c.at \in Nat
  BY DEF IInv, TypeOK
<1>1. CASE SimTest \/ SimWait \/ SimClear \/ SimCheck \/ SimAcquire \/ SimReport
  <2>1. /\ UNCHANGED <<simulator, targetTime, viewTime, asked, clockRead, mainPc>>
        /\ simPc' # "run"
    BY <1>1 DEF SimTest, SimWait, SimClear, SimCheck, SimAcquire, SimReport
  <2>2. UNCHANGED now
    BY <2>1 DEF simulator
  <2> QED
    BY <2>1, <2>2, ListUntouched, ClockUntouched
<1>2. CASE SimEnter
  <2>1. UNCHANGED <<now, viewTime, targetTime, asked, clockRead, mainPc>>
    BY <1>2 DEF SimEnter
  <2>2. CASE now >= targetTime
    BY <1>0, <1>2, <2>1, <2>2, ClockUntouched DEF SimEnter, IInv, RunHasAnEnd
  <2>3. CASE now < targetTime
    <3> DEFINE new == [at |-> targetTime,
                       nth |-> Cardinality({c \in callbacks : c.at = targetTime})]
    <3>1. /\ callbacks' = callbacks \cup {new} /\ runUntil' = targetTime
          /\ new.at = targetTime
      BY <1>0, <1>2, <2>3 DEF SimEnter
    <3> HIDE DEF new
    <3>2. IsFiniteSet(callbacks')
      BY <3>1, FS_AddElement DEF IInv, RunHasAnEnd
    <3>3. \A c \in callbacks' : now' <= c.at
      BY <2>1, <2>3, <3>1, <1>0 DEF IInv, RunHasAnEnd
    <3> QED
      BY <2>1, <3>1, <3>2, <3>3, ClockUntouched DEF RunHasAnEnd
  <2> QED
    BY <1>0, <2>2, <2>3
<1>3. CASE ProgramEvent
  <2>1. /\ now' \in Nat /\ now <= now' /\ DueBy(now') /\ simPc = "run"
        /\ UNCHANGED <<viewTime, targetTime, asked, clockRead, mainPc, runUntil, callbacks, stops>>
    BY <1>0, <1>3, VisualizerAssumption DEF ProgramEvent
  <2>2. now' <= targetTime
    BY <2>1, ClockMoves
  <2>3. mainPc \notin {"read", "set"}
    BY <2>1 DEF IInv, TypeOK
  <2>4. RunHasAnEnd'
    BY <2>1 DEF IInv, RunHasAnEnd, DueBy
  <2> QED
    BY <1>0, <2>1, <2>2, <2>3, <2>4 DEF IInv, ClockStandsStill, ModelNotAheadOfView
<1>4. ASSUME NEW c \in callbacks, StopCallback(c)
      PROVE  RunHasAnEnd' /\ ClockStandsStill' /\ ModelNotAheadOfView'
  <2>1. /\ now' = c.at /\ now <= c.at /\ DueBy(c.at) /\ simPc = "run" /\ simPc' = simPc
        /\ callbacks' = callbacks \ {c}
        /\ UNCHANGED <<viewTime, targetTime, asked, clockRead, mainPc, runUntil>>
    BY <1>4 DEF StopCallback, IInv, RunHasAnEnd
  <2>2. now' <= targetTime
    BY <1>0, <2>1, ClockMoves
  <2>3. mainPc \notin {"read", "set"}
    BY <2>1 DEF IInv, TypeOK
  <2>4. RunHasAnEnd'
    <3>1. IsFiniteSet(callbacks')
      BY <2>1, FS_RemoveElement DEF IInv, RunHasAnEnd
    <3>2. \A d \in callbacks' : now' <= d.at
      BY <2>1 DEF DueBy
    <3>3. stops' > 0 \/ \E d \in callbacks' : d.at = runUntil
      <4>1. CASE runUntil <= c.at
        BY <1>0, <1>4, <4>1 DEF StopCallback
      <4>2. CASE ~(runUntil <= c.at)
        BY <1>0, <1>4, <2>1, <4>2 DEF StopCallback, IInv, RunHasAnEnd
      <4> QED
        BY <4>1, <4>2
    <3> QED
      BY <2>1, <3>1, <3>2, <3>3 DEF IInv, RunHasAnEnd
  <2> QED
    BY <1>0, <2>1, <2>2, <2>3, <2>4 DEF IInv, ClockStandsStill, ModelNotAheadOfView
<1>5. CASE StopEvent
  <2>1. /\ UNCHANGED <<now, viewTime, targetTime, asked, clockRead, mainPc, callbacks>>
        /\ simPc' = "report"
    BY <1>5 DEF StopEvent
  <2>2. RunHasAnEnd'
    BY <2>1 DEF IInv, RunHasAnEnd
  <2> QED
    BY <2>1, <2>2, ClockUntouched
<1> QED
  BY <1>1, <1>2, <1>3, <1>4, <1>5 DEF SimStep

\* The main thread, which holds the lock where it draws, reads and writes: the target
\* is one period ahead of the clock, and the window shows the model of that time.
LEMMA MainStaysBehind ==
    ASSUME IInv, MainStep
    PROVE  RunHasAnEnd' /\ ClockStandsStill' /\ ModelNotAheadOfView'
<1> USE DEF sync, shared, timers, drawing, view
<1>0. /\ now \in Nat /\ targetTime \in Nat /\ viewTime \in Nat /\ asked \in Nat
      /\ samplePeriod \in Nat
  BY VisualizerAssumption DEF IInv, TypeOK
<1>1. CASE DrawView
  <2>1. viewTime' = now /\ mainPc' = "read" /\ UNCHANGED <<simulator, targetTime, asked, simPc>>
    BY <1>1 DEF DrawView
  <2>2. now' = now
    BY <2>1 DEF simulator
  <2>3. RunHasAnEnd'
    BY <2>1, ListUntouched
  <2> QED
    BY <1>0, <2>1, <2>2, <2>3 DEF IInv, ClockStandsStill, ModelNotAheadOfView
<1>2. CASE ReadClock
  <2>1. /\ clockRead' = now /\ mainPc = "read" /\ mainPc' = "set"
        /\ UNCHANGED <<simulator, targetTime, asked, viewTime, simPc>>
    BY <1>2 DEF ReadClock
  <2>2. now' = now
    BY <2>1 DEF simulator
  <2>3. RunHasAnEnd'
    BY <2>1, ListUntouched
  <2> QED
    BY <2>1, <2>2, <2>3 DEF IInv, ClockStandsStill, ModelNotAheadOfView
<1>3. CASE SetTarget
  <2>1. /\ mainPc = "set" /\ mainPc' = "release" /\ targetTime' = clockRead + samplePeriod
        /\ asked' = samplePeriod /\ UNCHANGED <<simulator, viewTime, simPc>>
    BY <1>3 DEF SetTarget
  <2>2. UNCHANGED <<now, runUntil, callbacks, stops>>
    BY <2>1 DEF simulator
  <2>3. simPc # "run"
    BY <2>1 DEF IInv, TypeOK
  <2>4. RunHasAnEnd'
    BY <2>1, <2>2, <2>3 DEF IInv, RunHasAnEnd
  <2> QED
    BY <1>0, <2>1, <2>2, <2>4 DEF IInv, ClockStandsStill, ModelNotAheadOfView
<1>4. CASE MainStep /\ ~DrawView /\ ~ReadClock /\ ~SetTarget
  <2>1. /\ UNCHANGED <<simulator, targetTime, viewTime, asked, clockRead, simPc>>
        /\ mainPc' \notin {"read", "set"}
    BY <1>4 DEF MainStep, DispatchUpdateModel, UpdateModel, TryAcquire, LeaveInnerLoop,
                TakeMessages, ReplaceList, ReleaseLock, FinishUpdate, QuitWakes, QuitJoins,
                MainReturns
  <2>2. UNCHANGED now
    BY <2>1 DEF simulator
  <2> QED
    BY <2>1, <2>2, ListUntouched, ClockUntouched
<1> QED
  BY <1>1, <1>2, <1>3, <1>4

LEMMA ModelStaysBehind ==
    ASSUME IInv, [Next]_vars
    PROVE  RunHasAnEnd' /\ ClockStandsStill' /\ ModelNotAheadOfView'
<1>1. CASE \/ UNCHANGED vars \/ \E s \in sources : FireTimer(s)
           \/ TogglePlay \/ ChangeSpeed \/ Quit
  <2>1. /\ UNCHANGED <<simulator, targetTime, viewTime, asked, clockRead, simPc>>
        /\ mainPc' \in {"read", "set"} => mainPc' = mainPc
    BY <1>1 DEF vars, FireTimer, TogglePlay, ChangeSpeed, Quit, shared, drawing
  <2>2. UNCHANGED now
    BY <2>1 DEF simulator
  <2> QED
    BY <2>1, <2>2, ListUntouched, ClockUntouched
<1> QED
  BY <1>1, SimStaysBehind, MainStaysBehind DEF Next

\* Whoever starts a timer removes the one whose id is known.
LEMMA TimerStaysKnown == ASSUME IInv, [Next]_vars PROVE TimerIsKnown'
<1> USE DEF sync, simulator, shared, timers, drawing, view, TimerIsKnown, IInv
<1>1. CASE UNCHANGED vars
  BY <1>1 DEF vars
<1>2. CASE SimStep
  BY <1>2 DEF SimStep, SimTest, SimWait, SimClear, SimCheck, SimAcquire, SimEnter,
              ProgramEvent, StopCallback, StopEvent, SimReport
<1>3. CASE FinishUpdate
  <2>1. \/ UNCHANGED <<sources, updateTimeoutId, untracked>>
        \/ /\ sources' \subseteq sources
           /\ untracked' <=> untracked \/ updateTimeoutId \in sources'
    <3>1. CASE active /\ taken # <<>>
      BY <1>3, <3>1 DEF FinishUpdate
    <3>2. CASE ~(active /\ taken # <<>>)
      BY <1>3, <3>2 DEF FinishUpdate
    <3> QED
      BY <3>1, <3>2
  <2>2. CASE UNCHANGED <<sources, updateTimeoutId, untracked>>
    BY <2>2
  <2>3. CASE /\ sources' \subseteq sources
             /\ untracked' <=> untracked \/ updateTimeoutId \in sources'
    <3>1. untracked' \/ sources' = {}
      BY <2>3
    <3> QED
      BY <3>1
  <2> QED
    BY <2>1, <2>2, <2>3
<1>4. CASE MainStep /\ ~FinishUpdate
  BY <1>4 DEF MainStep, DispatchUpdateModel, UpdateModel, TryAcquire, LeaveInnerLoop,
              TakeMessages, ReplaceList, DrawView, ReadClock, SetTarget, ReleaseLock,
              QuitWakes, QuitJoins, MainReturns
<1>5. ASSUME NEW s \in sources, FireTimer(s) PROVE TimerIsKnown'
  BY <1>5 DEF FireTimer
<1>6. CASE TogglePlay \/ ChangeSpeed
  BY <1>6 DEF TogglePlay, ChangeSpeed, StartUpdateTimer, SourcesToKeep
<1>7. CASE Quit
  BY <1>7 DEF Quit
<1> QED
  BY <1>1, <1>2, <1>3, <1>4, <1>5, <1>6, <1>7 DEF Next

\* A message moves from the simulator to the list, to the main thread and into a
\* dialog; the places are read together only where the lock keeps one of them still.
LEMMA MessagesStayInOrder == ASSUME IInv, [Next]_vars PROVE MessagesShownOnce'
<1> USE DEF sync, simulator, shared, timers, drawing, view, IInv
<1> DEFINE X == TakenMessages
           Y == RunMessages
<1>1. /\ shown \in Seq(1..produced) /\ pauseMessages \in Seq(1..produced)
      /\ X \in Seq(1..produced) /\ Y \in Seq(1..produced)
      /\ shown \o X \in Seq(1..produced)
      /\ shown \o X \o pauseMessages \in Seq(1..produced)
  BY PartsType
<1>2. [i \in 1..produced |-> i] = shown \o X \o pauseMessages \o Y
  BY DEF MessagesShownOnce
<1>3. CASE UNCHANGED <<produced, shown, pauseMessages>> /\ X' = X /\ Y' = Y
  BY <1>2, <1>3 DEF MessagesShownOnce
<1>4. CASE ProgramEvent
  <2>1. /\ Y = simMessages /\ Y' = simMessages' /\ X' = X
        /\ UNCHANGED <<shown, pauseMessages>>
    BY <1>4 DEF ProgramEvent, TakenMessages, RunMessages
  <2>2. CASE UNCHANGED <<simMessages, produced>>
    BY <1>3, <2>1, <2>2
  <2>3. CASE simMessages' = Append(simMessages, produced + 1) /\ produced' = produced + 1
    <3>1. [i \in 1..produced + 1 |-> i] = [i \in 1..produced |-> i] \o <<produced + 1>>
      BY MessagesGrow DEF Messages, TypeOK
    <3> HIDE DEF X, Y
    <3> DEFINE P == shown \o X \o pauseMessages
               one == <<produced + 1>>
               M == Seq(1..produced + 1)
    <3>2. Y' = Y \o one
      BY <1>1, <2>1, <2>3, AppendIsConcat
    <3>3. P \in M /\ Y \in M
      BY <1>1, MessagesStay DEF TypeOK
    <3>4. one \in M
      BY DEF TypeOK
    <3>5. \A s, t, u \in M : (s \o t) \o u = s \o (t \o u)
      BY Regroup
    <3>6. [i \in 1..produced |-> i] = P \o Y
      BY <1>2
    <3>7. P' = P /\ [i \in 1..produced' |-> i] = [i \in 1..produced |-> i] \o one
      BY <2>1, <2>3, <3>1
    <3> HIDE DEF P, one, M
    <3>8. (P \o Y) \o one = P \o (Y \o one)
      BY <3>3, <3>4, <3>5
    <3>9. P' \o Y' = P \o (Y \o one)
      BY <3>2, <3>7
    <3>10. [i \in 1..produced' |-> i] = P' \o Y'
      BY <3>6, <3>7, <3>8, <3>9
    <3> QED
      BY <3>10 DEF MessagesShownOnce, P, X, Y
  <2> QED
    BY <1>4, <2>2, <2>3 DEF ProgramEvent
<1>5. CASE SimReport
  <2>1. /\ Y = simMessages /\ Y' = <<>> /\ X' = X /\ UNCHANGED <<produced, shown>>
        /\ pauseMessages' = pauseMessages \o simMessages
    BY <1>5 DEF SimReport, TakenMessages, RunMessages
  <2>2. shown \o X \o pauseMessages' = shown \o X \o pauseMessages \o Y
    <3> HIDE DEF X, Y
    <3> DEFINE M == Seq(1..produced)
    <3>1. \A s, t, u \in M : (s \o t) \o u = s \o (t \o u)
      BY Regroup
    <3>2. shown \o X \in M /\ pauseMessages \in M /\ Y \in M
      BY <1>1
    <3> HIDE DEF M
    <3>3. (shown \o X \o pauseMessages) \o Y = (shown \o X) \o (pauseMessages \o Y)
      BY <3>1, <3>2
    <3> QED
      BY <2>1, <3>3
  <2>3. pauseMessages' \in Seq(1..produced)
    BY <1>1, <2>1, ConcatProperties
  <2>4. shown \o X \o pauseMessages' \in Seq(1..produced)
    BY <1>1, <2>3, ConcatProperties
  <2>5. shown' \o X' \o pauseMessages' \o Y' = shown \o X \o pauseMessages'
    BY <2>1, <2>4, ConcatEmptySeq
  <2> QED
    BY <1>2, <2>1, <2>2, <2>5 DEF MessagesShownOnce
<1>6. CASE ReplaceList
  <2>1. /\ Y = <<>> /\ Y' = <<>> /\ X = <<>> /\ X' = pauseMessages
        /\ UNCHANGED <<produced, shown>> /\ pauseMessages' = <<>>
    BY <1>6 DEF ReplaceList, TypeOK, TakenIsCurrent, TakenMessages, RunMessages
  <2>2. shown \o X = shown
    BY <1>1, <2>1, ConcatEmptySeq
  <2>3. shown \o pauseMessages \in Seq(1..produced)
    BY <1>1, ConcatProperties
  <2>4. shown' \o X' \o pauseMessages' = shown \o pauseMessages
    BY <2>1, <2>3, ConcatEmptySeq
  <2> QED
    BY <1>2, <2>1, <2>2, <2>4 DEF MessagesShownOnce
<1>7. CASE FinishUpdate
  <2>1. /\ X = taken /\ X' = <<>> /\ Y' = Y /\ shown' = shown \o X
        /\ UNCHANGED <<produced, pauseMessages>>
    BY <1>7 DEF FinishUpdate, TakenMessages, RunMessages
  <2>2. shown' \o X' = shown \o X
    BY <1>1, <2>1, ConcatEmptySeq
  <2> QED
    BY <1>2, <2>1, <2>2 DEF MessagesShownOnce
<1>8. CASE UNCHANGED vars
  BY <1>3, <1>8 DEF vars, TakenMessages, RunMessages
<1>9. CASE SimEnter
  <2>1. Y = <<>> /\ Y' = <<>> /\ X' = X /\ UNCHANGED <<produced, shown, pauseMessages>>
    BY <1>9 DEF SimEnter, TakenMessages, RunMessages
  <2> QED
    BY <1>3, <2>1
<1>10. ASSUME NEW c \in callbacks, StopCallback(c) PROVE MessagesShownOnce'
  BY <1>3, <1>10 DEF StopCallback, TakenMessages, RunMessages
<1>11. CASE SimTest \/ SimWait \/ SimClear \/ SimCheck \/ SimAcquire \/ StopEvent
  BY <1>3, <1>11 DEF SimTest, SimWait, SimClear, SimCheck, SimAcquire, StopEvent,
                     TakenMessages, RunMessages
<1>12. CASE DispatchUpdateModel \/ UpdateModel \/ TryAcquire \/ LeaveInnerLoop \/ TakeMessages
  BY <1>3, <1>12 DEF DispatchUpdateModel, UpdateModel, TryAcquire, LeaveInnerLoop, TakeMessages,
                     TakenMessages, RunMessages
<1>13. CASE DrawView \/ ReadClock \/ SetTarget \/ ReleaseLock
  BY <1>3, <1>13 DEF DrawView, ReadClock, SetTarget, ReleaseLock, TakenMessages, RunMessages
<1>14. CASE QuitWakes \/ QuitJoins \/ MainReturns
  BY <1>3, <1>14 DEF QuitWakes, QuitJoins, MainReturns, TakenMessages, RunMessages
<1>15. ASSUME NEW s \in sources, FireTimer(s) PROVE MessagesShownOnce'
  BY <1>3, <1>15 DEF FireTimer, TakenMessages, RunMessages
<1>16. CASE TogglePlay \/ ChangeSpeed \/ Quit
  BY <1>3, <1>16 DEF TogglePlay, ChangeSpeed, UserActs, Quit, TakenMessages, RunMessages
<1> QED
  BY <1>4, <1>5, <1>6, <1>7, <1>8, <1>9, <1>10, <1>11, <1>12, <1>13, <1>14, <1>15, <1>16
  DEF Next, SimStep, MainStep

-----------------------------------------------------------------------------
\* The inductive invariant holds throughout every run of the visualizer.
THEOREM VisualizerInvariant == Spec => []IInv
<1>1. Init => IInv
  BY InitInvariant
<1>2. IInv /\ [Next]_vars => IInv'
  BY TypeCorrect, TakenStays, ModelStaysBehind, TimerStaysKnown, MessagesStayInOrder DEF IInv
<1> QED
  BY <1>1, <1>2, PTL DEF Spec

\* Types are right and each thread holds the lock exactly where its code takes it.
THEOREM VisualizerTypeOK == Spec => []TypeOK
<1>1. IInv => TypeOK
  BY DEF IInv
<1> QED
  BY <1>1, VisualizerInvariant, PTL

\* Every message of the simulator is shown once and in order.
THEOREM VisualizerMessages == Spec => []MessagesShownOnce
<1>1. IInv => MessagesShownOnce
  BY DEF IInv
<1> QED
  BY <1>1, VisualizerInvariant, PTL

\* The model stays within one period of what the window shows, although the clock is
\* drawn, read and written about in steps between which the other thread runs.
THEOREM VisualizerModelTime == Spec => []ModelNotAheadOfView
<1>1. IInv => ModelNotAheadOfView
  BY DEF IInv
<1> QED
  BY <1>1, VisualizerInvariant, PTL

\* Two timers at once have one cause: an id that was cleared while its timer lived.
THEOREM VisualizerOneTimer == Spec => []OneUpdateTimer
<1>1. IInv => OneUpdateTimer
  BY AtMostOne DEF IInv, TimerIsKnown, OneUpdateTimer
<1> QED
  BY <1>1, VisualizerInvariant, PTL
=============================================================================
