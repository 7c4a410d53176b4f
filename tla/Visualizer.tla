----------------------------- MODULE Visualizer -----------------------------
(***************************************************************************)
(* The two threads of the visualizer (visualizer/core.py): SimulationThread *)
(* runs the simulator one period at a time when go is set, the main thread *)
(* runs the event loop of GTK and, in update_view_timeout, shows the model *)
(* and asks for the next period.  While the simulator is busy that         *)
(* callback runs the event loop again, so that the user may pause, change  *)
(* the speed or quit inside it, and another timer may call it once more.   *)
(*                                                                         *)
(* SimulatorRunUntil (visualizer/model/pyviz.cc) runs events of the        *)
(* program, each at a time of its own and some of them with a message of   *)
(* PyViz::Pause or with the end of the run, until a callback that it       *)
(* scheduled for the target stops the simulator.  Callbacks of runs that   *)
(* the program ended stay in the event list.                               *)
(***************************************************************************)
EXTENDS Integers, Sequences, FiniteSets

CONSTANTS Periods,     \* values of sample_period, in ticks
          MaxGap,      \* bound on the time from one event of the program to the next
          MaxMessages, \* bound on the messages of PyViz::Pause
          MaxFirings,  \* bound on the calls of update_view_timeout
          MaxActions   \* bound on what the user does

ASSUME VisualizerAssumption ==
    /\ Periods \subseteq Nat \ {0}
    /\ MaxGap \in Nat /\ MaxMessages \in Nat /\ MaxFirings \in Nat /\ MaxActions \in Nat

VARIABLES
    lock, go, quit,       \* of SimulationThread: lock is the thread that holds it
    targetTime,           \* target_time
    pauseMessages,        \* pause_messages
    simPc,                \* where the simulation thread is
    now,                  \* time of the simulator
    runUntil,             \* m_runUntil of PyViz
    callbacks,            \* CallbackStopSimulation in the event list: [at, nth of that time]
    stops,                \* Simulator::Stop events of the current time in the event list
    simMessages,          \* m_pauseMessages of PyViz: of the last run
    idle,                 \* update_model callbacks that wait in the event loop
    mainPc,               \* where the main thread is
    frames,               \* timers of the calls of update_view_timeout, outermost first
    taken,                \* pause_messages in update_view_timeout
    viewTime,             \* time of the model that update_view showed last
    clockRead,            \* what Simulator::Now gave update_view_timeout
    active,               \* play_button is down
    samplePeriod,         \* sample_period
    sources,              \* timers of the event loop
    updateTimeoutId,      \* _update_timeout_id, 0 for None
    nextId,               \* the id that timeout_add returns next
    mainQuit,             \* Gtk.main_quit was called
    firings, actions,     \* bounded counts
    asked,                \* history: the sample_period that target_time was set with
    produced,             \* history: messages so far
    shown,                \* history: messages in dialogs
    untracked             \* history: _update_timeout_id was cleared while its timer lived

sync == <<lock, go, quit>>
simulator == <<now, runUntil, callbacks, stops, simMessages, produced>>
shared == <<targetTime, pauseMessages, idle>>
timers == <<sources, updateTimeoutId, nextId>>
drawing == <<taken, viewTime, clockRead, asked>>
view == <<frames, active, samplePeriod, mainQuit, firings, actions, shown, untracked>>
vars == <<sync, simulator, shared, simPc, mainPc, timers, drawing, view>>

\* The speed control starts a timer when the window is created (line 1049).
Init ==
    /\ lock = "free" /\ go = FALSE /\ quit = FALSE
    /\ targetTime = 0 /\ pauseMessages = <<>>
    /\ simPc = "test" /\ idle = 0
    /\ now = 0 /\ runUntil = 0 /\ callbacks = {} /\ stops = 0
    /\ simMessages = <<>>
    /\ mainPc = "dispatch" /\ frames = <<>> /\ taken = <<>>
    /\ viewTime = 0 /\ clockRead = 0 /\ asked = 0
    /\ active = FALSE
    /\ samplePeriod \in Periods
    /\ sources = {1} /\ updateTimeoutId = 1 /\ nextId = 2
    /\ mainQuit = FALSE
    /\ firings = 0 /\ actions = 0
    /\ produced = 0 /\ shown = <<>> /\ untracked = FALSE

-----------------------------------------------------------------------------
(* The simulation thread: SimulationThread.run. *)

SimTest ==
    /\ simPc = "test"
    /\ simPc' = IF quit THEN "ended" ELSE "wait"
    /\ UNCHANGED <<sync, simulator, shared, mainPc, timers, drawing, view>>

SimWait ==
    /\ simPc = "wait" /\ go
    /\ simPc' = "clear"
    /\ UNCHANGED <<sync, simulator, shared, mainPc, timers, drawing, view>>

SimClear ==
    /\ simPc = "clear"
    /\ go' = FALSE
    /\ simPc' = "check"
    /\ UNCHANGED <<lock, quit, simulator, shared, mainPc, timers, drawing, view>>

SimCheck ==
    /\ simPc = "check"
    /\ simPc' = IF quit THEN "ended" ELSE "acquire"
    /\ UNCHANGED <<sync, simulator, shared, mainPc, timers, drawing, view>>

SimAcquire ==
    /\ simPc = "acquire" /\ lock = "free"
    /\ lock' = "sim"
    /\ simPc' = "enter"
    /\ UNCHANGED <<go, quit, simulator, shared, mainPc, timers, drawing, view>>

\* SimulatorRunUntil: nothing runs if the target is not ahead; else a callback is
\* scheduled for it and the simulator runs.
SimEnter ==
    /\ simPc = "enter"
    /\ simMessages' = <<>>
    /\ \/ /\ now >= targetTime
          /\ simPc' = "report"
          /\ UNCHANGED <<runUntil, callbacks>>
       \/ /\ now < targetTime
          /\ runUntil' = targetTime
          /\ callbacks' = callbacks \cup
                 {[at |-> targetTime, nth |-> Cardinality({c \in callbacks : c.at = targetTime})]}
          /\ simPc' = "run"
    /\ UNCHANGED <<sync, now, stops, produced, shared, mainPc, timers, drawing, view>>

\* Nothing in the event list comes before time t.
DueBy(t) ==
    /\ \A c \in callbacks : t <= c.at
    /\ stops > 0 => t = now

\* An event of the program, which may pause the visualizer or stop the simulator.
ProgramEvent ==
    /\ simPc = "run"
    /\ \E t \in now .. now + MaxGap : DueBy(t) /\ now' = t
    /\ \/ UNCHANGED <<simMessages, produced>>
       \/ /\ produced < MaxMessages
          /\ simMessages' = Append(simMessages, produced + 1)
          /\ produced' = produced + 1
    /\ simPc' \in {"run", "report"}
    /\ UNCHANGED <<sync, runUntil, callbacks, stops, shared, mainPc, timers, drawing,
                   view>>

Before(c, d) == c.at < d.at \/ (c.at = d.at /\ c.nth < d.nth)

\* CallbackStopSimulation, as the next event; Simulator::Stop is due after it.
StopCallback(c) ==
    /\ simPc = "run"
    /\ \A d \in callbacks \ {c} : Before(c, d)
    /\ DueBy(c.at)
    /\ now' = c.at
    /\ callbacks' = callbacks \ {c}
    /\ stops' = IF runUntil <= c.at THEN stops + 1 ELSE stops
    /\ UNCHANGED <<sync, runUntil, simMessages, produced, shared, simPc, mainPc, timers,
                   drawing, view>>

\* Simulator::Stop: every callback of the current time was scheduled before it.
StopEvent ==
    /\ simPc = "run"
    /\ stops > 0
    /\ \A c \in callbacks : c.at > now
    /\ stops' = stops - 1
    /\ simPc' = "report"
    /\ UNCHANGED <<sync, now, runUntil, callbacks, simMessages, produced, shared, mainPc,
                   timers, drawing, view>>

\* The messages are handed over, update_model is queued and the lock released.
SimReport ==
    /\ simPc = "report"
    /\ pauseMessages' = pauseMessages \o simMessages
    /\ idle' = idle + 1
    /\ lock' = "free"
    /\ simPc' = "test"
    /\ UNCHANGED <<go, quit, targetTime, simulator, mainPc, timers, drawing, view>>

-----------------------------------------------------------------------------
(* The main thread: the event loop dispatches ("dispatch"), at the top or     *)
(* inside the innermost call of update_view_timeout.                          *)

\* update_model has a higher priority than the timer: it blocks on the lock.
DispatchUpdateModel ==
    /\ mainPc = "dispatch" /\ idle > 0
    /\ idle' = idle - 1
    /\ mainPc' = "model"
    /\ UNCHANGED <<sync, simulator, targetTime, pauseMessages, simPc, timers, drawing, view>>

UpdateModel ==
    /\ mainPc = "model" /\ lock = "free"
    /\ mainPc' = "dispatch"
    /\ UNCHANGED <<sync, simulator, shared, simPc, timers, drawing, view>>

\* GLib does not call a timer again while it is being called.
FireTimer(s) ==
    /\ mainPc = "dispatch" /\ idle = 0 /\ firings < MaxFirings
    /\ \A i \in 1..Len(frames) : frames[i] # s
    /\ firings' = firings + 1
    /\ frames' = Append(frames, s)
    /\ mainPc' = "try"
    /\ UNCHANGED <<sync, simulator, shared, simPc, timers, drawing, active, samplePeriod, mainQuit,
                   actions, shown, untracked>>

\* Mutant: update_view_timeout does not wait for the lock.
NoLock == TRUE

LockIsFree == lock = "free"

TryAcquire ==
    /\ mainPc = "try"
    /\ \/ LockIsFree /\ lock' = "main" /\ mainPc' = "take"
       \/ ~LockIsFree /\ mainPc' = "dispatch" /\ UNCHANGED lock
    /\ UNCHANGED <<go, quit, simulator, shared, simPc, timers, drawing, view>>

\* No event is pending in the inner loop: the lock is tried again.
LeaveInnerLoop ==
    /\ mainPc = "dispatch" /\ frames # <<>> /\ idle = 0
    /\ mainPc' = "try"
    /\ UNCHANGED <<sync, simulator, shared, simPc, timers, drawing, view>>

TakeMessages ==
    /\ mainPc = "take"
    /\ taken' = pauseMessages
    /\ mainPc' = "replace"
    /\ UNCHANGED <<sync, simulator, shared, simPc, timers, viewTime, clockRead, asked, view>>

ReplaceList ==
    /\ mainPc = "replace"
    /\ pauseMessages' = <<>>
    /\ mainPc' = "draw"
    /\ UNCHANGED <<sync, simulator, targetTime, idle, simPc, timers, drawing, view>>

\* update_view shows the model as it is.
DrawView ==
    /\ mainPc = "draw"
    /\ viewTime' = now
    /\ mainPc' = "read"
    /\ UNCHANGED <<sync, simulator, shared, simPc, timers, taken, clockRead, asked, view>>

ReadClock ==
    /\ mainPc = "read"
    /\ clockRead' = now
    /\ mainPc' = "set"
    /\ UNCHANGED <<sync, simulator, shared, simPc, timers, taken, viewTime, asked, view>>

SetTarget ==
    /\ mainPc = "set"
    /\ targetTime' = clockRead + samplePeriod
    /\ asked' = samplePeriod
    /\ clockRead' = 0
    /\ mainPc' = "release"
    /\ UNCHANGED <<sync, simulator, pauseMessages, idle, simPc, timers, taken, viewTime, view>>

ReleaseLock ==
    /\ mainPc = "release"
    /\ lock' = "free"
    /\ mainPc' = "finish"
    /\ UNCHANGED <<go, quit, simulator, shared, simPc, timers, drawing, view>>

\* The end of update_view_timeout: messages are shown and release the button,
\* whose handler removes the timer; a paused view stops its timer, another one
\* sets go.
FinishUpdate ==
    LET own == frames[Len(frames)]
        stays == active /\ taken = <<>>
        left == IF active /\ taken # <<>> THEN sources \ {updateTimeoutId} ELSE sources
    IN
    /\ mainPc = "finish"
    /\ shown' = shown \o taken
    /\ taken' = <<>>
    /\ active' = stays
    /\ \/ /\ stays
          /\ go' = TRUE
          /\ UNCHANGED <<sources, updateTimeoutId, untracked>>
       \/ /\ ~stays
          /\ sources' = left \ {own}
          /\ updateTimeoutId' = 0
          /\ untracked' = (untracked \/ updateTimeoutId \in left \ {own})
          /\ UNCHANGED go
    /\ frames' = SubSeq(frames, 1, Len(frames) - 1)
    /\ mainPc' = "dispatch"
    /\ UNCHANGED <<lock, quit, simulator, shared, simPc, nextId, viewTime, clockRead, asked,
                   samplePeriod, mainQuit, firings, actions>>

\* Mutant: the timer that runs is not removed when another one is started.
KeptSources == sources

SourcesToKeep == sources \ {updateTimeoutId}

\* _start_update_timer
StartUpdateTimer ==
    /\ sources' = SourcesToKeep \cup {nextId}
    /\ updateTimeoutId' = nextId
    /\ nextId' = nextId + 1

UserActs ==
    /\ mainPc = "dispatch" /\ ~quit /\ actions < MaxActions
    /\ actions' = actions + 1

\* _on_play_button_toggled: the id of the timer that is removed stays.
TogglePlay ==
    /\ UserActs
    /\ active' = ~active
    /\ \/ /\ ~active
          /\ StartUpdateTimer
       \/ /\ active
          /\ sources' = sources \ {updateTimeoutId}
          /\ UNCHANGED <<updateTimeoutId, nextId>>
    /\ UNCHANGED <<sync, simulator, shared, simPc, mainPc, drawing, frames, samplePeriod, mainQuit,
                   firings, shown, untracked>>

\* _speed_changed starts a timer, whether the view is paused or not.
ChangeSpeed ==
    /\ UserActs
    /\ samplePeriod' \in Periods
    /\ StartUpdateTimer
    /\ UNCHANGED <<sync, simulator, shared, simPc, mainPc, drawing, frames, active, mainQuit, firings,
                   shown, untracked>>

\* _quit, until the flag is set.
Quit ==
    /\ mainPc = "dispatch" /\ ~quit
    /\ sources' = sources \ {updateTimeoutId}
    /\ updateTimeoutId' = 0
    /\ quit' = TRUE
    /\ mainPc' = "wake"
    /\ UNCHANGED <<lock, go, simulator, shared, simPc, nextId, drawing, view>>

\* Mutant: _quit does not wake the simulation thread.
NoWake == UNCHANGED go

Wake == go' = TRUE

QuitWakes ==
    /\ mainPc = "wake"
    /\ Wake
    /\ mainPc' = "join"
    /\ UNCHANGED <<lock, quit, simulator, shared, simPc, timers, drawing, view>>

QuitJoins ==
    /\ mainPc = "join" /\ simPc = "ended"
    /\ mainQuit' = TRUE
    /\ mainPc' = "dispatch"
    /\ UNCHANGED <<sync, simulator, shared, simPc, timers, drawing, frames, active, samplePeriod,
                   firings, actions, shown, untracked>>

\* Gtk.main returns once no call of update_view_timeout is left.
MainReturns ==
    /\ mainPc = "dispatch" /\ frames = <<>> /\ mainQuit
    /\ mainPc' = "ended"
    /\ UNCHANGED <<sync, simulator, shared, simPc, timers, drawing, view>>

-----------------------------------------------------------------------------
SimStep ==
    \/ SimTest \/ SimWait \/ SimClear \/ SimCheck \/ SimAcquire
    \/ SimEnter \/ ProgramEvent \/ StopEvent \/ SimReport
    \/ \E c \in callbacks : StopCallback(c)

\* What the main thread does without the user and the clock.
MainStep ==
    \/ DispatchUpdateModel \/ UpdateModel \/ TryAcquire \/ LeaveInnerLoop
    \/ TakeMessages \/ ReplaceList \/ DrawView \/ ReadClock \/ SetTarget \/ ReleaseLock
    \/ FinishUpdate
    \/ QuitWakes \/ QuitJoins \/ MainReturns

Next ==
    \/ SimStep \/ MainStep
    \/ \E s \in sources : FireTimer(s)
    \/ TogglePlay \/ ChangeSpeed \/ Quit

\* Both threads are scheduled and the events of a run are executed.
Spec == Init /\ [][Next]_vars /\ WF_vars(SimStep) /\ WF_vars(MainStep)
-----------------------------------------------------------------------------
(* Properties *)

\* Types, and which thread holds the lock where.
TypeOK ==
    /\ lock \in {"free", "sim", "main"} /\ go \in BOOLEAN /\ quit \in BOOLEAN
    /\ targetTime \in Nat /\ now \in Nat
    /\ pauseMessages \in Seq(1..produced) /\ simMessages \in Seq(1..produced)
    /\ taken \in Seq(1..produced) /\ shown \in Seq(1..produced)
    /\ simPc \in {"test", "wait", "clear", "check", "acquire", "enter", "run",
                  "report", "ended"}
    /\ mainPc \in {"dispatch", "model", "try", "take", "replace", "draw", "read", "set",
                   "release", "finish", "wake", "join", "ended"}
    /\ runUntil \in Nat /\ stops \in Nat
    /\ callbacks \subseteq [at : Nat, nth : Nat]
    /\ viewTime \in Nat /\ clockRead \in Nat /\ asked \in Nat
    /\ idle \in Nat /\ produced \in Nat
    /\ active \in BOOLEAN /\ mainQuit \in BOOLEAN /\ untracked \in BOOLEAN
    /\ samplePeriod \in Periods
    /\ nextId \in Nat
    /\ sources \subseteq 1..nextId - 1 /\ updateTimeoutId \in 0..nextId - 1
    /\ frames \in Seq(1..nextId - 1)
    /\ firings \in 0..MaxFirings /\ actions \in 0..MaxActions
    /\ lock = "sim" <=> simPc \in {"enter", "run", "report"}
    /\ lock = "main" <=> mainPc \in {"take", "replace", "draw", "read", "set", "release"}

\* Messages that update_view_timeout took out of the list, and those of the run so far.
TakenMessages ==
    IF mainPc \in {"draw", "read", "set", "release", "finish"} THEN taken ELSE <<>>
RunMessages == IF simPc \in {"run", "report"} THEN simMessages ELSE <<>>

\* Every message of PyViz::Pause is shown once and in order: the simulation
\* thread extends the list that the main thread takes and replaces.
MessagesShownOnce ==
    [i \in 1..produced |-> i] = shown \o TakenMessages \o pauseMessages \o RunMessages

\* The model is never ahead of the view (the case that the comment at core.py:676-677
\* would skip): it has not passed its target, and the target lies at most the period that
\* was asked for after what the window shows.  The view is drawn, the clock read and the
\* target written in three steps; the other thread moves that clock, and only the lock
\* keeps it still between them.
ModelNotAheadOfView == now <= targetTime /\ targetTime <= viewTime + asked

\* Two update timers run at the same time only after update_view_timeout, paused
\* inside its inner loop, cleared the id of a timer that the speed control had
\* started there: the code of _start_update_timer removes every other one.
OneUpdateTimer == untracked \/ Cardinality(sources) <= 1

\* Closing the window ends the program, wherever both threads are: inside the
\* inner event loop, in a run of the simulator or waiting for go.
QuitEnds == quit ~> (simPc = "ended" /\ mainPc = "ended")
=============================================================================
