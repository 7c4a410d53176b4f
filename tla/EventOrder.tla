----------------------------- MODULE EventOrder -----------------------------
(* What an event-driven simulation may rely on, without lists, threads or     *)
(* handles: events that are due at a time, each run at most once, in the      *)
(* order of their times and, for one time, of their numbers, while the clock  *)
(* never goes back.                                                           *)
EXTENDS Integers, Sequences

VARIABLES
    now,     \* the clock
    waiting, \* events to be run: records [ts, uid]
    ran      \* events run so far, in order

vars == <<now, waiting, ran>>

Before(e, f) == e.ts < f.ts \/ (e.ts = f.ts /\ e.uid < f.uid)

Init == now = 0 /\ waiting = {} /\ ran = <<>>

\* Events are added for now or later, with numbers above all earlier ones.
Add(new) ==
    /\ \A e \in new : e.ts >= now
    /\ \A e \in new : \A f \in waiting : f.uid < e.uid
    /\ \A e \in new : \A i \in DOMAIN ran : ran[i].uid < e.uid
    /\ waiting' = waiting \cup new
    /\ UNCHANGED <<now, ran>>

Drop(old) ==
    /\ old \subseteq waiting
    /\ waiting' = waiting \ old
    /\ UNCHANGED <<now, ran>>

RunNext(e) ==
    /\ e \in waiting
    /\ \A f \in waiting \ {e} : Before(e, f)
    /\ now' = e.ts
    /\ ran' = Append(ran, e)
    /\ waiting' = waiting \ {e}

\* The clock moves without an event: a cancelled one was due.
Pass(t) ==
    /\ t >= now
    /\ \A e \in waiting : t <= e.ts
    /\ now' = t
    /\ UNCHANGED <<waiting, ran>>

\* What may be added or dropped is any set of events.
Next ==
    \/ Add(waiting' \ waiting)
    \/ Drop(waiting \ waiting')
    \/ \E e \in waiting : RunNext(e)
    \/ Pass(now')

Spec == Init /\ [][Next]_vars
=============================================================================
