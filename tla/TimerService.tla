---------------------------- MODULE TimerService ----------------------------
(***************************************************************************)
(* What the timer queue of the run loop promises its clients, with no list *)
(* in it: a set of pending timers, each with the deadline it was stored    *)
(* with and its place in registration order.  A timer fires only once its  *)
(* deadline has passed, and of the due timers the one with the earliest    *)
(* deadline fires first, ties going to the one registered first.  A fired *)
(* timer stays allocated until its callback returns.                       *)
(***************************************************************************)
EXTENDS Naturals, Sequences, SequencesExt

CONSTANTS Timers, Deadlines, NoTimer, MaxTime

VARIABLES
    pending,    \* timers registered and neither fired nor deregistered
    deadline,   \* deadline[t]: the deadline timer t was stored with
    regOrder,   \* pending timers in registration order
    firing,     \* the timer whose callback runs, or NoTimer
    now         \* the monotonic clock

vars == <<pending, deadline, regOrder, firing, now>>

\* A deadline of "now or past" (0) is kept as the smallest positive time.
Coerced(d) == IF d = 0 THEN 1 ELSE d

Earlier(u, v) ==
    \/ deadline[u] < deadline[v]
    \/ /\ deadline[u] = deadline[v]
       /\ SelectInSeq(regOrder, LAMBDA x : x = u)
            < SelectInSeq(regOrder, LAMBDA x : x = v)

Register(t, d) ==
    /\ t \notin pending \cup {firing}
    /\ pending' = pending \cup {t}
    /\ deadline' = [deadline EXCEPT ![t] = Coerced(d)]
    /\ regOrder' = Append(regOrder, t)
    /\ UNCHANGED <<firing, now>>

Deregister(t) ==
    /\ t \in pending
    /\ pending' = pending \ {t}
    /\ regOrder' = Remove(regOrder, t)
    /\ UNCHANGED <<deadline, firing, now>>

Fire(t) ==
    /\ firing = NoTimer
    /\ t \in pending
    /\ deadline[t] <= now
    /\ \A u \in pending \ {t} : Earlier(t, u)
    /\ firing' = t
    /\ pending' = pending \ {t}
    /\ regOrder' = Remove(regOrder, t)
    /\ UNCHANGED <<deadline, now>>

Return ==
    /\ firing /= NoTimer
    /\ firing' = NoTimer
    /\ UNCHANGED <<pending, deadline, regOrder, now>>

Tick ==
    /\ now < MaxTime
    /\ now' = now + 1
    /\ UNCHANGED <<pending, deadline, regOrder, firing>>

Init ==
    /\ pending = {}
    /\ deadline = [t \in Timers |-> 1]
    /\ regOrder = <<>>
    /\ firing = NoTimer
    /\ now = 0

Next ==
    \/ \E t \in Timers, d \in Deadlines : Register(t, d)
    \/ \E t \in Timers : Deregister(t) \/ Fire(t)
    \/ Return
    \/ Tick

Spec == Init /\ [][Next]_vars

=============================================================================
