----------------------------- MODULE TimerQueue -----------------------------
(***************************************************************************)
(* The timer list of src/PAL/Windows/HAPPlatformRunLoop.c: a singly linked *)
(* list runLoop.timers kept in deadline order by HAPPlatformTimerRegister, *)
(* shortened by HAPPlatformTimerDeregister and popped at the head by       *)
(* ProcessExpiredTimers, which removes a timer before calling its          *)
(* callback and frees it after the callback returns.                       *)
(*                                                                         *)
(* The list is a sequence of timer slots (model values standing for the    *)
(* calloc'ed HAPPlatformTimer nodes); deadline[t] is the deadline stored   *)
(* in node t.  A slot is free for calloc when it is neither listed nor the *)
(* timer whose callback is running.  This module is composed into RunLoop, *)
(* which adds the clock and the run loop around PopTimer.  On its own it   *)
(* lets any client register, deregister and pop, to check the list order.  *)
(***************************************************************************)
EXTENDS Naturals, Sequences, SequencesExt

CONSTANTS
    Timers,            \* timer node slots (model values)
    Deadlines,         \* absolute deadlines (HAPTime) a client may pass
    NoTimer            \* no timer callback running

VARIABLES
    timers,     \* runLoop.timers as a sequence of nodes, head first
    deadline,   \* deadline[t]: the deadline field of node t
    firing,     \* the expiredTimer whose callback is running, or NoTimer
    regOrder    \* history: the listed nodes in the order they were registered

tqVars == <<timers, deadline, firing, regOrder>>

PendingTimers == Range(timers)

\* calloc may hand out any node that is not listed and not being fired
\* (the fired node is freed only after its callback returns).
FreeTimers == Timers \ (PendingTimers \cup {firing})

\* Line 268: a deadline of 0 is stored as 1.
StoredDeadline(d) == IF d = 0 THEN 1 ELSE d

\* Mutation: insert before the first entry whose deadline is >= (not >).
InsertTimerBeforeEqual(list, dl, t, d) ==
    LET i == SelectInSeq(list, LAMBDA u : dl[u] >= d)
    IN  InsertAt(list, IF i = 0 THEN Len(list) + 1 ELSE i, t)

\* Lines 272-283: walk the list and link the new node in front of the first
\* entry whose stored deadline is strictly greater than the deadline the
\* caller passed (the raw value, not the coerced one), else at the end.
InsertTimer(list, dl, t, d) ==
    LET i == SelectInSeq(list, LAMBDA u : dl[u] > d)
    IN  InsertAt(list, IF i = 0 THEN Len(list) + 1 ELSE i, t)

\* HAPPlatformTimerRegister (lines 254-286).  Allocation failure returns
\* kHAPError_OutOfResources before touching the list and is not a step.
RegisterTimer(t, d) ==
    /\ t \in FreeTimers
    /\ timers' = InsertTimer(timers, deadline, t, d)
    /\ deadline' = [deadline EXCEPT ![t] = StoredDeadline(d)]
    /\ regOrder' = Append(regOrder, t)
    /\ UNCHANGED firing

\* HAPPlatformTimerDeregister (lines 288-301): unlink the node.  Passing a
\* node that is not listed is HAPFatalError (line 300); callers must not.
DeregisterTimer(t) ==
    /\ t \in PendingTimers
    /\ timers' = Remove(timers, t)
    /\ regOrder' = Remove(regOrder, t)
    /\ UNCHANGED <<deadline, firing>>

\* ProcessExpiredTimers lines 311-314: unlink the head, then call it.
PopTimer ==
    /\ timers /= <<>>
    /\ firing = NoTimer
    /\ firing' = Head(timers)
    /\ timers' = Tail(timers)
    /\ regOrder' = Remove(regOrder, Head(timers))
    /\ UNCHANGED deadline

\* Line 316: the callback has returned and the node is freed.
TimerReturn ==
    /\ firing /= NoTimer
    /\ firing' = NoTimer
    /\ UNCHANGED <<timers, deadline, regOrder>>

TQInit ==
    /\ timers = <<>>
    /\ deadline = [t \in Timers |-> 1]
    /\ firing = NoTimer
    /\ regOrder = <<>>

TQNext ==
    \/ \E t \in Timers, d \in Deadlines : RegisterTimer(t, d)
    \/ \E t \in Timers : DeregisterTimer(t)
    \/ PopTimer
    \/ TimerReturn

TQSpec == TQInit /\ [][TQNext]_tqVars

-----------------------------------------------------------------------------

TQTypeOK ==
    /\ timers \in Seq(Timers)
    /\ deadline \in [Timers -> Nat]
    /\ firing \in Timers \cup {NoTimer}
    /\ regOrder \in Seq(Timers)

\* Two timers are fired in the order (stored deadline, registration order).
FiresBefore(u, v) ==
    \/ deadline[u] < deadline[v]
    \/ /\ deadline[u] = deadline[v]
       /\ SelectInSeq(regOrder, LAMBDA x : x = u)
            < SelectInSeq(regOrder, LAMBDA x : x = v)

(***************************************************************************)
(* The list is ordered by deadline, and timers with equal deadlines keep   *)
(* registration order, so the first registered fires first.  This is what *)
(* the walk in HAPPlatformTimerRegister (lines 272-283) must keep true     *)
(* across any interleaving of registrations, deregistrations and pops.    *)
(***************************************************************************)
EqualDeadlinesFireInRegistrationOrder ==
    IsSorted(timers, FiresBefore)

=============================================================================
