---------------------------- MODULE MC_TimerQueue ----------------------------
(* Model of the timer list alone: three timer nodes, small deadlines.      *)
EXTENDS TimerQueue

\* Deadlines a client passes when they are all positive.
PositiveDeadlines == {1, 2}

\* Deadlines including 0, which HAPPlatformTimerRegister coerces to 1.
DeadlinesWithZero == {0, 1}
=============================================================================
