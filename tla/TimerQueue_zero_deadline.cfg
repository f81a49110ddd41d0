\* Deadline 0 ("now or past") passed to HAPPlatformTimerRegister.
CONSTANTS
    Timers = {t1, t2, t3}
    NoTimer = NoTimer
    Deadlines <- DeadlinesWithZero
INIT TQInit
NEXT TQNext
INVARIANT EqualDeadlinesFireInRegistrationOrder
