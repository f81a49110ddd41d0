\* Timers, and a thread other than the reactor posting with ScheduleCallback:
\* the refinements of TimerService and Mailbox, timer and post progress, Stop, and main's Winsock start-up and clean-up.
CONSTANTS
    Handles = {}
    SelfPipe = SelfPipe
    Sentinel = Sentinel
    Timers = {t1, t2}
    Deadlines <- MCDeadlines
    NoTimer = NoTimer
    InterestChoices <- MCInterests
    Posters = {ext}
    ReactorPoster = rp
    NoMessage = NoMessage
    MaxTime = 2
    MaxOps = 3
    MaxPosts = 3
    MaxEnv = 0
    MaxPollErrors = 1
    MaxWake = 2
    PollTimeoutMax = 1
SPECIFICATION Spec
\* Run returns and main releases the loop: the program ends there.
CHECK_DEADLOCK FALSE
INVARIANTS TypeOK WinsockReleasedAtExit
PROPERTIES TimerServiceRefinement TimerEventuallyFires StopTerminates MailboxRefinement PostEventuallyDelivered
