\* A thread other than the reactor and the reactor itself, from a timer
\* callback, both post with ScheduleCallback.
CONSTANTS
    Handles = {}
    SelfPipe = SelfPipe
    Sentinel = Sentinel
    Timers = {t1}
    Deadlines <- MCDeadlines
    NoTimer = NoTimer
    InterestChoices <- MCInterests
    Posters = {ext, rp}
    ReactorPoster = rp
    NoMessage = NoMessage
    MaxTime = 1
    MaxOps = 2
    MaxPosts = 3
    MaxEnv = 0
    MaxPollErrors = 1
    MaxWake = 2
    PollTimeoutMax = 1
SPECIFICATION Spec
\* Run returns and main releases the loop: the program ends there.
CHECK_DEADLOCK FALSE
PROPERTY MailboxRefinement
