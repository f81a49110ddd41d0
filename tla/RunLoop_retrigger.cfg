\* A timer callback registers a timer whose deadline has already passed.
CONSTANTS
    Handles = {}
    SelfPipe = SelfPipe
    Sentinel = Sentinel
    Timers = {t1, t2}
    Deadlines <- MCDeadlinesOne
    NoTimer = NoTimer
    InterestChoices <- MCInterests
    Posters = {}
    ReactorPoster = rp
    NoMessage = NoMessage
    MaxTime = 2
    MaxOps = 3
    MaxPosts = 0
    MaxEnv = 0
    MaxPollErrors = 1
    MaxWake = 2
    PollTimeoutMax = 1
SPECIFICATION Spec
\* Run returns and main releases the loop: the program ends there.
CHECK_DEADLOCK FALSE
INVARIANT NoRetriggerInPass
