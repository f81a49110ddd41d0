\* Descriptors only: dispatch under callbacks that deregister, re-register
\* and update handles, and Stop from a descriptor callback.
CONSTANTS
    Handles = {h1, h2}
    SelfPipe = SelfPipe
    Sentinel = Sentinel
    Timers = {}
    Deadlines <- MCDeadlines
    NoTimer = NoTimer
    InterestChoices <- MCInterests
    Posters = {}
    ReactorPoster = rp
    NoMessage = NoMessage
    MaxTime = 0
    MaxOps = 4
    MaxPosts = 0
    MaxEnv = 2
    MaxPollErrors = 1
    MaxWake = 2
    PollTimeoutMax = 1
SPECIFICATION Spec
\* Run returns and main releases the loop: the program ends there.
CHECK_DEADLOCK FALSE
INVARIANT DispatchSafe
PROPERTY CallbackOnlyForSelectedHandle
