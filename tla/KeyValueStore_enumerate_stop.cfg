\* Enumerate with a client callback that may stop the enumeration, every
\* Win32 call succeeding.
CONSTANTS
    Domains <- MCDomainsOne
    KeyIds <- MCKeyIdsTwo
    Values = {v1}
    RootDir = RootDir
    Absent = Absent
    Garbage = Garbage
    NoFile = NoFile
    MaxOps = 2
    MaxCrashes = 0
    MaxFlushFailures = 0
    MaxIoErrors = 0
SPECIFICATION Spec
\* Every call returns and the process may sit idle: the store really stops.
CHECK_DEADLOCK FALSE
PROPERTY EnumerateStopReturnsNone
