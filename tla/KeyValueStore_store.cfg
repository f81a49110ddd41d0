\* The key-value store with two domains of two keys over a disk that writes
\* back lazily, with up to two crashes, a failed Win32 call or HAPFatalError
\* in RemoveFile; every FlushFileBuffers call succeeds.
CONSTANTS
    Domains <- MCDomains
    KeyIds <- MCKeyIdsTwo
    Values = {v1}
    RootDir = RootDir
    Absent = Absent
    Garbage = Garbage
    NoFile = NoFile
    MaxOps = 3
    MaxCrashes = 2
    MaxFlushFailures = 0
    MaxIoErrors = 1
SPECIFICATION Spec
\* Every call returns and the process may sit idle: the store really stops.
CHECK_DEADLOCK FALSE
INVARIANT TypeOK
PROPERTIES  PurgeRemovesExactlyDomain
