\* One domain of two keys, two values, up to two crashes; one FlushFileBuffers
\* call may fail, which WriteFile logs and then renames the file anyway.
CONSTANTS
    Domains <- MCDomainsOne
    KeyIds <- MCKeyIdsTwo
    Values = {v1, v2}
    RootDir = RootDir
    Absent = Absent
    Garbage = Garbage
    NoFile = NoFile
    MaxOps = 4
    MaxCrashes = 2
    MaxFlushFailures = 1
    MaxIoErrors = 1
SPECIFICATION Spec
\* Every call returns and the process may sit idle: the store really stops.
CHECK_DEADLOCK FALSE
PROPERTY StoreRefinement
