\* Two calls with a buffer of up to two bytes, a child writing up to four bytes
\* through a pipe of two bytes, with one failed Win32 call or malloc.
CONSTANTS
    Programs <- MCPrograms
    ArgChars <- MCArgCharsPlain
    MaxArgs = 1
    MaxArgLen = 1
    Environments = {e1}
    NoEnvironment = NoEnvironment
    ParentEnvironment = pe
    MaxBytesChoices = {0, 1, 2}
    MaxOutput = 4
    PipeCapacity = 2
    MaxCalls = 2
    MaxFailures = 1
SPECIFICATION Spec
\* After its last call the caller makes no more: the program stops there.
CHECK_DEADLOCK FALSE
INVARIANTS TypeOK ResultMatchesOutput
PROPERTY CallReturns
