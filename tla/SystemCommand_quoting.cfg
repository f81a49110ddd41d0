\* One call whose arguments, after the program name, are up to two strings
\* of up to two characters among letter, space, tab, double quote and
\* backslash, with or without an environment; every Win32 call succeeds.
CONSTANTS
    Programs <- MCPrograms
    ArgChars <- MCArgCharsAll
    MaxArgs = 2
    MaxArgLen = 2
    Environments = {e1}
    NoEnvironment = NoEnvironment
    ParentEnvironment = pe
    MaxBytesChoices = {1}
    MaxOutput = 0
    PipeCapacity = 1
    MaxCalls = 1
    MaxFailures = 0
SPECIFICATION Spec
CHECK_DEADLOCK FALSE
INVARIANT ChildRunsCommand
