---------------------------- MODULE SystemCommand ----------------------------
(***************************************************************************)
(* HAPPlatformSystemCommandRunWithEnvironment of                           *)
(* src/PAL/Windows/HAPPlatformSystemCommand.c: it joins the argument       *)
(* vector into one command line, builds an environment block, starts the   *)
(* child with CreateProcessA and its standard output on an anonymous pipe, *)
(* reads at most maxBytes of that output, probes for one more byte, closes *)
(* the pipe, waits for the child and maps its exit code to a HAPError.     *)
(*                                                                         *)
(* A call runs on the caller's thread; the child process runs beside it:   *)
(* it writes its output into the pipe byte by byte, blocking while the     *)
(* pipe is full, and exits.  A character is one of a few strings (a       *)
(* letter, space, tab, double quote, backslash); an output byte is only    *)
(* counted.  The child sees the argument vector its C runtime parses from  *)
(* the command line (ParseCommandLine, the rules of the Microsoft C        *)
(* runtime), and the environment the block it was given holds.             *)
(***************************************************************************)
EXTENDS Naturals, Sequences, SequencesExt

CONSTANTS
    Programs,          \* argv[0] values: non-empty character sequences
    ArgChars,          \* the characters the other arguments are made of
    MaxArgs,           \* bound on arguments after argv[0]
    MaxArgLen,         \* bound on the length of one argument
    Environments,      \* environment lists a caller passes (model values)
    NoEnvironment,     \* environment == NULL
    ParentEnvironment, \* the environment of the calling process
    MaxBytesChoices,   \* the buffer sizes maxBytes a caller passes
    MaxOutput,         \* bound on the bytes a child writes
    PipeCapacity,      \* bytes the pipe holds before a write blocks
    MaxCalls,          \* bound on calls
    MaxFailures        \* bound on failed Win32 calls and mallocs, and on
                       \* ReadFile calls that return no byte before end of file

VARIABLES
    pc,              \* "idle", or where the call is: "read", "probe", "close", "wait"
    command,         \* the argument vector of the call
    environment,     \* the environment of the call, or NoEnvironment
    maxBytes,        \* the size of the caller's buffer
    childArgv,       \* the argument vector the child parsed
    childEnv,        \* the environment the child runs with
    childAlive,      \* the child process has not exited
    childLeft,       \* bytes the child has still to write
    childOutput,     \* bytes the child means to write in all
    exitCode,        \* the child's exit code once it has exited
    inPipe,          \* bytes written and not yet read
    writeEnds,       \* the open handles of the pipe's write end
    readOpen,        \* the parent's read handle is open
    numBytes,        \* *numBytes
    bufferTooSmall,  \* the probe found a byte beyond maxBytes
    readCut,         \* a ReadFile ended the loop before end of file
    ret,             \* the HAPError the last call returned
    calls, failures

vars == <<pc, command, environment, maxBytes, childArgv, childEnv, childAlive,
          childLeft, childOutput, exitCode, inPipe, writeEnds, readOpen,
          numBytes, bufferTooSmall, readCut, ret, calls, failures>>
child == <<childAlive, childLeft, exitCode>>

Fail == failures < MaxFailures /\ failures' = failures + 1

-----------------------------------------------------------------------------
(* Characters and the command line.                                        *)

Sp == "SP"
Tab == "TAB"
Dq == "DQ"
Bs == "BS"
Blanks == {Sp, Tab}

Args == SeqOf(SeqOf(ArgChars, MaxArgLen), MaxArgs)
Commands == {<<p>> \o a : p \in Programs, a \in Args}

\* Lines 71-80: an argument holding a space is put in double quotes;
\* nothing else is quoted or escaped.
Quoted(arg) ==
    IF Contains(arg, Sp) THEN <<Dq>> \o arg \o <<Dq>> ELSE arg

\* Lines 64-82: the arguments separated by single spaces.
BuildCommandLine(cmd) ==
    LET line[i \in 1..Len(cmd)] ==
            IF i = 1 THEN Quoted(cmd[1])
                     ELSE line[i - 1] \o <<Sp>> \o Quoted(cmd[i])
    IN line[Len(cmd)]

\* The C runtime's program name: up to the first blank outside double
\* quotes, the quotes removed, backslashes taken literally.
RECURSIVE ReadProgram(_, _, _)
ReadProgram(s, name, inQuote) ==
    IF s = <<>> THEN [arg |-> name, rest |-> <<>>]
    ELSE IF Head(s) = Dq THEN ReadProgram(Tail(s), name, ~inQuote)
    ELSE IF ~inQuote /\ Head(s) \in Blanks THEN [arg |-> name, rest |-> Tail(s)]
    ELSE ReadProgram(Tail(s), Append(name, Head(s)), inQuote)

RECURSIVE LeadingBackslashes(_)
LeadingBackslashes(s) ==
    IF s /= <<>> /\ Head(s) = Bs THEN 1 + LeadingBackslashes(Tail(s)) ELSE 0

\* One further argument: 2n backslashes before a double quote give n
\* backslashes and the quote opens or closes a quoted part, 2n+1 give n and
\* a literal quote; "" inside a quoted part is a literal quote; other
\* backslashes are literal; a blank outside quotes ends the argument.
RECURSIVE ReadArg(_, _, _)
ReadArg(s, arg, inQuote) ==
    LET n == LeadingBackslashes(s)
        t == SubSeq(s, n + 1, Len(s))
        atQuote == t /= <<>> /\ Head(t) = Dq
        literalPair == atQuote /\ n % 2 = 0 /\ inQuote
                         /\ Len(t) >= 2 /\ t[2] = Dq
        toggles == atQuote /\ n % 2 = 0 /\ ~literalPair
        arg2 == arg \o [k \in 1..(IF atQuote THEN n \div 2 ELSE n) |-> Bs]
        t2 == IF literalPair THEN Tail(t) ELSE t
        inQuote2 == IF toggles THEN ~inQuote ELSE inQuote
    IN IF t2 = <<>> \/ (~inQuote2 /\ Head(t2) \in Blanks)
         THEN [arg |-> arg2, rest |-> t2]
         ELSE ReadArg(Tail(t2), IF toggles THEN arg2 ELSE Append(arg2, Head(t2)),
                      inQuote2)

RECURSIVE SplitArgs(_, _)
SplitArgs(s, args) ==
    IF s = <<>> THEN args
    ELSE IF Head(s) \in Blanks THEN SplitArgs(Tail(s), args)
    ELSE LET r == ReadArg(s, <<>>, FALSE) IN SplitArgs(r.rest, Append(args, r.arg))

\* The argument vector a child built with the Microsoft C runtime sees.
ParseCommandLine(line) ==
    LET p == ReadProgram(line, <<>>, FALSE) IN <<p.arg>> \o SplitArgs(p.rest, <<>>)

-----------------------------------------------------------------------------
(* The call.                                                               *)

Return(r) == pc' = "idle" /\ ret' = r

\* Mutation: line 144 left out, the parent keeps its write end.
CallKeepsWriteEnd(cmd, env, mb, out) ==
    /\ pc = "idle"
    /\ calls < MaxCalls
    /\ calls' = calls + 1
    /\ command' = cmd /\ environment' = env /\ maxBytes' = mb
    /\ bufferTooSmall' = FALSE /\ readCut' = FALSE
    /\ \/ Fail /\ Return("Unknown")
          /\ UNCHANGED <<childArgv, childEnv, child, childOutput, inPipe,
                         writeEnds, readOpen, numBytes>>
       \/ \E blockOk \in IF env = NoEnvironment THEN {TRUE} ELSE {TRUE, FALSE} :
            /\ IF blockOk THEN UNCHANGED failures ELSE Fail
            /\ childArgv' = ParseCommandLine(BuildCommandLine(cmd))
            /\ childEnv' = IF env /= NoEnvironment /\ blockOk
                             THEN env ELSE ParentEnvironment
            /\ childAlive' = TRUE /\ childLeft' = out /\ childOutput' = out
            /\ inPipe' = 0 /\ writeEnds' = {"parent", "child"}
            /\ readOpen' = TRUE /\ numBytes' = 0
            /\ pc' = "read"
            /\ UNCHANGED <<exitCode, ret>>

\* Lines 30-147, up to the child running: CreatePipe, SetHandleInformation
\* or CreateProcessA may fail, and the call returns kHAPError_Unknown; the
\* environment block's malloc may fail, and then envBlock stays NULL and the
\* child inherits the caller's environment; once the child runs the parent
\* closes its write end (line 144).  The child will write out bytes.
Call(cmd, env, mb, out) ==
    /\ pc = "idle"
    /\ calls < MaxCalls
    /\ calls' = calls + 1
    /\ command' = cmd /\ environment' = env /\ maxBytes' = mb
    /\ bufferTooSmall' = FALSE /\ readCut' = FALSE
    /\ \/ Fail /\ Return("Unknown")
          /\ UNCHANGED <<childArgv, childEnv, child, childOutput, inPipe,
                         writeEnds, readOpen, numBytes>>
       \/ \E blockOk \in IF env = NoEnvironment THEN {TRUE} ELSE {TRUE, FALSE} :
            /\ IF blockOk THEN UNCHANGED failures ELSE Fail
            /\ childArgv' = ParseCommandLine(BuildCommandLine(cmd))
            /\ childEnv' = IF env /= NoEnvironment /\ blockOk
                             THEN env ELSE ParentEnvironment
            /\ childAlive' = TRUE /\ childLeft' = out /\ childOutput' = out
            /\ inPipe' = 0 /\ writeEnds' = {"child"} /\ readOpen' = TRUE
            /\ numBytes' = 0
            /\ pc' = "read"
            /\ UNCHANGED <<exitCode, ret>>

\* Lines 153-163: ReadFile fails with an error other than ERROR_BROKEN_PIPE,
\* or returns no byte because the child wrote zero bytes; either breaks
\* the loop with what has been read so far.
ReadEndsEarly ==
    /\ Fail
    /\ readCut' = TRUE
    /\ pc' = "close"

\* Mutation: ReadFile asked for the whole buffer, not what is left of it.
ReadStepWholeBuffer ==
    /\ pc = "read"
    /\ IF numBytes < maxBytes
         THEN \/ /\ inPipe > 0
                 /\ LET k == IF inPipe < maxBytes THEN inPipe ELSE maxBytes
                    IN /\ numBytes' = numBytes + k
                       /\ inPipe' = inPipe - k
                       /\ pc' = IF numBytes + k >= maxBytes THEN "probe" ELSE "read"
                 /\ UNCHANGED <<failures, readCut>>
              \/ /\ inPipe = 0 /\ writeEnds = {}
                 /\ pc' = "close"
                 /\ UNCHANGED <<numBytes, inPipe, failures, readCut>>
              \/ ReadEndsEarly /\ UNCHANGED <<numBytes, inPipe>>
         ELSE pc' = "close" /\ UNCHANGED <<numBytes, inPipe, failures, readCut>>
    /\ UNCHANGED <<command, environment, maxBytes, childArgv, childEnv, child,
                   childOutput, writeEnds, readOpen, bufferTooSmall, ret,
                   calls>>

\* Mutation: no probe; a full buffer ends the loop (lines 168-176 left out).
ReadStepNoProbe ==
    /\ pc = "read"
    /\ IF numBytes < maxBytes
         THEN \/ /\ inPipe > 0
                 /\ LET k == IF inPipe < maxBytes - numBytes
                               THEN inPipe ELSE maxBytes - numBytes
                    IN /\ numBytes' = numBytes + k
                       /\ inPipe' = inPipe - k
                       /\ pc' = IF numBytes + k = maxBytes THEN "close" ELSE "read"
                 /\ UNCHANGED <<failures, readCut>>
              \/ /\ inPipe = 0 /\ writeEnds = {}
                 /\ pc' = "close"
                 /\ UNCHANGED <<numBytes, inPipe, failures, readCut>>
              \/ ReadEndsEarly /\ UNCHANGED <<numBytes, inPipe>>
         ELSE pc' = "close" /\ UNCHANGED <<numBytes, inPipe, failures, readCut>>
    /\ UNCHANGED <<command, environment, maxBytes, childArgv, childEnv, child,
                   childOutput, writeEnds, readOpen, bufferTooSmall, ret,
                   calls>>

\* Lines 150-166: ReadFile asks for maxBytes - numBytes and returns what the
\* pipe holds up to that, blocking while it is empty; it fails with
\* ERROR_BROKEN_PIPE once the pipe is empty and every write end closed, and
\* may end the loop early.  A full buffer goes to the probe.
ReadStep ==
    /\ pc = "read"
    /\ IF numBytes < maxBytes
         THEN \/ /\ inPipe > 0
                 /\ LET k == IF inPipe < maxBytes - numBytes
                               THEN inPipe ELSE maxBytes - numBytes
                    IN /\ numBytes' = numBytes + k
                       /\ inPipe' = inPipe - k
                       /\ pc' = IF numBytes + k = maxBytes THEN "probe" ELSE "read"
                 /\ UNCHANGED <<failures, readCut>>
              \/ /\ inPipe = 0 /\ writeEnds = {}
                 /\ pc' = "close"
                 /\ UNCHANGED <<numBytes, inPipe, failures, readCut>>
              \/ ReadEndsEarly /\ UNCHANGED <<numBytes, inPipe>>
         ELSE pc' = "close" /\ UNCHANGED <<numBytes, inPipe, failures, readCut>>
    /\ UNCHANGED <<command, environment, maxBytes, childArgv, childEnv, child,
                   childOutput, writeEnds, readOpen, bufferTooSmall, ret,
                   calls>>

\* Lines 168-176: a one-byte ReadFile; a byte means the output did not fit.
\* End of file, a failing ReadFile or a zero-byte read leave bufferTooSmall
\* false, and the loop ends because the buffer is full.
Probe ==
    /\ pc = "probe"
    /\ \/ /\ inPipe > 0
          /\ inPipe' = inPipe - 1
          /\ bufferTooSmall' = TRUE
          /\ UNCHANGED <<failures, readCut>>
       \/ /\ inPipe = 0 /\ writeEnds = {}
          /\ UNCHANGED <<inPipe, bufferTooSmall, failures, readCut>>
       \/ ReadEndsEarly /\ UNCHANGED <<inPipe, bufferTooSmall>>
    /\ pc' = "close"
    /\ UNCHANGED <<command, environment, maxBytes, childArgv, childEnv, child,
                   childOutput, writeEnds, readOpen, numBytes, ret, calls>>

\* Line 179.
CloseRead ==
    /\ pc = "close"
    /\ readOpen' = FALSE
    /\ pc' = "wait"
    /\ UNCHANGED <<command, environment, maxBytes, childArgv, childEnv, child,
                   childOutput, inPipe, writeEnds, numBytes, bufferTooSmall,
                   readCut, ret, calls, failures>>

\* Lines 182-208: wait for the child, read its exit code, and return.
Finish ==
    /\ pc = "wait"
    /\ ~childAlive
    /\ \/ Fail /\ Return("Unknown")
       \/ /\ UNCHANGED failures
          /\ Return(IF exitCode /= 0 THEN "Unknown"
                    ELSE IF bufferTooSmall THEN "OutOfResources" ELSE "None")
    /\ UNCHANGED <<command, environment, maxBytes, childArgv, childEnv, child,
                   childOutput, inPipe, writeEnds, readOpen, numBytes,
                   bufferTooSmall, readCut, calls>>

-----------------------------------------------------------------------------
(* The child process.                                                      *)

ChildWrite ==
    /\ childAlive /\ childLeft > 0 /\ readOpen
    /\ inPipe < PipeCapacity
    /\ inPipe' = inPipe + 1
    /\ childLeft' = childLeft - 1
    /\ UNCHANGED <<pc, command, environment, maxBytes, childArgv, childEnv,
                   childAlive, childOutput, exitCode, writeEnds, readOpen,
                   numBytes, bufferTooSmall, readCut, ret, calls, failures>>

\* The child exits when it has written everything, or when a write fails
\* because the parent closed the read end; the exit code is its own.
ChildExit ==
    /\ childAlive
    /\ childLeft = 0 \/ ~readOpen
    /\ childAlive' = FALSE
    /\ exitCode' \in {0, 1}
    /\ writeEnds' = writeEnds \ {"child"}
    /\ UNCHANGED <<pc, command, environment, maxBytes, childArgv, childEnv,
                   childLeft, childOutput, inPipe, readOpen, numBytes,
                   bufferTooSmall, readCut, ret, calls, failures>>

-----------------------------------------------------------------------------

Init ==
    /\ pc = "idle"
    /\ command = <<>> /\ environment = NoEnvironment
    /\ maxBytes = 0
    /\ childArgv = <<>> /\ childEnv = ParentEnvironment
    /\ childAlive = FALSE /\ childLeft = 0 /\ childOutput = 0 /\ exitCode = 0
    /\ inPipe = 0 /\ writeEnds = {} /\ readOpen = FALSE
    /\ numBytes = 0 /\ bufferTooSmall = FALSE /\ readCut = FALSE
    /\ ret = "None"
    /\ calls = 0 /\ failures = 0

Next ==
    \/ \E cmd \in Commands, env \in Environments \cup {NoEnvironment},
          mb \in MaxBytesChoices, out \in 0..MaxOutput : Call(cmd, env, mb, out)
    \/ ReadStep \/ Probe \/ CloseRead \/ Finish
    \/ ChildWrite \/ ChildExit

\* The calling thread runs whenever it is not blocked in ReadFile or
\* WaitForSingleObject, and the child process runs until it exits.
Spec == Init /\ [][Next]_vars
          /\ WF_vars(ReadStep) /\ WF_vars(Probe) /\ WF_vars(CloseRead)
          /\ WF_vars(Finish) /\ WF_vars(ChildWrite) /\ WF_vars(ChildExit)

-----------------------------------------------------------------------------
(* Properties.                                                             *)

\* Every variable holds a value of its type, and during a call the parent
\* never writes past bytes[maxBytes - 1].
TypeOK ==
    /\ pc \in {"idle", "read", "probe", "close", "wait"}
    /\ command \in Commands \cup {<<>>}
    /\ maxBytes \in MaxBytesChoices \cup {0}
    /\ numBytes \in Nat
    /\ pc /= "idle" => numBytes <= maxBytes
    /\ childLeft \in 0..MaxOutput /\ inPipe \in 0..PipeCapacity
    /\ writeEnds \subseteq {"parent", "child"}
    /\ {childAlive, readOpen, bufferTooSmall, readCut} \subseteq BOOLEAN
    /\ ret \in {"None", "Unknown", "OutOfResources"}

(***************************************************************************)
(* The result tells a caller with a buffer of at least one byte whether it *)
(* has the child's whole output: kHAPError_OutOfResources only when the    *)
(* output was longer than maxBytes, and kHAPError_None with every byte the *)
(* child wrote in bytes, unless a ReadFile broke the loop before end of    *)
(* file (lines 153-163, 172), when the call returns kHAPError_None with    *)
(* the bytes read so far.  This rests on the one-byte probe after a full   *)
(* buffer (lines 168-176), on reading until the pipe reports end of file,  *)
(* and on the order of closing the read end and waiting for the child.     *)
(***************************************************************************)
ResultMatchesOutput ==
    pc = "idle" /\ calls > 0 /\ maxBytes > 0 =>
        /\ ret = "None" => numBytes = childOutput \/ (readCut /\ numBytes < childOutput)
        /\ ret = "OutOfResources" => childOutput > maxBytes

(***************************************************************************)
(* Every call returns, whatever the child writes: ReadFile sees end of     *)
(* file only because the parent closed its own write end (line 144), and   *)
(* a child blocked on a full pipe is released because the parent closes    *)
(* the read end (179) before it waits (182).                               *)
(***************************************************************************)
CallReturns == pc /= "idle" ~> pc = "idle"

(***************************************************************************)
(* The child runs the command it was asked to: its C runtime parses the    *)
(* command line back into the argument vector of the call, and it gets the *)
(* environment passed, or the caller's when none was passed.               *)
(***************************************************************************)
ChildRunsCommand ==
    pc \in {"read", "probe", "close", "wait"} =>
        /\ childArgv = command
        /\ childEnv = IF environment = NoEnvironment
                         THEN ParentEnvironment ELSE environment

=============================================================================
