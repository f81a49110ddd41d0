# TLA+ models of the HomeKitADK Windows platform layer

This directory holds TLA+ models of the Windows platform abstraction layer
(`src/PAL/Windows`) and of the application that drives it
(`src/Applications/Main.c`), with the TLC configurations that check them.
`PROJECT.json` lists the components, the runs, the mutants that show each
property can fail, the source lines each definition models, the findings and
the hazards.

## 1. The system

| Part | Source | State | Operations | Concurrency |
|---|---|---|---|---|
| Timer queue | `HAPPlatformRunLoop.c` 77-97, 254-318 | singly linked list `runLoop.timers` in deadline order | TimerRegister, TimerDeregister, ProcessExpiredTimers | reactor thread only |
| Descriptor registry | `HAPPlatformRunLoop.c` 32-67, 150-251 | circular list through `fileHandleSentinel`, `fileHandleCursor`, per-handle `interests` and `isAwaitingEvents` | FileHandleRegister, UpdateInterests, Deregister, ProcessSelectedFileHandles | reactor thread; callbacks mutate the list during the walk |
| Cross-thread mailbox | `HAPPlatformRunLoop.c` 118-123, 331-359, 586-611 | `selfPipeBytes`, `numSelfPipeBytes`, a loopback socket pair | ScheduleCallback, SelfPipeHandleCallback | any thread posts; the reactor consumes |
| Reactor driver | `HAPPlatformRunLoop.c` 102-106, 443-584 | `state` Idle/Running/Stopping | Create, Run, Stop, Release | the reactor thread |
| Key-value store | `HAPPlatformKeyValueStore.c` | one file per (domain, key) under a root directory | Get, Set, Remove, Enumerate, PurgeDomain | reactor thread; files survive crashes |
| File manager | `HAPPlatformFileManager.c` | files on disk | CreateDirectory, WriteFile (temp file, flush, MoveFileEx), ReadFile, RemoveFile | as above |
| NFC setup | `HAPPlatformAccessorySetupNFC.c` | `nfcLock` spin lock, `isAborted`, `isEmulating`, a worker thread | NFCStart, NFCMain, NFCStop, NFCIOCallback | worker thread against the reactor thread |
| BLE peripheral | `HAPPlatformBLEPeripheralManager.c` | GATT table, connection handle, advertising | AddService/Characteristic/Descriptor, Publish, advertising, ATT callbacks | BTstack callbacks |
| System command | `HAPPlatformSystemCommand.c` | none kept between calls; a child process and a pipe during one | Run, RunWithEnvironment | the caller's thread against the child process |
| Clock, random numbers, display, platform info, MFi | the remaining files | a cached counter start; flags | GetCurrent, Fill, Update, StartPairing | synchronous |
| Application | `Main.c` | the platform objects | InitializePlatform, main, DeinitializePlatform | main thread becomes the reactor |

**How they interact.** `main` creates the platform objects and the run loop,
then calls `HAPPlatformRunLoopRun` on its own thread, which becomes the
reactor.  Every callback of the HAP library (not in this repository) runs on
the reactor: timer callbacks from `ProcessExpiredTimers`, socket callbacks from
`ProcessSelectedFileHandles`, and mailbox callbacks from the self-pipe's
callback.  Those callbacks register and deregister timers and handles, call
the key-value store, and may call `HAPPlatformRunLoopStop`.  Other threads (the
NFC worker, signal handlers) may reach the reactor only through
`HAPPlatformRunLoopScheduleCallback`.

**What is hard here** (the hazards of `PROJECT.json`): callbacks that change the
registry while the dispatch cursor walks it, with freed memory and closed
sockets reused at once; a timer callback re-arming a due timer; the poll timeout
that must be bounded by the next deadline; a Stop that must wake a poll; two
posters racing on the mailbox's non-atomic busy test; crash between a temp
file write and its rename; a spin-lock handoff between NFCStop and NFCMain.

## 2. The modules

| Module | Models | Kind |
|---|---|---|
| `TimerQueue` | the timer list: register, deregister, pop, return | component |
| `TimerService` | what the timer queue promises: due timers fire earliest first, ties in registration order | abstract specification |
| `Mailbox` | what ScheduleCallback promises: one slot, each accepted message delivered once in order | abstract specification |
| `RunLoop` | the whole run loop inside `main`: composes `TimerQueue` as `TQ`, and has the registry, the mailbox, posting threads, the reactor's steps, the clock, socket peers, and main's start-up and exit around them | composition; refines `TimerService` and `Mailbox` |
| `DurableStore` | what a crash-safe store promises: a crash restores the state after some prefix of the updates | abstract specification |
| `KeyValueStore` | the key-value store over the file manager's WriteFile/ReadFile/RemoveFile and a disk that writes back lazily and crashes | component; refines `DurableStore` |
| `AccessorySetupNFC` | NFCStart/NFCStop on the controlling thread against the NFCMain worker, the spin lock, and NFCIOCallback as an operator | component |
| `SystemCommand` | one call of RunWithEnvironment: the command line, the environment block, the pipe, the read loop and its probe, the wait and the result, against a child process writing into a bounded pipe | component |
| `MC_TimerQueue`, `MC_RunLoop`, `MC_KeyValueStore`, `MC_AccessorySetupNFC`, `MC_SystemCommand` | the sets the .cfg files cannot write | model-checking instances |

### RunLoop: correspondence with the code

* **State.** `timers`, `deadline`, `firing`, `regOrder` are the timer list
  (through `TQ`).  `fileHandles` is the registry's order from
  `fileHandleSentinel.next` to the tail; `cursor` is `fileHandleCursor`, with
  the model value `Sentinel` for the sentinel.  `interests`, `awaiting`,
  `revents` are the handle fields and the poll array's results.
  `selfPipeBytes`, `numSelfPipeBytes` are the mailbox (a message is a number;
  the count is 0 or 1 for "zero" and "non-zero"); `wakeBytes` is the bytes
  waiting in the self-pipe socket.  `pc` is where the main thread, which
  becomes the reactor, is: `start` (main, Winsock not started),
  `uncreated` (InitializePlatform, the static `runLoop` zeroed),
  `aborted` (a failure in Create, which is `HAPFatalError`), `main` (before
  Run), `loop` (line 503), `drain`, `timerCb`, `poll`, `dispatch`, `fdCb`,
  `pipeRecv`, `pipeCheck`, `pipeClear`, `mailCb`, `exited` (Run returned),
  `exit` (main's exit label), `ended` (main returned).  `wsa` is Winsock's
  count of successful WSAStartup calls not yet matched by WSACleanup.  `ppc[p]` is where posting thread `p` is inside
  ScheduleCallback.
* **Actions.** One per operation or per step between shared accesses:
  `RegisterTimer`, `DeregisterTimer`, `Register`, `UpdateInterests`,
  `Deregister`, `Stop` (client calls, made on the reactor thread in `main` or
  inside a callback); `MainStartup`, `InitializePlatform` (with `Create`),
  `Run`, `BeginCycle`, `ExitLoop`, `DrainStep`,
  `DrainDone`, `PollWake`, `PollFail`, `DispatchStep`, `DispatchDone`,
  `PipeRecv`, `PipeCheck`, `PipeClear`, `CallbackReturn`,
  `DeinitializePlatform` (with `Release`), `MainExit` (the main thread); `PostCheck`, `PostWrite`, `PostPublish`, `PostSend` (each
  shared access of ScheduleCallback); `EnvReady` (a socket's peer) and `Tick`
  (the clock).
* **Memory reuse.** A handle node stands for the calloc'ed handle and its
  socket.  Registering a node that was deregistered models calloc returning the
  freed memory and the OS reusing the closed socket, which Windows does
  readily; `gen` counts incarnations so properties can tell them apart.  A
  timer node likewise becomes free when it is neither listed nor firing.
* **Abstracted.** Context bytes are a message number; a callback's own work
  is the client calls it makes.  `SetEvent(wakeEvent)` is left out: nothing
  waits on that event.  `Create` either builds the socket pair of
  `CreateSelfPipe` and registers its read end, or stops at `aborted`; the
  steps inside `CreateSelfPipe` are not told apart, since each failure ends
  the same way.  The `Sleep` path of line 527 is unreachable because the
  self-pipe stays registered from Create to Release.
* **Timeout clamp.** Lines 508-517 clamp the WSAPoll timeout to INT_MAX ms.
  The constant `PollTimeoutMax` stands for INT_MAX and is 1 tick in the
  configurations, so a deadline 2 ticks away is reached through a clamped
  poll and one more wake-up.  The mutant `TimeoutUnclamped` casts without
  the clamp: the delta turns negative, which means "wait forever", and
  `TimerEventuallyFires` fails.
* **Winsock.** main starts Winsock (Main.c line 436) and so does
  HAPPlatformRunLoopCreate (line 449).  Release cleans up the second start,
  and main's exit label the first, also on the start-up failure paths.
  `WinsockReleasedAtExit` checks that the count is 0 when main returns.
  Its mutant `ReleaseNoCleanup` leaves out Release's WSACleanup, as if
  `winsockInitialized` were never set.

### KeyValueStore: correspondence with the code

* **State.** A file is a pair (domain, key) of small numbers: the name
  "DD.KK" sorts as the pair does, so the order FindNextFileA returns entries
  in is the pair order.  `vol` is what the file system shows, `dur` what is on
  the medium, `journal` the renames and deletions not yet on the medium, each
  with whether the renamed file's data was flushed.  `lastError` is the
  thread's GetLastError value: successful Win32 calls leave it unchanged.
  `pc`, `call`, `enumDomain`, `cursor`, `listing`, `purgeStart`, `stopped`
  are enumdir's loop; `ret` is the HAPError returned.  `RootDir` is the
  directory ".HomeKitStore": on a first run it is absent and so is every
  file, Enumerate and PurgeDomain then return at FindFirstFileA's "path not
  found" (lines 56-60), and the first WriteFile creates it
  (`CreateDirectory`, a journal entry ahead of the rename).  A WriteFile
  that fails after CreateDirectoryA succeeded leaves the directory made.
* **Actions.** `Get`, `Set`, `RemoveKey` (with `RemoveFatal` for the
  HAPFatalError of RemoveFile), `EnumBegin` (Enumerate or PurgeDomain and
  FindFirstFileA), one step per directory entry (`EnumSkip`, `VisitEntry`,
  `PurgeEntry`, `PurgeEntryFatal`) and `EnumEnd`; the environment's `Commit`
  (one journal entry reaches the medium) and `Crash`.  Each file-manager call
  is part of the action of the key-value store call that makes it
  (`ReadFile`, `CreateDirectory`, `WriteFile`, `RemoveFile` are operators).
* **Disk.** A FindNextFileA may return an entry deleted since FindFirstFileA
  (buffered in `listing`).  A rename whose file was not flushed may reach the
  medium before its data: the file then holds `Garbage`.
* **Refinement.** `StoreRefinement` maps `store` to `vol` on the files and
  `recoverable` to the states obtained by applying each prefix of the
  journal's file changes to `dur`; making the directory changes no key, so
  its Commit is a stuttering step of DurableStore.

### AccessorySetupNFC: correspondence with the code

* **State.** The fields of `setupNFC->nfc` (`nfcLock`, `isActive`,
  `isAborted`, `isEmulating`, whether `nfcContext` and `nfcDevice` are set,
  `setupPayload`), the payload the worker built its tag from (`tagPayload`),
  whether the driver holds an abort (`abortFlag`), and where each thread is:
  `wpc` for NFCMain, `cpc` for the thread calling UpdateSetupPayload and
  Release.  `pending` is the payload NFCStart starts with after its NFCStop.
* **Actions.** One per stretch of code between lock operations and blocking
  calls: `MainAcquire`, `MainInit`, `MainOpen`, `MainRetry`, `MainCheck`,
  `MainEmulate`, `EmulationAborted`, `EmulationEnded`, `MainRelock`,
  `MainCleanup` for NFCMain; `Update`, `Release`, `StopPass` (one pass of
  NFCStop's lock-abort-release loop), `StopJoin`, `Start` for the other
  thread.  NFCStop never blocks while it holds the lock, so a pass is one
  step.  libnfc is the environment: nfc_init, nfc_open and _beginthreadex may
  fail (bounded by `MaxFailures`), nfc_open fails on every try when no reader
  is attached (`attached`, chosen at start, so the retry loop runs for ever
  and only the isAborted test of line 130 ends it), a reader may end an
  emulation, and an abort issued before
  nfc_emulate_target starts may be kept or dropped.
* **NFCIOCallback** is an operator over a frame's command, length and the
  byte at `data_in[1]`; the answer is an error or the offset of the 16 bytes
  served.  `Type2Read` is the reference READ of an NFC Forum Type 2 tag.

### SystemCommand: correspondence with the code

* **State.** `command`, `environment`, `maxBytes` are the call's arguments
  (`environment = NoEnvironment` is `HAPPlatformSystemCommandRun`, which
  passes NULL); `numBytes` is the bytes read into the caller's buffer and
  `bufferTooSmall` the probe's result; `readCut` says that a ReadFile broke
  the loop before end of file; `readOpen` is the parent's read
  handle, `writeEnds` the processes holding the pipe's write end, `inPipe`
  the bytes in the pipe; `childArgv`, `childEnv`, `childAlive`, `childLeft`,
  `childOutput`, `exitCode` are the child process; `pc` is where the call is:
  `idle`, `read` (the loop of line 150), `probe` (line 168), `close`
  (line 179), `wait` (line 182).
* **Actions.** `Call` is lines 30-144 in one step: the environment block
  (whose malloc may fail), CreatePipe, SetHandleInformation and
  CreateProcessA (each may fail, returning kHAPError_Unknown), and closing the
  parent's write end.  `ReadStep` is one ReadFile of the loop, `Probe` the
  one-byte read after a full buffer; in both, `ReadEndsEarly` is a ReadFile
  that fails with an error other than ERROR_BROKEN_PIPE or returns no byte
  (a child's zero-byte write), which ends the loop with the bytes read so
  far (lines 153-163, 172), counted against `MaxFailures`; `CloseRead` line 179, `Finish` the wait,
  GetExitCodeProcess and the result.  `ChildWrite` and `ChildExit` are the
  child: it writes while the read end is open and the pipe has room, and
  exits after its output or when the read end is closed (a broken pipe).
* **Command line.** `BuildCommandLine` is lines 63-82: arguments joined by a
  space, an argument quoted when it contains a space.  `ParseCommandLine`
  is not code of this repository: it is the Microsoft C runtime's rule for
  splitting a command line into argv (the program name ends at a blank
  outside quotes; 2n backslashes before a quote give n and a delimiter,
  2n+1 give n and a literal quote; `""` inside quotes is a quote), the
  reference the child applies.  A character is one of "a", "SP", "TAB",
  "DQ", "BS"; output bytes are only counted.

## 3. Runs

| Run | Checks | Result |
|---|---|---|
| `tq_zero_deadline` | `EqualDeadlinesFireInRegistrationOrder` with deadline 0 allowed | **violation**: 0 is stored as 1 but compared raw, so it is linked before earlier timers of deadline 1 |
| `rl_timers` | `TypeOK`, `WinsockReleasedAtExit`, `TimerServiceRefinement`, `TimerEventuallyFires`, `StopTerminates`, `MailboxRefinement`, `PostEventuallyDelivered`; two timers, deadlines {1,2}, time 0..2, INT_MAX scaled to 1 tick, Stop from callbacks, one other thread posting three times | pass |
| `rl_dispatch` | `DispatchSafe`, `CallbackOnlyForSelectedHandle`; two handles plus the self-pipe, four client calls (enough to deregister and re-register a handle inside another's callback), two readiness changes | pass |
| `rl_mailbox_race` | `MailboxRefinement` with a thread and the reactor both posting | **violation**: both pass the busy test; one accepted message is overwritten |
| `rl_retrigger` | `NoRetriggerInPass`, all deadlines 1 | **violation**: a timer registered in a timer callback fires in the same drain |
| `kvs_store` | `TypeOK`, `StoreRefinement`, `PurgeRemovesExactlyDomain` (a purge not aborted returns kHAPError_None exactly when none of its Win32 calls failed, and then has removed exactly its domain; `startErrors` records the failure count when the walk began); two domains of two keys, three calls, two crashes, one failed Win32 call, flushes succeed | pass |
| `kvs_flush_failure` | `StoreRefinement` with one failed FlushFileBuffers | **violation**: the unflushed file is renamed over the old value and a crash leaves garbage |
| `kvs_enumerate_stop` | `EnumerateStopReturnsNone` | **violation**: a callback stopping Enumerate makes it return kHAPError_Unknown from a stale GetLastError |
| `nfc_stop` | `TypeOK`, `TagServesCurrentPayload`, `NoEmulationAfterStop`, `ReadAnswersType2`, `NFCStopReturns`; three updates, Release, two failures of nfc_init/nfc_open/_beginthreadex, a reader attached or absent, two transactions | pass; without line 130's isAborted test (`MainRetryNoAbortCheck`) NFCStop never returns when no reader is attached |
| `sc_output` | `TypeOK`, `ResultMatchesOutput`, `CallReturns`; two calls, buffers of 0, 1 and 2 bytes, up to 4 bytes of output through a 2-byte pipe, one failure (of a Win32 call, the malloc, or a ReadFile) | pass; `ResultMatchesOutput` holds only in its weakened form: a ReadFile failing in the loop or in the probe makes the call return kHAPError_None with part of the output, which a caller cannot tell from the whole |
| `sc_quoting` | `ChildRunsCommand` over up to two arguments of up to two characters of a, space, tab, quote and backslash | **violation**: the vector (a, empty) becomes the line `a ` and the child sees only `a`; an argument of a tab or a double quote is altered too |
| `nfc_short_read` | `ShortReadRefused` | **violation**: a one-byte READ frame is answered with data selected by the byte beyond the frame |

Every property of a passing run has a mutant in `PROJECT.json`: a
plausible bug in a mapped definition under which TLC finds that property
violated (e.g. `DeregisterNoCursorFix` drops lines 198-200 and breaks
`DispatchSafe`; `PostSendNoWake` drops the send and breaks
`PostEventuallyDelivered`).

**Bounds.** Every unbounded quantity has a named bound: `MaxOps` client calls,
`MaxPosts` posts, `MaxEnv` socket readiness changes, `MaxPollErrors` poll or
allocation failures, `MaxTime` clock ticks and `MaxWake` buffered wake bytes, and INT_MAX is
the constant `PollTimeoutMax`, set to 1 so that a deadline lies past it
(more bytes change nothing: one recv drains up to 256).  The bounds are the
smallest that reach each interesting case: two handles for "a callback
deregisters another handle", a fourth client call for "and registers it again
in the same pass", two posters for the race, a timer plus Stop for a Stop
seen only after one more poll.  Deadlines lie within `MaxTime` so every
timer can come due.

The KeyValueStore bounds: two domains of two keys give a purge that must
skip the other domain and a walk with an entry after a deleted one; three
calls are enough for a Set, a Remove and a PurgeDomain before a crash; one
value suffices for the refinement because `Absent` and `Garbage` are the
contents that tell a wrong rollback apart.  The NFC bounds: three updates make
an update while a worker is retrying or emulating and then a Release; two
failures reach both the open retry and a failed thread creation.  The
SystemCommand bounds: output up to twice the pipe's capacity makes the child
block while the parent's buffer is full; buffers of 1 and 2 bytes against 0
to 4 bytes of output give output shorter, equal and longer than the buffer;
two calls make a call after a failed one.  For the quoting, two arguments of
two characters over five characters contain every form that breaks
(empty, a lone blank, a quote, a backslash before a quote).

**Fairness.** RunLoop's `Spec` puts weak fairness on every reactor step, on
the clock, on the steps a poster takes after passing the busy test, and on
main's own steps before Run and after it returns.  The
reactor is a dedicated thread that runs whenever it is not blocked in WSAPoll,
callbacks run to completion, and WSAPoll returns when a polled socket is
readable or its timeout passes, and these conditions stay true until it does.
Client calls, poll failures and socket peers are not fair: nothing obliges
them to happen.  `CHECK_DEADLOCK FALSE` is set in the RunLoop configurations
because the program really does stop: after Run returns, `main` releases the
platform and returns, and a failed start-up returns at once.  KeyValueStore has no fairness: it states only safety.
AccessorySetupNFC puts strong fairness on every lock acquisition: a holder
keeps the lock for a bounded time and then sleeps 100 or 500 ms while the
spinner retries every 1 ms, so a lock that is free again and again is taken.
The other steps of both threads are weakly fair; a reader ending an emulation
is not, but the driver honours an abort of an emulation in progress.  Its
configurations do not check deadlock because Release is the tag's last call.
SystemCommand puts weak fairness on the caller's steps and on the child's:
each is a thread of its own that runs whenever it is not blocked (on a full
pipe, an empty pipe, or the child's exit); the child is assumed to exit,
since WaitForSingleObject waits forever otherwise.  Its configurations do
not check deadlock because the caller stops calling after `MaxCalls`.

## 4. Plan

Done: the run loop from main's start to its return, the key-value store with the
file manager beneath it (its root directory included), the NFC tag and the
system command.  The twelve
runs are as many as the project keeps, so further work adds properties to
the existing runs or replaces a run.  Next, in order:

1. ReadFile's truncation at maxBytes, with byte counts in the key-value store.
2. The self-pipe listener accepting another local process (hazard at
   RunLoop line 409), as an environment step of `Create`.

## 5. Not modelled

* Handle inheritance: the child of SystemCommand inherits every inheritable
  handle (`bInheritHandles` TRUE); only the pipe is modelled.
* Lengths: cmdLine[8192] and the environment block's size are plain missing
  length checks; strings here are a few characters long.
* Random numbers, platform info and MFi token/hardware authentication: they
  read fixed data or call a single OS function, with no state that changes.
* BLE peripheral manager.  The default build (no `HAVE_BLE`) is stubs that
  keep no state.  The `HAVE_BLE` branch does not compile: it defines
  `HAPPlatformBLEPeripheralManagerRemoveAllServices` twice (lines 263 and
  377).  Even fixed, it hands BTstack a NULL ATT database (lines 195 and
  372), and nothing runs BTstack's run loop, so `packet_handler` and the ATT
  callbacks would never run.  No build has behaviour to model.
* Accessory setup display.  `main` never creates it; only the HAP library
  calls it.  Its state is two flags copied from the arguments, and its only
  rule (StartPairing needs a setup code) is a `HAPPrecondition` on the
  caller.
* Clock.  In `RunLoop` it is a counter that only increases.  The
  QueryPerformanceCounter scaling in `HAPPlatformClockGetCurrent` is 64-bit
  arithmetic on one thread.  `elapsed * 1000` overflows after about 35 days
  at a 3 GHz counter, making time jump backwards into the fatal check.  That
  is a fact about one C expression, with nothing for TLC to explore.
* The rest of `Main.c`.  `RunLoop` models main's Winsock start-up, its
  failure paths, InitializePlatform, Run, DeinitializePlatform and the exit
  label.  Left out: the factory-reset and clear-pairings branches of
  `HandleUpdatedState`, whose flags nothing sets (dead code), and
  InitializeIP/InitializeBLE, which only fill in storage tables.  The HAP
  accessory server that main drives is not in this repository.
* `ConsoleControlHandler` in `Main.c` returns FALSE, so Ctrl-C ends the
  process at any point; the key-value store's `Crash` action is that ending,
  which is why `StoreRefinement` allows a crash between any two steps.
