------------------------------ MODULE RunLoop ------------------------------
(***************************************************************************)
(* The run loop of src/PAL/Windows/HAPPlatformRunLoop.c: one reactor      *)
(* thread running HAPPlatformRunLoopRun over                               *)
(*   - the timer list (module TimerQueue, composed as TQ),                 *)
(*   - the file-handle registry, a circular list through a sentinel that   *)
(*     is walked by a cursor during dispatch (a sequence here, the        *)
(*     sentinel standing for "end of list"),                               *)
(*   - the self-pipe mailbox: selfPipeBytes/numSelfPipeBytes written by    *)
(*     HAPPlatformRunLoopScheduleCallback from any thread, plus a          *)
(*     loopback socket whose pending bytes wake WSAPoll.                   *)
(* Client code (the HAP library's callbacks, on the reactor thread) may    *)
(* register, update and deregister handles and timers and call Stop while *)
(* the reactor is in "main" or inside a callback.  Posters are threads     *)
(* calling ScheduleCallback; ReactorPoster, if it is one of them, is the   *)
(* reactor thread itself posting from inside a callback.                   *)
(*                                                                         *)
(* A handle node stands for the calloc'ed HAPPlatformFileHandle and its   *)
(* socket.  Registering a node that was deregistered before models calloc *)
(* returning the freed memory and the OS reusing the closed socket; gen   *)
(* counts these incarnations.                                              *)
(***************************************************************************)
EXTENDS Naturals, Sequences, SequencesExt, FiniteSets

CONSTANTS
    Handles,          \* client file-handle nodes (model values)
    SelfPipe,         \* runLoop.selfPipeFileHandle
    Sentinel,         \* runLoop.fileHandleSentinel, the end of the list
    Timers, Deadlines, NoTimer,
    InterestChoices,  \* interest sets clients register or update with
    Posters,          \* threads that call ScheduleCallback
    ReactorPoster,    \* the member of Posters that is the reactor thread, if any
    NoMessage,        \* selfPipeBytes never written
    MaxTime,          \* bound on the clock
    MaxOps,           \* bound on client calls
    MaxPosts,         \* bound on ScheduleCallback calls
    MaxEnv,           \* bound on readiness changes of client sockets
    MaxPollErrors,    \* bound on failed WSAPoll / poll-array calloc
    MaxWake,          \* bytes the self-pipe socket buffers (saturating)
    PollTimeoutMax    \* INT_MAX: the largest WSAPoll timeout, in clock ticks

ASSUME PollTimeoutMax \in Nat \ {0}

Events == {"read", "write", "error"}
Nodes == Handles \cup {SelfPipe}
Messages == 1 .. MaxPosts
Infinite == -1          \* WSAPoll timeout -1: block until an event

VARIABLES
    state,          \* runLoop.state: "Idle", "Running", "Stopping"
    pc,             \* where the reactor thread is
    now,            \* HAPPlatformClockGetCurrent()
    drainNow,       \* the now read by ProcessExpiredTimers (line 304)
    timers, deadline, firing, regOrder,          \* TimerQueue
    fileHandles,    \* the registry, head first, sentinel excluded
    interests,      \* interests[n]: fileHandle->interests
    awaiting,       \* awaiting[n]: fileHandle->isAwaitingEvents
    cursor,         \* runLoop.fileHandleCursor
    revents,        \* revents[n]: pollFds[i].revents of n's socket
    pollDeadline,   \* the time the pending WSAPoll times out, or Infinite
    ready,          \* ready[h]: what the peer has made h's socket ready for
    wakeBytes,      \* bytes unread in the self-pipe socket
    selfPipeBytes,  \* the message written into runLoop.selfPipeBytes
    numSelfPipeBytes, \* runLoop.numSelfPipeBytes > 0, as 0 or 1
    copied,         \* callback/contextBytes copied out by the self-pipe callback
    ppc,            \* ppc[p]: where poster p is in ScheduleCallback
    pmsg,           \* pmsg[p]: the message p is posting
    accepted,       \* posts that returned kHAPError_None
    invoked,        \* messages whose callback the reactor called, in order
    ops, nposts, envSteps, pollErrors,           \* bounded budgets
    gen,            \* gen[n]: incarnation of node n
    polled,         \* <<node, gen>> of the handles in the last poll array
    visited,        \* <<node, gen>> examined by the current dispatch pass
    passRegistered, \* timers registered since the current drain began
    wsa             \* successful WSAStartup calls not yet cleaned up

TQ == INSTANCE TimerQueue

tqVars == <<timers, deadline, firing, regOrder>>
regVars == <<fileHandles, interests, awaiting, cursor, revents>>
mailVars == <<wakeBytes, selfPipeBytes, numSelfPipeBytes, copied, ppc, pmsg,
              accepted, invoked>>
budgetVars == <<ops, nposts, envSteps, pollErrors>>
ghostVars == <<gen, polled, visited, passRegistered>>
vars == <<wsa, state, pc, now, drainNow, tqVars, regVars, pollDeadline, ready,
          mailVars, budgetVars, ghostVars>>

Live == Range(fileHandles)

\* fileHandle->nextFileHandle, the sentinel after the tail.
NextOf(n) ==
    LET i == SelectInSeq(fileHandles, LAMBDA x : x = n)
    IN  IF i = Len(fileHandles) THEN Sentinel ELSE fileHandles[i + 1]

FirstNode == IF fileHandles = <<>> THEN Sentinel ELSE Head(fileHandles)

\* The self-pipe socket is readable while it holds bytes; client sockets
\* are what their peer made them.
SocketReady(n) == IF n = SelfPipe
                  THEN IF wakeBytes > 0 THEN {"read"} ELSE {}
                  ELSE ready[n]

\* Lines 542-546 and WSAPoll: POLLIN/POLLOUT as requested, POLLERR/POLLHUP
\* always reported.
PollEvents(n) == SocketReady(n) \cap (interests[n] \cup {"error"})

\* send() on the non-blocking loopback socket.
SendWake == wakeBytes' = IF wakeBytes < MaxWake THEN wakeBytes + 1 ELSE wakeBytes

\* The reactor is in client code: before Run, or inside a callback.
ClientPcs == {"main", "timerCb", "fdCb", "mailCb"}
InClient == pc \in ClientPcs /\ ops < MaxOps

UseOp == ops' = ops + 1

-----------------------------------------------------------------------------
(* Client calls, made on the reactor thread.                               *)

\* HAPPlatformTimerRegister (lines 254-286).
RegisterTimer(t, d) ==
    /\ InClient
    /\ TQ!RegisterTimer(t, d)
    /\ passRegistered' = passRegistered \cup {t}
    /\ UseOp
    /\ UNCHANGED <<wsa, state, pc, now, drainNow, regVars, pollDeadline, ready,
                   mailVars, nposts, envSteps, pollErrors, gen, polled,
                   visited>>

\* HAPPlatformTimerDeregister (lines 288-301).
DeregisterTimer(t) ==
    /\ InClient
    /\ TQ!DeregisterTimer(t)
    /\ UseOp
    /\ UNCHANGED <<wsa, state, pc, now, drainNow, regVars, pollDeadline, ready,
                   mailVars, nposts, envSteps, pollErrors, ghostVars>>

\* HAPPlatformFileHandleRegister (lines 150-176): a zeroed node linked in
\* before the sentinel, not awaiting events.
Register(h, I) ==
    /\ InClient
    /\ h \in Handles \ Live
    /\ fileHandles' = Append(fileHandles, h)
    /\ interests' = [interests EXCEPT ![h] = I]
    /\ awaiting' = [awaiting EXCEPT ![h] = FALSE]
    /\ gen' = [gen EXCEPT ![h] = @ + 1]
    /\ UseOp
    /\ UNCHANGED <<wsa, state, pc, now, drainNow, tqVars, cursor, revents,
                   pollDeadline, ready, mailVars, nposts, envSteps,
                   pollErrors, polled, visited, passRegistered>>

\* HAPPlatformFileHandleUpdateInterests (lines 178-189).
UpdateInterests(h, I) ==
    /\ InClient
    /\ h \in Live \cap Handles
    /\ interests' = [interests EXCEPT ![h] = I]
    /\ UseOp
    /\ UNCHANGED <<wsa, state, pc, now, drainNow, tqVars, fileHandles, awaiting,
                   cursor, revents, pollDeadline, ready, mailVars, nposts,
                   envSteps, pollErrors, ghostVars>>

\* Mutation: lines 198-200 dropped, the cursor may be left on a freed node.
DeregisterNoCursorFix(h) ==
    /\ fileHandles' = Remove(fileHandles, h)
    /\ cursor' = cursor

\* HAPPlatformFileHandleDeregister (lines 191-215): move the cursor off the
\* node (198-200), unlink it (202-203), zero it (205-213) and free it.
DeregisterLinks(h) ==
    /\ fileHandles' = Remove(fileHandles, h)
    /\ cursor' = IF cursor = h THEN NextOf(h) ELSE cursor

Deregister(h) ==
    /\ InClient
    /\ h \in Live \cap Handles
    /\ DeregisterLinks(h)
    /\ interests' = [interests EXCEPT ![h] = {}]
    /\ awaiting' = [awaiting EXCEPT ![h] = FALSE]
    /\ UseOp
    /\ UNCHANGED <<wsa, state, pc, now, drainNow, tqVars, revents, pollDeadline,
                   ready, mailVars, nposts, envSteps, pollErrors, ghostVars>>

\* Mutation: Stop marks Stopping but sends no wake byte (lines 580-582).
StopNoWake ==
    /\ InClient
    /\ state = "Running"
    /\ state' = "Stopping"
    /\ UNCHANGED wakeBytes
    /\ UseOp
    /\ UNCHANGED <<wsa, pc, now, drainNow, tqVars, regVars, pollDeadline, ready,
                   selfPipeBytes, numSelfPipeBytes, copied, ppc, pmsg,
                   accepted, invoked, nposts, envSteps, pollErrors, gen,
                   polled, visited, passRegistered>>

\* HAPPlatformRunLoopStop (lines 575-584): only the reactor thread calls it.
\* If running, mark Stopping and send one byte to the self-pipe.
Stop ==
    /\ InClient
    /\ state = "Running"
    /\ state' = "Stopping"
    /\ SendWake
    /\ UseOp
    /\ UNCHANGED <<wsa, pc, now, drainNow, tqVars, regVars, pollDeadline, ready,
                   selfPipeBytes, numSelfPipeBytes, copied, ppc, pmsg,
                   accepted, invoked, nposts, envSteps, pollErrors, gen,
                   polled, visited, passRegistered>>

-----------------------------------------------------------------------------
(* HAPPlatformRunLoopScheduleCallback (lines 586-611), one step per shared *)
(* access so that other threads and the reactor interleave with it.  The  *)
(* reactor thread posts only from inside a callback, and the callback does *)
(* not return before the post does.                                        *)

\* Other threads post only once the run loop exists (main creates it before
\* anything that posts); the process is gone after HAPFatalError or once
\* main has returned.
CanPost(p) ==
    /\ pc \notin {"start", "uncreated", "aborted", "ended"}
    /\ p /= ReactorPoster \/ pc \in {"timerCb", "fdCb", "mailCb"}

\* Mutation: the busy test of lines 594-597 dropped.
PostCheckNoBusy(p) ==
    /\ ppc[p] = "idle"
    /\ CanPost(p)
    /\ nposts < MaxPosts
    /\ nposts' = nposts + 1
    /\ ppc' = [ppc EXCEPT ![p] = "write"]
    /\ pmsg' = [pmsg EXCEPT ![p] = nposts + 1]
    /\ UNCHANGED <<wsa, state, pc, now, drainNow, tqVars, regVars, pollDeadline,
                   ready, wakeBytes, selfPipeBytes, numSelfPipeBytes, copied,
                   accepted, invoked, ops, envSteps, pollErrors, ghostVars>>

\* Lines 594-597: test numSelfPipeBytes; busy is kHAPError_OutOfResources.
PostCheck(p) ==
    /\ ppc[p] = "idle"
    /\ CanPost(p)
    /\ nposts < MaxPosts
    /\ nposts' = nposts + 1
    /\ IF numSelfPipeBytes > 0
       THEN UNCHANGED <<ppc, pmsg>>
       ELSE /\ ppc' = [ppc EXCEPT ![p] = "write"]
            /\ pmsg' = [pmsg EXCEPT ![p] = nposts + 1]
    /\ UNCHANGED <<wsa, state, pc, now, drainNow, tqVars, regVars, pollDeadline,
                   ready, wakeBytes, selfPipeBytes, numSelfPipeBytes, copied,
                   accepted, invoked, ops, envSteps, pollErrors, ghostVars>>

\* Lines 599-603: callback and context bytes into selfPipeBytes.
PostWrite(p) ==
    /\ ppc[p] = "write"
    /\ selfPipeBytes' = pmsg[p]
    /\ ppc' = [ppc EXCEPT ![p] = "publish"]
    /\ UNCHANGED <<wsa, state, pc, now, drainNow, tqVars, regVars, pollDeadline,
                   ready, wakeBytes, numSelfPipeBytes, copied, pmsg, accepted,
                   invoked, budgetVars, ghostVars>>

\* Line 604: numSelfPipeBytes = sizeof callback + 1 + contextSize.
PostPublish(p) ==
    /\ ppc[p] = "publish"
    /\ numSelfPipeBytes' = 1
    /\ ppc' = [ppc EXCEPT ![p] = "send"]
    /\ UNCHANGED <<wsa, state, pc, now, drainNow, tqVars, regVars, pollDeadline,
                   ready, wakeBytes, selfPipeBytes, copied, pmsg, accepted,
                   invoked, budgetVars, ghostVars>>

\* Mutation: return without sending the wake byte (lines 606-608 dropped).
PostSendNoWake(p) ==
    /\ ppc[p] = "send"
    /\ UNCHANGED wakeBytes
    /\ ppc' = [ppc EXCEPT ![p] = "idle"]
    /\ accepted' = accepted \cup {pmsg[p]}
    /\ UNCHANGED <<wsa, state, pc, now, drainNow, tqVars, regVars, pollDeadline,
                   ready, selfPipeBytes, numSelfPipeBytes, copied, pmsg,
                   invoked, budgetVars, ghostVars>>

\* Lines 607-610: send the wake byte and return kHAPError_None.
PostSend(p) ==
    /\ ppc[p] = "send"
    /\ SendWake
    /\ ppc' = [ppc EXCEPT ![p] = "idle"]
    /\ accepted' = accepted \cup {pmsg[p]}
    /\ UNCHANGED <<wsa, state, pc, now, drainNow, tqVars, regVars, pollDeadline,
                   ready, selfPipeBytes, numSelfPipeBytes, copied, pmsg,
                   invoked, budgetVars, ghostVars>>

-----------------------------------------------------------------------------
(* The reactor thread: HAPPlatformRunLoopRun (lines 497-573).              *)

\* Lines 498-499.
Run ==
    /\ pc = "main"
    /\ state = "Idle"
    /\ state' = "Running"
    /\ pc' = "loop"
    /\ UNCHANGED <<wsa, now, drainNow, tqVars, regVars, pollDeadline, ready,
                   mailVars, budgetVars, ghostVars>>

\* Line 503, then line 304: read the clock once for the whole drain.
BeginCycle ==
    /\ pc = "loop"
    /\ state = "Running"
    /\ drainNow' = now
    /\ passRegistered' = {}
    /\ pc' = "drain"
    /\ UNCHANGED <<wsa, state, now, tqVars, regVars, pollDeadline, ready,
                   mailVars, budgetVars, gen, polled, visited>>

\* Line 503 false: line 571.
ExitLoop ==
    /\ pc = "loop"
    /\ state /= "Running"
    /\ state' = "Idle"
    /\ pc' = "exited"
    /\ UNCHANGED <<wsa, now, drainNow, tqVars, regVars, pollDeadline, ready,
                   mailVars, budgetVars, ghostVars>>

\* Lines 306-307: the list is not empty and its head is due.
HeadDue == timers /= <<>> /\ deadline[Head(timers)] <= drainNow

\* ProcessExpiredTimers lines 306-314: the head is due, pop and call it.
DrainStep ==
    /\ pc = "drain"
    /\ HeadDue
    /\ TQ!PopTimer
    /\ pc' = "timerCb"
    /\ UNCHANGED <<wsa, state, now, drainNow, regVars, pollDeadline, ready,
                   mailVars, budgetVars, ghostVars>>

\* Mutation: timeout = (int)delta without the clamp: a delta past INT_MAX
\* turns into a negative int, which WSAPoll takes as "wait forever".
TimeoutUnclamped ==
    IF timers = <<>> THEN Infinite
    ELSE IF deadline[Head(timers)] <= now THEN now
    ELSE IF deadline[Head(timers)] - now <= PollTimeoutMax
         THEN deadline[Head(timers)]
    ELSE Infinite

\* Lines 508-517: WSAPoll's deadline, from a fresh read of the clock; the
\* delta saturates at INT_MAX, so a later deadline costs extra wake-ups.
Timeout ==
    IF timers = <<>> THEN Infinite
    ELSE IF deadline[Head(timers)] <= now THEN now
    ELSE IF deadline[Head(timers)] - now < PollTimeoutMax
         THEN deadline[Head(timers)]
    ELSE now + PollTimeoutMax

\* Lines 306-308 end the drain; 508-549 compute the timeout, count the
\* handles and build the poll array, marking every handle awaiting.  The
\* array's calloc may fail (532-536), and the loop starts over.
DrainDone ==
    /\ pc = "drain"
    /\ ~HeadDue
    /\ \/ /\ pollDeadline' = Timeout
          /\ awaiting' = [n \in Nodes |-> n \in Live \/ awaiting[n]]
          /\ polled' = {<<n, gen[n]>> : n \in Live}
          /\ pc' = "poll"
          /\ UNCHANGED pollErrors
       \/ /\ pollErrors < MaxPollErrors
          /\ pollErrors' = pollErrors + 1
          /\ pc' = "loop"
          /\ UNCHANGED <<pollDeadline, awaiting, polled>>
    /\ UNCHANGED <<wsa, state, now, drainNow, tqVars, fileHandles, interests,
                   cursor, revents, ready, mailVars, ops, nposts, envSteps,
                   gen, visited, passRegistered>>

\* WSAPoll returns when a polled socket is ready or the timeout passes
\* (line 552); with events, dispatch starts at the head (564-565, 220).
PollWake ==
    /\ pc = "poll"
    /\ \/ \E n \in Live : PollEvents(n) /= {}
       \/ pollDeadline /= Infinite /\ now >= pollDeadline
    /\ revents' = [n \in Nodes |-> IF n \in Live THEN PollEvents(n) ELSE {}]
    /\ IF \E n \in Live : PollEvents(n) /= {}
       THEN /\ pc' = "dispatch"
            /\ cursor' = FirstNode
       ELSE /\ pc' = "loop"
            /\ UNCHANGED cursor
    /\ visited' = {}
    /\ UNCHANGED <<wsa, state, now, drainNow, tqVars, fileHandles, interests,
                   awaiting, pollDeadline, ready, mailVars, budgetVars, gen,
                   polled, passRegistered>>

\* Lines 554-561: WSAPoll fails; the awaiting flags stay set.
PollFail ==
    /\ pc = "poll"
    /\ pollErrors < MaxPollErrors
    /\ pollErrors' = pollErrors + 1
    /\ pc' = "loop"
    /\ UNCHANGED <<wsa, state, now, drainNow, tqVars, regVars, pollDeadline, ready,
                   mailVars, ops, nposts, envSteps, ghostVars>>

\* Mutation: the isAwaitingEvents test of line 225 dropped.
DispatchStepIgnoreAwaiting ==
    /\ pc = "dispatch"
    /\ cursor /= Sentinel
    /\ LET n   == cursor
           evs == interests[n] \cap revents[n]
       IN  /\ cursor' = NextOf(n)
           /\ awaiting' = [awaiting EXCEPT ![n] = FALSE]
           /\ visited' = visited \cup {<<n, gen[n]>>}
           /\ pc' = IF evs = {} THEN "dispatch"
                    ELSE IF n = SelfPipe THEN "pipeRecv" ELSE "fdCb"
    /\ UNCHANGED <<wsa, state, now, drainNow, tqVars, fileHandles, interests,
                   revents, pollDeadline, ready, mailVars, budgetVars, gen,
                   polled, passRegistered>>

\* ProcessSelectedFileHandles lines 222-243: take the cursor's node and
\* advance the cursor before anything else; if the node awaits events,
\* clear that and call it with the events it is still interested in.
\* Every polled socket is in pollFds, so the lookup of 231-232 succeeds.
DispatchStep ==
    /\ pc = "dispatch"
    /\ cursor /= Sentinel
    /\ LET n   == cursor
           evs == interests[n] \cap revents[n]
       IN  /\ cursor' = NextOf(n)
           /\ awaiting' = [awaiting EXCEPT ![n] = FALSE]
           /\ IF awaiting[n]
              THEN /\ visited' = visited \cup {<<n, gen[n]>>}
                   /\ pc' = IF evs = {} THEN "dispatch"
                            ELSE IF n = SelfPipe THEN "pipeRecv" ELSE "fdCb"
              ELSE UNCHANGED <<pc, visited>>
    /\ UNCHANGED <<wsa, state, now, drainNow, tqVars, fileHandles, interests,
                   revents, pollDeadline, ready, mailVars, budgetVars, gen,
                   polled, passRegistered>>

\* Line 221: the cursor is back at the sentinel; lines 568, 503.
DispatchDone ==
    /\ pc = "dispatch"
    /\ cursor = Sentinel
    /\ pc' = "loop"
    /\ UNCHANGED <<wsa, state, now, drainNow, tqVars, regVars, pollDeadline, ready,
                   mailVars, budgetVars, ghostVars>>

-----------------------------------------------------------------------------
(* SelfPipeHandleCallback (lines 331-359), the self-pipe's callback.       *)

\* Line 337: one recv of up to 256 bytes drains the socket.
PipeRecv ==
    /\ pc = "pipeRecv"
    /\ wakeBytes' = 0
    /\ pc' = "pipeCheck"
    /\ UNCHANGED <<wsa, state, now, drainNow, tqVars, regVars, pollDeadline, ready,
                   selfPipeBytes, numSelfPipeBytes, copied, ppc, pmsg,
                   accepted, invoked, budgetVars, ghostVars>>

\* Mutation: the numSelfPipeBytes test of line 345 dropped.
PipeCheckUntested ==
    /\ pc = "pipeCheck"
    /\ copied' = selfPipeBytes
    /\ pc' = "pipeClear"
    /\ UNCHANGED <<wsa, state, now, drainNow, tqVars, regVars, pollDeadline, ready,
                   wakeBytes, selfPipeBytes, numSelfPipeBytes, ppc, pmsg,
                   accepted, invoked, budgetVars, ghostVars>>

\* Lines 345-352: if a message is published, copy it out.
PipeCheck ==
    /\ pc = "pipeCheck"
    /\ IF numSelfPipeBytes > 0
       THEN /\ copied' = selfPipeBytes
            /\ pc' = "pipeClear"
       ELSE /\ pc' = "dispatch"
            /\ UNCHANGED copied
    /\ UNCHANGED <<wsa, state, now, drainNow, tqVars, regVars, pollDeadline, ready,
                   wakeBytes, selfPipeBytes, numSelfPipeBytes, ppc, pmsg,
                   accepted, invoked, budgetVars, ghostVars>>

\* Lines 354-356: free the slot, then call the copied callback.
PipeClear ==
    /\ pc = "pipeClear"
    /\ numSelfPipeBytes' = 0
    /\ invoked' = Append(invoked, copied)
    /\ pc' = "mailCb"
    /\ UNCHANGED <<wsa, state, now, drainNow, tqVars, regVars, pollDeadline, ready,
                   wakeBytes, selfPipeBytes, copied, ppc, pmsg, accepted,
                   budgetVars, ghostVars>>

\* A callback returns, after any post it made has returned.  A timer's node
\* is then freed (line 316) and the drain goes on; a handle's callback
\* returns to the dispatch loop (line 221).
CallbackReturn ==
    /\ pc \in {"timerCb", "fdCb", "mailCb"}
    /\ \A p \in Posters \cap {ReactorPoster} : ppc[p] = "idle"
    /\ IF pc = "timerCb"
       THEN /\ TQ!TimerReturn
            /\ pc' = "drain"
       ELSE /\ pc' = "dispatch"
            /\ UNCHANGED tqVars
    /\ UNCHANGED <<wsa, state, now, drainNow, regVars, pollDeadline, ready,
                   mailVars, budgetVars, ghostVars>>

\* Mutation: runLoop.winsockInitialized is never set (line 454), so Release
\* skips its WSACleanup.
ReleaseNoCleanup ==
    /\ DeregisterLinks(SelfPipe)
    /\ interests' = [interests EXCEPT ![SelfPipe] = {}]
    /\ awaiting' = [awaiting EXCEPT ![SelfPipe] = FALSE]
    /\ UNCHANGED wsa

\* HAPPlatformRunLoopRelease (lines 474-495): deregister the self-pipe
\* handle, close its sockets and the wake event, and WSACleanup for the
\* WSAStartup of Create (winsockInitialized is set from Create to here).
Release ==
    /\ DeregisterLinks(SelfPipe)
    /\ interests' = [interests EXCEPT ![SelfPipe] = {}]
    /\ awaiting' = [awaiting EXCEPT ![SelfPipe] = FALSE]
    /\ wsa' = wsa - 1

\* DeinitializePlatform (Main.c lines 200-218), after Run has returned and
\* AppRelease and HAPAccessoryServerRelease (outside this repository): the
\* MFi and TCP stream managers hold no run-loop state; then Release.
DeinitializePlatform ==
    /\ pc = "exited"
    /\ Release
    /\ pc' = "exit"
    /\ UNCHANGED <<state, now, drainNow, tqVars, revents, pollDeadline, ready,
                   mailVars, budgetVars, ghostVars>>

\* HAPPlatformRunLoopCreate (lines 447-472) with CreateSelfPipe (360-444):
\* WSAStartup, CreateEvent, then a listening loopback socket, a client
\* socket connected to it and the accepted peer, both non-blocking, and
\* the peer registered for reading (HAPPlatformFileHandleRegister).  Any
\* failure of these calls, the register's calloc included, is
\* HAPFatalError: the process ends.
Create ==
    \/ /\ wsa' = wsa + 1
       /\ fileHandles' = <<SelfPipe>>
       /\ interests' = [interests EXCEPT ![SelfPipe] = {"read"}]
       /\ gen' = [gen EXCEPT ![SelfPipe] = 1]
       /\ pc' = "main"
    \/ /\ pc' = "aborted"
       /\ UNCHANGED <<wsa, fileHandles, interests, gen>>

\* InitializePlatform (Main.c lines 131-198): the key-value store, the
\* accessory setup and the MFi token provider are created without touching
\* the run loop; then HAPPlatformRunLoopCreate.
InitializePlatform ==
    /\ pc = "uncreated"
    /\ Create
    /\ UNCHANGED <<state, now, drainNow, tqVars, awaiting, cursor, revents,
                   pollDeadline, ready, mailVars, budgetVars, polled, visited,
                   passRegistered>>

-----------------------------------------------------------------------------
(* main (Main.c lines 375-527) around the run loop.                        *)

\* Lines 431-456: WSAStartup, then SetConsoleCtrlHandler; a failure of
\* either jumps to the exit label.
MainStartup ==
    /\ pc = "start"
    /\ \/ /\ pc' = "exit"                       \* WSAStartup fails
          /\ UNCHANGED wsa
       \/ /\ wsa' = wsa + 1
          /\ pc' \in {"uncreated", "exit"}      \* SetConsoleCtrlHandler
    /\ UNCHANGED <<state, now, drainNow, tqVars, regVars, pollDeadline, ready,
                   mailVars, budgetVars, ghostVars>>

\* Mutation: the exit label returns without WSACleanup.
MainExitNoCleanup ==
    /\ pc = "exit"
    /\ pc' = "ended"
    /\ UNCHANGED wsa
    /\ UNCHANGED <<state, now, drainNow, tqVars, regVars, pollDeadline, ready,
                   mailVars, budgetVars, ghostVars>>

\* Lines 500-526: remove the console handler, and at the exit label
\* WSACleanup, which fails harmlessly (WSANOTINITIALISED) when main's own
\* WSAStartup failed; then main returns.
MainExit ==
    /\ pc = "exit"
    /\ pc' = "ended"
    /\ wsa' = IF wsa > 0 THEN wsa - 1 ELSE wsa
    /\ UNCHANGED <<state, now, drainNow, tqVars, regVars, pollDeadline, ready,
                   mailVars, budgetVars, ghostVars>>

-----------------------------------------------------------------------------
(* The environment: peers of client sockets, and the clock.               *)

EnvReady(h, E) ==
    /\ envSteps < MaxEnv
    /\ envSteps' = envSteps + 1
    /\ ready' = [ready EXCEPT ![h] = E]
    /\ UNCHANGED <<wsa, state, pc, now, drainNow, tqVars, regVars, pollDeadline,
                   mailVars, ops, nposts, pollErrors, ghostVars>>

Tick ==
    /\ now < MaxTime
    /\ now' = now + 1
    /\ UNCHANGED <<wsa, state, pc, drainNow, tqVars, regVars, pollDeadline, ready,
                   mailVars, budgetVars, ghostVars>>

-----------------------------------------------------------------------------

\* main starting, with the zeroed static runLoop: no handle is registered,
\* not even the self-pipe's, and Winsock is not started.
Init ==
    /\ wsa = 0
    /\ state = "Idle"
    /\ pc = "start"
    /\ now = 0
    /\ drainNow = 0
    /\ TQ!TQInit
    /\ fileHandles = <<>>
    /\ interests = [n \in Nodes |-> {}]
    /\ awaiting = [n \in Nodes |-> FALSE]
    /\ cursor = Sentinel
    /\ revents = [n \in Nodes |-> {}]
    /\ pollDeadline = Infinite
    /\ ready = [h \in Handles |-> {}]
    /\ wakeBytes = 0
    /\ selfPipeBytes = NoMessage
    /\ numSelfPipeBytes = 0
    /\ copied = NoMessage
    /\ ppc = [p \in Posters |-> "idle"]
    /\ pmsg = [p \in Posters |-> NoMessage]
    /\ accepted = {}
    /\ invoked = <<>>
    /\ ops = 0 /\ nposts = 0 /\ envSteps = 0 /\ pollErrors = 0
    /\ gen = [n \in Nodes |-> 0]
    /\ polled = {}
    /\ visited = {}
    /\ passRegistered = {}

ClientNext ==
    \/ \E t \in Timers, d \in Deadlines : RegisterTimer(t, d)
    \/ \E t \in Timers : DeregisterTimer(t)
    \/ \E h \in Handles, I \in InterestChoices :
          Register(h, I) \/ UpdateInterests(h, I)
    \/ \E h \in Handles : Deregister(h)
    \/ Stop

ReactorNext ==
    \/ MainStartup \/ InitializePlatform \/ Run \/ BeginCycle \/ ExitLoop \/ DrainStep \/ DrainDone
    \/ PollWake \/ PollFail \/ DispatchStep \/ DispatchDone
    \/ PipeRecv \/ PipeCheck \/ PipeClear \/ CallbackReturn
    \/ DeinitializePlatform \/ MainExit

PosterNext(p) ==
    PostCheck(p) \/ PostWrite(p) \/ PostPublish(p) \/ PostSend(p)

Next ==
    \/ ClientNext
    \/ ReactorNext
    \/ \E p \in Posters : PosterNext(p)
    \/ \E h \in Handles, E \in SUBSET Events : EnvReady(h, E)
    \/ Tick

\* The reactor thread runs whenever it is not blocked, callbacks run to
\* completion, a poster that passed the busy test finishes its call, and
\* the clock advances.  Client calls, PollFail and the peers are not fair.
Fairness ==
    /\ WF_vars(MainStartup) /\ WF_vars(InitializePlatform) /\ WF_vars(Run)
    /\ WF_vars(BeginCycle) /\ WF_vars(ExitLoop)
    /\ WF_vars(DrainStep) /\ WF_vars(DrainDone) /\ WF_vars(PollWake)
    /\ WF_vars(DispatchStep) /\ WF_vars(DispatchDone)
    /\ WF_vars(PipeRecv) /\ WF_vars(PipeCheck) /\ WF_vars(PipeClear)
    /\ WF_vars(CallbackReturn) /\ WF_vars(DeinitializePlatform)
    /\ WF_vars(MainExit) /\ WF_vars(Tick)
    /\ \A p \in Posters :
          WF_vars(PostWrite(p) \/ PostPublish(p) \/ PostSend(p))

Spec == Init /\ [][Next]_vars /\ Fairness

-----------------------------------------------------------------------------
(* Properties.                                                             *)

TypeOK ==
    /\ state \in {"Idle", "Running", "Stopping"}
    /\ pc \in ClientPcs \cup {"loop", "drain", "poll", "dispatch", "pipeRecv",
                              "pipeCheck", "pipeClear", "exited", "exit",
                              "start", "uncreated", "aborted", "ended"}
    /\ wsa \in 0 .. 2
    /\ now \in 0 .. MaxTime /\ drainNow \in 0 .. now
    /\ TQ!TQTypeOK
    /\ fileHandles \in Seq(Nodes) /\ IsInjective(fileHandles)
    /\ interests \in [Nodes -> SUBSET Events]
    /\ awaiting \in [Nodes -> BOOLEAN]
    /\ cursor \in Nodes \cup {Sentinel}
    /\ revents \in [Nodes -> SUBSET Events]
    /\ pollDeadline \in {Infinite} \cup Nat
    /\ ready \in [Handles -> SUBSET Events]
    /\ wakeBytes \in 0 .. MaxWake
    /\ selfPipeBytes \in Messages \cup {NoMessage}
    /\ numSelfPipeBytes \in {0, 1}
    /\ copied \in Messages \cup {NoMessage}
    /\ ppc \in [Posters -> {"idle", "write", "publish", "send"}]
    /\ pmsg \in [Posters -> Messages \cup {NoMessage}]
    /\ accepted \subseteq Messages
    /\ invoked \in Seq(Messages)

DispatchPcs == {"dispatch", "fdCb", "pipeRecv", "pipeCheck", "pipeClear",
                "mailCb"}

(***************************************************************************)
(* The dispatch walk of ProcessSelectedFileHandles survives callbacks that *)
(* deregister and register handles: the cursor never rests on a freed     *)
(* node, only a handle of the current poll array whose incarnation is      *)
(* still registered is marked awaiting, and when the walk reaches the     *)
(* sentinel every handle of the poll array still registered has been       *)
(* examined.                                                               *)
(***************************************************************************)
DispatchSafe ==
    /\ pc \in DispatchPcs => cursor \in Live \cup {Sentinel}
    /\ \A n \in Nodes : awaiting[n] => n \in Live /\ <<n, gen[n]>> \in polled
    /\ pc = "dispatch" /\ cursor = Sentinel =>
          \A n \in Live : <<n, gen[n]>> \in polled => <<n, gen[n]>> \in visited

(***************************************************************************)
(* A dispatched callback goes only to a handle the current WSAPoll         *)
(* selected, in the incarnation it selected, and at most once per pass: a *)
(* handle deregistered by another callback (even if its memory and socket *)
(* are reused at once) or registered during the pass is not called.       *)
(***************************************************************************)
CallbackOnlyForSelectedHandle ==
    [][pc = "dispatch" /\ pc' \in {"fdCb", "pipeRecv"} =>
         /\ cursor \in Live
         /\ <<cursor, gen[cursor]>> \in polled
         /\ <<cursor, gen[cursor]>> \notin visited]_vars

(***************************************************************************)
(* After Stop, Run returns and main runs to its end: the wake byte Stop    *)
(* sends unblocks a WSAPoll with no timeout even when Stop was called from *)
(* a timer callback, before the poll.                                      *)
(***************************************************************************)
StopTerminates == state = "Stopping" ~> pc = "ended"

(***************************************************************************)
(* When main returns, the self-pipe's sockets are closed and every         *)
(* successful WSAStartup has had its WSACleanup: main's own (Main.c line   *)
(* 436), cleaned up at its exit label also when SetConsoleCtrlHandler     *)
(* failed, and the run loop's (line 449), cleaned up by Release only if    *)
(* Create recorded it in winsockInitialized.  Winsock keeps a count; an    *)
(* unbalanced pair leaves it started, or stops it under the other user.    *)
(***************************************************************************)
WinsockReleasedAtExit == pc = "ended" => wsa = 0 /\ SelfPipe \notin Live

TS == INSTANCE TimerService WITH pending <- TQ!PendingTimers

(***************************************************************************)
(* The timer list with the run loop around it implements TimerService:    *)
(* only due timers fire, earliest deadline first and equal deadlines in    *)
(* registration order, each removed before its callback and freed after.  *)
(***************************************************************************)
TimerServiceRefinement == TS!Spec

(***************************************************************************)
(* While the loop runs, a registered timer eventually fires or is          *)
(* deregistered: WSAPoll's timeout is bounded by the head's deadline.      *)
(***************************************************************************)
TimerEventuallyFires ==
    \A t \in Timers :
        t \in TQ!PendingTimers /\ state = "Running"
            ~> t \notin TQ!PendingTimers \/ state /= "Running"

MB == INSTANCE Mailbox WITH
        None <- NoMessage,
        slot <- IF numSelfPipeBytes > 0 THEN selfPipeBytes ELSE NoMessage,
        delivered <- invoked

(***************************************************************************)
(* ScheduleCallback and the self-pipe callback implement the single-slot   *)
(* Mailbox: a post is accepted only into the empty slot, and the reactor   *)
(* calls each accepted message once, in order, emptying the slot first.   *)
(***************************************************************************)
MailboxRefinement == MB!Spec

(***************************************************************************)
(* A post that returned kHAPError_None is eventually called by the         *)
(* reactor unless Run has returned: the wake byte reaches a blocked WSAPoll.*)
(***************************************************************************)
PostEventuallyDelivered ==
    \A m \in Messages :
        m \in accepted ~> m \in Range(invoked) \/ pc \in {"exited", "exit", "ended"}

(***************************************************************************)
(* A timer registered from a timer callback of the current                 *)
(* ProcessExpiredTimers pass does not fire in that pass, even with a       *)
(* deadline not after the callback's own (spec section 8).                 *)
(***************************************************************************)
NoRetriggerInPass == firing /= NoTimer => firing \notin passRegistered

=============================================================================
