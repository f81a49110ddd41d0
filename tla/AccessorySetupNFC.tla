--------------------------- MODULE AccessorySetupNFC ---------------------------
(***************************************************************************)
(* The programmable NFC tag of src/PAL/Windows/HAPPlatformAccessorySetupNFC.c.*)
(* The controlling thread (the run loop's, calling UpdateSetupPayload and   *)
(* Release) starts a worker thread, NFCMain, that opens the reader and      *)
(* emulates a Type 2 tag serving the setup payload.  NFCStop raises         *)
(* isAborted and, while the worker is emulating, aborts the emulation with  *)
(* nfc_abort_command and retries every 100 ms, then joins the thread.  The  *)
(* two threads share the nfc fields under nfcLock, a spin lock taken with   *)
(* InterlockedCompareExchange and released with InterlockedExchange.        *)
(*                                                                          *)
(* wpc is where the worker is, cpc where the controlling thread is.  Each   *)
(* step runs from one lock operation or blocking call to the next.  libnfc  *)
(* is the environment: nfc_init and nfc_open may fail, nfc_open fails for  *)
(* as long as no reader is attached, an emulation ends                      *)
(* when a reader finishes a transaction or fails, and an abort ends an      *)
(* emulation in progress.  An abort issued before nfc_emulate_target has    *)
(* started may be kept by the driver or dropped.                            *)
(***************************************************************************)
EXTENDS Naturals

CONSTANTS
    Payloads,          \* setup payload strings (model values)
    NoPayload,         \* the zeroed setupPayload
    MaxUpdates,        \* bound on UpdateSetupPayload calls
    MaxFailures,       \* bound on failures of nfc_init, nfc_open, _beginthreadex
    MaxTransactions    \* bound on emulations a reader ends

VARIABLES
    nfcLock,        \* setupNFC->nfc.nfcLock: 0 or 1
    isActive,       \* setupNFC->nfc.isActive
    isAborted,      \* setupNFC->nfc.isAborted
    isEmulating,    \* setupNFC->nfc.isEmulating
    nfcContext,     \* setupNFC->nfc.nfcContext is not NULL
    nfcDevice,      \* setupNFC->nfc.nfcDevice is not NULL
    setupPayload,   \* setupNFC->nfc.setupPayload
    tagPayload,     \* the payload NFCMain built its nfcPayload from
    abortFlag,      \* the driver holds an abort request
    wpc,            \* the worker: "none" when no thread exists
    cpc,            \* the controlling thread
    pending,        \* the payload NFCStart will start with after NFCStop
    attached,       \* a reader is attached: without one nfc_open always fails
    updates, failures, transactions

nfcVars == <<attached, nfcLock, isActive, isAborted, isEmulating, nfcContext,
             nfcDevice, setupPayload, tagPayload, abortFlag, wpc, cpc,
             pending, updates, failures, transactions>>

Fail == failures < MaxFailures /\ failures' = failures + 1

-----------------------------------------------------------------------------
(* NFCMain (lines 97-217).                                                  *)

\* Lines 102-105: spin until the lock is taken.
MainAcquire ==
    /\ wpc = "acquire"
    /\ nfcLock = 0
    /\ nfcLock' = 1
    /\ wpc' = "init"
    /\ UNCHANGED <<attached, isActive, isAborted, isEmulating, nfcContext,
                   nfcDevice, setupPayload, tagPayload, abortFlag, cpc,
                   pending, updates, failures, transactions>>

\* Lines 107-116: nfc_init; a failure goes to cleanup.
MainInit ==
    /\ wpc = "init"
    /\ \/ nfcContext' = TRUE /\ wpc' = "open" /\ UNCHANGED failures
       \/ Fail /\ wpc' = "cleanup" /\ UNCHANGED nfcContext
    /\ UNCHANGED <<attached, nfcLock, isActive, isAborted, isEmulating,
                   nfcDevice, setupPayload, tagPayload, abortFlag, cpc,
                   pending, updates, transactions>>

\* Lines 119-182: nfc_open, holding the lock.  On success the tag payload is
\* built from setupPayload (139-159); on failure the lock is released for
\* the 500 ms retry sleep (124-126).  Without a reader every open fails.
MainOpen ==
    /\ wpc = "open"
    /\ \/ /\ attached
          /\ nfcDevice' = TRUE
          /\ tagPayload' = setupPayload
          /\ wpc' = "check"
          /\ UNCHANGED <<nfcLock, failures>>
       \/ /\ IF attached THEN Fail ELSE UNCHANGED failures
          /\ nfcLock' = 0
          /\ wpc' = "retry"
          /\ UNCHANGED <<nfcDevice, tagPayload>>
    /\ UNCHANGED <<attached, isActive, isAborted, isEmulating, nfcContext,
                   setupPayload, abortFlag, cpc, pending, updates,
                   transactions>>

\* Mutation: the isAborted test of line 130 left out.
MainRetryNoAbortCheck ==
    /\ wpc = "retry"
    /\ nfcLock = 0
    /\ nfcLock' = 1
    /\ wpc' = "open"
    /\ UNCHANGED <<attached, isActive, isAborted, isEmulating, nfcContext,
                   nfcDevice, setupPayload, tagPayload, abortFlag, cpc,
                   pending, updates, failures, transactions>>

\* Lines 127-133: take the lock again and give up if NFCStop asked to.
MainRetry ==
    /\ wpc = "retry"
    /\ nfcLock = 0
    /\ nfcLock' = 1
    /\ wpc' = IF isAborted THEN "cleanup" ELSE "open"
    /\ UNCHANGED <<attached, isActive, isAborted, isEmulating, nfcContext,
                   nfcDevice, setupPayload, tagPayload, abortFlag, cpc,
                   pending, updates, failures, transactions>>

\* Mutation: line 184 left out.
MainCheckNoFlag ==
    /\ wpc = "check"
    /\ IF isAborted
         THEN wpc' = "cleanup" /\ UNCHANGED <<nfcLock, isEmulating>>
         ELSE /\ nfcLock' = 0
              /\ wpc' = "startEmulation"
              /\ UNCHANGED isEmulating
    /\ UNCHANGED <<attached, isActive, isAborted, nfcContext, nfcDevice,
                   setupPayload, tagPayload, abortFlag, cpc, pending, updates,
                   failures, transactions>>

\* Lines 183-185: the loop test, holding the lock; before emulating, mark
\* isEmulating and release the lock.
MainCheck ==
    /\ wpc = "check"
    /\ IF isAborted
         THEN wpc' = "cleanup" /\ UNCHANGED <<nfcLock, isEmulating>>
         ELSE /\ isEmulating' = TRUE
              /\ nfcLock' = 0
              /\ wpc' = "startEmulation"
    /\ UNCHANGED <<attached, isActive, isAborted, nfcContext, nfcDevice,
                   setupPayload, tagPayload, abortFlag, cpc, pending, updates,
                   failures, transactions>>

\* Line 187: nfc_emulate_target starts.  An abort the driver kept ends it at
\* once.
MainEmulate ==
    /\ wpc = "startEmulation"
    /\ wpc' = "emulating"
    /\ UNCHANGED <<attached, nfcLock, isActive, isAborted, isEmulating,
                   nfcContext, nfcDevice, setupPayload, tagPayload, abortFlag,
                   cpc, pending, updates, failures, transactions>>

\* nfc_emulate_target returns because of an abort.
EmulationAborted ==
    /\ wpc = "emulating"
    /\ abortFlag
    /\ abortFlag' = FALSE
    /\ wpc' = "relock"
    /\ UNCHANGED <<attached, nfcLock, isActive, isAborted, isEmulating,
                   nfcContext, nfcDevice, setupPayload, tagPayload, cpc,
                   pending, updates, failures, transactions>>

\* nfc_emulate_target returns because a reader sent HALT or failed.
EmulationEnded ==
    /\ wpc = "emulating"
    /\ transactions < MaxTransactions
    /\ transactions' = transactions + 1
    /\ wpc' = "relock"
    /\ UNCHANGED <<attached, nfcLock, isActive, isAborted, isEmulating,
                   nfcContext, nfcDevice, setupPayload, tagPayload, abortFlag,
                   cpc, pending, updates, failures>>

\* Lines 188-198: take the lock and clear isEmulating.
MainRelock ==
    /\ wpc = "relock"
    /\ nfcLock = 0
    /\ nfcLock' = 1
    /\ isEmulating' = FALSE
    /\ wpc' = "check"
    /\ UNCHANGED <<attached, isActive, isAborted, nfcContext, nfcDevice,
                   setupPayload, tagPayload, abortFlag, cpc, pending, updates,
                   failures, transactions>>

\* Lines 202-216: close the device, free the context, release the lock and
\* end the thread.
MainCleanup ==
    /\ wpc = "cleanup"
    /\ nfcDevice' = FALSE
    /\ nfcContext' = FALSE
    /\ nfcLock' = 0
    /\ wpc' = "exited"
    /\ UNCHANGED <<attached, isActive, isAborted, isEmulating, setupPayload,
                   tagPayload, abortFlag, cpc, pending, updates, failures,
                   transactions>>

-----------------------------------------------------------------------------
(* The controlling thread: NFCStop (226-257), NFCStart (265-297) and their *)
(* callers.                                                                 *)

\* nfc_abort_command: it ends an emulation in progress; issued before the
\* emulation starts, the driver may keep it or drop it.
AbortCommand ==
    IF wpc = "emulating" THEN abortFlag' = TRUE
                         ELSE abortFlag' \in {abortFlag, TRUE}

\* Mutation: NFCStart copies the new payload before stopping the old thread.
UpdateCopyFirst(p) ==
    /\ cpc = "idle"
    /\ updates < MaxUpdates
    /\ updates' = updates + 1
    /\ pending' = p
    /\ cpc' = IF isActive THEN "stopAcquire" ELSE "start"
    /\ setupPayload' = p
    /\ UNCHANGED <<attached, nfcLock, isActive, isAborted, isEmulating,
                   nfcContext, nfcDevice, tagPayload, abortFlag, wpc,
                   failures, transactions>>

\* HAPPlatformAccessorySetupNFCUpdateSetupPayload (318-332) calls NFCStart,
\* which first stops an active thread (271-273).
Update(p) ==
    /\ cpc = "idle"
    /\ updates < MaxUpdates
    /\ updates' = updates + 1
    /\ pending' = p
    /\ cpc' = IF isActive THEN "stopAcquire" ELSE "start"
    /\ UNCHANGED <<attached, nfcLock, isActive, isAborted, isEmulating,
                   nfcContext, nfcDevice, setupPayload, tagPayload, abortFlag,
                   wpc, failures, transactions>>

\* HAPPlatformAccessorySetupNFCRelease (311-316) calls NFCStop.
Release ==
    /\ cpc = "idle"
    /\ pending' = NoPayload
    /\ cpc' = IF isActive THEN "stopAcquire" ELSE "released"
    /\ UNCHANGED <<attached, nfcLock, isActive, isAborted, isEmulating,
                   nfcContext, nfcDevice, setupPayload, tagPayload, abortFlag,
                   wpc, updates, failures, transactions>>

\* Lines 233-247, one pass: take the lock (the first time also raising
\* isAborted), and if the worker is emulating abort it and release the lock
\* for the 100 ms sleep, else release the lock and go on to join.
StopPass ==
    /\ cpc \in {"stopAcquire", "stopRetry"}
    /\ nfcLock = 0
    /\ isAborted' = TRUE
    /\ IF isEmulating
         THEN AbortCommand /\ cpc' = "stopRetry"
         ELSE cpc' = "stopJoin" /\ UNCHANGED abortFlag
    /\ UNCHANGED <<attached, nfcLock, isActive, isEmulating, nfcContext,
                   nfcDevice, setupPayload, tagPayload, wpc, pending, updates,
                   failures, transactions>>

\* Lines 249-253: wait for the thread to end, then zero setupNFC->nfc.
StopJoin ==
    /\ cpc = "stopJoin"
    /\ wpc = "exited"
    /\ wpc' = "none"
    /\ nfcLock' = 0
    /\ isActive' = FALSE
    /\ isAborted' = FALSE
    /\ isEmulating' = FALSE
    /\ nfcContext' = FALSE
    /\ nfcDevice' = FALSE
    /\ setupPayload' = NoPayload
    /\ abortFlag' = FALSE
    /\ cpc' = IF pending = NoPayload THEN "released" ELSE "start"
    /\ UNCHANGED <<attached, tagPayload, pending, updates, failures,
                   transactions>>

\* Mutation: the zeroing of line 291 left out.
StartNoZero ==
    /\ cpc = "start"
    /\ cpc' = "idle"
    /\ setupPayload' = pending
    /\ isActive' = TRUE
    /\ \/ wpc' = "acquire" /\ UNCHANGED failures
       \/ Fail /\ UNCHANGED wpc
    /\ UNCHANGED <<attached, nfcLock, isAborted, isEmulating, nfcContext,
                   nfcDevice, tagPayload, abortFlag, pending, updates,
                   transactions>>

\* Lines 275-295: copy the payload, mark the tag active and start NFCMain;
\* if _beginthreadex fails, zero setupNFC->nfc again.
Start ==
    /\ cpc = "start"
    /\ cpc' = "idle"
    /\ \/ /\ setupPayload' = pending
          /\ isActive' = TRUE
          /\ wpc' = "acquire"
          /\ UNCHANGED failures
       \/ /\ Fail
          /\ UNCHANGED <<setupPayload, isActive, wpc>>
    /\ UNCHANGED <<attached, nfcLock, isAborted, isEmulating, nfcContext,
                   nfcDevice, tagPayload, abortFlag, pending, updates,
                   transactions>>

-----------------------------------------------------------------------------

\* HAPPlatformAccessorySetupNFCCreate (299-309): everything zeroed.
Init ==
    /\ attached \in BOOLEAN
    /\ nfcLock = 0
    /\ isActive = FALSE
    /\ isAborted = FALSE
    /\ isEmulating = FALSE
    /\ nfcContext = FALSE
    /\ nfcDevice = FALSE
    /\ setupPayload = NoPayload
    /\ tagPayload = NoPayload
    /\ abortFlag = FALSE
    /\ wpc = "none"
    /\ cpc = "idle"
    /\ pending = NoPayload
    /\ updates = 0 /\ failures = 0 /\ transactions = 0

WorkerNext ==
    \/ MainAcquire \/ MainInit \/ MainOpen \/ MainRetry \/ MainCheck
    \/ MainEmulate \/ EmulationAborted \/ EmulationEnded \/ MainRelock
    \/ MainCleanup

ControllerNext ==
    \/ \E p \in Payloads : Update(p)
    \/ Release \/ StopPass \/ StopJoin \/ Start

Next == WorkerNext \/ ControllerNext

(***************************************************************************)
(* Fairness.  Both threads run whenever they are not spinning; a lock      *)
(* holder releases the lock within a bounded time and then sleeps (500 ms, *)
(* 100 ms) while the spinner polls every 1 ms, so a thread spinning on a   *)
(* lock that is free again and again takes it: strong fairness on every    *)
(* lock acquisition.  The driver honours an abort of an emulation in       *)
(* progress.  Client calls and readers are not fair.                       *)
(***************************************************************************)
Fairness ==
    /\ SF_nfcVars(MainAcquire) /\ SF_nfcVars(MainRetry)
    /\ SF_nfcVars(MainRelock) /\ SF_nfcVars(StopPass)
    /\ WF_nfcVars(MainInit) /\ WF_nfcVars(MainOpen) /\ WF_nfcVars(MainCheck)
    /\ WF_nfcVars(MainEmulate) /\ WF_nfcVars(EmulationAborted)
    /\ WF_nfcVars(MainCleanup) /\ WF_nfcVars(StopJoin) /\ WF_nfcVars(Start)

Spec == Init /\ [][Next]_nfcVars /\ Fairness


-----------------------------------------------------------------------------
(* NFCIOCallback (lines 46-92), the tag's answer to one frame from the     *)
(* reader, as an operator.  A frame is its command byte, its length        *)
(* data_in_len, and the byte at data_in[1]; when the frame is one byte     *)
(* long that byte lies beyond it, in libnfc's receive buffer, and may hold *)
(* any value.  The answer is an error code or the 16 bytes read from       *)
(* nfcPayload starting at index first.                                    *)

ReadCommand == 48      \* kNFCCommand_Read (0x30)
HaltCommand == 80      \* kNFCCommand_Halt (0x50)
Bytes == 0..255

\* sizeof nfcPayload: blocks 0-3 (16 bytes) and the NDEF message of 32
\* bytes (lines 141-158).
NumPayloadBytes == 48

\* libnfc's nfc_emulate_target passes its whole transmit buffer.
DataOutLen == 264

\* The frames a reader can send: commands READ, HALT and one unsupported.
Commands == {ReadCommand, HaltCommand, 0}
FrameLengths == 0..2

Error(code) == [kind |-> "error", code |-> code]
Data(first) == [kind |-> "data", first |-> first]

\* Mutation: the range test of line 73 uses >= and rejects the last block.
NFCIOCallbackOffByOne(command, len, byte1) ==
    IF len < 1 THEN Error("EINVAL")
    ELSE CASE command = ReadCommand ->
                IF DataOutLen < 16 THEN Error("ENOSPC")
                ELSE IF byte1 >= (NumPayloadBytes - 16) \div 4
                       THEN Error("EINVAL") ELSE Data(byte1 * 4)
           [] command = HaltCommand -> Error("ECONNABORTED")
           [] OTHER -> Error("ENOTSUP")

NFCIOCallback(command, len, byte1) ==
    IF len < 1 THEN Error("EINVAL")
    ELSE CASE command = ReadCommand ->
                IF DataOutLen < 16 THEN Error("ENOSPC")
                ELSE IF byte1 > (NumPayloadBytes - 16) \div 4
                       THEN Error("EINVAL") ELSE Data(byte1 * 4)
           [] command = HaltCommand -> Error("ECONNABORTED")
           [] OTHER -> Error("ENOTSUP")

\* The NFC Forum Type 2 tag READ: a frame of the command and a block
\* number answers the four 4-byte blocks from that block on, if the tag
\* has them.
Type2Read(len, block) ==
    IF len < 2 \/ 4 * block + 16 > NumPayloadBytes
      THEN Error("EINVAL") ELSE Data(4 * block)

-----------------------------------------------------------------------------
(* Properties.                                                             *)

\* Every variable holds a value of its type, and isActive is set exactly
\* while a worker thread exists (NFCStart zeroes the fields when
\* _beginthreadex fails, NFCStop after the join).
TypeOK ==
    /\ isActive = (wpc /= "none")
    /\ nfcLock \in {0, 1}
    /\ {attached, isActive, isAborted, isEmulating, nfcContext, nfcDevice,
        abortFlag}
         \subseteq BOOLEAN
    /\ {setupPayload, tagPayload, pending} \subseteq Payloads \cup {NoPayload}
    /\ wpc \in {"none", "acquire", "init", "open", "retry", "check",
                "startEmulation", "emulating", "relock", "cleanup", "exited"}
    /\ cpc \in {"idle", "stopAcquire", "stopRetry", "stopJoin", "start",
                "released"}
    /\ updates \in 0..MaxUpdates /\ failures \in 0..MaxFailures
    /\ transactions \in 0..MaxTransactions

(***************************************************************************)
(* While the worker is inside nfc_emulate_target, the tag serves the       *)
(* payload of the latest UpdateSetupPayload: NFCStart stops and joins the  *)
(* old thread before copying the new payload (lines 271-278), so a reader  *)
(* never sees a payload the accessory has replaced, e.g. a pairable one    *)
(* after pairing.                                                          *)
(***************************************************************************)
TagServesCurrentPayload ==
    wpc = "emulating" => tagPayload = setupPayload

(***************************************************************************)
(* Once NFCStop has seen isEmulating false under the lock and gone on to   *)
(* wait for the thread, the worker never emulates again: it marks         *)
(* isEmulating before it releases the lock to emulate (line 184), and it   *)
(* tests isAborted under the lock before every emulation and every open    *)
(* retry (lines 130, 183).  Otherwise nfc_emulate_target would start after *)
(* the last abort and WaitForSingleObject would wait for a reader.          *)
(***************************************************************************)
NoEmulationAfterStop ==
    cpc = "stopJoin" => wpc \notin {"startEmulation", "emulating", "relock"}

(***************************************************************************)
(* NFCStop returns: whatever the worker is doing (initialising, retrying   *)
(* nfc_open, about to emulate, emulating), it sees isAborted or has its    *)
(* emulation aborted, ends, and is joined.  This rests on isEmulating      *)
(* being set before the lock is released (line 184) and on the abort being *)
(* repeated every 100 ms (lines 237-246).                                  *)
(***************************************************************************)
StopStates == {"stopAcquire", "stopRetry", "stopJoin"}
NFCStopReturns == cpc \in StopStates ~> cpc \notin StopStates

(***************************************************************************)
(* While the tag is emulated, NFCIOCallback answers every well-formed READ *)
(* frame (command and block number) as a Type 2 tag does: the blocks from  *)
(* the one asked for, when all 16 bytes lie in nfcPayload (lines 72-78),   *)
(* else an error.  The last block that fits is an off-by-one boundary.     *)
(***************************************************************************)
ReadAnswersType2 ==
    wpc = "emulating" => \A b \in Bytes :
        LET r == NFCIOCallback(ReadCommand, 2, b) IN
        r.kind = Type2Read(2, b).kind
          /\ (r.kind = "data" => r.first = Type2Read(2, b).first)

(***************************************************************************)
(* A READ frame without its block number is refused, as a Type 2 tag       *)
(* refuses a malformed command: NFCIOCallback checks only data_in_len >= 1 *)
(* (line 59) before reading data_in[1] (line 71).                          *)
(***************************************************************************)
ShortReadRefused ==
    wpc = "emulating" => \A b \in Bytes : NFCIOCallback(ReadCommand, 1, b).kind = "error"

=============================================================================
