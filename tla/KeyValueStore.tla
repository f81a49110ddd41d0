---------------------------- MODULE KeyValueStore ----------------------------
(***************************************************************************)
(* The key-value store of src/PAL/Windows/HAPPlatformKeyValueStore.c over  *)
(* the file manager of HAPPlatformFileManager.c, with the disk beneath     *)
(* them and crashes.  Each (domain, key) is one file "DD.KK" in the root   *)
(* directory.  Set writes "DD.KK-tmp", flushes it and renames it over      *)
(* "DD.KK"; Remove deletes the file; Enumerate and PurgeDomain walk the    *)
(* directory with FindFirstFileA/FindNextFileA and call a callback on each *)
(* entry of the domain, PurgeDomain removing each one as it goes.  The     *)
(* root directory itself is created by the first WriteFile.                *)
(*                                                                         *)
(* The disk: vol is what the file system shows (the cache), dur what is    *)
(* on the medium.  Renames and deletions are metadata changes that reach   *)
(* the medium later, in the order made (journal).  A file's data reaches   *)
(* the medium when it is flushed, or at some unknown time if it is not: a  *)
(* rename that reaches the medium before the renamed file's data shows     *)
(* Garbage.  A crash, or HAPFatalError, restarts the process with vol      *)
(* equal to dur.                                                           *)
(*                                                                         *)
(* All calls run on the reactor thread one at a time; the only interleaved *)
(* steps are the disk's write-back (Commit) and crashes.  A temporary file *)
(* is never read and its name fails the full-name match of line 282, so    *)
(* a WriteFile is one step: before its rename nothing it did is visible.   *)
(***************************************************************************)
EXTENDS Naturals, Sequences, SequencesExt, FiniteSets

CONSTANTS
    Domains,            \* HAPPlatformKeyValueStoreDomain values (numbers)
    KeyIds,             \* HAPPlatformKeyValueStoreKey values (numbers)
    Values,             \* byte strings a client stores (model values)
    RootDir,            \* the root directory ".HomeKitStore"
    Absent,             \* no file of that name
    Garbage,            \* contents no Set wrote: data never written back
    NoFile,             \* the enumeration cursor before the first entry
    MaxOps,             \* bound on client calls
    MaxCrashes,         \* bound on crashes
    MaxFlushFailures,   \* bound on failed FlushFileBuffers calls
    MaxIoErrors         \* bound on other failed Win32 calls

VARIABLES
    vol,          \* vol[p]: the contents of path p as the file system shows it
    dur,          \* dur[p]: the contents of path p on the medium
    journal,      \* renames and deletions not yet on the medium, oldest first
    pc,           \* "idle" between calls, "enum" inside enumdir's loop
    call,         \* the enumeration running: "enumerate" or "purge"
    enumDomain,   \* the domain being enumerated
    cursor,       \* the last entry FindFirstFileA/FindNextFileA returned
    listing,      \* the entries present when FindFirstFileA ran
    purgeStart,   \* the file contents when the enumeration began
    startErrors,  \* ioErrors when the enumeration began
    stopped,      \* the client callback cleared *shouldContinue
    ret,          \* the HAPError the last call returned, or "Aborted"
    lastError,    \* the thread's GetLastError() value
    ops, crashes, flushFails, ioErrors  \* bounded counters

disk == <<vol, dur, journal>>
enumVars == <<call, enumDomain, cursor, listing, purgeStart, startErrors,
              stopped>>
kvVars == <<vol, dur, journal, pc, call, enumDomain, cursor, listing,
            purgeStart, startErrors, stopped, ret, lastError, ops, crashes,
            flushFails, ioErrors>>

Files == Domains \X KeyIds
Paths == Files \cup {RootDir}
Dir == "dir"            \* the contents of RootDir once created
Content == Values \cup {Absent, Garbage}
Entry == [file : Paths, content : Values \cup {Absent, Dir}, flushed : BOOLEAN]
Errors == {"success", "noMoreFiles", "notFound", "other"}

\* GetFilePath (lines 116-143) names a file "%02X.%02X"; fixed-width hex
\* names sort as the numbers do, and NTFS returns entries in name order.
FileBefore(f, g) == f[1] < g[1] \/ (f[1] = g[1] /\ f[2] < g[2])

Earliest(S) == CHOOSE f \in S : \A g \in S \ {f} : FileBefore(f, g)

Result(ok) == IF ok THEN "None" ELSE "Unknown"

IdleCall ==
    /\ pc = "idle"
    /\ ops < MaxOps
    /\ ops' = ops + 1

IoFails == ioErrors < MaxIoErrors /\ ioErrors' = ioErrors + 1

ApplyEntry(s, e) == [s EXCEPT ![e.file] = e.content]

\* Metadata changes es made in order: the file system shows them at once,
\* the medium when Commit reaches them.
Record(es) ==
    /\ vol' = FoldLeft(ApplyEntry, vol, es)
    /\ journal' = journal \o es

\* The process dies (a crash, or HAPFatalError) and starts again: the file
\* system comes back with what was on the medium.
Restart ==
    /\ vol' = dur
    /\ journal' = <<>>
    /\ pc' = "idle"
    /\ cursor' = NoFile
    /\ listing' = {}
    /\ stopped' = FALSE
    /\ ret' = "Aborted"
    /\ lastError' = "success"
    /\ UNCHANGED <<dur, call, enumDomain, purgeStart, startErrors>>

-----------------------------------------------------------------------------
(* Get: HAPPlatformKeyValueStoreGet and HAPPlatformFileManagerReadFile.    *)

\* ReadFile returning r: a missing file is no error (found is false).
ReadFile(f, r) ==
    \/ /\ vol[f] = Absent          \* CreateFileA: ERROR_FILE_NOT_FOUND
       /\ r = "None"
       /\ lastError' = "notFound"
       /\ UNCHANGED ioErrors
    \/ /\ vol[f] /= Absent         \* read to maxBytes or end of file
       /\ r = "None"
       /\ UNCHANGED <<lastError, ioErrors>>
    \/ /\ vol[f] /= Absent         \* CreateFileA or ReadFile fails
       /\ r = "Unknown"
       /\ IoFails
       /\ lastError' = "other"

Get(f) ==
    /\ IdleCall
    /\ \E r \in {"None", "Unknown"} : ReadFile(f, r) /\ ret' = r
    /\ UNCHANGED <<disk, pc, enumVars, crashes, flushFails>>

(* Set: HAPPlatformKeyValueStoreSet and HAPPlatformFileManagerWriteFile.   *)

\* Mutation: MoveFileExA(finalPath, tmpPath, ...), the arguments swapped.
RenameEntrySwapped(f, v, flushOk) ==
    [file |-> <<f[1], f[2], "tmp">>, content |-> v, flushed |-> flushOk]

RenameEntry(f, v, flushOk) ==
    [file |-> f, content |-> v, flushed |-> flushOk]

\* HAPPlatformFileManagerCreateDirectory (lines 18-80) on the root, which
\* WriteFile passes as the directory part of "DD.KK-tmp" (lines 105-124):
\* the path has no separator, so no parent is made (lines 44-66), and
\* CreateDirectoryA creates it or fails with ERROR_ALREADY_EXISTS, which is
\* success (lines 70-77).  The metadata changes it makes.
CreateDirectory ==
    IF vol[RootDir] = Absent
    THEN <<[file |-> RootDir, content |-> Dir, flushed |-> TRUE]>>
    ELSE <<>>

\* WriteFile returning r.  Every failure (CreateDirectoryA, or CreateFileA,
\* WriteFile or MoveFileExA after the directory was made) deletes the
\* temporary file and leaves the final file as it was.
WriteFile(f, v, r) ==
    \/ /\ r = "Unknown"
       /\ IoFails
       /\ lastError' = "other"
       /\ \E made \in {<<>>, CreateDirectory} : Record(made)
       /\ UNCHANGED <<dur, flushFails>>
    \/ /\ r = "None"
       /\ \E flushOk \in {TRUE} \cup
                (IF flushFails < MaxFlushFailures THEN {FALSE} ELSE {}) :
            /\ Record(CreateDirectory \o <<RenameEntry(f, v, flushOk)>>)
            /\ flushFails' = IF flushOk THEN flushFails ELSE flushFails + 1
            /\ lastError' = IF flushOk THEN lastError ELSE "other"
       /\ UNCHANGED <<dur, ioErrors>>

Set(f, v) ==
    /\ IdleCall
    /\ \E r \in {"None", "Unknown"} : WriteFile(f, v, r) /\ ret' = r
    /\ UNCHANGED <<pc, enumVars, crashes>>

(* Remove: HAPPlatformKeyValueStoreRemove and                              *)
(* HAPPlatformFileManagerRemoveFile, returning r.                          *)

RemoveFile(f, r) ==
    \/ /\ vol[f] = Absent              \* GetFileAttributesA: not found
       /\ r = "None"
       /\ lastError' = "notFound"
       /\ UNCHANGED <<disk, ioErrors>>
    \/ /\ vol[f] /= Absent             \* DeleteFileA succeeds
       /\ r = "None"
       /\ vol' = [vol EXCEPT ![f] = Absent]
       /\ journal' = Append(journal, [file |-> f, content |-> Absent,
                                      flushed |-> TRUE])
       /\ UNCHANGED <<dur, lastError, ioErrors>>
    \/ /\ vol[f] /= Absent             \* DeleteFileA fails otherwise
       /\ r = "Unknown"
       /\ IoFails
       /\ lastError' = "other"
       /\ UNCHANGED disk

\* Line 332: GetFileAttributesA fails other than "not found": HAPFatalError.
RemoveFileFatal ==
    /\ IoFails
    /\ Restart

RemoveKey(f) ==
    /\ IdleCall
    /\ \E r \in {"None", "Unknown"} : RemoveFile(f, r) /\ ret' = r
    /\ UNCHANGED <<pc, enumVars, crashes, flushFails>>

RemoveFatal ==
    /\ IdleCall
    /\ RemoveFileFatal
    /\ UNCHANGED <<crashes, flushFails>>

-----------------------------------------------------------------------------
(* Enumerate and PurgeDomain: enumdir (lines 31-89) with EnumdirCallback   *)
(* (260-314) as body, and for PurgeDomain (343-380) a client callback      *)
(* that removes each key.                                                  *)

\* Line 53: FindFirstFileA on "dir\*"; it returns "." first, which the
\* callback skips (line 272), so no entry of the store has been seen yet.
EnumBegin(d, kind) ==
    /\ IdleCall
    /\ \/ /\ vol[RootDir] = Absent             \* lines 56-60: path not found
          /\ ret' = "None"
          /\ lastError' = "notFound"
          /\ UNCHANGED <<pc, enumVars, ioErrors>>
       \/ /\ vol[RootDir] /= Absent
          /\ pc' = "enum"
          /\ call' = kind
          /\ enumDomain' = d
          /\ cursor' = NoFile
          /\ listing' = {f \in Files : vol[f] /= Absent}
          /\ purgeStart' = vol
          /\ startErrors' = ioErrors
          /\ stopped' = FALSE
          /\ UNCHANGED <<ret, lastError, ioErrors>>
       \/ /\ IoFails                      \* FindFirstFileA fails
          /\ ret' = "Unknown"
          /\ lastError' = "other"
          /\ UNCHANGED <<pc, enumVars>>
    /\ UNCHANGED <<disk, crashes, flushFails>>

AfterCursor == {f \in Files : cursor = NoFile \/ FileBefore(cursor, f)}
LiveAfter == {f \in AfterCursor : vol[f] /= Absent}

\* FindNextFileA returns the next name present, or the next one that was
\* present when the search began and is still in its buffer.
NextEntries ==
    {Earliest(S) : S \in {S \in {LiveAfter,
                                  {f \in AfterCursor : f \in listing} \cup LiveAfter} :
                          S /= {}}}

\* Mutation: the domain test of line 298 is left out.
IsEntryOfDomainAny(f, d) == TRUE

\* Lines 271-299: the name parses as exactly "%2X.%2X", and its domain is
\* the one enumerated.
IsEntryOfDomain(f, d) == f[1] = d

\* An entry of another domain: the callback returns 0 with cont unchanged.
EnumSkip ==
    /\ pc = "enum"
    /\ \E f \in NextEntries :
         /\ ~IsEntryOfDomain(f, enumDomain)
         /\ cursor' = f
    /\ UNCHANGED <<disk, pc, call, enumDomain, listing, purgeStart,
                   startErrors, stopped, ret, lastError, ops, crashes,
                   flushFails, ioErrors>>

\* PurgeDomainEnumerateCallback removes the key; a failure makes enumdir
\* close the search and return -1 (lines 70-73), and PurgeDomain Unknown.
PurgeEntry ==
    /\ pc = "enum"
    /\ call = "purge"
    /\ \E f \in NextEntries, r \in {"None", "Unknown"} :
         /\ IsEntryOfDomain(f, enumDomain)
         /\ cursor' = f
         /\ RemoveFile(f, r)
         /\ pc' = IF r = "None" THEN "enum" ELSE "idle"
         /\ ret' = IF r = "None" THEN ret ELSE "Unknown"
    /\ UNCHANGED <<call, enumDomain, listing, purgeStart, startErrors,
                   stopped, ops, crashes, flushFails>>

PurgeEntryFatal ==
    /\ pc = "enum"
    /\ call = "purge"
    /\ \E f \in NextEntries : IsEntryOfDomain(f, enumDomain)
    /\ RemoveFileFatal
    /\ UNCHANGED <<ops, crashes, flushFails>>

\* The client's callback of Enumerate: it may clear *shouldContinue, and
\* then enumdir breaks out of its loop (line 76) and goes on to line 80,
\* which reads GetLastError() although no call has just failed; or it may
\* return an error, which ends the enumeration with -1.
VisitEntry ==
    /\ pc = "enum"
    /\ call = "enumerate"
    /\ \E f \in NextEntries :
         /\ IsEntryOfDomain(f, enumDomain)
         /\ cursor' = f
    /\ \/ /\ UNCHANGED <<pc, stopped, ret, ioErrors>>          \* continue
       \/ /\ pc' = "idle"                                       \* stop
          /\ stopped' = TRUE
          /\ ret' = Result(lastError = "noMoreFiles")
          /\ UNCHANGED ioErrors
       \/ /\ IoFails                                             \* error
          /\ pc' = "idle"
          /\ ret' = "Unknown"
          /\ UNCHANGED stopped
    /\ UNCHANGED <<disk, call, enumDomain, listing, purgeStart, startErrors,
                   lastError, ops, crashes, flushFails>>

\* Lines 78-88: FindNextFileA returns FALSE and GetLastError() is read.
EnumEnd ==
    /\ pc = "enum"
    /\ \/ /\ LiveAfter = {}
          /\ lastError' = "noMoreFiles"
          /\ UNCHANGED ioErrors
       \/ /\ IoFails
          /\ lastError' = "other"
    /\ pc' = "idle"
    /\ ret' = Result(lastError' = "noMoreFiles")
    /\ UNCHANGED <<disk, enumVars, ops, crashes, flushFails>>

-----------------------------------------------------------------------------
(* The disk and the process.                                               *)

\* The oldest metadata change reaches the medium; a rename whose data was
\* not flushed may reach it before the data does.
Commit ==
    /\ journal /= <<>>
    /\ LET e == Head(journal) IN
       \E c \in IF e.flushed THEN {e.content} ELSE {e.content, Garbage} :
          dur' = [dur EXCEPT ![e.file] = c]
    /\ journal' = Tail(journal)
    /\ UNCHANGED <<vol, pc, enumVars, ret, lastError, ops, crashes,
                   flushFails, ioErrors>>

Crash ==
    /\ crashes < MaxCrashes
    /\ crashes' = crashes + 1
    /\ Restart
    /\ UNCHANGED <<ops, flushFails, ioErrors>>

\* The store as a previous run of the program left it on disk, or no root
\* directory yet on a first run.
Init ==
    /\ \E root \in {Absent, Dir}, files \in [Files -> Values \cup {Absent}] :
          /\ root = Absent => \A f \in Files : files[f] = Absent
          /\ vol = (RootDir :> root) @@ files
    /\ dur = vol
    /\ journal = <<>>
    /\ pc = "idle"
    /\ call = "enumerate"
    /\ enumDomain = CHOOSE d \in Domains : TRUE
    /\ cursor = NoFile
    /\ listing = {}
    /\ purgeStart = vol
    /\ startErrors = 0
    /\ stopped = FALSE
    /\ ret = "None"
    /\ lastError = "success"
    /\ ops = 0 /\ crashes = 0 /\ flushFails = 0 /\ ioErrors = 0

Next ==
    \/ \E f \in Files : Get(f) \/ RemoveKey(f)
    \/ \E f \in Files, v \in Values : Set(f, v)
    \/ RemoveFatal
    \/ \E d \in Domains, kind \in {"enumerate", "purge"} : EnumBegin(d, kind)
    \/ EnumSkip \/ PurgeEntry \/ PurgeEntryFatal \/ VisitEntry \/ EnumEnd
    \/ Commit
    \/ Crash

Spec == Init /\ [][Next]_kvVars


-----------------------------------------------------------------------------
(* Properties.                                                             *)

TypeOK ==
    /\ \A s \in {vol, dur} :
          /\ s \in [Paths -> Content \cup {Dir}]
          /\ s[RootDir] \in {Absent, Dir}
    /\ journal \in Seq(Entry)
    /\ pc \in {"idle", "enum"}
    /\ call \in {"enumerate", "purge"}
    /\ enumDomain \in Domains
    /\ cursor \in Files \cup {NoFile}
    /\ listing \subseteq Files
    /\ purgeStart \in [Paths -> Content \cup {Dir}]
    /\ startErrors \in 0..MaxIoErrors
    /\ stopped \in BOOLEAN
    /\ ret \in {"None", "Unknown", "Aborted"}
    /\ lastError \in Errors

\* The file contents after replaying the first n pending changes of files;
\* making the root directory changes no key.
FileChanges == SelectSeq(journal, LAMBDA e : e.file /= RootDir)
Recoverable ==
    [i \in 1..Len(FileChanges) + 1 |->
        Restrict(FoldLeft(ApplyEntry, dur, SubSeq(FileChanges, 1, i - 1)),
                 Files)]

DS == INSTANCE DurableStore WITH store <- Restrict(vol, Files),
                                 recoverable <- Recoverable

(***************************************************************************)
(* Set, Remove and PurgeDomain, over any crashes and write-back, implement *)
(* DurableStore: a crash brings every file back to the contents it had     *)
(* after some prefix of the calls that returned, never a torn value and    *)
(* never a later update without an earlier one.  This is what writing a    *)
(* temporary file, flushing it and renaming it (WriteFile, lines 151-225)  *)
(* is for, and the comment of line 216 claims.                             *)
(***************************************************************************)
StoreRefinement == DS!Spec

(***************************************************************************)
(* A PurgeDomain that is not aborted returns kHAPError_None exactly when   *)
(* none of its Win32 calls failed, and then no key of the domain is left   *)
(* and every key of other domains is as it was.  Each entry is deleted     *)
(* while FindNextFileA walks the directory, the walk must still reach      *)
(* every later key, and its end must be told from a failure by the         *)
(* GetLastError() read right after FindNextFileA (lines 78-88).            *)
(***************************************************************************)
PurgeRemovesExactlyDomain ==
    [][ (call = "purge" /\ pc = "enum" /\ pc' = "idle" /\ ret' /= "Aborted")
          => /\ ret' = "None" <=> ioErrors' = startErrors
             /\ ret' = "None" =>
                  \A f \in Files :
                    vol'[f] = IF f[1] = enumDomain THEN Absent ELSE purgeStart[f]
      ]_kvVars

(***************************************************************************)
(* An enumeration that the client's callback ends by clearing              *)
(* *shouldContinue returns kHAPError_None: stopping early is how a client  *)
(* finds a key, and enumdir documents 0 as its result on success (line     *)
(* 27).                                                                    *)
(***************************************************************************)
EnumerateStopReturnsNone ==
    [][ (call = "enumerate" /\ pc = "enum" /\ pc' = "idle" /\ stopped')
          => ret' = "None"
      ]_kvVars

=============================================================================
