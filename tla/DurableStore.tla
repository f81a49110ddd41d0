---------------------------- MODULE DurableStore ----------------------------
(***************************************************************************)
(* What a crash-safe key-value store promises: each file (one per domain   *)
(* and key) holds a value or is absent, and an update replaces it as a     *)
(* whole.  Updates reach the disk in the order they were made, so a crash  *)
(* brings the store back to the state it had after some prefix of the      *)
(* updates: recoverable[1] is what is on disk, later entries are the       *)
(* states after each update made since, and the last is the current store. *)
(* A crash never shows a value nobody wrote, nor one update without an     *)
(* earlier one.                                                            *)
(***************************************************************************)
EXTENDS Sequences, SequencesExt

CONSTANTS Files, Values, Absent

VARIABLES
    store,        \* the contents every read sees
    recoverable   \* the states a crash may bring back, oldest first

vars == <<store, recoverable>>

Update(f, c) ==
    /\ store' = [store EXCEPT ![f] = c]
    /\ recoverable' = Append(recoverable, store')

\* The oldest state not yet on disk becomes the one on disk.
Persist ==
    /\ Len(recoverable) > 1
    /\ recoverable' = Tail(recoverable)
    /\ UNCHANGED store

Crash ==
    /\ store' = Head(recoverable)
    /\ recoverable' = <<store'>>

\* Whatever a previous run left on disk.
Init ==
    /\ store \in [Files -> Values \cup {Absent}]
    /\ recoverable = <<store>>

Next ==
    \/ \E f \in Files, c \in Values \cup {Absent} : Update(f, c)
    \/ Persist
    \/ Crash

Spec == Init /\ [][Next]_vars

=============================================================================
