----------------------------- MODULE MC_RunLoop -----------------------------
(***************************************************************************)
(* Instances of RunLoop for TLC.  Nodes, timers and posters are model     *)
(* values given in the .cfg files; the definitions below are the sets the *)
(* .cfg files cannot write directly.                                       *)
(***************************************************************************)
EXTENDS RunLoop

\* Readable only, and readable or writable: an update can drop a socket's
\* write interest while its POLLOUT is already reported.
MCInterests == {{"read"}, {"read", "write"}}

\* Deadlines a client passes; 0 ("now or past") only where the run says.
MCDeadlines == {1, 2}
MCDeadlinesWithZero == {0, 1}
MCDeadlinesOne == {1}

=============================================================================
