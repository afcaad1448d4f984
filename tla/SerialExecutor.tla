--------------------------- MODULE SerialExecutor ---------------------------
(***************************************************************************)
(* What the worker thread of lib/workerthread.cpp promises to the code     *)
(* that posts to it: the calls it accepts are started one at a time, each  *)
(* once, in the order in which they were accepted and without gaps, until  *)
(* it closes; a closed executor starts nothing.  Calls are numbered by     *)
(* acceptance, so the number of the last started call says which calls     *)
(* have been started.                                                      *)
(***************************************************************************)
EXTENDS Naturals

VARIABLES accepted,  \* how many calls were accepted so far
          started,   \* the number of the call started last
          busy,      \* a call is being executed
          closed     \* the executor has shut down

vars == <<accepted, started, busy, closed>>

Init ==
    /\ accepted = 0
    /\ started = 0
    /\ busy = FALSE
    /\ closed = FALSE

\* A call may be accepted at any time; a call accepted late is never started.
Accept ==
    /\ accepted' = accepted + 1
    /\ UNCHANGED <<started, busy, closed>>

Start ==
    /\ ~closed
    /\ ~busy
    /\ started < accepted
    /\ started' = started + 1
    /\ busy' = TRUE
    /\ UNCHANGED <<accepted, closed>>

Finish ==
    /\ busy
    /\ busy' = FALSE
    /\ UNCHANGED <<accepted, started, closed>>

Close ==
    /\ ~busy
    /\ ~closed
    /\ closed' = TRUE
    /\ UNCHANGED <<accepted, started, busy>>

Next == Accept \/ Start \/ Finish \/ Close

Spec == Init /\ [][Next]_vars
=============================================================================
