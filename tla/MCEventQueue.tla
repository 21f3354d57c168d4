---------------------------- MODULE MCEventQueue ----------------------------
(***************************************************************************)
(* EventQueue for TLC, with a history of the timeouts: the promises of the *)
(* header of queue.js about 'idle' and about fastForward hold until a call *)
(* has timed out, the other properties hold after it as well.              *)
(***************************************************************************)
EXTENDS EventQueue

VARIABLE late   \* history: a pause or a fast-forward has timed out

MCInit == QueueInit /\ late = FALSE

MCNext ==
    /\ QueueNext
    /\ late' = (late \/ call' \in {"pauseFailed", "forwardFailed"})

MCSpec == MCInit /\ [][MCNext]_<<queueVars, late>>

\* The header of queue.js: when fastForward calls back without an error the
\* tasks created up to its time are complete, also the ones that ran already
\* when it was called.
ForwardCompletes ==
    call = "forwarded" /\ ~late => \A t \in Unfinished : t.id > ffTime

\* The header of queue.js: 'idle' is emitted once the queue has drained.  The
\* tasks of a fast-forward that timed out are pending while it says so.
IdleMeansDrained == idle /\ ~late => Unfinished = {}

\* What the header of queue.js promises of 'idle' and of fastForward holds in
\* every order of calls, tasks and idle delays, until a call times out.
HeaderPromises == ForwardCompletes /\ IdleMeansDrained
=============================================================================
