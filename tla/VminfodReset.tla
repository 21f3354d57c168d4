---------------------------- MODULE VminfodReset ----------------------------
(***************************************************************************)
(* How vminfod drives its event queue: start() resumes it once, and the    *)
(* periodic timer runs reset(), which pauses the queue, loads the state of *)
(* the system, fast-forwards the queue to now, compares, and resumes.      *)
(*   src/src/vm/node_modules/vminfod/vminfod.js   (start, startTimers,     *)
(*                                                 reset)                  *)
(* What the tasks and the comparison do to the cache is module Vminfod.    *)
(***************************************************************************)
EXTENDS EventQueue

VARIABLES
    timer,   \* the periodic timer and what it waits for
    phase    \* where the pipeline of start() or reset() stands

resetVars == <<timer, phase>>

vars == <<queueVars, resetVars>>

TimerStates == {"off", "armed", "waitIdle", "go", "refreshing"}

Phases == {"booting", "running", "pausing", "fetching", "forwarding",
           "comparing"}

\* startInitQueue: one worker, paused, deduplicating, idleTime 1000.
Init ==
    /\ QueueInit
    /\ paused = TRUE
    /\ timer = "off"
    /\ phase = "booting"

(***************************************************************************)
(* An error that pause or fastForward reports runs through the pipeline to *)
(* resetDone in the same turn of the event loop, and so does an 'idle'     *)
(* event from its listener to the call of pause: nothing comes in between. *)
(***************************************************************************)
EndOfTurn == call \notin {"pauseFailed", "forwardFailed"} /\ timer # "go"

\* startResumeQueue, and startTimers which arms the periodic timer.
Boot ==
    /\ phase = "booting"
    /\ DoResume
    /\ phase' = "running"
    /\ timer' = "armed"

\* periodicTimeout: refresh at once if the queue is idle, or else when it is.
PeriodicTimeout ==
    /\ timer = "armed"
    /\ timer' = IF idle THEN "go" ELSE "waitIdle"
    /\ UNCHANGED <<queueVars, phase>>

\* killTimerTimeout: the 'idle' event has not come, refresh anyway.
KillTimer ==
    /\ timer = "waitIdle"
    /\ timer' = "go"
    /\ UNCHANGED <<queueVars, phase>>

\* A step of the queue's own.  The 'idle' event wakes up a waiting timer.
QueueTurn(step) ==
    /\ step
    /\ timer' = IF timer = "waitIdle" /\ ~idle /\ idle' THEN "go" ELSE timer
    /\ UNCHANGED phase

\* go and resetPauseQueue.
ResetPause ==
    /\ timer = "go"
    /\ timer' = "refreshing"
    /\ phase' = "pausing"
    /\ PauseQueue

ResetPauseTimeout ==
    /\ phase = "pausing"
    /\ PauseTimeout
    /\ UNCHANGED resetVars

\* The queue has paused: resetFetchNewData starts to load the new vm_data.
ResetFetch ==
    /\ phase = "pausing" /\ call = "paused"
    /\ phase' = "fetching"
    /\ UNCHANGED <<queueVars, timer>>

\* vm_data has been loaded: resetFastForwardQueue, to the time it is now.
ResetForward ==
    /\ phase = "fetching"
    /\ DoFastForward(nextId - 1)
    /\ phase' = "forwarding"
    /\ UNCHANGED timer

ResetForwardTimeout ==
    /\ phase = "forwarding"
    /\ FastForwardTimeout
    /\ UNCHANGED resetVars

\* resetCompareVmobjSets.
ResetCompare ==
    /\ phase = "forwarding" /\ call = "forwarded"
    /\ phase' = "comparing"
    /\ UNCHANGED <<queueVars, timer>>

\* Mutant: the queue is resumed only after a reset that has not failed.
ResetDone_NoResume ==
    /\ \/ /\ phase = "comparing" /\ DoResume
       \/ /\ \/ phase = "fetching"
             \/ phase = "pausing" /\ call = "pauseFailed"
             \/ phase = "forwarding" /\ call = "forwardFailed"
          /\ call' = "none"
          /\ UNCHANGED <<paused, pausedQueue, queued, dispatched, running, idle,
                         idleTimer, ffTime, nextId, failed, dirty, lastStarted>>
    /\ phase' = "running"
    /\ timer' = "armed"

\* Mutant: a reset that has failed does not arm the timer again.
ResetDone_NoTimer ==
    /\ \/ phase \in {"fetching", "comparing"}
       \/ phase = "pausing" /\ call = "pauseFailed"
       \/ phase = "forwarding" /\ call = "forwardFailed"
    /\ DoResume
    /\ phase' = "running"
    /\ timer' = IF phase = "comparing" THEN "armed" ELSE "off"

(***************************************************************************)
(* resetDone, after the last step or after one that failed: the load, the  *)
(* comparison, pause or fastForward.  It resumes the queue whatever has    *)
(* happened, and refreshDone arms the timer again.                         *)
(***************************************************************************)
ResetDone ==
    /\ \/ phase \in {"fetching", "comparing"}
       \/ phase = "pausing" /\ call = "pauseFailed"
       \/ phase = "forwarding" /\ call = "forwardFailed"
    /\ DoResume
    /\ phase' = "running"
    /\ timer' = "armed"

Next ==
    /\ ~failed
    /\ \/ ResetPause
       \/ ResetDone
       \/ /\ EndOfTurn
          /\ \/ Boot
             \/ PeriodicTimeout
             \/ KillTimer
             \/ QueueTurn(QueueStep)
             \/ ResetPauseTimeout
             \/ ResetFetch
             \/ ResetForward
             \/ ResetForwardTimeout
             \/ ResetCompare

(***************************************************************************)
(* Fairness: the event loop gets to every callback, timer and immediate    *)
(* that is due, and a task and the load and comparison of a reset call     *)
(* back in the end.  No fairness on Enqueue (events need not come), on the *)
(* two timeouts nor on the kill timer.                                     *)
(***************************************************************************)
Fairness ==
    /\ WF_vars(ResetPause)
    /\ WF_vars(ResetDone)
    /\ WF_vars(EndOfTurn /\ (Boot \/ PeriodicTimeout))
    /\ WF_vars(EndOfTurn /\ (ResetFetch \/ ResetForward \/ ResetCompare))
    /\ WF_vars(EndOfTurn /\ QueueTurn(Start))
    /\ WF_vars(EndOfTurn /\ QueueTurn(IdleTimeout))
    /\ WF_vars(EndOfTurn /\ QueueTurn(\E t \in running : Finish(t)))

Spec == Init /\ [][Next]_vars

FairSpec == Spec /\ Fairness

-----------------------------------------------------------------------------
\* The type invariant of the queue, the periodic timer and the reset.
ResetTypeOK ==
    /\ TypeOK
    /\ timer \in TimerStates
    /\ phase \in Phases

\* The client side of the queue's contract: outside a reset the queue runs,
\* and it is paused all through the reset.
PausedExactlyInReset ==
    EndOfTurn => (paused <=> phase # "running")

\* While reset loads the system's state no task runs or is queued to run, so
\* no task changes the cache that the load is going to be compared with.
FetchUndisturbed ==
    phase = "fetching" => NPending = 0 /\ queued = <<>>

\* When reset compares, every event that was received before the load ended
\* has been handled, and no handler is at work.
CompareUndisturbed ==
    phase = "comparing" => running = {} /\ \A t \in Unfinished : t.id > ffTime

\* No handler disturbs a reset: the queue is paused from its beginning to its
\* end and no longer, and nothing runs while it loads or compares, although
\* tasks were running when it began and are forwarded in the middle of it.
ResetUndisturbed ==
    PausedExactlyInReset /\ FetchUndisturbed /\ CompareUndisturbed

\* Of the assertions of the queue only one can throw, and only in one way: the
\* resume of a resetDone that follows a pause which has timed out.
OnlyPauseTimeoutThrows == [][failed' => failed \/ call = "pauseFailed"]_vars

\* Every event is handled in the end, unless that assertion has ended vminfod:
\* the handler begins after the event, in spite of the periodic pauses.
EveryEventHandled ==
    \A d \in Desc : d \in dirty ~> d \notin dirty \/ failed

\* The periodic refresh never dies, unless that assertion has ended vminfod:
\* it pauses the queue again and again, and the queue always runs again.
RefreshRecurs ==
    []<>(phase = "pausing" \/ failed) /\ []<>(phase = "running")
=============================================================================
