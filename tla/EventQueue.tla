----------------------------- MODULE EventQueue -----------------------------
(***************************************************************************)
(* The pausable, deduplicating task queue of vminfod:                      *)
(*   src/src/vm/node_modules/queue.js             (Queue)                  *)
(*   src/src/vm/node_modules/vasync/lib/vasync.js (WorkQueue, underneath)  *)
(* together with a client that keeps to the interface: it calls pause only *)
(* on a running queue, resume and fastForward only on a paused one, and    *)
(* waits for the callback of one call before it makes the next.            *)
(*                                                                         *)
(* One action is one turn of the Node event loop, so an action runs to     *)
(* completion: a push also dispatches, the end of a task also dispatches   *)
(* the next one or emits 'drain', and 'drain' also runs its listeners.     *)
(***************************************************************************)
EXTENDS Integers, Sequences, FiniteSets

CONSTANTS
    Desc,        \* task descriptions, the key that deduplication compares
    Workers,     \* opts.workers
    Dedup,       \* opts.dedup
    IdleDelay,   \* TRUE iff opts.idleTime > 0
    Timeouts,    \* which of the calls "pause", "forward" are given a timeout
    MaxTasks     \* bound: how many tasks are ever accepted

ASSUME QueueAssumption ==
    /\ Workers \in Nat \ {0}
    /\ Dedup \in BOOLEAN
    /\ IdleDelay \in BOOLEAN
    /\ Timeouts \subseteq {"pause", "forward"}
    /\ MaxTasks \in Nat

VARIABLES
    paused,       \* self.paused
    pausedQueue,  \* self.paused_queue
    queued,       \* self.queue.queued, the waiting entries of the WorkQueue
    dispatched,   \* pending entries whose worker setImmediate has yet to call
    running,      \* pending entries whose worker has been called
    idle,         \* self.idle
    idleTimer,    \* self.idleTimer is armed
    call,         \* the client's last asynchronous call and its outcome
    ffTime,       \* the time the client last passed to fastForward
    nextId,       \* creation time of the next task: one tick per accepted task
    failed,       \* an assert() of the queue has thrown
    dirty,        \* history: enqueued and no task begun since
    lastStarted   \* history: the id of the task begun last

queueVars == <<paused, pausedQueue, queued, dispatched, running, idle,
               idleTimer, call, ffTime, nextId, failed, dirty, lastStarted>>

Task == [id : 1 .. MaxTasks, desc : Desc]

\* "pausing" and "forwarding": a 'drain' listener of the client is registered.
CallStates == {"none", "pausing", "paused", "pauseFailed",
               "forwarding", "forwarded", "forwardFailed"}

NPending == Len(dispatched) + Cardinality(running)

\* Tasks that no worker has begun, in the order in which they are to begin.
Waiting == dispatched \o queued \o pausedQueue

Unfinished == {Waiting[i] : i \in 1 .. Len(Waiting)} \cup running

CanCall == call \notin {"pausing", "forwarding"}

-----------------------------------------------------------------------------
QueueInit ==
    /\ paused \in BOOLEAN
    /\ idle = ~paused
    /\ idleTimer = FALSE
    /\ pausedQueue = <<>>
    /\ queued = <<>>
    /\ dispatched = <<>>
    /\ running = {}
    /\ call = "none"
    /\ ffTime = 0
    /\ nextId = 1
    /\ failed = FALSE
    /\ dirty = {}
    /\ lastStarted = 0

(***************************************************************************)
(* WorkQueue.dispatchNext over the entries s with np of them pending: it   *)
(* shifts entries to the workers while one is free.                        *)
(***************************************************************************)
DispatchNext(s, np) ==
    LET free == Workers - np
        n    == IF Len(s) < free THEN Len(s) ELSE free
    IN  /\ dispatched' = dispatched \o SubSeq(s, 1, n)
        /\ queued' = SubSeq(s, n + 1, Len(s))

\* WorkQueue.push, of several tasks in order: pushOne, then dispatchNext.
Push(tasks) == DispatchNext(queued \o tasks, NPending)

\* Mutant: a task that is running counts as a duplicate too.
IsDuplicate_Running(d) ==
    \/ paused /\ \E i \in 1 .. Len(pausedQueue) : pausedQueue[i].desc = d
    \/ \E i \in 1 .. Len(queued) : queued[i].desc = d
    \/ \E t \in running : t.desc = d

\* The tasks against which enqueue compares a new description.
IsDuplicate(d) ==
    \/ paused /\ \E i \in 1 .. Len(pausedQueue) : pausedQueue[i].desc = d
    \/ \E i \in 1 .. Len(queued) : queued[i].desc = d

Discard(d) ==
    /\ Dedup /\ IsDuplicate(d)
    /\ UNCHANGED <<paused, pausedQueue, queued, dispatched, idle, idleTimer,
                   nextId>>

Accept(d) ==
    LET task == [id |-> nextId, desc |-> d]
    IN  /\ ~(Dedup /\ IsDuplicate(d))
        /\ nextId <= MaxTasks
        /\ nextId' = nextId + 1
        /\ \/ /\ paused
              /\ pausedQueue' = Append(pausedQueue, task)
              /\ UNCHANGED <<queued, dispatched, idle, idleTimer>>
           \/ /\ ~paused
              /\ idle' = FALSE           \* _clearIdleTimer
              /\ idleTimer' = FALSE
              /\ Push(<<task>>)
              /\ UNCHANGED pausedQueue
        /\ UNCHANGED paused

Enqueue(d) ==
    /\ Discard(d) \/ Accept(d)
    /\ dirty' = dirty \cup {d}
    /\ UNCHANGED <<running, call, ffTime, failed, lastStarted>>

\* The setImmediate of WorkQueue.dispatch calls the worker.
Start ==
    /\ dispatched # <<>>
    /\ dispatched' = Tail(dispatched)
    /\ running' = running \cup {Head(dispatched)}
    /\ dirty' = dirty \ {Head(dispatched).desc}
    /\ lastStarted' = Head(dispatched).id
    /\ UNCHANGED <<paused, pausedQueue, queued, idle, idleTimer, call, ffTime,
                   nextId, failed>>

\* _emitIdleEvent, on the values its caller has just given the two flags.
EmitIdle(i, timer) ==
    IF i \/ timer
    THEN failed' = TRUE /\ idle' = i
    ELSE idle' = TRUE /\ UNCHANGED failed

\* Mutant: queueOnDrain does not look at self.paused.
QueueOnDrain_Paused ==
    \/ ~IdleDelay /\ idleTimer' = FALSE /\ EmitIdle(FALSE, FALSE)
    \/ IdleDelay /\ idle' = FALSE /\ idleTimer' = TRUE /\ UNCHANGED failed

\* The permanent 'drain' listener of the constructor, queueOnDrain.
QueueOnDrain ==
    \/ paused /\ UNCHANGED <<idle, idleTimer, failed>>
    \/ ~paused /\ ~IdleDelay /\ idleTimer' = FALSE /\ EmitIdle(FALSE, FALSE)
    \/ ~paused /\ IdleDelay /\ idle' = FALSE /\ idleTimer' = TRUE
       /\ UNCHANGED failed

\* The once('drain', ondrain) listeners of pause and fastForward.
OnDrain ==
    call' = CASE call = "pausing"    -> "paused"
              [] call = "forwarding" -> "forwarded"
              [] OTHER               -> call

(***************************************************************************)
(* queueTaskFuncDone: the task calls back.  An error is only emitted, and  *)
(* a task timeout only emits one too, so neither changes the queue.        *)
(***************************************************************************)
Finish(t) ==
    /\ t \in running
    /\ running' = running \ {t}
    /\ \/ /\ NPending = 1 /\ queued = <<>>
          /\ QueueOnDrain /\ OnDrain
          /\ UNCHANGED <<queued, dispatched>>
       \/ /\ ~(NPending = 1 /\ queued = <<>>)
          /\ DispatchNext(queued, NPending - 1)
          /\ UNCHANGED <<idle, idleTimer, failed, call>>
    /\ UNCHANGED <<paused, pausedQueue, ffTime, nextId, dirty, lastStarted>>

\* queueIdle: the idle timer fires.
IdleTimeout ==
    /\ idleTimer
    /\ idleTimer' = FALSE
    /\ EmitIdle(idle, FALSE)
    /\ UNCHANGED <<paused, pausedQueue, queued, dispatched, running, call,
                   ffTime, nextId, dirty, lastStarted>>

\* Mutant: pause calls back without waiting for the pending tasks.
PauseQueue_AtOnce ==
    /\ IF paused
       THEN failed' = TRUE /\ UNCHANGED <<paused, idle, idleTimer, call>>
       ELSE /\ paused' = TRUE /\ idle' = FALSE /\ idleTimer' = FALSE
            /\ call' = "paused"
            /\ UNCHANGED failed
    /\ UNCHANGED <<pausedQueue, queued, dispatched, running, ffTime, nextId,
                   dirty, lastStarted>>

\* Queue.pause.  Without a running task the callback is called at once.
PauseQueue ==
    /\ IF paused
       THEN failed' = TRUE /\ UNCHANGED <<paused, idle, idleTimer, call>>
       ELSE /\ paused' = TRUE
            /\ idle' = FALSE            \* _clearIdleTimer
            /\ idleTimer' = FALSE
            /\ call' = IF NPending = 0 THEN "paused" ELSE "pausing"
            /\ UNCHANGED failed
    /\ UNCHANGED <<pausedQueue, queued, dispatched, running, ffTime, nextId,
                   dirty, lastStarted>>

\* Mutant: resume takes the paused tasks with pop() in place of shift().
ResumeQueue_Pop ==
    LET n == Len(pausedQueue)
    IN  /\ paused' = FALSE
        /\ Push([i \in 1 .. n |-> pausedQueue[n + 1 - i]])
        /\ pausedQueue' = <<>>
        /\ UNCHANGED <<idle, failed>>

\* Mutant: resume forgets the paused tasks.
ResumeQueue_Forget ==
    /\ paused' = FALSE
    /\ pausedQueue' = <<>>
    /\ EmitIdle(idle, idleTimer)
    /\ UNCHANGED <<queued, dispatched>>

\* What Queue.resume does to the queue, apart from the client's call.
ResumeQueue ==
    IF ~paused \/ idle \/ idleTimer
    THEN /\ failed' = TRUE
         /\ UNCHANGED <<paused, pausedQueue, queued, dispatched, idle>>
    ELSE /\ paused' = FALSE
         /\ IF pausedQueue = <<>>
            THEN /\ EmitIdle(idle, idleTimer)
                 /\ UNCHANGED <<pausedQueue, queued, dispatched>>
            ELSE /\ Push(pausedQueue)
                 /\ pausedQueue' = <<>>
                 /\ UNCHANGED <<idle, failed>>

\* pauseTimeout: the queue resumes itself and reports the error.
PauseTimeout ==
    /\ call = "pausing" /\ "pause" \in Timeouts
    /\ call' = "pauseFailed"
    /\ ResumeQueue
    /\ UNCHANGED <<running, idleTimer, ffTime, nextId, dirty, lastStarted>>

\* Queue.resume, called by the client.
DoResume ==
    /\ ResumeQueue
    /\ call' = "none"
    /\ UNCHANGED <<running, idleTimer, ffTime, nextId, dirty, lastStarted>>

\* Mutant: fastForward calls back as soon as it has pushed the tasks.
DoFastForward_AtOnce(time) ==
    /\ \E n \in 0 .. Len(pausedQueue) :
          /\ \A i \in 1 .. n : pausedQueue[i].id <= time
          /\ n < Len(pausedQueue) => pausedQueue[n + 1].id > time
          /\ pausedQueue' = SubSeq(pausedQueue, n + 1, Len(pausedQueue))
          /\ Push(SubSeq(pausedQueue, 1, n))
    /\ call' = "forwarded"
    /\ ffTime' = time
    /\ UNCHANGED <<paused, running, idle, idleTimer, nextId, failed, dirty,
                   lastStarted>>

\* Queue.fastForward: pushes the leading tasks created up to time.
DoFastForward(time) ==
    /\ IF ~paused
       THEN failed' = TRUE /\ UNCHANGED <<pausedQueue, queued, dispatched, call>>
       ELSE /\ \E n \in 0 .. Len(pausedQueue) :
                  /\ \A i \in 1 .. n : pausedQueue[i].id <= time
                  /\ n < Len(pausedQueue) => pausedQueue[n + 1].id > time
                  /\ pausedQueue' = SubSeq(pausedQueue, n + 1, Len(pausedQueue))
                  /\ Push(SubSeq(pausedQueue, 1, n))
                  /\ call' = IF n = 0 THEN "forwarded" ELSE "forwarding"
            /\ UNCHANGED failed
    /\ ffTime' = time
    /\ UNCHANGED <<paused, running, idle, idleTimer, nextId, dirty, lastStarted>>

\* fastForwardTimeout: reports the error, the tasks are left running.
FastForwardTimeout ==
    /\ call = "forwarding" /\ "forward" \in Timeouts
    /\ call' = "forwardFailed"
    /\ UNCHANGED <<paused, pausedQueue, queued, dispatched, running, idle,
                   idleTimer, ffTime, nextId, failed, dirty, lastStarted>>

-----------------------------------------------------------------------------
\* The client that keeps to the interface.
Pause == CanCall /\ ~paused /\ PauseQueue

Resume == CanCall /\ paused /\ DoResume

FastForward(time) == CanCall /\ paused /\ DoFastForward(time)

QueueStep ==
    \/ \E d \in Desc : Enqueue(d)
    \/ Start
    \/ \E t \in running : Finish(t)
    \/ IdleTimeout

QueueNext ==
    /\ ~failed
    /\ \/ QueueStep
       \/ Pause
       \/ PauseTimeout
       \/ Resume
       \/ \E time \in 0 .. nextId - 1 : FastForward(time)
       \/ FastForwardTimeout

QueueSpec == QueueInit /\ [][QueueNext]_queueVars

-----------------------------------------------------------------------------
\* The type invariant: the values that the fields of Queue and WorkQueue take.
TypeOK ==
    /\ paused \in BOOLEAN
    /\ pausedQueue \in Seq(Task)
    /\ queued \in Seq(Task)
    /\ dispatched \in Seq(Task)
    /\ running \subseteq Task
    /\ idle \in BOOLEAN
    /\ idleTimer \in BOOLEAN
    /\ call \in CallStates
    /\ ffTime \in 0 .. MaxTasks
    /\ nextId \in 1 .. MaxTasks + 1
    /\ failed \in BOOLEAN
    /\ dirty \subseteq Desc
    /\ lastStarted \in 0 .. MaxTasks

\* Deduplication never loses work: as long as no task has begun since the last
\* enqueue of a description, a task with it still waits to begin.  (A task
\* that is already running must not count as a duplicate.)
NoLostWork ==
    \A d \in dirty : \E i \in 1 .. Len(Waiting) : Waiting[i].desc = d

\* Tasks begin in the order of their creation, whatever sequence of pauses,
\* partial fast-forwards, timeouts and resumes they wait through.
InOrder ==
    /\ \A i, j \in 1 .. Len(Waiting) : i < j => Waiting[i].id < Waiting[j].id
    /\ \A i \in 1 .. Len(Waiting) :
          lastStarted < Waiting[i].id /\ Waiting[i].id < nextId

\* When pause calls back without an error nothing runs and nothing is queued
\* to run (its short cut looks at npending alone).
PauseQuiesces ==
    call = "paused" => NPending = 0 /\ queued = <<>>

\* No assert() of the queue throws for a client that keeps to the interface.
NoAssertionFailure == ~failed
=============================================================================
