---------------------------- MODULE VminfodProofs ----------------------------
(***************************************************************************)
(* Proofs about VminfodReset and Vminfod, for every set of zones, workers  *)
(* and tasks and every bound.                                              *)
(*                                                                         *)
(* The reset keeps to the interface of the queue, so that what             *)
(* EventQueueProofs shows of the queue's operations holds of vminfod too,  *)
(* and no handler disturbs a reset.  The cache implements that reset       *)
(* protocol, its jobs never meet, and so the JSON it serves is fresh, its  *)
(* listeners miss nothing, and the VM objects are made from the data.      *)
(***************************************************************************)
EXTENDS Vminfod, EventQueueProofs

-----------------------------------------------------------------------------
(***************************************************************************)
(* The reset protocol: VminfodReset.                                       *)
(***************************************************************************)

\* Where the pipeline stands tells what the queue's client has called last,
\* what the timer waits for, and whether the queue is paused.
ProtocolOK ==
    /\ timer \in TimerStates
    /\ phase \in Phases
    /\ phase = "booting" => call = "none" /\ timer = "off"
    /\ phase = "running" => call = "none" /\ timer \in {"armed", "waitIdle", "go"}
    /\ phase \notin {"booting", "running"} => timer = "refreshing"
    /\ phase = "pausing" => call \in {"pausing", "paused", "pauseFailed"}
    /\ phase = "fetching" => call = "paused"
    /\ phase = "forwarding" =>
          call \in {"forwarding", "forwarded", "forwardFailed"}
    /\ phase = "comparing" => call = "forwarded"
    /\ paused <=> phase # "running" /\ call # "pauseFailed"

\* A fast-forward that succeeds leaves the queue quiet, because the queue was
\* quiet when it began, and nothing runs before start() resumes the queue.
StaysQuiet == call = "forwarded" \/ phase = "booting" => Quiet

\* The inductive invariant, as long as no assertion has thrown.
RInv == IInv /\ ForwardOK /\ ProtocolOK /\ StaysQuiet

\* The assertion of the resume that follows a pause which timed out has thrown.
Halted == ResetTypeOK /\ failed /\ phase = "running" /\ ~paused

-----------------------------------------------------------------------------
LEMMA InitR == Init => RInv
  <1> SUFFICES ASSUME Init PROVE RInv
    OBVIOUS
  <1>1. IInv
    BY InitInv DEF Init
  <1>2. /\ call = "none" /\ ffTime = 0 /\ nextId = 1 /\ paused = TRUE
        /\ timer = "off" /\ phase = "booting"
    BY DEF Init, QueueInit
  <1>3. Quiet
    BY FS_EmptySet DEF Init, QueueInit, Quiet, NPending
  <1>4. ProtocolOK
    BY <1>2 DEF ProtocolOK, TimerStates, Phases
  <1>5. ForwardOK /\ StaysQuiet
    BY <1>2, <1>3 DEF ForwardOK, StaysQuiet
  <1> QED
    BY <1>1, <1>4, <1>5 DEF RInv

LEMMA BootR == ASSUME RInv, Boot PROVE RInv'
  <1>1. /\ paused /\ ResumeQueue /\ call' = "none" /\ phase' = "running"
        /\ timer' = "armed"
        /\ UNCHANGED <<running, idleTimer, ffTime, nextId, dirty, lastStarted>>
    BY DEF RInv, ProtocolOK, Boot, DoResume
  <1>2. IInv' /\ paused' = FALSE
    BY <1>1, ResumeInv, ResumeTasks DEF RInv
  <1>3. ProtocolOK'
    BY <1>1, <1>2 DEF ProtocolOK, TimerStates, Phases
  <1> QED
    BY <1>1, <1>2, <1>3 DEF RInv, ForwardOK, StaysQuiet

\* Steps of the timer and of the pipeline that leave the queue alone.
LEMMA PipelineR ==
    ASSUME RInv, UNCHANGED queueVars, ProtocolOK',
           phase' = "booting" => phase = "booting"
    PROVE  RInv'
  <1>1. UNCHANGED <<paused, pausedQueue, queued, dispatched, running, idle,
                    idleTimer, call, ffTime, nextId, failed, dirty, lastStarted>>
    BY DEF queueVars
  <1>2. IInv'
    BY StutterInv DEF RInv
  <1>3. ForwardOK' /\ StaysQuiet'
    BY <1>1 DEF RInv, ForwardOK, StaysQuiet, Quiet, NPending
  <1> QED
    BY <1>2, <1>3 DEF RInv

LEMMA QueueTurnR == ASSUME RInv, EndOfTurn, QueueTurn(QueueStep) PROVE RInv'
  <1>1. QueueStep /\ phase' = phase /\ timer' \in {timer, "go"}
        /\ (timer' # timer => timer = "waitIdle")
    BY DEF QueueTurn
  <1>2. IInv' /\ ForwardOK'
    BY <1>1, QueueStepInv, QueueStepForward DEF RInv
  <1>3. /\ paused' = paused
        /\ \/ call' = call
           \/ call = "pausing" /\ call' = "paused"
           \/ call = "forwarding" /\ call' = "forwarded"
    BY <1>1, QueueStepCall DEF RInv
  <1>4. ProtocolOK'
    BY <1>1, <1>3 DEF RInv, ProtocolOK, TimerStates, Phases
  <1>5. StaysQuiet'
    <2> SUFFICES ASSUME call' = "forwarded" \/ phase = "booting" PROVE Quiet'
      BY <1>1 DEF StaysQuiet
    <2>1. call \in {"forwarding", "forwarded"} \/ phase = "booting"
      BY <1>3
    <2>2. paused /\ (CanCall => Quiet)
      BY <2>1 DEF RInv, ProtocolOK, IInv, FlagsOK, StaysQuiet, CanCall
    <2>3. CanCall'
      BY <1>3 DEF RInv, ProtocolOK, CanCall
    <2> QED
      BY <1>1, <2>2, <2>3, QueueStepQuiet DEF RInv
  <1> QED
    BY <1>2, <1>4, <1>5 DEF RInv

LEMMA ResetPauseR == ASSUME RInv, ResetPause PROVE RInv'
  <1>1. /\ timer = "go" /\ timer' = "refreshing" /\ phase' = "pausing"
        /\ PauseQueue
    BY DEF ResetPause
  <1>2. phase = "running" /\ call = "none" /\ ~paused
    BY <1>1 DEF RInv, ProtocolOK, Phases
  <1>3. Pause
    BY <1>1, <1>2 DEF Pause, CanCall
  <1>4. /\ paused' = TRUE /\ call' \in {"paused", "pausing"}
        /\ UNCHANGED <<ffTime, nextId>>
    BY <1>1, <1>2 DEF PauseQueue
  <1>5. IInv'
    BY <1>3, PauseInv DEF RInv
  <1>6. ProtocolOK'
    BY <1>1, <1>4 DEF ProtocolOK, TimerStates, Phases
  <1> QED
    BY <1>1, <1>4, <1>5, <1>6 DEF RInv, ForwardOK, StaysQuiet

LEMMA ResetPauseTimeoutR == ASSUME RInv, ResetPauseTimeout PROVE RInv'
  <1>1. /\ phase = "pausing" /\ call' = "pauseFailed" /\ paused /\ ResumeQueue
        /\ UNCHANGED <<running, idleTimer, ffTime, nextId, dirty, lastStarted>>
        /\ UNCHANGED <<timer, phase>>
    BY DEF ResetPauseTimeout, PauseTimeout, resetVars, RInv, IInv, FlagsOK
  <1>2. IInv' /\ paused' = FALSE
    BY <1>1, ResumeInv, ResumeTasks DEF RInv
  <1>3. ProtocolOK'
    BY <1>1, <1>2 DEF RInv, ProtocolOK
  <1> QED
    BY <1>1, <1>2, <1>3 DEF RInv, ForwardOK, StaysQuiet

LEMMA ResetForwardR == ASSUME RInv, ResetForward PROVE RInv'
  <1>1. /\ phase = "fetching" /\ phase' = "forwarding" /\ timer' = timer
        /\ call = "paused" /\ paused /\ timer = "refreshing"
        /\ DoFastForward(nextId - 1)
    BY DEF RInv, ProtocolOK, ResetForward
  <1>2. nextId - 1 \in 0 .. nextId - 1 /\ nextId - 1 < nextId
    BY QueueAssumption DEF RInv, IInv, TypeOK
  <1>3. IInv'
    BY <1>1, <1>2, FastForwardInv DEF RInv, FastForward, CanCall
  <1>4. /\ call' \in {"forwarded", "forwarding"}
        /\ call' = "forwarded" => UNCHANGED <<dispatched, queued, pausedQueue>>
        /\ \A i \in 1 .. Len(pausedQueue') : pausedQueue'[i].id > nextId - 1
    BY <1>1, <1>2, ForwardTasks DEF RInv
  <1>5. /\ ffTime' = nextId - 1
        /\ UNCHANGED <<paused, running, nextId>>
    BY <1>1 DEF DoFastForward
  <1>6. ForwardOK'
    BY <1>2, <1>4, <1>5 DEF ForwardOK
  <1>7. StaysQuiet'
    BY <1>1, <1>4, <1>5 DEF RInv, IInv, PauseQuiesces, StaysQuiet, Quiet,
                            NPending
  <1>8. ProtocolOK'
    BY <1>1, <1>4, <1>5 DEF ProtocolOK, TimerStates, Phases
  <1> QED
    BY <1>3, <1>6, <1>7, <1>8 DEF RInv

LEMMA ResetForwardTimeoutR == ASSUME RInv, ResetForwardTimeout PROVE RInv'
  <1>1. /\ FastForwardTimeout /\ phase = "forwarding"
        /\ call' = "forwardFailed" /\ UNCHANGED <<timer, phase>>
        /\ UNCHANGED <<paused, ffTime, nextId>>
    BY DEF ResetForwardTimeout, FastForwardTimeout, resetVars
  <1>2. IInv'
    BY <1>1, FastForwardTimeoutInv DEF RInv
  <1>3. ProtocolOK'
    BY <1>1 DEF RInv, ProtocolOK
  <1> QED
    BY <1>1, <1>2, <1>3 DEF RInv, ForwardOK, StaysQuiet

\* resetDone resumes a paused queue, unless the pause has timed out: then the
\* queue has resumed itself and the assertion of resume throws.
LEMMA ResetDoneR ==
    ASSUME RInv, ResetDone
    PROVE  \/ call # "pauseFailed" /\ RInv'
           \/ call = "pauseFailed" /\ Halted'
  <1>1. /\ ResumeQueue /\ call' = "none" /\ phase' = "running" /\ timer' = "armed"
        /\ UNCHANGED <<running, idleTimer, ffTime, nextId, dirty, lastStarted>>
    BY DEF ResetDone, DoResume
  <1>2. CASE call # "pauseFailed"
    <2>1. paused
      BY <1>2 DEF RInv, ProtocolOK, ResetDone
    <2>2. IInv' /\ paused' = FALSE
      BY <1>1, <2>1, ResumeInv, ResumeTasks DEF RInv
    <2>3. ProtocolOK'
      BY <1>1, <2>2 DEF ProtocolOK, TimerStates, Phases
    <2> QED
      BY <1>1, <1>2, <2>2, <2>3 DEF RInv, ForwardOK, StaysQuiet
  <1>3. CASE call = "pauseFailed"
    <2>1. ~paused
      BY <1>3 DEF RInv, ProtocolOK
    <2>2. /\ failed' = TRUE
          /\ UNCHANGED <<paused, pausedQueue, queued, dispatched, idle>>
      BY <1>1, <2>1 DEF ResumeQueue
    <2>3. TypeOK'
      BY <1>1, <2>2 DEF RInv, IInv, TypeOK, CallStates
    <2> QED
      BY <1>1, <1>3, <2>1, <2>2, <2>3 DEF Halted, ResetTypeOK, TimerStates, Phases
  <1> QED
    BY <1>2, <1>3

\* A step keeps the invariant, or it is that throw.
LEMMA NextR ==
    ASSUME RInv, [Next]_vars
    PROVE  RInv' \/ (call = "pauseFailed" /\ Halted')
  <1>1. CASE ResetPause
    BY <1>1, ResetPauseR
  <1>2. CASE ResetDone
    BY <1>2, ResetDoneR
  <1>3. CASE Boot
    BY <1>3, BootR
  <1>4. CASE PeriodicTimeout
    BY <1>4, PipelineR DEF PeriodicTimeout, RInv, ProtocolOK, queueVars, TimerStates
  <1>5. CASE KillTimer
    BY <1>5, PipelineR DEF KillTimer, RInv, ProtocolOK, queueVars, TimerStates
  <1>6. CASE EndOfTurn /\ QueueTurn(QueueStep)
    BY <1>6, QueueTurnR
  <1>7. CASE ResetPauseTimeout
    BY <1>7, ResetPauseTimeoutR
  <1>8. CASE ResetFetch
    BY <1>8, PipelineR DEF ResetFetch, RInv, ProtocolOK, queueVars, Phases
  <1>9. CASE ResetForward
    BY <1>9, ResetForwardR
  <1>10. CASE ResetForwardTimeout
    BY <1>10, ResetForwardTimeoutR
  <1>11. CASE ResetCompare
    BY <1>11, PipelineR DEF ResetCompare, RInv, ProtocolOK, queueVars, Phases
  <1>12. CASE UNCHANGED vars
    BY <1>12, PipelineR DEF vars, resetVars, RInv, ProtocolOK, queueVars
  <1> QED
    BY <1>1, <1>2, <1>3, <1>4, <1>5, <1>6, <1>7, <1>8, <1>9, <1>10, <1>11, <1>12
       DEF Next

LEMMA HaltedStays == ASSUME Halted, [Next]_vars PROVE Halted'
  BY DEF Halted, Next, vars, queueVars, resetVars, ResetTypeOK, TypeOK

LEMMA RInvUndisturbed == ASSUME RInv PROVE ResetUndisturbed
  <1>1. PausedExactlyInReset
    BY DEF RInv, ProtocolOK, PausedExactlyInReset, EndOfTurn
  <1>2. FetchUndisturbed
    BY DEF RInv, ProtocolOK, IInv, PauseQuiesces, FetchUndisturbed
  <1>3. CompareUndisturbed
    <2> SUFFICES ASSUME phase = "comparing"
                 PROVE  running = {} /\ \A t \in Unfinished : t.id > ffTime
      BY DEF CompareUndisturbed
    <2>1. call = "forwarded" /\ Quiet /\ ForwardOK
      BY DEF RInv, ProtocolOK, StaysQuiet
    <2>2. dispatched = <<>> /\ queued = <<>> /\ running = {}
      BY <2>1, QuietNothing DEF RInv, Quiet
    <2>3. Waiting = pausedQueue
      BY <2>2 DEF Waiting, RInv, IInv, TypeOK
    <2> QED
      BY <2>1, <2>2, <2>3 DEF ForwardOK, Unfinished
  <1> QED
    BY <1>1, <1>2, <1>3 DEF ResetUndisturbed

-----------------------------------------------------------------------------
\* The invariant of the reset holds until the assertion throws.
THEOREM ResetInvariance == Spec => [](RInv \/ Halted)
  <1>1. Init => RInv
    BY InitR
  <1>2. (RInv \/ Halted) /\ [Next]_vars => (RInv \/ Halted)'
    BY NextR, HaltedStays
  <1> QED
    BY <1>1, <1>2, PTL DEF Spec

\* The queue, the timer and the pipeline keep their types.
THEOREM ResetTypeCorrectness == Spec => []ResetTypeOK
  <1>1. RInv \/ Halted => ResetTypeOK
    BY DEF RInv, IInv, ProtocolOK, Halted, ResetTypeOK
  <1> QED
    BY <1>1, ResetInvariance, PTL

\* No handler disturbs a reset of vminfod: the queue is paused from its
\* beginning to its end and no longer, and nothing runs while it loads the
\* system's state or compares, for any number of workers and any timeouts.
THEOREM NothingDisturbsReset == Spec => []ResetUndisturbed
  <1>1. Halted => ResetUndisturbed
    BY DEF Halted, ResetUndisturbed, PausedExactlyInReset, FetchUndisturbed,
           CompareUndisturbed
  <1>2. RInv \/ Halted => ResetUndisturbed
    BY <1>1, RInvUndisturbed
  <1> QED
    BY <1>2, ResetInvariance, PTL

\* start() and reset() keep to the interface of the queue: none of its
\* assertions throws, but for that of the resume in a resetDone which follows
\* a pause that has timed out.
THEOREM OnlyThatThrows == Spec => OnlyPauseTimeoutThrows
  <1>1. (RInv \/ Halted) /\ [Next]_vars
           => [failed' => failed \/ call = "pauseFailed"]_vars
    <2>1. RInv' => ~failed'
      BY DEF RInv, IInv, FlagsOK
    <2>2. Halted => failed
      BY DEF Halted
    <2> QED
      BY <2>1, <2>2, NextR
  <1> QED
    BY <1>1, ResetInvariance, PTL DEF Spec, OnlyPauseTimeoutThrows

-----------------------------------------------------------------------------
(***************************************************************************)
(* The cache implements the reset protocol.                                *)
(***************************************************************************)
EventsOK == events \subseteq Desc

LEMMA ChangeEvents ==
    ASSUME EventsOK, NEW z \in Zone, NEW data, NEW kinds \in SUBSET Kinds,
           Change(z, data, kinds)
    PROVE  EventsOK'
  <1>1. PICK sent \in SUBSET kinds :
           events' = events \cup {[kind |-> k, zone |-> z] : k \in sent}
    BY DEF Change
  <1>2. \A k \in sent : [kind |-> k, zone |-> z] \in Desc
    BY CacheAssumption
  <1> QED
    BY <1>1, <1>2 DEF EventsOK

LEMMA NextEvents == ASSUME EventsOK, [CacheNext]_allVars PROVE EventsOK'
  <1>1. CASE System
    <2>1. PICK z \in Zone : \/ ZoneCreate(z) \/ ZoneState(z) \/ XmlEdit(z)
                            \/ JsonWrite(z) \/ ZoneDelete(z)
      BY <1>1 DEF System
    <2>2. \E kinds \in SUBSET Kinds : \E data : Change(z, data, kinds)
      BY <2>1 DEF ZoneCreate, ZoneState, XmlEdit, JsonWrite, ZoneDelete, Kinds
    <2> QED
      BY <2>2, ChangeEvents
  <1>2. CASE events' \subseteq events
    BY <1>2 DEF EventsOK
  <1>3. CASE PauseForReset \/ BackToRunning
    BY <1>2, <1>3 DEF PauseForReset, BackToRunning, sysVars
  <1>4. CASE Turn
    <2>1. CASE BootWatch \/ BootReady \/ LoadStep
      BY <1>2, <2>1 DEF BootWatch, BootReady, LoadStep, LoadList, LoadNext,
                        LoadXml, LoadJson, sysVars
    <2>2. CASE \E d \in events : Deliver(d)
      BY <1>2, <2>2 DEF Deliver
    <2>3. CASE TaskStart \/ (\E t \in running : TaskDone(t))
      BY <1>2, <2>3 DEF TaskStart, TaskDone, sysVars
    <2>4. CASE \E z \in Zone : JobStep(z)
      BY <1>2, <2>4 DEF JobStep, StatXml, ReadContext, MergeZoneVmDatasets,
                        ReadFailed, CreateGetVmobj, CreateDone,
                        RefreshGetVmobj, DeleteDone, sysVars
    <2>5. CASE \E z \in Zone : GetVmobjFailed(z) \/ SerializeVm(z)
      BY <1>2, <2>5 DEF GetVmobjFailed, SerializeVm, sysVars
    <2>6. CASE LoadNewData \/ ForwardToNow \/ CompareStart \/ CompareStep
               \/ Elsewhere
      BY <1>2, <2>6 DEF LoadNewData, ForwardToNow, CompareStart, CompareStep,
                        CompareDelete, CompareRefresh, CompareEnd, Elsewhere,
                        sysVars
    <2> QED
      BY <1>4, <2>1, <2>2, <2>3, <2>4, <2>5, <2>6 DEF Turn
  <1>5. CASE UNCHANGED allVars
    BY <1>2, <1>5 DEF allVars, sysVars
  <1> QED
    BY <1>1, <1>3, <1>4, <1>5 DEF CacheNext

\* What a step of the cache is to the queue and the reset.
LEMMA NextIsReset ==
    ASSUME EventsOK, [CacheNext]_allVars
    PROVE  [Next]_vars
  <1>1. CASE System
    BY <1>1 DEF System, ZoneCreate, ZoneState, XmlEdit, JsonWrite, ZoneDelete,
                Change
  <1>2. CASE ~failed /\ PauseForReset
    BY <1>2 DEF PauseForReset, Next
  <1>3. CASE ~failed /\ BackToRunning
    BY <1>3 DEF BackToRunning, Next
  <1>4. CASE ~failed /\ EndOfTurn /\ Turn
    <2>1. CASE BootReady
      BY <1>4, <2>1 DEF BootReady, Next
    <2>2. CASE \E d \in events : Deliver(d)
      <3>1. PICK d \in Desc : QueueTurn(Enqueue(d))
        BY <2>2 DEF Deliver, EventsOK
      <3>2. QueueTurn(QueueStep)
        BY <3>1 DEF QueueTurn, QueueStep
      <3> QED
        BY <1>4, <3>2 DEF Next
    <2>3. CASE TaskStart
      <3>1. QueueTurn(QueueStep)
        BY <2>3 DEF TaskStart, QueueTurn, QueueStep
      <3> QED
        BY <1>4, <3>1 DEF Next
    <2>4. CASE \E t \in running : TaskDone(t)
      <3>1. QueueTurn(QueueStep)
        BY <2>4 DEF TaskDone, QueueTurn, QueueStep
      <3> QED
        BY <1>4, <3>1 DEF Next
    <2>5. CASE LoadNewData
      BY <1>4, <2>5 DEF LoadNewData, Next
    <2>6. CASE ForwardToNow
      BY <1>4, <2>6 DEF ForwardToNow, Next
    <2>7. CASE CompareStart
      BY <1>4, <2>7 DEF CompareStart, Next
    <2>8. CASE Elsewhere
      <3>1. QueueTurn(IdleTimeout) => QueueTurn(QueueStep)
        BY DEF QueueTurn, QueueStep
      <3> QED
        BY <1>4, <2>8, <3>1 DEF Elsewhere, Next
    <2>9. CASE BootWatch \/ LoadStep
      BY <2>9 DEF BootWatch, LoadStep, LoadList, LoadNext, LoadXml, LoadJson
    <2>10. CASE \E z \in Zone : JobStep(z)
      BY <2>10 DEF JobStep, StatXml, ReadContext, MergeZoneVmDatasets,
                   ReadFailed, CreateGetVmobj, CreateDone, RefreshGetVmobj,
                   DeleteDone
    <2>11. CASE \E z \in Zone : GetVmobjFailed(z) \/ SerializeVm(z)
      BY <2>11 DEF GetVmobjFailed, SerializeVm
    <2>12. CASE CompareStep
      BY <2>12 DEF CompareStep, CompareDelete, CompareRefresh, CompareEnd
    <2> QED
      BY <1>4, <2>1, <2>2, <2>3, <2>4, <2>5, <2>6, <2>7, <2>8, <2>9, <2>10,
         <2>11, <2>12 DEF Turn
  <1>5. CASE UNCHANGED allVars
    BY <1>5 DEF allVars
  <1> QED
    BY <1>1, <1>2, <1>3, <1>4, <1>5 DEF CacheNext

\* Every step of vminfod with its cache is a step of the reset protocol, or
\* leaves the queue and the reset alone: what holds of VminfodReset holds here.
THEOREM CacheImplementsReset == CacheSpec => Spec
  <1>1. CacheInit => Init /\ EventsOK
    BY DEF CacheInit, EventsOK
  <1>2. EventsOK /\ [CacheNext]_allVars => EventsOK'
    BY NextEvents
  <1>3. EventsOK /\ [CacheNext]_allVars => [Next]_vars
    BY NextIsReset
  <1> QED
    BY <1>1, <1>2, <1>3, PTL DEF CacheSpec, Spec
-----------------------------------------------------------------------------
(***************************************************************************)
(* The types of the cache.                                                 *)
(***************************************************************************)
Content == [Ctx -> Version]
PCs == {"none", "done", "create", "createObj", "watch", "stat", "refresh",
        "refreshObj", "unwatch"}
JobType == [pc : PCs, live : Data, tmp : Data \cup {NoData},
            err : {"none", "gone", "failed"}]

DataTypes ==
    /\ load \in [stage : Stages, left : SUBSET Zone, got : [Zone -> Content]]
    /\ vmData \in [Zone -> Content]
    /\ vmTmp \in [Zone -> Content] \cup {NoData}
    /\ vmobjs \in [Zone -> Content]
    /\ vmobjsJson \in [Zone -> Content]
    /\ view \in [Zone -> Content]
    /\ job \in [Zone -> JobType]
    /\ compare \in {"none", "create", "delete", "refresh", "over"}
    /\ old \subseteq Zone

SysTypes ==
    /\ real \in [Zone -> Content]
    /\ changes \in 0 .. MaxChange
    /\ watch \in [Zone -> BOOLEAN]

LEMMA VersionFacts ==
    /\ 0 \in Version /\ Hole \notin Version /\ Hole # 0
    /\ Absent \in Content /\ Absent \in Data /\ Content \subseteq Data
    /\ \A c \in Ctx : Absent[c] = 0
    /\ \A c : c \in Ctx <=> c = "adm" \/ c = "xml" \/ c = "json"
  <1>1. 0 \in Version /\ Hole \notin Version /\ Hole # 0
    BY CacheAssumption DEF Version, Hole
  <1>2. Absent \in Content /\ Absent \in Data /\ \A c \in Ctx : Absent[c] = 0
    BY <1>1 DEF Absent, Content, Data
  <1>3. Content \subseteq Data
    BY DEF Content, Data
  <1>4. \A c : c \in Ctx <=> c = "adm" \/ c = "xml" \/ c = "json"
    BY DEF Ctx
  <1> QED
    BY <1>1, <1>2, <1>3, <1>4

LEMMA NoDataDiffers == NoData \notin Data
  <1>1. DOMAIN NoData = {"none"}
    BY DEF NoData
  <1>2. \A d \in Data : "adm" \in DOMAIN d
    BY VersionFacts DEF Data
  <1> QED
    BY <1>1, <1>2

LEMMA JobFacts ==
    /\ NoJob \in JobType
    /\ NoJob.pc = "none"
    /\ \A pc \in PCs : /\ [NoJob EXCEPT !.pc = pc] \in JobType
                       /\ [NoJob EXCEPT !.pc = pc].pc = pc
                       /\ [NoJob EXCEPT !.pc = pc].err = "none"
  BY VersionFacts DEF NoJob, JobType, PCs

LEMMA PokeType ==
    ASSUME NEW data \in Content, NEW contexts
    PROVE  Poke(data, contexts) \in Data
  BY DEF Poke, Content, Data

LEMMA CreateType ==
    ASSUME NEW z \in Zone
    PROVE  /\ CreateVmobj(z) \in JobType
           /\ vmobjs[z] # Absent => CreateVmobj(z).pc = "done"
           /\ vmobjs[z] = Absent =>
                 /\ CreateVmobj(z).pc = "create"
                 /\ CreateVmobj(z).live["adm"] = Hole
  <1>1. [c \in Ctx |-> Hole] \in Data
    BY DEF Data
  <1> QED
    BY <1>1, VersionFacts DEF CreateVmobj, NoJob, JobType, PCs

LEMMA RefreshType ==
    ASSUME DataTypes, NEW z \in Zone, NEW contexts
    PROVE  /\ RefreshVmobj(z, contexts) \in JobType
           /\ vmobjs[z] = Absent => RefreshVmobj(z, contexts).pc = "done"
           /\ vmobjs[z] # Absent =>
                 /\ RefreshVmobj(z, contexts).pc = "refresh"
                 /\ RefreshVmobj(z, contexts).err = "none"
                 /\ RefreshVmobj(z, contexts).live = Poke(vmData[z], contexts)
                 /\ RefreshVmobj(z, contexts).tmp =
                       IF vmTmp = NoData THEN NoData ELSE Poke(vmTmp[z], contexts)
  <1>1. Poke(vmData[z], contexts) \in Data
    BY PokeType DEF DataTypes
  <1>2. vmTmp # NoData => Poke(vmTmp[z], contexts) \in Data
    BY PokeType DEF DataTypes
  <1>3. CASE vmobjs[z] = Absent
    <2>1. RefreshVmobj(z, contexts) = [NoJob EXCEPT !.pc = "done"]
      BY <1>3 DEF RefreshVmobj
    <2>2. "done" \in PCs
      BY DEF PCs
    <2> QED
      BY <1>3, <2>1, <2>2, JobFacts
  <1>4. CASE vmobjs[z] # Absent
    BY <1>1, <1>2, <1>4 DEF RefreshVmobj, JobType, PCs
  <1> QED
    BY <1>3, <1>4

LEMMA TaskType ==
    ASSUME DataTypes, NEW d \in Desc
    PROVE  /\ d.zone \in Zone /\ TaskJob(d) \in JobType
           /\ \/ vmobjs[d.zone] = Absent /\ TaskJob(d) = CreateVmobj(d.zone)
              \/ \E contexts : TaskJob(d) = RefreshVmobj(d.zone, contexts)
              \/ TaskJob(d).pc \in {"done", "stat"}
  <1>1. d.zone \in Zone /\ d.kind \in Kinds
    BY CacheAssumption
  <1>2. CASE d.kind = "zone" /\ vmobjs[d.zone] = Absent
    BY <1>1, <1>2, CreateType DEF TaskJob, HandleZoneEventTask
  <1>3. CASE d.kind = "zone" /\ vmobjs[d.zone] # Absent
    <2>1. TaskJob(d) = RefreshVmobj(d.zone, {"adm", "xml"})
      BY <1>3 DEF TaskJob, HandleZoneEventTask
    <2> QED
      BY <1>1, <2>1, RefreshType
  <1>4. CASE d.kind = "xml"
    <2>1. TaskJob(d) = RefreshVmobj(d.zone, {"xml"})
      BY <1>4 DEF TaskJob, HandleZoneXMLEventTask
    <2> QED
      BY <1>1, <2>1, RefreshType
  <1>5. CASE d.kind = "json"
    <2>1. TaskJob(d) = RefreshVmobj(d.zone, {"json"})
      BY <1>5 DEF TaskJob, HandleZoneContextUpdate
    <2> QED
      BY <1>1, <2>1, RefreshType
  <1>6. CASE d.kind = "xmldel"
    <2>1. TaskJob(d) = [NoJob EXCEPT !.pc =
                          IF vmobjs[d.zone] = Absent THEN "done" ELSE "stat"]
      BY <1>6 DEF TaskJob, HandleZoneXMLEventTask
    <2>2. "done" \in PCs /\ "stat" \in PCs
      BY DEF PCs
    <2> QED
      BY <1>1, <2>1, <2>2, JobFacts
  <1> QED
    BY <1>1, <1>2, <1>3, <1>4, <1>5, <1>6 DEF Kinds

LEMMA SetJobFacts ==
    ASSUME DataTypes, NEW z \in Zone, NEW j \in JobType, SetJob(z, j)
    PROVE  /\ job' \in [Zone -> JobType]
           /\ job'[z] = j
           /\ \A y \in Zone : y # z => job'[y] = job[y]
  BY DEF DataTypes, SetJob

LEMMA EndJobFacts ==
    ASSUME DataTypes, NEW z \in Zone, EndJob(z)
    PROVE  /\ job' \in [Zone -> JobType]
           /\ job'[z].pc = "done"
           /\ \A y \in Zone : y # z => job'[y] = job[y]
  <1>1. "done" \in PCs
    BY DEF PCs
  <1> QED
    BY <1>1, JobFacts, SetJobFacts DEF EndJob

\* deleteVmobj removes every trace of the zones that have a VM object, and
\* only marks the others as done.
LEMMA DeleteFacts ==
    ASSUME DataTypes, NEW Z \in SUBSET Zone, DeleteVmobjs(Z)
    PROVE  /\ vmobjs' \in [Zone -> Content] /\ vmobjsJson' \in [Zone -> Content]
           /\ vmData' \in [Zone -> Content] /\ job' \in [Zone -> JobType]
           /\ vmTmp' \in [Zone -> Content] \cup {NoData}
           /\ vmTmp \in [Zone -> Content] => vmTmp' \in [Zone -> Content]
           /\ \A y \in Zone :
                 /\ y \in Z /\ vmobjs[y] # Absent =>
                       /\ vmobjs'[y] = Absent /\ vmobjsJson'[y] = Absent
                       /\ vmData'[y] = Absent /\ job'[y].pc = "unwatch"
                 /\ ~(y \in Z /\ vmobjs[y] # Absent) =>
                       /\ vmobjs'[y] = vmobjs[y] /\ vmData'[y] = vmData[y]
                       /\ vmobjsJson'[y] = vmobjsJson[y]
                 /\ y \in Z /\ vmobjs[y] = Absent => job'[y].pc = "done"
                 /\ y \notin Z => job'[y] = job[y]
  <1> DEFINE gone == {z \in Z : vmobjs[z] # Absent}
             Clean(data) == [z \in Zone |-> IF z \in gone THEN Absent ELSE data[z]]
  <1>1. /\ vmobjs' = Clean(vmobjs) /\ vmobjsJson' = Clean(vmobjsJson)
        /\ vmData' = Clean(vmData)
        /\ vmTmp' = IF vmTmp = NoData THEN NoData ELSE Clean(vmTmp)
    BY DEF DeleteVmobjs
  <1>2. job' = [z \in Zone |->
                  IF z \in gone THEN [NoJob EXCEPT !.pc = "unwatch"]
                  ELSE IF z \in Z THEN [NoJob EXCEPT !.pc = "done"] ELSE job[z]]
    BY DEF DeleteVmobjs
  <1>3. \A data \in [Zone -> Content] : Clean(data) \in [Zone -> Content]
    BY VersionFacts
  <1>4. \A y \in Zone : y \in gone <=> y \in Z /\ vmobjs[y] # Absent
    OBVIOUS
  <1> HIDE DEF gone
  <1>5. "done" \in PCs /\ "unwatch" \in PCs
    BY DEF PCs
  <1>6. job' \in [Zone -> JobType]
    BY <1>2, <1>5, JobFacts DEF DataTypes
  <1>7. \A y \in Zone :
          /\ y \in gone => /\ vmobjs'[y] = Absent /\ vmobjsJson'[y] = Absent
                           /\ vmData'[y] = Absent
          /\ y \notin gone => /\ vmobjs'[y] = vmobjs[y] /\ vmData'[y] = vmData[y]
                              /\ vmobjsJson'[y] = vmobjsJson[y]
    BY <1>1
  <1>8. \A y \in Zone :
          /\ y \in gone => job'[y].pc = "unwatch"
          /\ y \notin gone /\ y \in Z => job'[y].pc = "done"
          /\ y \notin gone /\ y \notin Z => job'[y] = job[y]
    BY <1>2, <1>5, JobFacts
  <1>9. /\ vmobjs' \in [Zone -> Content] /\ vmobjsJson' \in [Zone -> Content]
        /\ vmData' \in [Zone -> Content]
    BY <1>1, <1>3 DEF DataTypes
  <1>10. /\ vmTmp' \in [Zone -> Content] \cup {NoData}
         /\ vmTmp \in [Zone -> Content] => vmTmp' \in [Zone -> Content]
    BY <1>1, <1>3 DEF DataTypes
  <1> QED
    BY <1>4, <1>6, <1>7, <1>8, <1>9, <1>10

\* getZoneData keeps the job's stage; as long as it has met no error, the data
\* set that is going to be the zone's says that the zone exists.
LEMMA ReadFacts ==
    ASSUME DataTypes, SysTypes, NEW z \in Zone, NEW set \in {"live", "tmp"},
           ReadContext(z, set)
    PROVE  /\ job' \in [Zone -> JobType]
           /\ job'[z].pc = job[z].pc
           /\ \A y \in Zone : y # z => job'[y] = job[y]
           /\ job[z].pc \in {"create", "refresh"}
           /\ Holes(job[z].live) # {} \/ Holes(job[z].tmp) # {}
           /\ job'[z].err = "none" => job[z].err = "none"
           /\ job[z].live["adm"] # 0 /\ job'[z].err = "none"
                 => job'[z].live["adm"] # 0
  <1> DEFINE data  == job[z][set]
             holes == Holes(data)
             c     == IF "adm" \in holes THEN "adm"
                      ELSE IF "xml" \in holes THEN "xml" ELSE "json"
             found == IF data["adm"] = 0 THEN 0 ELSE real[z][c]
             bad   == c # "json" /\ data["adm"] # 0 /\ found = 0
             error == IF c = "adm" \/ job[z].err = "gone" THEN "gone" ELSE "failed"
             next  == IF bad
                      THEN [job[z] EXCEPT ![set] = Absent, !.err = error]
                      ELSE [job[z] EXCEPT ![set][c] = found]
  <1>1. job[z].pc \in {"create", "refresh"} /\ holes # {} /\ SetJob(z, next)
    BY DEF ReadContext
  <1>2. job[z] \in JobType
    BY DEF DataTypes
  <1>3. data \in Data \cup {NoData}
    BY <1>2 DEF JobType
  <1>4. data \in Data /\ holes = {x \in Ctx : data[x] = Hole}
    BY <1>1, <1>3 DEF Holes
  <1>5. c \in Ctx /\ (c = "adm" => data["adm"] = Hole)
    BY <1>4, VersionFacts
  <1>6. found \in Version
    BY <1>5, VersionFacts DEF SysTypes, Content
  <1>7. c = "adm" /\ ~bad => found # 0
    BY <1>5, VersionFacts
  <1>8. error \in {"gone", "failed"}
    OBVIOUS
  <1> DEFINE filled == [data EXCEPT ![c] = found]
  <1>9. filled \in Data /\ (c # "adm" => filled["adm"] = data["adm"])
        /\ (c = "adm" => filled["adm"] = found)
    BY <1>4, <1>5, <1>6, VersionFacts DEF Data
  <1>10. ~bad => next = [job[z] EXCEPT ![set] = filled]
    BY <1>2, <1>4 DEF JobType
  <1>11. bad => next = [job[z] EXCEPT ![set] = Absent, !.err = error]
    OBVIOUS
  <1>12. Holes(job[z].live) # {} \/ Holes(job[z].tmp) # {}
    BY <1>1
  <1> HIDE DEF bad, filled, error, next
  <1>13. next \in JobType /\ next.pc = job[z].pc
    <2>1. CASE set = "live"
      BY <1>2, <1>8, <1>9, <1>10, <1>11, <2>1, VersionFacts DEF JobType
    <2>2. CASE set = "tmp"
      BY <1>2, <1>8, <1>9, <1>10, <1>11, <2>2, VersionFacts DEF JobType
    <2> QED
      BY <2>1, <2>2
  <1>14. /\ next.err = "none" => job[z].err = "none"
         /\ job[z].live["adm"] # 0 /\ next.err = "none" => next.live["adm"] # 0
    <2>1. CASE bad
      BY <1>2, <1>8, <1>11, <2>1 DEF JobType
    <2>2. CASE ~bad /\ set = "live"
      BY <1>2, <1>7, <1>9, <1>10, <2>2 DEF JobType
    <2>3. CASE ~bad /\ set = "tmp"
      BY <1>2, <1>10, <2>3 DEF JobType
    <2> QED
      BY <2>1, <2>2, <2>3
  <1> QED
    BY <1>1, <1>12, <1>13, <1>14, SetJobFacts

LEMMA ReadAll ==
    ASSUME NEW data \in Data, Holes(data) = {}
    PROVE  data \in Content
  <1>1. \A c \in Ctx : data[c] # Hole
    BY NoDataDiffers DEF Holes
  <1> QED
    BY <1>1 DEF Data, Content

LEMMA MergeFacts ==
    ASSUME DataTypes, NEW z \in Zone, MergeZoneVmDatasets(z)
    PROVE  /\ job' \in [Zone -> JobType]
           /\ vmData' \in [Zone -> Content]
           /\ vmTmp' \in [Zone -> Content] \cup {NoData}
           /\ vmTmp \in [Zone -> Content] => vmTmp' \in [Zone -> Content]
           /\ job[z].err = "none"
           /\ vmData'[z] = job[z].live
           /\ \/ job[z].pc = "create" /\ job'[z].pc = "createObj"
              \/ job[z].pc = "refresh" /\ job'[z].pc = "refreshObj"
           /\ \A y \in Zone : y # z => job'[y] = job[y] /\ vmData'[y] = vmData[y]
  <1> DEFINE tmp == IF job[z].pc = "create" THEN job[z].live ELSE job[z].tmp
             next == IF job[z].pc = "create" THEN "createObj" ELSE "refreshObj"
  <1>1. /\ AllRead(z) /\ job[z].err = "none"
        /\ vmData' = [vmData EXCEPT ![z] = job[z].live]
        /\ vmTmp' = IF vmTmp = NoData \/ tmp = NoData THEN vmTmp
                    ELSE [vmTmp EXCEPT ![z] = tmp]
        /\ SetJob(z, [NoJob EXCEPT !.pc = next])
    BY DEF MergeZoneVmDatasets
  <1>2. job[z] \in JobType
    BY DEF DataTypes
  <1>3. job[z].live \in Content /\ (job[z].tmp # NoData => job[z].tmp \in Content)
    BY <1>1, <1>2, ReadAll DEF AllRead, JobType
  <1>4. tmp # NoData => tmp \in Content
    BY <1>3
  <1>5. next \in PCs /\ job[z].pc \in {"create", "refresh"}
    BY <1>1 DEF PCs, AllRead
  <1>6. /\ vmData' \in [Zone -> Content] /\ vmData'[z] = job[z].live
        /\ \A y \in Zone : y # z => vmData'[y] = vmData[y]
    BY <1>1, <1>3 DEF DataTypes
  <1>7. /\ vmTmp' \in [Zone -> Content] \cup {NoData}
        /\ vmTmp \in [Zone -> Content] => vmTmp' \in [Zone -> Content]
    BY <1>1, <1>4 DEF DataTypes
  <1>8. /\ job' \in [Zone -> JobType] /\ job'[z].pc = next
        /\ \A y \in Zone : y # z => job'[y] = job[y]
    <2> HIDE DEF next
    <2> QED
      BY <1>1, <1>5, JobFacts, SetJobFacts
  <1> QED
    BY <1>1, <1>5, <1>6, <1>7, <1>8

-----------------------------------------------------------------------------
LEMMA SystemTypes == ASSUME SysTypes, System PROVE SysTypes'
  <1>1. PICK z \in Zone : \/ ZoneCreate(z) \/ ZoneState(z) \/ XmlEdit(z)
                          \/ JsonWrite(z) \/ ZoneDelete(z)
    BY DEF System
  <1>2. /\ changes < MaxChange /\ changes' = changes + 1 /\ watch' = watch
        /\ \/ real' = [real EXCEPT ![z] = [c \in Ctx |-> IF c = "json" THEN 0
                                                         ELSE changes + 2]]
           \/ \E c \in Ctx :
                 real' = [real EXCEPT ![z] = [real[z] EXCEPT ![c] = changes + 2]]
           \/ real' = [real EXCEPT ![z] = Absent]
    BY <1>1, VersionFacts DEF ZoneCreate, ZoneState, XmlEdit, JsonWrite,
                              ZoneDelete, Change
  <1>3. changes + 2 \in Version /\ changes' \in 0 .. MaxChange
    BY <1>2, CacheAssumption DEF SysTypes, Version
  <1>4. \A v \in Version : /\ [c \in Ctx |-> IF c = "json" THEN 0 ELSE v] \in Content
                            /\ \A c \in Ctx : [real[z] EXCEPT ![c] = v] \in Content
    BY VersionFacts DEF SysTypes, Content
  <1>5. \A data \in Content : [real EXCEPT ![z] = data] \in [Zone -> Content]
    BY DEF SysTypes
  <1>6. real' \in [Zone -> Content]
    BY <1>2, <1>3, <1>4, <1>5, VersionFacts
  <1> QED
    BY <1>2, <1>3, <1>6 DEF SysTypes

LEMMA LoadTypes == ASSUME SysTypes, DataTypes, LoadStep PROVE DataTypes'
  <1> DEFINE LoadType == [stage : Stages, left : SUBSET Zone,
                          got : [Zone -> Content]]
  <1>1. load \in LoadType
    BY DEF DataTypes
  <1>2. UNCHANGED <<vmData, vmTmp, vmobjs, vmobjsJson, job, compare, old, view>>
    BY DEF LoadStep, LoadList, LoadXml, LoadJson, LoadNext
  <1>3. NoLoad \in LoadType /\ [NoLoad EXCEPT !.stage = "failed"] \in LoadType
    BY VersionFacts DEF NoLoad, Stages
  <1>4. load' \in LoadType
    <2>1. CASE LoadList
      <3>1. \A z \in Zone : [Absent EXCEPT !["adm"] = real[z]["adm"]] \in Content
        BY VersionFacts DEF SysTypes, Content
      <3>2. /\ load'.stage = "xml" /\ load'.left = Known(real)
            /\ load' = [stage |-> "xml", left |-> Known(real),
                        got |-> [z \in Zone |->
                                   [Absent EXCEPT !["adm"] = real[z]["adm"]]]]
        BY <2>1 DEF LoadList
      <3> QED
        BY <3>1, <3>2 DEF Stages, Known
    <2>2. CASE LoadNext
      BY <1>1, <2>2 DEF LoadNext, Stages, Known
    <2>3. CASE \E z \in Zone : LoadXml(z)
      <3>1. PICK z \in Zone : LoadXml(z)
        BY <2>3
      <3>2. [load.got[z] EXCEPT !["xml"] = real[z]["xml"]] \in Content
        BY <1>1, VersionFacts DEF SysTypes, Content
      <3>3. CASE real[z]["xml"] = 0
        BY <1>3, <3>1, <3>3 DEF LoadXml
      <3>4. CASE real[z]["xml"] # 0
        <4>1. load' = [load EXCEPT !.left = load.left \ {z},
                                   !.got = [load.got EXCEPT ![z] =
                                      [load.got[z] EXCEPT !["xml"] = real[z]["xml"]]]]
          BY <1>1, <3>1, <3>4 DEF LoadXml
        <4> QED
          BY <1>1, <3>2, <4>1
      <3> QED
        BY <3>3, <3>4
    <2>4. CASE \E z \in Zone : LoadJson(z)
      <3>1. PICK z \in Zone : LoadJson(z)
        BY <2>4
      <3>2. [load.got[z] EXCEPT !["json"] = real[z]["json"]] \in Content
        BY <1>1, VersionFacts DEF SysTypes, Content
      <3>3. load' = [load EXCEPT !.left = load.left \ {z},
                                 !.got = [load.got EXCEPT ![z] =
                                    [load.got[z] EXCEPT !["json"] = real[z]["json"]]]]
        BY <1>1, <3>1 DEF LoadJson
      <3> QED
        BY <1>1, <3>2, <3>3
    <2> QED
      BY <2>1, <2>2, <2>3, <2>4 DEF LoadStep
  <1> QED
    BY <1>2, <1>4 DEF DataTypes

\* What a step of a job does to the types.
LEMMA JobTypes ==
    ASSUME SysTypes, DataTypes, NEW z \in Zone, JobStep(z)
    PROVE  DataTypes' /\ SysTypes'
  <1>0. vmData[z] \in Content /\ vmobjs[z] \in Content /\ job[z] \in JobType
    BY DEF DataTypes
  <1>1. CASE StatXml(z)
    <2>1. UNCHANGED <<real, changes, watch, load, compare, old, view>>
      BY <1>1 DEF StatXml, sysVars
    <2>2. CASE DeleteVmobjs({z})
      BY <2>1, <2>2, DeleteFacts DEF DataTypes, SysTypes
    <2>3. CASE /\ SetJob(z, RefreshVmobj(z, {"xml"}))
               /\ UNCHANGED <<vmData, vmTmp, vmobjs, vmobjsJson>>
      BY <2>1, <2>3, RefreshType, SetJobFacts DEF DataTypes, SysTypes
    <2> QED
      BY <1>1, <2>2, <2>3 DEF StatXml
  <1>2. CASE \E set \in {"live", "tmp"} : ReadContext(z, set)
    <2>1. PICK set \in {"live", "tmp"} : ReadContext(z, set)
      BY <1>2
    <2>2. UNCHANGED <<real, changes, watch, load, vmData, vmTmp, vmobjs,
                      vmobjsJson, compare, old, view>>
      BY <2>1 DEF ReadContext, sysVars
    <2>3. job' \in [Zone -> JobType]
      BY <2>1, ReadFacts
    <2> QED
      BY <2>2, <2>3 DEF DataTypes, SysTypes
  <1>3. CASE MergeZoneVmDatasets(z)
    <2>1. UNCHANGED <<real, changes, watch, load, vmobjs, vmobjsJson, compare,
                      old, view>>
      BY <1>3 DEF MergeZoneVmDatasets, sysVars
    <2> QED
      BY <1>3, <2>1, MergeFacts DEF DataTypes, SysTypes
  <1>4. CASE ReadFailed(z)
    <2>1. UNCHANGED <<real, changes, watch, load, compare, old, view>>
      BY <1>4 DEF ReadFailed, sysVars
    <2>2. CASE DeleteVmobjs({z})
      BY <2>1, <2>2, DeleteFacts DEF DataTypes, SysTypes
    <2>3. CASE EndJob(z) /\ UNCHANGED <<vmData, vmTmp, vmobjs, vmobjsJson>>
      BY <2>1, <2>3, EndJobFacts DEF DataTypes, SysTypes
    <2> QED
      BY <1>4, <2>2, <2>3 DEF ReadFailed
  <1>5. CASE CreateGetVmobj(z)
    <2>1. /\ vmobjs' = [vmobjs EXCEPT ![z] = vmData[z]]
          /\ SetJob(z, [NoJob EXCEPT !.pc = "watch"])
          /\ UNCHANGED <<real, changes, watch, load, vmData, vmTmp, vmobjsJson,
                         compare, old, view>>
      BY <1>5 DEF CreateGetVmobj, sysVars
    <2>2. job' \in [Zone -> JobType]
      BY <2>1, JobFacts, SetJobFacts DEF PCs
    <2> QED
      BY <1>0, <2>1, <2>2 DEF DataTypes, SysTypes
  <1>6. CASE CreateDone(z)
    <2>1. /\ watch' = [watch EXCEPT ![z] = TRUE]
          /\ view' = [view EXCEPT ![z] = vmobjs[z]]
          /\ EndJob(z)
          /\ UNCHANGED <<real, changes, load, vmData, vmTmp, vmobjs, vmobjsJson,
                         compare, old>>
      BY <1>6 DEF CreateDone
    <2> QED
      BY <1>0, <2>1, EndJobFacts DEF DataTypes, SysTypes
  <1>7. CASE RefreshGetVmobj(z)
    <2>1. /\ \/ /\ vmobjs' = [vmobjs EXCEPT ![z] = vmData[z]]
                /\ vmobjsJson' = [vmobjsJson EXCEPT ![z] = Absent]
                /\ view' = [view EXCEPT ![z] = vmData[z]]
             \/ UNCHANGED <<vmobjs, vmobjsJson, view>>
          /\ EndJob(z)
          /\ UNCHANGED <<real, changes, watch, load, vmData, vmTmp, compare, old>>
      BY <1>7 DEF RefreshGetVmobj, sysVars
    <2> QED
      BY <1>0, <2>1, EndJobFacts, VersionFacts DEF DataTypes, SysTypes
  <1>8. CASE DeleteDone(z)
    <2>1. /\ watch' = [watch EXCEPT ![z] = FALSE]
          /\ view' = [view EXCEPT ![z] = Absent]
          /\ EndJob(z)
          /\ UNCHANGED <<real, changes, load, vmData, vmTmp, vmobjs, vmobjsJson,
                         compare, old>>
      BY <1>8 DEF DeleteDone
    <2> QED
      BY <2>1, EndJobFacts, VersionFacts DEF DataTypes, SysTypes
  <1> QED
    BY <1>1, <1>2, <1>3, <1>4, <1>5, <1>6, <1>7, <1>8 DEF JobStep

\* The types of everything.
CacheTypes == EventsOK /\ ResetTypeOK /\ SysTypes /\ DataTypes

LEMMA InitTypes == CacheInit => SysTypes /\ DataTypes
  <1> SUFFICES ASSUME CacheInit PROVE SysTypes /\ DataTypes
    OBVIOUS
  <1>1. real \in [Zone -> Content]
    <2>1. 1 \in Version
      BY CacheAssumption DEF Version
    <2>2. /\ [c \in Ctx |-> 1] \in Content
          /\ [c \in Ctx |-> IF c = "json" THEN 0 ELSE 1] \in Content
      BY <2>1, VersionFacts DEF Content
    <2>3. real \in [Zone -> {Absent, [c \in Ctx |-> 1],
                             [c \in Ctx |-> IF c = "json" THEN 0 ELSE 1]}]
      BY DEF CacheInit
    <2> QED
      BY <2>2, <2>3, VersionFacts
  <1>2. SysTypes
    BY <1>1, CacheAssumption DEF CacheInit, SysTypes
  <1>3. [z \in Zone |-> Absent] \in [Zone -> Content]
    BY VersionFacts
  <1>4. load \in [stage : Stages, left : SUBSET Zone, got : [Zone -> Content]]
    BY <1>3 DEF CacheInit, NoLoad, Stages
  <1>5. job \in [Zone -> JobType]
    BY JobFacts DEF CacheInit
  <1>6. DataTypes
    BY <1>3, <1>4, <1>5 DEF CacheInit, DataTypes
  <1> QED
    BY <1>2, <1>6

LEMMA NextTypes ==
    ASSUME CacheTypes, [CacheNext]_allVars,
           vmTmp \in [Zone -> Content] \/ ~ResetCompare
    PROVE  SysTypes' /\ DataTypes'
  <1> USE DEF CacheTypes
  <1>1. CASE System
    <2>1. UNCHANGED cacheVars
      BY <1>1 DEF System, ZoneCreate, ZoneState, XmlEdit, JsonWrite, ZoneDelete,
                  Change
    <2> QED
      BY <1>1, <2>1, SystemTypes DEF cacheVars, DataTypes
  <1>2. CASE UNCHANGED <<sysVars, cacheVars>>
    BY <1>2 DEF sysVars, cacheVars, SysTypes, DataTypes
  <1>3. CASE PauseForReset \/ Elsewhere \/ UNCHANGED allVars
    BY <1>2, <1>3 DEF PauseForReset, Elsewhere, allVars
  <1>n. NoLoad \in [stage : Stages, left : SUBSET Zone, got : [Zone -> Content]]
        /\ [NoLoad EXCEPT !.stage = "list"]
              \in [stage : Stages, left : SUBSET Zone, got : [Zone -> Content]]
    BY VersionFacts DEF NoLoad, Stages
  <1>4. CASE BackToRunning
    <2>1. /\ vmTmp' = NoData /\ load' = NoLoad /\ compare' = "none" /\ old' = {}
          /\ UNCHANGED <<real, changes, watch, vmData, vmobjs, vmobjsJson, job, view>>
      BY <1>4 DEF BackToRunning, sysVars
    <2> QED
      BY <1>n, <2>1 DEF SysTypes, DataTypes
  <1>5. CASE BootWatch
    <2>1. /\ watch' = [z \in Zone |-> Exists(z)]
          /\ load' = [NoLoad EXCEPT !.stage = "list"]
          /\ UNCHANGED <<real, changes, vmData, vmTmp, vmobjs, vmobjsJson, job,
                         compare, old, view>>
      BY <1>5 DEF BootWatch
    <2>2. watch' \in [Zone -> BOOLEAN]
      BY <2>1 DEF Exists
    <2> QED
      BY <1>n, <2>1, <2>2 DEF SysTypes, DataTypes
  <1>6. CASE BootReady
    <2>1. /\ vmData' = load.got /\ vmobjs' = load.got /\ view' = load.got
          /\ load' = NoLoad
          /\ UNCHANGED <<real, changes, watch, vmTmp, vmobjsJson, job, compare, old>>
      BY <1>6 DEF BootReady, sysVars
    <2> QED
      BY <1>n, <2>1 DEF SysTypes, DataTypes
  <1>7. CASE LoadStep
    <2>1. UNCHANGED <<real, changes, watch>>
      BY <1>7 DEF LoadStep, LoadList, LoadXml, LoadJson, LoadNext, sysVars
    <2> QED
      BY <1>7, <2>1, LoadTypes DEF SysTypes
  <1>8. CASE \E d \in events : Deliver(d)
    BY <1>8 DEF Deliver, cacheVars, SysTypes, DataTypes
  <1>9. CASE TaskStart
    <2>1. /\ dispatched # <<>>
          /\ SetJob(Head(dispatched).desc.zone, TaskJob(Head(dispatched).desc))
          /\ UNCHANGED <<real, changes, watch, load, vmData, vmTmp, vmobjs,
                         vmobjsJson, compare, old, view>>
      BY <1>9 DEF TaskStart, QueueTurn, Start, sysVars
    <2>2. Head(dispatched) \in Task
      BY <2>1, HeadTailProperties DEF ResetTypeOK, TypeOK
    <2>3. Head(dispatched).desc \in Desc
      BY <2>2 DEF Task
    <2>4. job' \in [Zone -> JobType]
      BY <2>1, <2>3, TaskType, SetJobFacts
    <2> QED
      BY <2>1, <2>4 DEF SysTypes, DataTypes
  <1>10. CASE \E t \in running : TaskDone(t)
    <2>1. PICK t \in running : TaskDone(t)
      BY <1>10
    <2>2. /\ SetJob(t.desc.zone, NoJob)
          /\ UNCHANGED <<real, changes, watch, load, vmData, vmTmp, vmobjs,
                         vmobjsJson, compare, old, view>>
      BY <2>1 DEF TaskDone, sysVars
    <2>3. t.desc.zone \in Zone
      BY CacheAssumption DEF ResetTypeOK, TypeOK, Task
    <2>4. job' \in [Zone -> JobType]
      BY <2>2, <2>3, JobFacts, SetJobFacts
    <2> QED
      BY <2>2, <2>4 DEF SysTypes, DataTypes
  <1>11. CASE \E z \in Zone : JobStep(z)
    BY <1>11, JobTypes
  <1>12. CASE \E z \in Zone : GetVmobjFailed(z)
    <2>1. PICK z \in Zone : GetVmobjFailed(z)
      BY <1>12
    <2>2. EndJob(z) /\ UNCHANGED <<real, changes, watch, load, vmData, vmTmp,
                         vmobjs, vmobjsJson, compare, old, view>>
      BY <2>1 DEF GetVmobjFailed, sysVars
    <2> QED
      BY <2>2, EndJobFacts DEF SysTypes, DataTypes
  <1>13. CASE \E z \in Zone : SerializeVm(z)
    <2>1. PICK z \in Zone : SerializeVm(z)
      BY <1>13
    <2>2. /\ vmobjsJson' = [vmobjsJson EXCEPT ![z] = vmobjs[z]]
          /\ UNCHANGED <<real, changes, watch, load, vmData, vmTmp, vmobjs, job,
                         compare, old, view>>
      BY <2>1 DEF SerializeVm, sysVars
    <2> QED
      BY <2>2 DEF SysTypes, DataTypes
  <1>14. CASE LoadNewData
    <2>1. /\ load' = [NoLoad EXCEPT !.stage = "list"]
          /\ UNCHANGED <<real, changes, watch, vmData, vmTmp, vmobjs, vmobjsJson,
                         job, compare, old, view>>
      BY <1>14 DEF LoadNewData, sysVars
    <2> QED
      BY <1>n, <2>1 DEF SysTypes, DataTypes
  <1>15. CASE ForwardToNow
    <2>1. /\ vmTmp' = load.got /\ load' = NoLoad
          /\ UNCHANGED <<real, changes, watch, vmData, vmobjs, vmobjsJson, job,
                         compare, old, view>>
      BY <1>15 DEF ForwardToNow, sysVars
    <2> QED
      BY <1>n, <2>1 DEF SysTypes, DataTypes
  <1>16. CASE CompareStart
    <2>1. /\ ResetCompare
          /\ UNCHANGED <<real, changes, watch, load, vmTmp, vmobjs, vmobjsJson,
                         view>>
      BY <1>16 DEF CompareStart, sysVars
    <2>2. CASE compare' = "over" /\ UNCHANGED <<vmData, job, old>>
      BY <2>1, <2>2 DEF SysTypes, DataTypes
    <2>3. CASE /\ compare' = "create" /\ old' = Known(vmData) /\ vmData' = vmTmp
               /\ job' = [z \in Zone |-> IF z \in Known(vmTmp) \ Known(vmData)
                                         THEN CreateVmobj(z) ELSE NoJob]
      <3>1. job' \in [Zone -> JobType]
        BY <2>3, CreateType, JobFacts
      <3> QED
        BY <2>1, <2>3, <3>1 DEF SysTypes, DataTypes, Known
    <2> QED
      BY <1>16, <2>2, <2>3 DEF CompareStart
  <1>17. CASE CompareDelete
    <2>1. /\ DeleteVmobjs(old \ Known(vmData)) /\ compare' = "delete"
          /\ UNCHANGED <<real, changes, watch, load, old, view>>
      BY <1>17 DEF CompareDelete, sysVars
    <2>2. old \ Known(vmData) \in SUBSET Zone
      BY DEF DataTypes
    <2> QED
      BY <2>1, <2>2, DeleteFacts DEF SysTypes, DataTypes
  <1>18. CASE CompareRefresh
    <2>1. /\ compare' = "refresh" /\ job' = [z \in Zone |-> RefreshVmobj(z, {})]
          /\ UNCHANGED <<real, changes, watch, load, vmData, vmTmp, vmobjs,
                         vmobjsJson, old, view>>
      BY <1>18 DEF CompareRefresh, sysVars
    <2>2. job' \in [Zone -> JobType]
      BY <2>1, RefreshType
    <2> QED
      BY <2>1, <2>2 DEF SysTypes, DataTypes
  <1>19. CASE CompareEnd
    <2>1. /\ compare' = "over" /\ job' = [z \in Zone |-> NoJob]
          /\ UNCHANGED <<real, changes, watch, load, vmData, vmTmp, vmobjs,
                         vmobjsJson, old, view>>
      BY <1>19 DEF CompareEnd, sysVars
    <2>2. job' \in [Zone -> JobType]
      BY <2>1, JobFacts
    <2> QED
      BY <2>1, <2>2 DEF SysTypes, DataTypes
  <1> QED
    BY <1>1, <1>3, <1>4, <1>5, <1>6, <1>7, <1>8, <1>9, <1>10, <1>11, <1>12,
       <1>13, <1>14, <1>15, <1>16, <1>17, <1>18, <1>19
       DEF CacheNext, Turn, CompareStep

-----------------------------------------------------------------------------
(***************************************************************************)
(* The jobs never meet: outside the comparison a job is that of the one    *)
(* task that runs, and the comparison starts its own with no task running. *)
(***************************************************************************)
Apart ==
    /\ compare # "none" <=> phase = "comparing"
    /\ phase = "booting" => \A z \in Zone : vmobjsJson[z] = Absent
    /\ compare \in {"none", "over"} =>
          \A z \in Zone : job[z].pc # "none" => \E t \in running : t.desc.zone = z

TmpLoaded ==
    phase \in {"forwarding", "comparing"} => vmTmp \in [Zone -> Content]

\* What a job does is seen in the cache, in the JSON and by a listener.
InStep(z) ==
    /\ job[z].pc \in {"create", "createObj", "unwatch"} => vmobjs[z] = Absent
    /\ vmobjsJson[z] \in {Absent, vmobjs[z]}
    /\ job[z].pc \notin {"watch", "unwatch"} => view[z] = vmobjs[z]

\* The inductive invariant of the cache.
CInv ==
    /\ RInv \/ Halted
    /\ CacheTypes
    /\ Apart
    /\ TmpLoaded
    /\ \A z \in Zone : InStep(z)

\* With one worker, a task that is dispatched finds none running.
LEMMA OneTask ==
    ASSUME IInv
    PROVE  /\ dispatched # <<>> => running = {}
           /\ \A t, u \in running : t = u
  <1>1. /\ Len(dispatched) \in Nat /\ (dispatched # <<>> => Len(dispatched) # 0)
        /\ Cardinality(running) \in Nat /\ IsFiniteSet(running)
        /\ Len(dispatched) + Cardinality(running) <= 1
    BY PendingNat, EmptySeq, CacheAssumption DEF IInv, TypeOK, CapacityOK, NPending
  <1>2. ASSUME NEW t \in running, NEW u \in running, t # u PROVE FALSE
    <2>1. Cardinality(running \ {t}) = Cardinality(running) - 1
          /\ IsFiniteSet(running \ {t})
      BY <1>1, FS_RemoveElement
    <2>2. running # {}
      OBVIOUS
    <2>3. Cardinality(running) # 0
      BY <1>1, <2>2, FS_EmptySet
    <2>4. Cardinality(running \ {t}) = 0
      BY <1>1, <2>1, <2>3
    <2>5. running \ {t} = {}
      BY <2>1, <2>4, FS_EmptySet
    <2> QED
      BY <1>2, <2>5
  <1>3. dispatched # <<>> => Cardinality(running) = 0
    BY <1>1
  <1> QED
    BY <1>1, <1>2, <1>3, FS_EmptySet

\* A step of the job of one zone.
LEMMA JobFrame ==
    ASSUME SysTypes, DataTypes, NEW z \in Zone, JobStep(z)
    PROVE  /\ job[z].pc \notin {"none", "done"}
           /\ UNCHANGED <<vars, load, compare, old>>
           /\ vmTmp \in [Zone -> Content] => vmTmp' \in [Zone -> Content]
           /\ \A y \in Zone : y # z =>
                 /\ job'[y] = job[y] /\ vmobjs'[y] = vmobjs[y]
                 /\ vmobjsJson'[y] = vmobjsJson[y] /\ view'[y] = view[y]
                 /\ vmData'[y] = vmData[y]
  <1>1. CASE StatXml(z)
    <2>1. job[z].pc = "stat" /\ UNCHANGED <<vars, load, compare, old, view>>
      BY <1>1 DEF StatXml
    <2>2. CASE DeleteVmobjs({z})
      BY <2>1, <2>2, DeleteFacts
    <2>3. CASE /\ SetJob(z, RefreshVmobj(z, {"xml"}))
               /\ UNCHANGED <<vmData, vmTmp, vmobjs, vmobjsJson>>
      BY <2>1, <2>3, RefreshType, SetJobFacts
    <2> QED
      BY <1>1, <2>2, <2>3 DEF StatXml
  <1>2. CASE \E set \in {"live", "tmp"} : ReadContext(z, set)
    <2>1. PICK set \in {"live", "tmp"} : ReadContext(z, set)
      BY <1>2
    <2>2. UNCHANGED <<vars, load, vmData, vmTmp, vmobjs, vmobjsJson, compare,
                      old, view>>
      BY <2>1 DEF ReadContext
    <2> QED
      BY <2>1, <2>2, ReadFacts
  <1>3. CASE MergeZoneVmDatasets(z)
    <2>1. UNCHANGED <<vars, load, vmobjs, vmobjsJson, compare, old, view>>
      BY <1>3 DEF MergeZoneVmDatasets
    <2> QED
      BY <1>3, <2>1, MergeFacts
  <1>4. CASE ReadFailed(z)
    <2>1. /\ job[z].pc \in {"create", "refresh"}
          /\ UNCHANGED <<vars, load, compare, old, view>>
      BY <1>4 DEF ReadFailed, AllRead
    <2>2. CASE DeleteVmobjs({z})
      BY <2>1, <2>2, DeleteFacts
    <2>3. CASE EndJob(z) /\ UNCHANGED <<vmData, vmTmp, vmobjs, vmobjsJson>>
      BY <2>1, <2>3, EndJobFacts
    <2> QED
      BY <1>4, <2>2, <2>3 DEF ReadFailed
  <1>5. CASE CreateGetVmobj(z)
    <2>1. /\ job[z].pc = "createObj" /\ vmobjs' = [vmobjs EXCEPT ![z] = vmData[z]]
          /\ SetJob(z, [NoJob EXCEPT !.pc = "watch"])
          /\ UNCHANGED <<vars, load, vmData, vmTmp, vmobjsJson, compare, old, view>>
      BY <1>5 DEF CreateGetVmobj
    <2> QED
      BY <2>1, JobFacts, SetJobFacts DEF PCs, DataTypes
  <1>6. CASE CreateDone(z)
    <2>1. /\ job[z].pc = "watch" /\ view' = [view EXCEPT ![z] = vmobjs[z]]
          /\ EndJob(z)
          /\ UNCHANGED <<vars, load, vmData, vmTmp, vmobjs, vmobjsJson, compare, old>>
      BY <1>6 DEF CreateDone
    <2> QED
      BY <2>1, EndJobFacts DEF DataTypes
  <1>7. CASE RefreshGetVmobj(z)
    <2>1. /\ job[z].pc = "refreshObj"
          /\ \/ /\ vmobjs' = [vmobjs EXCEPT ![z] = vmData[z]]
                /\ vmobjsJson' = [vmobjsJson EXCEPT ![z] = Absent]
                /\ view' = [view EXCEPT ![z] = vmData[z]]
             \/ UNCHANGED <<vmobjs, vmobjsJson, view>>
          /\ EndJob(z)
          /\ UNCHANGED <<vars, load, vmData, vmTmp, compare, old>>
      BY <1>7 DEF RefreshGetVmobj
    <2> QED
      BY <2>1, EndJobFacts DEF DataTypes
  <1>8. CASE DeleteDone(z)
    <2>1. /\ job[z].pc = "unwatch" /\ view' = [view EXCEPT ![z] = Absent]
          /\ EndJob(z)
          /\ UNCHANGED <<vars, load, vmData, vmTmp, vmobjs, vmobjsJson, compare, old>>
      BY <1>8 DEF DeleteDone
    <2> QED
      BY <2>1, EndJobFacts DEF DataTypes
  <1> QED
    BY <1>1, <1>2, <1>3, <1>4, <1>5, <1>6, <1>7, <1>8 DEF JobStep

LEMMA QuietJobs ==
    ASSUME RInv, Apart, Quiet, compare \in {"none", "over"}
    PROVE  /\ dispatched = <<>> /\ running = {}
           /\ \A z \in Zone : job[z].pc = "none"
  BY QuietNothing DEF RInv, Apart

\* Nothing runs before start() ends nor while reset compares.
LEMMA QuietPhases ==
    ASSUME RInv, phase \in {"booting", "comparing"}
    PROVE  Quiet
  BY DEF RInv, ProtocolOK, StaysQuiet

\* The worker is called: no job is under way.
LEMMA TaskStartFacts ==
    ASSUME CInv, RInv, TaskStart
    PROVE  LET d == Head(dispatched).desc
           IN  /\ d \in Desc /\ d.zone \in Zone
               /\ phase \notin {"booting", "comparing"} /\ phase' = phase
               /\ compare = "none"
               /\ \A z \in Zone : job[z].pc = "none"
               /\ running' = {Head(dispatched)}
               /\ job' \in [Zone -> JobType]
               /\ job'[d.zone] = TaskJob(d)
               /\ \A y \in Zone : y # d.zone => job'[y] = job[y]
               /\ UNCHANGED <<load, vmData, vmTmp, vmobjs, vmobjsJson, compare,
                              old, view>>
  <1>1. /\ dispatched # <<>> /\ running' = running \cup {Head(dispatched)}
        /\ phase' = phase
        /\ SetJob(Head(dispatched).desc.zone, TaskJob(Head(dispatched).desc))
        /\ UNCHANGED <<load, vmData, vmTmp, vmobjs, vmobjsJson, compare, old, view>>
    BY DEF TaskStart, QueueTurn, Start
  <1>2. Head(dispatched) \in Task
    BY <1>1, HeadTailProperties DEF CInv, CacheTypes, ResetTypeOK, TypeOK
  <1>3. Head(dispatched).desc \in Desc
    BY <1>2 DEF Task
  <1>4. DataTypes /\ Apart
    BY DEF CInv, CacheTypes
  <1>5. phase \notin {"booting", "comparing"}
    BY <1>1, QuietPhases, QuietNothing DEF RInv
  <1>6. compare = "none" /\ running = {}
    BY <1>1, <1>4, <1>5, OneTask DEF RInv, Apart
  <1>7. \A z \in Zone : job[z].pc = "none"
    BY <1>4, <1>6 DEF Apart
  <1> QED
    BY <1>1, <1>3, <1>4, <1>5, <1>6, <1>7, TaskType, SetJobFacts

\* The task calls back: no job is left.
LEMMA TaskDoneFacts ==
    ASSUME CInv, RInv, NEW t \in running, TaskDone(t)
    PROVE  /\ t.desc.zone \in Zone
           /\ phase \notin {"booting", "comparing"} /\ phase' = phase
           /\ compare = "none"
           /\ job[t.desc.zone].pc = "done"
           /\ running' = {}
           /\ job'[t.desc.zone] = NoJob
           /\ \A y \in Zone : y # t.desc.zone => job'[y] = job[y]
           /\ \A y \in Zone : job'[y].pc = "none"
           /\ UNCHANGED <<load, vmData, vmTmp, vmobjs, vmobjsJson, compare, old,
                          view>>
  <1>1. /\ running' = running \ {t} /\ phase' = phase
        /\ job[t.desc.zone].pc = "done"
        /\ SetJob(t.desc.zone, NoJob)
        /\ UNCHANGED <<load, vmData, vmTmp, vmobjs, vmobjsJson, compare, old, view>>
    BY DEF TaskDone, QueueTurn, Finish
  <1>2. DataTypes /\ Apart /\ t.desc.zone \in Zone
    BY CacheAssumption DEF CInv, CacheTypes, ResetTypeOK, TypeOK, Task
  <1>3. phase \notin {"booting", "comparing"}
    BY QuietPhases, QuietNothing DEF RInv
  <1>4. compare = "none"
    BY <1>2, <1>3 DEF Apart, DataTypes
  <1>5. \A u \in running : u = t
    BY OneTask DEF RInv
  <1>6. \A y \in Zone : y # t.desc.zone => job[y].pc = "none"
    BY <1>2, <1>4, <1>5 DEF Apart
  <1>7. running' = {}
    BY <1>1, <1>5
  <1>8. /\ job'[t.desc.zone] = NoJob
        /\ \A y \in Zone : y # t.desc.zone => job'[y] = job[y]
    BY <1>1, <1>2, JobFacts, SetJobFacts
  <1> QED
    BY <1>1, <1>2, <1>3, <1>4, <1>6, <1>7, <1>8, JobFacts

\* The comparison begins: no job is under way.
LEMMA CompareStartFacts ==
    ASSUME CInv, RInv, CompareStart
    PROVE  /\ phase = "forwarding" /\ phase' = "comparing" /\ running' = running
           /\ compare = "none"
           /\ \A z \in Zone : job[z].pc = "none"
           /\ \/ /\ compare' = "over" /\ UNCHANGED <<vmData, job, old>>
              \/ /\ compare' = "create" /\ old' = Known(vmData) /\ vmData' = vmTmp
                 /\ vmTmp \in [Zone -> Content]
                 /\ job' \in [Zone -> JobType]
                 /\ \A z \in Zone :
                       \/ z \in Known(vmTmp) \ Known(vmData)
                             /\ job'[z] = CreateVmobj(z)
                       \/ z \notin Known(vmTmp) \ Known(vmData) /\ job'[z] = NoJob
           /\ UNCHANGED <<load, vmTmp, vmobjs, vmobjsJson, view>>
  <1>1. /\ phase = "forwarding" /\ call = "forwarded" /\ phase' = "comparing"
        /\ running' = running
        /\ UNCHANGED <<load, vmTmp, vmobjs, vmobjsJson, view>>
    BY DEF CompareStart, ResetCompare, queueVars
  <1>2. compare = "none" /\ Quiet
    BY <1>1 DEF CInv, CacheTypes, DataTypes, Apart, RInv, StaysQuiet
  <1>3. \A z \in Zone : job[z].pc = "none"
    BY <1>2, QuietJobs DEF CInv
  <1>4. \/ compare' = "over" /\ UNCHANGED <<vmData, job, old>>
        \/ /\ compare' = "create" /\ old' = Known(vmData) /\ vmData' = vmTmp
           /\ job' = [z \in Zone |-> IF z \in Known(vmTmp) \ Known(vmData)
                                     THEN CreateVmobj(z) ELSE NoJob]
    BY DEF CompareStart
  <1>5. vmTmp \in [Zone -> Content]
    BY <1>1 DEF CInv, TmpLoaded
  <1> QED
    BY <1>1, <1>2, <1>3, <1>4, <1>5, CreateType, JobFacts

\* The steps that concern neither the jobs nor the VM objects.
LEMMA ElsewhereFrame ==
    ASSUME \/ System \/ PauseForReset \/ BootWatch \/ LoadStep \/ Elsewhere
           \/ UNCHANGED allVars \/ (\E d \in events : Deliver(d)) \/ LoadNewData
           \/ ForwardToNow \/ BackToRunning
    PROVE  UNCHANGED <<job, vmobjs, vmobjsJson, view, vmData, running>>
  <1>1. CASE System
    BY <1>1 DEF System, ZoneCreate, ZoneState, XmlEdit, JsonWrite, ZoneDelete,
                Change, cacheVars, vars, queueVars
  <1>2. CASE PauseForReset
    BY <1>2 DEF PauseForReset, ResetPause, PauseQueue, cacheVars
  <1>3. CASE BootWatch
    BY <1>3 DEF BootWatch, vars, queueVars
  <1>4. CASE LoadStep
    BY <1>4 DEF LoadStep, LoadList, LoadXml, LoadJson, LoadNext, vars, queueVars
  <1>5. CASE Elsewhere
    <2>1. running' = running
      BY <1>5 DEF Elsewhere, PeriodicTimeout, KillTimer, QueueTurn, IdleTimeout,
                  ResetPauseTimeout, PauseTimeout, ResetForwardTimeout,
                  FastForwardTimeout, queueVars
    <2> QED
      BY <1>5, <2>1 DEF Elsewhere, cacheVars
  <1>6. CASE UNCHANGED allVars
    BY <1>6 DEF allVars, cacheVars, vars, queueVars
  <1>7. CASE \E d \in events : Deliver(d)
    BY <1>7 DEF Deliver, QueueTurn, Enqueue, cacheVars
  <1>8. CASE LoadNewData
    BY <1>8 DEF LoadNewData, ResetFetch, queueVars
  <1>9. CASE ForwardToNow
    BY <1>9 DEF ForwardToNow, ResetForward, DoFastForward
  <1>10. CASE BackToRunning
    BY <1>10 DEF BackToRunning, ResetDone, DoResume
  <1> QED
    BY <1>1, <1>2, <1>3, <1>4, <1>5, <1>6, <1>7, <1>8, <1>9, <1>10

\* All but three of them leave the pipeline of reset() where it is too.
LEMMA ElsewherePhase ==
    ASSUME \/ System \/ BootWatch \/ LoadStep \/ Elsewhere \/ UNCHANGED allVars
           \/ (\E d \in events : Deliver(d))
    PROVE  UNCHANGED <<phase, compare, vmTmp, old>>
  <1>1. CASE System
    BY <1>1 DEF System, ZoneCreate, ZoneState, XmlEdit, JsonWrite, ZoneDelete,
                Change, cacheVars, vars, resetVars
  <1>2. CASE BootWatch
    BY <1>2 DEF BootWatch, vars, resetVars
  <1>3. CASE LoadStep
    BY <1>3 DEF LoadStep, LoadList, LoadXml, LoadJson, LoadNext, vars, resetVars
  <1>4. CASE Elsewhere
    BY <1>4 DEF Elsewhere, PeriodicTimeout, KillTimer, QueueTurn,
                ResetPauseTimeout, ResetForwardTimeout, resetVars, cacheVars
  <1>5. CASE UNCHANGED allVars
    BY <1>5 DEF allVars, cacheVars, vars, resetVars
  <1>6. CASE \E d \in events : Deliver(d)
    BY <1>6 DEF Deliver, QueueTurn, cacheVars
  <1> QED
    BY <1>1, <1>2, <1>3, <1>4, <1>5, <1>6

\* Once the assertion has thrown, only the system changes.
LEMMA NotHalted ==
    ASSUME RInv \/ Halted, CacheNext, ~System
    PROVE  RInv
  BY DEF Halted, CacheNext

LEMMA NextApart ==
    ASSUME CInv, [CacheNext]_allVars
    PROVE  Apart' /\ TmpLoaded'
  <1>0. Apart /\ TmpLoaded /\ SysTypes /\ DataTypes /\ ResetTypeOK
    BY DEF CInv, CacheTypes
  <1>1. CASE \/ System \/ BootWatch \/ LoadStep \/ Elsewhere \/ UNCHANGED allVars
             \/ (\E d \in events : Deliver(d))
    <2>1. UNCHANGED <<job, vmobjsJson, running, phase, compare, vmTmp>>
      BY <1>1, ElsewhereFrame, ElsewherePhase
    <2> QED
      BY <1>0, <2>1 DEF Apart, TmpLoaded
  <1>2. CASE RInv /\ PauseForReset
    <2>1. UNCHANGED <<job, vmobjsJson, running>>
      BY <1>2, ElsewhereFrame
    <2>2. phase' = "pausing" /\ timer = "go" /\ compare' = compare
      BY <1>2 DEF PauseForReset, ResetPause, cacheVars
    <2>3. phase = "running"
      BY <1>2, <2>2 DEF RInv, ProtocolOK, Phases
    <2> QED
      BY <1>0, <2>1, <2>2, <2>3 DEF Apart, TmpLoaded
  <1>3. CASE RInv /\ BackToRunning
    <2>1. UNCHANGED <<job, vmobjsJson, running>>
      BY <1>3, ElsewhereFrame
    <2>2. phase' = "running" /\ compare' = "none"
          /\ (phase = "comparing" => compare = "over")
      BY <1>3 DEF BackToRunning, ResetDone
    <2>3. compare \in {"none", "over"}
      BY <1>0, <2>2 DEF Apart
    <2> QED
      BY <1>0, <2>1, <2>2, <2>3 DEF Apart, TmpLoaded
  <1>4. CASE RInv /\ BootReady
    <2>1. /\ phase = "booting" /\ phase' = "running" /\ running' = running
          /\ UNCHANGED <<compare, job, vmobjsJson>>
      BY <1>4 DEF BootReady, Boot, DoResume
    <2> QED
      BY <1>0, <2>1 DEF Apart, TmpLoaded
  <1>5. CASE RInv /\ TaskStart
    <2>1. \A z \in Zone : job'[z].pc # "none" => z = Head(dispatched).desc.zone
      BY <1>5, TaskStartFacts
    <2>2. /\ Head(dispatched) \in running' /\ phase' = phase /\ compare' = compare
          /\ phase \notin {"booting", "comparing"} /\ vmTmp' = vmTmp
      BY <1>5, TaskStartFacts
    <2> QED
      BY <1>0, <2>1, <2>2 DEF Apart, TmpLoaded
  <1>6. CASE RInv /\ \E t \in running : TaskDone(t)
    <2>1. /\ \A z \in Zone : job'[z].pc = "none"
          /\ phase' = phase /\ compare' = compare
          /\ phase \notin {"booting", "comparing"} /\ vmTmp' = vmTmp
      BY <1>6, TaskDoneFacts
    <2> QED
      BY <1>0, <2>1 DEF Apart, TmpLoaded
  <1>7. CASE RInv /\ \E z \in Zone : JobStep(z)
    <2>1. PICK z \in Zone : JobStep(z)
      BY <1>7
    <2>2. UNCHANGED <<running, phase, compare>>
      BY <1>0, <2>1, JobFrame DEF vars, queueVars, resetVars
    <2>3. job[z].pc # "none" /\ \A y \in Zone : y # z => job'[y] = job[y]
      BY <1>0, <2>1, JobFrame
    <2>4. phase # "booting"
      <3> SUFFICES ASSUME phase = "booting" PROVE FALSE
        OBVIOUS
      <3>1. compare = "none" /\ Quiet
        BY <1>0, <1>7, QuietPhases DEF Apart
      <3> QED
        BY <1>0, <1>7, <2>3, <3>1, QuietJobs
    <2>5. TmpLoaded'
      BY <1>0, <2>1, <2>2, JobFrame DEF TmpLoaded
    <2> QED
      BY <1>0, <2>2, <2>3, <2>4, <2>5 DEF Apart
  <1>8. CASE RInv /\ \E z \in Zone : GetVmobjFailed(z)
    <2>1. PICK z \in Zone : GetVmobjFailed(z)
      BY <1>8
    <2>2. /\ job[z].pc # "none" /\ EndJob(z)
          /\ UNCHANGED <<running, phase, compare, vmTmp, vmobjsJson>>
      BY <2>1 DEF GetVmobjFailed, vars, queueVars, resetVars
    <2>3. \A y \in Zone : y # z => job'[y] = job[y]
      BY <1>0, <2>2, EndJobFacts
    <2> QED
      BY <1>0, <2>2, <2>3 DEF Apart, TmpLoaded
  <1>9. CASE \E z \in Zone : SerializeVm(z)
    <2>1. /\ phase # "booting"
          /\ UNCHANGED <<running, phase, compare, vmTmp, job>>
      BY <1>9 DEF SerializeVm, vars, queueVars, resetVars
    <2> QED
      BY <1>0, <2>1 DEF Apart, TmpLoaded
  <1>10. CASE LoadNewData
    <2>1. UNCHANGED <<job, vmobjsJson, running>>
      BY <1>10, ElsewhereFrame
    <2>2. phase = "pausing" /\ phase' = "fetching" /\ compare' = compare
      BY <1>10 DEF LoadNewData, ResetFetch
    <2> QED
      BY <1>0, <2>1, <2>2 DEF Apart, TmpLoaded
  <1>11. CASE ForwardToNow
    <2>1. UNCHANGED <<job, vmobjsJson, running>>
      BY <1>11, ElsewhereFrame
    <2>2. phase = "fetching" /\ phase' = "forwarding" /\ compare' = compare
          /\ vmTmp' = load.got
      BY <1>11 DEF ForwardToNow, ResetForward
    <2>3. load.got \in [Zone -> Content]
      BY <1>0 DEF DataTypes
    <2> QED
      BY <1>0, <2>1, <2>2, <2>3 DEF Apart, TmpLoaded
  <1>12. CASE RInv /\ CompareStart
    <2>1. /\ phase' = "comparing" /\ compare' \in {"over", "create"}
          /\ vmTmp' = vmTmp /\ phase = "forwarding"
      BY <1>12, CompareStartFacts
    <2>2. compare' = "over" => \A z \in Zone : job'[z].pc = "none"
      BY <1>12, CompareStartFacts
    <2> QED
      BY <1>0, <2>1, <2>2 DEF Apart, TmpLoaded
  <1>13. CASE CompareStep
    <2>1. /\ compare # "none" /\ compare' \in {"delete", "refresh", "over"}
          /\ phase' = phase
          /\ (compare' = "over" => job' = [z \in Zone |-> NoJob])
      BY <1>13 DEF CompareStep, CompareDelete, CompareRefresh, CompareEnd, vars,
                   resetVars
    <2>2. vmTmp \in [Zone -> Content] => vmTmp' \in [Zone -> Content]
      <3>1. CASE CompareDelete
        BY <1>0, <3>1, DeleteFacts DEF CompareDelete, DataTypes
      <3> QED
        BY <1>13, <3>1 DEF CompareStep, CompareRefresh, CompareEnd
    <2> QED
      BY <1>0, <2>1, <2>2, JobFacts DEF Apart, TmpLoaded
  <1> QED
    BY <1>1, <1>2, <1>3, <1>4, <1>5, <1>6, <1>7, <1>8, <1>9, <1>10, <1>11,
       <1>12, <1>13, NotHalted DEF CInv, CacheNext, Turn

\* A step of the job of z keeps what is said of z.
LEMMA JobInStep ==
    ASSUME SysTypes, DataTypes, NEW z \in Zone, InStep(z), JobStep(z)
    PROVE  InStep(z)'
  <1>0. vmData[z] \in Content /\ vmobjs[z] \in Content /\ job[z] \in JobType
    BY DEF DataTypes
  <1>1. CASE StatXml(z)
    <2>1. job[z].pc = "stat" /\ view' = view
      BY <1>1 DEF StatXml
    <2>2. CASE DeleteVmobjs({z})
      BY <2>1, <2>2, DeleteFacts DEF InStep
    <2>3. CASE /\ SetJob(z, RefreshVmobj(z, {"xml"}))
               /\ UNCHANGED <<vmData, vmTmp, vmobjs, vmobjsJson>>
      <3>1. job'[z].pc \in {"done", "refresh"}
        BY <2>3, RefreshType, SetJobFacts
      <3> QED
        BY <2>1, <2>3, <3>1 DEF InStep
    <2> QED
      BY <1>1, <2>2, <2>3 DEF StatXml
  <1>2. CASE \E set \in {"live", "tmp"} : ReadContext(z, set)
    <2>1. PICK set \in {"live", "tmp"} : ReadContext(z, set)
      BY <1>2
    <2>2. job'[z].pc = job[z].pc
      BY <2>1, ReadFacts
    <2>3. UNCHANGED <<vmobjs, vmobjsJson, view>>
      BY <2>1 DEF ReadContext
    <2> QED
      BY <2>2, <2>3 DEF InStep
  <1>3. CASE MergeZoneVmDatasets(z)
    <2>1. UNCHANGED <<vmobjs, vmobjsJson, view>>
      BY <1>3 DEF MergeZoneVmDatasets
    <2>2. \/ job[z].pc = "create" /\ job'[z].pc = "createObj"
          \/ job[z].pc = "refresh" /\ job'[z].pc = "refreshObj"
      BY <1>3, MergeFacts
    <2> QED
      BY <2>1, <2>2 DEF InStep
  <1>4. CASE ReadFailed(z)
    <2>1. job[z].pc \in {"create", "refresh"} /\ view' = view
      BY <1>4 DEF ReadFailed, AllRead
    <2>2. CASE DeleteVmobjs({z})
      BY <2>1, <2>2, DeleteFacts DEF InStep
    <2>3. CASE EndJob(z) /\ UNCHANGED <<vmData, vmTmp, vmobjs, vmobjsJson>>
      BY <2>1, <2>3, EndJobFacts DEF InStep
    <2> QED
      BY <1>4, <2>2, <2>3 DEF ReadFailed
  <1>5. CASE CreateGetVmobj(z)
    <2>1. /\ job[z].pc = "createObj" /\ vmobjs' = [vmobjs EXCEPT ![z] = vmData[z]]
          /\ SetJob(z, [NoJob EXCEPT !.pc = "watch"])
          /\ UNCHANGED vmobjsJson
      BY <1>5 DEF CreateGetVmobj
    <2>2. job'[z].pc = "watch"
      BY <2>1, JobFacts, SetJobFacts DEF PCs
    <2>3. vmobjsJson[z] = Absent
      BY <2>1 DEF InStep
    <2> QED
      BY <2>1, <2>2, <2>3 DEF InStep
  <1>6. CASE CreateDone(z)
    <2>1. /\ view' = [view EXCEPT ![z] = vmobjs[z]] /\ EndJob(z)
          /\ UNCHANGED <<vmobjs, vmobjsJson>>
      BY <1>6 DEF CreateDone
    <2>2. view'[z] = vmobjs[z]
      BY <2>1 DEF DataTypes
    <2> QED
      BY <2>1, <2>2, EndJobFacts DEF InStep
  <1>7. CASE RefreshGetVmobj(z)
    <2>1. EndJob(z) /\ job[z].pc = "refreshObj"
      BY <1>7 DEF RefreshGetVmobj
    <2>2. CASE /\ vmobjs' = [vmobjs EXCEPT ![z] = vmData[z]]
               /\ vmobjsJson' = [vmobjsJson EXCEPT ![z] = Absent]
               /\ view' = [view EXCEPT ![z] = vmData[z]]
      <3>1. vmobjs'[z] = vmData[z] /\ vmobjsJson'[z] = Absent /\ view'[z] = vmData[z]
        BY <2>2 DEF DataTypes
      <3> QED
        BY <2>1, <3>1, EndJobFacts DEF InStep
    <2>3. CASE UNCHANGED <<vmobjs, vmobjsJson, view>>
      BY <2>1, <2>3, EndJobFacts DEF InStep
    <2> QED
      BY <1>7, <2>2, <2>3 DEF RefreshGetVmobj
  <1>8. CASE DeleteDone(z)
    <2>1. /\ job[z].pc = "unwatch" /\ view' = [view EXCEPT ![z] = Absent]
          /\ EndJob(z) /\ UNCHANGED <<vmobjs, vmobjsJson>>
      BY <1>8 DEF DeleteDone
    <2>2. view'[z] = Absent /\ vmobjs[z] = Absent
      BY <2>1 DEF DataTypes, InStep
    <2> QED
      BY <2>1, <2>2, EndJobFacts DEF InStep
  <1> QED
    BY <1>1, <1>2, <1>3, <1>4, <1>5, <1>6, <1>7, <1>8 DEF JobStep

LEMMA NextInStep ==
    ASSUME CInv, [CacheNext]_allVars, NEW z \in Zone
    PROVE  InStep(z)'
  <1>0. Apart /\ SysTypes /\ DataTypes /\ InStep(z)
    BY DEF CInv, CacheTypes
  <1>1. CASE UNCHANGED <<job, vmobjs, vmobjsJson, view>>
    BY <1>0, <1>1 DEF InStep
  <1>2. CASE \/ System \/ PauseForReset \/ BootWatch \/ LoadStep \/ Elsewhere
             \/ UNCHANGED allVars \/ (\E d \in events : Deliver(d)) \/ LoadNewData
             \/ ForwardToNow \/ BackToRunning
    BY <1>1, <1>2, ElsewhereFrame
  <1>3. CASE RInv /\ BootReady
    <2>1. /\ phase = "booting" /\ vmobjs' = load.got /\ view' = load.got
          /\ UNCHANGED <<vmobjsJson, job>>
      BY <1>3 DEF BootReady, Boot
    <2>2. compare = "none" /\ Quiet /\ vmobjsJson[z] = Absent
      BY <1>0, <1>3, <2>1, QuietPhases DEF Apart
    <2>3. job[z].pc = "none"
      BY <1>0, <1>3, <2>2, QuietJobs
    <2> QED
      BY <2>1, <2>2, <2>3 DEF InStep
  <1>4. CASE RInv /\ TaskStart
    <2> DEFINE d == Head(dispatched).desc
    <2>1. /\ job[z].pc = "none" /\ UNCHANGED <<vmobjs, vmobjsJson, view>>
          /\ d \in Desc /\ job'[d.zone] = TaskJob(d)
          /\ (z # d.zone => job'[z] = job[z])
      BY <1>4, TaskStartFacts
    <2>2. CASE z # d.zone
      BY <1>0, <2>1, <2>2 DEF InStep
    <2>3. CASE z = d.zone
      <3> HIDE DEF d
      <3>1. \/ vmobjs[z] = Absent /\ job'[z].pc = "create"
            \/ job'[z].pc \in {"done", "refresh", "stat"}
        BY <1>0, <2>1, <2>3, TaskType, CreateType, RefreshType
      <3> QED
        BY <1>0, <2>1, <3>1 DEF InStep
    <2> QED
      BY <2>2, <2>3
  <1>5. CASE RInv /\ \E t \in running : TaskDone(t)
    <2>1. PICK t \in running : TaskDone(t)
      BY <1>5
    <2>2. /\ UNCHANGED <<vmobjs, vmobjsJson, view>>
          /\ job'[z].pc = "none"
          /\ (z = t.desc.zone => job[z].pc = "done")
          /\ (z # t.desc.zone => job'[z] = job[z])
      BY <1>5, <2>1, TaskDoneFacts
    <2> QED
      BY <1>0, <2>2 DEF InStep
  <1>6. CASE \E y \in Zone : JobStep(y)
    <2>1. PICK y \in Zone : JobStep(y)
      BY <1>6
    <2>2. CASE y = z
      BY <1>0, <2>1, <2>2, JobInStep
    <2>3. CASE y # z
      BY <1>0, <2>1, <2>3, JobFrame DEF InStep
    <2> QED
      BY <2>2, <2>3
  <1>7. CASE \E y \in Zone : GetVmobjFailed(y)
    <2>1. PICK y \in Zone : GetVmobjFailed(y)
      BY <1>7
    <2>2. /\ job[y].pc \in {"createObj", "refreshObj"} /\ EndJob(y)
          /\ UNCHANGED <<vmobjs, vmobjsJson, view>>
      BY <2>1 DEF GetVmobjFailed
    <2> QED
      BY <1>0, <2>2, EndJobFacts DEF InStep
  <1>8. CASE \E y \in Zone : SerializeVm(y)
    <2>1. PICK y \in Zone : SerializeVm(y)
      BY <1>8
    <2>2. /\ vmobjsJson' = [vmobjsJson EXCEPT ![y] = vmobjs[y]]
          /\ UNCHANGED <<vmobjs, view, job>>
      BY <2>1 DEF SerializeVm
    <2>3. vmobjsJson'[z] \in {vmobjsJson[z], vmobjs[z]}
      BY <1>0, <2>2 DEF DataTypes
    <2> QED
      BY <1>0, <2>2, <2>3 DEF InStep
  <1>9. CASE RInv /\ CompareStart
    <2>1. job[z].pc = "none" /\ UNCHANGED <<vmobjs, vmobjsJson, view>>
      BY <1>9, CompareStartFacts
    <2>2. \/ job'[z] \in {job[z], NoJob}
          \/ job'[z] = CreateVmobj(z)
      BY <1>9, CompareStartFacts
    <2>3. \/ vmobjs[z] = Absent /\ job'[z].pc = "create"
          \/ job'[z].pc \in {"none", "done"}
      BY <2>1, <2>2, CreateType, JobFacts
    <2> QED
      BY <1>0, <2>1, <2>3 DEF InStep
  <1>10. CASE CompareDelete
    <2>1. /\ job[z].pc \in {"none", "done"} /\ view' = view
          /\ DeleteVmobjs(old \ Known(vmData))
          /\ old \ Known(vmData) \in SUBSET Zone
      BY <1>0, <1>10 DEF CompareDelete, Idle, DataTypes
    <2> QED
      BY <1>0, <2>1, DeleteFacts DEF InStep
  <1>11. CASE CompareRefresh
    <2>1. /\ job[z].pc \in {"none", "done"} /\ job'[z] = RefreshVmobj(z, {})
          /\ UNCHANGED <<vmobjs, vmobjsJson, view>>
      BY <1>11 DEF CompareRefresh, Idle
    <2>2. job'[z].pc \in {"done", "refresh"}
      BY <1>0, <2>1, RefreshType
    <2> QED
      BY <1>0, <2>1, <2>2 DEF InStep
  <1>12. CASE CompareEnd
    <2>1. /\ job[z].pc \in {"none", "done"} /\ job'[z] = NoJob
          /\ UNCHANGED <<vmobjs, vmobjsJson, view>>
      BY <1>12 DEF CompareEnd, Idle
    <2> QED
      BY <1>0, <2>1, JobFacts DEF InStep
  <1> QED
    BY <1>2, <1>3, <1>4, <1>5, <1>6, <1>7, <1>8, <1>9, <1>10, <1>11, <1>12,
       NotHalted DEF CInv, CacheNext, Turn, CompareStep

-----------------------------------------------------------------------------
LEMMA InitC == CacheInit => CInv
  <1> SUFFICES ASSUME CacheInit PROVE CInv
    OBVIOUS
  <1>1. RInv
    BY InitR DEF CacheInit
  <1>2. CacheTypes
    BY <1>1, InitTypes DEF CacheInit, CacheTypes, EventsOK, RInv, IInv,
                           ProtocolOK, ResetTypeOK
  <1>3. /\ compare = "none" /\ phase = "booting"
        /\ \A z \in Zone : /\ job[z].pc = "none" /\ vmobjs[z] = Absent
                           /\ vmobjsJson[z] = Absent /\ view[z] = Absent
    BY JobFacts DEF CacheInit, Init
  <1> QED
    BY <1>1, <1>2, <1>3 DEF CInv, Apart, TmpLoaded, InStep

LEMMA NextC == ASSUME CInv, [CacheNext]_allVars PROVE CInv'
  <1>1. [Next]_vars /\ EventsOK'
    BY NextIsReset, NextEvents DEF CInv, CacheTypes
  <1>2. (RInv \/ Halted)'
    BY <1>1, NextR, HaltedStays DEF CInv
  <1>3. ResetTypeOK'
    BY <1>2 DEF RInv, IInv, ProtocolOK, Halted, ResetTypeOK
  <1>4. vmTmp \in [Zone -> Content] \/ ~ResetCompare
    BY DEF CInv, TmpLoaded, ResetCompare
  <1>5. CacheTypes'
    BY <1>1, <1>3, <1>4, NextTypes DEF CInv, CacheTypes
  <1> QED
    BY <1>2, <1>5, NextApart, NextInStep DEF CInv

\* The invariant of the cache holds throughout, in any interleaving of events,
\* tasks, resets and changes of the system, whatever fails or gets lost.
THEOREM CacheInvariance == CacheSpec => []CInv
  BY InitC, NextC, PTL DEF CacheSpec

\* What was missed once stays so.
LEMMA MissedGrows ==
    ASSUME [CacheNext]_allVars
    PROVE  missed \subseteq missed' /\ missed' \subseteq missed \cup Zone
  <1> USE DEF sysVars
  <1>1. CASE System \/ UNCHANGED allVars
    BY <1>1 DEF System, ZoneCreate, ZoneState, XmlEdit, JsonWrite, ZoneDelete,
                Change, allVars
  <1>2. CASE PauseForReset \/ BackToRunning
    BY <1>2 DEF PauseForReset, BackToRunning
  <1>3. CASE BootWatch \/ BootReady \/ LoadStep
    BY <1>3 DEF BootWatch, BootReady, LoadStep, LoadList, LoadNext, LoadXml,
                LoadJson
  <1>4. CASE \/ \E d \in events : Deliver(d)
             \/ TaskStart
             \/ \E t \in running : TaskDone(t)
    BY <1>4 DEF Deliver, TaskStart, TaskDone
  <1>5. CASE \E z \in Zone : JobStep(z)
    BY <1>5 DEF JobStep, StatXml, ReadContext, MergeZoneVmDatasets, ReadFailed,
                CreateGetVmobj, CreateDone, RefreshGetVmobj, DeleteDone
  <1>6. CASE \E z \in Zone : GetVmobjFailed(z) \/ SerializeVm(z)
    BY <1>6 DEF GetVmobjFailed, SerializeVm
  <1>7. CASE LoadNewData \/ ForwardToNow \/ CompareStart \/ CompareStep
             \/ Elsewhere
    BY <1>7 DEF LoadNewData, ForwardToNow, CompareStart, CompareStep,
                CompareDelete, CompareRefresh, CompareEnd, Elsewhere
  <1> QED
    BY <1>1, <1>2, <1>3, <1>4, <1>5, <1>6, <1>7 DEF CacheNext, Turn

\* The data sets, the VM objects and the jobs keep their types.
THEOREM CacheTypeCorrectness == CacheSpec => []CacheTypeOK
  <1>1. CInv /\ missed \subseteq Zone => CacheTypeOK
    BY DEF CInv, CacheTypes, EventsOK, SysTypes, DataTypes, CacheTypeOK, Content,
           JobType
  <1>2. CacheInit => missed \subseteq Zone
    BY DEF CacheInit
  <1>3. missed \subseteq Zone /\ [CacheNext]_allVars => (missed \subseteq Zone)'
    BY MissedGrows
  <1> QED
    BY <1>1, <1>2, <1>3, CacheInvariance, PTL DEF CacheSpec

\* The JSON text that vminfod serves for a VM is always that of the VM object
\* as it is: every handler that replaces an object drops its text.
THEOREM JsonIsFresh == CacheSpec => []JsonFresh
  <1>1. CInv => JsonFresh
    BY DEF CInv, InStep, JsonFresh
  <1> QED
    BY <1>1, CacheInvariance, PTL

\* A listener that applies the events 'create', 'modify' and 'delete' has the
\* VM objects of the cache, but for a create or delete that is under way.
THEOREM ListenersMissNothing == CacheSpec => []ListenerInSync
  <1>1. CInv => ListenerInSync
    BY DEF CInv, InStep, ListenerInSync
  <1> QED
    BY <1>1, CacheInvariance, PTL

\* No handler disturbs a reset of vminfod with its cache: that of VminfodReset
\* holds here because the cache implements it.
THEOREM CacheResetUndisturbed == CacheSpec => []ResetUndisturbed
  BY CacheImplementsReset, NothingDisturbsReset, PTL

-----------------------------------------------------------------------------
(***************************************************************************)
(* The VM objects and their data, of a zone that no getVmobj failed for.   *)
(***************************************************************************)
\* _loadVmData has something of a zone only if the zone is in its list.
LoadOK ==
    /\ \A z \in Zone : load.got[z]["adm"] = 0 => load.got[z] = Absent
    /\ load.left \subseteq Known(load.got)

\* How the VM object of a zone is related to its data, by what is done with it.
\* The stages of the comparison take it from the old data to the new.
FromData(z) ==
    /\ vmobjs[z] # Absent => vmobjs[z]["adm"] # 0
    /\ job[z].pc \in {"create", "refresh"} /\ job[z].err = "none"
          => job[z].live["adm"] # 0
    /\ job[z].pc \in {"createObj", "refreshObj"} => vmData[z]["adm"] # 0
    /\ compare \in {"none", "over"} /\ job[z].pc # "refreshObj"
          => vmobjs[z] \in {Absent, vmData[z]}
    /\ compare = "create" =>
          /\ job[z].pc \in {"none", "done", "create", "createObj", "watch"}
          /\ vmobjs[z] # Absent => z \in old \/ vmData[z]["adm"] # 0
    /\ compare = "delete" =>
          /\ job[z].pc \in {"none", "done", "unwatch"}
          /\ vmobjs[z] # Absent => vmData[z]["adm"] # 0
    /\ compare = "refresh" =>
          /\ job[z].pc \in {"none", "done", "refresh", "refreshObj"}
          /\ job[z].pc \in {"none", "done"} => vmobjs[z] \in {Absent, vmData[z]}
          /\ job[z].pc = "refresh" =>
                /\ job[z].err = "none"
                /\ Holes(job[z].live) = {} /\ Holes(job[z].tmp) = {}

DInv == CInv /\ LoadOK /\ \A z \in Zone : z \in missed \/ FromData(z)

LEMMA NoLoadOK ==
    ASSUME \/ load' = NoLoad \/ load' = [NoLoad EXCEPT !.stage = "list"]
           \/ load' = [NoLoad EXCEPT !.stage = "failed"]
    PROVE  LoadOK'
  <1>1. load'.got = [z \in Zone |-> Absent] /\ load'.left = {}
    BY DEF NoLoad
  <1> QED
    BY <1>1 DEF LoadOK

LEMMA NextLoad ==
    ASSUME CacheTypes, LoadOK, [CacheNext]_allVars
    PROVE  LoadOK'
  <1>0. load \in [stage : Stages, left : SUBSET Zone, got : [Zone -> Content]]
        /\ real \in [Zone -> Content]
    BY DEF CacheTypes, DataTypes, SysTypes
  <1>1. CASE load' = load
    BY <1>1 DEF LoadOK, Known
  <1>2. CASE LoadList
    <2>1. /\ load'.left = Known(real)
          /\ load'.got = [z \in Zone |-> [Absent EXCEPT !["adm"] = real[z]["adm"]]]
      BY <1>2 DEF LoadList
    <2>2. \A z \in Zone : load'.got[z]["adm"] = real[z]["adm"]
      BY <2>1, VersionFacts DEF Content
    <2>3. \A z \in Zone : real[z]["adm"] = 0 => load'.got[z] = Absent
      BY <2>1, VersionFacts DEF Content
    <2> QED
      BY <2>1, <2>2, <2>3 DEF LoadOK, Known
  <1>3. CASE \E z \in Zone : LoadXml(z) \/ LoadJson(z)
    <2>1. PICK z \in Zone : LoadXml(z) \/ LoadJson(z)
      BY <1>3
    <2>2. CASE load' = [NoLoad EXCEPT !.stage = "failed"]
      BY <2>2, NoLoadOK
    <2>3. CASE /\ z \in load.left
               /\ \E c \in {"xml", "json"} :
                     load' = [load EXCEPT !.left = load.left \ {z},
                                          !.got[z][c] = real[z][c]]
      <3>1. PICK c \in {"xml", "json"} :
               load' = [load EXCEPT !.left = load.left \ {z},
                                    !.got[z][c] = real[z][c]]
        BY <2>3
      <3> DEFINE new == [load.got[z] EXCEPT ![c] = real[z][c]]
      <3>2. load'.left = load.left \ {z} /\ load'.got = [load.got EXCEPT ![z] = new]
        BY <1>0, <3>1
      <3>3. new["adm"] = load.got[z]["adm"] /\ load.got[z]["adm"] # 0
        BY <1>0, <2>3, VersionFacts DEF LoadOK, Known, Content
      <3>4. load'.got[z] = new /\ \A y \in Zone : y # z => load'.got[y] = load.got[y]
        BY <1>0, <3>2
      <3> HIDE DEF new
      <3>5. \A y \in Zone : load'.got[y]["adm"] = load.got[y]["adm"]
        BY <3>3, <3>4
      <3>6. \A y \in Zone : load'.got[y]["adm"] = 0 => load'.got[y] = Absent
        BY <3>3, <3>4, <3>5 DEF LoadOK
      <3> QED
        BY <3>2, <3>5, <3>6 DEF LoadOK, Known
    <2> QED
      BY <2>1, <2>2, <2>3 DEF LoadXml, LoadJson
  <1>4. CASE LoadNext
    <2>1. load'.got = load.got /\ load'.left \in {load.left, Known(load.got)}
      BY <1>0, <1>4 DEF LoadNext
    <2> QED
      BY <2>1 DEF LoadOK, Known
  <1>5. CASE BootWatch \/ BootReady \/ LoadNewData \/ ForwardToNow \/ BackToRunning
    BY <1>5, NoLoadOK DEF BootWatch, BootReady, LoadNewData, ForwardToNow,
                          BackToRunning
  <1>6. CASE System
    BY <1>1, <1>6 DEF System, ZoneCreate, ZoneState, XmlEdit, JsonWrite,
                      ZoneDelete, Change, cacheVars
  <1>7. CASE PauseForReset \/ Elsewhere \/ UNCHANGED allVars
             \/ \E d \in events : Deliver(d)
    BY <1>1, <1>7 DEF PauseForReset, Elsewhere, allVars, Deliver, cacheVars
  <1>8. CASE TaskStart \/ \E t \in running : TaskDone(t)
    BY <1>1, <1>8 DEF TaskStart, TaskDone
  <1>9. CASE \E z \in Zone : JobStep(z)
    BY <1>1, <1>9, JobFrame DEF CacheTypes
  <1>10. CASE \E z \in Zone : GetVmobjFailed(z) \/ SerializeVm(z)
    BY <1>1, <1>10 DEF GetVmobjFailed, SerializeVm
  <1>11. CASE CompareStart \/ CompareStep
    BY <1>1, <1>11 DEF CompareStart, CompareStep, CompareDelete, CompareRefresh,
                       CompareEnd
  <1> QED
    BY <1>2, <1>3, <1>4, <1>5, <1>6, <1>7, <1>8, <1>9, <1>10, <1>11
       DEF CacheNext, Turn, LoadStep

LEMMA PokeFacts ==
    ASSUME NEW data \in Content, NEW contexts
    PROVE  /\ data["adm"] # 0 => Poke(data, contexts)["adm"] # 0
           /\ Holes(Poke(data, {})) = {}
  <1>1. \A c \in Ctx : Poke(data, contexts)[c] \in {data[c], Hole}
    BY DEF Poke
  <1>2. Poke(data, {}) = data
    BY DEF Poke, Content
  <1>3. data \in Data /\ \A c \in Ctx : data[c] # Hole
    BY VersionFacts DEF Content
  <1>4. Holes(data) = {}
    BY <1>3, NoDataDiffers DEF Holes
  <1> QED
    BY <1>1, <1>2, <1>4, VersionFacts

LEMMA JobFromData ==
    ASSUME SysTypes, DataTypes, NEW z \in Zone, InStep(z), FromData(z), JobStep(z)
    PROVE  FromData(z)'
  <1>0. /\ compare' = compare /\ old' = old
        /\ vmData[z] \in Content /\ vmobjs[z] \in Content
    BY JobFrame DEF DataTypes
  <1>1. CASE StatXml(z)
    <2>1. job[z].pc = "stat"
      BY <1>1 DEF StatXml
    <2>2. compare \in {"none", "over"} /\ vmobjs[z] \in {Absent, vmData[z]}
      BY <2>1 DEF FromData, DataTypes
    <2>3. CASE DeleteVmobjs({z})
      <3>1. \/ /\ vmobjs'[z] = vmobjs[z] /\ vmobjs[z] = Absent
               /\ job'[z].pc = "done"
            \/ vmobjs'[z] = Absent /\ job'[z].pc = "unwatch"
        BY <2>3, DeleteFacts
      <3> QED
        BY <1>0, <2>2, <3>1 DEF FromData
    <2>4. CASE /\ SetJob(z, RefreshVmobj(z, {"xml"}))
               /\ UNCHANGED <<vmData, vmTmp, vmobjs, vmobjsJson>>
      <3>1. \/ job'[z].pc = "done"
            \/ /\ vmobjs[z] # Absent /\ job'[z].pc = "refresh"
               /\ job'[z].live = Poke(vmData[z], {"xml"})
        BY <2>4, RefreshType, SetJobFacts
      <3>2. vmobjs[z] # Absent => Poke(vmData[z], {"xml"})["adm"] # 0
        BY <1>0, <2>2, PokeFacts DEF FromData
      <3> QED
        BY <1>0, <2>2, <2>4, <3>1, <3>2 DEF FromData
    <2> QED
      BY <1>1, <2>3, <2>4 DEF StatXml
  <1>2. CASE \E set \in {"live", "tmp"} : ReadContext(z, set)
    <2>1. PICK set \in {"live", "tmp"} : ReadContext(z, set)
      BY <1>2
    <2>2. /\ job'[z].pc = job[z].pc /\ job[z].pc \in {"create", "refresh"}
          /\ Holes(job[z].live) # {} \/ Holes(job[z].tmp) # {}
          /\ job'[z].err = "none" => job[z].err = "none"
          /\ job[z].live["adm"] # 0 /\ job'[z].err = "none"
                => job'[z].live["adm"] # 0
      BY <2>1, ReadFacts
    <2>3. UNCHANGED <<vmobjs, vmData>>
      BY <2>1 DEF ReadContext
    <2>4. compare # "refresh"
      BY <2>2 DEF FromData
    <2> QED
      BY <1>0, <2>2, <2>3, <2>4 DEF FromData
  <1>3. CASE MergeZoneVmDatasets(z)
    <2>1. vmobjs' = vmobjs
      BY <1>3 DEF MergeZoneVmDatasets
    <2>2. /\ job[z].err = "none" /\ vmData'[z] = job[z].live
          /\ \/ job[z].pc = "create" /\ job'[z].pc = "createObj"
             \/ job[z].pc = "refresh" /\ job'[z].pc = "refreshObj"
      BY <1>3, MergeFacts
    <2>3. vmData'[z]["adm"] # 0
      BY <2>2 DEF FromData
    <2> QED
      BY <1>0, <2>1, <2>2, <2>3 DEF FromData, InStep
  <1>4. CASE ReadFailed(z)
    <2>1. job[z].pc \in {"create", "refresh"} /\ job[z].err # "none"
      BY <1>4 DEF ReadFailed, AllRead
    <2>2. compare \in {"none", "over", "create"}
      BY <2>1 DEF FromData, DataTypes
    <2>3. CASE job[z].pc = "refresh" /\ DeleteVmobjs({z})
      <3>1. \/ /\ vmobjs'[z] = vmobjs[z] /\ vmobjs[z] = Absent
               /\ job'[z].pc = "done"
            \/ vmobjs'[z] = Absent /\ job'[z].pc = "unwatch"
        BY <2>3, DeleteFacts
      <3>2. compare # "create"
        BY <2>3 DEF FromData
      <3> QED
        BY <1>0, <2>2, <3>1, <3>2 DEF FromData
    <2>4. CASE EndJob(z) /\ UNCHANGED <<vmData, vmTmp, vmobjs, vmobjsJson>>
      <3>1. job'[z].pc = "done"
        BY <2>4, EndJobFacts
      <3> QED
        BY <1>0, <2>1, <2>2, <2>4, <3>1 DEF FromData
    <2> QED
      BY <1>4, <2>3, <2>4 DEF ReadFailed
  <1>5. CASE CreateGetVmobj(z)
    <2>1. /\ job[z].pc = "createObj" /\ vmobjs' = [vmobjs EXCEPT ![z] = vmData[z]]
          /\ SetJob(z, [NoJob EXCEPT !.pc = "watch"])
          /\ UNCHANGED vmData
      BY <1>5 DEF CreateGetVmobj
    <2>2. job'[z].pc = "watch"
      BY <2>1, JobFacts, SetJobFacts DEF PCs
    <2>3. vmobjs'[z] = vmData[z]
      BY <2>1 DEF DataTypes
    <2> QED
      BY <1>0, <2>1, <2>2, <2>3 DEF FromData
  <1>6. CASE CreateDone(z)
    <2>1. job[z].pc = "watch" /\ EndJob(z) /\ UNCHANGED <<vmobjs, vmData>>
      BY <1>6 DEF CreateDone
    <2>2. job'[z].pc = "done"
      BY <2>1, EndJobFacts
    <2> QED
      BY <1>0, <2>1, <2>2 DEF FromData
  <1>7. CASE RefreshGetVmobj(z)
    <2>1. /\ EndJob(z) /\ job[z].pc = "refreshObj" /\ vmData' = vmData
          /\ \/ vmobjs' = [vmobjs EXCEPT ![z] = vmData[z]]
             \/ ~(vmData[z]["adm"] # 0 /\ vmData[z] # vmobjs[z]) /\ vmobjs' = vmobjs
      BY <1>7 DEF RefreshGetVmobj
    <2>2. vmData[z]["adm"] # 0
      BY <2>1 DEF FromData
    <2>3. vmobjs'[z] = vmData[z]
      BY <2>1, <2>2 DEF DataTypes
    <2>4. job'[z].pc = "done"
      BY <2>1, EndJobFacts
    <2> QED
      BY <1>0, <2>1, <2>2, <2>3, <2>4 DEF FromData
  <1>8. CASE DeleteDone(z)
    <2>1. job[z].pc = "unwatch" /\ EndJob(z) /\ UNCHANGED <<vmobjs, vmData>>
      BY <1>8 DEF DeleteDone
    <2>2. job'[z].pc = "done"
      BY <2>1, EndJobFacts
    <2> QED
      BY <1>0, <2>1, <2>2 DEF FromData, InStep
  <1> QED
    BY <1>1, <1>2, <1>3, <1>4, <1>5, <1>6, <1>7, <1>8 DEF JobStep

LEMMA NextFromData ==
    ASSUME DInv, [CacheNext]_allVars, NEW z \in Zone, z \notin missed'
    PROVE  FromData(z)'
  <1>0. /\ CInv /\ Apart /\ SysTypes /\ DataTypes /\ InStep(z) /\ FromData(z)
        /\ LoadOK /\ vmData[z] \in Content /\ vmobjs[z] \in Content
    BY MissedGrows DEF DInv, CInv, CacheTypes, DataTypes
  <1>1. CASE UNCHANGED <<job, vmobjs, vmData, compare, old>>
    BY <1>0, <1>1 DEF FromData
  <1>2. CASE \/ System \/ BootWatch \/ LoadStep \/ Elsewhere
             \/ UNCHANGED allVars \/ (\E d \in events : Deliver(d))
    BY <1>1, <1>2, ElsewhereFrame, ElsewherePhase
  <1>3. CASE PauseForReset \/ LoadNewData \/ ForwardToNow
    <2>1. UNCHANGED <<compare, old>>
      BY <1>3 DEF PauseForReset, LoadNewData, ForwardToNow, cacheVars
    <2> QED
      BY <1>1, <1>3, <2>1, ElsewhereFrame
  <1>4. CASE BackToRunning
    <2>1. UNCHANGED <<job, vmobjs, vmData>>
      BY <1>4, ElsewhereFrame
    <2>2. compare' = "none" /\ (phase = "comparing" => compare = "over")
      BY <1>4 DEF BackToRunning
    <2>3. compare \in {"none", "over"}
      BY <1>0, <2>2 DEF Apart
    <2> QED
      BY <1>0, <2>1, <2>2, <2>3 DEF FromData
  <1>5. CASE RInv /\ BootReady
    <2>1. /\ phase = "booting" /\ vmobjs' = load.got /\ vmData' = load.got
          /\ UNCHANGED <<compare, job>>
      BY <1>5 DEF BootReady, Boot
    <2>2. compare = "none" /\ Quiet
      BY <1>0, <1>5, <2>1, QuietPhases DEF Apart
    <2>3. job[z].pc = "none"
      BY <1>0, <1>5, <2>2, QuietJobs
    <2> QED
      BY <1>0, <2>1, <2>2, <2>3 DEF FromData, LoadOK
  <1>6. CASE RInv /\ TaskStart
    <2> DEFINE d == Head(dispatched).desc
    <2>1. /\ job[z].pc = "none" /\ compare = "none"
          /\ UNCHANGED <<vmobjs, vmData, compare>>
          /\ d \in Desc /\ job'[d.zone] = TaskJob(d)
          /\ (z # d.zone => job'[z] = job[z])
      BY <1>0, <1>6, TaskStartFacts
    <2>2. CASE z # d.zone
      BY <1>0, <2>1, <2>2 DEF FromData
    <2>3. CASE z = d.zone
      <3> HIDE DEF d
      <3>1. \/ job'[z].pc = "create" /\ job'[z].live["adm"] = Hole
            \/ job'[z].pc \in {"done", "stat"}
            \/ \E contexts : /\ job'[z].pc = "refresh" /\ vmobjs[z] # Absent
                             /\ job'[z].live = Poke(vmData[z], contexts)
        BY <1>0, <2>1, <2>3, TaskType, CreateType, RefreshType
      <3>2. vmobjs[z] \in {Absent, vmData[z]}
        BY <1>0, <2>1 DEF FromData
      <3>3. vmobjs[z] # Absent =>
               \A contexts : Poke(vmData[z], contexts)["adm"] # 0
        BY <1>0, <3>2, PokeFacts DEF FromData
      <3>4. job'[z].pc \in {"create", "refresh"} => job'[z].live["adm"] # 0
        BY <3>1, <3>3, VersionFacts
      <3>5. job'[z].pc \in {"create", "refresh", "done", "stat"}
        BY <3>1
      <3> QED
        BY <1>0, <2>1, <3>2, <3>4, <3>5 DEF FromData
    <2> QED
      BY <2>2, <2>3
  <1>7. CASE RInv /\ \E t \in running : TaskDone(t)
    <2>1. PICK t \in running : TaskDone(t)
      BY <1>7
    <2>2. /\ UNCHANGED <<vmobjs, vmData, compare>> /\ compare = "none"
          /\ job'[z].pc = "none"
          /\ (z = t.desc.zone => job[z].pc = "done")
          /\ (z # t.desc.zone => job'[z] = job[z])
      BY <1>0, <1>7, <2>1, TaskDoneFacts
    <2> QED
      BY <1>0, <2>2 DEF FromData
  <1>8. CASE \E y \in Zone : JobStep(y)
    <2>1. PICK y \in Zone : JobStep(y)
      BY <1>8
    <2>2. CASE y = z
      BY <1>0, <2>1, <2>2, JobFromData
    <2>3. CASE y # z
      <3>1. /\ job'[z] = job[z] /\ vmobjs'[z] = vmobjs[z]
            /\ vmData'[z] = vmData[z] /\ compare' = compare /\ old' = old
        BY <1>0, <2>1, <2>3, JobFrame
      <3> QED
        BY <1>0, <3>1 DEF FromData
    <2> QED
      BY <2>2, <2>3
  <1>9. CASE \E y \in Zone : SerializeVm(y)
    BY <1>1, <1>9 DEF SerializeVm
  <1>10. CASE RInv /\ CompareStart
    <2>1. /\ job[z].pc = "none" /\ compare = "none" /\ vmobjs' = vmobjs
          /\ \/ /\ compare' = "over" /\ UNCHANGED <<vmData, job, old>>
             \/ /\ compare' = "create" /\ old' = Known(vmData)
                /\ job'[z] = CreateVmobj(z) \/ job'[z] = NoJob
      BY <1>0, <1>10, CompareStartFacts
    <2>2. vmobjs[z] \in {Absent, vmData[z]}
      BY <1>0, <2>1 DEF FromData
    <2>3. vmobjs[z] # Absent => z \in Known(vmData)
      BY <1>0, <2>2 DEF FromData, Known
    <2>4. CASE compare' = "over" /\ UNCHANGED <<vmData, job, old>>
      BY <1>0, <2>1, <2>2, <2>4 DEF FromData
    <2>5. CASE /\ compare' = "create" /\ old' = Known(vmData)
               /\ job'[z] = CreateVmobj(z) \/ job'[z] = NoJob
      <3>1. \/ job'[z].pc \in {"none", "done"}
            \/ job'[z].pc = "create" /\ job'[z].live["adm"] # 0
        BY <2>5, CreateType, JobFacts, VersionFacts
      <3> QED
        BY <1>0, <2>1, <2>3, <2>5, <3>1 DEF FromData
    <2> QED
      BY <2>1, <2>4, <2>5
  <1>11. CASE CompareDelete
    <2>1. /\ job[z].pc \in {"none", "done"}
          /\ compare = "create" /\ compare' = "delete"
          /\ DeleteVmobjs(old \ Known(vmData))
          /\ old \ Known(vmData) \in SUBSET Zone
      BY <1>0, <1>11 DEF CompareDelete, Idle, DataTypes
    <2>2. CASE z \in old \ Known(vmData) /\ vmobjs[z] # Absent
      <3>1. vmobjs'[z] = Absent /\ job'[z].pc = "unwatch"
        BY <1>0, <2>1, <2>2, DeleteFacts
      <3> QED
        BY <2>1, <3>1 DEF FromData
    <2>3. CASE ~(z \in old \ Known(vmData) /\ vmobjs[z] # Absent)
      <3>1. /\ vmobjs'[z] = vmobjs[z] /\ vmData'[z] = vmData[z]
            /\ job'[z].pc \in {"none", "done"}
        BY <1>0, <2>1, <2>3, DeleteFacts
      <3>2. vmobjs[z] # Absent => vmData[z]["adm"] # 0
        BY <1>0, <2>1, <2>3 DEF FromData, Known
      <3> QED
        BY <1>0, <2>1, <3>1, <3>2 DEF FromData
    <2> QED
      BY <2>2, <2>3
  <1>12. CASE CompareRefresh
    <2>1. /\ compare = "delete" /\ compare' = "refresh"
          /\ job[z].pc \in {"none", "done"} /\ job'[z] = RefreshVmobj(z, {})
          /\ UNCHANGED <<vmobjs, vmData>>
      BY <1>12 DEF CompareRefresh, Idle
    <2>2. vmobjs[z] # Absent => vmData[z]["adm"] # 0
      BY <1>0, <2>1 DEF FromData
    <2>3. CASE vmobjs[z] = Absent
      <3>1. job'[z].pc = "done"
        BY <1>0, <2>1, <2>3, RefreshType
      <3> QED
        BY <1>0, <2>1, <2>3, <3>1 DEF FromData
    <2>4. CASE vmobjs[z] # Absent
      <3>1. /\ job'[z].pc = "refresh" /\ job'[z].err = "none"
            /\ job'[z].live = Poke(vmData[z], {})
            /\ job'[z].tmp = IF vmTmp = NoData THEN NoData ELSE Poke(vmTmp[z], {})
        BY <1>0, <2>1, <2>4, RefreshType
      <3>2. Holes(job'[z].live) = {} /\ job'[z].live["adm"] # 0
        BY <1>0, <2>2, <2>4, <3>1, PokeFacts
      <3>3. Holes(job'[z].tmp) = {}
        <4>1. CASE vmTmp = NoData
          BY <3>1, <4>1 DEF Holes
        <4>2. CASE vmTmp # NoData
          <5>1. vmTmp[z] \in Content
            BY <1>0, <4>2 DEF DataTypes
          <5> QED
            BY <3>1, <4>2, <5>1, PokeFacts
        <4> QED
          BY <4>1, <4>2
      <3> QED
        BY <1>0, <2>1, <2>4, <3>1, <3>2, <3>3 DEF FromData
    <2> QED
      BY <2>3, <2>4
  <1>13. CASE CompareEnd
    <2>1. /\ compare = "refresh" /\ compare' = "over"
          /\ job[z].pc \in {"none", "done"} /\ job'[z].pc = "none"
          /\ UNCHANGED <<vmobjs, vmData>>
      BY <1>13, JobFacts DEF CompareEnd, Idle
    <2> QED
      BY <1>0, <2>1 DEF FromData
  <1>14. CASE \E y \in Zone : GetVmobjFailed(y)
    <2>1. PICK y \in Zone : GetVmobjFailed(y)
      BY <1>14
    <2>2. EndJob(y) /\ UNCHANGED <<vmobjs, vmData, compare, old>> /\ y # z
      BY <2>1 DEF GetVmobjFailed
    <2>3. job'[z] = job[z]
      BY <1>0, <2>2, EndJobFacts DEF DataTypes
    <2> QED
      BY <1>0, <2>2, <2>3 DEF FromData
  <1> QED
    BY <1>0, <1>2, <1>3, <1>4, <1>5, <1>6, <1>7, <1>8, <1>9, <1>10, <1>11,
       <1>12, <1>13, <1>14, NotHalted
       DEF CInv, CacheNext, Turn, CompareStep

\* With no job and no comparison at work a VM object is made from the very data
\* that vminfod keeps of its zone, whatever is lost, delayed or times out: but
\* for a zone that getVmobj failed for.
THEOREM ObjectsMadeFromData == CacheSpec => []ObjectsFromData
  <1>1. CacheInit => DInv
    <2> SUFFICES ASSUME CacheInit PROVE DInv
      OBVIOUS
    <2>1. CInv
      BY InitC
    <2>2. LoadOK
      <3>1. load.got = [z \in Zone |-> Absent] /\ load.left = {}
        BY DEF CacheInit, NoLoad
      <3> QED
        BY <3>1 DEF LoadOK
    <2>3. compare = "none" /\ \A z \in Zone : job[z].pc = "none" /\ vmobjs[z] = Absent
      BY JobFacts DEF CacheInit
    <2> QED
      BY <2>1, <2>2, <2>3 DEF DInv, FromData
  <1>2. DInv /\ [CacheNext]_allVars => DInv'
    <2> SUFFICES ASSUME DInv, [CacheNext]_allVars PROVE DInv'
      OBVIOUS
    <2>1. CInv' /\ LoadOK'
      BY NextC, NextLoad DEF DInv, CInv
    <2> QED
      BY <2>1, NextFromData DEF DInv
  <1>3. DInv => ObjectsFromData
    BY DEF DInv, FromData, ObjectsFromData
  <1> QED
    BY <1>1, <1>2, <1>3, PTL DEF CacheSpec
=============================================================================
