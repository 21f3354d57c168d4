-------------------------- MODULE EventQueueProofs --------------------------
(***************************************************************************)
(* Proofs about EventQueue, for every number of workers and tasks, with    *)
(* and without deduplication, idle delay and timeouts: the assertions of   *)
(* the queue hold, tasks begin in the order of their creation, a queue     *)
(* that has paused is quiet, deduplication loses no work, and until a call *)
(* times out the promises of the header of queue.js hold.                  *)
(***************************************************************************)
EXTENDS MCEventQueue, SequenceTheorems, FiniteSetTheorems, TLAPS

\* The flags that the assertions of queue.js look at.  A call of the client
\* that is under way, or has ended without a resume, leaves the queue paused.
FlagsOK ==
    /\ ~failed
    /\ paused => ~idle /\ ~idleTimer
    /\ ~(idle /\ idleTimer)
    /\ call \in {"pausing", "paused", "forwarding", "forwarded"} => paused
    /\ ~paused => pausedQueue = <<>>

\* A task waits only while all workers are busy.
CapacityOK ==
    /\ IsFiniteSet(running)
    /\ NPending <= Workers
    /\ NPending < Workers => queued = <<>>

\* The tasks that run began before those that wait.
OrderOK ==
    /\ InOrder
    /\ lastStarted < nextId
    /\ \A t \in running : t.id <= lastStarted

\* The inductive invariant.
IInv == TypeOK /\ FlagsOK /\ CapacityOK /\ OrderOK /\ PauseQuiesces

\* InOrder, as a predicate of the tasks that wait.
Ordered(w, last, next) ==
    /\ \A i, j \in 1 .. Len(w) : i < j => w[i].id < w[j].id
    /\ \A i \in 1 .. Len(w) : last < w[i].id /\ w[i].id < next

-----------------------------------------------------------------------------
(***************************************************************************)
(* Facts about the tasks that wait and the number of those pending.        *)
(***************************************************************************)
LEMMA PendingNat ==
    ASSUME TypeOK, CapacityOK
    PROVE  /\ Len(dispatched) \in Nat
           /\ Cardinality(running) \in Nat
           /\ NPending \in Nat
           /\ NPending = 0 => dispatched = <<>> /\ running = {}
  <1>1. Len(dispatched) \in Nat /\ (Len(dispatched) = 0 => dispatched = <<>>)
    BY EmptySeq, LenProperties DEF TypeOK
  <1>2. Cardinality(running) \in Nat /\ (Cardinality(running) = 0 => running = {})
    BY FS_CardinalityType, FS_EmptySet DEF CapacityOK
  <1> QED
    BY <1>1, <1>2 DEF NPending

LEMMA TaskConcat ==
    \A s, t, u \in Seq(Task) : (s \o t) \o u = s \o (t \o u)
  <1> TAKE s, t, u \in Seq(Task)
  <1> QED
    BY ONLY s \in Seq(Task), t \in Seq(Task), u \in Seq(Task), ConcatAssociative

LEMMA ConcatParts ==
    ASSUME NEW s \in Seq(Task), NEW t \in Seq(Task)
    PROVE  /\ s \o t \in Seq(Task) /\ Len(s \o t) = Len(s) + Len(t)
           /\ \A i \in 1 .. Len(s) : (s \o t)[i] = s[i]
           /\ \A i \in 1 .. Len(t) : (s \o t)[Len(s) + i] = t[i]
  <1>1. \A i \in 1 .. Len(s) : (s \o t)[i] = s[i]
    OBVIOUS
  <1>2. \A i \in 1 .. Len(t) : (s \o t)[Len(s) + i] = t[i]
    OBVIOUS
  <1>3. s \o t \in Seq(Task) /\ Len(s \o t) = Len(s) + Len(t)
    BY ConcatProperties
  <1> QED
    BY <1>1, <1>2, <1>3

LEMMA WaitingType == TypeOK => Waiting \in Seq(Task)
  BY ConcatProperties DEF TypeOK, Waiting

\* A new task is the last of those that wait.
LEMMA OrderedAppend ==
    ASSUME NEW w \in Seq(Task), NEW t \in Task,
           NEW last \in Int, last < t.id, Ordered(w, last, t.id)
    PROVE  Ordered(Append(w, t), last, t.id + 1)
  <1> DEFINE v == Append(w, t)
  <1>1. /\ Len(v) = Len(w) + 1 /\ Len(w) \in Nat
        /\ \A i \in 1 .. Len(w) : v[i] = w[i]
        /\ v[Len(w) + 1] = t
    BY AppendProperties, LenProperties
  <1>2. t.id \in Int /\ \A i \in 1 .. Len(w) : w[i].id \in Int
    <2>1. \A u \in Task : u.id \in Int
      BY QueueAssumption DEF Task
    <2>2. \A i \in 1 .. Len(w) : w[i] \in Task
      BY ElementOfSeq
    <2> QED
      BY <2>1, <2>2
  <1>3. \A i \in 1 .. Len(v) : i \in 1 .. Len(w) \/ i = Len(w) + 1
    BY <1>1
  <1> HIDE DEF v
  <1>4. ASSUME NEW i \in 1 .. Len(v), NEW j \in 1 .. Len(v), i < j
        PROVE  v[i].id < v[j].id
    <2>1. i \in 1 .. Len(w)
      BY <1>1, <1>4
    <2>2. CASE j \in 1 .. Len(w)
      BY <2>1, <2>2, <1>1, <1>4 DEF Ordered
    <2>3. CASE j = Len(w) + 1
      BY <2>1, <2>3, <1>1 DEF Ordered
    <2> QED
      BY <2>2, <2>3, <1>3
  <1>5. ASSUME NEW i \in 1 .. Len(v)
        PROVE  last < v[i].id /\ v[i].id < t.id + 1
    <2>1. CASE i \in 1 .. Len(w)
      BY <2>1, <1>1, <1>2 DEF Ordered
    <2>2. CASE i = Len(w) + 1
      BY <2>2, <1>1, <1>2
    <2> QED
      BY <2>1, <2>2, <1>3
  <1> QED
    BY <1>4, <1>5 DEF Ordered, v

\* The first of them is the oldest.
LEMMA OrderedTail ==
    ASSUME NEW w \in Seq(Task), w # <<>>, NEW last \in Int, NEW next \in Int,
           Ordered(w, last, next)
    PROVE  /\ Ordered(Tail(w), Head(w).id, next)
           /\ last < Head(w).id /\ Head(w).id < next
           /\ Head(w) \in Task
  <1>1. /\ Len(Tail(w)) = Len(w) - 1 /\ Len(w) \in Nat \ {0}
        /\ \A i \in 1 .. Len(Tail(w)) : Tail(w)[i] = w[i + 1]
        /\ Head(w) \in Task
    BY HeadTailProperties, EmptySeq
  <1>2. Head(w) = w[1]
    OBVIOUS
  <1>3. ASSUME NEW i \in 1 .. Len(Tail(w)), NEW j \in 1 .. Len(Tail(w)), i < j
        PROVE  Tail(w)[i].id < Tail(w)[j].id
    <2>1. i + 1 \in 1 .. Len(w) /\ j + 1 \in 1 .. Len(w) /\ i + 1 < j + 1
      BY <1>1, <1>3
    <2> QED
      BY <2>1, <1>1 DEF Ordered
  <1>4. ASSUME NEW i \in 1 .. Len(Tail(w))
        PROVE  Head(w).id < Tail(w)[i].id /\ Tail(w)[i].id < next
    <2>1. 1 \in 1 .. Len(w) /\ i + 1 \in 1 .. Len(w) /\ 1 < i + 1
      BY <1>1
    <2> QED
      BY <2>1, <1>1, <1>2 DEF Ordered
  <1>5. last < Head(w).id /\ Head(w).id < next
    BY <1>1, <1>2 DEF Ordered
  <1> QED
    BY <1>1, <1>3, <1>4, <1>5 DEF Ordered

(***************************************************************************)
(* dispatchNext: no task is lost or overtaken, no more than Workers are    *)
(* pending, and a task is left waiting only if that many are.              *)
(***************************************************************************)
LEMMA DispatchFacts ==
    ASSUME TypeOK, NEW s \in Seq(Task), NEW np \in 0 .. Workers,
           DispatchNext(s, np)
    PROVE  /\ dispatched' \in Seq(Task) /\ queued' \in Seq(Task)
           /\ dispatched' \o queued' = dispatched \o s
           /\ Len(dispatched') >= Len(dispatched)
           /\ np + Len(dispatched') - Len(dispatched) <= Workers
           /\ np + Len(dispatched') - Len(dispatched) < Workers => queued' = <<>>
           /\ np < Workers /\ s # <<>> => Len(dispatched') > Len(dispatched)
  <1> DEFINE free == Workers - np
             n    == IF Len(s) < free THEN Len(s) ELSE free
             a    == SubSeq(s, 1, n)
             b    == SubSeq(s, n + 1, Len(s))
  <1>1. Workers \in Nat /\ Len(s) \in Nat /\ dispatched \in Seq(Task)
        /\ Len(dispatched) \in Nat /\ (s # <<>> => Len(s) > 0)
    BY QueueAssumption, LenProperties, EmptySeq DEF TypeOK
  <1>2. n \in 0 .. Len(s) /\ np + n <= Workers
        /\ (np + n < Workers => n = Len(s))
        /\ (np < Workers /\ s # <<>> => n > 0)
    BY <1>1
  <1>3. dispatched' = dispatched \o a /\ queued' = b
    BY DEF DispatchNext
  <1> HIDE DEF n
  <1>4. \A i \in 1 .. Len(s) : s[i] \in Task
    BY ElementOfSeq
  <1>5. a \in Seq(Task) /\ Len(a) = n
    BY <1>1, <1>2, <1>4, SubSeqProperties
  <1>6. b \in Seq(Task) /\ (n = Len(s) => b = <<>>)
    <2>1. b \in Seq(Task)
      BY <1>1, <1>2, <1>4, SubSeqProperties
    <2>2. n = Len(s) => b = <<>>
      BY <1>1, <1>2, SubSeqEmpty
    <2> QED
      BY <2>1, <2>2
  <1>7. a \o b = s
    <2>1. 1 \in 1 .. Len(s) + 1 /\ n \in 1 - 1 .. Len(s) /\ Len(s) \in n .. Len(s)
      BY <1>1, <1>2
    <2>2. a \o b = SubSeq(s, 1, Len(s))
      BY <2>1, ConcatAdjacentSubSeq
    <2> QED
      BY <2>2, SubSeqFull
  <1> HIDE DEF a, b
  <1>8. dispatched' \in Seq(Task) /\ Len(dispatched') = Len(dispatched) + n
    BY <1>1, <1>3, <1>5, ConcatProperties
  <1>9. dispatched' \o queued' = dispatched \o s
    <2>1. (dispatched \o a) \o b = dispatched \o (a \o b)
      BY <1>1, <1>5, <1>6, TaskConcat
    <2> QED
      BY <1>3, <1>7, <2>1
  <1> QED
    BY <1>1, <1>2, <1>3, <1>6, <1>8, <1>9

\* push: the tasks go behind those that are queued.
LEMMA PushFacts ==
    ASSUME TypeOK, CapacityOK, NEW s \in Seq(Task), Push(s),
           running' = running
    PROVE  /\ dispatched' \in Seq(Task) /\ queued' \in Seq(Task)
           /\ dispatched' \o queued' = dispatched \o (queued \o s)
           /\ CapacityOK'
           /\ NPending = 0 /\ s # <<>> => NPending' # 0
  <1>1. queued \o s \in Seq(Task) /\ Workers \in Nat \ {0}
        /\ (s # <<>> => queued \o s # <<>>)
    BY ConcatProperties, ConcatEqualIffEmpty, QueueAssumption DEF TypeOK
  <1>2. NPending \in 0 .. Workers /\ DispatchNext(queued \o s, NPending)
    BY PendingNat, QueueAssumption DEF CapacityOK, Push
  <1>3. /\ dispatched' \in Seq(Task) /\ queued' \in Seq(Task)
        /\ dispatched' \o queued' = dispatched \o (queued \o s)
        /\ NPending + Len(dispatched') - Len(dispatched) <= Workers
        /\ NPending + Len(dispatched') - Len(dispatched) < Workers
               => queued' = <<>>
        /\ NPending < Workers /\ queued \o s # <<>>
               => Len(dispatched') > Len(dispatched)
    BY <1>1, <1>2, DispatchFacts
  <1>4. /\ Len(dispatched') \in Nat /\ Len(dispatched) \in Nat
        /\ Cardinality(running) \in Nat
    BY <1>3, PendingNat, LenProperties
  <1>5. NPending' = NPending + Len(dispatched') - Len(dispatched)
    BY <1>4 DEF NPending
  <1>6. IsFiniteSet(running')
    BY DEF CapacityOK
  <1> QED
    BY <1>1, <1>2, <1>3, <1>4, <1>5, <1>6 DEF CapacityOK

\* Pushing the first of the paused tasks leaves the order of all as it is.
LEMMA RefillKeepsWaiting ==
    ASSUME TypeOK, NEW s \in Seq(Task), NEW p \in Seq(Task),
           dispatched' \o queued' = dispatched \o (queued \o s),
           pausedQueue = s \o p, pausedQueue' = p
    PROVE  Waiting' = Waiting
  <1>1. dispatched \in Seq(Task) /\ queued \in Seq(Task)
        /\ dispatched \o queued \in Seq(Task)
    BY ConcatProperties DEF TypeOK
  <1>2. dispatched \o (queued \o s) = (dispatched \o queued) \o s
    BY <1>1, TaskConcat
  <1>3. ((dispatched \o queued) \o s) \o p = (dispatched \o queued) \o (s \o p)
    BY <1>1, TaskConcat
  <1> QED
    BY <1>2, <1>3 DEF Waiting

\* Steps that begin no task and create none.
LEMMA SameOrder ==
    ASSUME OrderOK, Waiting' = Waiting, nextId' = nextId,
           lastStarted' = lastStarted, running' \subseteq running
    PROVE  OrderOK'
  BY DEF OrderOK, InOrder

\* The part of the invariant that is about the tasks.
TasksOK == CapacityOK /\ OrderOK

LEMMA SameTasks ==
    ASSUME TasksOK,
           UNCHANGED <<pausedQueue, queued, dispatched, running, nextId,
                       lastStarted>>
    PROVE  TasksOK'
  BY DEF TasksOK, CapacityOK, OrderOK, InOrder, Waiting, NPending

LEMMA InvParts == IInv <=> TypeOK /\ FlagsOK /\ TasksOK /\ PauseQuiesces
  BY DEF IInv, TasksOK

-----------------------------------------------------------------------------
(***************************************************************************)
(* One lemma per operation.                                                *)
(***************************************************************************)
LEMMA InitInv == QueueInit => IInv
  <1> SUFFICES ASSUME QueueInit PROVE IInv
    OBVIOUS
  <1>1. TypeOK
    <2>1. paused \in BOOLEAN /\ idle \in BOOLEAN
      BY Zenon DEF QueueInit
    <2>2. /\ pausedQueue \in Seq(Task) /\ queued \in Seq(Task)
          /\ dispatched \in Seq(Task)
      BY EmptySeq DEF QueueInit
    <2>3. /\ idleTimer \in BOOLEAN /\ call \in CallStates /\ failed \in BOOLEAN
          /\ ffTime \in 0 .. MaxTasks /\ nextId \in 1 .. MaxTasks + 1
          /\ lastStarted \in 0 .. MaxTasks
          /\ running \subseteq Task /\ dirty \subseteq Desc
      <3>1. /\ idleTimer = FALSE /\ call = "none" /\ failed = FALSE /\ ffTime = 0
            /\ nextId = 1 /\ lastStarted = 0 /\ running = {} /\ dirty = {}
        BY Zenon DEF QueueInit
      <3>2. /\ ffTime \in 0 .. MaxTasks /\ nextId \in 1 .. MaxTasks + 1
            /\ lastStarted \in 0 .. MaxTasks
        BY <3>1, QueueAssumption
      <3>3. call \in CallStates
        BY <3>1 DEF CallStates
      <3>4. idleTimer \in BOOLEAN /\ failed \in BOOLEAN
            /\ running \subseteq Task /\ dirty \subseteq Desc
        BY <3>1, Zenon
      <3> QED
        BY <3>2, <3>3, <3>4
    <2> QED
      BY <2>1, <2>2, <2>3 DEF TypeOK
  <1>2. FlagsOK /\ PauseQuiesces
    BY DEF QueueInit, FlagsOK, PauseQuiesces
  <1>3. NPending = 0
    BY FS_EmptySet DEF QueueInit, NPending
  <1>4. CapacityOK
    BY <1>3, FS_EmptySet, QueueAssumption DEF QueueInit, CapacityOK
  <1>5. Waiting = <<>>
    BY DEF QueueInit, Waiting
  <1>6. OrderOK
    BY <1>5 DEF QueueInit, OrderOK, InOrder
  <1> QED
    BY <1>1, <1>2, <1>4, <1>6 DEF IInv

LEMMA DiscardInv ==
    ASSUME IInv, NEW d \in Desc, Enqueue(d), Discard(d)
    PROVE  IInv'
  <1>1. UNCHANGED <<paused, pausedQueue, queued, dispatched, running, idle,
                    idleTimer, call, ffTime, nextId, failed, lastStarted>>
        /\ dirty' = dirty \cup {d}
    BY DEF Enqueue, Discard
  <1>2. TypeOK'
    BY <1>1 DEF IInv, TypeOK
  <1>3. FlagsOK' /\ PauseQuiesces'
    BY <1>1 DEF IInv, FlagsOK, PauseQuiesces, NPending
  <1>4. TasksOK'
    BY <1>1, InvParts, SameTasks
  <1> QED
    BY <1>2, <1>3, <1>4, InvParts DEF TasksOK, IInv

\* enqueue: an accepted task is the last of those that wait.
LEMMA AcceptTasks ==
    ASSUME IInv, NEW d \in Desc, Enqueue(d), Accept(d)
    PROVE  /\ pausedQueue' \in Seq(Task) /\ queued' \in Seq(Task)
           /\ dispatched' \in Seq(Task) /\ idle' \in BOOLEAN
           /\ idleTimer' \in BOOLEAN
           /\ CapacityOK'
           /\ Waiting' = Append(Waiting, [id |-> nextId, desc |-> d])
  <1> DEFINE task == [id |-> nextId, desc |-> d]
  <1> USE DEF IInv
  <1>1. /\ nextId' = nextId + 1 /\ paused' = paused /\ nextId <= MaxTasks
        /\ UNCHANGED <<running, call, ffTime, failed, lastStarted>>
        /\ dirty' = dirty \cup {d}
    BY DEF Enqueue, Accept
  <1>2. task \in Task /\ task.id = nextId /\ <<task>> \in Seq(Task)
        /\ nextId \in Int /\ lastStarted \in Int
    BY <1>1, QueueAssumption DEF TypeOK, Task
  <1> HIDE DEF task
  <1>3. \/ /\ paused /\ pausedQueue' = Append(pausedQueue, task)
           /\ UNCHANGED <<queued, dispatched, idle, idleTimer>>
        \/ /\ ~paused /\ idle' = FALSE /\ idleTimer' = FALSE
           /\ Push(<<task>>) /\ pausedQueue' = pausedQueue
    BY DEF Accept, task
  <1>4. /\ pausedQueue' \in Seq(Task) /\ queued' \in Seq(Task)
        /\ dispatched' \in Seq(Task) /\ idle' \in BOOLEAN
        /\ idleTimer' \in BOOLEAN
        /\ CapacityOK' /\ Waiting' = Append(Waiting, task)
    <2>1. CASE paused
      <3>1. pausedQueue' = pausedQueue \o <<task>>
            /\ pausedQueue \in Seq(Task) /\ pausedQueue' \in Seq(Task)
        <4>1. pausedQueue' = Append(pausedQueue, task)
          BY <1>3, <2>1
        <4>2. pausedQueue \in Seq(Task)
          BY DEF TypeOK
        <4> QED
          BY <1>2, <4>1, <4>2, AppendIsConcat, AppendProperties
      <3>2. CapacityOK'
        BY <1>1, <1>3, <2>1 DEF CapacityOK, NPending
      <3>3. dispatched \o queued \in Seq(Task)
        BY ConcatProperties DEF TypeOK
      <3>4. (dispatched \o queued) \o (pausedQueue \o <<task>>)
                = Waiting \o <<task>>
        BY <1>2, <3>1, <3>3, TaskConcat DEF Waiting
      <3>5. Waiting' = Waiting \o <<task>>
        BY <1>3, <2>1, <3>1, <3>4 DEF Waiting
      <3>6. Waiting' = Append(Waiting, task)
        BY <1>2, <3>5, WaitingType, AppendIsConcat
      <3> QED
        BY <1>3, <2>1, <3>1, <3>2, <3>6 DEF TypeOK
    <2>2. CASE ~paused
      <3>1. Push(<<task>>) /\ pausedQueue = <<>> /\ pausedQueue' = <<>>
        BY <1>3, <2>2 DEF FlagsOK
      <3>2. /\ dispatched' \in Seq(Task) /\ queued' \in Seq(Task)
            /\ dispatched' \o queued' = dispatched \o (queued \o <<task>>)
            /\ CapacityOK'
        BY <1>1, <1>2, <3>1, PushFacts
      <3>3. dispatched \o (queued \o <<task>>) = (dispatched \o queued) \o <<task>>
        BY <1>2, TaskConcat DEF TypeOK
      <3>4. dispatched \o queued \in Seq(Task)
        BY ConcatProperties DEF TypeOK
      <3>5. Waiting = dispatched \o queued
        BY <3>1, <3>4, ConcatEmptySeq DEF Waiting
      <3>6. dispatched' \o queued' \in Seq(Task)
        BY <3>2, ConcatProperties
      <3>7. Waiting' = dispatched' \o queued'
        BY <3>1, <3>6, ConcatEmptySeq DEF Waiting
      <3>8. Waiting' = Append(Waiting, task)
        BY <1>2, <3>2, <3>3, <3>4, <3>5, <3>7, AppendIsConcat
      <3> QED
        BY <1>3, <2>2, <3>1, <3>2, <3>8 DEF TypeOK
    <2> QED
      BY <2>1, <2>2
  <1> QED
    BY <1>4 DEF task

LEMMA AcceptInv ==
    ASSUME IInv, NEW d \in Desc, Enqueue(d), Accept(d)
    PROVE  IInv'
  <1> DEFINE task == [id |-> nextId, desc |-> d]
  <1> USE DEF IInv
  <1>1. /\ nextId' = nextId + 1 /\ paused' = paused /\ nextId <= MaxTasks
        /\ UNCHANGED <<running, call, ffTime, failed, lastStarted>>
        /\ dirty' = dirty \cup {d}
    BY DEF Enqueue, Accept
  <1>2. task \in Task /\ task.id = nextId /\ <<task>> \in Seq(Task)
        /\ nextId \in Int /\ lastStarted \in Int
    BY <1>1, QueueAssumption DEF TypeOK, Task
  <1> HIDE DEF task
  <1>3. \/ /\ paused /\ pausedQueue' = Append(pausedQueue, task)
           /\ UNCHANGED <<queued, dispatched, idle, idleTimer>>
        \/ /\ ~paused /\ idle' = FALSE /\ idleTimer' = FALSE
           /\ Push(<<task>>) /\ pausedQueue' = pausedQueue
    BY DEF Accept, task
  <1>4. /\ pausedQueue' \in Seq(Task) /\ queued' \in Seq(Task)
        /\ dispatched' \in Seq(Task) /\ idle' \in BOOLEAN
        /\ idleTimer' \in BOOLEAN
        /\ CapacityOK' /\ Waiting' = Append(Waiting, task)
    BY AcceptTasks DEF task
  <1>5. TypeOK'
    BY <1>1, <1>2, <1>4, QueueAssumption DEF TypeOK
  <1>6. FlagsOK'
    BY <1>1, <1>3 DEF FlagsOK
  <1>7. OrderOK'
    <2>1. Ordered(Waiting, lastStarted, nextId) /\ lastStarted < nextId
      BY DEF OrderOK, InOrder, Ordered
    <2>2. Ordered(Append(Waiting, task), lastStarted, nextId + 1)
      BY <1>2, <2>1, WaitingType, OrderedAppend
    <2>3. InOrder'
      BY <1>1, <1>4, <2>2 DEF Ordered, InOrder
    <2> QED
      BY <1>1, <1>2, <2>1, <2>3 DEF OrderOK
  <1>8. PauseQuiesces'
    BY <1>1, <1>3 DEF PauseQuiesces, FlagsOK, NPending
  <1> QED
    BY <1>4, <1>5, <1>6, <1>7, <1>8

\* The worker is called for the first of the tasks that wait.
LEMMA StartTasks ==
    ASSUME TypeOK, Start
    PROVE  /\ Waiting # <<>> /\ Head(Waiting) = Head(dispatched)
           /\ Waiting' = Tail(Waiting)
  <1>1. /\ dispatched # <<>> /\ dispatched' = Tail(dispatched)
        /\ UNCHANGED <<pausedQueue, queued>>
    BY DEF Start
  <1>2. /\ dispatched \in Seq(Task) /\ queued \in Seq(Task)
        /\ pausedQueue \in Seq(Task)
    BY DEF TypeOK
  <1> QED
    BY <1>1, <1>2 DEF Waiting

LEMMA StartInv == ASSUME IInv, Start PROVE IInv'
  <1> DEFINE t == Head(dispatched)
  <1> USE DEF IInv
  <1>1. /\ dispatched # <<>> /\ dispatched' = Tail(dispatched)
        /\ running' = running \cup {t} /\ lastStarted' = t.id
        /\ dirty' \subseteq dirty
        /\ UNCHANGED <<paused, pausedQueue, queued, idle, idleTimer, call,
                       ffTime, nextId, failed>>
    BY DEF Start
  <1>2. /\ dispatched \in Seq(Task) /\ queued \in Seq(Task)
        /\ pausedQueue \in Seq(Task)
    BY DEF TypeOK
  <1>3. /\ t \in Task /\ Tail(dispatched) \in Seq(Task)
        /\ Len(Tail(dispatched)) = Len(dispatched) - 1
        /\ Len(dispatched) \in Nat
    BY <1>1, <1>2, HeadTailProperties, LenProperties
  <1>4. Waiting # <<>> /\ Head(Waiting) = t /\ Waiting' = Tail(Waiting)
    BY StartTasks
  <1>5. /\ Ordered(Tail(Waiting), t.id, nextId)
        /\ lastStarted < t.id /\ t.id < nextId
    <2>1. Ordered(Waiting, lastStarted, nextId)
      BY DEF OrderOK, InOrder, Ordered
    <2>2. lastStarted \in Int /\ nextId \in Int
      BY QueueAssumption DEF TypeOK
    <2> QED
      BY <1>4, <2>1, <2>2, WaitingType, OrderedTail
  <1>6. \A u \in Task : u.id \in 1 .. MaxTasks
    BY DEF Task
  <1> HIDE DEF t
  <1>7. TypeOK'
    BY <1>1, <1>3, <1>6, QueueAssumption DEF TypeOK
  <1>8. FlagsOK'
    BY <1>1 DEF FlagsOK
  <1>9. t \notin running
    BY <1>3, <1>5, <1>6, QueueAssumption DEF OrderOK, TypeOK
  <1>10. IsFiniteSet(running') /\ NPending' = NPending /\ NPending \in Nat
    <2>1. /\ IsFiniteSet(running')
          /\ Cardinality(running') = Cardinality(running) + 1
          /\ Cardinality(running) \in Nat
      BY <1>1, <1>9, FS_AddElement, FS_CardinalityType DEF CapacityOK
    <2> QED
      BY <1>1, <1>3, <2>1 DEF NPending
  <1>11. CapacityOK' /\ PauseQuiesces'
    BY <1>1, <1>10 DEF CapacityOK, PauseQuiesces
  <1>12. OrderOK'
    <2>1. InOrder' /\ lastStarted' < nextId'
      BY <1>1, <1>4, <1>5 DEF InOrder, Ordered
    <2>2. \A u \in running' : u.id <= lastStarted'
      BY <1>1, <1>3, <1>5, <1>6, QueueAssumption DEF OrderOK, TypeOK
    <2> QED
      BY <2>1, <2>2 DEF OrderOK
  <1> QED
    BY <1>7, <1>8, <1>11, <1>12

\* The end of a task: another one may be dispatched, none begins.
LEMMA FinishTasks ==
    ASSUME IInv, NEW t \in running, Finish(t)
    PROVE  /\ dispatched' \in Seq(Task) /\ queued' \in Seq(Task)
           /\ CapacityOK' /\ Waiting' = Waiting
           /\ NPending \in Nat \ {0}
           /\ NPending = 1 /\ queued = <<>> => NPending' = 0
  <1> USE DEF IInv
  <1>1. running' = running \ {t} /\ pausedQueue' = pausedQueue
    BY DEF Finish
  <1>2. /\ IsFiniteSet(running') /\ Cardinality(running) \in Nat
        /\ Cardinality(running') = Cardinality(running) - 1
        /\ Len(dispatched) \in Nat
    BY <1>1, FS_RemoveElement, PendingNat DEF CapacityOK
  <1>3. NPending \in Nat \ {0}
    <2>1. Cardinality(running) # 0
      BY FS_EmptySet DEF CapacityOK
    <2> QED
      BY <1>2, <2>1 DEF NPending
  <1>4. CASE NPending = 1 /\ queued = <<>>
    <2>1. UNCHANGED <<queued, dispatched>>
      BY <1>4 DEF Finish
    <2>2. NPending' = 0
      BY <1>2, <1>4, <2>1 DEF NPending
    <2>3. CapacityOK'
      BY <1>2, <1>4, <2>1, <2>2, QueueAssumption DEF CapacityOK
    <2> QED
      BY <1>1, <1>3, <2>1, <2>2, <2>3 DEF Waiting, TypeOK
  <1>5. CASE ~(NPending = 1 /\ queued = <<>>)
    <2>1. DispatchNext(queued, NPending - 1)
      BY <1>5 DEF Finish
    <2>2. NPending - 1 \in 0 .. Workers
      BY <1>3, QueueAssumption DEF CapacityOK
    <2>3. /\ dispatched' \in Seq(Task) /\ queued' \in Seq(Task)
          /\ dispatched' \o queued' = dispatched \o queued
          /\ NPending - 1 + Len(dispatched') - Len(dispatched) <= Workers
          /\ NPending - 1 + Len(dispatched') - Len(dispatched) < Workers
                 => queued' = <<>>
      BY <2>1, <2>2, DispatchFacts DEF TypeOK
    <2>4. NPending' = NPending - 1 + Len(dispatched') - Len(dispatched)
      BY <1>2, <2>3, LenProperties DEF NPending
    <2>5. CapacityOK'
      BY <1>2, <2>3, <2>4 DEF CapacityOK
    <2> QED
      BY <1>1, <1>3, <1>5, <2>3, <2>5 DEF Waiting
  <1> QED
    BY <1>4, <1>5

LEMMA FinishInv ==
    ASSUME IInv, NEW t \in running, Finish(t)
    PROVE  IInv'
  <1> USE DEF IInv
  <1>1. /\ running' = running \ {t}
        /\ UNCHANGED <<paused, pausedQueue, ffTime, nextId, dirty, lastStarted>>
    BY DEF Finish
  <1>2. /\ dispatched' \in Seq(Task) /\ queued' \in Seq(Task)
        /\ CapacityOK' /\ Waiting' = Waiting
        /\ NPending \in Nat \ {0}
        /\ NPending = 1 /\ queued = <<>> => NPending' = 0
    BY FinishTasks
  <1>3. CASE NPending = 1 /\ queued = <<>>
    <2>1. QueueOnDrain /\ OnDrain /\ UNCHANGED <<queued, dispatched>>
      BY <1>3 DEF Finish
    <2>2. NPending' = 0
      BY <1>2, <1>3
    <2>3. FlagsOK' /\ idle' \in BOOLEAN /\ idleTimer' \in BOOLEAN
          /\ failed' = FALSE
      <3>1. /\ failed' = failed /\ idle' \in BOOLEAN /\ idleTimer' \in BOOLEAN
            /\ ~(idle' /\ idleTimer') /\ (paused => ~idle' /\ ~idleTimer')
        <4>1. CASE paused
          BY <2>1, <4>1 DEF QueueOnDrain, FlagsOK, TypeOK
        <4>2. CASE ~paused /\ ~IdleDelay
          <5>1. idleTimer' = FALSE /\ EmitIdle(FALSE, FALSE)
            BY <2>1, <4>2 DEF QueueOnDrain
          <5>2. idle' = TRUE /\ failed' = failed
            BY <5>1 DEF EmitIdle
          <5> QED
            BY <4>2, <5>1, <5>2
        <4>3. CASE ~paused /\ IdleDelay
          BY <2>1, <4>3 DEF QueueOnDrain
        <4> QED
          BY <4>1, <4>2, <4>3
      <3>2. call' \in {"pausing", "paused", "forwarding", "forwarded"} => paused
        BY <2>1 DEF OnDrain, FlagsOK
      <3> QED
        BY <1>1, <3>1, <3>2 DEF FlagsOK, TypeOK
    <2>4. call' \in CallStates
      BY <2>1 DEF OnDrain, CallStates, TypeOK
    <2>5. TypeOK'
      BY <1>1, <2>1, <2>3, <2>4 DEF TypeOK
    <2>8. OrderOK'
      BY <1>1, <1>2, SameOrder
    <2>9. PauseQuiesces'
      BY <1>3, <2>1, <2>2 DEF PauseQuiesces
    <2> QED
      BY <1>2, <2>3, <2>5, <2>8, <2>9
  <1>4. CASE ~(NPending = 1 /\ queued = <<>>)
    <2>1. /\ DispatchNext(queued, NPending - 1)
          /\ UNCHANGED <<idle, idleTimer, failed, call>>
      BY <1>4 DEF Finish
    <2>6. TypeOK'
      BY <1>1, <1>2, <2>1 DEF TypeOK
    <2>7. FlagsOK'
      BY <1>1, <2>1 DEF FlagsOK
    <2>9. OrderOK'
      BY <1>1, <1>2, SameOrder
    <2>10. PauseQuiesces'
      <3>1. call # "paused"
        BY <1>2 DEF PauseQuiesces
      <3> QED
        BY <2>1, <3>1 DEF PauseQuiesces
    <2> QED
      BY <1>2, <2>6, <2>7, <2>9, <2>10
  <1> QED
    BY <1>3, <1>4

LEMMA IdleTimeoutInv == ASSUME IInv, IdleTimeout PROVE IInv'
  <1> USE DEF IInv
  <1>1. /\ idleTimer /\ idleTimer' = FALSE /\ EmitIdle(idle, FALSE)
        /\ UNCHANGED <<paused, pausedQueue, queued, dispatched, running, call,
                       ffTime, nextId, dirty, lastStarted>>
    BY DEF IdleTimeout
  <1>2. ~idle /\ ~paused /\ idle' = TRUE /\ failed' = failed
    BY <1>1 DEF FlagsOK, EmitIdle
  <1>3. TypeOK'
    BY <1>1, <1>2 DEF TypeOK
  <1>4. FlagsOK' /\ PauseQuiesces'
    BY <1>1, <1>2 DEF FlagsOK, PauseQuiesces, NPending
  <1>5. TasksOK'
    BY <1>1, InvParts, SameTasks
  <1> QED
    BY <1>3, <1>4, <1>5 DEF TasksOK

LEMMA PauseInv == ASSUME IInv, Pause PROVE IInv'
  <1> USE DEF IInv
  <1>1. /\ ~paused /\ paused' = TRUE /\ idle' = FALSE /\ idleTimer' = FALSE
        /\ call' = IF NPending = 0 THEN "paused" ELSE "pausing"
        /\ UNCHANGED <<failed, pausedQueue, queued, dispatched, running, ffTime,
                       nextId, dirty, lastStarted>>
    BY DEF Pause, PauseQueue
  <1>2. TypeOK'
    BY <1>1 DEF TypeOK, CallStates
  <1>3. FlagsOK'
    BY <1>1 DEF FlagsOK
  <1>4. TasksOK'
    BY <1>1, InvParts, SameTasks
  <1>5. PauseQuiesces'
    <2>1. NPending' = NPending /\ queued' = queued
      BY <1>1 DEF NPending
    <2>2. NPending = 0 => queued = <<>>
      BY QueueAssumption DEF CapacityOK
    <2> QED
      BY <1>1, <2>1, <2>2 DEF PauseQuiesces
  <1> QED
    BY <1>2, <1>3, <1>4, <1>5 DEF TasksOK

\* resume of a paused queue: the paused tasks keep their places.
LEMMA ResumeTasks ==
    ASSUME IInv, paused, ResumeQueue,
           UNCHANGED <<running, idleTimer, ffTime, nextId, dirty, lastStarted>>
    PROVE  /\ ~idle /\ ~idleTimer /\ ~idleTimer' /\ paused' = FALSE
           /\ pausedQueue' = <<>> /\ pausedQueue' \in Seq(Task)
           /\ failed' = failed /\ idle' \in BOOLEAN
           /\ queued' \in Seq(Task) /\ dispatched' \in Seq(Task)
           /\ CapacityOK' /\ Waiting' = Waiting
           /\ idle' => UNCHANGED <<pausedQueue, queued, dispatched>>
  <1> USE DEF IInv
  <1>1. ~idle /\ ~idleTimer /\ ~idleTimer' /\ paused' = FALSE
    BY DEF FlagsOK, ResumeQueue
  <1>2. /\ pausedQueue' = <<>> /\ pausedQueue' \in Seq(Task)
        /\ failed' = failed /\ idle' \in BOOLEAN
        /\ queued' \in Seq(Task) /\ dispatched' \in Seq(Task)
        /\ CapacityOK' /\ Waiting' = Waiting
        /\ idle' => UNCHANGED <<pausedQueue, queued, dispatched>>
    <2>1. CASE pausedQueue = <<>>
      <3>1. UNCHANGED <<pausedQueue, queued, dispatched>>
            /\ idle' = TRUE /\ failed' = failed
        BY <1>1, <2>1 DEF ResumeQueue, EmitIdle
      <3> QED
        BY <2>1, <3>1 DEF CapacityOK, NPending, Waiting, TypeOK
    <2>2. CASE pausedQueue # <<>>
      <3>1. /\ Push(pausedQueue) /\ pausedQueue' = <<>>
            /\ idle' = idle /\ failed' = failed
        BY <1>1, <2>2 DEF ResumeQueue
      <3>2. pausedQueue \in Seq(Task) /\ <<>> \in Seq(Task)
            /\ pausedQueue = pausedQueue \o <<>>
        BY ConcatEmptySeq, EmptySeq DEF TypeOK
      <3>3. /\ dispatched' \in Seq(Task) /\ queued' \in Seq(Task)
            /\ dispatched' \o queued' = dispatched \o (queued \o pausedQueue)
            /\ CapacityOK'
        BY <3>1, <3>2, PushFacts
      <3>4. Waiting' = Waiting
        BY <3>1, <3>2, <3>3, RefillKeepsWaiting
      <3> QED
        BY <1>1, <3>1, <3>2, <3>3, <3>4 DEF TypeOK
    <2> QED
      BY <2>1, <2>2
  <1> QED
    BY <1>1, <1>2

LEMMA ResumeInv ==
    ASSUME IInv, paused, ResumeQueue, call' \in {"none", "pauseFailed"},
           UNCHANGED <<running, idleTimer, ffTime, nextId, dirty, lastStarted>>
    PROVE  IInv'
  <1> USE DEF IInv
  <1>1. ~idle /\ ~idleTimer /\ ~idleTimer' /\ paused' = FALSE
    BY ResumeTasks
  <1>2. /\ pausedQueue' = <<>> /\ pausedQueue' \in Seq(Task)
        /\ failed' = failed /\ idle' \in BOOLEAN
        /\ queued' \in Seq(Task) /\ dispatched' \in Seq(Task)
        /\ CapacityOK' /\ Waiting' = Waiting
    BY ResumeTasks
  <1>3. TypeOK'
    BY <1>1, <1>2 DEF TypeOK, CallStates
  <1>4. FlagsOK'
    BY <1>1, <1>2 DEF FlagsOK
  <1>5. OrderOK'
    BY <1>2, SameOrder
  <1>6. PauseQuiesces'
    BY DEF PauseQuiesces
  <1> QED
    BY <1>2, <1>3, <1>4, <1>5, <1>6

\* push of nothing: a worker is free only if nothing is queued.
LEMMA PushNothing ==
    ASSUME IInv, Push(<<>>)
    PROVE  dispatched' = dispatched /\ queued' = queued
  <1>1. /\ queued \in Seq(Task) /\ dispatched \in Seq(Task)
        /\ Len(queued) \in Nat /\ queued \o <<>> = queued
        /\ (queued = <<>> => Len(queued) = 0)
    BY ConcatEmptySeq, LenProperties, EmptySeq DEF IInv, TypeOK
  <1>2. NPending \in Nat /\ Workers \in Nat /\ NPending <= Workers
        /\ (NPending < Workers => queued = <<>>)
    BY PendingNat, QueueAssumption DEF IInv, CapacityOK
  <1> DEFINE free == Workers - NPending
             n    == IF Len(queued) < free THEN Len(queued) ELSE free
  <1>3. n = 0
    BY <1>1, <1>2
  <1>4. /\ dispatched' = dispatched \o SubSeq(queued, 1, n)
        /\ queued' = SubSeq(queued, n + 1, Len(queued))
    BY <1>1 DEF Push, DispatchNext
  <1> HIDE DEF n
  <1>5. SubSeq(queued, 1, 0) = <<>> /\ SubSeq(queued, 1, Len(queued)) = queued
    BY <1>1, SubSeqEmpty, SubSeqFull
  <1> QED
    BY <1>1, <1>3, <1>4, <1>5, ConcatEmptySeq

\* The paused tasks are the last of those that wait.
LEMMA PausedInOrder ==
    ASSUME IInv
    PROVE  \A i, j \in 1 .. Len(pausedQueue) :
              i < j => pausedQueue[i].id < pausedQueue[j].id
  <1> DEFINE w == dispatched \o queued
  <1>1. w \in Seq(Task) /\ pausedQueue \in Seq(Task)
        /\ Len(w) \in Nat /\ Len(pausedQueue) \in Nat
    BY ConcatProperties, LenProperties DEF IInv, TypeOK
  <1>2. Waiting = w \o pausedQueue
    BY DEF Waiting
  <1> HIDE DEF w
  <1>3. /\ Len(Waiting) = Len(w) + Len(pausedQueue)
        /\ \A i \in 1 .. Len(pausedQueue) : Waiting[Len(w) + i] = pausedQueue[i]
    BY <1>1, <1>2, ConcatParts
  <1> SUFFICES ASSUME NEW i \in 1 .. Len(pausedQueue),
                      NEW j \in 1 .. Len(pausedQueue), i < j
               PROVE  pausedQueue[i].id < pausedQueue[j].id
    OBVIOUS
  <1>4. /\ Len(w) + i \in 1 .. Len(Waiting) /\ Len(w) + j \in 1 .. Len(Waiting)
        /\ Len(w) + i < Len(w) + j
    BY <1>1, <1>3
  <1> QED
    BY <1>3, <1>4 DEF IInv, OrderOK, InOrder

\* fastForward: the tasks that it pushes keep their places, and those that
\* stay behind are younger than its time.
LEMMA ForwardTasks ==
    ASSUME IInv, NEW time \in 0 .. nextId - 1, paused, DoFastForward(time)
    PROVE  /\ pausedQueue' \in Seq(Task)
           /\ dispatched' \in Seq(Task) /\ queued' \in Seq(Task)
           /\ CapacityOK' /\ Waiting' = Waiting
           /\ call' \in {"forwarded", "forwarding"}
           /\ call' = "forwarded" => UNCHANGED <<dispatched, queued, pausedQueue>>
           /\ \A i \in 1 .. Len(pausedQueue') : pausedQueue'[i].id > time
  <1> USE DEF IInv
  <1>2. PICK n \in 0 .. Len(pausedQueue) :
          /\ n < Len(pausedQueue) => pausedQueue[n + 1].id > time
          /\ pausedQueue' = SubSeq(pausedQueue, n + 1, Len(pausedQueue))
          /\ Push(SubSeq(pausedQueue, 1, n))
          /\ call' = IF n = 0 THEN "forwarded" ELSE "forwarding"
    BY DEF DoFastForward
  <1>3. /\ ffTime' = time
        /\ UNCHANGED <<paused, running, idle, idleTimer, nextId, failed, dirty,
                       lastStarted>>
    BY DEF DoFastForward
  <1> DEFINE a == SubSeq(pausedQueue, 1, n)
             b == SubSeq(pausedQueue, n + 1, Len(pausedQueue))
  <1>4. pausedQueue \in Seq(Task) /\ Len(pausedQueue) \in Nat
        /\ \A i \in 1 .. Len(pausedQueue) : pausedQueue[i] \in Task
    BY LenProperties, ElementOfSeq DEF TypeOK
  <1>5. a \in Seq(Task)
    BY <1>4, SubSeqProperties
  <1>6. b \in Seq(Task)
    BY <1>4, SubSeqProperties
  <1>7. pausedQueue = a \o b
    <2>1. 1 \in 1 .. Len(pausedQueue) + 1 /\ n \in 1 - 1 .. Len(pausedQueue)
          /\ Len(pausedQueue) \in n .. Len(pausedQueue)
      BY <1>4
    <2>2. a \o b = SubSeq(pausedQueue, 1, Len(pausedQueue))
      BY <1>4, <2>1, ConcatAdjacentSubSeq
    <2> QED
      BY <1>4, <2>2, SubSeqFull
  <1>8. pausedQueue' = b /\ Push(a)
    BY <1>2
  <1> HIDE DEF a, b
  <1>9. /\ dispatched' \in Seq(Task) /\ queued' \in Seq(Task)
        /\ dispatched' \o queued' = dispatched \o (queued \o a)
        /\ CapacityOK'
    BY <1>3, <1>5, <1>8, PushFacts
  <1>10. Waiting' = Waiting
    BY <1>5, <1>6, <1>7, <1>8, <1>9, RefillKeepsWaiting
  <1>11. ASSUME call' = "forwarded"
         PROVE  UNCHANGED <<dispatched, queued, pausedQueue>>
    <2>1. n = 0
      BY <1>2, <1>11
    <2>2. a = <<>> /\ b = pausedQueue
      BY <1>4, <2>1, SubSeqEmpty, SubSeqFull DEF a, b
    <2>3. dispatched' = dispatched /\ queued' = queued
      BY <1>8, <2>2, PushNothing
    <2> QED
      BY <1>8, <2>2, <2>3
  <1>12. \A i \in 1 .. Len(pausedQueue') : pausedQueue'[i].id > time
    <2>1. Len(b) = Len(pausedQueue) - n
          /\ \A i \in 1 .. Len(pausedQueue) - n : b[i] = pausedQueue[n + i]
      BY <1>4, SubSeqProperties DEF b
    <2>2. \A i, j \in 1 .. Len(pausedQueue) :
             i < j => pausedQueue[i].id < pausedQueue[j].id
      BY PausedInOrder
    <2>3. \A i \in 1 .. Len(pausedQueue) : pausedQueue[i].id \in Int
      BY <1>4, QueueAssumption DEF Task
    <2> SUFFICES ASSUME NEW i \in 1 .. Len(b) PROVE b[i].id > time
      BY <1>8
    <2>4. /\ n + i \in 1 .. Len(pausedQueue) /\ n + 1 \in 1 .. Len(pausedQueue)
          /\ n < Len(pausedQueue) /\ (i # 1 => n + 1 < n + i)
      BY <1>4, <2>1
    <2>5. pausedQueue[n + 1].id > time
      BY <1>2, <2>4
    <2>6. pausedQueue[n + i].id >= pausedQueue[n + 1].id
      BY <2>2, <2>3, <2>4
    <2>7. time \in Int
      BY DEF TypeOK
    <2>8. pausedQueue[n + i].id > time
      BY <2>3, <2>4, <2>5, <2>6, <2>7
    <2> QED
      BY <2>1, <2>8
  <1> QED
    BY <1>2, <1>6, <1>8, <1>9, <1>10, <1>11, <1>12

LEMMA FastForwardInv ==
    ASSUME IInv, NEW time \in 0 .. nextId - 1, FastForward(time)
    PROVE  IInv'
  <1> USE DEF IInv
  <1>1. paused /\ DoFastForward(time)
    BY DEF FastForward
  <1>2. /\ pausedQueue' \in Seq(Task)
        /\ dispatched' \in Seq(Task) /\ queued' \in Seq(Task)
        /\ CapacityOK' /\ Waiting' = Waiting
        /\ call' \in {"forwarded", "forwarding"}
    BY <1>1, ForwardTasks
  <1>3. /\ ffTime' = time
        /\ UNCHANGED <<paused, running, idle, idleTimer, nextId, failed, dirty,
                       lastStarted>>
    BY <1>1 DEF DoFastForward
  <1>11. TypeOK'
    <2>1. call' \in CallStates
      BY <1>2 DEF CallStates
    <2>2. ffTime' \in 0 .. MaxTasks
      BY <1>3, QueueAssumption DEF TypeOK
    <2> QED
      BY <1>2, <1>3, <2>1, <2>2 DEF TypeOK
  <1>12. FlagsOK'
    BY <1>1, <1>3 DEF FlagsOK
  <1>13. OrderOK'
    BY <1>2, <1>3, SameOrder
  <1>14. PauseQuiesces'
    BY <1>2 DEF PauseQuiesces
  <1> QED
    BY <1>2, <1>11, <1>12, <1>13, <1>14

LEMMA FastForwardTimeoutInv == ASSUME IInv, FastForwardTimeout PROVE IInv'
  <1> USE DEF IInv
  <1>1. /\ call' = "forwardFailed"
        /\ UNCHANGED <<paused, pausedQueue, queued, dispatched, running, idle,
                       idleTimer, ffTime, nextId, failed, dirty, lastStarted>>
    BY DEF FastForwardTimeout
  <1>2. TypeOK'
    BY <1>1 DEF TypeOK, CallStates
  <1>3. FlagsOK' /\ PauseQuiesces'
    BY <1>1 DEF FlagsOK, PauseQuiesces
  <1>4. TasksOK'
    BY <1>1, InvParts, SameTasks
  <1> QED
    BY <1>2, <1>3, <1>4 DEF TasksOK

LEMMA StutterInv == ASSUME IInv, UNCHANGED queueVars PROVE IInv'
  <1>1. UNCHANGED <<paused, pausedQueue, queued, dispatched, running, idle,
                    idleTimer, call, ffTime, nextId, failed, dirty, lastStarted>>
    BY DEF queueVars
  <1>2. TypeOK' /\ FlagsOK' /\ PauseQuiesces'
    BY <1>1 DEF IInv, TypeOK, FlagsOK, PauseQuiesces, NPending
  <1>3. TasksOK'
    BY <1>1, InvParts, SameTasks
  <1> QED
    BY <1>2, <1>3 DEF IInv, TasksOK

-----------------------------------------------------------------------------
(***************************************************************************)
(* The steps of the queue's own, taken together.                           *)
(***************************************************************************)
LEMMA QueueStepInv == ASSUME IInv, QueueStep PROVE IInv'
  <1>1. CASE \E d \in Desc : Enqueue(d)
    BY <1>1, DiscardInv, AcceptInv DEF Enqueue
  <1>2. CASE Start
    BY <1>2, StartInv
  <1>3. CASE \E t \in running : Finish(t)
    BY <1>3, FinishInv
  <1>4. CASE IdleTimeout
    BY <1>4, IdleTimeoutInv
  <1> QED
    BY <1>1, <1>2, <1>3, <1>4 DEF QueueStep

\* They neither pause nor resume the queue, and a call of the client that is
\* under way either stays so or succeeds.
LEMMA QueueStepCall ==
    ASSUME IInv, QueueStep
    PROVE  /\ paused' = paused /\ ffTime' = ffTime /\ failed' = failed
           /\ \/ call' = call
              \/ call = "pausing" /\ call' = "paused"
              \/ call = "forwarding" /\ call' = "forwarded"
  <1>0. ~failed /\ ~failed'
    BY QueueStepInv DEF IInv, FlagsOK
  <1>1. CASE \E d \in Desc : Enqueue(d)
    BY <1>1 DEF Enqueue, Discard, Accept
  <1>2. CASE Start
    BY <1>2 DEF Start
  <1>3. CASE \E t \in running : Finish(t)
    <2>1. PICK t \in running : Finish(t)
      BY <1>3
    <2>2. paused' = paused /\ ffTime' = ffTime /\ (OnDrain \/ call' = call)
      BY <2>1 DEF Finish
    <2>3. failed' = failed
      BY <1>0, QueueStepInv DEF IInv, TypeOK
    <2> QED
      BY <2>2, <2>3 DEF OnDrain
  <1>4. CASE IdleTimeout
    <2>1. failed' = failed
      BY <1>0, QueueStepInv DEF IInv, TypeOK
    <2> QED
      BY <1>4, <2>1 DEF IdleTimeout
  <1> QED
    BY <1>1, <1>2, <1>3, <1>4 DEF QueueStep

\* Nothing runs and nothing is queued to run.
Quiet == NPending = 0 /\ queued = <<>>

LEMMA QuietNothing == ASSUME IInv, Quiet PROVE dispatched = <<>> /\ running = {}
  BY PendingNat DEF IInv, Quiet

\* A paused queue that has called back stays quiet, and one that has not calls
\* back when it becomes quiet.
LEMMA QueueStepQuiet ==
    ASSUME IInv, QueueStep, paused, CanCall => Quiet
    PROVE  CanCall' => Quiet'
  <1>1. CASE \E d \in Desc : Enqueue(d)
    <2>1. PICK d \in Desc : Enqueue(d)
      BY <1>1
    <2>2. UNCHANGED <<call, running, queued, dispatched>>
      BY <2>1 DEF Enqueue, Discard, Accept
    <2> QED
      BY <2>2 DEF CanCall, Quiet, NPending
  <1>2. CASE Start
    <2>1. dispatched # <<>> /\ call' = call
      BY <1>2 DEF Start
    <2> QED
      BY <2>1, QuietNothing DEF CanCall
  <1>3. CASE \E t \in running : Finish(t)
    <2>1. PICK t \in running : Finish(t)
      BY <1>3
    <2>2. CASE NPending = 1 /\ queued = <<>>
      <3>1. NPending' = 0
        BY <2>1, <2>2, FinishTasks
      <3>2. queued' = queued
        BY <2>1, <2>2 DEF Finish
      <3> QED
        BY <2>2, <3>1, <3>2 DEF Quiet
    <2>3. CASE ~(NPending = 1 /\ queued = <<>>)
      <3>1. call' = call
        BY <2>1, <2>3 DEF Finish
      <3> QED
        BY <3>1, QuietNothing DEF CanCall
    <2> QED
      BY <2>2, <2>3
  <1>4. CASE IdleTimeout
    BY <1>4 DEF IInv, FlagsOK, IdleTimeout
  <1> QED
    BY <1>1, <1>2, <1>3, <1>4 DEF QueueStep

\* The tasks that a fast-forward has left behind are younger than its time.
ForwardOK ==
    /\ ffTime < nextId
    /\ call \in {"forwarding", "forwarded"} =>
          \A i \in 1 .. Len(pausedQueue) : pausedQueue[i].id > ffTime

LEMMA QueueStepForward == ASSUME IInv, ForwardOK, QueueStep PROVE ForwardOK'
  <1>0. nextId \in Int /\ ffTime \in Int /\ nextId' \in Int
    BY QueueStepInv, QueueAssumption DEF IInv, TypeOK
  <1>1. CASE \E d \in Desc : Enqueue(d)
    <2>1. PICK d \in Desc : Enqueue(d)
      BY <1>1
    <2>2. ffTime' = ffTime /\ call' = call
      BY <2>1 DEF Enqueue
    <2>3. \/ UNCHANGED <<nextId, pausedQueue>>
          \/ nextId' = nextId + 1 /\ UNCHANGED pausedQueue
          \/ /\ nextId' = nextId + 1
             /\ pausedQueue' = Append(pausedQueue, [id |-> nextId, desc |-> d])
      BY <2>1 DEF Enqueue, Discard, Accept
    <2>4. CASE pausedQueue' = Append(pausedQueue, [id |-> nextId, desc |-> d])
      <3> DEFINE task == [id |-> nextId, desc |-> d]
      <3>1. pausedQueue \in Seq(Task) /\ Len(pausedQueue) \in Nat
        BY LenProperties DEF IInv, TypeOK
      <3>2. task.id = nextId
        OBVIOUS
      <3>3. pausedQueue' = Append(pausedQueue, task)
        BY <2>4
      <3> HIDE DEF task
      <3>4. /\ Len(pausedQueue') = Len(pausedQueue) + 1
            /\ \A i \in 1 .. Len(pausedQueue) : pausedQueue'[i] = pausedQueue[i]
            /\ pausedQueue'[Len(pausedQueue) + 1] = task
        BY <3>1, <3>3
      <3>5. \A i \in 1 .. Len(pausedQueue') :
               i \in 1 .. Len(pausedQueue) \/ i = Len(pausedQueue) + 1
        BY <3>1, <3>4
      <3>6. ffTime' < nextId'
        BY <1>0, <2>2, <2>3 DEF ForwardOK
      <3>7. call \in {"forwarding", "forwarded"} =>
               \A i \in 1 .. Len(pausedQueue') : pausedQueue'[i].id > ffTime
        BY <1>0, <3>2, <3>4, <3>5 DEF ForwardOK
      <3> QED
        BY <2>2, <3>6, <3>7 DEF ForwardOK
    <2>5. CASE UNCHANGED pausedQueue
      BY <1>0, <2>2, <2>3, <2>5 DEF ForwardOK
    <2> QED
      BY <2>3, <2>4, <2>5
  <1>2. CASE UNCHANGED <<nextId, pausedQueue, ffTime>>
    BY <1>2, QueueStepCall DEF ForwardOK
  <1>3. CASE Start \/ IdleTimeout \/ \E t \in running : Finish(t)
    BY <1>2, <1>3 DEF Start, IdleTimeout, Finish
  <1> QED
    BY <1>1, <1>3 DEF QueueStep

\* The calls of a client that keeps to the interface.
LEMMA NextInv == ASSUME IInv, [QueueNext]_queueVars PROVE IInv'
  <1>1. CASE QueueStep
    BY <1>1, QueueStepInv
  <1>2. CASE Pause
    BY <1>2, PauseInv
  <1>3. CASE PauseTimeout
    <2>1. /\ paused /\ ResumeQueue /\ call' \in {"none", "pauseFailed"}
          /\ UNCHANGED <<running, idleTimer, ffTime, nextId, dirty, lastStarted>>
      BY <1>3 DEF PauseTimeout, IInv, FlagsOK
    <2> QED
      BY <2>1, ResumeInv
  <1>4. CASE Resume
    <2>1. /\ paused /\ ResumeQueue /\ call' \in {"none", "pauseFailed"}
          /\ UNCHANGED <<running, idleTimer, ffTime, nextId, dirty, lastStarted>>
      BY <1>4 DEF Resume, DoResume
    <2> QED
      BY <2>1, ResumeInv
  <1>5. CASE \E time \in 0 .. nextId - 1 : FastForward(time)
    BY <1>5, FastForwardInv
  <1>6. CASE FastForwardTimeout
    BY <1>6, FastForwardTimeoutInv
  <1>7. CASE UNCHANGED queueVars
    BY <1>7, StutterInv
  <1> QED
    BY <1>1, <1>2, <1>3, <1>4, <1>5, <1>6, <1>7 DEF QueueNext

(***************************************************************************)
(* Deduplication.                                                          *)
(***************************************************************************)
\* A task of the queued or of the paused ones is a task that waits.
LEMMA QueuedWaits ==
    ASSUME IInv,
           NEW t, \/ \E i \in 1 .. Len(queued) : queued[i] = t
                  \/ \E i \in 1 .. Len(pausedQueue) : pausedQueue[i] = t
    PROVE  \E k \in 1 .. Len(Waiting) : Waiting[k] = t
  <1>1. /\ dispatched \in Seq(Task) /\ queued \in Seq(Task)
        /\ pausedQueue \in Seq(Task) /\ Len(dispatched) \in Nat
        /\ Len(queued) \in Nat /\ Len(pausedQueue) \in Nat
    BY LenProperties DEF IInv, TypeOK
  <1> DEFINE w == dispatched \o queued
  <1>2. /\ w \in Seq(Task) /\ Len(w) = Len(dispatched) + Len(queued)
        /\ \A i \in 1 .. Len(queued) : w[Len(dispatched) + i] = queued[i]
    BY <1>1, ConcatParts
  <1>3. Waiting = w \o pausedQueue
    BY DEF Waiting
  <1> HIDE DEF w
  <1>4. /\ Len(Waiting) = Len(w) + Len(pausedQueue)
        /\ \A i \in 1 .. Len(w) : Waiting[i] = w[i]
        /\ \A i \in 1 .. Len(pausedQueue) : Waiting[Len(w) + i] = pausedQueue[i]
    <2>1. w \in Seq(Task) /\ pausedQueue \in Seq(Task)
      BY <1>1, <1>2
    <2> QED
      BY <1>3, <2>1, ConcatParts
  <1>5. CASE \E i \in 1 .. Len(queued) : queued[i] = t
    <2>1. PICK i \in 1 .. Len(queued) : queued[i] = t
      BY <1>5
    <2>2. Len(dispatched) + i \in 1 .. Len(w)
          /\ Len(dispatched) + i \in 1 .. Len(Waiting)
      BY <1>1, <1>2, <1>4
    <2> QED
      BY <1>2, <1>4, <2>1, <2>2
  <1>6. CASE \E i \in 1 .. Len(pausedQueue) : pausedQueue[i] = t
    <2>1. PICK i \in 1 .. Len(pausedQueue) : pausedQueue[i] = t
      BY <1>6
    <2>2. Len(w) + i \in 1 .. Len(Waiting)
      BY <1>1, <1>2, <1>4
    <2> QED
      BY <1>4, <2>1, <2>2
  <1> QED
    BY <1>5, <1>6

LEMMA SameWork ==
    ASSUME NoLostWork, Waiting' = Waiting, dirty' = dirty
    PROVE  NoLostWork'
  BY DEF NoLostWork

LEMMA EnqueueWork ==
    ASSUME IInv, NoLostWork, NEW d \in Desc, Enqueue(d)
    PROVE  NoLostWork'
  <1>1. dirty' = dirty \cup {d}
    BY DEF Enqueue
  <1>2. CASE Discard(d)
    <2>1. Waiting' = Waiting
      BY <1>2 DEF Discard, Waiting
    <2>2. \E i \in 1 .. Len(Waiting) : Waiting[i].desc = d
      <3>1. \/ \E i \in 1 .. Len(queued) : queued[i].desc = d
            \/ \E i \in 1 .. Len(pausedQueue) : pausedQueue[i].desc = d
        BY <1>2 DEF Discard, IsDuplicate
      <3>2. PICK t : /\ t.desc = d
                     /\ \/ \E i \in 1 .. Len(queued) : queued[i] = t
                        \/ \E i \in 1 .. Len(pausedQueue) : pausedQueue[i] = t
        BY <3>1
      <3>3. \E k \in 1 .. Len(Waiting) : Waiting[k] = t
        BY <3>2, QueuedWaits
      <3> QED
        BY <3>2, <3>3
    <2> QED
      BY <1>1, <2>1, <2>2 DEF NoLostWork
  <1>3. CASE Accept(d)
    <2> DEFINE task == [id |-> nextId, desc |-> d]
    <2>1. Waiting' = Append(Waiting, task) /\ task.desc = d
      BY <1>3, AcceptTasks
    <2> HIDE DEF task
    <2>2. Waiting \in Seq(Task) /\ Len(Waiting) \in Nat
      BY WaitingType, LenProperties DEF IInv
    <2>3. /\ Len(Waiting') = Len(Waiting) + 1
          /\ \A i \in 1 .. Len(Waiting) : Waiting'[i] = Waiting[i]
          /\ Waiting'[Len(Waiting) + 1] = task
      BY <2>1, <2>2
    <2>4. /\ Len(Waiting) + 1 \in 1 .. Len(Waiting')
          /\ \A i \in 1 .. Len(Waiting) : i \in 1 .. Len(Waiting')
      BY <2>2, <2>3
    <2> QED
      BY <1>1, <2>1, <2>3, <2>4 DEF NoLostWork
  <1> QED
    BY <1>2, <1>3 DEF Enqueue

LEMMA StartWork == ASSUME IInv, NoLostWork, Start PROVE NoLostWork'
  <1>1. dirty' = dirty \ {Head(dispatched).desc}
    BY DEF Start
  <1>2. Waiting \in Seq(Task) /\ Waiting # <<>> /\ Waiting' = Tail(Waiting)
        /\ Head(Waiting) = Head(dispatched)
    BY StartTasks, WaitingType DEF IInv
  <1>3. /\ Len(Waiting) \in Nat \ {0} /\ Len(Waiting') = Len(Waiting) - 1
        /\ \A i \in 1 .. Len(Waiting') : Waiting'[i] = Waiting[i + 1]
        /\ Waiting[1] = Head(dispatched)
    BY <1>2, HeadTailProperties, EmptySeq
  <1> SUFFICES ASSUME NEW d \in dirty, d # Head(dispatched).desc
               PROVE  \E i \in 1 .. Len(Waiting') : Waiting'[i].desc = d
    BY <1>1 DEF NoLostWork
  <1>4. PICK i \in 1 .. Len(Waiting) : Waiting[i].desc = d
    BY DEF NoLostWork
  <1>5. i # 1
    BY <1>3, <1>4
  <1>6. i - 1 \in 1 .. Len(Waiting') /\ (i - 1) + 1 = i
    BY <1>3, <1>5
  <1> QED
    BY <1>3, <1>4, <1>6

LEMMA NextWork ==
    ASSUME IInv, NoLostWork, [QueueNext]_queueVars
    PROVE  NoLostWork'
  <1>1. CASE \E d \in Desc : Enqueue(d)
    BY <1>1, EnqueueWork
  <1>2. CASE Start
    BY <1>2, StartWork
  <1>3. CASE \E t \in running : Finish(t)
    BY <1>3, FinishTasks, SameWork DEF Finish
  <1>4. CASE IdleTimeout
    BY <1>4, SameWork DEF IdleTimeout, Waiting
  <1>5. CASE Pause
    BY <1>5, SameWork DEF Pause, PauseQueue, Waiting
  <1>6. CASE PauseTimeout
    <2>1. /\ paused /\ ResumeQueue
          /\ UNCHANGED <<running, idleTimer, ffTime, nextId, dirty, lastStarted>>
      BY <1>6 DEF PauseTimeout, IInv, FlagsOK
    <2> QED
      BY <2>1, ResumeTasks, SameWork
  <1>7. CASE Resume
    <2>1. /\ paused /\ ResumeQueue
          /\ UNCHANGED <<running, idleTimer, ffTime, nextId, dirty, lastStarted>>
      BY <1>7 DEF Resume, DoResume
    <2> QED
      BY <2>1, ResumeTasks, SameWork
  <1>8. CASE \E time \in 0 .. nextId - 1 : FastForward(time)
    <2>1. PICK time \in 0 .. nextId - 1 : paused /\ DoFastForward(time)
      BY <1>8 DEF FastForward
    <2>2. dirty' = dirty
      BY <2>1 DEF DoFastForward
    <2> QED
      BY <2>1, <2>2, ForwardTasks, SameWork
  <1>9. CASE FastForwardTimeout
    BY <1>9, SameWork DEF FastForwardTimeout, Waiting
  <1>10. CASE UNCHANGED queueVars
    BY <1>10, SameWork DEF queueVars, Waiting
  <1> QED
    BY <1>1, <1>2, <1>3, <1>4, <1>5, <1>6, <1>7, <1>8, <1>9, <1>10
       DEF QueueNext, QueueStep

(***************************************************************************)
(* The promises of the header, as long as no call has timed out.           *)
(***************************************************************************)
\* A queue that is idle, or waits for the idle delay, is quiet, and so is a
\* paused one that has called back.
HeaderOK ==
    /\ ForwardOK
    /\ paused /\ CanCall => Quiet
    /\ idle \/ idleTimer => Quiet

LEMMA QueueStepIdle ==
    ASSUME IInv, QueueStep, idle \/ idleTimer => Quiet
    PROVE  idle' \/ idleTimer' => Quiet'
  <1>1. CASE \E d \in Desc : Enqueue(d)
    <2>1. \/ idle' = FALSE /\ idleTimer' = FALSE
          \/ UNCHANGED <<idle, idleTimer, running, queued, dispatched>>
      BY <1>1 DEF Enqueue, Discard, Accept
    <2> QED
      BY <2>1 DEF Quiet, NPending
  <1>2. CASE Start
    BY <1>2, QuietNothing DEF Start
  <1>3. CASE \E t \in running : Finish(t)
    <2>1. PICK t \in running : Finish(t)
      BY <1>3
    <2>2. CASE NPending = 1 /\ queued = <<>>
      BY <2>1, <2>2, FinishTasks DEF Finish, Quiet
    <2>3. CASE ~(NPending = 1 /\ queued = <<>>)
      BY <2>1, <2>3, QuietNothing DEF Finish
    <2> QED
      BY <2>2, <2>3
  <1>4. CASE IdleTimeout
    BY <1>4 DEF IdleTimeout, Quiet, NPending
  <1> QED
    BY <1>1, <1>2, <1>3, <1>4 DEF QueueStep

LEMMA NextHeader ==
    ASSUME IInv, HeaderOK, [QueueNext]_queueVars,
           call' \notin {"pauseFailed", "forwardFailed"}
    PROVE  HeaderOK'
  <1> USE DEF HeaderOK
  <1>1. CASE QueueStep
    BY <1>1, QueueStepCall, QueueStepForward, QueueStepQuiet, QueueStepIdle
  <1>2. CASE Pause
    <2>1. /\ idle' = FALSE /\ idleTimer' = FALSE
          /\ call' = IF NPending = 0 THEN "paused" ELSE "pausing"
          /\ UNCHANGED <<pausedQueue, queued, dispatched, running, ffTime, nextId>>
      BY <1>2 DEF Pause, PauseQueue
    <2>2. NPending = 0 => Quiet
      BY QueueAssumption DEF IInv, CapacityOK, Quiet
    <2> QED
      BY <2>1, <2>2 DEF ForwardOK, CanCall, Quiet, NPending
  <1>3. CASE Resume
    <2>1. /\ paused /\ CanCall /\ ResumeQueue /\ call' = "none"
          /\ UNCHANGED <<running, idleTimer, ffTime, nextId, dirty, lastStarted>>
      BY <1>3 DEF Resume, DoResume
    <2>2. /\ ~idleTimer' /\ paused' = FALSE
          /\ idle' => UNCHANGED <<pausedQueue, queued, dispatched>>
      BY <2>1, ResumeTasks
    <2> QED
      BY <2>1, <2>2 DEF ForwardOK, Quiet, NPending
  <1>4. CASE \E time \in 0 .. nextId - 1 : FastForward(time)
    <2>1. PICK time \in 0 .. nextId - 1 :
             paused /\ CanCall /\ DoFastForward(time)
      BY <1>4 DEF FastForward
    <2>2. ffTime' = time /\ UNCHANGED <<paused, running, idle, idleTimer, nextId>>
      BY <2>1 DEF DoFastForward
    <2>3. /\ call' \in {"forwarded", "forwarding"}
          /\ call' = "forwarded" => UNCHANGED <<dispatched, queued, pausedQueue>>
          /\ \A i \in 1 .. Len(pausedQueue') : pausedQueue'[i].id > time
      BY <2>1, ForwardTasks
    <2>4. time < nextId /\ ~idle /\ ~idleTimer
      BY <2>1, QueueAssumption DEF IInv, TypeOK, FlagsOK
    <2> QED
      BY <2>1, <2>2, <2>3, <2>4 DEF ForwardOK, CanCall, Quiet, NPending
  <1>5. CASE UNCHANGED queueVars
    BY <1>5 DEF queueVars, ForwardOK, CanCall, Quiet, NPending
  <1> QED
    BY <1>1, <1>2, <1>3, <1>4, <1>5
       DEF QueueNext, PauseTimeout, FastForwardTimeout

LEMMA HeaderSuffices ==
    ASSUME IInv, ~late => HeaderOK
    PROVE  HeaderPromises
  <1>1. /\ dispatched \in Seq(Task) /\ queued \in Seq(Task)
        /\ pausedQueue \in Seq(Task)
    BY DEF IInv, TypeOK
  <1>2. Quiet => Waiting = pausedQueue /\ running = {}
    BY <1>1, QuietNothing DEF Waiting, Quiet
  <1>3. ForwardCompletes
    <2> SUFFICES ASSUME call = "forwarded", ~late
                 PROVE  \A t \in Unfinished : t.id > ffTime
      BY DEF ForwardCompletes
    <2>1. Quiet /\ ForwardOK
      BY DEF IInv, FlagsOK, HeaderOK, CanCall
    <2> QED
      BY <1>2, <2>1 DEF ForwardOK, Unfinished
  <1>4. IdleMeansDrained
    <2> SUFFICES ASSUME idle, ~late PROVE Unfinished = {}
      BY DEF IdleMeansDrained
    <2>1. Quiet /\ pausedQueue = <<>>
      BY DEF IInv, FlagsOK, HeaderOK
    <2> QED
      BY <1>2, <2>1 DEF Unfinished
  <1> QED
    BY <1>3, <1>4 DEF HeaderPromises

-----------------------------------------------------------------------------
\* The invariant holds throughout: whatever the events, the calls of a client
\* that keeps to the interface, and their timeouts.
THEOREM Invariance == QueueSpec => []IInv
  BY InitInv, NextInv, PTL DEF QueueSpec

\* The fields of Queue and WorkQueue keep their types.
THEOREM TypeCorrectness == QueueSpec => []TypeOK
  <1>1. IInv => TypeOK
    BY DEF IInv
  <1> QED
    BY <1>1, Invariance, PTL

\* No assert() of queue.js throws for a client that keeps to the interface,
\* also when pause and fastForward time out.
THEOREM AssertionsHold == QueueSpec => []NoAssertionFailure
  <1>1. IInv => NoAssertionFailure
    BY DEF IInv, FlagsOK, NoAssertionFailure
  <1> QED
    BY <1>1, Invariance, PTL

\* Tasks begin in the order of their creation.
THEOREM BegunInOrder == QueueSpec => []InOrder
  <1>1. IInv => InOrder
    BY DEF IInv, OrderOK
  <1> QED
    BY <1>1, Invariance, PTL

\* Once pause has called back the queue is quiet.
THEOREM Quiescence == QueueSpec => []PauseQuiesces
  <1>1. IInv => PauseQuiesces
    BY DEF IInv
  <1> QED
    BY <1>1, Invariance, PTL

\* Deduplication never loses work: after the last enqueue of a description a
\* task with it begins, because enqueue drops an event only for one that waits.
THEOREM WorkKept == QueueSpec => []NoLostWork
  <1>1. QueueInit => NoLostWork
    BY DEF QueueInit, NoLostWork
  <1> QED
    BY <1>1, NextWork, Invariance, PTL DEF QueueSpec

\* The header of queue.js: until a pause or a fast-forward times out, 'idle' is
\* emitted only when the queue has drained, and fastForward calls back only
\* when all tasks created up to its time are complete.
THEOREM PromisesKept == MCSpec => []HeaderPromises
  <1> DEFINE J == IInv /\ (~late => HeaderOK)
  <1>1. MCInit => J
    <2> SUFFICES ASSUME MCInit PROVE HeaderOK
      BY InitInv DEF MCInit
    <2>1. /\ queued = <<>> /\ dispatched = <<>> /\ running = {}
          /\ call = "none" /\ ffTime = 0 /\ nextId = 1
      BY DEF MCInit, QueueInit
    <2>2. Quiet
      BY <2>1, FS_EmptySet DEF Quiet, NPending
    <2> QED
      BY <2>1, <2>2 DEF HeaderOK, ForwardOK
  <1>2. J /\ [MCNext]_<<queueVars, late>> => J'
    <2> SUFFICES ASSUME J, [MCNext]_<<queueVars, late>> PROVE J'
      OBVIOUS
    <2>1. IInv'
      BY NextInv DEF MCNext
    <2>2. CASE MCNext
      BY <2>1, <2>2, NextHeader DEF MCNext
    <2>3. CASE UNCHANGED <<queueVars, late>>
      BY <2>1, <2>3 DEF queueVars, HeaderOK, ForwardOK, CanCall, Quiet, NPending
    <2> QED
      BY <2>2, <2>3
  <1>3. J => HeaderPromises
    BY HeaderSuffices
  <1> QED
    BY <1>1, <1>2, <1>3, PTL DEF MCSpec
=============================================================================
