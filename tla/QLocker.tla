------------------------------- MODULE QLocker -------------------------------
(***************************************************************************)
(* node-qlocker: exclusive locks between processes by fcntl(F_SETLKW) on a *)
(* lock file, queued within a process because fcntl locks do not exclude   *)
(* the process that holds them.                                            *)
(*   src/src/node-qlocker/lib/qlocker.js                                   *)
(* vmadm, vmadmd and imgadm take them for a VM, a zone or an image.        *)
(*                                                                         *)
(* One lock file, several processes, any of which may die at any moment    *)
(* and start again.  Each callback of the file system is an action.        *)
(***************************************************************************)
EXTENDS Integers, Sequences

CONSTANTS
    Proc,        \* the processes
    NoProc,      \* not a process: nobody holds the fcntl lock
    MaxReq,      \* bound: calls of lock() by one incarnation of a process
    MaxFault     \* bound: failed system calls and crashes altogether

ASSUME LockerAssumption ==
    /\ NoProc \notin Proc
    /\ MaxReq \in Nat \ {0}
    /\ MaxFault \in Nat

VARIABLES
    state,     \* lf_state
    cbq,       \* lf_cbq: the requests that wait for their callback
    fd,        \* lf_fd is not -1
    holder,    \* lf_holder_id; 0 stands for -1
    nextId,    \* NEXT_HOLDER_ID
    op,        \* the system call whose callback the lock file waits for
    timers,    \* retry timers that have not fired
    made,      \* requests made so far
    result,    \* what each request has been told
    token,     \* holder_id in the closure of each request's unlock function
    owner,     \* external: the process that holds the fcntl lock
    faults     \* faults so far

lockfile == <<state, cbq, fd, holder, nextId, op, timers>>
vars == <<lockfile, made, result, token, owner, faults>>

Req == 1 .. MaxReq

States == {"UNLOCKED", "LOCKING", "LOCKED", "UNLOCKING"}
Ops == {"none", "open", "fcntl", "closeRetry", "closeError", "closeUnlock"}
Results == {"none", "waiting", "granted", "error", "released"}

Init ==
    /\ state = [p \in Proc |-> "UNLOCKED"]
    /\ cbq = [p \in Proc |-> <<>>]
    /\ fd = [p \in Proc |-> FALSE]
    /\ holder = [p \in Proc |-> 0]
    /\ nextId = [p \in Proc |-> 1]
    /\ op = [p \in Proc |-> "none"]
    /\ timers = [p \in Proc |-> 0]
    /\ made = [p \in Proc |-> 0]
    /\ result = [p \in Proc |-> [r \in Req |-> "none"]]
    /\ token = [p \in Proc |-> [r \in Req |-> 0]]
    /\ owner = NoProc
    /\ faults = 0

-----------------------------------------------------------------------------
\* Mutant: lockfile_dispatch does not look at the state of the lock file.
Dispatch_AnyState(p, st, q) ==
    LET go == q # <<>>
    IN  /\ cbq' = [cbq EXCEPT ![p] = q]
        /\ state' = [state EXCEPT ![p] = IF go THEN "LOCKING" ELSE st]
        /\ op' = [op EXCEPT ![p] =
                    IF go THEN "open"
                    ELSE IF st = "UNLOCKED" THEN "none" ELSE op[p]]

(***************************************************************************)
(* lockfile_dispatch and lockfile_to_locking, at the end of an action that *)
(* leaves the lock file of p in state st with the waiters q: if it is      *)
(* UNLOCKED and somebody waits, the file is opened.                        *)
(***************************************************************************)
Dispatch(p, st, q) ==
    LET go == st = "UNLOCKED" /\ q # <<>>
    IN  /\ cbq' = [cbq EXCEPT ![p] = q]
        /\ state' = [state EXCEPT ![p] = IF go THEN "LOCKING" ELSE st]
        /\ op' = [op EXCEPT ![p] =
                    IF go THEN "open"
                    ELSE IF st = "UNLOCKED" THEN "none" ELSE op[p]]

\* The first waiter is told of an error.
ReportError(p) ==
    /\ result' = [result EXCEPT ![p][Head(cbq[p])] = "error"]
    /\ Dispatch(p, "UNLOCKED", Tail(cbq[p]))

\* Mutant: the callback is put in front of the queue.
Lock_Unshift(p) ==
    /\ made[p] < MaxReq
    /\ made' = [made EXCEPT ![p] = made[p] + 1]
    /\ result' = [result EXCEPT ![p][made[p] + 1] = "waiting"]
    /\ Dispatch(p, state[p], <<made[p] + 1>> \o cbq[p])
    /\ UNCHANGED <<fd, holder, nextId, timers, token, owner, faults>>

\* exports.lock
Lock(p) ==
    /\ made[p] < MaxReq
    /\ made' = [made EXCEPT ![p] = made[p] + 1]
    /\ result' = [result EXCEPT ![p][made[p] + 1] = "waiting"]
    /\ Dispatch(p, state[p], Append(cbq[p], made[p] + 1))
    /\ UNCHANGED <<fd, holder, nextId, timers, token, owner, faults>>

Opened(p) ==
    /\ op[p] = "open"
    /\ fd' = [fd EXCEPT ![p] = TRUE]
    /\ op' = [op EXCEPT ![p] = "fcntl"]
    /\ UNCHANGED <<state, cbq, holder, nextId, timers, made, result, token,
                   owner, faults>>

OpenFailed(p) ==
    /\ op[p] = "open"
    /\ faults < MaxFault
    /\ faults' = faults + 1
    /\ ReportError(p)
    /\ UNCHANGED <<fd, holder, nextId, timers, made, token, owner>>

\* fcntl returns with the lock: __lockfdcb, lockfile_make_unlock, the callback.
\* A lock that the process itself has would not keep it waiting.
Acquired(p) ==
    /\ op[p] = "fcntl"
    /\ owner \in {NoProc, p}
    /\ owner' = p
    /\ state' = [state EXCEPT ![p] = "LOCKED"]
    /\ op' = [op EXCEPT ![p] = "none"]
    /\ nextId' = [nextId EXCEPT ![p] = nextId[p] + 1]
    /\ holder' = [holder EXCEPT ![p] = nextId[p] + 1]
    /\ token' = [token EXCEPT ![p][Head(cbq[p])] = nextId[p] + 1]
    /\ result' = [result EXCEPT ![p][Head(cbq[p])] = "granted"]
    /\ cbq' = [cbq EXCEPT ![p] = Tail(cbq[p])]
    /\ UNCHANGED <<fd, timers, made, faults>>

\* fcntl fails, with a code of RETRY_CODES or with another one: close the file.
FcntlFailed(p) ==
    /\ op[p] = "fcntl"
    /\ faults < MaxFault
    /\ faults' = faults + 1
    /\ \E c \in {"closeRetry", "closeError"} : op' = [op EXCEPT ![p] = c]
    /\ UNCHANGED <<state, cbq, fd, holder, nextId, timers, made, result, token,
                   owner>>

\* Mutant: no timer is started for the retry.
ClosedForRetry_NoTimer(p) ==
    /\ op[p] = "closeRetry"
    /\ fd' = [fd EXCEPT ![p] = FALSE]
    /\ state' = [state EXCEPT ![p] = "UNLOCKED"]
    /\ op' = [op EXCEPT ![p] = "none"]
    /\ UNCHANGED <<timers, cbq, holder, nextId, made, result, token, owner,
                   faults>>

\* __closecb after a code of RETRY_CODES: back off for RETRY_DELAY.
ClosedForRetry(p) ==
    /\ op[p] = "closeRetry"
    /\ fd' = [fd EXCEPT ![p] = FALSE]
    /\ state' = [state EXCEPT ![p] = "UNLOCKED"]
    /\ op' = [op EXCEPT ![p] = "none"]
    /\ timers' = [timers EXCEPT ![p] = timers[p] + 1]
    /\ UNCHANGED <<cbq, holder, nextId, made, result, token, owner, faults>>

\* __tocb.  A lock() in the meantime may have started another attempt.
RetryTimeout(p) ==
    /\ timers[p] > 0
    /\ timers' = [timers EXCEPT ![p] = timers[p] - 1]
    /\ Dispatch(p, state[p], cbq[p])
    /\ UNCHANGED <<fd, holder, nextId, made, result, token, owner, faults>>

\* __closecb after any other code.
ClosedForError(p) ==
    /\ op[p] = "closeError"
    /\ fd' = [fd EXCEPT ![p] = FALSE]
    /\ ReportError(p)
    /\ UNCHANGED <<holder, nextId, timers, made, token, owner, faults>>

\* Mutant: __unlock leaves lf_state as it is.
Unlock_StateKept(p, r) ==
    /\ result[p][r] \in {"granted", "released"}
    /\ holder[p] = token[p][r]
    /\ holder' = [holder EXCEPT ![p] = 0]
    /\ op' = [op EXCEPT ![p] = "closeUnlock"]
    /\ result' = [result EXCEPT ![p][r] = "released"]
    /\ UNCHANGED <<state, cbq, fd, nextId, timers, made, token, owner, faults>>

(***************************************************************************)
(* __unlock, the function handed to request r.  A client may call it again *)
(* later: it gets past the assertion only while r is the holder.           *)
(***************************************************************************)
Unlock(p, r) ==
    /\ result[p][r] \in {"granted", "released"}
    /\ holder[p] = token[p][r]
    /\ holder' = [holder EXCEPT ![p] = 0]
    /\ state' = [state EXCEPT ![p] = "UNLOCKING"]
    /\ op' = [op EXCEPT ![p] = "closeUnlock"]
    /\ result' = [result EXCEPT ![p][r] = "released"]
    /\ UNCHANGED <<cbq, fd, nextId, timers, made, token, owner, faults>>

\* External: the close of a descriptor of the file, any of them, drops the
\* lock in the kernel ...
KernelRelease(p) ==
    /\ op[p] \in {"closeRetry", "closeError", "closeUnlock"} /\ owner = p
    /\ owner' = NoProc
    /\ UNCHANGED <<lockfile, made, result, token, faults>>

\* Mutant: the close of __unlock does not dispatch the next request.
ClosedForUnlock_NoDispatch(p) ==
    /\ op[p] = "closeUnlock" /\ owner # p
    /\ fd' = [fd EXCEPT ![p] = FALSE]
    /\ state' = [state EXCEPT ![p] = "UNLOCKED"]
    /\ op' = [op EXCEPT ![p] = "none"]
    /\ UNCHANGED <<cbq, holder, nextId, timers, made, result, token, owner,
                   faults>>

\* ... and its callback comes later.
ClosedForUnlock(p) ==
    /\ op[p] = "closeUnlock" /\ owner # p
    /\ fd' = [fd EXCEPT ![p] = FALSE]
    /\ Dispatch(p, "UNLOCKED", cbq[p])
    /\ UNCHANGED <<holder, nextId, timers, made, result, token, owner, faults>>

\* The process dies and another is started: the kernel drops its lock.
Crash(p) ==
    /\ faults < MaxFault
    /\ faults' = faults + 1
    /\ state' = [state EXCEPT ![p] = "UNLOCKED"]
    /\ cbq' = [cbq EXCEPT ![p] = <<>>]
    /\ fd' = [fd EXCEPT ![p] = FALSE]
    /\ holder' = [holder EXCEPT ![p] = 0]
    /\ nextId' = [nextId EXCEPT ![p] = 1]
    /\ op' = [op EXCEPT ![p] = "none"]
    /\ timers' = [timers EXCEPT ![p] = 0]
    /\ made' = [made EXCEPT ![p] = 0]
    /\ result' = [result EXCEPT ![p] = [r \in Req |-> "none"]]
    /\ token' = [token EXCEPT ![p] = [r \in Req |-> 0]]
    /\ owner' = IF owner = p THEN NoProc ELSE owner

Callback(p) ==
    \/ Opened(p)
    \/ ClosedForRetry(p)
    \/ RetryTimeout(p)
    \/ ClosedForError(p)
    \/ KernelRelease(p)
    \/ ClosedForUnlock(p)

Next ==
    \E p \in Proc :
        \/ Lock(p)
        \/ Callback(p)
        \/ OpenFailed(p)
        \/ Acquired(p)
        \/ FcntlFailed(p)
        \/ \E r \in Req : Unlock(p, r)
        \/ Crash(p)

(***************************************************************************)
(* Fairness: system calls call back, timers fire, whoever has been granted *)
(* the lock unlocks it in the end, and the kernel does not starve a        *)
(* process that waits in F_SETLKW.  lock() need not be called, and nothing *)
(* has to fail.                                                            *)
(***************************************************************************)
Fairness ==
    \A p \in Proc :
        /\ WF_vars(Callback(p))
        /\ WF_vars(\E r \in Req : Unlock(p, r))
        /\ SF_vars(Acquired(p))

Spec == Init /\ [][Next]_vars

FairSpec == Spec /\ Fairness

-----------------------------------------------------------------------------
\* The type invariant of the lock files, the requests and the kernel's lock.
TypeOK ==
    /\ state \in [Proc -> States]
    /\ cbq \in [Proc -> Seq(Req)]
    /\ fd \in [Proc -> BOOLEAN]
    /\ holder \in [Proc -> Nat]
    /\ nextId \in [Proc -> Nat \ {0}]
    /\ op \in [Proc -> Ops]
    /\ timers \in [Proc -> Nat]
    /\ made \in [Proc -> 0 .. MaxReq]
    /\ result \in [Proc -> [Req -> Results]]
    /\ token \in [Proc -> [Req -> Nat]]
    /\ owner \in Proc \cup {NoProc}
    /\ faults \in 0 .. MaxFault

\* The lock is exclusive: at most one request, over all processes and over all
\* requests of a process, is between its callback and its unlock.
MutualExclusion ==
    \A p, q \in Proc : \A r, s \in Req :
        result[p][r] = "granted" /\ result[q][s] = "granted"
            => p = q /\ r = s

\* A process believes that it has the lock only while the kernel agrees, also
\* after a client has called an unlock function twice.
HolderHasLock ==
    \A p \in Proc : state[p] = "LOCKED" => owner = p /\ fd[p]

\* Requests of a process are answered in the order in which they were made.
AnsweredInOrder ==
    \A p \in Proc : \A r, s \in Req :
        r < s /\ result[p][r] = "waiting"
            => result[p][s] \in {"none", "waiting"}

\* No wake-up is lost: if somebody waits on a free lock file, a retry timer is
\* armed to try again.
NoLostWakeup ==
    \A p \in Proc :
        state[p] = "UNLOCKED" /\ cbq[p] # <<>> => timers[p] > 0

\* Every request is answered, in spite of failures, retries and crashes of the
\* other processes.
EveryRequestAnswered ==
    \A p \in Proc : \A r \in Req :
        result[p][r] = "waiting" ~> result[p][r] # "waiting"
=============================================================================
