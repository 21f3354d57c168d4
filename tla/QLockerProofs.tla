---------------------------- MODULE QLockerProofs ----------------------------
(***************************************************************************)
(* Proofs about QLocker: for every set of processes and every bound on     *)
(* requests and faults, the lock is exclusive, a process that believes it  *)
(* has the lock does, requests are answered in order and no wake-up of a   *)
(* waiting request is lost.                                                *)
(***************************************************************************)
EXTENDS QLocker, TLAPS

\* lf_state says which system call is under way, and a lock file that is
\* being locked has a waiter to be told of the outcome.
StateOK(st, o, q, open) ==
    /\ st = "UNLOCKED"  => o = "none"
    /\ st = "LOCKING"   =>
          /\ o \in {"open", "fcntl", "closeRetry", "closeError"}
          /\ q # <<>>
    /\ st = "LOCKED"    => o = "none"
    /\ st = "UNLOCKING" => o = "closeUnlock"
    /\ o = "fcntl" => open

\* A request that has been granted the lock holds the lock file, under a token
\* that no other request of the process was ever given.
TokenOK(st, h, n, res, tok) ==
    /\ h # 0 => st = "LOCKED"
    /\ \A r \in Req :
          /\ tok[r] <= n
          /\ res[r] = "granted" => st = "LOCKED" /\ tok[r] = h
          /\ res[r] \in {"granted", "released"} => tok[r] # 0
    /\ \A r, s \in Req : tok[r] = tok[s] /\ tok[r] # 0 => r = s

\* lf_cbq holds exactly the requests that wait, the latest ones made, in order.
QueueOK(q, m, res) ==
    /\ Len(q) <= m
    /\ \A i \in 1 .. Len(q) : q[i] = m - Len(q) + i
    /\ \A r \in Req :
          /\ r > m => res[r] = "none"
          /\ res[r] = "waiting" <=> m - Len(q) < r /\ r <= m

StateInv == \A p \in Proc : StateOK(state[p], op[p], cbq[p], fd[p])
TokenInv ==
    \A p \in Proc :
        TokenOK(state[p], holder[p], nextId[p], result[p], token[p])
QueueInv == \A p \in Proc : QueueOK(cbq[p], made[p], result[p])

\* The inductive invariant.
IInv ==
    TypeOK /\ StateInv /\ TokenInv /\ HolderHasLock /\ QueueInv /\ NoLostWakeup

-----------------------------------------------------------------------------
\* The empty lock file of a process that has just started.
LEMMA InitInv == Init => IInv
  <1> SUFFICES ASSUME Init PROVE IInv
    OBVIOUS
  <1>1. TypeOK
    BY LockerAssumption DEF Init, TypeOK, States, Ops, Results
  <1>2. ASSUME NEW p \in Proc
        PROVE  /\ state[p] = "UNLOCKED" /\ op[p] = "none" /\ cbq[p] = <<>>
               /\ holder[p] = 0 /\ nextId[p] = 1 /\ made[p] = 0
    BY DEF Init
  <1>3. ASSUME NEW p \in Proc, NEW r \in Req
        PROVE  result[p][r] = "none" /\ token[p][r] = 0
    BY DEF Init
  <1>4. StateInv
    BY <1>2 DEF StateInv, StateOK
  <1>5. TokenInv
    <2> SUFFICES ASSUME NEW p \in Proc
                 PROVE  TokenOK(state[p], holder[p], nextId[p], result[p],
                                token[p])
      BY DEF TokenInv
    <2>1. QED
      BY <1>2, <1>3 DEF TokenOK
  <1>6. QueueInv
    <2> SUFFICES ASSUME NEW p \in Proc
                 PROVE  QueueOK(cbq[p], made[p], result[p])
      BY DEF QueueInv
    <2>1. Len(cbq[p]) = 0 /\ made[p] = 0
      BY <1>2
    <2>2. \A r \in Req : r \in Nat /\ r > 0 /\ result[p][r] = "none"
      BY <1>3 DEF Req
    <2>3. QED
      BY <2>1, <2>2 DEF QueueOK
  <1>7. HolderHasLock /\ NoLostWakeup
    BY <1>2 DEF HolderHasLock, NoLostWakeup
  <1>8. QED
    BY <1>1, <1>4, <1>5, <1>6, <1>7 DEF IInv

\* What lockfile_dispatch leaves behind, at p and elsewhere.
LEMMA DispatchFacts ==
    ASSUME TypeOK, NEW p \in Proc, NEW st \in States, NEW q \in Seq(Req),
           Dispatch(p, st, q)
    PROVE  /\ cbq' \in [Proc -> Seq(Req)]
           /\ state' \in [Proc -> States]
           /\ op' \in [Proc -> Ops]
           /\ cbq'[p] = q
           /\ st = "UNLOCKED" /\ q # <<>> =>
                 state'[p] = "LOCKING" /\ op'[p] = "open"
           /\ st = "UNLOCKED" /\ q = <<>> =>
                 state'[p] = "UNLOCKED" /\ op'[p] = "none"
           /\ st # "UNLOCKED" => state'[p] = st /\ op'[p] = op[p]
           /\ \A x \in Proc \ {p} :
                 cbq'[x] = cbq[x] /\ state'[x] = state[x] /\ op'[x] = op[x]
  BY DEF TypeOK, Dispatch, States, Ops

\* While a system call of lockfile_to_locking is under way there is a first
\* waiter, and the rest of the queue is in order.
LEMMA FirstWaiter ==
    ASSUME IInv, NEW p \in Proc,
           op[p] \in {"open", "fcntl", "closeRetry", "closeError"}
    PROVE  /\ state[p] = "LOCKING"
           /\ cbq[p] # <<>>
           /\ Head(cbq[p]) \in Req
           /\ Head(cbq[p]) = made[p] - Len(cbq[p]) + 1
           /\ Tail(cbq[p]) \in Seq(Req)
           /\ Len(Tail(cbq[p])) = Len(cbq[p]) - 1
           /\ \A i \in 1 .. Len(Tail(cbq[p])) :
                 Tail(cbq[p])[i] = made[p] - Len(Tail(cbq[p])) + i
  <1>1. state[p] = "LOCKING" /\ cbq[p] # <<>>
    BY DEF IInv, TypeOK, StateInv, StateOK, States
  <1>2. cbq[p] \in Seq(Req) /\ made[p] \in Nat
    BY LockerAssumption DEF IInv, TypeOK
  <1>3. Len(cbq[p]) \in Nat /\ Len(cbq[p]) >= 1
    BY <1>1, <1>2
  <1>4. \A i \in 1 .. Len(cbq[p]) : cbq[p][i] = made[p] - Len(cbq[p]) + i
    BY DEF IInv, QueueInv, QueueOK
  <1>5. Head(cbq[p]) = cbq[p][1] /\ Head(cbq[p]) \in Req
    BY <1>1, <1>2
  <1>6. /\ Tail(cbq[p]) \in Seq(Req)
        /\ Len(Tail(cbq[p])) = Len(cbq[p]) - 1
        /\ \A i \in 1 .. Len(Tail(cbq[p])) : Tail(cbq[p])[i] = cbq[p][i + 1]
    BY <1>1, <1>2
  <1>7. Head(cbq[p]) = made[p] - Len(cbq[p]) + 1
    BY <1>2, <1>3, <1>4, <1>5
  <1>8. \A i \in 1 .. Len(Tail(cbq[p])) :
           Tail(cbq[p])[i] = made[p] - Len(Tail(cbq[p])) + i
    BY <1>2, <1>3, <1>4, <1>6
  <1>9. QED
    BY <1>1, <1>5, <1>6, <1>7, <1>8

\* A step of p that leaves the other processes alone, and does not take the
\* kernel's lock from them, preserves the invariant if p's part of it holds.
LEMMA LocalStep ==
    ASSUME IInv, NEW p \in Proc,
           TypeOK',
           \A x \in Proc \ {p} :
               /\ state'[x] = state[x] /\ op'[x] = op[x] /\ cbq'[x] = cbq[x]
               /\ fd'[x] = fd[x] /\ holder'[x] = holder[x]
               /\ nextId'[x] = nextId[x] /\ timers'[x] = timers[x]
               /\ made'[x] = made[x] /\ result'[x] = result[x]
               /\ token'[x] = token[x]
               /\ owner = x => owner' = x,
           StateOK(state'[p], op'[p], cbq'[p], fd'[p]),
           TokenOK(state'[p], holder'[p], nextId'[p], result'[p], token'[p]),
           QueueOK(cbq'[p], made'[p], result'[p]),
           state'[p] = "LOCKED" => owner' = p /\ fd'[p],
           state'[p] = "UNLOCKED" /\ cbq'[p] # <<>> => timers'[p] > 0
    PROVE  IInv'
  <1>1. StateInv'
    BY DEF IInv, StateInv
  <1>2. TokenInv'
    BY DEF IInv, TokenInv
  <1>3. QueueInv'
    BY DEF IInv, QueueInv
  <1>4. HolderHasLock'
    BY DEF IInv, HolderHasLock
  <1>5. NoLostWakeup'
    BY DEF IInv, NoLostWakeup
  <1>6. QED
    BY <1>1, <1>2, <1>3, <1>4, <1>5 DEF IInv

\* lock(): the new request joins the end of the queue.
LEMMA LockInv ==
    ASSUME IInv, NEW p \in Proc, Lock(p)
    PROVE  IInv'
  <1> DEFINE new == made[p] + 1
             q   == Append(cbq[p], new)
  <1>1. made[p] \in 0 .. MaxReq /\ made[p] < MaxReq
    BY DEF IInv, TypeOK, Lock
  <1>2. made[p] \in Nat /\ new \in Req /\ new \in 0 .. MaxReq
    BY <1>1, LockerAssumption DEF Req
  <1>3. /\ cbq[p] \in Seq(Req) /\ q \in Seq(Req) /\ q # <<>>
        /\ Len(q) = Len(cbq[p]) + 1
        /\ \A i \in 1 .. Len(q) :
              q[i] = IF i = Len(q) THEN new ELSE cbq[p][i]
    <2>1. cbq[p] \in Seq(Req)
      BY DEF IInv, TypeOK
    <2>2. QED
      BY <1>2, <2>1
  <1>4. Dispatch(p, state[p], q) /\ state[p] \in States
    BY DEF Lock, IInv, TypeOK
  <1> HIDE DEF new, q
  <1>5. TypeOK'
    <2>1. made' \in [Proc -> 0 .. MaxReq]
      BY <1>2 DEF IInv, TypeOK, Lock, new
    <2>2. result' \in [Proc -> [Req -> Results]]
      BY <1>2 DEF IInv, TypeOK, Lock, Results, new
    <2>3. QED
      BY <1>3, <1>4, <2>1, <2>2, DispatchFacts DEF IInv, TypeOK, Lock
  <1>6. \A x \in Proc \ {p} :
            /\ cbq'[x] = cbq[x] /\ state'[x] = state[x] /\ op'[x] = op[x]
            /\ made'[x] = made[x] /\ result'[x] = result[x]
    BY ZenonT(60), <1>3, <1>4, DispatchFacts DEF IInv, TypeOK, Lock
  <1>7. /\ cbq'[p] = q
        /\ state[p] = "UNLOCKED" => state'[p] = "LOCKING" /\ op'[p] = "open"
        /\ state[p] # "UNLOCKED" => state'[p] = state[p] /\ op'[p] = op[p]
    BY <1>3, <1>4, DispatchFacts DEF IInv
  <1>8. /\ made'[p] = new
        /\ \A r \in Req :
              result'[p][r] = IF r = new THEN "waiting" ELSE result[p][r]
    BY <1>2 DEF IInv, TypeOK, Lock, new
  <1>9. StateOK(state'[p], op'[p], cbq'[p], fd[p])
    BY <1>3, <1>4, <1>7 DEF IInv, StateInv, StateOK, States
  <1>10. TokenOK(state'[p], holder[p], nextId[p], result'[p], token[p])
    BY <1>7, <1>8 DEF IInv, TokenInv, TokenOK
  <1>11. QueueOK(cbq'[p], made'[p], result'[p])
    <2>1. QueueOK(cbq[p], made[p], result[p])
      BY DEF IInv, QueueInv
    <2>2. Len(cbq[p]) \in Nat
      BY <1>3
    <2>3. /\ Len(q) <= new
          /\ \A i \in 1 .. Len(q) : q[i] = new - Len(q) + i
      <3>1. Len(q) \in Nat /\ Len(q) <= new
        BY <1>2, <1>3, <2>1, <2>2 DEF QueueOK, new
      <3>2. ASSUME NEW i \in 1 .. Len(q), i # Len(q)
            PROVE  q[i] = new - Len(q) + i
        <4>1. i \in 1 .. Len(cbq[p])
          BY <1>3, <2>2, <3>1, <3>2
        <4>2. q[i] = made[p] - Len(cbq[p]) + i
          BY <1>3, <2>1, <3>2, <4>1 DEF QueueOK
        <4>3. QED
          BY <1>2, <1>3, <2>2, <4>2 DEF new
      <3>3. Len(q) # 0 => q[Len(q)] = new
        BY <1>3, <3>1
      <3>4. QED
        BY <1>2, <3>1, <3>2, <3>3
    <2>4. \A r \in Req : /\ r > new => result'[p][r] = "none"
                         /\ result'[p][r] = "waiting"
                               <=> new - Len(q) < r /\ r <= new
      <3>1. SUFFICES ASSUME NEW r \in Req
                     PROVE  /\ r > new => result'[p][r] = "none"
                            /\ result'[p][r] = "waiting"
                                  <=> new - Len(q) < r /\ r <= new
        OBVIOUS
      <3>2. /\ r \in Nat
            /\ r > made[p] => result[p][r] = "none"
            /\ result[p][r] = "waiting"
                  <=> made[p] - Len(cbq[p]) < r /\ r <= made[p]
        BY <2>1 DEF QueueOK, Req
      <3>3. /\ result'[p][r] = IF r = new THEN "waiting" ELSE result[p][r]
            /\ Len(q) = Len(cbq[p]) + 1 /\ Len(cbq[p]) <= made[p]
        BY <1>3, <1>8, <2>1 DEF QueueOK
      <3>4. QED
        BY <1>2, <2>2, <3>2, <3>3 DEF new
    <2>5. QED
      BY <1>7, <1>8, <2>3, <2>4 DEF QueueOK
  <1>12. state'[p] = "LOCKED" => owner = p /\ fd[p]
    BY <1>7 DEF IInv, HolderHasLock
  <1>13. state'[p] = "UNLOCKED" => FALSE
    BY <1>7
  <1>14. QED
    BY <1>5, <1>6, <1>9, <1>10, <1>11, <1>12, <1>13, LocalStep DEF Lock

\* The callback of open: the descriptor is there before fcntl is called.
LEMMA OpenedInv ==
    ASSUME IInv, NEW p \in Proc, Opened(p)
    PROVE  IInv'
  <1>1. state[p] = "LOCKING" /\ cbq[p] # <<>>
    BY FirstWaiter DEF Opened
  <1>2. TypeOK'
    BY DEF IInv, TypeOK, Opened, Ops
  <1>3. fd'[p] = TRUE /\ op'[p] = "fcntl"
    BY DEF IInv, TypeOK, Opened
  <1>4. \A x \in Proc \ {p} : fd'[x] = fd[x] /\ op'[x] = op[x]
    BY DEF IInv, TypeOK, Opened
  <1>5. StateOK(state[p], op'[p], cbq[p], fd'[p])
    BY <1>1, <1>3 DEF StateOK
  <1>6. /\ TokenOK(state[p], holder[p], nextId[p], result[p], token[p])
        /\ QueueOK(cbq[p], made[p], result[p])
    BY DEF IInv, TokenInv, QueueInv
  <1>7. QED
    BY <1>1, <1>2, <1>4, <1>5, <1>6, LocalStep DEF Opened

\* While the lock file is being locked no request of p has the lock.
LEMMA NotGranted ==
    ASSUME IInv, NEW p \in Proc, state[p] # "LOCKED"
    PROVE  holder[p] = 0 /\ \A r \in Req : result[p][r] # "granted"
  BY DEF IInv, TokenInv, TokenOK

\* An error ends the wait of the first request and nothing else.
LEMMA ReportErrorFacts ==
    ASSUME IInv, NEW p \in Proc, op[p] \in {"open", "closeError"},
           ReportError(p)
    PROVE  /\ result' \in [Proc -> [Req -> Results]]
           /\ cbq' \in [Proc -> Seq(Req)]
           /\ state' \in [Proc -> States]
           /\ op' \in [Proc -> Ops]
           /\ \A x \in Proc \ {p} :
                 /\ cbq'[x] = cbq[x] /\ state'[x] = state[x]
                 /\ op'[x] = op[x] /\ result'[x] = result[x]
           /\ \A open : StateOK(state'[p], op'[p], cbq'[p], open)
           /\ TokenOK(state'[p], holder[p], nextId[p], result'[p], token[p])
           /\ QueueOK(cbq'[p], made[p], result'[p])
           /\ state'[p] # "LOCKED"
           /\ state'[p] = "UNLOCKED" => cbq'[p] = <<>>
  <1> DEFINE h == Head(cbq[p])
             q == Tail(cbq[p])
  <1>1. /\ state[p] = "LOCKING" /\ h \in Req /\ q \in Seq(Req)
        /\ h = made[p] - Len(cbq[p]) + 1 /\ Len(q) = Len(cbq[p]) - 1
        /\ \A i \in 1 .. Len(q) : q[i] = made[p] - Len(q) + i
    BY FirstWaiter
  <1>2. result' = [result EXCEPT ![p][h] = "error"]
        /\ Dispatch(p, "UNLOCKED", q)
    BY DEF ReportError
  <1>3. made[p] \in Nat /\ cbq[p] \in Seq(Req) /\ "UNLOCKED" \in States
    BY LockerAssumption DEF IInv, TypeOK, States
  <1>4. Len(cbq[p]) \in Nat
    BY <1>3
  <1> HIDE DEF h, q
  <1>5. result' \in [Proc -> [Req -> Results]]
    BY <1>1, <1>2 DEF IInv, TypeOK, Results
  <1>6. \A x \in Proc \ {p} : result'[x] = result[x]
    BY <1>2 DEF IInv, TypeOK
  <1>7. \A r \in Req : result'[p][r] = IF r = h THEN "error" ELSE result[p][r]
    BY <1>1, <1>2 DEF IInv, TypeOK
  <1>8. /\ cbq' \in [Proc -> Seq(Req)]
        /\ state' \in [Proc -> States]
        /\ op' \in [Proc -> Ops]
        /\ \A x \in Proc \ {p} :
              cbq'[x] = cbq[x] /\ state'[x] = state[x] /\ op'[x] = op[x]
        /\ cbq'[p] = q
        /\ q # <<>> => state'[p] = "LOCKING" /\ op'[p] = "open"
        /\ q = <<>> => state'[p] = "UNLOCKED" /\ op'[p] = "none"
    BY <1>1, <1>2, <1>3, DispatchFacts DEF IInv
  <1>9. \A open : StateOK(state'[p], op'[p], cbq'[p], open)
    BY <1>8 DEF StateOK
  <1>10. TokenOK(state'[p], holder[p], nextId[p], result'[p], token[p])
    BY <1>1, <1>7, NotGranted DEF IInv, TokenInv, TokenOK
  <1>11. QueueOK(cbq'[p], made[p], result'[p])
    <2>1. QueueOK(cbq[p], made[p], result[p])
      BY DEF IInv, QueueInv
    <2>2. Len(q) <= made[p]
      BY <1>1, <1>3, <1>4, <2>1 DEF QueueOK
    <2>3. \A r \in Req : /\ r > made[p] => result'[p][r] = "none"
                         /\ result'[p][r] = "waiting"
                               <=> made[p] - Len(q) < r /\ r <= made[p]
      <3>1. h <= made[p]
        BY <1>1, <1>3, <1>4, FirstWaiter
      <3>2. SUFFICES ASSUME NEW r \in Req
                     PROVE  /\ r > made[p] => result'[p][r] = "none"
                            /\ result'[p][r] = "waiting"
                                  <=> made[p] - Len(q) < r /\ r <= made[p]
        OBVIOUS
      <3>3. /\ r \in Nat
            /\ r > made[p] => result[p][r] = "none"
            /\ result[p][r] = "waiting"
                  <=> made[p] - Len(cbq[p]) < r /\ r <= made[p]
        BY <2>1 DEF QueueOK, Req
      <3>4. result'[p][r] = IF r = h THEN "error" ELSE result[p][r]
        BY <1>7
      <3>5. QED
        BY <1>1, <1>3, <1>4, <3>1, <3>3, <3>4
    <2>4. QED
      BY <1>1, <1>8, <2>2, <2>3 DEF QueueOK
  <1>12. QED
    BY <1>5, <1>6, <1>8, <1>9, <1>10, <1>11

LEMMA OpenFailedInv ==
    ASSUME IInv, NEW p \in Proc, OpenFailed(p)
    PROVE  IInv'
  <1>1. ReportError(p) /\ op[p] \in {"open", "closeError"}
    BY DEF OpenFailed
  <1>2. faults' \in 0 .. MaxFault
    BY LockerAssumption DEF IInv, TypeOK, OpenFailed
  <1>3. TypeOK'
    BY <1>1, <1>2, ReportErrorFacts DEF IInv, TypeOK, OpenFailed
  <1>4. /\ \A x \in Proc \ {p} :
              /\ cbq'[x] = cbq[x] /\ state'[x] = state[x]
              /\ op'[x] = op[x] /\ result'[x] = result[x]
        /\ StateOK(state'[p], op'[p], cbq'[p], fd[p])
        /\ TokenOK(state'[p], holder[p], nextId[p], result'[p], token[p])
        /\ QueueOK(cbq'[p], made[p], result'[p])
        /\ state'[p] # "LOCKED"
        /\ state'[p] = "UNLOCKED" => cbq'[p] = <<>>
    BY <1>1, ReportErrorFacts
  <1>5. UNCHANGED <<fd, holder, nextId, timers, made, token, owner>>
    BY DEF OpenFailed
  <1>6. QED
    BY <1>3, <1>4, <1>5, LocalStep

LEMMA ClosedForErrorInv ==
    ASSUME IInv, NEW p \in Proc, ClosedForError(p)
    PROVE  IInv'
  <1>1. ReportError(p) /\ op[p] \in {"open", "closeError"}
    BY DEF ClosedForError
  <1>2. fd' \in [Proc -> BOOLEAN] /\ \A x \in Proc \ {p} : fd'[x] = fd[x]
    BY DEF IInv, TypeOK, ClosedForError
  <1>3. TypeOK'
    BY <1>1, <1>2, ReportErrorFacts DEF IInv, TypeOK, ClosedForError
  <1>4. /\ \A x \in Proc \ {p} :
              /\ cbq'[x] = cbq[x] /\ state'[x] = state[x]
              /\ op'[x] = op[x] /\ result'[x] = result[x]
        /\ StateOK(state'[p], op'[p], cbq'[p], fd'[p])
        /\ TokenOK(state'[p], holder[p], nextId[p], result'[p], token[p])
        /\ QueueOK(cbq'[p], made[p], result'[p])
        /\ state'[p] # "LOCKED"
        /\ state'[p] = "UNLOCKED" => cbq'[p] = <<>>
    BY <1>1, ReportErrorFacts
  <1>5. QED
    BY <1>2, <1>3, <1>4, LocalStep DEF ClosedForError

\* fcntl returns with the lock: the first waiter gets a fresh token.
LEMMA AcquiredInv ==
    ASSUME IInv, NEW p \in Proc, Acquired(p)
    PROVE  IInv'
  <1> DEFINE h == Head(cbq[p])
             q == Tail(cbq[p])
             n == nextId[p] + 1
  <1>1. /\ state[p] = "LOCKING" /\ h \in Req /\ q \in Seq(Req)
        /\ h = made[p] - Len(cbq[p]) + 1 /\ Len(q) = Len(cbq[p]) - 1
        /\ \A i \in 1 .. Len(q) : q[i] = made[p] - Len(q) + i
    BY FirstWaiter DEF Acquired
  <1>2. /\ made[p] \in Nat /\ cbq[p] \in Seq(Req) /\ nextId[p] \in Nat
        /\ n \in Nat \ {0} /\ fd[p] /\ owner' = p
        /\ \A r \in Req : token[p][r] \in Nat
    BY LockerAssumption DEF IInv, TypeOK, StateInv, StateOK, Acquired
  <1>3. Len(cbq[p]) \in Nat
    BY <1>2
  <1>4. /\ result' = [result EXCEPT ![p][h] = "granted"]
        /\ token' = [token EXCEPT ![p][h] = n]
        /\ cbq' = [cbq EXCEPT ![p] = q]
        /\ nextId' = [nextId EXCEPT ![p] = n]
        /\ holder' = [holder EXCEPT ![p] = n]
    BY DEF Acquired
  <1> HIDE DEF h, q, n
  <1>5. TypeOK'
    <2>1. result' \in [Proc -> [Req -> Results]]
      BY <1>1, <1>4 DEF IInv, TypeOK, Results
    <2>2. token' \in [Proc -> [Req -> Nat]]
      BY <1>1, <1>2, <1>4 DEF IInv, TypeOK
    <2>3. cbq' \in [Proc -> Seq(Req)]
      BY <1>1, <1>4 DEF IInv, TypeOK
    <2>4. holder' \in [Proc -> Nat] /\ nextId' \in [Proc -> Nat \ {0}]
      BY <1>2, <1>4 DEF IInv, TypeOK
    <2>5. state' \in [Proc -> States] /\ op' \in [Proc -> Ops]
      BY DEF IInv, TypeOK, Acquired, States, Ops
    <2>6. QED
      BY <1>2, <2>1, <2>2, <2>3, <2>4, <2>5 DEF IInv, TypeOK, Acquired
  <1>6. \A x \in Proc \ {p} :
            /\ state'[x] = state[x] /\ op'[x] = op[x] /\ cbq'[x] = cbq[x]
            /\ holder'[x] = holder[x] /\ nextId'[x] = nextId[x]
            /\ result'[x] = result[x] /\ token'[x] = token[x]
            /\ owner # x
    BY <1>4, LockerAssumption DEF IInv, TypeOK, Acquired
  <1>7. /\ state'[p] = "LOCKED" /\ op'[p] = "none" /\ cbq'[p] = q
        /\ holder'[p] = n /\ nextId'[p] = n
    BY <1>4 DEF IInv, TypeOK, Acquired
  <1>8. ASSUME NEW r \in Req
        PROVE  /\ result'[p][r] = IF r = h THEN "granted" ELSE result[p][r]
               /\ token'[p][r] = IF r = h THEN n ELSE token[p][r]
    BY <1>1, <1>4 DEF IInv, TypeOK
  <1>9. StateOK(state'[p], op'[p], cbq'[p], fd[p])
    BY <1>7 DEF StateOK
  <1>10. TokenOK(state'[p], holder'[p], nextId'[p], result'[p], token'[p])
    <2>1. TokenOK(state[p], holder[p], nextId[p], result[p], token[p])
      BY DEF IInv, TokenInv
    <2>2. \A r \in Req : /\ result[p][r] # "granted"
                         /\ token[p][r] \in Nat /\ token[p][r] < n
      BY <1>1, <1>2, <2>1, NotGranted DEF TokenOK, n
    <2>3. ASSUME NEW r \in Req
          PROVE  /\ token'[p][r] <= n
                 /\ result'[p][r] = "granted" => token'[p][r] = n
                 /\ result'[p][r] \in {"granted", "released"}
                       => token'[p][r] # 0
      BY <1>2, <1>8, <2>1, <2>2 DEF TokenOK
    <2>4. ASSUME NEW r \in Req, NEW s \in Req,
                 token'[p][r] = token'[p][s], token'[p][r] # 0
          PROVE  r = s
      BY <1>2, <1>8, <2>1, <2>2, <2>4 DEF TokenOK
    <2>5. QED
      BY <1>7, <2>3, <2>4 DEF TokenOK
  <1>11. QueueOK(cbq'[p], made[p], result'[p])
    <2>1. QueueOK(cbq[p], made[p], result[p])
      BY DEF IInv, QueueInv
    <2>2. Len(q) <= made[p] /\ h <= made[p]
      BY <1>1, <1>2, <1>3, <2>1, FirstWaiter DEF QueueOK, Acquired
    <2>3. ASSUME NEW r \in Req
          PROVE  /\ r > made[p] => result'[p][r] = "none"
                 /\ result'[p][r] = "waiting"
                       <=> made[p] - Len(q) < r /\ r <= made[p]
      <3>1. /\ r \in Nat
            /\ r > made[p] => result[p][r] = "none"
            /\ result[p][r] = "waiting"
                  <=> made[p] - Len(cbq[p]) < r /\ r <= made[p]
        BY <2>1 DEF QueueOK, Req
      <3>2. result'[p][r] = IF r = h THEN "granted" ELSE result[p][r]
        BY <1>8
      <3>3. /\ made[p] \in Nat /\ h = made[p] - Len(cbq[p]) + 1
            /\ Len(q) = Len(cbq[p]) - 1
        BY <1>1, <1>2
      <3>4. CASE r = h
        BY <1>3, <2>2, <3>1, <3>2, <3>3, <3>4
      <3>5. CASE r # h
        BY <1>3, <2>2, <3>1, <3>2, <3>3, <3>5
      <3>6. QED
        BY <3>4, <3>5
    <2>4. QED
      BY <1>1, <1>7, <2>2, <2>3 DEF QueueOK
  <1>12. UNCHANGED <<fd, timers, made>>
    BY DEF Acquired
  <1>13. QED
    BY ZenonT(60), <1>2, <1>5, <1>6, <1>7, <1>9, <1>10, <1>11, <1>12, LocalStep

LEMMA FcntlFailedInv ==
    ASSUME IInv, NEW p \in Proc, FcntlFailed(p)
    PROVE  IInv'
  <1>1. state[p] = "LOCKING" /\ cbq[p] # <<>>
    BY FirstWaiter DEF FcntlFailed
  <1>2. PICK c \in {"closeRetry", "closeError"} : op' = [op EXCEPT ![p] = c]
    BY DEF FcntlFailed
  <1>3. /\ op' \in [Proc -> Ops] /\ op'[p] \in {"closeRetry", "closeError"}
        /\ \A x \in Proc \ {p} : op'[x] = op[x]
    BY <1>2 DEF IInv, TypeOK, Ops
  <1>4. faults' \in 0 .. MaxFault
    BY LockerAssumption DEF IInv, TypeOK, FcntlFailed
  <1>5. TypeOK'
    BY <1>3, <1>4 DEF IInv, TypeOK, FcntlFailed
  <1>6. StateOK(state[p], op'[p], cbq[p], fd[p])
    BY <1>1, <1>3 DEF StateOK
  <1>7. /\ TokenOK(state[p], holder[p], nextId[p], result[p], token[p])
        /\ QueueOK(cbq[p], made[p], result[p])
    BY DEF IInv, TokenInv, QueueInv
  <1>8. QED
    BY <1>1, <1>3, <1>5, <1>6, <1>7, LocalStep DEF FcntlFailed

\* The back-off leaves the waiters on a free lock file, with a timer.
LEMMA ClosedForRetryInv ==
    ASSUME IInv, NEW p \in Proc, ClosedForRetry(p)
    PROVE  IInv'
  <1>1. state[p] = "LOCKING"
    BY FirstWaiter DEF ClosedForRetry
  <1>2. timers' \in [Proc -> Nat] /\ timers'[p] > 0
    BY DEF IInv, TypeOK, ClosedForRetry
  <1>3. TypeOK'
    BY <1>2 DEF IInv, TypeOK, ClosedForRetry, States, Ops
  <1>4. /\ state'[p] = "UNLOCKED" /\ op'[p] = "none"
        /\ \A x \in Proc \ {p} :
              /\ state'[x] = state[x] /\ op'[x] = op[x] /\ fd'[x] = fd[x]
              /\ timers'[x] = timers[x]
    BY DEF IInv, TypeOK, ClosedForRetry
  <1>5. StateOK(state'[p], op'[p], cbq[p], fd'[p])
    BY <1>4 DEF StateOK
  <1>6. TokenOK(state'[p], holder[p], nextId[p], result[p], token[p])
    BY <1>1, NotGranted DEF IInv, TokenInv, TokenOK
  <1>7. QueueOK(cbq[p], made[p], result[p])
    BY DEF IInv, QueueInv
  <1>8. QED
    BY <1>2, <1>3, <1>4, <1>5, <1>6, <1>7, LocalStep DEF ClosedForRetry

\* The retry timer: a lock file that is no longer free is left alone.
LEMMA RetryTimeoutInv ==
    ASSUME IInv, NEW p \in Proc, RetryTimeout(p)
    PROVE  IInv'
  <1>1. /\ Dispatch(p, state[p], cbq[p])
        /\ state[p] \in States /\ cbq[p] \in Seq(Req)
    BY DEF RetryTimeout, IInv, TypeOK
  <1>2. /\ cbq' \in [Proc -> Seq(Req)]
        /\ state' \in [Proc -> States]
        /\ op' \in [Proc -> Ops]
        /\ \A x \in Proc \ {p} :
              cbq'[x] = cbq[x] /\ state'[x] = state[x] /\ op'[x] = op[x]
        /\ cbq'[p] = cbq[p]
        /\ state[p] = "UNLOCKED" /\ cbq[p] # <<>> =>
              state'[p] = "LOCKING" /\ op'[p] = "open"
        /\ state[p] = "UNLOCKED" /\ cbq[p] = <<>> =>
              state'[p] = "UNLOCKED" /\ op'[p] = "none"
        /\ state[p] # "UNLOCKED" => state'[p] = state[p] /\ op'[p] = op[p]
    BY <1>1, DispatchFacts DEF IInv
  <1>3. /\ timers' \in [Proc -> Nat]
        /\ \A x \in Proc \ {p} : timers'[x] = timers[x]
    BY DEF IInv, TypeOK, RetryTimeout
  <1>4. TypeOK'
    BY <1>2, <1>3 DEF IInv, TypeOK, RetryTimeout
  <1>5. StateOK(state'[p], op'[p], cbq'[p], fd[p])
    BY <1>1, <1>2 DEF IInv, StateInv, StateOK, States
  <1>6. TokenOK(state'[p], holder[p], nextId[p], result[p], token[p])
    BY <1>2 DEF IInv, TokenInv, TokenOK
  <1>7. QueueOK(cbq'[p], made[p], result[p])
    BY <1>2 DEF IInv, QueueInv
  <1>8. state'[p] = "LOCKED" => owner = p /\ fd[p]
    BY <1>2 DEF IInv, HolderHasLock
  <1>9. state'[p] = "UNLOCKED" => cbq'[p] = <<>>
    BY <1>2
  <1>10. UNCHANGED <<fd, holder, nextId, made, result, token, owner>>
    BY DEF RetryTimeout
  <1>11. QED
    BY <1>2, <1>3, <1>4, <1>5, <1>6, <1>7, <1>8, <1>9, <1>10, LocalStep

\* unlock(): only the holder gets past the assertion, however often and by
\* whomever an unlock function is called.
LEMMA UnlockInv ==
    ASSUME IInv, NEW p \in Proc, NEW r \in Req, Unlock(p, r)
    PROVE  IInv'
  <1>1. TokenOK(state[p], holder[p], nextId[p], result[p], token[p])
    BY DEF IInv, TokenInv
  <1>2. state[p] = "LOCKED" /\ op[p] = "none"
    BY <1>1 DEF Unlock, TokenOK, IInv, StateInv, StateOK
  <1>3. TypeOK'
    <2>1. result' \in [Proc -> [Req -> Results]]
      BY DEF IInv, TypeOK, Unlock, Results
    <2>2. holder' \in [Proc -> Nat]
      BY DEF IInv, TypeOK, Unlock
    <2>3. state' \in [Proc -> States] /\ op' \in [Proc -> Ops]
      BY DEF IInv, TypeOK, Unlock, States, Ops
    <2>4. QED
      BY <2>1, <2>2, <2>3 DEF IInv, TypeOK, Unlock
  <1>4. /\ state'[p] = "UNLOCKING" /\ op'[p] = "closeUnlock"
        /\ holder'[p] = 0
        /\ \A x \in Proc \ {p} :
              /\ state'[x] = state[x] /\ op'[x] = op[x]
              /\ holder'[x] = holder[x] /\ result'[x] = result[x]
    BY DEF IInv, TypeOK, Unlock
  <1>5. ASSUME NEW s \in Req
        PROVE  result'[p][s] = IF s = r THEN "released" ELSE result[p][s]
    BY DEF IInv, TypeOK, Unlock
  <1>6. StateOK(state'[p], op'[p], cbq[p], fd[p])
    BY <1>4 DEF StateOK
  <1>7. TokenOK(state'[p], holder'[p], nextId[p], result'[p], token[p])
    <2>1. result[p][r] \in {"granted", "released"} /\ token[p][r] # 0
      BY <1>1 DEF TokenOK, Unlock
    <2>2. ASSUME NEW s \in Req, s # r
          PROVE  result[p][s] # "granted"
      BY <1>1, <2>1, <2>2 DEF TokenOK, Unlock
    <2>3. ASSUME NEW s \in Req
          PROVE  /\ token[p][s] <= nextId[p]
                 /\ result'[p][s] # "granted"
                 /\ result'[p][s] = "released" => token[p][s] # 0
      BY <1>1, <1>5, <2>1, <2>2 DEF TokenOK
    <2>4. QED
      BY <1>1, <1>4, <2>3 DEF TokenOK
  <1>8. QueueOK(cbq[p], made[p], result'[p])
    <2>1. QueueOK(cbq[p], made[p], result[p])
      BY DEF IInv, QueueInv
    <2>2. result[p][r] \notin {"none", "waiting"}
      BY DEF Unlock
    <2>3. \A s \in Req : /\ result'[p][s] = "none" <=> result[p][s] = "none"
                         /\ result'[p][s] = "waiting"
                               <=> result[p][s] = "waiting"
      BY <1>5, <2>2
    <2>4. QED
      BY <2>1, <2>3 DEF QueueOK
  <1>9. UNCHANGED <<cbq, fd, nextId, timers, made, token, owner>>
    BY DEF Unlock
  <1>10. QED
    BY <1>3, <1>4, <1>6, <1>7, <1>8, <1>9, LocalStep

\* Only a descriptor that is being closed gives up the kernel's lock.
LEMMA KernelReleaseInv ==
    ASSUME IInv, NEW p \in Proc, KernelRelease(p)
    PROVE  IInv'
  <1>1. UNCHANGED <<state, cbq, fd, holder, nextId, op, timers, made, result,
                    token, faults>>
    BY DEF KernelRelease, lockfile
  <1>2. owner = p /\ owner' = NoProc /\ state[p] # "LOCKED"
    BY DEF KernelRelease, IInv, StateInv, StateOK
  <1>3. TypeOK'
    BY <1>1, <1>2 DEF IInv, TypeOK
  <1>4. HolderHasLock'
    BY <1>1, <1>2 DEF IInv, HolderHasLock
  <1>5. StateInv' /\ TokenInv' /\ QueueInv' /\ NoLostWakeup'
    BY <1>1 DEF IInv, StateInv, TokenInv, QueueInv, NoLostWakeup
  <1>6. QED
    BY <1>3, <1>4, <1>5 DEF IInv

\* The close of unlock(): the next request of the process has its turn.
LEMMA ClosedForUnlockInv ==
    ASSUME IInv, NEW p \in Proc, ClosedForUnlock(p)
    PROVE  IInv'
  <1>1. /\ Dispatch(p, "UNLOCKED", cbq[p])
        /\ "UNLOCKED" \in States /\ cbq[p] \in Seq(Req)
    BY DEF ClosedForUnlock, IInv, TypeOK, States
  <1>2. state[p] # "LOCKED"
    BY DEF ClosedForUnlock, IInv, StateInv, StateOK
  <1>3. /\ cbq' \in [Proc -> Seq(Req)]
        /\ state' \in [Proc -> States]
        /\ op' \in [Proc -> Ops]
        /\ \A x \in Proc \ {p} :
              cbq'[x] = cbq[x] /\ state'[x] = state[x] /\ op'[x] = op[x]
        /\ cbq'[p] = cbq[p]
        /\ cbq[p] # <<>> => state'[p] = "LOCKING" /\ op'[p] = "open"
        /\ cbq[p] = <<>> => state'[p] = "UNLOCKED" /\ op'[p] = "none"
    BY <1>1, DispatchFacts DEF IInv
  <1>4. /\ fd' \in [Proc -> BOOLEAN]
        /\ \A x \in Proc \ {p} : fd'[x] = fd[x]
    BY DEF IInv, TypeOK, ClosedForUnlock
  <1>5. TypeOK'
    BY <1>3, <1>4 DEF IInv, TypeOK, ClosedForUnlock
  <1>6. StateOK(state'[p], op'[p], cbq'[p], fd'[p])
    BY <1>3 DEF StateOK
  <1>7. TokenOK(state'[p], holder[p], nextId[p], result[p], token[p])
    BY <1>2, NotGranted DEF IInv, TokenInv, TokenOK
  <1>8. QueueOK(cbq'[p], made[p], result[p])
    BY <1>3 DEF IInv, QueueInv
  <1>9. UNCHANGED <<holder, nextId, timers, made, result, token, owner>>
    BY DEF ClosedForUnlock
  <1>10. QED
    BY <1>3, <1>4, <1>5, <1>6, <1>7, <1>8, <1>9, LocalStep

\* A process that starts again starts from an empty lock file.
LEMMA CrashInv ==
    ASSUME IInv, NEW p \in Proc, Crash(p)
    PROVE  IInv'
  <1>1. TypeOK'
    <2>1. faults' \in 0 .. MaxFault
      BY LockerAssumption DEF IInv, TypeOK, Crash
    <2>2. made' \in [Proc -> 0 .. MaxReq]
      BY LockerAssumption DEF IInv, TypeOK, Crash
    <2>3. result' \in [Proc -> [Req -> Results]]
      BY DEF IInv, TypeOK, Crash, Results
    <2>4. token' \in [Proc -> [Req -> Nat]]
      BY DEF IInv, TypeOK, Crash
    <2>5. /\ holder' \in [Proc -> Nat] /\ nextId' \in [Proc -> Nat \ {0}]
          /\ timers' \in [Proc -> Nat] /\ fd' \in [Proc -> BOOLEAN]
      BY DEF IInv, TypeOK, Crash
    <2>6. /\ state' \in [Proc -> States] /\ op' \in [Proc -> Ops]
          /\ owner' \in Proc \cup {NoProc}
      BY DEF IInv, TypeOK, Crash, States, Ops
    <2>7. cbq' \in [Proc -> Seq(Req)]
      BY DEF IInv, TypeOK, Crash
    <2>8. QED
      BY <2>1, <2>2, <2>3, <2>4, <2>5, <2>6, <2>7 DEF TypeOK
  <1>2. /\ state'[p] = "UNLOCKED" /\ op'[p] = "none" /\ cbq'[p] = <<>>
        /\ holder'[p] = 0 /\ nextId'[p] = 1 /\ made'[p] = 0
    BY DEF IInv, TypeOK, Crash
  <1>3. ASSUME NEW r \in Req
        PROVE  result'[p][r] = "none" /\ token'[p][r] = 0
    BY DEF IInv, TypeOK, Crash
  <1>4. \A x \in Proc \ {p} :
            /\ state'[x] = state[x] /\ op'[x] = op[x] /\ cbq'[x] = cbq[x]
            /\ fd'[x] = fd[x] /\ holder'[x] = holder[x]
            /\ nextId'[x] = nextId[x] /\ timers'[x] = timers[x]
            /\ made'[x] = made[x] /\ result'[x] = result[x]
            /\ token'[x] = token[x]
            /\ owner = x => owner' = x
    BY DEF IInv, TypeOK, Crash
  <1>5. StateOK(state'[p], op'[p], cbq'[p], fd'[p])
    BY <1>2 DEF StateOK
  <1>6. TokenOK(state'[p], holder'[p], nextId'[p], result'[p], token'[p])
    BY <1>2, <1>3 DEF TokenOK
  <1>7. QueueOK(cbq'[p], made'[p], result'[p])
    <2>1. Len(cbq'[p]) = 0
      BY <1>2
    <2>2. \A r \in Req : r \in Nat /\ r > 0 /\ result'[p][r] = "none"
      BY <1>3 DEF Req
    <2>3. QED
      BY <1>2, <2>1, <2>2 DEF QueueOK
  <1>8. QED
    BY <1>1, <1>2, <1>4, <1>5, <1>6, <1>7, LocalStep

-----------------------------------------------------------------------------
\* The invariant holds in every reachable state.
THEOREM Invariance == Spec => []IInv
  <1>1. ASSUME IInv, [Next]_vars
        PROVE  IInv'
    <2>1. CASE UNCHANGED vars
      <3>1. TypeOK'
        BY <1>1, <2>1 DEF IInv, TypeOK, vars, lockfile
      <3>2. StateInv' /\ TokenInv' /\ QueueInv'
        BY <1>1, <2>1 DEF IInv, StateInv, TokenInv, QueueInv, vars, lockfile
      <3>3. HolderHasLock' /\ NoLostWakeup'
        BY <1>1, <2>1 DEF IInv, HolderHasLock, NoLostWakeup, vars, lockfile
      <3>4. QED
        BY <3>1, <3>2, <3>3 DEF IInv
    <2>2. ASSUME NEW p \in Proc, Callback(p)
          PROVE  IInv'
      BY <1>1, <2>2, OpenedInv, ClosedForRetryInv, RetryTimeoutInv,
         ClosedForErrorInv, KernelReleaseInv, ClosedForUnlockInv DEF Callback
    <2>3. CASE Next
      BY <1>1, <2>2, <2>3, LockInv, OpenFailedInv, AcquiredInv, FcntlFailedInv,
         UnlockInv, CrashInv DEF Next
    <2>4. QED
      BY <1>1, <2>1, <2>3
  <1>2. QED
    BY <1>1, InitInv, PTL DEF Spec

\* The fields of the lock files keep their types.
THEOREM TypeCorrectness == Spec => []TypeOK
  <1>1. IInv => TypeOK
    BY DEF IInv
  <1>2. QED
    BY <1>1, Invariance, PTL

\* The lock of qlocker is exclusive, between processes and between the
\* requests of one process, through failures, retries and crashes.
THEOREM Exclusion == Spec => []MutualExclusion
  <1>1. IInv => MutualExclusion
    <2> SUFFICES ASSUME IInv, NEW p \in Proc, NEW q \in Proc,
                        NEW r \in Req, NEW s \in Req,
                        result[p][r] = "granted", result[q][s] = "granted"
                 PROVE  p = q /\ r = s
      BY DEF MutualExclusion
    <2>1. /\ TokenOK(state[p], holder[p], nextId[p], result[p], token[p])
          /\ TokenOK(state[q], holder[q], nextId[q], result[q], token[q])
      BY DEF IInv, TokenInv
    <2>2. state[p] = "LOCKED" /\ state[q] = "LOCKED"
      BY <2>1 DEF TokenOK
    <2>3. p = q
      BY <2>2 DEF IInv, HolderHasLock
    <2>4. QED
      BY <2>1, <2>3 DEF TokenOK
  <1>2. QED
    BY <1>1, Invariance, PTL

\* A process whose lf_state is LOCKED has the fcntl lock and its descriptor.
THEOREM HolderOwns == Spec => []HolderHasLock
  <1>1. IInv => HolderHasLock
    BY DEF IInv
  <1>2. QED
    BY <1>1, Invariance, PTL

\* The requests of a process are answered in the order of the lock() calls.
THEOREM FirstComeFirstServed == Spec => []AnsweredInOrder
  <1>1. IInv => AnsweredInOrder
    <2> SUFFICES ASSUME IInv, NEW p \in Proc, NEW r \in Req, NEW s \in Req,
                        r < s, result[p][r] = "waiting",
                        result[p][s] \notin {"none", "waiting"}
                 PROVE  FALSE
      BY DEF AnsweredInOrder
    <2>1. /\ QueueOK(cbq[p], made[p], result[p])
          /\ made[p] \in Nat /\ Len(cbq[p]) \in Nat /\ r \in Nat /\ s \in Nat
      BY LockerAssumption DEF IInv, QueueInv, TypeOK, Req
    <2>2. made[p] - Len(cbq[p]) < s
      BY <2>1 DEF QueueOK
    <2>3. QED
      BY <2>1, <2>2 DEF QueueOK
  <1>2. QED
    BY <1>1, Invariance, PTL

\* Somebody who waits on a free lock file has a retry timer to wake him.
THEOREM WakeUps == Spec => []NoLostWakeup
  <1>1. IInv => NoLostWakeup
    BY DEF IInv
  <1>2. QED
    BY <1>1, Invariance, PTL

=============================================================================
