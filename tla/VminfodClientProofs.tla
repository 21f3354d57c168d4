------------------------ MODULE VminfodClientProofs ------------------------
(***************************************************************************)
(* What the event stream of vminfod and its users promise, proved for every *)
(* set of zones and any number of changes and faults.                       *)
(*                                                                          *)
(* The properties speak of what the program has read; the invariant speaks  *)
(* of the lines under way as well.  Shape says which program is where, that *)
(* the snapshot is the first line of an open response and of no other, and  *)
(* that a watch which waits has a request.  On it rest DeleteInv, SeenInv   *)
(* and StateInv, one per question a wait asks of its lines, and MirrorExact,*)
(* which is inductive by itself given Shape and PendInv.                    *)
(***************************************************************************)
EXTENDS VminfodClient, WellFoundedInduction, TLAPS

-----------------------------------------------------------------------------
(* The inductive invariant.                                                *)

Obj == VM \cup {Absent}
Changed == {"configured", "zfs_filesystem"}
ReadyLine == [type : {"ready"}, zone : {Target}, vm : {Absent},
              changes : {{}}, vms : [Zone -> Obj]]
EventLine == [type : {"create", "modify", "delete"}, zone : Zone, vm : Obj,
              changes : SUBSET Changed, vms : {<<>>}]
Line == ReadyLine \cup EventLine
Watch == [on : BOOLEAN, kind : {"none", "state", "changes", "delete"},
          wanted : SUBSET Changed, teardown : BOOLEAN, calls : {0, 1},
          err : {"none", "stream", "timeout"}]

ServerTypes ==
    /\ sys \in [Zone -> Obj] /\ vmobjs \in [Zone -> Obj]
    /\ pend \in [Zone -> {"none", "create", "delete"}]
    /\ up \in BOOLEAN /\ listening \in BOOLEAN

StreamTypes ==
    /\ conn \in {"none", "requested", "open", "ended"}
    /\ wire \in Seq(ReadyLine \cup EventLine)
    /\ buffer \in Seq(EventLine)
    /\ req \in BOOLEAN /\ readyTimer \in BOOLEAN

ClientTypes ==
    /\ program \in Program
    /\ watch \in Watch
    /\ pc \in {"start", "connecting", "mirror", "wait", "waiting", "halt",
               "uninstall", "uninstalling", "deleting", "end"}
    /\ action \in {"none", "uninstall", "uninstall2", "delete", "done", "failed"}
    /\ mirror \in [Zone -> Obj]
    /\ outcome \in {"none", "ENOENT", "ok", "error", "died"}

Types == ServerTypes /\ StreamTypes /\ ClientTypes

\* The ready line comes first and once, and a stream that was stopped or has
\* not been started yet has no listeners that could disturb the next one.
Snapshot == wire # <<>> /\ Head(wire).type = "ready"

ConnInv ==
    /\ req => conn # "none"
    /\ readyTimer => req /\ pc = "connecting"
    /\ listening => up /\ conn \in {"open", "none"}
    /\ conn = "requested" => /\ ~listening /\ wire = <<>> /\ buffer = <<>>
                             /\ pc = "connecting"
    /\ \A i \in 2 .. Len(wire) : wire[i].type # "ready"
    /\ req /\ conn = "open" /\ pc = "connecting" => Snapshot
    /\ req /\ pc # "connecting" => ~Snapshot
    /\ pc \in {"connecting", "mirror", "wait", "halt", "uninstall"} => req
    /\ pc = "start" => ~req /\ conn = "none"

\* Which program is where, and what its watch is.
ProgramInv ==
    /\ pc = "mirror" => program = "watcher"
    /\ pc \in {"wait", "waiting"} => program = "waitForZoneState"
    /\ pc \in {"halt", "uninstall", "uninstalling", "deleting"}
          => program = "deleteZone"
    /\ pc = "end" <=> outcome # "none"
    /\ program = "watcher" => outcome = "none" /\ watch = NoWatch
    /\ action # "none" => program = "deleteZone" /\ watch.kind \in {"changes", "delete"}
    /\ action \in {"uninstall", "uninstall2"} => watch.kind = "changes"
    /\ action \in {"delete", "failed"} => watch.kind = "delete"

WatchInv ==
    /\ watch.on => /\ watch.calls = 0 /\ req /\ outcome = "none"
                   /\ pc \in {"waiting", "uninstalling", "deleting"}
    /\ pc = "waiting" => watch.kind = "state"
    /\ pc = "uninstalling" => watch.kind = "changes"
    /\ pc = "deleting" => watch.kind = "delete"
    /\ pc \in {"start", "connecting", "mirror", "wait", "halt", "uninstall"} =>
          watch = NoWatch
    /\ watch.kind = "state" => program = "waitForZoneState"
    /\ watch.kind \in {"changes", "delete"} => program = "deleteZone"
    /\ watch.kind = "delete" => action \in {"delete", "done", "failed"}
    /\ action = "failed" => ~watch.on
    /\ watch.kind \in {"changes", "delete"} => ~watch.teardown
    /\ pc \in {"uninstalling", "deleting"} /\ watch.err = "none" => req

Shape == Types /\ ConnInv /\ ProgramInv /\ WatchInv

\* The event of a deletion is to come only for a VM that is gone.
PendInv ==
    \A z \in Zone : (pend[z] = "delete" => vmobjs[z] = Absent) /\ (~up => pend[z] = "none")

\* The lines that the program has not acted upon.
Lines == Range(wire) \cup Range(buffer)

\* The zone of deleteZone is gone for good.
Gone == sys[Target] = Absent /\ (up => vmobjs[Target] = Absent)
Deletion(ev) == ev.zone = Target /\ ev.type = "delete"

KnownAbsent == up /\ vmobjs[Target] = Absent => sys[Target] = Absent
LinesTrue == \A ev \in Lines : Deletion(ev) => Gone
WatchTrue == watch.kind = "delete" /\ watch.calls = 1 /\ watch.err = "none" =>
                 Gone \/ action = "failed"
OutcomeTrue == outcome = "ok" => Gone
NotMissed ==
    /\ watch.kind = "delete" /\ watch.on /\ action = "done"
    /\ listening /\ vmobjs[Target] = Absent
    => pend[Target] = "delete" \/ \E ev \in Lines : Deletion(ev)

DeleteInv ==
    program = "deleteZone" =>
        KnownAbsent /\ LinesTrue /\ WatchTrue /\ OutcomeTrue /\ NotMissed

\* What a waitForZoneState may call back with.
SeenKnown == up => vmobjs[Target].state \in seen
SeenLine(ev) == IF ev.type = "ready" THEN ev.vms[Target].state \in seen
                ELSE ev.zone = Target => ev.vm.state \in seen
SeenLines == \A ev \in Lines : SeenLine(ev)
SeenWatch == watch.kind = "state" /\ watch.calls = 1 /\ watch.err = "none" =>
                 "running" \in seen
SeenOutcome == outcome = "ok" => "running" \in seen

SeenInv ==
    program = "waitForZoneState" /\ pc # "start" =>
        SeenKnown /\ SeenLines /\ SeenWatch /\ SeenOutcome

\* vminfod has the state, then the line that says so is still to be read.
Coming == pend[Target] = "create"
          \/ \E ev \in Lines : ev.zone = Target /\ ev.vm.state = "running"
StateInv ==
    program = "waitForZoneState" /\ listening /\ vmobjs[Target].state = "running" =>
        /\ pc = "wait" \/ (pc = "waiting" /\ watch.on) => Coming
        /\ pc = "connecting" =>
              Coming \/ Head(wire).vms[Target].state = "running"

IInv == Shape /\ PendInv /\ DeleteInv /\ SeenInv /\ StateInv /\ MirrorExact

-----------------------------------------------------------------------------
(* Shape.                                                                  *)

LEMMA TailOf ==
    ASSUME NEW S, NEW q \in Seq(S), q # <<>>
    PROVE  /\ Len(q) \in Nat \ {0} /\ Head(q) = q[1] /\ Head(q) \in S
           /\ Tail(q) \in Seq(S) /\ Len(Tail(q)) = Len(q) - 1
           /\ \A i \in 1 .. Len(Tail(q)) : Tail(q)[i] = q[i + 1]
  OBVIOUS

LEMMA AppendOf ==
    ASSUME NEW S, NEW q \in Seq(S), NEW e \in S
    PROVE  /\ Append(q, e) \in Seq(S) /\ Append(q, e) # <<>>
           /\ Len(q) \in Nat /\ Len(Append(q, e)) = Len(q) + 1
           /\ Append(q, e)[Len(q) + 1] = e
           /\ \A i \in 1 .. Len(q) : Append(q, e)[i] = q[i]
  OBVIOUS

\* The objects.
LEMMA Objects ==
    /\ Absent \in Obj /\ Configured \in Obj /\ Installed \in Obj /\ Running \in Obj
    /\ \A vm \in Obj : vm = Absent <=> vm.state = "absent"
    /\ \A vm \in Obj : vm.state = "running" => [vm EXCEPT !.state = "installed"] \in Obj
    /\ \A vm \in Obj : vm.state = "installed" =>
          /\ [vm EXCEPT !.zfs = FALSE] \in Obj
          /\ [vm EXCEPT !.state = "configured"] \in Obj
  <1>1. Absent \in Obj
    BY DEF Obj
  <1>2. Configured \in VM /\ Installed \in VM /\ Running \in VM
    BY DEF VM, Configured, Installed, Running
  <1>3. \A vm \in VM : vm.state # "absent" /\ Absent.state = "absent"
    BY DEF VM, Absent
  <1>4. \A vm \in VM : /\ [vm EXCEPT !.zfs = FALSE] \in VM
                       /\ [vm EXCEPT !.state = "configured"] \in VM
                       /\ [vm EXCEPT !.state = "installed"] \in VM
    BY DEF VM
  <1> QED
    BY <1>1, <1>2, <1>3, <1>4 DEF Obj

\* Watches, before and after they have called back.
Ended(w, r, err) ==
    /\ r \in Watch /\ ~r.on /\ r.kind = w.kind /\ r.teardown = w.teardown
    /\ r.calls = 1 /\ r.err = err

LEMMA Watches ==
    /\ NoWatch \in Watch /\ ~NoWatch.on /\ NoWatch.kind = "none" /\ NoWatch.calls = 0
    /\ \A kind \in {"state", "changes", "delete"}, wanted \in SUBSET Changed,
          teardown \in BOOLEAN :
          LET w == NewWatch(kind, wanted, teardown)
          IN /\ w \in Watch /\ w.on /\ w.kind = kind /\ w.teardown = teardown
             /\ w.calls = 0 /\ w.err = "none"
    /\ \A w \in Watch, err \in {"none", "stream", "timeout"} :
          w.calls = 0 => Ended(w, Done(w, err), err)
  <1>1. NoWatch \in Watch /\ ~NoWatch.on /\ NoWatch.kind = "none" /\ NoWatch.calls = 0
    BY DEF NoWatch, Watch
  <1>2. ASSUME NEW kind \in {"state", "changes", "delete"}, NEW wanted \in SUBSET Changed,
               NEW teardown \in BOOLEAN
        PROVE  LET w == NewWatch(kind, wanted, teardown)
               IN /\ w \in Watch /\ w.on /\ w.kind = kind /\ w.teardown = teardown
                  /\ w.calls = 0 /\ w.err = "none"
    BY <1>1 DEF NewWatch, NoWatch, Watch
  <1>3. ASSUME NEW w \in Watch, NEW err \in {"none", "stream", "timeout"}, w.calls = 0
        PROVE  Ended(w, Done(w, err), err)
    <2>1. Done(w, err) = [w EXCEPT !.on = FALSE, !.calls = 1, !.err = err]
      BY <1>3 DEF Done, Watch
    <2> QED
      BY <2>1 DEF Watch, Ended
  <1> QED
    BY <1>1, <1>2, <1>3

\* A watch that has read some events waits on or has called back.
LEMMA Processed ==
    ASSUME NEW w \in Watch, w.on, w.calls = 0, NEW evs \in Seq(EventLine)
    PROVE  LET r == ProcessEvents(w, evs)
           IN \/ Ended(w, r, "none") /\ (w.kind # "changes" => \E ev \in Range(evs) : Matches(w, ev))
              \/ /\ r \in Watch /\ r.on /\ r.kind = w.kind
                 /\ r.teardown = w.teardown /\ r.calls = 0 /\ r.err = w.err
                 /\ w.kind # "changes" => ~ \E ev \in Range(evs) : Matches(w, ev)
  <1>1. CASE w.kind = "changes"
    <2>1. Left(w, evs) \in SUBSET Changed
      BY DEF Left, Watch
    <2>2. [w EXCEPT !.wanted = {}] \in Watch
      BY DEF Watch
    <2>3. CASE Left(w, evs) = {}
      <3> DEFINE v == [w EXCEPT !.wanted = {}]
      <3>1. v \in Watch /\ v.calls = 0 /\ v.kind = w.kind /\ v.teardown = w.teardown
        BY <2>2 DEF Watch
      <3>2. ProcessEvents(w, evs) = Done(v, "none")
        BY <1>1, <2>3 DEF ProcessEvents
      <3> HIDE DEF v
      <3>3. Ended(v, Done(v, "none"), "none")
        BY <3>1, Watches
      <3> QED
        BY <1>1, <3>1, <3>2, <3>3 DEF Ended
    <2>4. CASE Left(w, evs) # {}
      <3>1. ProcessEvents(w, evs) = [w EXCEPT !.wanted = Left(w, evs)]
        BY <1>1, <2>4 DEF ProcessEvents
      <3> QED
        BY <1>1, <2>1, <3>1 DEF Watch
    <2> QED
      BY <2>3, <2>4
  <1>2. CASE w.kind # "changes"
    <2>1. ProcessEvents(w, evs) = IF \E ev \in Range(evs) : Matches(w, ev)
                                  THEN Done(w, "none") ELSE w
      BY <1>2 DEF ProcessEvents
    <2> QED
      BY <1>2, <2>1, Watches DEF Ended
  <1> QED
    BY <1>1, <1>2

\* A set of numbers up to n has a greatest one, by the well-foundedness of the
\* distance to n.
LEMMA Greatest ==
    ASSUME NEW n \in Nat, NEW T \in SUBSET (1 .. n), T # {}
    PROVE  Max(T) \in T /\ \A y \in T : Max(T) >= y
  <1> DEFINE D == {n - i : i \in T}
  <1>0. T \subseteq 1 .. n
    OBVIOUS
  <1>a. PICK k \in T : TRUE
    OBVIOUS
  <1>b. n - k \in D
    BY <1>a
  <1>c. ASSUME NEW e \in D PROVE e \in Nat
    <2>1. PICK i \in T : e = n - i
      OBVIOUS
    <2>2. i \in 1 .. n
      BY <1>0
    <2> QED
      BY <2>1, <2>2
  <1>1. D \subseteq Nat /\ D # {}
    BY <1>b, <1>c
  <1> HIDE DEF D
  <1>2. PICK d \in D : \A e \in D : ~(<<e, d>> \in OpToRel(<, Nat))
    BY <1>1, NatLessThanWellFounded, WFMin
  <1>3. \A e \in D : ~(e < d)
    BY <1>1, <1>2 DEF OpToRel
  <1>4. PICK i \in T : d = n - i
    BY DEF D
  <1>5. ASSUME NEW j \in T PROVE i >= j
    <2>1. n - j \in D /\ i \in 1 .. n /\ j \in 1 .. n
      BY <1>0 DEF D
    <2>2. ~(n - j < n - i)
      BY <1>3, <1>4, <2>1
    <2> QED
      BY <2>1, <2>2
  <1> QED
    BY <1>4, <1>5 DEF Max

\* The last event of a zone, and what it says of it.
LastEvent(evs, z) == SelectLastInSeq(evs, LAMBDA ev : ev.zone = z)
Told(ev) == IF ev.type = "delete" THEN Absent ELSE ev.vm

LEMMA LastOf ==
    ASSUME NEW S, NEW evs \in Seq(S), NEW z
    PROVE  /\ LastEvent(evs, z) \in 0 .. Len(evs)
           /\ LastEvent(evs, z) = 0 => \A j \in 1 .. Len(evs) : evs[j].zone # z
           /\ LastEvent(evs, z) # 0 =>
                 /\ evs[LastEvent(evs, z)].zone = z
                 /\ \A j \in 1 .. Len(evs) : evs[j].zone = z => j <= LastEvent(evs, z)
  <1> DEFINE I == {i \in 1 .. Len(evs) : evs[i].zone = z}
  <1>1. LastEvent(evs, z) = IF I # {} THEN Max(I) ELSE 0
    BY DEF LastEvent, SelectLastInSeq
  <1>2. Len(evs) \in Nat
    OBVIOUS
  <1>3. I # {} => Max(I) \in I /\ \A y \in I : Max(I) >= y
    BY <1>2, Greatest
  <1> QED
    BY <1>1, <1>2, <1>3

\* It is the only one with what LastOf says.
LEMMA LastIs ==
    ASSUME NEW S, NEW evs \in Seq(S), NEW z, NEW i \in 1 .. Len(evs),
           evs[i].zone = z, \A j \in 1 .. Len(evs) : evs[j].zone = z => j <= i
    PROVE  LastEvent(evs, z) = i
  BY LastOf

\* The mirror stays a map of objects.
LEMMA AppliedType ==
    ASSUME NEW vms \in [Zone -> Obj], NEW evs \in Seq(EventLine)
    PROVE  Applied(vms, evs) \in [Zone -> Obj]
  <1> SUFFICES ASSUME NEW z \in Zone PROVE Applied(vms, evs)[z] \in Obj
    BY DEF Applied
  <1>1. Applied(vms, evs)[z] = IF LastEvent(evs, z) = 0 THEN vms[z]
                               ELSE Told(evs[LastEvent(evs, z)])
    BY DEF Applied, LastEvent, Told
  <1>2. LastEvent(evs, z) # 0 => evs[LastEvent(evs, z)] \in EventLine
    BY LastOf
  <1>3. \A ev \in EventLine : Told(ev) \in Obj
    BY Objects DEF Told, EventLine
  <1> QED
    BY <1>1, <1>2, <1>3

LEMMA InitShape == Init => Shape
  <1> SUFFICES ASSUME Init PROVE Shape
    OBVIOUS
  <1> USE ClientAssumption
  <1>1. Types
    <2>1. ServerTypes
      <3>1. sys \in [Zone -> Obj] /\ vmobjs \in [Zone -> Obj]
        BY Objects DEF Init
      <3>2. pend \in [Zone -> {"none", "create", "delete"}]
        BY DEF Init
      <3>3. up \in BOOLEAN /\ listening \in BOOLEAN
        BY Zenon DEF Init
      <3> QED
        BY <3>1, <3>2, <3>3 DEF ServerTypes
    <2>2. StreamTypes
      <3>1. wire \in Seq(ReadyLine \cup EventLine) /\ buffer \in Seq(EventLine)
        BY DEF Init
      <3>2. req \in BOOLEAN /\ readyTimer \in BOOLEAN /\ conn = "none"
        BY Zenon DEF Init
      <3> QED
        BY <3>1, <3>2 DEF StreamTypes
    <2>3. ClientTypes
      BY Objects, Watches DEF Init, ClientTypes
    <2> QED
      BY <2>1, <2>2, <2>3 DEF Types
  <1>2. ConnInv /\ ProgramInv /\ WatchInv
    BY DEF Init, ConnInv, ProgramInv, WatchInv, Snapshot, NoWatch
  <1> QED
    BY <1>1, <1>2 DEF Shape

LEMMA ChangeShape ==
    ASSUME Shape, NEW z \in Zone, NEW vm \in {Absent, Configured, Installed, Running},
           Change(z, vm)
    PROVE  Shape'
  <1>1. vm \in Obj
    BY Objects
  <1>2. Types'
    BY <1>1 DEF Shape, Change, stream, client, Types, ServerTypes, StreamTypes, ClientTypes
  <1>3. (ConnInv /\ ProgramInv /\ WatchInv)'
    BY DEF Shape, Change, stream, client, ConnInv, ProgramInv, WatchInv, Snapshot
  <1> QED
    BY <1>2, <1>3 DEF Shape


\* What the lines under way are after one more.
LEMMA Emitted ==
    ASSUME Shape, NEW ev \in EventLine, Emit(ev)
    PROVE  /\ wire' \in Seq(ReadyLine \cup EventLine)
           /\ \A i \in 2 .. Len(wire') : wire'[i].type # "ready"
           /\ Snapshot' <=> Snapshot
           /\ conn = "requested" => wire' = <<>>
  <1> USE DEF Shape, Types, StreamTypes
  <1>0. ev.type # "ready" /\ ev \in ReadyLine \cup EventLine
    BY DEF EventLine
  <1>1. CASE ~listening
    BY <1>1 DEF Emit, ConnInv, Snapshot
  <1>2. CASE listening
    <2> DEFINE L == ReadyLine \cup EventLine
    <2>0. wire \in Seq(L) /\ ev \in L
      BY <1>0
    <2>1. wire' = Append(wire, ev) /\ conn # "requested"
      BY <1>2 DEF Emit, ConnInv
    <2>2. /\ wire' \in Seq(L) /\ wire' # <<>>
          /\ Len(wire) \in Nat /\ Len(wire') = Len(wire) + 1
          /\ wire'[Len(wire) + 1] = ev
          /\ \A i \in 1 .. Len(wire) : wire'[i] = wire[i]
      BY <2>0, <2>1, AppendOf
    <2>3. \A i \in 2 .. Len(wire') : wire'[i].type # "ready"
      BY <1>0, <2>2 DEF ConnInv
    <2>4. Snapshot' <=> Snapshot
      <3>1. Snapshot' <=> wire'[1].type = "ready"
        BY <2>2 DEF Snapshot
      <3>2. CASE wire = <<>>
        BY <1>0, <2>2, <3>1, <3>2 DEF Snapshot
      <3>3. CASE wire # <<>>
        <4>1. Len(wire) > 0 /\ Head(wire) = wire[1]
          BY <2>2, <3>3
        <4> QED
          BY <2>2, <3>1, <3>3, <4>1 DEF Snapshot
      <3> QED
        BY <3>2, <3>3
    <2> QED
      BY <2>1, <2>2, <2>3, <2>4
  <1> QED
    BY <1>1, <1>2

\* A line that vminfod writes, or none, and nothing else in the stream.
LEMMA ServerShape ==
    ASSUME Shape, ServerTypes',
           \/ wire' = wire
           \/ \E ev \in EventLine : Emit(ev),
           UNCHANGED <<program, up, listening, conn, req, readyTimer, buffer, client>>
    PROVE  Shape'
  <1> USE DEF Shape, client
  <1>1. /\ wire' \in Seq(ReadyLine \cup EventLine)
        /\ \A i \in 2 .. Len(wire') : wire'[i].type # "ready"
        /\ Snapshot' <=> Snapshot
        /\ conn = "requested" => wire' = <<>>
    BY Emitted DEF Types, StreamTypes, ConnInv, Snapshot
  <1>2. Types'
    BY <1>1 DEF Types, StreamTypes, ClientTypes
  <1>3. ConnInv'
    BY <1>1 DEF ConnInv
  <1>4. (ProgramInv /\ WatchInv)'
    BY DEF ProgramInv, WatchInv
  <1> QED
    BY <1>2, <1>3, <1>4

LEMMA ObserveShape == ASSUME Shape, NEW z \in Zone, Observe(z) PROVE Shape'
  <1>1. ServerTypes'
    BY DEF Observe, Shape, Types, ServerTypes
  <1>2. Event("modify", z, sys[z], Diff(vmobjs[z], sys[z])) \in EventLine
    BY DEF Event, EventLine, Diff, Changed, Shape, Types, ServerTypes
  <1> QED
    BY <1>1, <1>2, ServerShape DEF Observe

LEMMA EmitPendingShape == ASSUME Shape, NEW z \in Zone, EmitPending(z) PROVE Shape'
  <1>1. ServerTypes'
    BY DEF EmitPending, Shape, Types, ServerTypes
  <1>2. pend[z] \in {"create", "delete"} /\ vmobjs[z] \in Obj
    BY DEF EmitPending, Shape, Types, ServerTypes
  <1>3. Event(pend[z], z, vmobjs[z], {}) \in EventLine
    BY <1>2 DEF Event, EventLine
  <1> QED
    BY <1>1, <1>3, ServerShape DEF EmitPending

LEMMA AcceptShape == ASSUME Shape, Accept PROVE Shape'
  <1>1. Ready(vmobjs) \in ReadyLine
    BY DEF Ready, ReadyLine, Shape, Types, ServerTypes
  <1>2. /\ wire' \in Seq(ReadyLine \cup EventLine) /\ Len(wire') = 1
        /\ Snapshot'
    BY <1>1 DEF Accept, Snapshot, Ready
  <1>3. listening' \in BOOLEAN
    BY Zenon DEF Accept
  <1>4. Types'
    BY <1>2, <1>3 DEF Accept, client, Shape, Types, ServerTypes, StreamTypes, ClientTypes
  <1>5. ConnInv'
    BY <1>2 DEF Accept, client, Shape, ConnInv
  <1>6. (ProgramInv /\ WatchInv)'
    BY DEF Accept, client, Shape, ProgramInv, WatchInv
  <1> QED
    BY <1>4, <1>5, <1>6 DEF Shape

LEMMA CleanupShape == ASSUME Shape, Cleanup PROVE Shape'
  <1>1. listening' \in BOOLEAN
    BY Zenon DEF Cleanup
  <1>2. Types'
    BY <1>1 DEF Cleanup, client, stream, Shape, Types, ServerTypes, StreamTypes, ClientTypes
  <1>3. ConnInv'
    BY DEF Cleanup, client, stream, Shape, ConnInv, Snapshot
  <1>4. (ProgramInv /\ WatchInv)'
    BY DEF Cleanup, client, stream, Shape, ProgramInv, WatchInv
  <1> QED
    BY <1>2, <1>3, <1>4 DEF Shape

LEMMA ServerDiesShape == ASSUME Shape, ServerDies PROVE Shape'
  <1>1. listening' \in BOOLEAN /\ up' \in BOOLEAN
    BY Zenon DEF ServerDies
  <1>2. Types'
    BY <1>1, Objects DEF ServerDies, client, Shape, Types, ServerTypes, StreamTypes,
                         ClientTypes
  <1>3. ConnInv'
    BY DEF ServerDies, client, Shape, ConnInv, Snapshot
  <1>4. (ProgramInv /\ WatchInv)'
    BY DEF ServerDies, client, Shape, ProgramInv, WatchInv
  <1> QED
    BY <1>2, <1>3, <1>4 DEF Shape

LEMMA ServerStartsShape == ASSUME Shape, ServerStarts PROVE Shape'
  <1>1. up' \in BOOLEAN
    BY Zenon DEF ServerStarts
  <1>2. Types'
    BY <1>1 DEF ServerStarts, client, stream, Shape, Types, ServerTypes, StreamTypes,
                ClientTypes
  <1>3. ConnInv'
    BY DEF ServerStarts, client, stream, Shape, ConnInv, Snapshot
  <1>4. (ProgramInv /\ WatchInv)'
    BY DEF ServerStarts, client, stream, Shape, ProgramInv, WatchInv
  <1> QED
    BY <1>2, <1>3, <1>4 DEF Shape

\* The stream reports an error: the watch ends, or the program does.
LEMMA ErrorShape ==
    ASSUME Shape, EmitError, outcome = "none", req,
           UNCHANGED <<program, sys, up, vmobjs, pend, listening>>
    PROVE  Shape'
  <1> USE DEF Shape, EmitError, Stop
  <1>1. req' \in BOOLEAN /\ readyTimer' \in BOOLEAN
    BY Zenon
  <1>2. /\ wire' = wire /\ buffer' = buffer /\ conn' = "none" /\ ~req' /\ ~readyTimer'
        /\ action' = action /\ mirror' = mirror
    OBVIOUS
  <1>3. CASE watch.on
    <2>1. watch' = Done(watch, "stream") /\ pc' = pc /\ outcome' = outcome
      BY <1>3
    <2>2. Ended(watch, watch', "stream")
      BY <1>3, <2>1, Watches DEF WatchInv, Types, ClientTypes
    <2>3. Types'
      BY <1>1, <1>2, <2>1, <2>2 DEF Types, ServerTypes, StreamTypes, ClientTypes, Ended
    <2>4. ConnInv'
      BY <1>2, <1>3, <2>1 DEF ConnInv, WatchInv, Snapshot
    <2>5. ProgramInv'
      BY <1>2, <1>3, <2>1, <2>2 DEF ProgramInv, WatchInv, Ended
    <2>6. WatchInv'
      BY <1>2, <1>3, <2>1, <2>2 DEF WatchInv, Ended
    <2> QED
      BY <2>3, <2>4, <2>5, <2>6
  <1>4. CASE ~watch.on
    <2>1. /\ watch' = watch
          /\ pc' = IF program = "watcher" THEN "start" ELSE "end"
          /\ outcome' = IF program = "watcher" THEN outcome ELSE "died"
      BY <1>4
    <2>2. Types'
      BY <1>1, <1>2, <2>1 DEF Types, ServerTypes, StreamTypes, ClientTypes
    <2>3. ConnInv'
      BY <1>2, <1>4, <2>1 DEF ConnInv, Snapshot
    <2>4. ProgramInv'
      BY <1>2, <1>4, <2>1 DEF ProgramInv
    <2>5. WatchInv'
      BY <1>2, <1>4, <2>1 DEF WatchInv, ProgramInv
    <2> QED
      BY <2>2, <2>3, <2>4, <2>5
  <1> QED
    BY <1>3, <1>4

LEMMA RequestFailsShape == ASSUME Shape, RequestFails PROVE Shape'
  BY ErrorShape DEF RequestFails, server

LEMMA ReadyTimeoutShape == ASSUME Shape, ReadyTimeout PROVE Shape'
  BY ErrorShape DEF ReadyTimeout, Shape, ConnInv, ProgramInv

LEMMA WatchTimeoutShape == ASSUME Shape, WatchTimeout PROVE Shape'
  <1> USE DEF Shape, WatchTimeout, Stop, server
  <1>1. req' \in BOOLEAN /\ readyTimer' \in BOOLEAN
    BY Zenon
  <1>2. Ended(watch, watch', "timeout")
    BY Watches DEF WatchInv, Types, ClientTypes
  <1>3. Types'
    BY <1>1, <1>2 DEF Types, ServerTypes, StreamTypes, ClientTypes, Ended
  <1>4. ConnInv'
    BY DEF ConnInv, WatchInv, Snapshot
  <1>5. ProgramInv'
    BY <1>2 DEF ProgramInv, WatchInv, Ended
  <1>6. WatchInv'
    BY <1>2 DEF WatchInv, Ended
  <1> QED
    BY <1>3, <1>4, <1>5, <1>6

\* What is left of the lines when one was read.
LEMMA Transformed ==
    ASSUME Shape, Transform
    PROVE  /\ wire # <<>> /\ Head(wire) \in ReadyLine \cup EventLine
           /\ Head(wire).type # "ready" => Head(wire) \in EventLine
           /\ Head(wire).type = "ready" => Head(wire) \in ReadyLine
           /\ wire' = Tail(wire) /\ wire' \in Seq(EventLine)
           /\ wire' \in Seq(ReadyLine \cup EventLine)
           /\ \A i \in 2 .. Len(wire') : wire'[i].type # "ready"
           /\ ~Snapshot'
           /\ conn # "requested"
  <1> DEFINE L == ReadyLine \cup EventLine
  <1> USE DEF Shape, Types, StreamTypes
  <1>1. wire # <<>> /\ wire' = Tail(wire) /\ conn # "requested"
    BY DEF Transform, ConnInv
  <1>2. wire \in Seq(L)
    OBVIOUS
  <1> HIDE DEF L
  <1>3. /\ Len(wire) \in Nat \ {0} /\ Head(wire) = wire[1] /\ Head(wire) \in L
        /\ wire' \in Seq(L) /\ Len(wire') = Len(wire) - 1
        /\ \A i \in 1 .. Len(wire') : wire'[i] = wire[i + 1]
    BY <1>1, <1>2, TailOf
  <1>4. \A i \in 1 .. Len(wire') : wire'[i].type # "ready"
    BY <1>3 DEF ConnInv
  <1>5. \A l \in L : l.type = "ready" => l \in ReadyLine
    BY DEF L, EventLine
  <1>6. \A l \in L : l.type # "ready" => l \in EventLine
    BY DEF L, ReadyLine
  <1>7. \A i \in 1 .. Len(wire') : wire'[i] \in EventLine
    BY <1>3, <1>4, <1>6
  <1>8. wire' \in Seq(EventLine)
    BY <1>3, <1>7
  <1>9. ~Snapshot'
    BY <1>3, <1>4 DEF Snapshot
  <1> QED
    BY <1>1, <1>3, <1>4, <1>5, <1>6, <1>8, <1>9 DEF L

LEMMA TransformShape == ASSUME Shape, Transform PROVE Shape'
  <1> USE DEF Shape
  <1>0. /\ UNCHANGED <<program, server, conn, req>> /\ wire # <<>> /\ wire' = Tail(wire)
        /\ outcome = "none"
    BY DEF Transform
  <1>s. ServerTypes' /\ ServerTypes /\ UNCHANGED listening /\ UNCHANGED up
    BY <1>0 DEF server, Types, ServerTypes
  <1>1. CASE ~req /\ UNCHANGED <<readyTimer, buffer, client>>
    <2>1. Types'
      BY <1>0, <1>s, <1>1, Transformed DEF client, Types, StreamTypes, ClientTypes
    <2>2. ConnInv'
      BY <1>0, <1>s, <1>1, Transformed DEF client, ConnInv
    <2>3. (ProgramInv /\ WatchInv)'
      BY <1>0, <1>1 DEF client, ProgramInv, WatchInv
    <2> QED
      BY <2>1, <2>2, <2>3
  <1>2. CASE /\ req /\ Head(wire).type # "ready"
             /\ buffer' = Append(buffer, Head(wire))
             /\ UNCHANGED <<readyTimer, client>>
    <2>0. buffer' \in Seq(EventLine)
      BY <1>2, Transformed, AppendOf DEF Types, StreamTypes
    <2>1. Types'
      BY <1>0, <1>s, <1>2, <2>0, Transformed DEF client, Types, StreamTypes, ClientTypes
    <2>2. ConnInv'
      BY <1>0, <1>s, <1>2, Transformed DEF client, ConnInv, Snapshot
    <2>3. (ProgramInv /\ WatchInv)'
      BY <1>0, <1>2 DEF client, ProgramInv, WatchInv
    <2> QED
      BY <2>1, <2>2, <2>3
  <1>3. CASE /\ req /\ Head(wire).type = "ready"
             /\ readyTimer' = FALSE
             /\ OnReady(Head(wire).vms)
             /\ UNCHANGED <<buffer, action>>
    <2>0. Head(wire).vms \in [Zone -> Obj] /\ readyTimer' \in BOOLEAN
      <3>1. readyTimer' \in BOOLEAN
        BY <1>3, Zenon
      <3> QED
        BY <1>3, <3>1, Transformed DEF ReadyLine
    <2>1. pc = "connecting" /\ watch = NoWatch
      BY <1>0, <1>3 DEF ConnInv, Snapshot, WatchInv
    <2>2. /\ watch' = watch /\ pc' \in {"mirror", "wait", "halt", "end"}
          /\ mirror' \in [Zone -> Obj]
          /\ pc' = "end" => outcome' \in {"ok", "ENOENT"}
          /\ pc' # "end" => outcome' = outcome
          /\ program = "watcher" <=> pc' = "mirror"
          /\ pc' = "wait" => program = "waitForZoneState"
          /\ pc' = "halt" => program = "deleteZone"
      BY <1>3, <2>0 DEF OnReady, Types, ClientTypes, Program
    <2>3. Types'
      BY <1>0, <1>s, <1>3, <2>0, <2>2, Transformed DEF Types, StreamTypes, ClientTypes
    <2>4. ConnInv'
      BY <1>0, <1>s, <1>3, <2>0, <2>1, <2>2, Transformed DEF ConnInv
    <2>5. ProgramInv'
      BY <1>0, <1>3, <2>1, <2>2 DEF ProgramInv
    <2>6. WatchInv'
      BY <1>0, <1>3, <2>1, <2>2, Watches DEF WatchInv
    <2> QED
      BY <2>3, <2>4, <2>5, <2>6
  <1> QED
    BY <1>1, <1>2, <1>3 DEF Transform

\* The watch of a program becomes another, and the stream stops if it is torn
\* down.
LEMMA SetWatchStream ==
    ASSUME Shape, NEW w \in Watch, SetWatch(w)
    PROVE  /\ watch' = w
           /\ req' \in BOOLEAN /\ readyTimer' \in BOOLEAN
           /\ \/ ~Teardown(w) /\ UNCHANGED <<req, readyTimer, conn>>
              \/ Teardown(w) /\ ~req' /\ ~readyTimer' /\ conn' = "none"
  <1>1. CASE Teardown(w)
    <2>1. req' = FALSE /\ readyTimer' = FALSE /\ conn' = "none" /\ watch' = w
      BY <1>1 DEF SetWatch
    <2>2. req' \in BOOLEAN /\ readyTimer' \in BOOLEAN /\ ~req' /\ ~readyTimer'
      BY <2>1, Zenon
    <2> QED
      BY <1>1, <2>1, <2>2
  <1>2. CASE ~Teardown(w)
    BY <1>2 DEF SetWatch, Shape, Types, StreamTypes
  <1> QED
    BY <1>1, <1>2

LEMMA ReadableShape == ASSUME Shape, Readable PROVE Shape'
  <1> USE DEF Shape
  <1>0. /\ UNCHANGED <<program, server, wire, pc, action, outcome>> /\ outcome = "none"
        /\ buffer # <<>> /\ buffer' = <<>>
    BY DEF Readable
  <1>s. ServerTypes' /\ UNCHANGED listening /\ UNCHANGED up /\ buffer' \in Seq(EventLine)
    BY <1>0 DEF server, Types, ServerTypes
  <1>1. CASE /\ pc = "mirror" /\ mirror' = Applied(mirror, buffer)
             /\ UNCHANGED <<watch, req, readyTimer, conn>>
    <2>1. mirror' \in [Zone -> Obj]
      BY <1>1, AppliedType DEF Types, StreamTypes, ClientTypes
    <2>2. Types'
      BY <1>0, <1>s, <1>1, <2>1 DEF Types, StreamTypes, ClientTypes
    <2>3. ConnInv'
      BY <1>0, <1>s, <1>1 DEF ConnInv, Snapshot
    <2>4. (ProgramInv /\ WatchInv)'
      BY <1>0, <1>1 DEF ProgramInv, WatchInv
    <2> QED
      BY <2>2, <2>3, <2>4
  <1>2. CASE watch.on /\ SetWatch(ProcessEvents(watch, buffer)) /\ UNCHANGED mirror
    <2> DEFINE w == ProcessEvents(watch, buffer)
    <2>0. watch \in Watch /\ watch.calls = 0 /\ buffer \in Seq(EventLine)
      BY <1>2 DEF Types, StreamTypes, ClientTypes, WatchInv
    <2>1. /\ w \in Watch /\ w.kind = watch.kind /\ w.teardown = watch.teardown
          /\ w.on => w.calls = 0
      BY <1>2, <2>0, Processed DEF Ended
    <2> HIDE DEF w
    <2>2. /\ watch' = w /\ req' \in BOOLEAN /\ readyTimer' \in BOOLEAN
          /\ \/ ~Teardown(w) /\ UNCHANGED <<req, readyTimer, conn>>
             \/ w.teardown /\ ~w.on /\ ~req' /\ ~readyTimer' /\ conn' = "none"
      BY <1>2, <2>1, SetWatchStream DEF w, Teardown
    <2>3. Types'
      BY <1>0, <1>s, <1>2, <2>1, <2>2 DEF Types, StreamTypes, ClientTypes
    <2>4. ConnInv'
      BY <1>0, <1>s, <1>2, <2>2 DEF ConnInv, Snapshot, WatchInv
    <2>5. program # "watcher"
      BY <1>2, Watches DEF ProgramInv
    <2>6. ProgramInv'
      BY <1>0, <1>2, <2>1, <2>2, <2>5 DEF ProgramInv
    <2>7. WatchInv'
      <3>1. /\ pc \in {"waiting", "uninstalling", "deleting"} /\ req
            /\ action # "failed"
        BY <1>2 DEF WatchInv
      <3>2. w.on => req'
        BY <2>2, <3>1
      <3>3. pc \in {"uninstalling", "deleting"} => req'
        BY <2>1, <2>2, <3>1 DEF WatchInv
      <3> QED
        BY <1>0, <2>1, <2>2, <3>1, <3>2, <3>3 DEF WatchInv
    <2> QED
      BY <2>3, <2>4, <2>6, <2>7
  <1> QED
    BY <1>1, <1>2 DEF Readable

LEMMA ConnectShape == ASSUME Shape, Connect PROVE Shape'
  <1> USE DEF Shape, Connect, Start
  <1>1. req' \in BOOLEAN /\ readyTimer' \in BOOLEAN
    BY Zenon
  <1>2. Types'
    BY <1>1 DEF Types, ServerTypes, StreamTypes, ClientTypes
  <1>3. ConnInv'
    BY DEF ConnInv, Snapshot
  <1>4. (ProgramInv /\ WatchInv)'
    BY DEF ProgramInv, WatchInv
  <1> QED
    BY <1>2, <1>3, <1>4

\* A watch for an event of kind is begun.
LEMMA StartShape ==
    ASSUME Shape, NEW w \in Watch, w.on, w.calls = 0, w.kind # "state" => ~w.teardown,
           NEW fresh \in BOOLEAN,
           StartWatch(w, fresh), req, pc # "connecting",
           UNCHANGED <<program, server, wire, mirror, outcome>>, outcome = "none",
           \/ w.kind = "state" /\ pc' = "waiting" /\ program = "waitForZoneState"
              /\ action' = action /\ action = "none"
           \/ w.kind = "changes" /\ pc' = "uninstalling" /\ program = "deleteZone"
              /\ action' = "uninstall"
           \/ w.kind = "delete" /\ pc' = "deleting" /\ program = "deleteZone"
              /\ action' = "delete"
    PROVE  Shape'
  <1> USE DEF Shape
  <1> DEFINE r == IF fresh THEN w ELSE ProcessEvents(w, buffer)
  <1>1. /\ r \in Watch /\ r.kind = w.kind /\ r.teardown = w.teardown
        /\ r.on => r.calls = 0
    BY Processed DEF Ended, Types, StreamTypes
  <1>2. SetWatch(r) /\ buffer' = <<>>
    BY DEF StartWatch
  <1> HIDE DEF r
  <1>3. /\ watch' = r /\ req' \in BOOLEAN /\ readyTimer' \in BOOLEAN
        /\ \/ ~Teardown(r) /\ UNCHANGED <<req, readyTimer, conn>>
           \/ r.teardown /\ ~r.on /\ ~req' /\ ~readyTimer' /\ conn' = "none"
    BY <1>1, <1>2, SetWatchStream DEF Teardown
  <1>s. ServerTypes' /\ UNCHANGED listening /\ UNCHANGED up /\ buffer' \in Seq(EventLine)
    BY <1>2 DEF server, Types, ServerTypes
  <1>4. Types'
    BY <1>1, <1>3, <1>s DEF Types, StreamTypes, ClientTypes
  <1>5. ConnInv'
    BY <1>2, <1>3, <1>s DEF ConnInv, Snapshot
  <1>6. ProgramInv'
    BY <1>1, <1>3 DEF ProgramInv
  <1>7. WatchInv'
    BY <1>1, <1>3 DEF WatchInv
  <1> QED
    BY <1>4, <1>5, <1>6, <1>7

LEMMA WaitForEventShape == ASSUME Shape, WaitForEvent PROVE Shape'
  <1> DEFINE w == NewWatch("state", {}, TRUE)
  <1>1. w \in Watch /\ w.on /\ w.calls = 0 /\ w.kind = "state"
    BY Watches DEF Changed
  <1>2. StartWatch(w, FALSE) /\ FALSE \in BOOLEAN
    BY DEF WaitForEvent
  <1>3. /\ req /\ pc # "connecting" /\ outcome = "none" /\ action = "none"
        /\ program = "waitForZoneState"
    BY DEF WaitForEvent, Shape, ConnInv, ProgramInv
  <1> HIDE DEF w
  <1> QED
    BY <1>1, <1>2, <1>3, StartShape DEF WaitForEvent

LEMMA UninstallShape == ASSUME Shape, Uninstall PROVE Shape'
  <1> DEFINE w == NewWatch("changes", {"configured", "zfs_filesystem"}, FALSE)
  <1>1. w \in Watch /\ w.on /\ w.calls = 0 /\ w.kind = "changes" /\ ~w.teardown
    BY Watches DEF Changed
  <1>2. StartWatch(w, TRUE) /\ TRUE \in BOOLEAN
    BY DEF Uninstall
  <1>3. /\ req /\ pc # "connecting" /\ outcome = "none" /\ program = "deleteZone"
    BY DEF Uninstall, Shape, ConnInv, ProgramInv
  <1> HIDE DEF w
  <1> QED
    BY <1>1, <1>2, <1>3, StartShape DEF Uninstall

LEMMA UninstallDoneShape == ASSUME Shape, UninstallDone PROVE Shape'
  <1>1. CASE watch.err = "none"
    <2> DEFINE w == NewWatch("delete", {}, FALSE)
    <2>1. w \in Watch /\ w.on /\ w.calls = 0 /\ w.kind = "delete" /\ ~w.teardown
      BY Watches DEF Changed
    <2>2. StartWatch(w, TRUE) /\ TRUE \in BOOLEAN
      BY <1>1 DEF UninstallDone
    <2>3. /\ req /\ pc # "connecting" /\ outcome = "none" /\ program = "deleteZone"
      BY <1>1 DEF UninstallDone, Shape, ConnInv, ProgramInv, WatchInv
    <2> HIDE DEF w
    <2> QED
      BY <1>1, <2>1, <2>2, <2>3, StartShape DEF UninstallDone
  <1>2. CASE watch.err # "none"
    <2> USE DEF Shape
    <2>1. /\ UNCHANGED <<program, server, wire, buffer, conn, req, readyTimer>>
          /\ UNCHANGED <<mirror, watch, action>> /\ pc' = "end" /\ outcome' = "error"
          /\ pc = "uninstalling" /\ ~watch.on
      BY <1>2 DEF UninstallDone, Finished
    <2>2. Types'
      BY <2>1 DEF server, Types, ServerTypes, StreamTypes, ClientTypes
    <2>3. ConnInv'
      BY <2>1 DEF server, ConnInv, Snapshot
    <2>4. (ProgramInv /\ WatchInv)'
      BY <2>1 DEF ProgramInv, WatchInv
    <2> QED
      BY <2>2, <2>3, <2>4
  <1> QED
    BY <1>1, <1>2

\* The steps that change the zones, the position of the program or its watch,
\* and leave the stream alone.
LEMMA ProgramShape ==
    ASSUME Shape, sys' \in [Zone -> Obj], ClientTypes',
           UNCHANGED <<program, up, vmobjs, pend, listening, stream>>,
           ProgramInv', WatchInv',
           pc' = pc \/ (pc' \notin {"start", "connecting"} /\ pc \notin {"start", "connecting"}),
           pc' \in {"mirror", "wait", "halt", "uninstall"} => req
    PROVE  Shape'
  <1> USE DEF Shape, stream
  <1>1. Types'
    BY DEF Types, ServerTypes, StreamTypes
  <1>2. ConnInv'
    BY DEF ConnInv, Snapshot
  <1> QED
    BY <1>1, <1>2

LEMMA WaitDoneShape == ASSUME Shape, WaitDone PROVE Shape'
  <1> USE DEF Shape, WaitDone, server, stream
  <1>1. sys' \in [Zone -> Obj] /\ ClientTypes'
    BY DEF Types, ServerTypes, ClientTypes
  <1>2. (ProgramInv /\ WatchInv)'
    BY DEF ProgramInv, WatchInv, Finished
  <1> QED
    BY <1>1, <1>2, ProgramShape

LEMMA HaltShape == ASSUME Shape, Halt PROVE Shape'
  <1> USE DEF Shape, Halt
  <1>1. ClientTypes'
    BY DEF Types, ClientTypes
  <1>2. sys' \in [Zone -> Obj]
    <2>1. sys \in [Zone -> Obj] /\ sys[Target] \in Obj
      BY ClientAssumption DEF Types, ServerTypes
    <2>2. sys' = sys \/ (sys[Target].state = "running"
                         /\ sys' = [sys EXCEPT ![Target] = [sys[Target] EXCEPT !.state = "installed"]])
      OBVIOUS
    <2> QED
      BY <2>1, <2>2, Objects
  <1>3. (ProgramInv /\ WatchInv)'
    BY DEF ProgramInv, WatchInv
  <1>4. req
    BY DEF ConnInv
  <1> QED
    BY <1>1, <1>2, <1>3, <1>4, ProgramShape

\* A watch is called off, unless it is done.
LEMMA CancelledIs ==
    ASSUME Shape
    PROVE  \/ ~watch.on /\ Cancelled(watch) = watch
           \/ watch.on /\ Ended(watch, Cancelled(watch), "none")
  BY Watches DEF Cancelled, Shape, Types, ClientTypes, WatchInv

LEMMA UninstallRunsShape == ASSUME Shape, UninstallRuns PROVE Shape'
  <1> USE DEF Shape
  <1>0. /\ action \in {"uninstall", "uninstall2"}
        /\ UNCHANGED <<program, up, vmobjs, pend, listening, stream, pc, mirror, outcome>>
    BY DEF UninstallRuns
  <1>1. sys \in [Zone -> Obj] /\ sys[Target] \in Obj
    BY ClientAssumption DEF Types, ServerTypes
  <1>2. CASE /\ sys[Target].state = "installed"
             /\ sys' = [sys EXCEPT ![Target] =
                   IF action = "uninstall" THEN [@ EXCEPT !.zfs = FALSE]
                   ELSE [@ EXCEPT !.state = "configured"]]
             /\ action' = IF action = "uninstall" THEN "uninstall2" ELSE "done"
             /\ UNCHANGED watch
    <2>1. sys' \in [Zone -> Obj]
      BY <1>1, <1>2, Objects
    <2>2. ClientTypes'
      BY <1>0, <1>2 DEF Types, ClientTypes
    <2>3. (ProgramInv /\ WatchInv)'
      BY <1>0, <1>2 DEF ProgramInv, WatchInv, stream
    <2> QED
      BY <1>0, <2>1, <2>2, <2>3, ProgramShape DEF ConnInv
  <1>3. CASE /\ sys[Target].state # "installed"
             /\ watch' = Cancelled(watch) /\ action' = "done" /\ UNCHANGED sys
    <2>1. /\ watch' \in Watch /\ watch'.kind = watch.kind
          /\ watch'.teardown = watch.teardown
          /\ watch' = watch \/ (watch.on /\ ~watch'.on)
      BY <1>3, CancelledIs DEF Ended, Types, ClientTypes
    <2>2. ClientTypes'
      BY <1>0, <1>3, <2>1 DEF Types, ClientTypes
    <2>3. (ProgramInv /\ WatchInv)'
      BY <1>0, <1>3, <2>1, Watches DEF ProgramInv, WatchInv, stream
    <2> QED
      BY <1>0, <1>1, <1>3, <2>2, <2>3, ProgramShape DEF ConnInv
  <1> QED
    BY <1>2, <1>3 DEF UninstallRuns

LEMMA DeleteRunsShape == ASSUME Shape, DeleteRuns PROVE Shape'
  <1> USE DEF Shape
  <1>0. /\ action = "delete"
        /\ UNCHANGED <<program, up, vmobjs, pend, listening, stream, pc, mirror, outcome>>
    BY DEF DeleteRuns
  <1>1. sys \in [Zone -> Obj] /\ sys[Target] \in Obj
    BY ClientAssumption DEF Types, ServerTypes
  <1>2. CASE sys' = [sys EXCEPT ![Target] = Absent] /\ action' = "done" /\ UNCHANGED watch
    <2>1. sys' \in [Zone -> Obj]
      BY <1>1, <1>2, Objects
    <2>2. ClientTypes'
      BY <1>0, <1>2 DEF Types, ClientTypes
    <2>3. (ProgramInv /\ WatchInv)'
      BY <1>0, <1>2 DEF ProgramInv, WatchInv, stream
    <2> QED
      BY <1>0, <2>1, <2>2, <2>3, ProgramShape DEF ConnInv
  <1>3. CASE watch' = Cancelled(watch) /\ action' = "failed" /\ UNCHANGED sys
    <2>1. /\ watch' \in Watch /\ watch'.kind = watch.kind
          /\ watch'.teardown = watch.teardown /\ ~watch'.on
          /\ watch' = watch \/ (watch.on /\ ~watch'.on)
      BY <1>3, CancelledIs DEF Ended, Types, ClientTypes
    <2>2. ClientTypes'
      BY <1>0, <1>3, <2>1 DEF Types, ClientTypes
    <2>3. (ProgramInv /\ WatchInv)'
      BY <1>0, <1>3, <2>1, Watches DEF ProgramInv, WatchInv, stream
    <2> QED
      BY <1>0, <1>1, <1>3, <2>2, <2>3, ProgramShape DEF ConnInv
  <1> QED
    BY <1>2, <1>3 DEF DeleteRuns

LEMMA DeleteDoneShape == ASSUME Shape, DeleteDone PROVE Shape'
  <1> USE DEF Shape, DeleteDone, Stop, server
  <1>1. req' \in BOOLEAN /\ readyTimer' \in BOOLEAN
    BY Zenon
  <1>2. Types'
    BY <1>1 DEF Types, ServerTypes, StreamTypes, ClientTypes
  <1>3. ConnInv'
    BY DEF ConnInv, Snapshot
  <1>4. (ProgramInv /\ WatchInv)'
    BY DEF ProgramInv, WatchInv, Finished
  <1> QED
    BY <1>2, <1>3, <1>4

LEMMA StutterShape == ASSUME Shape, UNCHANGED vars PROVE Shape'
  BY DEF Shape, vars, server, stream, client, Types, ServerTypes, StreamTypes,
         ClientTypes, ConnInv, ProgramInv, WatchInv, Snapshot

LEMMA NextShape == ASSUME Shape, [Next]_vars PROVE Shape'
  <1>1. CASE Server
    BY <1>1, ObserveShape, EmitPendingShape, AcceptShape, CleanupShape DEF Server
  <1>2. CASE Stream
    BY <1>2, TransformShape, ReadableShape, RequestFailsShape DEF Stream
  <1>3. CASE Operation
    BY <1>3, ConnectShape, WaitForEventShape, WaitDoneShape, HaltShape, UninstallShape,
       UninstallRunsShape, UninstallDoneShape, DeleteRunsShape, DeleteDoneShape
       DEF Operation
  <1> QED
    BY <1>1, <1>2, <1>3, ChangeShape, ServerDiesShape, ServerStartsShape,
       ReadyTimeoutShape, WatchTimeoutShape, StutterShape DEF Next

-----------------------------------------------------------------------------
(* The lines under way.                                                    *)

\* What is in a sequence after a step.
LEMMA RangeOf ==
    ASSUME NEW S, NEW q \in Seq(S)
    PROVE  /\ Range(q) \subseteq S
           /\ q = <<>> => Range(q) = {}
           /\ q # <<>> => Range(q) = {Head(q)} \cup Range(Tail(q))
           /\ \A e \in S : Range(Append(q, e)) = Range(q) \cup {e}
  <1>1. Range(q) \subseteq S /\ DOMAIN q = 1 .. Len(q) /\ Len(q) \in Nat
    BY DEF Range
  <1>2. q = <<>> => Range(q) = {}
    BY DEF Range
  <1>3. ASSUME q # <<>> PROVE Range(q) = {Head(q)} \cup Range(Tail(q))
    <2> DEFINE t == Tail(q)
    <2>1. /\ Len(q) \in Nat \ {0} /\ Head(q) = q[1] /\ t \in Seq(S)
          /\ Len(t) = Len(q) - 1 /\ \A i \in 1 .. Len(t) : t[i] = q[i + 1]
      BY <1>3, TailOf
    <2> HIDE DEF t
    <2>2. DOMAIN t = 1 .. Len(t)
      BY <2>1
    <2>3. ASSUME NEW x \in Range(q) PROVE x \in {Head(q)} \cup Range(t)
      <3>1. PICK i \in 1 .. Len(q) : x = q[i]
        BY <1>1 DEF Range
      <3>2. CASE i = 1
        BY <2>1, <3>1, <3>2
      <3>3. CASE i # 1
        <4>1. i - 1 \in 1 .. Len(t) /\ t[i - 1] = q[i]
          BY <2>1, <3>3
        <4> QED
          BY <2>2, <3>1, <4>1 DEF Range
      <3> QED
        BY <3>2, <3>3
    <2>4. ASSUME NEW x \in Range(t) PROVE x \in Range(q)
      <3>1. PICK i \in 1 .. Len(t) : x = t[i]
        BY <2>2 DEF Range
      <3>2. i + 1 \in 1 .. Len(q) /\ x = q[i + 1]
        BY <2>1, <3>1
      <3> QED
        BY <1>1, <3>2 DEF Range
    <2>5. Head(q) \in Range(q)
      BY <1>1, <2>1 DEF Range
    <2> QED
      BY <2>3, <2>4, <2>5 DEF t
  <1>4. ASSUME NEW e \in S PROVE Range(Append(q, e)) = Range(q) \cup {e}
    <2> DEFINE a == Append(q, e)
    <2>1. /\ a \in Seq(S) /\ Len(a) = Len(q) + 1 /\ a[Len(q) + 1] = e
          /\ \A i \in 1 .. Len(q) : a[i] = q[i]
      BY AppendOf
    <2> HIDE DEF a
    <2>2. DOMAIN a = 1 .. Len(a)
      BY <2>1
    <2> QED
      BY <1>1, <2>1, <2>2 DEF Range, a
  <1> QED
    BY <1>1, <1>2, <1>3, <1>4

\* An event is added, if somebody listens.
LEMMA EmittedLines ==
    ASSUME Shape, NEW ev \in EventLine, Emit(ev), UNCHANGED buffer
    PROVE  Lines' = IF listening THEN Lines \cup {ev} ELSE Lines
  <1>1. wire \in Seq(ReadyLine \cup EventLine) /\ ev \in ReadyLine \cup EventLine
    BY DEF Shape, Types, StreamTypes
  <1>2. Range(Append(wire, ev)) = Range(wire) \cup {ev}
    BY <1>1, RangeOf
  <1> QED
    BY <1>2 DEF Emit, Lines

\* _transform hands a line on, or forgets it when the stream was stopped.
LEMMA TransformedLines ==
    ASSUME Shape, Transform
    PROVE  /\ Lines' \subseteq Lines /\ Head(wire) \in Lines
           /\ req /\ Head(wire).type # "ready" => Lines' = Lines
           /\ Lines \subseteq Lines' \cup {Head(wire)}
  <1>1. wire \in Seq(ReadyLine \cup EventLine) /\ buffer \in Seq(EventLine)
    BY DEF Shape, Types, StreamTypes
  <1>2. wire # <<>> /\ wire' = Tail(wire)
    BY DEF Transform
  <1>3. Range(wire) = {Head(wire)} \cup Range(wire')
    BY <1>1, <1>2, RangeOf
  <1>4. \/ buffer' = buffer /\ ~(req /\ Head(wire).type # "ready")
        \/ /\ buffer' = Append(buffer, Head(wire)) /\ Head(wire).type # "ready"
           /\ Head(wire) \in EventLine
    BY Transformed DEF Transform
  <1>a. Head(wire) \in EventLine =>
           Range(Append(buffer, Head(wire))) = Range(buffer) \cup {Head(wire)}
    BY <1>1, RangeOf
  <1>5. \/ Range(buffer') = Range(buffer) /\ ~(req /\ Head(wire).type # "ready")
        \/ Range(buffer') = Range(buffer) \cup {Head(wire)}
    BY <1>4, <1>a
  <1> QED
    BY <1>3, <1>5 DEF Lines

\* After a read of the buffer the lines of the wire are left.
LEMMA ReadLines == ASSUME buffer' = <<>>, UNCHANGED wire
                   PROVE  Lines' = Range(wire) /\ Lines' \subseteq Lines
  BY DEF Lines, Range

\* The snapshot is the first line.
LEMMA AcceptedLines == ASSUME Shape, Accept PROVE Lines' = {Ready(vmobjs)}
  <1>1. buffer' = <<>> /\ wire' = <<Ready(vmobjs)>>
    BY DEF Accept, Shape, ConnInv
  <1>2. Range(wire') = {Ready(vmobjs)} /\ Range(buffer') = {}
    BY <1>1 DEF Range
  <1> QED
    BY <1>2 DEF Lines

-----------------------------------------------------------------------------
(* Events that are to come.                                                *)

\* Who changes what vminfod has.
LEMMA ServerSteps ==
    ASSUME [Next]_vars
    PROVE  \/ \E z \in Zone : Observe(z) \/ EmitPending(z)
           \/ ServerDies
           \/ ServerStarts
           \/ UNCHANGED <<pend, vmobjs, up>>
  <1>1. CASE \/ Accept \/ Cleanup \/ Stream \/ ReadyTimeout \/ WatchTimeout
             \/ UNCHANGED vars
             \/ \E z \in Zone, vm \in {Absent, Configured, Installed, Running} :
                   Change(z, vm)
    BY <1>1 DEF Accept, Cleanup, Stream, Transform, Readable, RequestFails, ReadyTimeout,
       WatchTimeout, vars, server, Change
  <1>2. CASE Operation
    BY <1>2 DEF Operation, Connect, WaitForEvent, WaitDone, Halt, Uninstall,
       UninstallRuns, UninstallDone, DeleteRuns, DeleteDone, server
  <1> QED
    BY <1>1, <1>2 DEF Next, Server

LEMMA NextPend == ASSUME Shape, PendInv, [Next]_vars PROVE PendInv'
  <1> USE DEF PendInv
  <1>1. CASE \E z \in Zone : Observe(z)
    BY <1>1 DEF Observe, Shape, Types, ServerTypes
  <1>2. CASE \E z \in Zone : EmitPending(z)
    BY <1>2 DEF EmitPending, Shape, Types, ServerTypes
  <1>3. CASE ServerDies
    BY <1>3 DEF ServerDies
  <1>4. CASE ServerStarts
    BY <1>4 DEF ServerStarts
  <1>5. CASE UNCHANGED <<pend, vmobjs, up>>
    BY <1>5
  <1> QED
    BY <1>1, <1>2, <1>3, <1>4, <1>5, ServerSteps

-----------------------------------------------------------------------------
(* deleteZone.                                                             *)

\* A program stays what it is.
LEMMA SameProgram == ASSUME [Next]_vars PROVE program' = program
  <1>1. CASE Operation
    BY <1>1 DEF Operation, Connect, WaitForEvent, WaitDone, Halt, Uninstall,
       UninstallRuns, UninstallDone, DeleteRuns, DeleteDone
  <1>2. CASE Server \/ Stream
    BY <1>2 DEF Server, Observe, EmitPending, Accept, Cleanup, Stream, Transform, Readable,
       RequestFails
  <1> QED
    BY <1>1, <1>2 DEF Next, Change, ServerDies, ServerStarts, ReadyTimeout, WatchTimeout, vars

\* The zone of deleteZone is not created again.
LEMMA StaysAbsent ==
    ASSUME Shape, program = "deleteZone", sys[Target] = Absent, [Next]_vars
    PROVE  sys'[Target] = Absent
  <1> USE ClientAssumption
  <1>0. sys[Target].state = "absent" /\ sys \in [Zone -> Obj]
    BY DEF Absent, Shape, Types, ServerTypes
  <1>1. ASSUME NEW z \in Zone, NEW vm, Change(z, vm) PROVE FALSE
    BY <1>1 DEF Change, Absent, Installed, Running
  <1>2. CASE Halt
    BY <1>0, <1>2 DEF Halt
  <1>3. CASE UninstallRuns
    BY <1>0, <1>3 DEF UninstallRuns
  <1>4. CASE DeleteRuns
    BY <1>0, <1>4 DEF DeleteRuns
  <1>5. CASE \/ Connect \/ WaitForEvent \/ WaitDone \/ Uninstall \/ UninstallDone
             \/ DeleteDone
    BY <1>5 DEF Connect, WaitForEvent, WaitDone, Uninstall, UninstallDone, DeleteDone,
                server
  <1>6. CASE Server \/ Stream
    BY <1>6 DEF Server, Observe, EmitPending, Accept, Cleanup, Stream, Transform, Readable,
       RequestFails, server
  <1> QED
    BY <1>1, <1>2, <1>3, <1>4, <1>5, <1>6
       DEF Next, Operation, ServerDies, ServerStarts, ReadyTimeout, WatchTimeout, vars, server

\* vminfod takes up what the system has.
LEMMA VmobjsFollow ==
    ASSUME Shape, [Next]_vars
    PROVE  \/ UNCHANGED <<vmobjs, up>>
           \/ up' /\ vmobjs'[Target] = sys[Target] /\ UNCHANGED sys
           \/ ~up'
           \/ up' = up /\ vmobjs'[Target] = vmobjs[Target]
  <1> USE ClientAssumption
  <1>1. CASE \E z \in Zone : Observe(z)
    <2>1. PICK z \in Zone : Observe(z)
      BY <1>1
    <2>2. vmobjs' = [vmobjs EXCEPT ![z] = sys[z]] /\ up /\ up' = up /\ UNCHANGED sys
      BY <2>1 DEF Observe
    <2> QED
      BY <2>2 DEF Shape, Types, ServerTypes
  <1>2. CASE \E z \in Zone : EmitPending(z)
    BY <1>2 DEF EmitPending
  <1>3. CASE ServerDies
    BY <1>3 DEF ServerDies
  <1>4. CASE ServerStarts
    BY <1>4 DEF ServerStarts
  <1> QED
    BY <1>1, <1>2, <1>3, <1>4, ServerSteps

LEMMA GoneStays ==
    ASSUME Shape, program = "deleteZone", [Next]_vars, Gone
    PROVE  Gone'
  BY StaysAbsent, VmobjsFollow DEF Gone

LEMMA NextKnownAbsent ==
    ASSUME Shape, program = "deleteZone", KnownAbsent, [Next]_vars
    PROVE  KnownAbsent'
  <1> SUFFICES ASSUME up', vmobjs'[Target] = Absent PROVE sys'[Target] = Absent
    BY DEF KnownAbsent
  <1>1. CASE up /\ vmobjs'[Target] = vmobjs[Target]
    BY <1>1, StaysAbsent DEF KnownAbsent
  <1>2. CASE vmobjs'[Target] = sys[Target] /\ UNCHANGED sys
    BY <1>2
  <1> QED
    BY <1>1, <1>2, VmobjsFollow


\* Who changes the lines under way.
LEMMA LineSteps ==
    ASSUME [Next]_vars
    PROVE  \/ \E z \in Zone : Observe(z) \/ EmitPending(z)
           \/ Accept \/ Connect \/ Transform
           \/ UNCHANGED <<wire, buffer>>
           \/ /\ UNCHANGED wire /\ buffer' = <<>>
              /\ Readable \/ WaitForEvent \/ Uninstall \/ UninstallDone
  <1>1. CASE Cleanup \/ RequestFails \/ ReadyTimeout \/ WatchTimeout \/ ServerDies
             \/ ServerStarts \/ UNCHANGED vars
             \/ \E z \in Zone, vm \in {Absent, Configured, Installed, Running} :
                   Change(z, vm)
    BY <1>1 DEF Cleanup, RequestFails, ReadyTimeout, WatchTimeout, ServerDies, ServerStarts,
       EmitError, Stop, Change, vars, stream
  <1>2. CASE \/ WaitForEvent \/ Uninstall \/ UninstallDone \/ Readable
    BY <1>2 DEF WaitForEvent, Uninstall, UninstallDone, Readable, StartWatch
  <1>3. CASE WaitDone \/ Halt \/ UninstallRuns \/ DeleteRuns \/ DeleteDone
    BY <1>3 DEF WaitDone, Halt, UninstallRuns, DeleteRuns, DeleteDone, Stop, stream
  <1> QED
    BY <1>1, <1>2, <1>3 DEF Next, Server, Stream, Operation

\* Emitting is the only way a line of an event comes about.
LEMMA NextLinesTrue ==
    ASSUME Shape, PendInv, program = "deleteZone", KnownAbsent, LinesTrue, [Next]_vars
    PROVE  LinesTrue'
  <1>0. Gone => Gone'
    BY GoneStays
  <1>1. CASE Lines' \subseteq Lines
    BY <1>0, <1>1 DEF LinesTrue, Deletion
  <1>2. ASSUME NEW z \in Zone, Observe(z) PROVE LinesTrue'
    <2>1. CASE UNCHANGED <<wire, buffer>>
      BY <1>1, <2>1 DEF Lines
    <2> DEFINE ev == Event("modify", z, sys[z], Diff(vmobjs[z], sys[z]))
    <2>2. CASE Emit(ev) /\ UNCHANGED buffer
      <3>1. ev \in EventLine /\ ~Deletion(ev)
        BY DEF Event, EventLine, Diff, Changed, Deletion, Shape, Types, ServerTypes
      <3> HIDE DEF ev
      <3>2. Lines' \subseteq Lines \cup {ev}
        BY <2>2, <3>1, EmittedLines
      <3> QED
        BY <1>0, <3>1, <3>2 DEF LinesTrue, Deletion
    <2> QED
      BY <1>2, <2>1, <2>2 DEF Observe
  <1>3. ASSUME NEW z \in Zone, EmitPending(z) PROVE LinesTrue'
    <2> DEFINE ev == Event(pend[z], z, vmobjs[z], {})
    <2>1. pend[z] \in {"create", "delete"} /\ vmobjs[z] \in Obj /\ up
      BY <1>3 DEF EmitPending, Shape, Types, ServerTypes
    <2>2. ev \in EventLine /\ (Deletion(ev) => z = Target /\ pend[z] = "delete")
      BY <2>1 DEF Event, EventLine, Deletion
    <2>3. Deletion(ev) => Gone
      BY <2>1, <2>2 DEF PendInv, KnownAbsent, Gone
    <2>4. Emit(ev) /\ UNCHANGED buffer
      BY <1>3 DEF EmitPending
    <2> HIDE DEF ev
    <2>5. Lines' \subseteq Lines \cup {ev}
      BY <2>2, <2>4, EmittedLines
    <2> QED
      BY <1>0, <2>3, <2>5 DEF LinesTrue, Deletion
  <1>4. CASE Accept
    BY <1>4, AcceptedLines DEF LinesTrue, Deletion, Ready
  <1>5. CASE Connect
    <2>1. wire' = <<>> /\ buffer' = <<>>
      BY <1>5 DEF Connect, Start
    <2> QED
      BY <1>1, <2>1 DEF Lines, Range
  <1>6. CASE Transform
    BY <1>1, <1>6, TransformedLines
  <1>7. CASE UNCHANGED <<wire, buffer>>
    BY <1>1, <1>7 DEF Lines
  <1>8. CASE UNCHANGED wire /\ buffer' = <<>>
    BY <1>1, <1>8, ReadLines
  <1> QED
    BY <1>2, <1>3, <1>4, <1>5, <1>6, <1>7, <1>8, LineSteps

\* Who changes the watch and the command next to it.
LEMMA WatchSteps ==
    ASSUME [Next]_vars
    PROVE  \/ RequestFails \/ ReadyTimeout \/ WatchTimeout \/ Readable
           \/ WaitForEvent \/ Uninstall \/ UninstallDone \/ UninstallRuns \/ DeleteRuns
           \/ UNCHANGED <<watch, action>>
  <1>1. CASE \/ Server \/ ServerDies \/ ServerStarts \/ Transform \/ UNCHANGED vars
             \/ \E z \in Zone, vm \in {Absent, Configured, Installed, Running} :
                   Change(z, vm)
    BY <1>1 DEF Server, Observe, EmitPending, Accept, Cleanup, ServerDies, ServerStarts,
       Transform, OnReady, Change, vars, client
  <1>2. CASE Connect \/ WaitDone \/ Halt \/ DeleteDone
    BY <1>2 DEF Connect, WaitDone, Halt, DeleteDone
  <1> QED
    BY <1>1, <1>2 DEF Next, Stream, Operation

\* What a read does to a watch.
LEMMA ReadWatch ==
    ASSUME Shape, Readable
    PROVE  /\ UNCHANGED action
           /\ \/ ~watch.on /\ UNCHANGED watch
              \/ /\ watch.on /\ Ended(watch, watch', "none")
                 /\ watch.kind # "changes" => \E ev \in Range(buffer) : Matches(watch, ev)
              \/ /\ watch.on /\ watch'.on /\ watch'.kind = watch.kind /\ watch'.calls = 0
                 /\ watch.kind # "changes" => ~ \E ev \in Range(buffer) : Matches(watch, ev)
  <1>1. UNCHANGED action
    BY DEF Readable
  <1>2. CASE pc = "mirror" /\ UNCHANGED watch
    BY <1>1, <1>2 DEF Shape, WatchInv
  <1>3. CASE watch.on /\ SetWatch(ProcessEvents(watch, buffer))
    <2>1. watch' = ProcessEvents(watch, buffer)
      BY <1>3 DEF SetWatch
    <2>2. watch \in Watch /\ watch.calls = 0 /\ buffer \in Seq(EventLine)
      BY <1>3 DEF Shape, Types, StreamTypes, ClientTypes, WatchInv
    <2> QED
      BY <1>1, <1>3, <2>1, <2>2, Processed
  <1> QED
    BY <1>2, <1>3 DEF Readable

\* Errors and timeouts.
LEMMA ErrorWatch ==
    ASSUME Shape, RequestFails \/ ReadyTimeout \/ WatchTimeout
    PROVE  /\ UNCHANGED action /\ outcome' # "ok"
           /\ UNCHANGED watch \/ (watch.on /\ ~watch'.on /\ watch'.err # "none"
                                  /\ watch'.kind = watch.kind)
  <1>1. outcome = "none"
    BY DEF RequestFails, ReadyTimeout, WatchTimeout, Shape, ConnInv, ProgramInv
  <1>2. \/ UNCHANGED watch
        \/ watch.on /\ \E err \in {"stream", "timeout"} : watch' = Done(watch, err)
    BY DEF RequestFails, ReadyTimeout, WatchTimeout, EmitError
  <1>3. watch.on => \A err \in {"stream", "timeout"} : Ended(watch, Done(watch, err), err)
    BY Watches DEF Shape, Types, ClientTypes, WatchInv
  <1>4. UNCHANGED action /\ outcome' \in {outcome, "died"}
    BY DEF RequestFails, ReadyTimeout, WatchTimeout, EmitError
  <1> QED
    BY <1>1, <1>2, <1>3, <1>4 DEF Ended

LEMMA NextWatchTrue ==
    ASSUME Shape, program = "deleteZone", LinesTrue, WatchTrue, [Next]_vars
    PROVE  WatchTrue'
  <1>0. Gone => Gone'
    BY GoneStays
  <1>1. CASE UNCHANGED <<watch, action>>
    BY <1>0, <1>1 DEF WatchTrue
  <1>2. CASE RequestFails \/ ReadyTimeout \/ WatchTimeout
    <2>1. UNCHANGED <<watch, action>> \/ watch'.err # "none"
      BY <1>2, ErrorWatch
    <2> QED
      BY <1>1, <2>1 DEF WatchTrue
  <1>3. CASE Readable
    <2>1. CASE UNCHANGED <<watch, action>>
      BY <1>1, <2>1
    <2>2. CASE watch'.calls = 0
      BY <2>2 DEF WatchTrue
    <2>3. CASE /\ watch'.kind = watch.kind /\ watch.kind = "delete"
               /\ \E ev \in Range(buffer) : Matches(watch, ev)
      <3>1. PICK ev \in Range(buffer) : Matches(watch, ev)
        BY <2>3
      <3>2. Deletion(ev) /\ ev \in Lines
        BY <2>3, <3>1 DEF Matches, Deletion, Lines
      <3> QED
        BY <1>0, <3>2 DEF LinesTrue, WatchTrue
    <2>4. CASE watch'.kind # "delete"
      BY <2>4 DEF WatchTrue
    <2> QED
      BY <1>3, <2>1, <2>2, <2>3, <2>4, ReadWatch DEF Ended
  <1>4. CASE WaitForEvent
    BY <1>4 DEF WaitForEvent, Shape, ProgramInv
  <1>5. CASE Uninstall
    <2>1. watch' = NewWatch("changes", {"configured", "zfs_filesystem"}, FALSE)
      BY <1>5 DEF Uninstall, StartWatch, SetWatch
    <2>2. watch'.kind = "changes"
      BY <2>1, Watches DEF Changed
    <2> QED
      BY <2>2 DEF WatchTrue
  <1>6. CASE UninstallDone
    <2>1. CASE UNCHANGED <<watch, action>>
      BY <1>1, <2>1
    <2>2. CASE watch' = NewWatch("delete", {}, FALSE)
      <3>1. watch'.calls = 0
        BY <2>2, Watches DEF Changed
      <3> QED
        BY <3>1 DEF WatchTrue
    <2> QED
      BY <1>6, <2>1, <2>2 DEF UninstallDone, StartWatch, SetWatch
  <1>7. CASE UninstallRuns
    <2>1. watch.kind = "changes"
      BY <1>7 DEF UninstallRuns, Shape, ProgramInv
    <2>2. UNCHANGED watch \/ watch' = Cancelled(watch)
      BY <1>7 DEF UninstallRuns
    <2>3. watch'.kind = "changes"
      BY <2>1, <2>2, CancelledIs DEF Ended
    <2> QED
      BY <2>3 DEF WatchTrue
  <1>8. CASE DeleteRuns
    <2>1. action = "delete" /\ (UNCHANGED watch \/ action' = "failed")
      BY <1>8 DEF DeleteRuns
    <2> QED
      BY <1>0, <2>1 DEF WatchTrue
  <1> QED
    BY <1>1, <1>2, <1>3, <1>4, <1>5, <1>6, <1>7, <1>8, WatchSteps

\* Who calls back.
LEMMA OutcomeSteps ==
    ASSUME [Next]_vars
    PROVE  \/ UNCHANGED outcome
           \/ RequestFails \/ ReadyTimeout \/ Transform \/ WaitDone \/ UninstallDone
           \/ DeleteDone
  <1>1. CASE \/ Server \/ ServerDies \/ ServerStarts \/ Readable \/ WatchTimeout
             \/ UNCHANGED vars
             \/ \E z \in Zone, vm \in {Absent, Configured, Installed, Running} :
                   Change(z, vm)
    BY <1>1 DEF Server, Observe, EmitPending, Accept, Cleanup, ServerDies, ServerStarts,
       Readable, WatchTimeout, Change, vars, client
  <1>2. CASE Connect \/ WaitForEvent \/ Halt \/ Uninstall \/ UninstallRuns \/ DeleteRuns
    BY <1>2 DEF Connect, WaitForEvent, Halt, Uninstall, UninstallRuns, DeleteRuns
  <1> QED
    BY <1>1, <1>2 DEF Next, Stream, Operation

LEMMA NextOutcomeTrue ==
    ASSUME Shape, program = "deleteZone", WatchTrue, OutcomeTrue, [Next]_vars
    PROVE  OutcomeTrue'
  <1>0. Gone => Gone'
    BY GoneStays
  <1>1. CASE UNCHANGED outcome
    BY <1>0, <1>1 DEF OutcomeTrue
  <1>2. CASE outcome' # "ok"
    BY <1>2 DEF OutcomeTrue
  <1>3. CASE RequestFails \/ ReadyTimeout
    BY <1>2, <1>3, ErrorWatch
  <1>4. CASE Transform
    BY <1>1, <1>2, <1>4 DEF Transform, OnReady, client
  <1>5. CASE WaitDone
    BY <1>5 DEF WaitDone, Shape, ProgramInv
  <1>6. CASE UninstallDone
    BY <1>1, <1>2, <1>6 DEF UninstallDone
  <1>7. CASE DeleteDone
    <2>1. CASE watch.err = "none" /\ action = "done"
      <3>1. watch.kind = "delete" /\ watch.calls = 1
        BY <1>7 DEF DeleteDone, Finished, Shape, WatchInv, Types, ClientTypes, Watch
      <3>2. Gone
        BY <2>1, <3>1 DEF WatchTrue
      <3> QED
        BY <1>0, <3>2 DEF OutcomeTrue
    <2>2. CASE ~(watch.err = "none" /\ action = "done")
      BY <1>2, <1>7, <2>2 DEF DeleteDone
    <2> QED
      BY <2>1, <2>2
  <1> QED
    BY <1>1, <1>3, <1>4, <1>5, <1>6, <1>7, OutcomeSteps

\* Listeners are there from the request on.
LEMMA ListeningSteps ==
    ASSUME [Next]_vars, ~Accept, listening'
    PROVE  listening
  <1>1. CASE Server \/ Stream
    BY <1>1 DEF Server, Observe, EmitPending, Cleanup, Stream, Transform, Readable,
       RequestFails, server
  <1>2. CASE Operation
    BY <1>2 DEF Operation, Connect, WaitForEvent, WaitDone, Halt, Uninstall,
       UninstallRuns, UninstallDone, DeleteRuns, DeleteDone, server
  <1> QED
    BY <1>1, <1>2 DEF Next, Change, ServerDies, ServerStarts, ReadyTimeout, WatchTimeout,
       vars, server

\* What vminfod emits for a zone: nothing is forgotten while somebody listens.
LEMMA ObserveTarget ==
    ASSUME Shape, NEW z \in Zone, Observe(z)
    PROVE  /\ Lines \subseteq Lines' /\ sys' = sys /\ vmobjs'[z] = sys[z] /\ up
           /\ \A y \in Zone \ {z} : pend'[y] = pend[y] /\ vmobjs'[y] = vmobjs[y]
           /\ sys[z] # vmobjs[z] /\ pend[z] = "none"
           /\ \/ vmobjs[z] = Absent /\ pend'[z] = "create"
              \/ vmobjs[z] # Absent /\ sys[z] = Absent /\ pend'[z] = "delete"
              \/ /\ Absent \notin {vmobjs[z], sys[z]} /\ pend'[z] = "none"
                 /\ listening => \E ev \in Lines' : ev.type = "modify" /\ ev.zone = z
                                                    /\ ev.vm = sys[z]
  <1> DEFINE ev == Event("modify", z, sys[z], Diff(vmobjs[z], sys[z]))
  <1>1. ev \in EventLine /\ ev.type = "modify" /\ ev.zone = z /\ ev.vm = sys[z]
    BY DEF Event, EventLine, Diff, Changed, Shape, Types, ServerTypes
  <1>2. /\ sys' = sys /\ vmobjs' = [vmobjs EXCEPT ![z] = sys[z]] /\ up
        /\ pend[z] = "none" /\ sys[z] # vmobjs[z] /\ buffer' = buffer
    BY DEF Observe
  <1>3. vmobjs \in [Zone -> Obj] /\ pend \in [Zone -> {"none", "create", "delete"}]
    BY DEF Shape, Types, ServerTypes
  <1>4. CASE vmobjs[z] = Absent /\ pend' = [pend EXCEPT ![z] = "create"] /\ UNCHANGED wire
    BY <1>2, <1>3, <1>4 DEF Lines
  <1>5. CASE /\ vmobjs[z] # Absent /\ sys[z] = Absent
             /\ pend' = [pend EXCEPT ![z] = "delete"] /\ UNCHANGED wire
    BY <1>2, <1>3, <1>5 DEF Lines
  <1>6. CASE Absent \notin {vmobjs[z], sys[z]} /\ UNCHANGED pend /\ Emit(ev)
    <2> HIDE DEF ev
    <2>1. Lines' = IF listening THEN Lines \cup {ev} ELSE Lines
      BY <1>1, <1>2, <1>6, EmittedLines
    <2> QED
      BY <1>1, <1>2, <1>3, <1>6, <2>1
  <1> QED
    BY <1>4, <1>5, <1>6 DEF Observe

LEMMA EmitPendingTarget ==
    ASSUME Shape, NEW z \in Zone, EmitPending(z)
    PROVE  /\ Lines \subseteq Lines' /\ UNCHANGED <<sys, vmobjs, up>> /\ up
           /\ \A y \in Zone \ {z} : pend'[y] = pend[y]
           /\ pend[z] # "none" /\ pend'[z] = "none"
           /\ listening => \E ev \in Lines' : ev.type = pend[z] /\ ev.zone = z
                                              /\ ev.vm = vmobjs[z]
  <1> DEFINE ev == Event(pend[z], z, vmobjs[z], {})
  <1>0. pend[z] \in {"create", "delete"} /\ vmobjs[z] \in Obj
    BY DEF EmitPending, Shape, Types, ServerTypes
  <1>1. ev \in EventLine /\ ev.type = pend[z] /\ ev.zone = z /\ ev.vm = vmobjs[z]
    BY <1>0 DEF Event, EventLine
  <1>2. /\ UNCHANGED <<sys, vmobjs, up, buffer>> /\ up /\ Emit(ev)
        /\ pend' = [pend EXCEPT ![z] = "none"] /\ pend[z] # "none"
    BY DEF EmitPending
  <1>3. pend \in [Zone -> {"none", "create", "delete"}]
    BY DEF Shape, Types, ServerTypes
  <1> HIDE DEF ev
  <1>4. Lines' = IF listening THEN Lines \cup {ev} ELSE Lines
    BY <1>1, <1>2, EmittedLines
  <1> QED
    BY <1>1, <1>2, <1>3, <1>4

\* A watch that waits for the deletion after its own zonecfg has waited before,
\* or begins to with the VM in vminfod.
LEMMA StillWaiting ==
    ASSUME Shape, program = "deleteZone", KnownAbsent, [Next]_vars,
           watch'.kind = "delete", watch'.on, action' = "done", listening',
           vmobjs'[Target] = Absent
    PROVE  watch.kind = "delete" /\ watch.on /\ action = "done"
  <1>1. CASE UNCHANGED <<watch, action>>
    BY <1>1
  <1>2. CASE RequestFails \/ ReadyTimeout \/ WatchTimeout
    BY <1>2, ErrorWatch
  <1>3. CASE Readable
    BY <1>3, ReadWatch DEF Ended
  <1>4. CASE WaitForEvent
    BY <1>4 DEF WaitForEvent, Shape, ProgramInv
  <1>5. CASE Uninstall \/ UninstallDone
    BY <1>1, <1>5 DEF Uninstall, UninstallDone
  <1>6. CASE UninstallRuns
    <2>1. watch.kind = "changes"
      BY <1>6 DEF UninstallRuns, Shape, ProgramInv
    <2>2. UNCHANGED watch \/ watch' = Cancelled(watch)
      BY <1>6 DEF UninstallRuns
    <2> QED
      BY <2>1, <2>2, CancelledIs DEF Ended
  <1>7. CASE DeleteRuns
    <2>1. sys[Target] # Absent /\ UNCHANGED <<vmobjs, up, listening>>
      BY <1>7 DEF DeleteRuns
    <2>2. up
      BY <2>1 DEF Shape, ConnInv
    <2> QED
      BY <2>1, <2>2 DEF KnownAbsent
  <1> QED
    BY <1>1, <1>2, <1>3, <1>4, <1>5, <1>6, <1>7, WatchSteps

LEMMA NextNotMissed ==
    ASSUME Shape, program = "deleteZone", KnownAbsent, NotMissed, [Next]_vars
    PROVE  NotMissed'
  <1> DEFINE Comes == pend[Target] = "delete" \/ \E ev \in Lines : Deletion(ev)
  <1> SUFFICES ASSUME watch'.kind = "delete", watch'.on, action' = "done", listening',
                      vmobjs'[Target] = Absent
               PROVE  Comes'
    BY DEF NotMissed
  <1> USE ClientAssumption
  <1>1. watch.kind = "delete" /\ watch.on /\ action = "done"
    BY StillWaiting
  <1>2. req /\ pc \notin {"start", "connecting"} /\ conn # "requested"
    BY <1>1 DEF Shape, WatchInv, ConnInv
  <1>3. listening /\ up
    <2>1. ~Accept
      BY <1>2 DEF Accept
    <2> QED
      BY <2>1, ListeningSteps DEF Shape, ConnInv
  <1>4. vmobjs[Target] = Absent => Comes
    BY <1>1, <1>3 DEF NotMissed
  <1> HIDE DEF Comes
  <1>5. ASSUME Comes, Lines \subseteq Lines', UNCHANGED pend PROVE Comes'
    BY <1>5 DEF Comes, Deletion
  <1>6. ASSUME NEW z \in Zone, Observe(z) PROVE Comes'
    <2>1. CASE z = Target
      BY <1>6, <2>1, ObserveTarget DEF Comes
    <2>2. CASE z # Target
      BY <1>4, <1>6, <2>2, ObserveTarget DEF Comes, Deletion
    <2> QED
      BY <2>1, <2>2
  <1>7. ASSUME NEW z \in Zone, EmitPending(z) PROVE Comes'
    <2>1. CASE z = Target
      <3>1. /\ Lines \subseteq Lines' /\ vmobjs' = vmobjs
            /\ \E ev \in Lines' : ev.type = pend[Target] /\ ev.zone = Target
        BY <1>3, <1>7, <2>1, EmitPendingTarget
      <3>2. Comes
        BY <1>4, <3>1
      <3> QED
        BY <3>1, <3>2 DEF Comes, Deletion
    <2>2. CASE z # Target
      BY <1>4, <1>7, <2>2, EmitPendingTarget DEF Comes, Deletion
    <2> QED
      BY <2>1, <2>2
  <1>8. CASE ServerDies \/ ServerStarts
    BY <1>3, <1>8 DEF ServerDies, ServerStarts
  <1>9. CASE UNCHANGED <<pend, vmobjs, up>>
    <2>1. Comes
      BY <1>4, <1>9
    <2>2. CASE Accept \/ Connect
      BY <1>2, <2>2 DEF Accept, Connect
    <2>3. CASE Transform
      <3>1. Head(wire).type = "ready" => ~Deletion(Head(wire))
        BY DEF Deletion
      <3> QED
        BY <1>2, <1>9, <2>1, <2>3, <3>1, TransformedLines DEF Comes, Deletion
    <2>4. CASE UNCHANGED <<wire, buffer>>
      BY <1>5, <1>9, <2>1, <2>4 DEF Lines
    <2>5. CASE Readable /\ UNCHANGED wire /\ buffer' = <<>>
      <3>1. ~ \E ev \in Range(buffer) : Matches(watch, ev)
        BY <1>1, <2>5, ReadWatch DEF Ended
      <3>2. \A ev \in Range(buffer) : ~Deletion(ev)
        BY <1>1, <3>1 DEF Matches, Deletion
      <3>3. Lines' = Range(wire)
        BY <2>5, ReadLines
      <3> QED
        BY <1>9, <2>1, <3>2, <3>3 DEF Comes, Lines, Deletion
    <2>6. CASE WaitForEvent \/ Uninstall \/ UninstallDone
      BY <1>1, <2>6 DEF WaitForEvent, Uninstall, UninstallDone, Shape, WatchInv
    <2> QED
      BY <1>6, <1>7, <2>2, <2>3, <2>4, <2>5, <2>6, LineSteps
  <1> QED
    BY <1>6, <1>7, <1>8, <1>9, ServerSteps

LEMMA NextDelete ==
    ASSUME Shape, PendInv, DeleteInv, [Next]_vars
    PROVE  DeleteInv'
  <1> SUFFICES ASSUME program' = "deleteZone"
               PROVE  KnownAbsent' /\ LinesTrue' /\ WatchTrue' /\ OutcomeTrue' /\ NotMissed'
    BY DEF DeleteInv
  <1>1. program = "deleteZone"
    BY SameProgram
  <1>2. KnownAbsent /\ LinesTrue /\ WatchTrue /\ OutcomeTrue /\ NotMissed
    BY <1>1 DEF DeleteInv
  <1> QED
    BY <1>1, <1>2, NextKnownAbsent, NextLinesTrue, NextWatchTrue, NextOutcomeTrue,
       NextNotMissed

-----------------------------------------------------------------------------
(* waitForZoneState.                                                       *)

\* The history begins with the request and only grows.
LEMMA SeenSteps ==
    ASSUME Shape, program = "waitForZoneState", pc' # "start", [Next]_vars
    PROVE  Connect \/ (pc # "start" /\ seen \subseteq seen')
  <1>1. pc = "start" => ~req /\ ~watch.on
    BY DEF Shape, ConnInv, WatchInv
  <1>2. CASE Server
    BY <1>2 DEF Server, Observe, EmitPending, Accept, Cleanup, client
  <1>3. CASE Stream
    BY <1>1, <1>3 DEF Stream, Transform, Readable, RequestFails, server, client
  <1>4. CASE ReadyTimeout \/ WatchTimeout
    BY <1>1, <1>4 DEF ReadyTimeout, WatchTimeout, server, Shape, ConnInv
  <1>5. CASE WaitForEvent \/ WaitDone \/ Halt \/ Uninstall \/ UninstallDone \/ DeleteDone
    BY <1>5 DEF WaitForEvent, WaitDone, Halt, Uninstall, UninstallDone, DeleteDone, server
  <1>6. CASE UninstallRuns \/ DeleteRuns
    BY <1>6 DEF UninstallRuns, DeleteRuns, Shape, ProgramInv
  <1> QED
    BY <1>2, <1>3, <1>4, <1>5, <1>6
       DEF Next, Operation, Change, ServerDies, ServerStarts, vars, server, client

\* What vminfod takes up becomes history.
LEMMA NextSeenKnown ==
    ASSUME Shape, SeenKnown, seen \subseteq seen', [Next]_vars
    PROVE  SeenKnown'
  <1> USE ClientAssumption DEF SeenKnown
  <1>1. ASSUME NEW z \in Zone, Observe(z) PROVE SeenKnown'
    <2>1. z = Target => seen' = seen \cup {sys[Target].state}
      BY <1>1 DEF Observe
    <2> QED
      BY <1>1, <2>1, ObserveTarget
  <1>2. ASSUME NEW z \in Zone, EmitPending(z) PROVE SeenKnown'
    BY <1>2, EmitPendingTarget
  <1>3. CASE ServerDies
    BY <1>3 DEF ServerDies
  <1>4. CASE ServerStarts
    BY <1>4 DEF ServerStarts
  <1>5. CASE UNCHANGED <<pend, vmobjs, up>>
    BY <1>5
  <1> QED
    BY <1>1, <1>2, <1>3, <1>4, <1>5, ServerSteps

\* A new line is the snapshot, or says what vminfod has.
LEMMA NewLines ==
    ASSUME Shape, [Next]_vars, NEW ev \in Lines', ev \notin Lines
    PROVE  \/ Accept /\ ev = Ready(vmobjs)
           \/ up /\ up' /\ ev.type # "ready" /\ ev.vm = vmobjs'[ev.zone]
  <1>1. CASE Lines' \subseteq Lines
    BY <1>1
  <1>2. ASSUME NEW z \in Zone, Observe(z)
        PROVE  up /\ up' /\ ev.type # "ready" /\ ev.vm = vmobjs'[ev.zone]
    <2>1. CASE UNCHANGED <<wire, buffer>>
      BY <1>1, <2>1 DEF Lines
    <2> DEFINE e == Event("modify", z, sys[z], Diff(vmobjs[z], sys[z]))
    <2>2. CASE Emit(e) /\ UNCHANGED buffer
      <3>1. e \in EventLine /\ e.type = "modify" /\ e.zone = z /\ e.vm = sys[z]
        BY DEF Event, EventLine, Diff, Changed, Shape, Types, ServerTypes
      <3> HIDE DEF e
      <3>2. Lines' \subseteq Lines \cup {e}
        BY <2>2, <3>1, EmittedLines
      <3>3. vmobjs'[z] = sys[z] /\ up /\ up'
        BY <1>2, ObserveTarget DEF Observe
      <3> QED
        BY <3>1, <3>2, <3>3
    <2> QED
      BY <1>2, <2>1, <2>2 DEF Observe
  <1>3. ASSUME NEW z \in Zone, EmitPending(z)
        PROVE  up /\ up' /\ ev.type # "ready" /\ ev.vm = vmobjs'[ev.zone]
    <2> DEFINE e == Event(pend[z], z, vmobjs[z], {})
    <2>1. pend[z] \in {"create", "delete"} /\ vmobjs[z] \in Obj
      BY <1>3 DEF EmitPending, Shape, Types, ServerTypes
    <2>2. e \in EventLine /\ e.type # "ready" /\ e.zone = z /\ e.vm = vmobjs[z]
      BY <2>1 DEF Event, EventLine
    <2>3. Emit(e) /\ UNCHANGED <<buffer, vmobjs, up>> /\ up
      BY <1>3 DEF EmitPending
    <2> HIDE DEF e
    <2>4. Lines' \subseteq Lines \cup {e}
      BY <2>2, <2>3, EmittedLines
    <2> QED
      BY <2>2, <2>3, <2>4
  <1>4. CASE Accept
    BY <1>4, AcceptedLines
  <1>5. CASE Connect
    <2>1. wire' = <<>> /\ buffer' = <<>>
      BY <1>5 DEF Connect, Start
    <2> QED
      BY <1>1, <2>1 DEF Lines, Range
  <1>6. CASE Transform
    BY <1>1, <1>6, TransformedLines
  <1>7. CASE UNCHANGED <<wire, buffer>>
    BY <1>1, <1>7 DEF Lines
  <1>8. CASE UNCHANGED wire /\ buffer' = <<>>
    BY <1>1, <1>8, ReadLines
  <1> QED
    BY <1>2, <1>3, <1>4, <1>5, <1>6, <1>7, <1>8, LineSteps

LEMMA NextSeenLines ==
    ASSUME Shape, SeenKnown, SeenLines, seen \subseteq seen', [Next]_vars
    PROVE  SeenLines'
  <1> SUFFICES ASSUME NEW ev \in Lines' PROVE SeenLine(ev)'
    BY DEF SeenLines
  <1>1. CASE ev \in Lines
    BY <1>1 DEF SeenLines, SeenLine
  <1>2. CASE Accept /\ ev = Ready(vmobjs)
    BY <1>2 DEF Accept, Ready, SeenKnown, SeenLine
  <1>3. CASE up' /\ ev.type # "ready" /\ ev.vm = vmobjs'[ev.zone]
    BY <1>3, NextSeenKnown DEF SeenKnown, SeenLine
  <1> QED
    BY <1>1, <1>2, <1>3, NewLines

\* A watch for a state calls back without an error only upon a line with it.
LEMMA NextSeenWatch ==
    ASSUME Shape, program = "waitForZoneState", SeenLines, SeenWatch,
           seen \subseteq seen', [Next]_vars
    PROVE  SeenWatch'
  <1> USE DEF SeenWatch
  <1>1. CASE UNCHANGED watch
    BY <1>1
  <1>2. CASE RequestFails \/ ReadyTimeout \/ WatchTimeout
    BY <1>1, <1>2, ErrorWatch
  <1>3. ASSUME NEW w \in Watch, w.kind = "state", NEW ev \in Range(buffer), Matches(w, ev)
        PROVE  SeenWatch'
    <2>1. ev \in EventLine
      BY RangeOf DEF Shape, Types, StreamTypes
    <2>2. ev.zone = Target /\ ev.vm.state = "running" /\ ev \in Lines /\ ev.type # "ready"
      BY <1>3, <2>1 DEF Matches, Lines, EventLine
    <2> QED
      BY <2>2 DEF SeenLines, SeenLine
  <1>4. CASE Readable
    <2>1. watch \in Watch
      BY DEF Shape, Types, ClientTypes
    <2> QED
      BY <1>1, <1>3, <1>4, <2>1, ReadWatch DEF Ended
  <1>5. CASE WaitForEvent
    <2> DEFINE w == NewWatch("state", {}, TRUE)
    <2>1. w \in Watch /\ w.on /\ w.kind = "state" /\ w.calls = 0
      BY Watches DEF Changed
    <2>2. watch' = ProcessEvents(w, buffer) /\ buffer \in Seq(EventLine)
      BY <1>5 DEF WaitForEvent, StartWatch, SetWatch, Shape, Types, StreamTypes
    <2> HIDE DEF w
    <2> QED
      BY <1>3, <2>1, <2>2, Processed DEF Ended
  <1>6. CASE Uninstall \/ UninstallDone \/ UninstallRuns \/ DeleteRuns
    BY <1>6 DEF Uninstall, UninstallDone, UninstallRuns, DeleteRuns, Shape, ProgramInv
  <1> QED
    BY <1>1, <1>2, <1>4, <1>5, <1>6, WatchSteps

LEMMA NextSeenOutcome ==
    ASSUME Shape, program = "waitForZoneState", SeenLines, SeenWatch, SeenOutcome,
           seen \subseteq seen', [Next]_vars
    PROVE  SeenOutcome'
  <1> USE DEF SeenOutcome
  <1>1. CASE UNCHANGED outcome
    BY <1>1
  <1>2. CASE RequestFails \/ ReadyTimeout
    BY <1>2, ErrorWatch
  <1>3. CASE Transform
    <2>1. Head(wire) \in Lines
      BY <1>3, TransformedLines
    <2>2. CASE UNCHANGED outcome \/ outcome' # "ok"
      BY <2>2
    <2>3. CASE Head(wire).type = "ready" /\ Head(wire).vms[Target].state = "running"
      BY <2>1, <2>3 DEF SeenLines, SeenLine
    <2> QED
      BY <1>3, <2>2, <2>3 DEF Transform, OnReady, client
  <1>4. CASE WaitDone
    <2>1. watch.kind = "state" /\ watch.calls = 1
      BY <1>4 DEF WaitDone, Finished, Shape, WatchInv, Types, ClientTypes, Watch
    <2> QED
      BY <1>4, <2>1 DEF WaitDone, SeenWatch
  <1>5. CASE UninstallDone \/ DeleteDone
    BY <1>5 DEF UninstallDone, DeleteDone, Shape, ProgramInv
  <1> QED
    BY <1>1, <1>2, <1>3, <1>4, <1>5, OutcomeSteps

LEMMA NextSeen ==
    ASSUME Shape, SeenInv, [Next]_vars
    PROVE  SeenInv'
  <1> SUFFICES ASSUME program' = "waitForZoneState", pc' # "start"
               PROVE  SeenKnown' /\ SeenLines' /\ SeenWatch' /\ SeenOutcome'
    BY DEF SeenInv
  <1>1. program = "waitForZoneState"
    BY SameProgram
  <1>2. CASE Connect
    <2>1. /\ wire' = <<>> /\ buffer' = <<>> /\ vmobjs' = vmobjs
          /\ seen' = {vmobjs[Target].state} /\ UNCHANGED <<watch, outcome>>
      BY <1>2 DEF Connect, Start
    <2>2. watch.kind = "none" /\ outcome = "none"
      BY <1>2, Watches DEF Connect, Shape, WatchInv, ProgramInv
    <2>3. Lines' = {}
      BY <2>1 DEF Lines, Range
    <2> QED
      BY <2>1, <2>2, <2>3 DEF SeenKnown, SeenLines, SeenWatch, SeenOutcome
  <1>3. CASE pc # "start" /\ seen \subseteq seen'
    <2>1. SeenKnown /\ SeenLines /\ SeenWatch /\ SeenOutcome
      BY <1>1, <1>3 DEF SeenInv
    <2> QED
      BY <1>1, <1>3, <2>1, NextSeenKnown, NextSeenLines, NextSeenWatch, NextSeenOutcome
  <1> QED
    BY <1>1, <1>2, <1>3, SeenSteps

\* The program waits for the state, and the snapshot to come has it.
Waits == pc = "wait" \/ (pc = "waiting" /\ watch.on)
SnapshotHasIt == Head(wire).vms[Target].state = "running"

\* Who moves the program on.
LEMMA WaitSteps ==
    ASSUME Shape, program = "waitForZoneState", [Next]_vars
    PROVE  /\ Waits' => \/ Waits
                        \/ Transform /\ pc = "connecting"
           /\ pc' = "connecting" => pc = "connecting" \/ Connect
  <1>1. CASE RequestFails \/ ReadyTimeout \/ WatchTimeout
    <2>1. \/ pc' \in {pc, "end"} /\ watch' = watch
          \/ watch.on /\ pc' = pc /\ ~watch'.on
      <3>1. watch \in Watch
        BY DEF Shape, Types, ClientTypes
      <3>2. \A err \in {"stream", "timeout"} : ~Done(watch, err).on
        BY <3>1 DEF Done, Watch
      <3> QED
        BY <1>1, <3>2 DEF RequestFails, ReadyTimeout, WatchTimeout, EmitError
    <2>2. watch.on => pc \in {"waiting", "uninstalling", "deleting"}
      BY DEF Shape, WatchInv
    <2> QED
      BY <2>1, <2>2 DEF Waits
  <1>2. CASE Transform
    <2>1. /\ watch' = watch
          /\ pc' = pc \/ (readyTimer' = FALSE /\ req /\ Head(wire).type = "ready")
      BY <1>2 DEF Transform, OnReady, client
    <2>2. pc' # pc => pc = "connecting" /\ pc' \in {"end", "wait"}
      <3>1. wire # <<>>
        BY <1>2 DEF Transform
      <3> QED
        BY <1>2, <2>1, <3>1 DEF Transform, OnReady, client, Shape, ConnInv, Snapshot
    <2> QED
      BY <1>2, <2>1, <2>2 DEF Waits
  <1>3. CASE Readable
    <2>1. pc' = pc /\ (watch.on \/ UNCHANGED watch)
      BY <1>3 DEF Readable
    <2> QED
      BY <1>3, <2>1, ReadWatch DEF Waits
  <1>4. CASE WaitForEvent
    BY <1>4 DEF WaitForEvent, Waits
  <1>5. CASE Connect \/ WaitDone
    BY <1>5 DEF Connect, WaitDone, Waits
  <1>6. CASE \/ Halt \/ Uninstall \/ UninstallDone \/ UninstallRuns \/ DeleteRuns
             \/ DeleteDone
    BY <1>6 DEF Halt, Uninstall, UninstallDone, UninstallRuns, DeleteRuns, DeleteDone,
       Shape, ProgramInv
  <1>7. CASE \/ Server \/ ServerDies \/ ServerStarts \/ UNCHANGED vars
             \/ \E z \in Zone, vm \in {Absent, Configured, Installed, Running} :
                   Change(z, vm)
    BY <1>7 DEF Server, Observe, EmitPending, Accept, Cleanup, ServerDies, ServerStarts,
       Change, vars, client, Waits
  <1> QED
    BY <1>1, <1>2, <1>3, <1>4, <1>5, <1>6, <1>7 DEF Next, Stream, Operation

\* The ready line stays in front.
LEMMA SameHead ==
    ASSUME Shape, NEW z \in Zone, Observe(z) \/ EmitPending(z), wire # <<>>
    PROVE  Head(wire') = Head(wire)
  <1>1. wire \in Seq(ReadyLine \cup EventLine)
    BY DEF Shape, Types, StreamTypes
  <1>2. \A e : Head(Append(wire, e)) = Head(wire)
    BY <1>1
  <1>3. wire' = wire \/ \E e : wire' = Append(wire, e)
    BY DEF Observe, EmitPending, Emit
  <1> QED
    BY <1>2, <1>3

LEMMA NextState ==
    ASSUME Shape, PendInv, StateInv, [Next]_vars
    PROVE  StateInv'
  <1> SUFFICES ASSUME program' = "waitForZoneState", listening',
                      vmobjs'[Target].state = "running"
               PROVE  /\ Waits' => Coming'
                      /\ pc' = "connecting" => Coming' \/ SnapshotHasIt'
    BY DEF StateInv, Waits, SnapshotHasIt
  <1> USE ClientAssumption
  <1>1. program = "waitForZoneState"
    BY SameProgram
  <1>2. CASE Accept
    <2>1. pc = "connecting" /\ pc' = pc
      BY <1>2 DEF Accept, Shape, ConnInv, client
    <2>2. wire' = <<Ready(vmobjs)>> /\ vmobjs' = vmobjs
      BY <1>2 DEF Accept
    <2>3. Head(wire').vms = vmobjs
      BY <2>2 DEF Ready
    <2> QED
      BY <2>1, <2>2, <2>3 DEF Waits, SnapshotHasIt
  <1> SUFFICES ASSUME ~Accept
               PROVE  /\ Waits' => Coming'
                      /\ pc' = "connecting" => Coming' \/ SnapshotHasIt'
    BY <1>2
  <1>3. listening /\ up /\ ~Connect
    BY ListeningSteps DEF Shape, ConnInv, Connect
  <1>4. vmobjs[Target].state = "running" =>
           /\ Waits => Coming
           /\ pc = "connecting" => Coming \/ SnapshotHasIt
    BY <1>1, <1>3 DEF StateInv, Waits, SnapshotHasIt
  <1>5. ASSUME Coming, Lines \subseteq Lines', pend'[Target] = pend[Target] PROVE Coming'
    BY <1>5 DEF Coming
  <1>6. pc = "connecting" => wire # <<>>
    BY <1>3 DEF Shape, ConnInv, Snapshot
  <1>7. ASSUME NEW z \in Zone, Observe(z) \/ EmitPending(z)
        PROVE  pc' = pc /\ watch' = watch
    BY <1>7 DEF Observe, EmitPending, client
  <1>8. ASSUME NEW z \in Zone, Observe(z)
        PROVE  /\ Waits' => Coming'
               /\ pc' = "connecting" => Coming' \/ SnapshotHasIt'
    <2>1. CASE z = Target
      <3>1. sys[Target].state = "running"
        BY <1>8, <2>1, ObserveTarget
      <3> QED
        BY <1>3, <1>8, <2>1, <3>1, ObserveTarget DEF Coming, Absent
    <2>2. CASE z # Target
      <3>1. Lines \subseteq Lines' /\ pend'[Target] = pend[Target] /\ vmobjs'[Target] = vmobjs[Target]
        BY <1>8, <2>2, ObserveTarget
      <3> QED
        BY <1>4, <1>5, <1>6, <1>7, <1>8, <3>1, SameHead DEF Waits, SnapshotHasIt
    <2> QED
      BY <2>1, <2>2
  <1>9. ASSUME NEW z \in Zone, EmitPending(z)
        PROVE  /\ Waits' => Coming'
               /\ pc' = "connecting" => Coming' \/ SnapshotHasIt'
    <2>1. CASE z = Target
      <3>1. \E ev \in Lines' : ev.zone = Target /\ ev.vm = vmobjs[Target]
        BY <1>3, <1>9, <2>1, EmitPendingTarget
      <3>2. vmobjs' = vmobjs
        BY <1>9 DEF EmitPending
      <3> QED
        BY <3>1, <3>2 DEF Coming
    <2>2. CASE z # Target
      <3>1. Lines \subseteq Lines' /\ pend'[Target] = pend[Target] /\ vmobjs'[Target] = vmobjs[Target]
        BY <1>9, <2>2, EmitPendingTarget
      <3> QED
        BY <1>4, <1>5, <1>6, <1>7, <1>9, <3>1, SameHead DEF Waits, SnapshotHasIt
    <2> QED
      BY <2>1, <2>2
  <1>10. CASE ServerDies \/ ServerStarts
    BY <1>3, <1>10 DEF ServerDies, ServerStarts
  <1>11. CASE UNCHANGED <<pend, vmobjs, up>> /\ ~(\E z \in Zone : Observe(z) \/ EmitPending(z))
    <2>1. /\ Waits => Coming
          /\ pc = "connecting" => Coming \/ SnapshotHasIt
      BY <1>4, <1>11
    <2>2. CASE Transform
      <3>1. wire # <<>> /\ wire' = Tail(wire) /\ watch' = watch
        BY <2>2 DEF Transform, OnReady, client
      <3>2. CASE Head(wire).type = "ready" /\ req
        <4>1. pc = "connecting"
          BY <3>1, <3>2 DEF Shape, ConnInv, Snapshot
        <4>2. /\ pc' \in {"end", "wait"}
              /\ pc' = "wait" => Head(wire).vms[Target].state # "running"
          BY <1>1, <2>2, <3>2 DEF Transform, OnReady
        <4>3. pc' = "wait" => Coming
          BY <2>1, <4>1, <4>2 DEF SnapshotHasIt
        <4>4. Head(wire).vm.state # "running"
          <5>1. Head(wire) \in ReadyLine \cup EventLine
            BY <3>1 DEF Shape, Types, StreamTypes
          <5> QED
            BY <3>2, <5>1 DEF ReadyLine, EventLine, Absent
        <4>5. pc' = "wait" => Coming'
          BY <1>11, <2>2, <4>3, <4>4, TransformedLines DEF Coming
        <4> QED
          BY <4>2, <4>5 DEF Waits
      <3>3. CASE Head(wire).type # "ready" /\ req
        <4>1. pc' = pc /\ Lines' = Lines /\ pc # "connecting"
          BY <1>3, <2>2, <3>1, <3>3, TransformedLines
             DEF Transform, OnReady, client, Shape, ConnInv, Snapshot
        <4> QED
          BY <1>5, <1>11, <2>1, <3>1, <4>1 DEF Waits
      <3>4. CASE ~req
        <4>1. pc' = pc
          BY <2>2, <3>4 DEF Transform, client
        <4> QED
          BY <3>1, <3>4, <4>1 DEF Waits, Shape, ConnInv, WatchInv
      <3> QED
        BY <3>2, <3>3, <3>4
    <2>3. CASE WaitForEvent
      <3> DEFINE w == NewWatch("state", {}, TRUE)
      <3>1. w \in Watch /\ w.on /\ w.kind = "state" /\ w.calls = 0
        BY Watches DEF Changed
      <3>2. watch' = ProcessEvents(w, buffer) /\ buffer \in Seq(EventLine)
        BY <2>3 DEF WaitForEvent, StartWatch, SetWatch, Shape, Types, StreamTypes
      <3> HIDE DEF w
      <3>3. watch'.on => ~ \E ev \in Range(buffer) : Matches(w, ev)
        BY <3>1, <3>2, Processed DEF Ended
      <3>4. watch'.on => ~ \E ev \in Range(buffer) : ev.zone = Target /\ ev.vm.state = "running"
        BY <3>1, <3>3 DEF Matches
      <3>5. Lines' = Range(wire) /\ pc = "wait" /\ pc' = "waiting"
        BY <2>3, ReadLines DEF WaitForEvent, StartWatch
      <3> QED
        BY <1>11, <2>1, <3>4, <3>5 DEF Waits, Coming, Lines
    <2>4. CASE Readable
      <3>1. Lines' = Range(wire) /\ pc' = pc
        BY <2>4, ReadLines DEF Readable
      <3>2. pc # "mirror"
        BY <1>1 DEF Shape, ProgramInv
      <3>3. watch.on
        BY <2>4, <3>2 DEF Readable
      <3>4. pc = "waiting" /\ watch.kind = "state"
        BY <1>1, <3>3 DEF Shape, WatchInv, ProgramInv
      <3>5. watch'.on => ~ \E ev \in Range(buffer) : Matches(watch, ev)
        BY <2>4, <3>4, ReadWatch DEF Ended
      <3>6. watch'.on => ~ \E ev \in Range(buffer) : ev.zone = Target /\ ev.vm.state = "running"
        BY <3>4, <3>5 DEF Matches
      <3> QED
        BY <1>11, <2>1, <3>1, <3>3, <3>4, <3>6 DEF Waits, Coming, Lines
    <2>5. CASE Uninstall \/ UninstallDone
      BY <1>1, <2>5 DEF Uninstall, UninstallDone, Shape, ProgramInv
    <2>6. CASE UNCHANGED <<wire, buffer>> /\ ~Transform
      <3>1. Coming => Coming'
        BY <1>5, <1>11, <2>6 DEF Lines
      <3>2. SnapshotHasIt => SnapshotHasIt'
        BY <2>6 DEF SnapshotHasIt
      <3>3. /\ Waits' => Waits
            /\ pc' = "connecting" => pc = "connecting"
        BY <1>1, <1>3, <2>6, WaitSteps
      <3> QED
        BY <2>1, <3>1, <3>2, <3>3
    <2> QED
      BY <1>3, <1>11, <2>2, <2>3, <2>4, <2>5, <2>6, LineSteps
  <1> QED
    BY <1>8, <1>9, <1>10, <1>11, ServerSteps

-----------------------------------------------------------------------------
(* The mirror.                                                             *)

\* What the events of a zone say of it.
LEMMA AppliedAt ==
    ASSUME NEW vms, NEW evs, NEW z \in Zone
    PROVE  Applied(vms, evs)[z] = IF LastEvent(evs, z) = 0 THEN vms[z]
                                  ELSE Told(evs[LastEvent(evs, z)])
  BY DEF Applied, LastEvent, Told

\* One more event.
LEMMA AppliedAppend ==
    ASSUME NEW vms, NEW evs \in Seq(Line), NEW e \in Line, NEW z \in Zone
    PROVE  /\ e.zone = z => Applied(vms, Append(evs, e))[z] = Told(e)
           /\ e.zone # z => Applied(vms, Append(evs, e))[z] = Applied(vms, evs)[z]
  <1> DEFINE a == Append(evs, e)
  <1>1. /\ a \in Seq(Line) /\ Len(evs) \in Nat /\ Len(a) = Len(evs) + 1
        /\ a[Len(evs) + 1] = e /\ \A i \in 1 .. Len(evs) : a[i] = evs[i]
    BY AppendOf
  <1> HIDE DEF a
  <1>2. CASE e.zone = z
    <2>1. LastEvent(a, z) = Len(evs) + 1
      BY <1>1, <1>2, LastIs
    <2>2. Len(evs) + 1 # 0
      BY <1>1
    <2>3. Applied(vms, a)[z] = Told(a[Len(evs) + 1])
      BY <2>1, <2>2, AppliedAt
    <2> QED
      BY <1>1, <1>2, <2>3 DEF a
  <1>3. CASE e.zone # z /\ LastEvent(evs, z) = 0
    <2>1. \A j \in 1 .. Len(a) : a[j].zone # z
      BY <1>1, <1>3, LastOf
    <2>2. LastEvent(a, z) = 0
      BY <1>1, <2>1, LastOf
    <2> QED
      BY <1>3, <2>2, AppliedAt DEF a
  <1>4. CASE e.zone # z /\ LastEvent(evs, z) # 0
    <2> DEFINE l == LastEvent(evs, z)
    <2>1. /\ l \in 1 .. Len(evs) /\ evs[l].zone = z
          /\ \A j \in 1 .. Len(evs) : evs[j].zone = z => j <= l
      BY <1>1, <1>4, LastOf
    <2> HIDE DEF l
    <2>2. /\ l \in 1 .. Len(a) /\ a[l].zone = z
          /\ \A j \in 1 .. Len(a) : a[j].zone = z => j <= l
      BY <1>1, <1>4, <2>1
    <2>3. LastEvent(a, z) = l
      BY <1>1, <2>2, LastIs
    <2>4. Applied(vms, a)[z] = Told(evs[l])
      BY <1>1, <2>1, <2>3, AppliedAt
    <2> QED
      BY <1>4, <2>4, AppliedAt DEF a, l
  <1> QED
    BY <1>2, <1>3, <1>4

\* Events that are read in two parts.
LEMMA AppliedConcat ==
    ASSUME NEW vms, NEW S, NEW b \in Seq(S), NEW w \in Seq(S), NEW z \in Zone
    PROVE  Applied(Applied(vms, b), w)[z] = Applied(vms, b \o w)[z]
  <1> DEFINE c == b \o w
  <1>1. /\ c \in Seq(S) /\ Len(b) \in Nat /\ Len(w) \in Nat /\ Len(c) = Len(b) + Len(w)
        /\ \A i \in 1 .. Len(b) : c[i] = b[i]
        /\ \A i \in 1 .. Len(w) : c[Len(b) + i] = w[i]
    OBVIOUS
  <1> HIDE DEF c
  <1>a. \A j \in 1 .. Len(c) : j > Len(b) =>
           j - Len(b) \in 1 .. Len(w) /\ c[j] = w[j - Len(b)]
    <2> SUFFICES ASSUME NEW j \in 1 .. Len(c), j > Len(b)
                 PROVE  j - Len(b) \in 1 .. Len(w) /\ c[j] = w[j - Len(b)]
      OBVIOUS
    <2> DEFINE i == j - Len(b)
    <2>1. i \in 1 .. Len(w) /\ j = Len(b) + i
      BY <1>1
    <2> HIDE DEF i
    <2> QED
      BY <1>1, <2>1 DEF i
  <1>2. CASE LastEvent(w, z) # 0
    <2> DEFINE l == LastEvent(w, z)
    <2>1. /\ l \in 1 .. Len(w) /\ w[l].zone = z
          /\ \A j \in 1 .. Len(w) : w[j].zone = z => j <= l
      BY <1>1, <1>2, LastOf
    <2> HIDE DEF l
    <2> DEFINE m == Len(b) + l
    <2>2. m \in 1 .. Len(c) /\ c[m] = w[l] /\ m # 0
      BY <1>1, <2>1
    <2>a. ASSUME NEW j \in 1 .. Len(c), c[j].zone = z PROVE j <= m
      <3>1. CASE j > Len(b)
        <4>1. j - Len(b) <= l
          BY <1>a, <2>1, <2>a, <3>1
        <4> QED
          BY <1>1, <2>1, <4>1
      <3>2. CASE ~(j > Len(b))
        BY <1>1, <2>1, <3>2
      <3> QED
        BY <3>1, <3>2
    <2> HIDE DEF m
    <2>3. LastEvent(c, z) = m
      BY <1>1, <2>1, <2>2, <2>a, LastIs
    <2>4. Applied(vms, c)[z] = Told(w[l])
      BY <2>2, <2>3, AppliedAt
    <2> QED
      BY <1>2, <2>4, AppliedAt DEF c, l
  <1>3. CASE LastEvent(w, z) = 0 /\ LastEvent(b, z) # 0
    <2> DEFINE l == LastEvent(b, z)
    <2>1. /\ l \in 1 .. Len(b) /\ b[l].zone = z
          /\ \A j \in 1 .. Len(b) : b[j].zone = z => j <= l
          /\ \A j \in 1 .. Len(w) : w[j].zone # z
      BY <1>1, <1>3, LastOf
    <2> HIDE DEF l
    <2>2. l \in 1 .. Len(c) /\ c[l] = b[l] /\ l # 0
      BY <1>1, <2>1
    <2>a. ASSUME NEW j \in 1 .. Len(c), c[j].zone = z PROVE j <= l
      <3>1. ~(j > Len(b))
        BY <1>a, <2>1, <2>a
      <3>2. j \in 1 .. Len(b) /\ c[j] = b[j]
        BY <1>1, <3>1
      <3> QED
        BY <2>1, <2>a, <3>2
    <2>b. c[l].zone = z
      BY <2>1, <2>2
    <2>3. LastEvent(c, z) = l
      BY <1>1, <2>2, <2>a, <2>b, LastIs
    <2>4. Applied(vms, c)[z] = Told(b[l])
      BY <2>2, <2>3, AppliedAt
    <2> QED
      BY <1>3, <2>4, AppliedAt DEF c, l
  <1>4. CASE LastEvent(w, z) = 0 /\ LastEvent(b, z) = 0
    <2>1. /\ \A j \in 1 .. Len(b) : b[j].zone # z
          /\ \A j \in 1 .. Len(w) : w[j].zone # z
      BY <1>4, LastOf
    <2>2. ASSUME NEW j \in 1 .. Len(c) PROVE c[j].zone # z
      <3>1. CASE j > Len(b)
        BY <1>a, <2>1, <3>1
      <3>2. CASE ~(j > Len(b))
        <4>1. j \in 1 .. Len(b) /\ c[j] = b[j]
          BY <1>1, <3>2
        <4> QED
          BY <2>1, <4>1
      <3> QED
        BY <3>1, <3>2
    <2>3. LastEvent(c, z) = 0
      <3>1. /\ LastEvent(c, z) \in 0 .. Len(c)
            /\ LastEvent(c, z) # 0 => c[LastEvent(c, z)].zone = z
        BY <1>1, LastOf
      <3> QED
        BY <1>1, <2>2, <3>1
    <2> QED
      BY <1>4, <2>3, AppliedAt DEF c
  <1> QED
    BY <1>2, <1>3, <1>4

\* The first line of the wire moves to the end of the buffer.
LEMMA Moved ==
    ASSUME NEW S, NEW b \in Seq(S), NEW w \in Seq(S), w # <<>>
    PROVE  Append(b, Head(w)) \o Tail(w) = b \o w
  OBVIOUS

LEMMA Lengthened ==
    ASSUME NEW S, NEW b \in Seq(S), NEW w \in Seq(S), NEW e \in S
    PROVE  /\ b \o Append(w, e) = Append(b \o w, e)
           /\ w # <<>> => Tail(Append(w, e)) = Append(Tail(w), e)
           /\ w # <<>> => Head(Append(w, e)) = Head(w) /\ Append(w, e) # <<>>
           /\ w = <<>> => Head(Append(w, e)) = e /\ Append(w, e) # <<>>
  OBVIOUS

\* The parts of MirrorExact: when it speaks of the mirror, what the mirror is
\* to become and which events will make it so.
Mirrors == pc \in {"connecting", "mirror"} /\ program = "watcher" /\ listening /\ req
Base == IF Snapshot THEN Head(wire).vms ELSE mirror
Rest == IF Snapshot THEN Tail(wire) ELSE wire
View == Applied(Base, buffer \o Rest)

LEMMA RestType ==
    ASSUME Shape
    PROVE  /\ Rest \in Seq(ReadyLine \cup EventLine)
           /\ buffer \in Seq(ReadyLine \cup EventLine)
           /\ wire \in Seq(ReadyLine \cup EventLine)
           /\ buffer \o Rest \in Seq(ReadyLine \cup EventLine)
  <1>1. wire \in Seq(ReadyLine \cup EventLine) /\ buffer \in Seq(EventLine)
    BY DEF Shape, Types, StreamTypes
  <1>2. buffer \in Seq(ReadyLine \cup EventLine)
    BY <1>1
  <1>3. Rest \in Seq(ReadyLine \cup EventLine)
    BY <1>1 DEF Rest, Snapshot
  <1> QED
    BY <1>1, <1>2, <1>3

\* An event is emitted behind the others.
LEMMA EmittedView ==
    ASSUME Shape, NEW ev \in EventLine, listening, Emit(ev), UNCHANGED <<buffer, mirror>>,
           NEW y \in Zone
    PROVE  View'[y] = IF ev.zone = y THEN Told(ev) ELSE View[y]
  <1> DEFINE w == wire'
  <1>1. /\ Rest \in Seq(Line) /\ buffer \in Seq(Line) /\ wire \in Seq(Line)
        /\ buffer \o Rest \in Seq(Line) /\ ev \in Line
    BY RestType DEF Line
  <1>2. w = Append(wire, ev)
    BY DEF Emit
  <1>3. ev.type # "ready"
    BY DEF EventLine
  <1>c. /\ Append(wire, ev) # <<>>
        /\ wire # <<>> => Head(Append(wire, ev)) = Head(wire)
        /\ wire = <<>> => Head(Append(wire, ev)) = ev
    BY <1>1
  <1>a. /\ w # <<>>
        /\ wire # <<>> => Head(w) = Head(wire)
        /\ wire = <<>> => Head(w) = ev
    BY <1>2, <1>c, Zenon
  <1>4. Snapshot' <=> Snapshot
    BY <1>3, <1>a DEF Snapshot
  <1>b. wire # <<>> => Tail(w) = Append(Tail(wire), ev)
    BY <1>1, <1>2, Lengthened
  <1>5. Rest' = Append(Rest, ev) /\ Base' = Base
    <2>1. CASE Snapshot
      BY <1>4, <1>a, <1>b, <2>1 DEF Rest, Base, Snapshot
    <2>2. CASE ~Snapshot
      BY <1>2, <1>4, <2>2 DEF Rest, Base
    <2> QED
      BY <2>1, <2>2
  <1>6. buffer' \o Rest' = Append(buffer \o Rest, ev)
    BY <1>1, <1>5, Lengthened
  <1>7. View' = Applied(Base, Append(buffer \o Rest, ev))
    BY <1>5, <1>6 DEF View
  <1> DEFINE evs == buffer \o Rest
             b == Base
  <1>8. evs \in Seq(Line) /\ ev \in Line
    BY <1>1
  <1> HIDE DEF evs, b
  <1> DEFINE a == Append(evs, ev)
  <1>9. a = Append(evs, ev)
    OBVIOUS
  <1> HIDE DEF a
  <1>10. /\ ev.zone = y => Applied(b, a)[y] = Told(ev)
         /\ ev.zone # y => Applied(b, a)[y] = Applied(b, evs)[y]
    BY <1>8, <1>9, AppliedAppend
  <1> QED
    BY <1>7, <1>10 DEF a, evs, b, View

\* The steps that neither read nor emit leave the view alone.
LEMMA MirrorSteps ==
    ASSUME Shape, [Next]_vars, Mirrors'
    PROVE  \/ Accept
           \/ Mirrors /\ \/ \E z \in Zone : Observe(z) \/ EmitPending(z)
                         \/ Transform
                         \/ Readable
                         \/ UNCHANGED <<wire, buffer, mirror, pend, vmobjs>>
  <1>0. ~Accept => listening
    BY ListeningSteps DEF Mirrors
  <1>1. program = "watcher"
    BY SameProgram DEF Mirrors
  <1>2. watch = NoWatch /\ action = "none" /\ outcome = "none" /\ (pc = "start" => ~req)
    BY <1>1 DEF Shape, ProgramInv, ConnInv
  <1>3. ~watch.on
    BY <1>2, Watches
  <1>4. CASE \E z \in Zone : Observe(z) \/ EmitPending(z)
    BY <1>4 DEF Observe, EmitPending, client, Mirrors
  <1>5. CASE Transform
    <2>1. req' = req /\ program' = program /\ listening' = listening
      BY <1>5 DEF Transform, server
    <2>2. pc \in {"connecting", "mirror"}
      <3>1. wire # <<>>
        BY <1>5 DEF Transform
      <3> QED
        BY <1>1, <1>5, <2>1, <3>1 DEF Transform, OnReady, client, Mirrors, Shape, ConnInv, Snapshot
    <2> QED
      BY <1>5, <2>1, <2>2 DEF Mirrors
  <1>6. CASE Readable
    BY <1>3, <1>6 DEF Readable, Mirrors, server
  <1>7. CASE RequestFails \/ ReadyTimeout \/ WatchTimeout
    BY <1>7 DEF RequestFails, ReadyTimeout, WatchTimeout, EmitError, Stop, Mirrors
  <1>8. CASE Connect
    BY <1>8 DEF Connect, Mirrors
  <1>9. CASE WaitForEvent \/ WaitDone \/ Halt \/ Uninstall \/ UninstallDone \/ DeleteDone
    BY <1>1, <1>9 DEF WaitForEvent, WaitDone, Halt, Uninstall, UninstallDone, DeleteDone,
       Shape, ProgramInv
  <1>10. CASE UninstallRuns \/ DeleteRuns
    BY <1>2, <1>10 DEF UninstallRuns, DeleteRuns
  <1>11. CASE Cleanup
    BY <1>11 DEF Cleanup, Mirrors
  <1>12. CASE ServerDies \/ ServerStarts
    BY <1>0, <1>12 DEF ServerDies, ServerStarts, Accept, Mirrors, Shape, ConnInv
  <1>13. CASE \/ UNCHANGED vars
              \/ \E z \in Zone, vm \in {Absent, Configured, Installed, Running} :
                    Change(z, vm)
    BY <1>13 DEF Change, vars, server, stream, client, Mirrors
  <1> QED
    BY <1>4, <1>5, <1>6, <1>7, <1>8, <1>9, <1>10, <1>11, <1>12, <1>13
       DEF Next, Server, Stream, Operation

LEMMA NextMirror ==
    ASSUME Shape, PendInv, MirrorExact, [Next]_vars
    PROVE  MirrorExact'
  <1> SUFFICES ASSUME Mirrors', NEW y \in Zone, pend'[y] = "none"
               PROVE  View'[y] = vmobjs'[y]
    BY DEF MirrorExact, Mirrors, View, Base, Rest, Snapshot
  <1>1. CASE Accept
    <2>1. buffer' = <<>> /\ wire' = <<Ready(vmobjs)>> /\ vmobjs' = vmobjs
      BY <1>1 DEF Accept, Shape, ConnInv
    <2>2. Snapshot' /\ Base' = vmobjs /\ Rest' = <<>>
      BY <2>1 DEF Snapshot, Base, Rest, Ready
    <2>3. View' = Applied(vmobjs, <<>>)
      BY <2>1, <2>2 DEF View
    <2> DEFINE e == <<>>
    <2>4. e \in Seq(EventLine) /\ Len(e) = 0
      OBVIOUS
    <2> HIDE DEF e
    <2>5. LastEvent(e, y) \in 0 .. Len(e)
      BY <2>4, LastOf
    <2>6. LastEvent(e, y) = 0
      BY <2>4, <2>5
    <2>7. Applied(vmobjs, e)[y] = vmobjs[y]
      BY <2>6, AppliedAt
    <2> QED
      BY <2>1, <2>3, <2>7 DEF e
  <1> SUFFICES ASSUME Mirrors PROVE View'[y] = vmobjs'[y]
    BY <1>1, MirrorSteps
  <1>2. \A z \in Zone : pend[z] = "none" => View[z] = vmobjs[z]
    BY DEF MirrorExact, Mirrors, View, Base, Rest, Snapshot
  <1>3. ASSUME NEW z \in Zone, Observe(z) PROVE View'[y] = vmobjs'[y]
    <2> DEFINE ev == Event("modify", z, sys[z], Diff(vmobjs[z], sys[z]))
    <2>1. ev \in EventLine /\ ev.zone = z /\ Told(ev) = sys[z]
      BY DEF Event, EventLine, Diff, Changed, Told, Shape, Types, ServerTypes
    <2>2. UNCHANGED <<buffer, mirror>> /\ listening
      BY <1>3 DEF Observe, client, Mirrors
    <2>3. CASE UNCHANGED wire /\ pend'[z] # "none"
      <3>1. View' = View
        BY <2>2, <2>3 DEF View, Base, Rest, Snapshot
      <3>2. y # z
        BY <2>3
      <3> QED
        BY <1>2, <1>3, <3>1, <3>2, ObserveTarget
    <2>4. CASE Emit(ev)
      <3> HIDE DEF ev
      <3>1. View'[y] = IF z = y THEN sys[z] ELSE View[y]
        BY <2>1, <2>2, <2>4, EmittedView
      <3> QED
        BY <1>2, <1>3, <3>1, ObserveTarget
    <2>5. pend \in [Zone -> {"none", "create", "delete"}]
      BY DEF Shape, Types, ServerTypes
    <2> QED
      BY <1>3, <2>3, <2>4, <2>5 DEF Observe
  <1>4. ASSUME NEW z \in Zone, EmitPending(z) PROVE View'[y] = vmobjs'[y]
    <2> DEFINE ev == Event(pend[z], z, vmobjs[z], {})
    <2>1. pend[z] \in {"create", "delete"} /\ vmobjs[z] \in Obj
      BY <1>4 DEF EmitPending, Shape, Types, ServerTypes
    <2>2. ev \in EventLine /\ ev.zone = z /\ Told(ev) = vmobjs[z]
      BY <2>1 DEF Event, EventLine, Told, PendInv
    <2>3. UNCHANGED <<buffer, mirror, vmobjs>> /\ listening /\ Emit(ev)
      BY <1>4 DEF EmitPending, client, Mirrors
    <2> HIDE DEF ev
    <2>4. View'[y] = IF z = y THEN vmobjs[z] ELSE View[y]
      BY <2>2, <2>3, EmittedView
    <2> QED
      BY <1>2, <1>4, <2>3, <2>4, EmitPendingTarget
  <1>5. CASE Transform
    <2>1. wire # <<>> /\ wire' = Tail(wire) /\ req /\ UNCHANGED <<pend, vmobjs>>
      BY <1>5 DEF Transform, server, Mirrors
    <2>2. ~Snapshot'
      <3>1. Len(wire) \in Nat \ {0} /\ Len(Tail(wire)) = Len(wire) - 1
            /\ (Tail(wire) # <<>> => Head(Tail(wire)) = wire[2] /\ 2 \in 2 .. Len(wire))
        BY <2>1 DEF Shape, Types, StreamTypes
      <3> QED
        BY <2>1, <3>1 DEF Snapshot, Shape, ConnInv
    <2>3. CASE Snapshot
      <3>1. Head(wire).type = "ready" /\ program = "watcher"
        BY <2>3 DEF Snapshot, Mirrors
      <3>2. mirror' = Head(wire).vms /\ buffer' = buffer
        BY <1>5, <2>1, <3>1 DEF Transform, OnReady
      <3>3. Base' = Base /\ Rest' = Rest
        BY <2>1, <2>2, <2>3, <3>2 DEF Base, Rest
      <3> QED
        BY <1>2, <2>1, <3>2, <3>3 DEF View
    <2>4. CASE ~Snapshot
      <3>1. mirror' = mirror /\ buffer' = Append(buffer, Head(wire))
        BY <1>5, <2>1, <2>4 DEF Transform, Snapshot, client
      <3>2. Base' = Base /\ Rest' = Tail(wire) /\ Rest = wire
        BY <2>1, <2>2, <2>4, <3>1 DEF Base, Rest
      <3>3. buffer' \o Rest' = buffer \o Rest
        BY <2>1, <3>1, <3>2, RestType, Moved
      <3> QED
        BY <1>2, <2>1, <3>2, <3>3 DEF View
    <2> QED
      BY <2>3, <2>4
  <1>6. CASE Readable
    <2>1. ~watch.on
      BY Watches DEF Mirrors, Shape, ProgramInv
    <2>2. /\ pc = "mirror" /\ mirror' = Applied(mirror, buffer) /\ buffer' = <<>>
          /\ UNCHANGED <<wire, pend, vmobjs>>
      BY <1>6, <2>1 DEF Readable, server
    <2>3. ~Snapshot /\ ~Snapshot'
      BY <2>2 DEF Mirrors, Shape, ConnInv, Snapshot
    <2>4. Base = mirror /\ Rest = wire /\ Base' = mirror' /\ Rest' = wire
      BY <2>2, <2>3 DEF Base, Rest
    <2>5. buffer' \o Rest' = wire
      BY <2>2, <2>4, RestType
    <2>6. View' = Applied(Applied(mirror, buffer), wire) /\ View = Applied(mirror, buffer \o wire)
      BY <2>2, <2>4, <2>5 DEF View
    <2>7. Applied(Applied(mirror, buffer), wire)[y] = Applied(mirror, buffer \o wire)[y]
      BY RestType, AppliedConcat
    <2> QED
      BY <1>2, <2>2, <2>6, <2>7
  <1>7. CASE UNCHANGED <<wire, buffer, mirror, pend, vmobjs>>
    <2>1. View' = View
      BY <1>7 DEF View, Base, Rest, Snapshot
    <2> QED
      BY <1>2, <1>7, <2>1
  <1> QED
    BY <1>1, <1>3, <1>4, <1>5, <1>6, <1>7, MirrorSteps

-----------------------------------------------------------------------------
(* Theorems.                                                               *)

LEMMA InitRest == Init => PendInv /\ DeleteInv /\ SeenInv /\ StateInv /\ MirrorExact
  <1> SUFFICES ASSUME Init PROVE PendInv /\ DeleteInv /\ SeenInv /\ StateInv /\ MirrorExact
    OBVIOUS
  <1>1. Lines = {}
    BY DEF Init, Lines, Range
  <1>2. watch.kind = "none" /\ outcome = "none" /\ ~listening /\ pc = "start"
    BY Watches DEF Init
  <1>3. PendInv
    BY DEF Init, PendInv
  <1>4. DeleteInv
    BY <1>1, <1>2 DEF Init, DeleteInv, KnownAbsent, LinesTrue, WatchTrue, OutcomeTrue, NotMissed
  <1>5. SeenInv /\ StateInv /\ MirrorExact
    BY <1>2 DEF SeenInv, StateInv, MirrorExact
  <1> QED
    BY <1>3, <1>4, <1>5

\* Every step of vminfod, of the stream and of its three users (vminfod.js,
\* client.js, VM.js) keeps the invariant, whatever dies or times out and in
\* whichever order lines, callbacks and commands come.
THEOREM ClientInvariance == Spec => []IInv
  <1>1. Init => IInv
    BY InitShape, InitRest DEF IInv
  <1>2. IInv /\ [Next]_vars => IInv'
    BY NextShape, NextPend, NextDelete, NextSeen, NextState, NextMirror DEF IInv
  <1> QED
    BY <1>1, <1>2, PTL DEF Spec

\* Variables keep their types; the snapshot is the first line of a response and
\* the ready timer runs only with a request (_transform and start in client.js).
THEOREM ClientTypeCorrectness == Spec => []TypeOK
  <1>1. IInv => TypeOK
    <2> SUFFICES ASSUME Shape PROVE TypeOK
      BY DEF IInv
    <2>1. \A ev \in Range(buffer) : ev.type \in {"create", "modify", "delete"}
      <3>1. Range(buffer) \subseteq EventLine
        BY RangeOf DEF Shape, Types, StreamTypes
      <3> QED
        BY <3>1 DEF EventLine
    <2>2. watch.calls \in Nat
      BY DEF Shape, Types, ClientTypes, Watch
    <2>3. readyTimer => req
      BY DEF Shape, ConnInv
    <2>4. \A i \in 2 .. Len(wire) : wire[i].type # "ready"
      BY DEF Shape, ConnInv
    <2> QED
      BY <2>1, <2>2, <2>3, <2>4
         DEF TypeOK, Shape, Types, ServerTypes, StreamTypes, ClientTypes, Obj
  <1> QED
    BY <1>1, ClientInvariance, PTL

\* The mirror of VminfodWatcher, brought up to date with the lines under way,
\* equals the VMs of vminfod, for every number of zones and of changes: no event
\* is lost between the registration of the listeners, the snapshot and
\* createVmobj or deleteVmobj that wait for their watchers (GET /events).
THEOREM MirrorsVminfod == Spec => []MirrorExact
  <1>1. IInv => MirrorExact
    BY DEF IInv
  <1> QED
    BY <1>1, ClientInvariance, PTL

\* watchForEvent never sleeps through its event: not one that came between the
\* snapshot and the call, not one that waits in the buffer, not one whose
\* deletion vminfod has yet to announce.
THEOREM WatchesMissNothing == Spec => []NoMissedEvent
  <1>1. IInv => NoMissedEvent
    <2> SUFFICES ASSUME IInv, watch.on, CaughtUp, action # "delete"
                 PROVE  /\ watch.kind = "state" => vmobjs[Target].state # "running"
                        /\ watch.kind = "delete" => vmobjs[Target] # Absent
      BY DEF NoMissedEvent
    <2>1. Lines = {} /\ pend[Target] = "none" /\ listening
      BY ClientAssumption DEF CaughtUp, Lines, Range
    <2>2. watch.kind = "state" => pc = "waiting" /\ program = "waitForZoneState"
      BY DEF IInv, Shape, WatchInv
    <2>3. watch.kind = "delete" => action = "done" /\ program = "deleteZone"
      BY DEF IInv, Shape, WatchInv
    <2>4. watch.kind = "state" => vmobjs[Target].state # "running"
      BY <2>1, <2>2 DEF IInv, StateInv, Coming
    <2>5. watch.kind = "delete" => vmobjs[Target] # Absent
      BY <2>1, <2>3 DEF IInv, DeleteInv, NotMissed
    <2> QED
      BY <2>4, <2>5
  <1> QED
    BY <1>1, ClientInvariance, PTL

\* A watch calls back at most once, whatever races it, and an operation of VM.js
\* that reports success does so for a state that vminfod had since the call, or
\* for a VM that is gone from it.
THEOREM SuccessIsTrue == Spec => []OkMeansSeen
  <1>1. IInv => OkMeansSeen
    <2> SUFFICES ASSUME IInv PROVE OkMeansSeen
      OBVIOUS
    <2>1. watch.calls <= 1
      BY DEF IInv, Shape, Types, ClientTypes, Watch
    <2>2. ASSUME outcome = "ok", program = "waitForZoneState" PROVE "running" \in seen
      BY <2>2 DEF IInv, Shape, ProgramInv, SeenInv, SeenOutcome
    <2>3. ASSUME outcome = "ok", program # "waitForZoneState", up
          PROVE  vmobjs[Target] = Absent
      <3>1. program = "deleteZone"
        BY <2>3 DEF IInv, Shape, Types, ClientTypes, Program, ProgramInv
      <3> QED
        BY <2>3, <3>1 DEF IInv, DeleteInv, OutcomeTrue, Gone
    <2> QED
      BY <2>1, <2>2, <2>3 DEF OkMeansSeen
  <1> QED
    BY <1>1, ClientInvariance, PTL
=============================================================================
