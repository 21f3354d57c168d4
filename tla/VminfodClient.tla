--------------------------- MODULE VminfodClient ---------------------------
(***************************************************************************)
(* The event stream of vminfod (GET /events in vminfod.js), the classes of *)
(* vminfod/client.js that read it, and three of their users: the mirror of *)
(* all VMs that the metadata agent keeps (VminfodWatcher), and the waits   *)
(* of VM.waitForZoneState and of deleteZone in VM.js.                      *)
(*                                                                         *)
(* A VM object is reduced to its zone_state and to whether it has a        *)
(* zfs_filesystem, the properties that deleteZone waits for.  How vminfod  *)
(* comes by its objects is in Vminfod; here it takes one up in a step.     *)
(***************************************************************************)
EXTENDS Naturals, Sequences, SequencesExt, FiniteSets

CONSTANTS
    Zone,
    Target,      \* the zone that an operation of VM.js is about
    MaxChange,   \* bound: changes that others make to the zones
    MaxFault     \* bound: deaths of vminfod and expired ready timeouts

ASSUME ClientAssumption == Target \in Zone /\ MaxChange \in Nat /\ MaxFault \in Nat

VARIABLES
    program,     \* which user of the stream runs
    sys,         \* the zones, as the system has them
    up,          \* vminfod runs and serves requests
    vmobjs,      \* self.vmobjs of vminfod
    pend,        \* the event that is emitted when the watchers have changed
    listening,   \* the listeners of the request are registered
    conn,        \* the connection: none, requested, open, ended
    wire,        \* the lines that _transform has yet to see
    req,         \* vs_req is set
    readyTimer,  \* vs_ready_timeout is set
    buffer,      \* the events that were pushed and not read
    watch,       \* the last call of watchForEvent or watchForChanges
    pc,          \* how far the program is
    action,      \* the command that runs next to a watch
    mirror,      \* vw_vms of VminfodWatcher
    outcome,     \* what the operation called back with
    seen,        \* history: the states that Target had since the call
    changes,     \* how many changes others have made
    faults       \* how many faults there were

server == <<sys, up, vmobjs, pend, listening, seen, changes, faults>>
stream == <<conn, wire, req, readyTimer, buffer>>
client == <<watch, pc, action, mirror, outcome>>
vars == <<program, server, stream, client>>

Absent == [state |-> "absent", zfs |-> FALSE]
VM == [state : {"configured", "installed", "running"}, zfs : BOOLEAN]
Configured == [state |-> "configured", zfs |-> FALSE]
Installed == [state |-> "installed", zfs |-> TRUE]
Running == [state |-> "running", zfs |-> TRUE]
Program == {"watcher", "waitForZoneState", "deleteZone"}

Ready(vms) == [type |-> "ready", zone |-> Target, vm |-> Absent,
               changes |-> {}, vms |-> vms]
Event(type, z, vm, chg) == [type |-> type, zone |-> z, vm |-> vm,
                            changes |-> chg, vms |-> <<>>]

\* The changes of a modify event that somebody waits for.
Diff(old, new) ==
    (IF new.state = "configured" /\ old.state # new.state
     THEN {"configured"} ELSE {})
    \cup (IF old.zfs /\ ~new.zfs THEN {"zfs_filesystem"} ELSE {})

NoWatch == [on |-> FALSE, kind |-> "none", wanted |-> {}, teardown |-> FALSE,
            calls |-> 0, err |-> "none"]

Init ==
    /\ program \in Program
    /\ sys \in [Zone -> {Absent, Installed}]
    /\ up = TRUE
    /\ vmobjs = sys
    /\ pend = [z \in Zone |-> "none"]
    /\ listening = FALSE
    /\ conn = "none" /\ wire = <<>> /\ buffer = <<>>
    /\ req = FALSE /\ readyTimer = FALSE
    /\ watch = NoWatch
    /\ pc = "start" /\ action = "none" /\ outcome = "none"
    /\ mirror = [z \in Zone |-> Absent]
    /\ seen = {sys[Target].state}
    /\ changes = 0 /\ faults = 0

-----------------------------------------------------------------------------
(* The zones and vminfod.                                                  *)

\* Somebody else creates, boots, halts, uninstalls or deletes a zone.  The
\* zone of deleteZone is not created again under the same name.
Change(z, vm) ==
    /\ changes < MaxChange
    /\ program # "watcher" => z = Target
    /\ CASE sys[z] = Absent -> vm = Installed /\ program # "deleteZone"
         [] sys[z] = Installed -> vm \in {Running, Configured}
         [] sys[z] = Running -> vm = Installed
         [] OTHER -> sys[z].state = "configured" /\ vm = Absent
    /\ sys' = [sys EXCEPT ![z] = vm]
    /\ changes' = changes + 1
    /\ UNCHANGED <<program, up, vmobjs, pend, listening, seen, faults,
                   stream, client>>

\* The line goes to the request if its listeners are registered.
Emit(ev) == wire' = IF listening THEN Append(wire, ev) ELSE wire

\* createVmobj and deleteVmobj change vmobjs and emit their event when the
\* watchers of the zone have started or stopped; refreshVmobj emits at once.
Observe(z) ==
    /\ up /\ pend[z] = "none" /\ sys[z] # vmobjs[z]
    /\ vmobjs' = [vmobjs EXCEPT ![z] = sys[z]]
    /\ \/ vmobjs[z] = Absent /\ pend' = [pend EXCEPT ![z] = "create"]
          /\ UNCHANGED wire
       \/ vmobjs[z] # Absent /\ sys[z] = Absent
          /\ pend' = [pend EXCEPT ![z] = "delete"] /\ UNCHANGED wire
       \/ Absent \notin {vmobjs[z], sys[z]} /\ UNCHANGED pend
          /\ Emit(Event("modify", z, sys[z], Diff(vmobjs[z], sys[z])))
    /\ seen' = IF z = Target THEN seen \cup {sys[z].state} ELSE seen
    /\ UNCHANGED <<program, sys, up, listening, changes, faults, conn, req,
                   readyTimer, buffer, client>>

\* Mutant: the event of a deletion is forgotten.
EmitPending_NoDelete(z) ==
    /\ up /\ pend[z] # "none"
    /\ IF pend[z] = "delete" THEN UNCHANGED wire
       ELSE Emit(Event("create", z, vmobjs[z], {}))
    /\ pend' = [pend EXCEPT ![z] = "none"]
    /\ UNCHANGED <<program, sys, up, vmobjs, listening, seen, changes, faults,
                   conn, req, readyTimer, buffer, client>>

EmitPending(z) ==
    /\ up /\ pend[z] # "none"
    /\ Emit(Event(pend[z], z, vmobjs[z], {}))
    /\ pend' = [pend EXCEPT ![z] = "none"]
    /\ UNCHANGED <<program, sys, up, vmobjs, listening, seen, changes, faults,
                   conn, req, readyTimer, buffer, client>>

\* GET /events: the listeners are registered and the snapshot is sent.
Accept ==
    /\ up /\ conn = "requested"
    /\ conn' = "open"
    /\ listening' = TRUE
    /\ wire' = <<Ready(vmobjs)>>
    /\ UNCHANGED <<program, sys, up, vmobjs, pend, seen, changes, faults, req,
                   readyTimer, buffer, client>>

\* res.on('close'): the client has destroyed the request.
Cleanup ==
    /\ listening /\ conn = "none"
    /\ listening' = FALSE
    /\ UNCHANGED <<program, sys, up, vmobjs, pend, seen, changes, faults,
                   stream, client>>

\* vminfod dies; what it has sent still arrives.
ServerDies ==
    /\ up /\ faults < MaxFault
    /\ faults' = faults + 1
    /\ up' = FALSE /\ listening' = FALSE
    /\ pend' = [z \in Zone |-> "none"]
    /\ vmobjs' = [z \in Zone |-> Absent]
    /\ conn' = IF conn = "open" THEN "ended" ELSE conn
    /\ UNCHANGED <<program, sys, seen, changes, wire, req, readyTimer, buffer,
                   client>>

\* It loads all VMs before it listens for requests.
ServerStarts ==
    /\ ~up
    /\ up' = TRUE
    /\ vmobjs' = sys
    /\ seen' = seen \cup {sys[Target].state}
    /\ UNCHANGED <<program, sys, pend, listening, changes, faults, stream,
                   client>>

-----------------------------------------------------------------------------
(* VminfodEventStream.                                                     *)

\* start: a request, and a timer for the ready event.
Start ==
    /\ conn' = "requested" /\ wire' = <<>> /\ buffer' = <<>>
    /\ req' = TRUE /\ readyTimer' = TRUE

\* stop
Stop ==
    /\ req' = FALSE /\ readyTimer' = FALSE
    /\ conn' = "none"
    /\ UNCHANGED <<wire, buffer>>

\* done: timers and listeners are removed and the callback is called.  One flag
\* stands for isDone, the timer and the listeners, which only done changes, all
\* of them at once.
Done(w, err) == [w EXCEPT !.on = FALSE, !.calls = @ + 1, !.err = err]

\* The stream emits 'error': a watch, whose options have catchErrors, stops the
\* stream and calls back; without a listener the process dies.  The metadata
\* agent is then started again.
EmitError ==
    /\ Stop
    /\ IF watch.on
       THEN watch' = Done(watch, "stream") /\ UNCHANGED <<pc, outcome>>
       ELSE /\ UNCHANGED watch
            /\ pc' = IF program = "watcher" THEN "start" ELSE "end"
            /\ outcome' = IF program = "watcher" THEN outcome ELSE "died"
    /\ UNCHANGED <<action, mirror>>

\* Mutant: the end of the response goes unnoticed.
RequestFails_RefusedOnly ==
    /\ req /\ outcome = "none"
    /\ conn = "requested" /\ ~up
    /\ EmitError
    /\ UNCHANGED <<program, server>>

\* The request is refused, or the response ends before stop().
RequestFails ==
    /\ req /\ outcome = "none"
    /\ \/ conn = "requested" /\ ~up
       \/ conn = "ended" /\ wire = <<>>
    /\ EmitError
    /\ UNCHANGED <<program, server>>

ReadyTimeout ==
    /\ readyTimer /\ faults < MaxFault
    /\ faults' = faults + 1
    /\ EmitError
    /\ UNCHANGED <<program, sys, up, vmobjs, pend, listening, seen, changes>>

-----------------------------------------------------------------------------
(* watchForEvent and watchForChanges.                                      *)

\* Mutant: an event with other values matches.
Matches_AnyValue(w, ev) == ev.zone = Target

\* objSameValues of the predicate and the event: what each wait looks for.
Matches(w, ev) ==
    CASE w.kind = "state"  -> ev.zone = Target /\ ev.vm.state = "running"
      [] w.kind = "delete" -> ev.zone = Target /\ ev.type = "delete"
      [] OTHER             -> FALSE

\* The wanted changes that none of the events has.
Left(w, evs) == w.wanted \ UNION {ev.changes : ev \in {e \in Range(evs) : e.zone = Target}}

\* processEvents with processEvent, for both functions: all events are read until
\* one matches, or the last of the wanted changes is seen; what follows is
\* dropped.
ProcessEvents(w, evs) ==
    IF ~w.on THEN w
    ELSE IF w.kind = "changes"
    THEN IF Left(w, evs) = {} THEN Done([w EXCEPT !.wanted = {}], "none")
         ELSE [w EXCEPT !.wanted = Left(w, evs)]
    ELSE IF \E ev \in Range(evs) : Matches(w, ev) THEN Done(w, "none") ELSE w

\* teardown, when a watch is done.
Teardown(w) == ~w.on /\ w.calls = 1 /\ w.teardown

\* The watch becomes w: the stream is stopped if it is done and tears down.
SetWatch(w) ==
    /\ watch' = w
    /\ IF Teardown(w) THEN req' = FALSE /\ readyTimer' = FALSE /\ conn' = "none"
                      ELSE UNCHANGED <<req, readyTimer, conn>>

NewWatch(kind, wanted, teardown) ==
    [NoWatch EXCEPT !.on = TRUE, !.kind = kind, !.wanted = wanted,
                    !.teardown = teardown]

\* Mutant: without startFresh the events that wait are dropped as well.
StartWatch_Fresh(w, startFresh) ==
    /\ SetWatch(w)
    /\ buffer' = <<>>

\* The call: startFresh drops the events that wait, else they are processed.
StartWatch(w, startFresh) ==
    /\ SetWatch(IF startFresh THEN w ELSE ProcessEvents(w, buffer))
    /\ buffer' = <<>>

\* Mutant: only watchForChanges arms a timer.
WatchTimeout_ChangesOnly ==
    /\ watch.on /\ outcome = "none" /\ watch.kind = "changes"
    /\ watch' = Done(watch, "timeout")
    /\ Stop
    /\ UNCHANGED <<program, server, pc, action, mirror, outcome>>

\* The timer of a watch; with catchErrors the error stops the stream.
WatchTimeout ==
    /\ watch.on /\ outcome = "none"
    /\ watch' = Done(watch, "timeout")
    /\ Stop
    /\ UNCHANGED <<program, server, pc, action, mirror, outcome>>

\* cancelFn: nothing happens if the watch is done.
Cancelled(w) == IF w.on THEN Done(w, "none") ELSE w

-----------------------------------------------------------------------------
(* VminfodWatcher.                                                         *)

\* _handleEvent, for all events in turn: the last one of a zone stays.
Applied(vms, evs) ==
    [z \in Zone |->
        LET last == SelectLastInSeq(evs, LAMBDA ev : ev.zone = z)
        IN IF last = 0 THEN vms[z]
           ELSE IF evs[last].type = "delete" THEN Absent ELSE evs[last].vm]

-----------------------------------------------------------------------------
(* The lines arrive.                                                       *)

\* What the program does when the stream is ready.
OnReady(vms) ==
    CASE program = "watcher" ->
            /\ mirror' = vms /\ pc' = "mirror"
            /\ UNCHANGED <<outcome, watch>>
      [] program # "watcher" /\ vms[Target] = Absent ->
            /\ outcome' = "ENOENT" /\ pc' = "end"
            /\ UNCHANGED <<mirror, watch>>
      [] program = "waitForZoneState" /\ vms[Target].state = "running" ->
            /\ outcome' = "ok" /\ pc' = "end"
            /\ UNCHANGED <<mirror, watch>>
      [] program = "waitForZoneState" /\ vms[Target].state # "running"
                                      /\ vms[Target] # Absent ->
            /\ pc' = "wait" /\ UNCHANGED <<mirror, outcome, watch>>
      [] OTHER -> pc' = "halt" /\ UNCHANGED <<mirror, outcome, watch>>

\* _transform: a ready event goes to the program, others are pushed; a stream
\* that was stopped ignores the line.
Transform ==
    /\ wire # <<>> /\ outcome = "none"
    /\ wire' = Tail(wire)
    /\ \/ ~req /\ UNCHANGED <<readyTimer, buffer, client>>
       \/ /\ req /\ Head(wire).type = "ready"
          /\ readyTimer' = FALSE
          /\ OnReady(Head(wire).vms)
          /\ UNCHANGED <<buffer, action>>
       \/ /\ req /\ Head(wire).type # "ready"
          /\ buffer' = Append(buffer, Head(wire))
          /\ UNCHANGED <<readyTimer, client>>
    /\ UNCHANGED <<program, server, conn, req>>

\* 'readable': the watcher, or a watch if there is one, reads all events.
Readable ==
    /\ buffer # <<>> /\ outcome = "none"
    /\ buffer' = <<>>
    /\ \/ /\ pc = "mirror"
          /\ mirror' = Applied(mirror, buffer)
          /\ UNCHANGED <<watch, req, readyTimer, conn>>
       \/ /\ watch.on
          /\ SetWatch(ProcessEvents(watch, buffer))
          /\ UNCHANGED mirror
    /\ UNCHANGED <<program, server, wire, pc, action, outcome>>

-----------------------------------------------------------------------------
(* The programs.                                                           *)

Connect ==
    /\ pc = "start"
    /\ ~listening
    /\ Start
    /\ pc' = "connecting"
    /\ seen' = {vmobjs[Target].state}
    /\ UNCHANGED <<program, sys, up, vmobjs, pend, listening, changes, faults,
                   watch, action, mirror, outcome>>

\* waitForZoneState: the wait after the state in the snapshot was another one.
WaitForEvent ==
    /\ pc = "wait"
    /\ pc' = "waiting"
    /\ StartWatch(NewWatch("state", {}, TRUE), FALSE)
    /\ UNCHANGED <<program, server, wire, action, mirror, outcome>>

\* The parallel of a watch and a command is over, or the wait alone is.
Finished == watch.calls > 0 /\ ~watch.on /\ action \in {"none", "done", "failed"}

WaitDone ==
    /\ pc = "waiting" /\ Finished
    /\ pc' = "end"
    /\ outcome' = IF watch.err = "none" THEN "ok" ELSE "error"
    /\ UNCHANGED <<program, server, stream, watch, action, mirror>>

\* deleteZone: zoneadm halt, whose error is logged only.
Halt ==
    /\ pc = "halt"
    /\ pc' = "uninstall"
    /\ sys' = IF sys[Target].state = "running"
              THEN [sys EXCEPT ![Target].state = "installed"] ELSE sys
    /\ UNCHANGED <<program, up, vmobjs, pend, listening, seen, changes, faults,
                   stream, watch, action, mirror, outcome>>

\* The watch begins and zoneadm uninstall is started.
Uninstall ==
    /\ pc = "uninstall"
    /\ pc' = "uninstalling"
    /\ StartWatch(NewWatch("changes", {"configured", "zfs_filesystem"}, FALSE),
                  TRUE)
    /\ action' = "uninstall"
    /\ UNCHANGED <<program, server, wire, mirror, outcome>>

\* zoneadm uninstall destroys the data set, then the zone is configured.  If
\* it fails nobody waits for vminfod.
UninstallRuns ==
    /\ action \in {"uninstall", "uninstall2"}
    /\ \/ /\ sys[Target].state = "installed"
          /\ sys' = [sys EXCEPT ![Target] =
                IF action = "uninstall" THEN [@ EXCEPT !.zfs = FALSE]
                ELSE [@ EXCEPT !.state = "configured"]]
          /\ action' = IF action = "uninstall" THEN "uninstall2" ELSE "done"
          /\ UNCHANGED watch
       \/ /\ sys[Target].state # "installed"
          /\ watch' = Cancelled(watch)
          /\ action' = "done"
          /\ UNCHANGED sys
    /\ UNCHANGED <<program, up, vmobjs, pend, listening, seen, changes, faults,
                   stream, pc, mirror, outcome>>

\* The watch for the delete event begins and zonecfg delete is started, unless
\* the wait before it failed.
UninstallDone ==
    /\ pc = "uninstalling" /\ Finished
    /\ IF watch.err # "none"
       THEN /\ pc' = "end" /\ outcome' = "error"
            /\ UNCHANGED <<watch, action, buffer, req, readyTimer, conn>>
       ELSE /\ pc' = "deleting"
            /\ StartWatch(NewWatch("delete", {}, FALSE), TRUE)
            /\ action' = "delete"
            /\ UNCHANGED outcome
    /\ UNCHANGED <<program, server, wire, mirror>>

DeleteRuns ==
    /\ action = "delete"
    /\ \/ /\ sys[Target] # Absent
          /\ sys' = [sys EXCEPT ![Target] = Absent]
          /\ action' = "done"
          /\ UNCHANGED watch
       \/ /\ sys[Target] = Absent
          /\ watch' = Cancelled(watch)
          /\ action' = "failed"
          /\ UNCHANGED sys
    /\ UNCHANGED <<program, up, vmobjs, pend, listening, seen, changes, faults,
                   stream, pc, mirror, outcome>>

\* The callback of deleteZone; the stream is stopped.
DeleteDone ==
    /\ pc = "deleting" /\ Finished
    /\ pc' = "end"
    /\ outcome' = IF watch.err = "none" /\ action = "done" THEN "ok" ELSE "error"
    /\ Stop
    /\ UNCHANGED <<program, server, watch, action, mirror>>

-----------------------------------------------------------------------------
Server == (\E z \in Zone : Observe(z) \/ EmitPending(z)) \/ Accept \/ Cleanup

Stream == Transform \/ Readable \/ RequestFails

Operation ==
    \/ Connect \/ WaitForEvent \/ WaitDone
    \/ Halt \/ Uninstall \/ UninstallRuns \/ UninstallDone
    \/ DeleteRuns \/ DeleteDone

Next ==
    \/ \E z \in Zone, vm \in {Absent, Configured, Installed, Running} :
          Change(z, vm)
    \/ Server
    \/ ServerDies
    \/ ServerStarts
    \/ Stream
    \/ ReadyTimeout
    \/ WatchTimeout
    \/ Operation

Spec == Init /\ [][Next]_vars

\* The timers fire, callbacks and lines get their turn, commands come back,
\* and SMF starts vminfod again.
FairSpec ==
    /\ Spec
    /\ WF_vars(Server) /\ WF_vars(ServerStarts)
    /\ WF_vars(Stream) /\ WF_vars(WatchTimeout) /\ WF_vars(Operation)

-----------------------------------------------------------------------------
(* Properties.                                                             *)

\* The type invariant of vminfod, the stream and the program that reads it.
TypeOK ==
    /\ program \in Program
    /\ sys \in [Zone -> VM \cup {Absent}]
    /\ vmobjs \in [Zone -> VM \cup {Absent}]
    /\ mirror \in [Zone -> VM \cup {Absent}]
    /\ pend \in [Zone -> {"none", "create", "delete"}]
    /\ conn \in {"none", "requested", "open", "ended"}
    /\ readyTimer => req
    /\ \A i \in 2..Len(wire) : wire[i].type # "ready"
    /\ \A ev \in Range(buffer) : ev.type \in {"create", "modify", "delete"}
    /\ watch.calls \in Nat

\* Nothing is under way between vminfod and the program.
CaughtUp ==
    up /\ listening /\ wire = <<>> /\ buffer = <<>>
    /\ \A z \in Zone : pend[z] = "none"

\* VminfodWatcher: the snapshot and the events after it, read in order, make
\* the mirror equal to the VMs of vminfod, also when the request arrives while
\* createVmobj or deleteVmobj has changed vmobjs and its event is to come.
MirrorExact ==
    pc \in {"connecting", "mirror"} /\ program = "watcher" /\ listening /\ req =>
        LET snapshot == wire # <<>> /\ Head(wire).type = "ready"
            base == IF snapshot THEN Head(wire).vms ELSE mirror
            evs == buffer \o (IF snapshot THEN Tail(wire) ELSE wire)
            view == Applied(base, evs)
        IN \A z \in Zone : pend[z] = "none" => view[z] = vmobjs[z]

\* A watch never sleeps through what it waits for: as long as it waits and
\* nothing is under way, vminfod does not have the state, or still has the VM
\* (a watch for a deletion drops earlier events and waits for that of its own
\* zonecfg delete, which calls the watch off if the zone is gone).
NoMissedEvent ==
    watch.on /\ CaughtUp /\ action # "delete" =>
        CASE watch.kind = "state"  -> vmobjs[Target].state # "running"
          [] watch.kind = "delete" -> vmobjs[Target] # Absent
          [] OTHER -> TRUE

\* A watch calls back at most once, whichever of the event, the timeout, the end
\* of the stream and the cancellation come, and an operation succeeds only on
\* what vminfod has had: the state for which waitForZoneState waits, the
\* absence of the VM after deleteZone.
OkMeansSeen ==
    /\ watch.calls <= 1
    /\ outcome = "ok" =>
           IF program = "waitForZoneState" THEN "running" \in seen
           ELSE up => vmobjs[Target] = Absent

\* Every operation calls back or dies with its stream.
OperationEnds == program # "watcher" => <>(outcome # "none")

\* The mirror ends up equal to the zones once nothing changes any more.
MirrorCatchesUp ==
    program = "watcher" => <>[](pc = "mirror" /\ mirror = sys)

=============================================================================
