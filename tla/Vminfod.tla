------------------------------- MODULE Vminfod -------------------------------
(***************************************************************************)
(* The cache of vminfod and how it follows the system: the zones' data     *)
(* (vm_data), the VM objects made from it (vmobjs), the handlers of zone   *)
(* and file events, and the comparison at the end of the periodic reset.   *)
(*   src/src/vm/node_modules/vminfod/vminfod.js                            *)
(*   src/src/vm/node_modules/vmload/index.js    (getZoneData, getVmobj)    *)
(* It runs on the event queue and the reset protocol of VminfodReset.      *)
(*                                                                         *)
(* What is known of a zone is one version number per context: "adm" stands *)
(* for zoneadm_objects, "xml" for zonexml_objects and "json" for           *)
(* json_objects.  0 stands for no entry.  A job is createVmobj,            *)
(* refreshVmobj or deleteVmobj at work on one zone.                        *)
(***************************************************************************)
EXTENDS VminfodReset

CONSTANTS
    Zone,           \* zone names
    Lossy,          \* TRUE iff zone events get lost ("best-effort" sysevents)
    MayFail,        \* TRUE iff getVmobj fails at times
    MaxChange       \* bound: changes of the system

Kinds == {"zone", "xml", "xmldel", "json"}

\* One queued task per description: its kind and its zone.
ASSUME CacheAssumption ==
    /\ Desc = [kind : Kinds, zone : Zone]
    /\ {Lossy, MayFail} \subseteq BOOLEAN
    /\ MaxChange \in Nat
    /\ Workers = 1 /\ Dedup /\ IdleDelay

VARIABLES
    real,       \* external: the zones as they are
    changes,    \* external: how often they have changed
    events,     \* external: events on their way to the handlers
    watch,      \* external: fsw watches the files of the zone
    missed,     \* history: the zones of whose data once no object was made
    load,       \* _loadVmData under way: what it has read, what is left
    vmData,     \* self.vm_data
    vmTmp,      \* self.vm_data_tmp
    vmobjs,     \* self.vmobjs
    vmobjsJson, \* self.vmobjs_json
    job,        \* the job of each zone
    compare,    \* where resetCompareVmobjSets stands
    old,        \* old_vm_data.zoneadm_objects
    view        \* the VM objects as a listener knows them from the events

sysVars == <<real, changes, events, watch, missed>>
cacheVars == <<load, vmData, vmTmp, vmobjs, vmobjsJson, job, compare, old, view>>
allVars == <<vars, sysVars, cacheVars>>

Ctx == {"adm", "xml", "json"}
Version == 0 .. MaxChange + 1
Absent == [c \in Ctx |-> 0]
Hole == -1
Data == [Ctx -> Version \cup {Hole}]
NoData == [none |-> TRUE]             \* undefined

Known(data) == {z \in Zone : data[z]["adm"] # 0}

NoLoad == [stage |-> "none", left |-> {}, got |-> [z \in Zone |-> Absent]]

NoJob == [pc |-> "none", live |-> Absent, tmp |-> NoData, err |-> "none"]

\* The system when vminfod starts: any zones, with or without metadata files.
CacheInit ==
    /\ Init
    /\ real \in [Zone -> {Absent,
                          [c \in Ctx |-> 1],
                          [c \in Ctx |-> IF c = "json" THEN 0 ELSE 1]}]
    /\ changes = 0
    /\ events = {}
    /\ watch = [z \in Zone |-> FALSE]
    /\ missed = {}
    /\ load = NoLoad
    /\ vmData = [z \in Zone |-> Absent]
    /\ vmTmp = NoData
    /\ vmobjs = [z \in Zone |-> Absent]
    /\ vmobjsJson = [z \in Zone |-> Absent]
    /\ job = [z \in Zone |-> NoJob]
    /\ compare = "none"
    /\ old = {}
    /\ view = [z \in Zone |-> Absent]

-----------------------------------------------------------------------------
(***************************************************************************)
(* External: the system changes, and the watchers send events.  A zone     *)
(* event may get lost; a file event is sent iff the file is watched.  The  *)
(* last conjunct is a bound: there is a task left for every event.         *)
(***************************************************************************)
Change(z, data, kinds) ==
    /\ changes < MaxChange
    /\ changes' = changes + 1
    /\ real' = [real EXCEPT ![z] = data]
    /\ \E sent \in SUBSET kinds :
          /\ \A k \in kinds \ sent :
                IF k = "zone" THEN Lossy ELSE ~watch[z]
          /\ \A k \in sent : k = "zone" \/ watch[z]
          /\ events' = events \cup {[kind |-> k, zone |-> z] : k \in sent}
          /\ nextId + Cardinality(events') <= MaxTasks + 1
    /\ UNCHANGED <<vars, watch, missed, cacheVars>>

Exists(z) == real[z]["adm"] # 0

ZoneCreate(z) ==
    ~Exists(z) /\ Change(z, [c \in Ctx |-> IF c = "json" THEN 0 ELSE changes + 2],
                         {"zone"})

ZoneState(z) ==
    Exists(z) /\ Change(z, [real[z] EXCEPT !["adm"] = changes + 2], {"zone"})

XmlEdit(z) ==
    Exists(z) /\ Change(z, [real[z] EXCEPT !["xml"] = changes + 2], {"xml"})

JsonWrite(z) ==
    Exists(z) /\ Change(z, [real[z] EXCEPT !["json"] = changes + 2], {"json"})

ZoneDelete(z) == Exists(z) /\ Change(z, Absent, {"xmldel"})

-----------------------------------------------------------------------------
(***************************************************************************)
(* _loadVmData: the list of the zones first, then the XML of each of them, *)
(* then the JSON files of each.  A zone without XML fails the load.        *)
(***************************************************************************)
LoadList ==
    /\ load.stage = "list"
    /\ load' = [stage |-> "xml", left |-> Known(real),
                got |-> [z \in Zone |->
                           [Absent EXCEPT !["adm"] = real[z]["adm"]]]]
    /\ UNCHANGED <<vars, sysVars, vmData, vmTmp, vmobjs, vmobjsJson, job,
                   compare, old, view>>

\* getVmobjXMLFile, for the zones next to each other.
LoadXml(z) ==
    /\ load.stage = "xml" /\ z \in load.left
    /\ load' = IF real[z]["xml"] = 0
               THEN [NoLoad EXCEPT !.stage = "failed"]
               ELSE [load EXCEPT !.left = load.left \ {z},
                                 !.got[z]["xml"] = real[z]["xml"]]
    /\ UNCHANGED <<vars, sysVars, vmData, vmTmp, vmobjs, vmobjsJson, job,
                   compare, old, view>>

\* getVmobjJSON: a file that is not there is no error.
LoadJson(z) ==
    /\ load.stage = "json" /\ z \in load.left
    /\ load' = [load EXCEPT !.left = load.left \ {z},
                            !.got[z]["json"] = real[z]["json"]]
    /\ UNCHANGED <<vars, sysVars, vmData, vmTmp, vmobjs, vmobjsJson, job,
                   compare, old, view>>

LoadNext ==
    /\ load.stage \in {"xml", "json"} /\ load.left = {}
    /\ load' = IF load.stage = "xml"
               THEN [load EXCEPT !.stage = "json", !.left = Known(load.got)]
               ELSE [load EXCEPT !.stage = "loaded"]
    /\ UNCHANGED <<vars, sysVars, vmData, vmTmp, vmobjs, vmobjsJson, job,
                   compare, old, view>>

LoadStep == LoadList \/ LoadNext \/ \E z \in Zone : LoadXml(z) \/ LoadJson(z)

-----------------------------------------------------------------------------
\* start(): startVmWatchers for the zones there are, then setVmData ...
BootWatch ==
    /\ phase = "booting" /\ load.stage = "none"
    /\ watch' = [z \in Zone |-> Exists(z)]
    /\ load' = [NoLoad EXCEPT !.stage = "list"]
    /\ UNCHANGED <<vars, real, changes, events, missed, vmData, vmTmp, vmobjs,
                   vmobjsJson, job, compare, old, view>>

\* ... setVmobjs, startResumeQueue, startTimers and 'ready'.
BootReady ==
    /\ load.stage = "loaded"
    /\ Boot
    /\ vmData' = load.got
    /\ vmobjs' = load.got
    /\ view' = load.got
    /\ load' = NoLoad
    /\ UNCHANGED <<sysVars, vmTmp, vmobjsJson, job, compare, old>>

\* start() has failed: the process exits.
Down == phase = "booting" /\ load.stage = "failed"

-----------------------------------------------------------------------------
(***************************************************************************)
(* Starting a job: the new job of z, when the data sets are data and tmp.  *)
(***************************************************************************)
\* createVmobj loads everything, unless the zone is known already.
CreateVmobj(z) ==
    IF vmobjs[z] # Absent
    THEN [NoJob EXCEPT !.pc = "done"]
    ELSE [NoJob EXCEPT !.pc = "create", !.live = [c \in Ctx |-> Hole]]

\* cloneVmDatasets and invalidateZoneDataCache, then refreshVmobj.
Poke(data, contexts) == [c \in Ctx |-> IF c \in contexts THEN Hole ELSE data[c]]

RefreshVmobj(z, contexts) ==
    IF vmobjs[z] = Absent
    THEN [NoJob EXCEPT !.pc = "done"]
    ELSE [pc |-> "refresh", live |-> Poke(vmData[z], contexts),
          tmp |-> IF vmTmp = NoData THEN NoData ELSE Poke(vmTmp[z], contexts),
          err |-> "none"]

HandleZoneEventTask(z) ==
    IF vmobjs[z] = Absent THEN CreateVmobj(z)
    ELSE RefreshVmobj(z, {"adm", "xml"})

\* A deletion is verified with stat first.
HandleZoneXMLEventTask(z, type) ==
    IF type = "change" THEN RefreshVmobj(z, {"xml"})
    ELSE [NoJob EXCEPT !.pc = IF vmobjs[z] = Absent THEN "done" ELSE "stat"]

HandleZoneContextUpdate(z) == RefreshVmobj(z, {"json"})

\* The function of a task, chosen by the event.
TaskJob(d) ==
    CASE d.kind = "zone"   -> HandleZoneEventTask(d.zone)
      [] d.kind = "xml"    -> HandleZoneXMLEventTask(d.zone, "change")
      [] d.kind = "xmldel" -> HandleZoneXMLEventTask(d.zone, "delete")
      [] d.kind = "json"   -> HandleZoneContextUpdate(d.zone)

\* deleteVmobj for the zones Z: the caches are cleaned at once.
DeleteVmobjs(Z) ==
    LET gone == {z \in Z : vmobjs[z] # Absent}
        Clean(data) == [z \in Zone |-> IF z \in gone THEN Absent ELSE data[z]]
    IN  /\ vmobjs' = Clean(vmobjs)
        /\ vmobjsJson' = Clean(vmobjsJson)
        /\ vmData' = Clean(vmData)
        /\ vmTmp' = IF vmTmp = NoData THEN NoData ELSE Clean(vmTmp)
        /\ job' = [z \in Zone |->
                     IF z \in gone THEN [NoJob EXCEPT !.pc = "unwatch"]
                     ELSE IF z \in Z THEN [NoJob EXCEPT !.pc = "done"]
                     ELSE job[z]]

SetJob(z, j) == job' = [job EXCEPT ![z] = j]

EndJob(z) == SetJob(z, [NoJob EXCEPT !.pc = "done"])

-----------------------------------------------------------------------------
(***************************************************************************)
(* The steps of a job.                                                     *)
(***************************************************************************)
Holes(data) == IF data = NoData THEN {} ELSE {c \in Ctx : data[c] = Hole}

\* fs.stat of the XML file, after the event that it was deleted.
StatXml(z) ==
    /\ job[z].pc = "stat"
    /\ \/ /\ real[z]["xml"] = 0
          /\ DeleteVmobjs({z})
       \/ /\ real[z]["xml"] # 0
          /\ SetJob(z, RefreshVmobj(z, {"xml"}))
          /\ UNCHANGED <<vmData, vmTmp, vmobjs, vmobjsJson>>
    /\ UNCHANGED <<vars, sysVars, load, compare, old, view>>

(***************************************************************************)
(* getZoneData on one of the zone's data sets: it fills in the next hole,  *)
(* the contexts in their order.  Without the zone zoneadm says that there  *)
(* is "No such zone configured"; without its XML the error is another one. *)
(* The files are those of the zones in the set's own zoneadm_objects.      *)
(***************************************************************************)
ReadContext(z, set) ==
    LET data  == job[z][set]
        holes == Holes(data)
        c     == IF "adm" \in holes THEN "adm"
                 ELSE IF "xml" \in holes THEN "xml" ELSE "json"
        found == IF data["adm"] = 0 THEN 0 ELSE real[z][c]
    IN  /\ job[z].pc \in {"create", "refresh"} /\ holes # {}
        /\ SetJob(z, IF c # "json" /\ data["adm"] # 0 /\ found = 0
                     THEN [job[z] EXCEPT ![set] = Absent,
                             !.err = IF c = "adm" \/ job[z].err = "gone"
                                     THEN "gone" ELSE "failed"]
                     ELSE [job[z] EXCEPT ![set][c] = found])
        /\ UNCHANGED <<vars, sysVars, load, vmData, vmTmp, vmobjs, vmobjsJson,
                       compare, old, view>>

AllRead(z) ==
    /\ job[z].pc \in {"create", "refresh"}
    /\ Holes(job[z].live) = {} /\ Holes(job[z].tmp) = {}

\* mergeZoneVmDatasets.  createVmobj gives both data sets the same data.
MergeZoneVmDatasets(z) ==
    LET tmp == IF job[z].pc = "create" THEN job[z].live ELSE job[z].tmp
    IN  /\ AllRead(z) /\ job[z].err = "none"
        /\ vmData' = [vmData EXCEPT ![z] = job[z].live]
        /\ vmTmp' = IF vmTmp = NoData \/ tmp = NoData THEN vmTmp
                    ELSE [vmTmp EXCEPT ![z] = tmp]
        /\ SetJob(z, [NoJob EXCEPT !.pc = IF job[z].pc = "create"
                                          THEN "createObj" ELSE "refreshObj"])
        /\ UNCHANGED <<vars, sysVars, load, vmobjs, vmobjsJson, compare, old,
                       view>>

\* getZoneData has failed: refreshVmobjDone deletes a zone that is gone.  The
\* comparison has put the data of a zone to create into vm_data before.
ReadFailed(z) ==
    /\ AllRead(z) /\ job[z].err # "none"
    /\ \/ /\ job[z].pc = "refresh" /\ job[z].err = "gone"
          /\ DeleteVmobjs({z})
       \/ /\ ~(job[z].pc = "refresh" /\ job[z].err = "gone")
          /\ EndJob(z)
          /\ UNCHANGED <<vmData, vmTmp, vmobjs, vmobjsJson>>
    /\ missed' = IF compare = "create" THEN missed \cup {z} ELSE missed
    /\ UNCHANGED <<vars, real, changes, events, watch, load, compare, old, view>>

\* createVmobjGetVmobj
CreateGetVmobj(z) ==
    /\ job[z].pc = "createObj"
    /\ vmobjs' = [vmobjs EXCEPT ![z] = vmData[z]]
    /\ SetJob(z, [NoJob EXCEPT !.pc = "watch"])
    /\ UNCHANGED <<vars, sysVars, load, vmData, vmTmp, vmobjsJson, compare, old,
                   view>>

\* startVmWatchersDone, and the event 'create'.
CreateDone(z) ==
    /\ job[z].pc = "watch"
    /\ watch' = [watch EXCEPT ![z] = TRUE]
    /\ view' = [view EXCEPT ![z] = vmobjs[z]]
    /\ EndJob(z)
    /\ UNCHANGED <<vars, real, changes, events, missed, load, vmData, vmTmp,
                   vmobjs, vmobjsJson, compare, old>>

\* Mutant: the cached JSON is not dropped.
RefreshGetVmobj_KeepJson(z) ==
    /\ job[z].pc = "refreshObj"
    /\ vmobjs' = [vmobjs EXCEPT ![z] = vmData[z]]
    /\ view' = [view EXCEPT ![z] = vmData[z]]
    /\ EndJob(z)
    /\ UNCHANGED <<vars, sysVars, load, vmData, vmTmp, vmobjsJson, compare, old>>

\* Mutant: no 'modify' is emitted.
RefreshGetVmobj_Silent(z) ==
    /\ job[z].pc = "refreshObj"
    /\ vmobjs' = [vmobjs EXCEPT ![z] = vmData[z]]
    /\ vmobjsJson' = [vmobjsJson EXCEPT ![z] = Absent]
    /\ EndJob(z)
    /\ UNCHANGED <<vars, sysVars, load, vmData, vmTmp, compare, old, view>>

\* refreshVmobjRequestNewVmobj and refreshVmobjAnalyzeDelte, 'modify' included.
RefreshGetVmobj(z) ==
    /\ job[z].pc = "refreshObj"
    /\ IF vmData[z]["adm"] # 0 /\ vmData[z] # vmobjs[z]
       THEN /\ vmobjs' = [vmobjs EXCEPT ![z] = vmData[z]]
            /\ vmobjsJson' = [vmobjsJson EXCEPT ![z] = Absent]
            /\ view' = [view EXCEPT ![z] = vmData[z]]
       ELSE UNCHANGED <<vmobjs, vmobjsJson, view>>
    /\ EndJob(z)
    /\ UNCHANGED <<vars, sysVars, load, vmData, vmTmp, compare, old>>

\* getVmobj calls back with an error, which is logged or passed on.
GetVmobjFailed(z) ==
    /\ MayFail
    /\ job[z].pc \in {"createObj", "refreshObj"}
    /\ EndJob(z)
    /\ missed' = missed \cup {z}
    /\ UNCHANGED <<vars, real, changes, events, watch, load, vmData, vmTmp,
                   vmobjs, vmobjsJson, compare, old, view>>

\* deleteVmobjStopWatchers, and the event 'delete'.
DeleteDone(z) ==
    /\ job[z].pc = "unwatch"
    /\ watch' = [watch EXCEPT ![z] = FALSE]
    /\ view' = [view EXCEPT ![z] = Absent]
    /\ EndJob(z)
    /\ UNCHANGED <<vars, real, changes, events, missed, load, vmData, vmTmp,
                   vmobjs, vmobjsJson, compare, old>>

JobStep(z) ==
    \/ StatXml(z)
    \/ \E set \in {"live", "tmp"} : ReadContext(z, set)
    \/ MergeZoneVmDatasets(z)
    \/ ReadFailed(z)
    \/ CreateGetVmobj(z)
    \/ CreateDone(z)
    \/ RefreshGetVmobj(z)
    \/ DeleteDone(z)

-----------------------------------------------------------------------------
(***************************************************************************)
(* The queue's tasks.                                                      *)
(***************************************************************************)
\* handleZoneEvent, handleFsEvent
Deliver(d) ==
    /\ d \in events
    /\ events' = events \ {d}
    /\ QueueTurn(Enqueue(d))
    /\ UNCHANGED <<real, changes, watch, missed, cacheVars>>

TaskStart ==
    /\ QueueTurn(Start)
    /\ LET d == Head(dispatched).desc IN SetJob(d.zone, TaskJob(d))
    /\ UNCHANGED <<sysVars, load, vmData, vmTmp, vmobjs, vmobjsJson, compare,
                   old, view>>

TaskDone(t) ==
    /\ job[t.desc.zone].pc = "done"
    /\ QueueTurn(Finish(t))
    /\ SetJob(t.desc.zone, NoJob)
    /\ UNCHANGED <<sysVars, load, vmData, vmTmp, vmobjs, vmobjsJson, compare,
                   old, view>>

-----------------------------------------------------------------------------
(***************************************************************************)
(* reset()                                                                 *)
(***************************************************************************)
LoadNewData ==
    /\ ResetFetch
    /\ load' = [NoLoad EXCEPT !.stage = "list"]
    /\ UNCHANGED <<sysVars, vmData, vmTmp, vmobjs, vmobjsJson, job, compare,
                   old, view>>

ForwardToNow ==
    /\ load.stage = "loaded"
    /\ ResetForward
    /\ vmTmp' = load.got
    /\ load' = NoLoad
    /\ UNCHANGED <<sysVars, vmData, vmobjs, vmobjsJson, job, compare, old, view>>

Idle(z) == job[z].pc \in {"none", "done"}

\* diff(vm_data, vm_data_tmp); if they differ, replace and createNewVmobjs.
CompareStart ==
    /\ ResetCompare
    /\ \/ /\ vmData = vmTmp
          /\ compare' = "over"
          /\ UNCHANGED <<vmData, job, old>>
       \/ /\ vmData # vmTmp
          /\ compare' = "create"
          /\ old' = Known(vmData)
          /\ vmData' = vmTmp
          /\ job' = [z \in Zone |-> IF z \in Known(vmTmp) \ Known(vmData)
                                    THEN CreateVmobj(z) ELSE NoJob]
    /\ UNCHANGED <<sysVars, load, vmTmp, vmobjs, vmobjsJson, view>>

\* Mutant: the VMs that are gone are not deleted.
CompareDelete_None ==
    /\ compare = "create" /\ \A z \in Zone : Idle(z)
    /\ compare' = "delete"
    /\ UNCHANGED <<vars, sysVars, load, old, view, vmData, vmTmp, vmobjs,
                   vmobjsJson, job>>

\* deleteOldVmobjs
CompareDelete ==
    /\ compare = "create" /\ \A z \in Zone : Idle(z)
    /\ compare' = "delete"
    /\ DeleteVmobjs(old \ Known(vmData))
    /\ UNCHANGED <<vars, sysVars, load, old, view>>

\* Mutant: the VM objects are not refreshed from the new data.
CompareRefresh_None ==
    /\ compare = "delete" /\ \A z \in Zone : Idle(z)
    /\ compare' = "refresh"
    /\ job' = [z \in Zone |-> NoJob]
    /\ UNCHANGED <<vars, sysVars, load, vmData, vmTmp, vmobjs, vmobjsJson, old,
                   view>>

\* refreshModifiedVmobjs, each from the new vm_data without a hole.
CompareRefresh ==
    /\ compare = "delete" /\ \A z \in Zone : Idle(z)
    /\ compare' = "refresh"
    /\ job' = [z \in Zone |-> RefreshVmobj(z, {})]
    /\ UNCHANGED <<vars, sysVars, load, vmData, vmTmp, vmobjs, vmobjsJson, old,
                   view>>

CompareEnd ==
    /\ compare = "refresh" /\ \A z \in Zone : Idle(z)
    /\ compare' = "over"
    /\ job' = [z \in Zone |-> NoJob]
    /\ UNCHANGED <<vars, sysVars, load, vmData, vmTmp, vmobjs, vmobjsJson, old,
                   view>>

CompareStep == CompareDelete \/ CompareRefresh \/ CompareEnd

\* resetDone, also after a load that has failed.
BackToRunning ==
    /\ phase = "fetching" => load.stage = "failed"
    /\ phase = "comparing" => compare = "over"
    /\ ResetDone
    /\ vmTmp' = NoData
    /\ load' = NoLoad
    /\ compare' = "none"
    /\ old' = {}
    /\ UNCHANGED <<sysVars, vmData, vmobjs, vmobjsJson, job, view>>

\* The steps of the queue and of reset() that do not touch the cache.
Elsewhere ==
    /\ \/ PeriodicTimeout
       \/ KillTimer
       \/ QueueTurn(IdleTimeout)
       \/ ResetPauseTimeout
       \/ ResetForwardTimeout
    /\ UNCHANGED <<sysVars, cacheVars>>

PauseForReset == ResetPause /\ UNCHANGED <<sysVars, cacheVars>>

-----------------------------------------------------------------------------
\* serializeVm, for a GET request.
SerializeVm(z) ==
    /\ phase # "booting"
    /\ vmobjs[z] # Absent /\ vmobjsJson[z] = Absent
    /\ vmobjsJson' = [vmobjsJson EXCEPT ![z] = vmobjs[z]]
    /\ UNCHANGED <<vars, sysVars, load, vmData, vmTmp, vmobjs, job, compare,
                   old, view>>

System ==
    \E z \in Zone : \/ ZoneCreate(z)
                    \/ ZoneState(z)
                    \/ XmlEdit(z)
                    \/ JsonWrite(z)
                    \/ ZoneDelete(z)

Turn ==
    \/ BootWatch
    \/ BootReady
    \/ LoadStep
    \/ \E d \in events : Deliver(d)
    \/ TaskStart
    \/ \E t \in running : TaskDone(t)
    \/ \E z \in Zone : JobStep(z)
    \/ \E z \in Zone : GetVmobjFailed(z)
    \/ \E z \in Zone : SerializeVm(z)
    \/ LoadNewData
    \/ ForwardToNow
    \/ CompareStart
    \/ CompareStep
    \/ Elsewhere

CacheNext ==
    \/ System
    \/ /\ ~failed /\ ~Down
       /\ \/ PauseForReset
          \/ BackToRunning
          \/ EndOfTurn /\ Turn

\* The fairness of VminfodReset, and of the steps that take the place of its
\* tasks, its load and its comparison.
CacheFairness ==
    /\ WF_allVars(~failed /\ ~Down /\ (PauseForReset \/ BackToRunning))
    /\ WF_allVars(~failed /\ ~Down /\ EndOfTurn /\
                    (\/ BootWatch \/ BootReady \/ LoadStep
                     \/ LoadNewData \/ ForwardToNow \/ CompareStart
                     \/ CompareStep))
    /\ WF_allVars(~failed /\ EndOfTurn /\ PeriodicTimeout
                    /\ UNCHANGED <<sysVars, cacheVars>>)
    /\ WF_allVars(~failed /\ EndOfTurn /\ QueueTurn(IdleTimeout)
                    /\ UNCHANGED <<sysVars, cacheVars>>)
    /\ SF_allVars(~failed /\ EndOfTurn /\ \E d \in events : Deliver(d))
    /\ WF_allVars(~failed /\ EndOfTurn /\ TaskStart)
    /\ WF_allVars(~failed /\ EndOfTurn /\ \E t \in running : TaskDone(t))
    /\ \A z \in Zone : WF_allVars(~failed /\ EndOfTurn /\ JobStep(z))

CacheSpec == CacheInit /\ [][CacheNext]_allVars

FairCacheSpec == CacheSpec /\ CacheFairness

-----------------------------------------------------------------------------
Stages == {"none", "list", "xml", "json", "loaded", "failed"}

\* The type invariant of the system, the data sets and the jobs.
CacheTypeOK ==
    /\ ResetTypeOK
    /\ real \in [Zone -> [Ctx -> Version]]
    /\ changes \in 0 .. MaxChange
    /\ events \subseteq Desc
    /\ watch \in [Zone -> BOOLEAN]
    /\ missed \subseteq Zone
    /\ load.stage \in Stages /\ load.left \subseteq Zone
    /\ vmData \in [Zone -> [Ctx -> Version]]
    /\ vmTmp = NoData \/ vmTmp \in [Zone -> [Ctx -> Version]]
    /\ vmobjs \in [Zone -> [Ctx -> Version]]
    /\ vmobjsJson \in [Zone -> [Ctx -> Version]]
    /\ \A z \in Zone : job[z].live \in Data
    /\ old \subseteq Zone
    /\ view \in [Zone -> [Ctx -> Version]]

\* The JSON text served for a VM is that of the VM object as it is now.
JsonFresh == \A z \in Zone : vmobjsJson[z] \in {Absent, vmobjs[z]}

\* The events 'create', 'modify' and 'delete' tell a listener all there is to
\* know: with no create or delete under way it has the VM objects.
ListenerInSync ==
    \A z \in Zone : job[z].pc \notin {"watch", "unwatch"} => view[z] = vmobjs[z]

\* A VM object is never left without the data that it is refreshed from, and
\* outside a job and a reset it is made from that very data, unless getVmobj
\* has failed for it.
ObjectsFromData ==
    \A z \in Zone :
        job[z].pc = "none" /\ compare = "none" /\ vmobjs[z] # Absent
            => vmobjs[z] = vmData[z] \/ z \in missed

Consistent(z) == vmobjs[z] = real[z] /\ view[z] = real[z]

\* start() or a pause that timed out has ended vminfod.
Ended == Down \/ failed

\* Only one thing lets vminfod fall behind the system for good: that no object
\* could be made of data which are in vm_data already, as the comparison looks
\* at data only.  Of all other zones the cache and its listeners come to agree
\* with a system that stops changing, whatever events got lost, loads failed
\* and calls timed out (unless vminfod itself has ended).
ConsistentUnlessMissed ==
    <>[](Ended \/ \A z \in Zone \ missed : Consistent(z))

\* "vminfod will guarantee eventual consistency": when the system stops
\* changing, the cache and its listeners come to agree with it for good.
EventuallyConsistent == <>[](Ended \/ \A z \in Zone : Consistent(z))
=============================================================================
