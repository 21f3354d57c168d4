# A TLA+ verification of SmartOS's VM bookkeeping

SmartOS runs virtual machines in zones.  The tools that manage them (`vmadm`,
`vmadmd`, `imgadm`, `fwadm`, the metadata agent) are Node programs and a few
helpers in C.  At the centre is **vminfod**, a daemon that keeps every VM object
in memory, follows the changes of the system through event streams and file
watches, and serves the VM objects to everybody else.  Its own documentation
promises *eventual consistency*.  Inside a zone, **dockerinit** prepares a
container and executes its command, and the **metadata client** asks the host for
what it needs to know.

This directory models vminfod from the event queue up to the clients of its event
stream, the file watcher it relies on, the lock library that the tools use among
each other, the metadata protocol from the client's retries to the agent's
handler, the JSON parser of dockerinit and dockerinit itself.  It checks them with
TLC and proves parts of them with TLAPS.

- [1 Inventory](#1-inventory)
- [2 Modules and how they follow the code](#2-modules-and-how-they-follow-the-code)
- [3 Runs](#3-runs)
- [4 Proofs](#4-proofs)
- [5 Disagreements with the documentation](#5-disagreements-with-the-documentation)
- [6 What is left out](#6-what-is-left-out)
- [7 Plan](#7-plan)

Paths below are relative to the repository's root unless they begin with
`vm/`, which abbreviates `src/vm/`.

## 1 Inventory

| component | state | operations | talks to |
|---|---|---|---|
| event queue: `vm/node_modules/queue.js` on vasync's `WorkQueue` | paused flag, paused tasks, waiting tasks, pending tasks, idle flag and idle timer | `enqueue` (with deduplication), `pause`, `fastForward`, `resume`, events `idle` | one client: vminfod |
| vminfod, start and periodic refresh: `vm/node_modules/vminfod/vminfod.js` | periodic timer, kill timer, stage of `reset()` | `start`, `reset` | the queue, vmload |
| vminfod, cache and event handlers | `vm_data`, `vm_data_tmp`, `vmobjs`, `vmobjs_json` | handlers of zone, XML and metadata events, `createVmobj`, `refreshVmobj`, `deleteVmobj`, comparison of `reset` | queue, fswatcher, vmload, listeners |
| vmload: `vm/node_modules/vmload` | none (fills data sets it is given) | `getZoneData`, `getVmobj` | zoneadm, XML and JSON files, ZFS |
| fswatcher: `vm/node_modules/fswatcher.js` and `src/fswatcher.c` | `watching`, `not_yet_watching`, pending requests; tree of handles, port associations | `watch`, `unwatch`, retries, the long interval; WATCH, UNWATCH, port events | a pair of pipes, the event port |
| qlocker: `src/node-qlocker/lib/qlocker.js` | per lock file: state, waiters, descriptor, holder | `lock`, the unlock function it hands out, retries | `fcntl(F_SETLKW)` |
| vminfod's HTTP interface and event streams | listeners | GET of VMs, `/events` | client |
| vminfod client: `vm/node_modules/vminfod/client.js` | request, ready timer, buffered events, watches, mirror of the VMs | `start`, `stop`, `watchForEvent`, `watchForChanges`, `VminfodWatcher` | vminfod, VM.js, the metadata agent |
| metadata client: `src/dockerinit/mdata-client` | connection, protocol state and version, the command under way | `proto_init`, `proto_execute`, resets, negotiation; `mdata-get`, `-put`, `-delete`, `-list` | the metadata agent, over a socket or a serial line |
| metadata agent: `vm/lib/metadata/agent.js` | mirror of the VMs, connections | GET, KEYS, PUT, DELETE, NEGOTIATE | metadata client, vminfod client, `VM.update` |
| dockerinit and dockerexec: `src/dockerinit/src` | descriptors, routes, user, environment, command line, logger process | one function after the other, to `execve` | metadata client, json-nvlist, strlist, ipmgmtd, zfd devices |
| json-nvlist: `src/dockerinit/json-nvlist` | stack of parse frames, nvlists | `nvlist_parse_json` | dockerinit |
| string library: `src/common/strings` | growing lists and strings | `strlist_*`, `custr_*` | dockerinit |
| ZFS events: handlers in vminfod, `zpoolwatcher.js` | `dataset_objects` | create, destroy, rename, set | queue |
| event sources: `zonewatcher.js`, `sysevent.c`, `zoneevent` | none | lines from helper processes | vminfod |
| VM.js and vmadm | configuration on disk, provisioning and transition markers | create, start, stop, delete, snapshots, send and receive | zonecfg, ZFS, vminfod, qlocker |
| vmadmd | timers of VMs that are stopping, qmp and vnc connections | autoboot, stop, halt | vminfod, VM.js |
| firewall: `src/fw` | rules on disk, rules loaded in ipf, a lock | add, update, delete, enable | ipf, VMs |
| image manager: `src/img` | image database, data sets | import, install, create, delete | IMGAPI, ZFS, qlocker |
| disklayout, piadm, nictagadm, boot scripts, utilities | see `PROJECT.json` | | |

How they interact.  A zone event or a file event reaches a handler of vminfod,
which puts a task into the queue; the single worker runs one task after the
other.  The periodic refresh pauses the queue, loads everything anew, forwards
the queue to the present, compares the two data sets, creates, deletes and
refreshes VM objects, and resumes the queue.  VM objects are made from the data
sets by vmload.  Every new VM gets file watches, which are commands to the
helper process of fswatcher; the helper answers in one pipe that also carries
the file events.

Whoever wants to follow the VMs asks vminfod for `/events` and gets a snapshot of
all of them and then one line for every change.  The metadata agent keeps a mirror
this way and answers the zones' GET requests from it; PUT and DELETE go through
`VM.update`, and come back to the mirror as an event.  Programs in a zone talk to
the agent through `proto_execute`, which repeats a request, over a new connection,
until there is an answer.  dockerinit asks for everything it needs this way, with
one connection whose descriptors it must not leave to the command.

What is hard.  Nothing in these programs runs in parallel except the two threads
of the helper, the processes that share a lock and the two ends of a connection, but nearly every operation is
a chain of callbacks, and anything can happen between two of them:

- a pause, a fast-forward and their timeouts meet tasks that are still running;
- events are lost, arrive late, arrive twice, or are merged by deduplication;
- the system changes between two reads of one job, and between a read and the
  start of the watch that would have reported the change;
- an error in the middle of a job leaves data without an object;
- an `unwatch` meets the response to a `watch`, a retry timer, an event, or
  another `unwatch`;
- a file goes away between the `stat` and the `port_associate` of the helper;
- a process dies while it has a lock or waits for one, and a back-off timer
  meets a later request;
- a request for events arrives in the middle of a deletion, an event before the
  wait for it, a timeout together with the event;
- an answer is late and meets the next request, a request that was carried out is
  sent again, the agent is restarted in between;
- dockerinit counts on descriptor numbers, which every reconnection and every
  option of the container could shift;
- an allocation fails in the middle of a nested JSON text.

`PROJECT.json` lists these hazards line by line with the properties that would
notice them going wrong.

What makes each part correct:

- *queue*: no task lost or reordered, whatever is paused, forwarded or timed out;
  deduplication never swallows an event; a paused queue is quiet; assertions hold;
- *reset*: the queue is paused exactly during a reset, nothing disturbs the load
  and the comparison, every event is handled, the refresh never dies;
- *cache*: objects, cached JSON and listeners agree, and all of them agree with
  the system in the end although events get lost;
- *fswatcher*: no change of a watched file is missed, both processes agree on what
  is watched, a file that is wanted is watched in the end, nothing throws;
- *qlocker*: exclusion within and between processes, order, no lost wake-up,
  every request answered;
- *event stream*: the mirror equals vminfod's objects once all lines are read, no
  wait sleeps through its event, success means the state was there, all waits end;
- *metadata*: a read gives what the agent saw during the call, a change that is
  reported was made and leaves no repetition behind, every call returns;
- *json-nvlist*: exactly the texts of the grammar are accepted, the tree is that of
  the text, no input and no failed allocation aborts;
- *dockerinit*: the command has its descriptors, its user, its environment and its
  routes; the markers in metadata and file system are right after every boot.

## 2 Modules and how they follow the code

One action is one turn of the Node event loop, or for the helper of fswatcher one
stretch between two points at which another thread or the kernel can intervene.
Definitions keep the names of the code; mutated definitions (`X_Something`, each
with a comment beginning with "Mutant") are there for testing the properties only.

**`EventQueue`** (queue.js, vasync's `WorkQueue`).  The variables are the fields
of the two objects: `paused`, `pausedQueue`, `queued`, `idle`, `idleTimer`;
WorkQueue's `pending` is split into `dispatched` (the worker is called by a
`setImmediate` that is still to come) and `running`.  `call` says which
asynchronous call of the client is under way and how it ended; "pausing" and
"forwarding" mean that its `drain` listener is registered.  A task's creation time
is a tick per task, so that "created up to t" is a comparison of ids.  `failed`
becomes true where an `assert` throws.  `Enqueue`, `Start`, `Finish`,
`IdleTimeout`, `PauseQueue`, `PauseTimeout`, `DoResume`, `DoFastForward` and
`FastForwardTimeout` are the operations; `QueueNext` adds a client that keeps to
the interface.

**`VminfodReset`** extends `EventQueue` by vminfod as the queue's client: `Boot`,
the periodic timer with its wait for `idle` and its kill timer, and the stages of
`reset()` with their errors.  `EndOfTurn` keeps together what the code does in
one turn.

**`Vminfod`** extends `VminfodReset` by what the tasks and the comparison do.
What is known of a zone is a version number for each of three contexts (the
zoneadm line, the XML file, the metadata files), 0 for "no entry", `Hole` for
"to be read again" (`undefined` after `invalidateZoneDataCache`).  `real` is the
system; `vmData`, `vmTmp`, `vmobjs` and `vmobjsJson` are the fields of the code,
`view` is what a listener has learnt from the events.  `missed` is a history
variable: the zones of whose data once no object was made, because `getVmobj`
failed or the zone was gone when the comparison read it.  A *job* is one
`createVmobj`, `refreshVmobj` or `deleteVmobj` at work on a zone, with its cloned
data sets; every read, the merge, `getVmobj`, the start and stop of the watches
and the event it emits are steps of their own, between which the system may
change.  The comparison runs the jobs of all zones next to each other, the
queue's worker only one.  `MCVminfod` gives the tasks their descriptions.

**`FsWatcher`** (fswatcher.js and fswatcher.c).  The pipes are sequences; a
command carries the continuation with which its response is matched.  In the
module: `watching`, `notYet` (`not_yet_watching`), `loops` (each call of `watch()`
with its chain of `tryWatching`), the long interval.  In the helper: `handle` (the
AVL tree), `got` (an event that `port_get` has returned before the mutex was
taken), `work` (the mutex is held between `stat` and `port_associate`).  An event
whose handle was freed in the meantime is `stale`: the lookup by the freed name
finds nothing, or an equal name of a later watch.  The port keeps the order of the
events of one file (`portq` is a sequence per file); which file's event it returns
next is left open.  The consumer makes one call at
a time for a file; the stale file check of vminfod runs next to it.

**`QLocker`** (qlocker.js).  One lock file in several processes.  The fields of
the lock file are variables, `op` is the system call that is under way, `result`
and `token` say what each request has been told and which holder id its unlock
function has in its closure.  `owner` is the kernel's lock.  A process may die at
any moment, and is started again with an empty lock table.

**`VminfodClient`** (`/events` of vminfod.js, client.js, and of its users the
metadata agent's `VminfodWatcher`, `waitForZoneState` and `deleteZone` of VM.js).
`program` says which of the three users runs.  A VM object is its `zone_state` and
whether it has a data set; `vmobjs` is vminfod's map, `pend` an event that
`createVmobj` or `deleteVmobj` has still to emit.  `wire` holds the lines that
`_transform` has not seen and `buffer` the events that nobody has read.  `watch`
is the last call of `watchForEvent` or `watchForChanges` with the number of times
it has called back.  A process that gets an `error` without a listener dies; the
metadata agent is then started again, and `vmadm` is not.  There is no
reconnection in client.js.

**`Mdata`** (proto.c, plat/sunos.c, the `mdata-*` tools, and `makeMetadataHandler`
of the agent) has one key.  `setting`, chosen in the initial state, says whether
the line is a socket of a zone or the serial line of a hardware virtual machine,
whether the client is root, and which version the agent has.  `pc` is where the
client waits, `mdp_state`, `mdp_version` and `response` are fields of the code;
`toHost` and `toClient` are the lines under way.  On a socket a reset cuts both; on
a serial line it flushes what has arrived, and what is still under way comes in
later.  The values have lines that begin with dots, which version 1 escapes, and
whether frames of version 2 match their checksum is part of a line's type.

**`MdataService`** is the abstract specification of the two together: reads return a
value that the agent's copy had during the call, changes are submitted any number
of times and applied in order, or lost, and a change returns success only when it
was applied and no repetition of it is still waiting.  `Mdata` implements it under
the refinement mapping `Service` (`INSTANCE MdataService WITH`): the submitted
changes are those the agent is carrying out and those on their way to it
(`CallsOf(updates) \o ChangesIn(toHost)`), and all error codes are one.  A repetition that is left behind would be the worst of the
hazards: it would undo a change that somebody else makes after the success.

**`NvlistJson`** (json-nvlist.c).  The input is a sequence of tokens; `top` and
`below` are the stack of parse frames with the fields of `parse_frame_t`, `heap` the
nvlists.  One action is one handler; `Pop` is `store_value` and the free of the
frame, `Cleanup` the end with the free of all frames.  `status = "abort"` where the
code calls `abort()`.  `OutOfMemory` fails an allocation of any handler.
`MCNvlistJson` defines the grammar and the tree of a text recursively, as the
reference that `ParsesExactly` compares with.

**`Strlist`** (strlist.c) is a set of operators on records with a capacity and an
array; **`DockerInit`** (dockerinit.c, dockerexec.c, docker-common.c) builds on it.
One action is one function that `main` calls; its loops over routes, NICs, and the
entries of the environment and of the command take one element per step, and files
are opened one at a time, as another call may fail in between.
`fds` is the descriptor table: opening takes the lowest free number, so that what
the code closes by number can be compared with what is there.  `Reconnect` is a
reset of the metadata client in any function that asks for metadata, `Fatal` the
failure of any call.  The logger's child has a table of its own.  When it ends,
init is killed with it or not (`ContractKillsInit`, `LoggerDies`): that depends on the
contract both are in, which is made outside of this code.  `marker` and `waitKey` are keys in the metadata, `file` is the provisioning file; they outlive a
boot.  `setting` is all that the metadata say of a container; a NIC has a network, and a
gateway that is on it, behind a link-local route, far away or missing.  The users
and groups of the image are the constants `Passwd` and `Group`, and `Number` is what
`strtoll` makes of the names that are numbers, the empty one (0) among them.

**Settings.**  `FsWatcher`, `Mdata` and `DockerInit` have a constant `Setting` and a
variable that is one of its members from the initial state on.  One run then
covers all kinds of instance, and a property that holds for some of them says so.

**`QLockerProofs`**, **`EventQueueProofs`**, **`VminfodProofs`**,
**`VminfodClientProofs`**, **`FsWatcherProofs`**, **`NvlistJsonProofs`**,
**`DockerInitProofs`** and **`MdataProofs`** have the proofs about the modules of
those names.  `VminfodProofs` has those about `VminfodReset` as well, and
`DockerInitProofs` those about `Strlist`.  As `Vminfod` extends `VminfodReset`, which
extends `EventQueue`, so does `VminfodProofs` extend `EventQueueProofs`.
`MCEventQueue` adds a history variable to the queue: whether a call has timed out.

## 3 Runs

| run | instance | checks |
|---|---|---|
| `EventQueue` | 6 tasks, 2 descriptions, 2 workers, deduplication, both timeouts | `NoLostWork`, `InOrder`, `PauseQuiesces`, `NoAssertionFailure`; until a timeout also `HeaderPromises`, what the header of queue.js says of fastForward (`ForwardCompletes`) and of 'idle' (`IdleMeansDrained`) |
| `VminfodReset` | 4 tasks, both timeouts, loads that fail | `ResetUndisturbed` (`PausedExactlyInReset`, `FetchUndisturbed` and `CompareUndisturbed`), `OnlyPauseTimeoutThrows`, `EveryEventHandled`, `RefreshRecurs` |
| `VminfodCache` | one zone, 3 changes, one task, zone events get lost, getVmobj fails at any time, both timeouts | `JsonFresh`, `ListenerInSync`, `ObjectsFromData`, `ConsistentUnlessMissed` |
| `VminfodLostEvents` | one zone, 3 changes, all events lost | *violated:* `EventuallyConsistent` |
| `VminfodClient` | two zones, 3 changes by others, one death of vminfod or expired ready timer, three programs | `MirrorExact`, `NoMissedEvent`, `OkMeansSeen`, `OperationEnds`, `MirrorCatchesUp` |
| `FsWatcher` | two files that change; one file with deletions; with unwatching; with the stale file check next to changes, and to deletions too | `HandleArmed`, `NoException`, `UpToDateWhenQuiet` (`Agreement` and `NoMissedChange`), `EventuallyWatched` |
| `QLocker` | 2 processes, 2 requests each, 2 faults | `MutualExclusion`, `HolderHasLock`, `AnsweredInOrder`, `NoLostWakeup`, `EveryRequestAnswered` |
| `Mdata` | 2 calls, one late answer, one fault, one change by the operator; zones with agents of both versions and a serial line | `ImplementsService`, `EveryCallReturns` |
| `NvlistJson` | all token sequences to length 4, texts of the grammar to length 10, one-token errors in texts to length 6, failing allocations | `NoAbort`, `ParsesExactly`, `ParseEnds` |
| `NvlistJsonEscape` | one string with a unicode escape | *violated:* `UnicodeEscapes` |
| `DockerInit` | 2 boots, 2 reconnections, every kind of container of `MCDockerInit` | `DescriptorsAsCounted` (`CommandDescriptors`, `NoUnexpectedFd`, `LoggerReads`), `RoutesComplete`, `CommandAsConfigured` (`EnvAsDocumented`, `RunsAsUser`), `MarkerGone`, `ProvisionedWhenReady`, `EveryBootEnds` |
| `DockerInitComments` | one boot, no reconnection, containers for three comments (`MCCommented`) | *violated:* `AsCommented` |

Where several facts are one promise of the code they are named parts of one
property.  The type invariants of `EventQueue`, `VminfodReset`, `Vminfod`,
`VminfodClient`, `QLocker` and `DockerInit` are proved (section 4).  Those of the
other modules say what shape the variables have.  None of them is part of a run.

**Bounds.**  Every bound is a constant that appears in a guard.  Six tasks
(`MaxTasks`) let two run, one wait behind them, and three pass through a pause, a
partial fast-forward and a resume; two descriptions are what deduplication can
tell apart.  In the cache three
changes are a creation, a deletion and a second creation, each of them with or
without an event and at any step of a job for an earlier one; a second task of the
same zone only meets the first in the queue, which is a matter of the queue's own
run.  (With two tasks, 4.0 million states, and with four changes and no failing
getVmobj the same properties hold.)  Two files and two calls of
`watch()` let a call meet the remains of an earlier one of the same file and the
traffic of another.  Two requests in each of two processes let a waiter meet a
holder in its own process and in the other; two faults let a retry fail again.
Three changes and a death of vminfod let a zone be halted, uninstalled and deleted
under the eyes of an operation, or deleted and created again in front of a mirror,
with a stream that ends in between.  Two calls of the metadata client, with a late
answer and a fault, let the answer, the repetition or the restart belonging to the
first meet the second.  For clients in zones a theorem covers any number of all of
them; on a serial line these bounds are all that is shown, and more late answers
with a fault do break the promise (section 5).  Token sequences of
length 10 contain an object in an array in an object, with what follows each.  Two
reconnections can come before and after the streams are opened, and each gives the
port and the socket the numbers they had (section 4); two boots let a marker of an
earlier boot be found.  The containers of `MCDockerInit` vary what one group of
properties is about around one ordinary container.

A run stops where its bound is used up, and so may vminfod's listeners, the lock's
users and the metadata's clients: those configurations switch the deadlock check
off, and liveness properties take its place.  The queue and the parser are checked
for deadlock.

**Fairness.**  The event loop gets to every callback, timer and immediate that is
due: weak fairness on each.  A task calls back in the end and so do the load and
the comparison; the code has a timeout that emits an error, but does nothing
else about a task that does not.  Nothing is assumed of things that need not
happen: events, changes, failures, timeouts, calls of the consumer.  Strong
fairness appears twice: an event under way is delivered although the handler's
turn comes and goes (`Deliver`), and the kernel does not starve a process that
waits in `F_SETLKW` while others come and go (`Acquired`).  Whoever has a lock
gives it back in the end.  In `VminfodClient` SMF starts vminfod again, commands
come back and timers of watches fire.  In `Mdata` the client takes its turn and
the agent answers; faults and timeouts that come too early are bounded and never
required.  In `DockerInit` the process is scheduled, devfs creates its devices in
the end (`zfd_ready` waits for them for ever) and time passes; nobody has to
attach.

**Liveness.**  `EveryEventHandled` and `RefreshRecurs` hold "unless the assertion
has ended vminfod", and `OnlyPauseTimeoutThrows` says in which one way that comes
about.  `EventuallyConsistent` is what vminfod promises (vminfod.js:2084), and the code
does not keep it (section 5).  `ConsistentUnlessMissed` is what it does keep: only a
zone of whose data once no object was made can fall behind for good.  Both are about
a system that stops changing, and so is `MirrorCatchesUp`.  `EventuallyWatched`
is for a file that stays.  `EveryCallReturns`, `OperationEnds`, `ParseEnds` and
`EveryBootEnds` say that a loop ends which the code bounds only through what others
do.

**Mutants.**  Each property is checked against a mutated definition of the code
(a dropped guard, a missing reset, a swapped order) under which it has to fail.

## 4 Proofs

TLC checks the instances above; the theorems hold for every value of the
constants.

`QLockerProofs`: `TypeCorrectness`, `Exclusion`, `HolderOwns`,
`FirstComeFirstServed` and `WakeUps` are `Spec => []P` for the five safety
properties of `QLocker`, from `LockerAssumption` alone: any set of processes, any
number of requests and faults.  None of the properties is inductive by itself.
`IInv` adds: which system call can be under way in which state of the lock file,
and that a lock file being locked has a waiter (`StateInv`; without it the
callback of `fcntl` would have nobody to grant the lock to); that a holder id is
never handed out twice and that the request with the lock has the current one
(`TokenInv`: this is what makes a second call of an unlock function harmless, and
what makes two grants in one process impossible); that a process in state LOCKED
owns the kernel's lock (`HolderHasLock`, which gives exclusion between
processes); and that the queue holds exactly the latest requests in order
(`QueueInv`).  There is one lemma per action; a frame lemma deals with the actions
that touch one process and not the kernel's lock.

`EventQueueProofs`: `TypeCorrectness`, `AssertionsHold`, `BegunInOrder` and
`Quiescence` are `QueueSpec => []P` for `TypeOK`, `NoAssertionFailure`, `InOrder`
and `PauseQuiesces`, from `QueueAssumption` alone: any number of workers and
tasks, with or without deduplication, idle delay and timeouts.  The inductive
invariant adds: the idle flag and the idle timer are never set together nor in a
paused queue, and a call that is under way leaves the queue paused (`FlagsOK`,
for the assertions); a queue that runs has no paused tasks (without it a task
could overtake one in the paused queue); a task waits only while all workers are
busy (`CapacityOK`; this is why `pause` may look at `npending` alone); and what
runs was created before what waits (`OrderOK`, which is also why a task that
begins is new among those running, so that `npending` counts right).  The lemma
`DispatchFacts` says of `dispatchNext` that it loses and reorders nothing and
leaves no worker free while a task waits; every push rests on it.  `WorkKept` is
`NoLostWork`, which is inductive next to the invariant: an enqueue is dropped only
for a waiting task of the same description, and a task that begins takes the mark
off its description.  `PromisesKept` is `HeaderPromises`, of `MCSpec`: the history
variable of `MCEventQueue` is `FALSE` until a call times out, and until then a
fast-forward that is under way has left only tasks younger than its time in the
paused queue (`ForwardOK`), so that a quiet queue means the others are complete.

`VminfodProofs`, of the reset: `NothingDisturbsReset` (`ResetUndisturbed`), `OnlyThatThrows`
(`OnlyPauseTimeoutThrows`) and `ResetTypeCorrectness`.  The reset uses the queue's
operations one at a time, so each step of vminfod is one the lemmas of
`EventQueueProofs` speak of.  What they need is that the reset keeps to the queue's
interface, and this is what its invariant says: the phase of the pipeline tells
which call was made last, whether the queue is paused, and what the refresh timer
waits for (`ProtocolOK`); from the callback of a fast-forward on the queue is quiet
(`StaysQuiet`).  An assertion that throws ends it, so the theorem has two
invariants in turn: `RInv` until then, `Halted` from then on, and the step between
them is the resume after a pause that timed out.

`VminfodProofs`, of the cache: `CacheImplementsReset` is `CacheSpec => Spec`: every step of the
cache is one of the reset protocol or leaves it alone.  So all of the above holds
of the cache as well (`CacheResetUndisturbed`), and of its own proofs there is only
the rest: `JsonIsFresh`, `ListenersMissNothing`, `CacheTypeCorrectness` and
`ObjectsMadeFromData`, for any set of zones.  The invariant `CInv` says that the jobs
of a zone never meet (`Apart`): a zone has a job only if the one task that runs is
about it, or a comparison is under way, which needs a quiet queue (this is where
`Workers = 1` of `CacheAssumption` and `ResetUndisturbed` come in); and that at every
step of a job, whichever of its callbacks failed, the serialized form is absent or
that of the present object, and a listener knows the object unless its event is the
next step (`InStep`).  `DInv` adds from which data an object, a job's copy and the
result of a load were made.

`VminfodClientProofs`: `MirrorsVminfod` (`MirrorExact`), `WatchesMissNothing`
(`NoMissedEvent`), `SuccessIsTrue` (`OkMeansSeen`) and `ClientTypeCorrectness`, for
any zones and any number of changes by others and of deaths of vminfod.  `Shape`
says which program is where with which watch, that a watch which waits has a
request, and that the snapshot is the first line of an open response and of no
other: without it a ready line of an earlier stream might be taken for that of the
next.  The other parts say what the lines under way will tell: a deletion that is
announced has happened and is final (`DeleteInv`; the zone of `deleteZone` is not
created again), every state in a line was one of vminfod's since the call
(`SeenInv`), and a state that vminfod has and the program waits for is in the
snapshot, in a line, or about to be emitted (`StateInv`).  `MirrorExact` is
inductive on top of these; its proof rests on three lemmas about `Applied`, the
effect of a sequence of events: one more event, two sequences in turn, and the last
event of a zone, whose existence is the well-foundedness of the natural numbers.

`FsWatcherProofs`: `NeverSilentlyUnwatched` (`HandleArmed`), `ProcessesAgree`,
`NoChangeMissed` (`UpToDateWhenQuiet`) and `NothingThrows` (`NoException`), for every
finite set of files and every setting.  The two processes share only pipes, so each
invariant says what the messages still under way will have brought about once they
are handled: a handle is associated, or the event that will associate it again is in
the port or in the helper's hands (`ArmedInv`); the handle of the helper is what
the module will believe when it has read everything (`AgreeInv`); every answer
belongs to a call of `watch()` that was made, and without deletions all of them are
the consumer's (`LoopInv`); the consumer knows the last version or
is to be told (`FreshInv`, without deletions); and every event line finds its entry
in `watching` when its turn comes (`CalmInv`, without deletions and the stale file
check).

`NvlistJsonProofs`: `NeverAborts` is `Spec => []NoAbort` for every set of texts,
of any length and depth, every width and with allocations that fail anywhere.  The
code has abort() in `hdlr_array_value` (the frame has a key already), in
`store_value` (a finished frame without a type), in the loop (no handler for the
frame it has come back to) and in `parse_frame_free` (a value that nobody took).  Each is about a frame that may have been below others for long,
so the invariant describes a frame that waits (`Stack`: it is a container in one of
the two comma states and has no value) and the top one by its state (`TopFrame`: a
value is there only from the end of a scalar to `store_value`, an array between two
values has no key, a scalar always has a frame below it).  The handlers are four
kinds of step (they start a value, move, fail or finish), with a lemma for each.

`DockerInitProofs`: `DescriptorsAreAsCounted`, `RoutesAreComplete`,
`CommandIsAsConfigured`, `MarkerIsGone` and the action property
`ProvisionedOnlyWhenReady` state all the safety properties of `DockerInit`, with
`TypeCorrect` for its types: for every container, every image, and any number of
boots, reconnections and seconds to wait.  The assumptions are on what the metadata
and the image hand over: `SettingAssumption` (dockerexec inherits three or four
descriptors, no entry of a list is NULL), `ImageAssumption` (passwd and group are
functions of names, and the empty name is no group), `BoundAssumption`, a positive
`GROW_COUNT`, and `TextAssumption`, which says that the literals of the code are
strings.  The invariant has a part for each property.  `TableInv` says which
descriptor has which number at each function of `main`, after any number of
resets: a reset closes port and socket and opens them in the same order, so that
they get the lowest numbers, which are those they had; and what closing 4, 5 and 6
leaves open is a matter of the function reached and the setting alone.  What is left
open is stated exactly: the command of dockerexec has a descriptor 3, its caller's or
else the first one of the metadata client.  `LoggerInv` is the same for the logger's
child, which keeps the log on 0.  `WaitInv` says that the key of the wait is gone
once the wait is over, and that the marker of a boot that has put it, and any
marker in the first boot, is there only during the wait, unless the agent refuses.
`NetInv` says which prefix of its list
each of the three loops of `setupNetworking` (link-local routes, gateways, static
routes) has handled and which routes are there because of it; so two passes over
the routes are enough for a list in any order, and a default route is there if its
gateway is on a network of the zone or behind a link-local route.  `EnvInv` is `Merged`: after k
entries the list has every name of them once, with the last of its values, and no
hole.  `UserInv` and `CmdInv` are about the ids, argv and the path;
the group is the one given, else that of the user's entry if the group file has a
line for it, else root's.  The loops are
steps of the model, so the induction over lists that the provers lack is that over
steps.  Below are `SetStores`, `SetTailAppends` and `EntryMerges`: what
`strlist_set`, `strlist_set_tail` and `cbEachEnvEntry` do to any list, also when it
has to grow, with the NULL that `execve` needs at its end.

`MdataProofs`: `ZonesAreServed` is `Spec /\ ~Serial => ImplementsService`: with a
Unix socket, as in all zones, client library, socket and agent implement
`MdataService`, for agents of both versions, any number of calls, late answers,
faults and changes from outside, from `MdataAssumption` alone.  Every action is shown
to be a step of the service or a stutter, one lemma each.  The invariant is `ZoneInv`
(`ZoneInvariance`), of three parts: `ZoneType`; `CallInv`, by which the call that the
client is in tells where it can be, and its view is among the values the agent has
had since the call began; and `LineInv`, which describes the line.  Between
calls nothing on it is alive (`Quiet`): a request of a connection that is gone may
still be with the agent or with `VM.update`, but nobody will read its answer.
While the client waits for its answer, the request is the last and the only one
alive, on its way (`Asked`) or in `VM.update` (`Submitted`), or the one answer is
there: a frame of version 2 (`Framed`), a word of version 1 (`Worded`), or lines of
which the first or a later one is next (`HeaderNext`, `DataNext`).  An answer SUCCESS to a change implies that the
change is applied and that no repetition is left on the way or in `VM.update`: the
agent carries updates out in order, and the live request is behind the dead ones.
The mapping picks the changes out of the requests under way, so there are lemmas
about `ChangesIn` of a longer, a shorter and a concatenated sequence; they go by
induction over sets of numbers, from the well-foundedness of the naturals.  That a
request id is always free (`FreshIdType`) is a count: finitely many are in use.
The restriction to sockets is needed: a flush of a serial line does not reach
what is still under way, and with enough faults the refinement fails (section 5).

Not proved, model-checked only: the liveness properties (`EveryEventHandled`,
`RefreshRecurs`, `ConsistentUnlessMissed`, `EventuallyWatched`, `EveryRequestAnswered`,
`OperationEnds`, `MirrorCatchesUp`, `EveryCallReturns`, `ParseEnds`, `EveryBootEnds`),
which are out of the prover's reach; `ParsesExactly`, which compares with a
recursive definition, and induction over data is out of reach too; and the refinement
of `MdataService` on a serial line, which is true only within bounds.

## 5 Disagreements with the documentation

Five are kept as three runs, with the quotations in `PROJECT.json`:

- **eventual consistency** (`VminfodLostEvents`, vminfod.js:1310): the comparison
  replaces `vm_data` and then makes the objects of the zones that the old one did not
  have.  If no object can be made, every later comparison finds the zone in
  `vm_data` and none makes its object.  In the run's trace a zone is created without
  an event, the comparison finds it, it is deleted before `createVmobj` reads it, and
  created again without an event.  An error of `getVmobj` does the same in a single
  change, and without a lost event (`MayFail = TRUE` with `EventuallyConsistent`);
- the digits of a **unicode escape** in JSON are read as a decimal number that ends
  at the first letter (`NvlistJsonEscape`, json-nvlist.c:221);
- three **comments of dockerinit** (`DockerInitComments`; each of the conjuncts of
  `AsCommented` is false by itself, and what is true instead is part of
  `DescriptorsAsCounted` and `CommandAsConfigured`):
  dockerexec closes 4, 5 and 6 as the metadata client's (dockerexec.c:121), although
  they begin at 3 when the caller passes three descriptors only, so that the
  command has the first of them open on 3; the logger's 0 "should close since it's
  opened CLOEXEC" (dockerinit.c:506), but `dup2` has cleared the flag and the logger
  keeps the log open; and the group of the user's entry in passwd is used
  (docker-common.c:476) only if the group file has a line for it: else the command
  stays in root's group.

Two are part of what a passing run states:

- a **pause that times out** has resumed the queue when `resetDone` resumes it
  again; the assertion in `resume()` ends vminfod, although startTimers
  (vminfod.js:626) does not want it to crash.  `OnlyPauseTimeoutThrows` says that
  this is the only way;
- a file that goes away **between stat and port_associate** makes the helper print
  an error line, on which the module throws; fswatcher.c:605 calls such failures
  non-fatal.  `NoException` is restricted to files that are not deleted and to
  vminfod without its stale file check (see below).

Others in vminfod and fswatcher show when a constant or a setting is changed:

- after a timeout, `resume()` emits `idle` while tasks still run, and a later
  `fastForward` calls back although the tasks of the earlier one are not complete
  (queue.js:411, 464): the two promises without `~late`;
- a file that is deleted and back before the first attempt of the rewatch is not
  followed by a `create` event (fswatcher.js:600);
- `unwatch()` while a WATCH is under way does not cancel it, and the response makes
  the file watched again (fswatcher.js:590);
- the stale file check and the consumer unwatch the same file, after which a call
  or an event throws "not watching"; and a file that is wanted again after it was
  listed is unwatched for good (vminfod.js:709);
- an event that was taken from the port before an UNWATCH and a WATCH of the same
  file acts on the new handle (fswatcher.c:927).

And some in dockerinit and the metadata client, which the properties allow for:

- killIpmgmtd leaves the door of ipmgmtd open on one path (dockerinit.c:984);
- a numeric `docker:user` without an entry in passwd leaves the process root, and
  `user:` with an empty group is taken for group 0 (docker-common.c:504);
- a boot that ends in the wait for an attach leaves its marker behind, and the next
  boot, if it need not wait, does not remove it (dockerinit.c:1513);
- a logger that cannot be executed kills init, perhaps after
  `/var/svc/provision_success` is there (dockerinit.c:583), and the command may start
  before the streams are linked to the logger;
- `timeout_ms` of plat_recv shrinks by its whole seconds, so that after the first
  byte of a line it waits no more (sunos.c:200); a line that comes in pieces costs a
  reset;
- a permission problem on the way to the socket is remembered over the retries of
  one reset (proto.c:102), and the next failure that is not permanent then is;
- a frame whose checksum is 0 is dropped (proto.c:182), version 1 loses the empty
  lines a value begins with, an empty value cannot be put;
- on a serial line, after four answers that come too late, the INVALID_COMMANDs for
  what is left of them are taken for the answer to NEGOTIATE, and the client falls
  back to version 1, whose answers have no request id; an agent that restarts just
  then makes a GET return the value of an earlier one (`ImplementsService` with
  `MaxLate = 4`, `MaxFault = 1`, `MaxCall = 3`, `Cmd = {"GET"}`; not with `MaxLate` of 2
  or 3 and no fault);
- a write to a socket that the agent has closed raises SIGPIPE, which nothing
  catches: the client dies instead of retrying.

## 6 What is left out

- *Task timeouts* of the queue only emit an error; `stop()` of vminfod and of
  fswatcher is for tests.
- *Time.*  Timers fire at any moment after they are set.  The deduplication of
  fswatcher.js by millisecond is an option that vminfod does not use.
- The *stale file check* is part of `FsWatcher`, as a second caller of `unwatch`,
  and not of `Vminfod`, where the watches of a zone are one flag.
- A *zone's metadata files* are one context; sysinfo and lastexited go the same
  way.  ZFS data sets are not a context yet.
- What a VM object looks like (vmload's translation of properties), logging, the
  HTTP server, the helper's command line.
- Memory that was freed may read as anything; the model has the outcomes "not
  found" and "an equal name".
- A *serial line with an agent of version 1*: without request ids an answer that is
  late by a whole call would be taken for the answer to the next GET.  Such agents
  are older than this repository; `MCMdata` leaves the setting out.
- *`VminfodClient`*: the zone of `deleteZone` is not created again under the same
  uuid meanwhile, and what node does with a destroyed request is taken to be that no
  more lines are seen.
- *json-nvlist* expects its buffer to end in a NUL; text after the first value is
  accepted; both are as in the code's only callers.  Capacities of `strlist` near
  2^32 are out of reach of its users.
- *Encodings*: base64, crc32 and dynstr are taken to be exact.
- Components that have no module are in `PROJECT.json` with the reason: programs
  that only format or validate, scripts that run once, bindings, and those of the
  plan below.
- *Vendored code.*  Of the C sources of the repository some 109,000 lines of 125,000
  belong to other projects (SpiderMonkey inside the JavaScript lint tool, for the
  greatest part) and are run at build time only.  They are not part of the system
  that is modelled here, so that a share of all C lines says little.

## 7 Plan

In this order, the most important behaviour first:

1. `VminfodZfs`: data set events and what deduplication by description does to
   create, destroy, create.
2. Composition of `Vminfod` with `FsWatcher`: files of a VM one after the other,
   and the failing pipeline of `addVmFsWatches`.
3. `Vmadmd` and the life cycle of a VM: state, `transition` markers and timers over
   a restart of the daemon.
4. `FwUpdate`: rules on disk, rules in ipf and the lock around them, with a crash
   between the two; `ImgInstall`: download, receive, rename, and what a crash
   leaves behind.
5. `disklayout` as a pure algorithm against a reference definition.

An abstract specification worth stating: an exclusive lock with a FIFO per process,
which `QLocker` implements.
