------------------------------ MODULE FsWatcher ------------------------------
(***************************************************************************)
(* Watching files through event ports: the Node module that vminfod uses   *)
(* and the helper process that it drives through a pair of pipes.          *)
(*   src/src/vm/node_modules/fswatcher.js   (FsWatcher)                    *)
(*   src/src/fswatcher.c                    (two threads and a mutex)      *)
(* The file system and the event port are external.                        *)
(*                                                                         *)
(* A command carries the continuation that the response is matched with by *)
(* its key (pending_actions).  File contents are versions; an event is     *)
(* "mod" (FILE_MODIFIED, FILE_TRUNC, FILE_RENAME_TO) or "del"              *)
(* (FILE_DELETE, FILE_RENAME_FROM, UNMOUNTED, MOUNTEDOVER).                *)
(***************************************************************************)
EXTENDS Integers, Sequences, SequencesExt, FiniteSets

CONSTANTS
    File,        \* path names
    Tries,       \* initial_watch_tries
    Setting,     \* what goes on around the watcher, a set of records
                 \*   files     the files there are,
                 \*   mayDelete they are deleted (or renamed away) at times,
                 \*   mayDrop   the consumer stops watching files at times,
                 \*   cleaner   the stale file check runs next to the consumer,
                 \*   maxVer    bound: changes of one file
    MaxWatch     \* bound: the consumer calls watch() only while there have
                 \* been fewer calls of it, those of handleEvent included

ASSUME WatcherAssumption ==
    /\ IsFiniteSet(File)
    /\ Tries \in Nat \ {0} /\ MaxWatch \in Nat
    /\ \A s \in Setting : /\ s.files \subseteq File /\ s.maxVer \in Nat
                          /\ {s.mayDelete, s.mayDrop, s.cleaner} \subseteq BOOLEAN

VARIABLES
    setting,     \* one of Setting
    \* external: the file system and the event port
    exists, ver,
    assoc,       \* port_associate is in force
    portq,       \* events in the port; which file is next is left open
    \* fswatcher.c
    handle,      \* the files_tree has a node for the file
    got,         \* the event that port_get has returned, before the mutex
    work,        \* the mutex is held, between stat and port_associate
    cmdq, outq,  \* stdin and stdout of fswatcher.c
    \* fswatcher.js
    watching,    \* self.watching: "no", or "active" / "inactive" entries
    notYet,      \* self.not_yet_watching
    loops,       \* the calls of watch() and how far their tryWatching got
    longBusy,    \* commands of the long watch interval still unanswered
    crashed,     \* an exception was thrown
    \* the consumer (vminfod)
    want,        \* history: the consumer wants the file watched
    user,        \* the consumer's call for the file
    cleaner,     \* the stale file check's call for the file
    seen         \* history: the version at the last notification

fsVars   == <<exists, ver>>
portVars == <<assoc, portq>>
cVars    == <<handle, got, work>>
jsVars   == <<watching, notYet, loops, longBusy, crashed>>
userVars == <<want, user, cleaner>>
vars == <<setting, fsVars, portVars, cVars, cmdq, outq, jsVars, userVars, seen>>

None == [none |-> TRUE]

Init ==
    /\ setting \in Setting
    /\ exists \in [File -> BOOLEAN]
    /\ \A f \in File : exists[f] => f \in setting.files
    /\ ver = [f \in File |-> 0]
    /\ assoc = [f \in File |-> FALSE]
    /\ portq = [f \in File |-> <<>>]
    /\ handle = [f \in File |-> FALSE]
    /\ got = None
    /\ work = None
    /\ cmdq = <<>>
    /\ outq = <<>>
    /\ watching = [f \in File |-> "no"]
    /\ notYet = [f \in File |-> None]
    /\ loops = <<>>
    /\ longBusy = 0
    /\ crashed = FALSE
    /\ want = [f \in File |-> FALSE]
    /\ user = [f \in File |-> "idle"]
    /\ cleaner = [f \in File |-> "idle"]
    /\ seen = [f \in File |-> 0]

-----------------------------------------------------------------------------
\* stale: the handle whose name the event points to has been destroyed.
PortEvent(f, ev) == [file |-> f, ev |-> ev, stale |-> FALSE]

\* External: a file changes.  An association fires once and is then gone.
FileChanges(f, there, ev) ==
    /\ ver[f] < setting.maxVer
    /\ exists' = [exists EXCEPT ![f] = there]
    /\ ver' = [ver EXCEPT ![f] = ver[f] + 1]
    /\ assoc' = [assoc EXCEPT ![f] = FALSE]
    /\ portq' = IF assoc[f]
                THEN [portq EXCEPT ![f] = Append(@, PortEvent(f, ev))] ELSE portq
    /\ UNCHANGED <<cVars, cmdq, outq, jsVars, userVars, seen>>

Modify(f) == exists[f] /\ FileChanges(f, TRUE, "mod")

Create(f) == ~exists[f] /\ FileChanges(f, TRUE, "mod")

Delete(f) == setting.mayDelete /\ exists[f] /\ FileChanges(f, FALSE, "del")

-----------------------------------------------------------------------------
(***************************************************************************)
(* fswatcher.c.  Each thread takes work_mutex when it has something to do; *)
(* work # None is a thread inside check_and_rearm_event that has stat'ed   *)
(* the file and not yet called port_associate.                             *)
(***************************************************************************)
Response(c, ok) == [type |-> "response", cont |-> c, ok |-> ok]

Event(f, ev, final) == [type |-> "event", file |-> f, ev |-> ev, final |-> final]

\* process_stdin_line, watch_path and check_and_rearm_event up to the stat.
CWatch ==
    LET c == Head(cmdq).cont
        f == c.file
    IN  /\ work = None /\ cmdq # <<>> /\ Head(cmdq).cmd = "WATCH"
        /\ cmdq' = Tail(cmdq)
        /\ \/ /\ handle[f]
              /\ outq' = Append(outq, Response(c, TRUE))
              /\ UNCHANGED <<handle, work>>
           \/ /\ ~handle[f] /\ ~exists[f]
              /\ outq' = Append(outq, Response(c, FALSE))
              /\ UNCHANGED <<handle, work>>
           \/ /\ ~handle[f] /\ exists[f]
              /\ handle' = [handle EXCEPT ![f] = TRUE]
              /\ work' = [by |-> "stdin", file |-> f, ver |-> ver[f],
                          msg |-> Response(c, TRUE)]
              /\ UNCHANGED outq
        /\ UNCHANGED <<fsVars, portVars, got, jsVars, userVars, seen>>

\* unwatch_path: port_dissociate also drops the event that is in the port.
CUnwatch ==
    LET c == Head(cmdq).cont
        f == c.file
    IN  /\ work = None /\ cmdq # <<>> /\ Head(cmdq).cmd = "UNWATCH"
        /\ cmdq' = Tail(cmdq)
        /\ \/ /\ ~handle[f]
              /\ outq' = Append(outq, Response(c, FALSE))
              /\ UNCHANGED <<handle, portVars, got>>
           \/ /\ handle[f]
              /\ handle' = [handle EXCEPT ![f] = FALSE]
              /\ assoc' = [assoc EXCEPT ![f] = FALSE]
              /\ portq' = [portq EXCEPT ![f] = <<>>]
              /\ got' = IF got # None /\ got.file = f
                        THEN [got EXCEPT !.stale = TRUE] ELSE got
              /\ outq' = Append(outq, Response(c, TRUE))
        /\ UNCHANGED <<fsVars, work, jsVars, userVars, seen>>

\* wait_for_events: port_get returns, the mutex is not yet taken.
CPortGet ==
    /\ got = None
    /\ work # None => work.by = "stdin"
    /\ \E f \in File :
          /\ portq[f] # <<>>
          /\ got' = Head(portq[f])
          /\ portq' = [portq EXCEPT ![f] = Tail(@)]
    /\ UNCHANGED <<fsVars, assoc, handle, work, cmdq, outq, jsVars, userVars, seen>>

(***************************************************************************)
(* check_and_rearm_event up to the stat.  The name in the event belongs to *)
(* the handle; if that has been destroyed since port_get the name is freed *)
(* memory, and the lookup finds nothing or, if the memory still reads the  *)
(* same, the handle of a later watch of the same file.                     *)
(***************************************************************************)
CEvent ==
    LET f == got.file
    IN  /\ work = None /\ got # None
        /\ got' = None
        /\ \/ /\ ~handle[f] \/ got.stale
              /\ UNCHANGED <<handle, work, outq>>
           \/ /\ handle[f] /\ (got.ev = "del" \/ ~exists[f])
              /\ handle' = [handle EXCEPT ![f] = FALSE]
              /\ outq' = Append(outq, Event(f, got.ev, TRUE))
              /\ UNCHANGED work
           \/ /\ handle[f] /\ got.ev # "del" /\ exists[f]
              /\ work' = [by |-> "port", file |-> f, ver |-> ver[f],
                          msg |-> Event(f, got.ev, FALSE)]
              /\ UNCHANGED <<handle, outq>>
        /\ UNCHANGED <<fsVars, portVars, cmdq, jsVars, userVars, seen>>

\* Mutant: after an event the file is not associated again.
CAssociate_NoRearm ==
    /\ work # None
    /\ work' = None
    /\ assoc' = [assoc EXCEPT ![work.file] = (work.by = "stdin")]
    /\ outq' = Append(outq, work.msg)
    /\ UNCHANGED <<fsVars, portq, handle, got, cmdq, jsVars, userVars, seen>>

(***************************************************************************)
(* port_associate and the rest of check_and_rearm_event.  The port fires   *)
(* at once if the file is no longer the one that was stat'ed; the call     *)
(* fails if the file is gone.                                              *)
(***************************************************************************)
CAssociate ==
    LET f == work.file
    IN  /\ work # None
        /\ work' = None
        /\ \/ /\ exists[f]
              /\ assoc' = [assoc EXCEPT ![f] = (ver[f] = work.ver)]
              /\ portq' = IF ver[f] = work.ver THEN portq
                          ELSE [portq EXCEPT ![f] = Append(@, PortEvent(f, "mod"))]
              /\ outq' = Append(outq, work.msg)
              /\ UNCHANGED handle
           \/ /\ ~exists[f]
              /\ outq' = IF work.by = "stdin"
                         THEN Append(outq, [work.msg EXCEPT !.ok = FALSE])
                         ELSE outq \o <<work.msg, [type |-> "error"]>>
              /\ handle' = [handle EXCEPT ![f] = FALSE]
              /\ UNCHANGED portVars
        /\ UNCHANGED <<fsVars, got, cmdq, jsVars, userVars, seen>>

-----------------------------------------------------------------------------
(***************************************************************************)
(* fswatcher.js.  Every action below is one turn of its event loop.        *)
(***************************************************************************)
IsWatching(f) == watching[f] # "no" \/ notYet[f] # None

Send(cmd, cont) == cmdq' = Append(cmdq, [cmd |-> cmd, cont |-> cont])

\* The consumer is told something: it reads the file now or later.
Notify(f) == seen' = [seen EXCEPT ![f] = ver[f]]

(***************************************************************************)
(* The beginning of watch(): the first tryWatching sends the command.      *)
(* id tells the object o of this call from a later one for the same file.  *)
(***************************************************************************)
StartLoop(f, cb) ==
    LET l == Len(loops) + 1
    IN  /\ notYet' = [notYet EXCEPT ![f] =
                         [id |-> l, tries |-> 0, timer |-> 0, long |-> FALSE]]
        /\ loops' = Append(loops, [file |-> f, pc |-> "sent", initial |-> TRUE,
                                   cb |-> cb])
        /\ Send("WATCH", [kind |-> "loop", file |-> f, loop |-> l, o |-> l])

\* The callback of watch() is called once, when the first attempt is over.
CallBack(l) ==
    IF loops[l].initial /\ loops[l].cb
    THEN user' = [user EXCEPT ![loops[l].file] = "idle"]
    ELSE UNCHANGED user

\* Mutant: after the last try nobody goes on trying.
RetryTimeout_GiveUp(l) ==
    LET f == loops[l].file
        o == notYet[f]
    IN  /\ loops[l].pc = "timer"
        /\ IF o # None /\ o.tries < Tries
           THEN /\ notYet' = [notYet EXCEPT ![f].timer = 0]
                /\ loops' = [loops EXCEPT ![l].pc = "sent"]
                /\ Send("WATCH", [kind |-> "loop", file |-> f, loop |-> l,
                                  o |-> o.id])
           ELSE /\ loops' = [loops EXCEPT ![l].pc = "done"]
                /\ UNCHANGED <<notYet, cmdq>>
        /\ UNCHANGED <<fsVars, portVars, cVars, outq, watching, longBusy,
                       crashed, userVars, seen>>

\* setTimeout(tryWatching): the timer of loop l fires.
RetryTimeout(l) ==
    LET f == loops[l].file
        o == notYet[f]
    IN  /\ loops[l].pc = "timer"
        /\ \/ /\ o = None                   \* watch was cancelled
              /\ loops' = [loops EXCEPT ![l].pc = "done"]
              /\ UNCHANGED <<notYet, cmdq>>
           \/ /\ o # None /\ o.tries >= Tries
              /\ notYet' = [notYet EXCEPT ![f].timer = 0, ![f].long = TRUE]
              /\ loops' = [loops EXCEPT ![l].pc = "done"]
              /\ UNCHANGED cmdq
           \/ /\ o # None /\ o.tries < Tries
              /\ notYet' = [notYet EXCEPT ![f].timer = 0]
              /\ loops' = [loops EXCEPT ![l].pc = "sent"]
              /\ Send("WATCH", [kind |-> "loop", file |-> f, loop |-> l,
                                o |-> o.id])
        /\ UNCHANGED <<fsVars, portVars, cVars, outq, watching, longBusy,
                       crashed, userVars, seen>>

\* _watchUnwatchedFiles, long_watch_delay after the last one is complete.
LongInterval ==
    LET F == SetToSeq({f \in File : notYet[f] # None /\ notYet[f].long})
    IN  /\ longBusy = 0 /\ F # <<>>
        /\ longBusy' = Len(F)
        /\ cmdq' = cmdq \o [i \in 1 .. Len(F) |->
                              [cmd |-> "WATCH",
                               cont |-> [kind |-> "long", file |-> F[i]]]]
        /\ UNCHANGED <<fsVars, portVars, cVars, outq, watching, notYet, loops,
                       crashed, userVars, seen>>

\* handleResponse, for a WATCH of the loop of a watch() call: _tryWatching_done.
LoopResponse ==
    LET m == Head(outq)
        l == m.cont.loop
        f == m.cont.file
    IN  /\ outq # <<>> /\ m.type = "response" /\ m.cont.kind = "loop"
        /\ outq' = Tail(outq)
        /\ CallBack(l)
        /\ \/ /\ m.ok
              /\ watching' = [watching EXCEPT ![f] = "active"]
              /\ notYet' = [notYet EXCEPT ![f] = None]
              /\ loops' = [loops EXCEPT ![l].pc = "done", ![l].initial = FALSE]
              /\ IF loops[l].initial /\ ~loops[l].cb
                 THEN UNCHANGED seen       \* no callback and no 'create' event
                 ELSE Notify(f)
           \/ /\ ~m.ok
              /\ notYet' = IF notYet[f] # None /\ notYet[f].id = m.cont.o
                           THEN [notYet EXCEPT ![f].tries = notYet[f].tries + 1,
                                               ![f].timer = l]
                           ELSE notYet
              /\ loops' = [loops EXCEPT ![l].pc = "timer", ![l].initial = FALSE]
              /\ IF loops[l].initial /\ loops[l].cb THEN Notify(f)
                                                    ELSE UNCHANGED seen
              /\ UNCHANGED watching
        /\ UNCHANGED <<fsVars, portVars, cVars, cmdq, longBusy, crashed, want,
                       cleaner>>

\* handleResponse, for a WATCH of the long interval: _tryWatchingDone.
LongResponse ==
    LET m == Head(outq)
        f == m.cont.file
    IN  /\ outq # <<>> /\ m.type = "response" /\ m.cont.kind = "long"
        /\ outq' = Tail(outq)
        /\ longBusy' = longBusy - 1
        /\ \/ /\ m.ok
              /\ watching' = [watching EXCEPT ![f] = "active"]
              /\ notYet' = [notYet EXCEPT ![f] = None]
              /\ Notify(f)                 \* 'create'
           \/ ~m.ok /\ UNCHANGED <<watching, notYet, seen>>
        /\ UNCHANGED <<fsVars, portVars, cVars, cmdq, loops, crashed, userVars>>

\* handleResponse, for an UNWATCH: the result is not looked at.
UnwatchResponse ==
    LET m == Head(outq)
        f == m.cont.file
    IN  /\ outq # <<>> /\ m.type = "response"
        /\ m.cont.kind \in {"user", "cleaner"}
        /\ outq' = Tail(outq)
        /\ watching' = [watching EXCEPT ![f] = "no"]
        /\ user' = [user EXCEPT ![f] = IF m.cont.kind = "user" THEN "idle" ELSE user[f]]
        /\ cleaner' = [cleaner EXCEPT ![f] =
                          IF m.cont.kind = "cleaner" THEN "idle" ELSE cleaner[f]]
        /\ UNCHANGED <<fsVars, portVars, cVars, cmdq, notYet, loops, longBusy,
                       crashed, want, seen>>

\* handleEvent.  After a final event the file is watched anew.
HandleEvent ==
    LET m == Head(outq)
        f == m.file
    IN  /\ outq # <<>> /\ m.type = "event"
        /\ outq' = Tail(outq)
        /\ \/ /\ watching[f] = "no"        \* assert.object(w, 'not watching')
              /\ crashed' = TRUE
              /\ UNCHANGED <<watching, notYet, loops, cmdq, seen>>
           \/ /\ watching[f] = "inactive"
              /\ UNCHANGED <<watching, notYet, loops, cmdq, crashed, seen>>
           \/ /\ watching[f] = "active" /\ m.final
              /\ watching' = [watching EXCEPT ![f] = "no"]
              /\ IF notYet[f] = None THEN StartLoop(f, FALSE)
                                     ELSE UNCHANGED <<notYet, loops, cmdq>>
              /\ Notify(f)
              /\ UNCHANGED crashed
           \/ /\ watching[f] = "active" /\ ~m.final
              /\ Notify(f)
              /\ UNCHANGED <<watching, notYet, loops, cmdq, crashed>>
        /\ UNCHANGED <<fsVars, portVars, cVars, longBusy, userVars>>

\* stdoutQueue throws on a line of type "error".
HandleError ==
    /\ outq # <<>> /\ Head(outq).type = "error"
    /\ outq' = Tail(outq)
    /\ crashed' = TRUE
    /\ UNCHANGED <<fsVars, portVars, cVars, cmdq, watching, notYet, loops,
                   longBusy, userVars, seen>>

-----------------------------------------------------------------------------
(***************************************************************************)
(* The consumer.  It makes one call at a time for a file: watch() when it  *)
(* learns of a VM, unwatch() some time after it has forgotten the VM.      *)
(***************************************************************************)
Watch(f) ==
    /\ user[f] = "idle" /\ ~want[f]
    /\ Len(loops) < MaxWatch
    /\ want' = [want EXCEPT ![f] = TRUE]
    /\ IF IsWatching(f)                    \* calls back with an error
       THEN UNCHANGED <<user, notYet, loops, cmdq>>
       ELSE /\ StartLoop(f, TRUE)
            /\ user' = [user EXCEPT ![f] = "watching"]
    /\ UNCHANGED <<fsVars, portVars, cVars, outq, watching, longBusy, crashed,
                   cleaner, seen>>

Forget(f) ==
    /\ setting.mayDrop
    /\ user[f] = "idle" /\ want[f]
    /\ want' = [want EXCEPT ![f] = FALSE]
    /\ user' = [user EXCEPT ![f] = "dropping"]
    /\ UNCHANGED <<fsVars, portVars, cVars, cmdq, outq, jsVars, cleaner, seen>>

\* Mutant: unwatch() forgets the file before the helper has answered.
UnwatchCall_AtOnce(f, who, done) ==
    \/ /\ watching[f] # "no" /\ ~done
       /\ watching' = [watching EXCEPT ![f] = "no"]
       /\ Send("UNWATCH", [kind |-> who, file |-> f])
       /\ UNCHANGED <<notYet, loops, crashed>>
    \/ /\ watching[f] = "no" /\ notYet[f] # None /\ done
       /\ notYet' = [notYet EXCEPT ![f] = None]
       /\ UNCHANGED <<watching, loops, cmdq, crashed>>

\* unwatch(), called for who; it has called back (TRUE) or is going to.
UnwatchCall(f, who, done) ==
    \/ /\ watching[f] = "active" /\ ~done
       /\ watching' = [watching EXCEPT ![f] = "inactive"]
       /\ Send("UNWATCH", [kind |-> who, file |-> f])
       /\ UNCHANGED <<notYet, loops, crashed>>
    \/ /\ watching[f] = "inactive" /\ done
       /\ watching' = [watching EXCEPT ![f] = "no"]
       /\ UNCHANGED <<notYet, loops, cmdq, crashed>>
    \/ /\ watching[f] = "no" /\ notYet[f] # None /\ done
       /\ notYet' = [notYet EXCEPT ![f] = None]
       /\ loops' = IF notYet[f].timer # 0
                   THEN [loops EXCEPT ![notYet[f].timer].pc = "done"]
                   ELSE loops
       /\ UNCHANGED <<watching, cmdq, crashed>>
    \/ /\ ~IsWatching(f) /\ done           \* throw new Error('not watching')
       /\ crashed' = TRUE
       /\ UNCHANGED <<watching, notYet, loops, cmdq>>

Unwatch(f) ==
    /\ user[f] = "dropping"
    /\ \E done \in BOOLEAN :
          /\ UnwatchCall(f, "user", done)
          /\ user' = [user EXCEPT ![f] = IF done THEN "idle" ELSE "unwatching"]
    /\ UNCHANGED <<fsVars, portVars, cVars, outq, longBusy, want, cleaner, seen>>

\* refreshFindStaleFiles: lists the watched files of no VM ...
CleanerFind(f) ==
    /\ setting.cleaner
    /\ cleaner[f] = "idle" /\ watching[f] # "no" /\ ~want[f]
    /\ cleaner' = [cleaner EXCEPT ![f] = "chosen"]
    /\ UNCHANGED <<fsVars, portVars, cVars, cmdq, outq, jsVars, want, user, seen>>

\* ... and unwatches them one after the other.
CleanerUnwatch(f) ==
    /\ cleaner[f] = "chosen"
    /\ \E done \in BOOLEAN :
          /\ UnwatchCall(f, "cleaner", done)
          /\ cleaner' = [cleaner EXCEPT ![f] = IF done THEN "idle" ELSE "unwatching"]
    /\ UNCHANGED <<fsVars, portVars, cVars, outq, longBusy, want, user, seen>>

-----------------------------------------------------------------------------
FileSystem == \E f \in setting.files : Modify(f) \/ Create(f) \/ Delete(f)

Helper == CWatch \/ CUnwatch \/ CPortGet \/ CEvent \/ CAssociate

EventLoop ==
    /\ ~crashed
    /\ \/ \E l \in 1 .. Len(loops) : RetryTimeout(l)
       \/ LongInterval
       \/ LoopResponse
       \/ LongResponse
       \/ UnwatchResponse
       \/ HandleEvent
       \/ HandleError

Consumer ==
    /\ ~crashed
    /\ \E f \in setting.files :
          \/ Watch(f)
          \/ Forget(f)
          \/ Unwatch(f)
          \/ CleanerFind(f)
          \/ CleanerUnwatch(f)

Next ==
    /\ UNCHANGED setting
    /\ FileSystem \/ Helper \/ EventLoop \/ Consumer

(***************************************************************************)
(* Fairness: both threads of the helper get the mutex, the event loop gets *)
(* to each line and each timer, and the consumer makes the call that it    *)
(* has decided on.                                                         *)
(***************************************************************************)
Fairness ==
    /\ WF_vars((CWatch \/ CUnwatch) /\ UNCHANGED setting)
    /\ WF_vars(CPortGet /\ UNCHANGED setting)
    /\ WF_vars(CEvent /\ UNCHANGED setting)
    /\ WF_vars(CAssociate /\ UNCHANGED setting)
    /\ WF_vars(/\ ~crashed /\ UNCHANGED setting
               /\ \/ LoopResponse \/ LongResponse \/ UnwatchResponse
                  \/ HandleEvent \/ HandleError)
    /\ WF_vars(~crashed /\ LongInterval /\ UNCHANGED setting)
    /\ WF_vars(/\ ~crashed /\ UNCHANGED setting
               /\ \E l \in 1 .. Len(loops) : RetryTimeout(l))
    /\ \A f \in File : WF_vars(~crashed /\ Unwatch(f) /\ UNCHANGED setting)

Spec == Init /\ [][Next]_vars

FairSpec == Spec /\ Fairness

-----------------------------------------------------------------------------
\* The type invariant of the file system, the helper and the module.
TypeOK ==
    /\ exists \in [File -> BOOLEAN] /\ ver \in [File -> 0 .. setting.maxVer]
    /\ assoc \in [File -> BOOLEAN] /\ handle \in [File -> BOOLEAN]
    /\ \A f \in File : \A i \in 1 .. Len(portq[f]) : portq[f][i].ev \in {"mod", "del"}
    /\ watching \in [File -> {"no", "active", "inactive"}]
    /\ \A l \in 1 .. Len(loops) : loops[l].pc \in {"sent", "timer", "done"}
    /\ longBusy \in Nat
    /\ crashed \in BOOLEAN
    /\ want \in [File -> BOOLEAN]
    /\ user \in [File -> {"idle", "watching", "dropping", "unwatching"}]
    /\ cleaner \in [File -> {"idle", "chosen", "unwatching"}]
    /\ seen \in [File -> 0 .. setting.maxVer]

\* Nothing is on its way between the file system and the consumer.
Quiet ==
    /\ cmdq = <<>> /\ outq = <<>> /\ got = None /\ work = None
    /\ \A f \in File : portq[f] = <<>>

\* An association always belongs to a handle, and a handle without one has an
\* event under way: the helper never stops watching a file silently.  (When a
\* file is deleted and unwatched, the event of an earlier handle may be taken
\* for one of a later handle with the same name.)
HandleArmed ==
    ~(setting.mayDelete /\ setting.mayDrop) =>
        \A f \in File :
            /\ assoc[f] => handle[f]
            /\ handle[f] => \/ assoc[f]
                            \/ portq[f] # <<>>
                            \/ got # None /\ got.file = f
                            \/ work # None /\ work.file = f

\* No line from the helper and no call of the consumer throws, as long as
\* files are not deleted and the stale file check does not run.  (A deletion
\* between the stat and the port_associate of a re-arm makes the helper print
\* an error line, on which the module throws.  The stale file check may unwatch
\* a file before the consumer does, whose call then throws.)
NoException == ~setting.mayDelete /\ ~setting.cleaner => ~crashed

\* No change of a watched file is missed: when nothing is under way, the
\* consumer has been notified since the last change.
NoMissedChange ==
    ~setting.mayDelete /\ Quiet =>
        \A f \in File : want[f] /\ watching[f] = "active" => seen[f] = ver[f]

\* When nothing is under way the two processes agree on what is watched.
Agreement ==
    Quiet /\ ~crashed =>
        \A f \in File : watching[f] = "active" <=> handle[f]

\* When nothing is under way everybody is up to date: the helper watches what
\* the module takes to be watched, and the consumer knows of every change.
UpToDateWhenQuiet == Agreement /\ NoMissedChange

\* A file that the consumer goes on wanting and that stays in place is watched
\* in the end, by retries, by the long interval or after a final event, unless
\* the stale file check has taken it for stale.
EventuallyWatched ==
    \A f \in File :
        <>[](want[f] /\ exists[f] /\ ~crashed /\ ~setting.cleaner)
            => <>[](watching[f] = "active")
=============================================================================
