----------------------------- MODULE DockerInit -----------------------------
(***************************************************************************)
(* dockerinit (src/src/dockerinit/src/dockerinit.c), the init process of a *)
(* docker zone, and dockerexec, which runs a further command in it.  Both  *)
(* read what they need from the metadata agent, prepare the zone and the   *)
(* environment, and become the command by execve.                          *)
(*                                                                         *)
(* Everything they opened on the way has to be gone by then, and the only  *)
(* thing they know about the descriptors of the metadata client is which   *)
(* numbers those have to have.  The model therefore keeps the descriptor   *)
(* table of the process, and the client may lose its connection and open   *)
(* it again in any call.  The child that becomes the logger runs           *)
(* concurrently, and a boot may fail at every step and be repeated.        *)
(***************************************************************************)
EXTENDS Strlist, Sequences, SequencesExt, FiniteSets, FiniteSetsExt

CONSTANTS
    Setting,    \* the metadata of the zone and what it runs on
    Passwd,     \* /etc/passwd of the image: uid, gid and home by name
    Group,      \* /etc/group of the image: gid by name
    Number,     \* the texts that strtoll takes to their end, with their value
    MaxBoot,    \* bound: how often the zone is booted
    MaxTime,    \* bound: the clock
    MaxReset    \* bound: how often a connection to the agent is lost

EmptyText == ""

\* What metadata says is text: an environment entry "name=value", where one
\* without a name or without an equals sign has the empty name, a NIC with the
\* network of its address and that of its gateway, if it has one, a static
\* route.
EnvEntry == [name : STRING, value : STRING]
Nic == [net : STRING, primary : BOOLEAN, gw : STRING \cup {NULL}]
StaticRoute == [linklocal : BOOLEAN, dst : STRING, gw : STRING]

\* NULL is no string: docker:user without a colon has the group NULL, with a
\* colon at its end the empty one.  dockerexec starts with the three streams of
\* its caller and possibly one more descriptor: its cleanup counts on not more.
ASSUME SettingAssumption ==
    /\ NULL \notin STRING /\ NULL \notin EnvEntry
    /\ Setting \subseteq
           [prog : {"dockerinit", "dockerexec"}, inherit : {2, 3},
            urandom : BOOLEAN, brand : STRING, tty : BOOLEAN, stdin : BOOLEAN,
            logdriver : STRING, noipmgmtd : BOOLEAN,
            wait : 0..MaxTime, refuse : BOOLEAN, hostname : BOOLEAN,
            user : [user : STRING, group : STRING \cup {NULL}],
            linkEnv : Seq(EnvEntry), env : Seq(EnvEntry),
            entrypoint : Seq(STRING), cmd : Seq(STRING),
            nics : Seq(Nic), routes : Seq(StaticRoute)]

\* No digit at all is a number too.
ASSUME ImageAssumption ==
    /\ Passwd \in [DOMAIN Passwd -> [uid : Nat, gid : Nat, home : STRING]]
    /\ Group \in [DOMAIN Group -> Nat]
    /\ Number \in [DOMAIN Number -> Nat]
    /\ EmptyText \in DOMAIN Number /\ Number[EmptyText] = 0

\* The literals of the environment are strings, which the provers do not know.
ASSUME TextAssumption ==
    {"TERM", "xterm", "HOME", "/", "PATH", "default", "HOSTNAME", "host"}
        \subseteq STRING

ASSUME BoundAssumption ==
    MaxBoot \in Nat /\ MaxTime \in Nat \ {0} /\ MaxReset \in Nat

VARIABLES
    setting,    \* which setting this is
    pc,         \* the function that main calls next
    status,     \* off, boot, running (the command), exited, aborted, killed
    nboot,      \* how often the zone was booted
    fds,        \* the descriptor table
    net,        \* addresses and routes of the zone
    user,       \* the globals pwd and grp
    env,        \* the string list env
    cmdline,    \* the string list cmdline
    next,       \* the element of a list from metadata that is handled next
    ids,        \* uid, gid and groups of the process
    marker,     \* __dockerinit_waiting_for_attach is in the metadata
    waitKey,    \* docker:wait_for_attach, 0 when it is not there
    didPut,     \* did_put of waitIfAttaching
    file,       \* /var/svc: provisioning or provision_success
    zfd,        \* the zfd devices exist
    child,      \* the process of the logger
    mux,        \* the streams linked by ZFD_MUX
    now,        \* the clock
    nreset      \* how often the connection was lost

\* Where the metadata and the host are, apart from the process.
host == <<setting, marker, waitKey, file, zfd, now>>
memory == <<net, user, env, cmdline, next, ids>>
logger == <<child, mux>>
vars == <<setting, pc, status, nboot, fds, net, user, env, cmdline, next,
          ids, marker, waitKey, didPut, file, zfd, child, mux, now, nreset>>

Fd == 0..9
Closed == "-"

\* open(2) and its kind take the lowest number that is free.
LowestFree(t) ==
    CHOOSE n \in Fd : t[n] = Closed /\ \A m \in 0..(n - 1) : t[m] # Closed
Open(t, what) == [t EXCEPT ![LowestFree(t)] = what]
Close(t, S) == [n \in Fd |-> IF n \in S THEN Closed ELSE t[n]]
CloseAll(t, whats) == Close(t, {n \in Fd : t[n] \in whats})
NoFds == [n \in Fd |-> Closed]

\* proto_reset: the event port and the socket are closed and opened again.
Reset(t) == Open(Open(CloseAll(t, {"port", "sock"}), "port"), "sock")

\* proto_init by the first call: /dev/urandom, which an image may lack, stays
\* open as well.
Connect(t) ==
    Open(Open(IF setting.urandom THEN Open(t, "urandom") ELSE t, "port"), "sock")

Root == [uid |-> 0, gid |-> 0, groups |-> 0]
NoUser == [pwd |-> NULL, grp |-> NULL]
NoNet == [up |-> {}, routes |-> {}]
NoChild == [pc |-> "none", fds |-> NoFds]

InitProcess == setting.prog = "dockerinit"

-----------------------------------------------------------------------------
(* The environment, the command line and the user (docker-common.c).       *)

Entry(name, value) == [name |-> name, value |-> value]

Default(home) ==
    <<Entry("TERM", "xterm"), Entry("HOME", home), Entry("PATH", "default")>>
    \o (IF InitProcess /\ setting.hostname THEN <<Entry("HOSTNAME", "host")>>
        ELSE <<>>)

\* Mutant: an entry is appended even if its name is there already.
insertOrReplaceEnv_Append(sl, e) == strlist_set_tail(sl, e)

insertOrReplaceEnv(sl, e) ==
    LET same == {i \in 0..sl.capacity :
                    strlist_get(sl, i) # NULL
                    /\ strlist_get(sl, i).name = e.name}
    IN IF same = {} THEN strlist_set_tail(sl, e)
       ELSE strlist_set(sl, Min(same), e)

cbEachEnvEntry(sl, e) ==
    IF e.name = EmptyText THEN sl ELSE insertOrReplaceEnv(sl, e)

\* What buildCmdEnv puts into env: the defaults, then the links, then the
\* container's own environment.
EnvEntries(home) == Default(home) \o setting.linkEnv \o setting.env

\* What buildCmdline puts into cmdline: ENTRYPOINT comes before CMD.
CmdEntries == setting.entrypoint \o setting.cmd

getgrgid(gid) ==
    IF \E g \in DOMAIN Group : Group[g] = gid THEN gid ELSE NULL

getpwuid(uid) ==
    LET found == {p \in DOMAIN Passwd : Passwd[p].uid = uid}
    IN IF found = {} THEN NULL ELSE Passwd[CHOOSE p \in found : TRUE]

\* A user or group of metadata is a name or a number; without an entry a name
\* is fatal and a number leaves the pointer NULL.
FindUser(text) ==
    CASE text \in DOMAIN Passwd -> Passwd[text]
      [] text \in DOMAIN Number \ DOMAIN Passwd -> getpwuid(Number[text])
      [] OTHER -> NULL
FindGroup(text) ==
    CASE text \in DOMAIN Group -> Group[text]
      [] text \in DOMAIN Number \ DOMAIN Group -> getgrgid(Number[text])
      [] OTHER -> NULL

getUserGroupData(u) ==
    LET pwd == FindUser(u.user)
        given == IF u.group = NULL THEN NULL ELSE FindGroup(u.group)
    IN [pwd |-> pwd,
        grp |-> IF given = NULL /\ pwd # NULL THEN getgrgid(pwd.gid)
                ELSE given]

GoodUser(u) ==
    /\ u.user \in DOMAIN Passwd \cup DOMAIN Number
    /\ u.group \in {NULL} \cup DOMAIN Group \cup DOMAIN Number

-----------------------------------------------------------------------------
(* The network (setupNetworking).                                          *)

\* A gateway is reached when it is on a network of ours: the one of an
\* interface or one that a route without a gateway made ours.
Reached(n, gw) ==
    \/ gw \in n.up
    \/ \E r \in n.routes : r.link /\ r.dst = gw

\* addRoute: what cannot be added, or is there already, only leaves a warning.
addRoute(n, dst, gw, link) ==
    IF link \/ Reached(n, gw)
    THEN [n EXCEPT !.routes = @ \cup {[dst |-> dst, gw |-> gw, link |-> link]}]
    ELSE n

setupInterfaces(n) ==
    [n EXCEPT !.up = {"lo0"} \cup {i.net : i \in Range(setting.nics)}]

setupGateway(n, i) ==
    IF i.primary /\ i.gw # NULL THEN addRoute(n, "default", i.gw, FALSE) ELSE n

\* Mutant: the link-local routes are left to the second pass.
setupStaticRoute_Late(n, r, linkLocalOnly) ==
    IF r.linklocal /\ linkLocalOnly THEN n
    ELSE addRoute(n, r.dst, r.gw, r.linklocal)

setupStaticRoute(n, r, linkLocalOnly) ==
    IF r.linklocal /\ ~linkLocalOnly THEN n
    ELSE addRoute(n, r.dst, r.gw, r.linklocal)

-----------------------------------------------------------------------------
(* The process: one action for each function that main calls.              *)

Init ==
    /\ setting \in Setting
    /\ pc = "none"
    /\ status = "off"
    /\ nboot = 0
    /\ fds = NoFds
    /\ net = NoNet /\ user = NoUser /\ ids = Root
    /\ env = strlist_alloc(0) /\ cmdline = strlist_alloc(0) /\ next = 1
    /\ marker = FALSE /\ waitKey = setting.wait /\ didPut = FALSE
    /\ file = "provisioning"
    /\ zfd = FALSE
    /\ child = NoChild /\ mux = {}
    /\ now = 1
    /\ nreset = 0

\* The zone boots, or boots again; dockerexec is started in a zone that runs,
\* with descriptors of its caller.
Boot ==
    /\ status # "boot"
    /\ nboot < MaxBoot
    /\ nboot' = nboot + 1
    /\ status' = "boot"
    /\ pc' = IF InitProcess THEN "main" ELSE "getUserGroupData"
    /\ fds' = IF InitProcess THEN NoFds
              ELSE [n \in Fd |-> IF n <= setting.inherit THEN "caller" ELSE Closed]
    /\ net' = NoNet /\ user' = NoUser /\ ids' = Root
    /\ env' = strlist_alloc(0) /\ cmdline' = strlist_alloc(0) /\ next' = 1
    /\ didPut' = FALSE
    /\ child' = NoChild /\ mux' = {}
    /\ zfd' = ~InitProcess
    /\ nreset' = 0
    /\ UNCHANGED <<setting, marker, waitKey, file, now>>

At(p) == status = "boot" /\ pc = p

\* The process goes on with the function p.
Goto(p) ==
    /\ pc' = p
    /\ UNCHANGED <<status, nboot, didPut, nreset>>

\* fatal: every function has calls that may fail.
Fatal ==
    /\ status = "boot"
    /\ status' = "exited"
    /\ fds' = NoFds
    /\ child' = NoChild
    /\ UNCHANGED <<pc, nboot, didPut, nreset, mux, host, memory>>

\* A call of the metadata client loses its connection and makes a new one.
Calls == {"setupInterfaces", "linkLocalRoutes", "setupGateways",
          "staticRoutes", "killIpmgmtd", "mountNfsVolumes",
          "getUserGroupData", "buildCmdEnv", "buildCmdline", "getTtyStatus",
          "getStdinStatus", "setupLogging", "waitIfAttaching"}
Reconnect ==
    /\ status = "boot"
    /\ pc \in Calls
    /\ \E n \in Fd : fds[n] = "sock"
    /\ nreset < MaxReset
    /\ nreset' = nreset + 1
    /\ fds' = Reset(fds)
    /\ UNCHANGED <<pc, status, nboot, didPut, host, memory, logger>>

\* 0, 1 and 2 on /dev/null, and the log, which is opened CLOEXEC.
OpenLog ==
    /\ At("main")
    /\ fds' = Open(Open(Open(Open(fds, "null"), "null"), "null"), "log")
    /\ Goto("getBrand")
    /\ UNCHANGED <<host, memory, logger>>

\* The brand decides what is mounted.
getBrand ==
    /\ At("getBrand")
    /\ setting.brand \in {"lx", "joyent-minimal"}
    /\ fds' = Connect(fds)
    /\ Goto("runIpmgmtd")
    /\ UNCHANGED <<host, memory, logger>>

\* ipmgmtd is started; once it is a daemon nothing is left of it here.
runIpmgmtd ==
    /\ At("runIpmgmtd")
    /\ Goto("openIpadmHandle")
    /\ UNCHANGED <<fds, host, memory, logger>>

\* The handle of ipadm is opened and lo0 brought up.
OpenIpadmHandle ==
    /\ At("openIpadmHandle")
    /\ fds' = Open(fds, "ipadm")
    /\ net' = [net EXCEPT !.up = {"lo0"}]
    /\ Goto("setupInterfaces")
    /\ UNCHANGED <<host, user, env, cmdline, next, ids, logger>>

SetupInterfaces ==
    /\ At("setupInterfaces")
    /\ net' = setupInterfaces(net)
    /\ Goto("linkLocalRoutes")
    /\ UNCHANGED <<fds, host, user, env, cmdline, next, ids, logger>>

\* A loop over a list of metadata: new is the network with the element that is
\* handled; after the last the process goes on with function p.
ForEach(list, new, p) ==
    /\ IF next <= Len(list)
       THEN net' = new /\ next' = next + 1 /\ Goto(pc)
       ELSE net' = net /\ next' = 1 /\ Goto(p)
    /\ UNCHANGED <<host, user, env, cmdline, ids, logger>>

\* setupStaticRoutes(B_TRUE).
LinkLocalRoutes ==
    /\ At("linkLocalRoutes")
    /\ ForEach(setting.routes, setupStaticRoute(net, setting.routes[next], TRUE),
               "setupGateways")
    /\ UNCHANGED fds

setupGateways ==
    /\ At("setupGateways")
    /\ ForEach(setting.nics, setupGateway(net, setting.nics[next]), "staticRoutes")
    /\ UNCHANGED fds

\* setupStaticRoutes(B_FALSE), after which the handle is closed.
StaticRoutes ==
    /\ At("staticRoutes")
    /\ ForEach(setting.routes, setupStaticRoute(net, setting.routes[next], FALSE),
               "killIpmgmtd")
    /\ fds' = IF next <= Len(setting.routes) THEN fds
              ELSE CloseAll(fds, {"ipadm"})

setupNetworking ==
    \/ OpenIpadmHandle
    \/ SetupInterfaces
    \/ LinkLocalRoutes
    \/ setupGateways
    \/ StaticRoutes

\* The door is closed again unless door_info fails.
killIpmgmtd ==
    /\ At("killIpmgmtd")
    /\ \/ UNCHANGED fds
       \/ setting.noipmgmtd /\ fds' = Open(fds, "door")
    /\ Goto("mountNfsVolumes")
    /\ UNCHANGED <<host, memory, logger>>

\* The volumes are mounted, the host name is set: nothing the rest depends on.
mountNfsVolumes ==
    /\ At("mountNfsVolumes")
    /\ Goto("getUserGroupData")
    /\ UNCHANGED <<fds, host, memory, logger>>

\* The first call of dockerexec to the agent is in here.
SetUser ==
    /\ At("getUserGroupData")
    /\ GoodUser(setting.user)
    /\ fds' = IF \E n \in Fd : fds[n] = "sock" THEN fds ELSE Connect(fds)
    /\ user' = getUserGroupData(setting.user)
    /\ Goto("buildCmdEnv")
    /\ UNCHANGED <<host, net, env, cmdline, next, ids, logger>>

Home == IF user.pwd = NULL THEN "/" ELSE user.pwd.home

\* The entries go into the list one by one, then the process goes on with
\* function p.
Fill(entries, p) ==
    IF next < Len(entries) THEN next' = next + 1 /\ Goto(pc)
    ELSE next' = 1 /\ Goto(p)

\* setupWorkdir has changed to the working directory before.
buildCmdEnv ==
    /\ At("buildCmdEnv")
    /\ env' = cbEachEnvEntry(env, EnvEntries(Home)[next])
    /\ Fill(EnvEntries(Home), IF InitProcess THEN "buildCmdline" ELSE "cleanup")
    /\ UNCHANGED <<fds, host, net, user, cmdline, ids, logger>>

\* Without a single word there is no command.
buildCmdline ==
    /\ At("buildCmdline")
    /\ CmdEntries # <<>>
    /\ cmdline' = strlist_set_tail(cmdline, CmdEntries[next])
    /\ Fill(CmdEntries, "getTtyStatus")
    /\ UNCHANGED <<fds, host, net, user, env, ids, logger>>

\* getTtyStatus, and zfd_ready, which waits until devfs shows the devices.
getTtyStatus ==
    /\ At("getTtyStatus")
    /\ zfd
    /\ Goto("getStdinStatus")
    /\ UNCHANGED <<fds, host, memory, logger>>

getStdinStatus ==
    /\ At("getStdinStatus")
    /\ Goto("setupTerminal")
    /\ UNCHANGED <<fds, host, memory, logger>>

\* assertFd: a stream that does not get its number aborts.
setupTerminal ==
    /\ At("setupTerminal")
    /\ LET out == IF setting.tty THEN <<"zfd0", "zfd0">> ELSE <<"zfd1", "zfd2">>
           t0 == IF setting.stdin THEN Open(Close(fds, {0}), "zfd0") ELSE fds
           t == Open(Open(Close(t0, {1, 2}), out[1]), out[2])
           ok == /\ setting.stdin => t0[0] = "zfd0"
                 /\ t[1] = out[1] /\ t[2] = out[2]
       IN IF ok
          THEN fds' = t /\ Goto("setupLogging")
          ELSE /\ status' = "aborted" /\ fds' = NoFds
               /\ UNCHANGED <<pc, nboot, didPut, nreset>>
    /\ UNCHANGED <<host, memory, logger>>

\* A driver of docker's own needs no process; any other gets a child, which
\* starts with a copy of the descriptors.
setupLogging ==
    /\ At("setupLogging")
    /\ child' = IF setting.logdriver \in {"json-file", "none"} THEN child
                ELSE [pc |-> "streams", fds |-> fds]
    /\ Goto("waitIfAttaching")
    /\ UNCHANGED <<fds, host, memory, mux>>

\* Mutant: the marker stays when the wait is over.
waitIfAttaching_KeepMarker ==
    /\ At("waitIfAttaching")
    /\ UNCHANGED <<setting, file, zfd, now, waitKey, nboot, nreset, memory, mux>>
    /\ \/ waitKey = 0 /\ pc' = "cleanup" /\ UNCHANGED <<marker, didPut, status, fds, child>>
       \/ /\ waitKey > 0
          /\ marker' = TRUE /\ didPut' = TRUE
          /\ UNCHANGED <<pc, status, fds, child>>

\* Mutant: the deadline is not looked at.
waitIfAttaching_NoDeadline ==
    /\ At("waitIfAttaching")
    /\ UNCHANGED <<setting, file, zfd, now, waitKey, nboot, nreset, memory, mux>>
    /\ \/ waitKey = 0 /\ pc' = "cleanup" /\ marker' = (marker /\ ~didPut)
          /\ UNCHANGED <<didPut, status, fds, child>>
       \/ /\ waitKey > 0
          /\ marker' = TRUE /\ didPut' = TRUE
          /\ UNCHANGED <<pc, status, fds, child>>

\* Mutant: one look at the key is enough.
waitIfAttaching_Once ==
    /\ At("waitIfAttaching")
    /\ pc' = "cleanup"
    /\ UNCHANGED <<status, nboot, didPut, nreset, fds, host, memory, logger>>

\* The key is polled: gone, the marker of this boot is deleted; there, the
\* marker is put once and the deadline is checked.  What the agent answers to
\* the PUT and the DELETE is not looked at.
waitIfAttaching ==
    /\ At("waitIfAttaching")
    /\ UNCHANGED <<setting, file, zfd, now, waitKey, nboot, nreset, memory, mux>>
    /\ \/ /\ waitKey = 0
          /\ marker' = (marker /\ (didPut => setting.refuse))
          /\ pc' = "cleanup"
          /\ UNCHANGED <<didPut, status, fds, child>>
       \/ /\ waitKey > 0
          /\ marker' = (marker \/ ~didPut)
          /\ didPut' = TRUE
          /\ IF waitKey < now
             THEN status' = "exited" /\ fds' = NoFds /\ child' = NoChild
             ELSE UNCHANGED <<status, fds, child>>
          /\ UNCHANGED pc

\* Mutant: the socket is forgotten.
cleanup_KeepSocket ==
    /\ At("cleanup")
    /\ fds' = Close(fds, {4, 5})
    /\ Goto(IF InitProcess THEN "rename" ELSE "execCmdline")
    /\ UNCHANGED <<host, memory, logger>>

\* The descriptors of the metadata client, by number.
cleanup ==
    /\ At("cleanup")
    /\ fds' = Close(fds, {4, 5, 6})
    /\ Goto(IF InitProcess THEN "rename" ELSE "execCmdline")
    /\ UNCHANGED <<host, memory, logger>>

\* rename of /var/svc/provisioning; a later boot finds it done.
rename ==
    /\ At("rename")
    /\ file' = "provision_success"
    /\ Goto("execCmdline")
    /\ UNCHANGED <<fds, setting, marker, waitKey, zfd, now, memory, logger>>

\* setgid, initgroups and setuid, in the order in which root may call them;
\* then execve, which closes the log.
execCmdline ==
    /\ At("execCmdline")
    /\ ids' = [uid |-> IF user.pwd = NULL THEN 0 ELSE user.pwd.uid,
               gid |-> IF user.grp = NULL THEN 0 ELSE user.grp,
               groups |-> IF user.pwd = NULL \/ user.grp = NULL THEN 0
                          ELSE user.grp]
    /\ fds' = CloseAll(fds, {"log"})
    /\ status' = "running"
    /\ UNCHANGED <<pc, nboot, didPut, nreset, host, net, user, env, cmdline,
                   next, logger>>

-----------------------------------------------------------------------------
(* The child that becomes the logger.                                      *)

\* The log is copied to 0 (dup2: the copy is not CLOEXEC), the rest is closed;
\* then 1 and 2 are the null device and 3 and 4 the streams to read.
LoggerFds(t, tty) ==
    LET t2 == Open(Open(Close([t EXCEPT ![0] = "logcopy"], 1..9), "null"), "null")
    IN IF tty THEN Open(Open(t2, "zfd1"), "null")
       ELSE Open(Open(t2, "zfd3"), "zfd4")

LoggerStreams ==
    /\ child.pc = "streams"
    /\ child' = [pc |-> "exec", fds |-> LoggerFds(child.fds, setting.tty)]
    /\ mux' = mux \cup (IF setting.tty THEN {<<0, 1>>} ELSE {<<1, 3>>, <<2, 4>>})
    /\ UNCHANGED <<pc, status, nboot, fds, didPut, nreset, host, memory>>

LoggerExec ==
    /\ child.pc = "exec"
    /\ child' = [child EXCEPT !.pc = "running"]
    /\ UNCHANGED <<pc, status, nboot, fds, didPut, nreset, host, memory, mux>>

\* The logger cannot be executed: it takes init with it.
LoggerKillsInit ==
    /\ child.pc = "exec"
    /\ child' = NoChild
    /\ status' = "killed"
    /\ fds' = NoFds
    /\ UNCHANGED <<pc, nboot, didPut, nreset, host, memory, mux>>

\* The logger ends, by a failure before it is executed or by itself later.
LoggerDies ==
    /\ child.pc \in {"streams", "running"}
    /\ child' = NoChild
    /\ UNCHANGED <<pc, status, nboot, fds, didPut, nreset, host, memory, mux>>

\* The same, and init is killed.  Which of the two happens is a matter of the
\* contract that both processes are in, which is made outside: setupLogging
\* says that init is killed, while the contracts that dockerinit makes itself
\* (init_template) end for a hardware error only.
ContractKillsInit ==
    /\ child.pc \in {"streams", "running"}
    /\ child' = NoChild
    /\ status' = "killed"
    /\ fds' = NoFds
    /\ UNCHANGED <<pc, nboot, didPut, nreset, host, memory, mux>>

-----------------------------------------------------------------------------
(* The host.                                                               *)

process == <<pc, status, nboot, fds, didPut, nreset, memory, logger>>

\* An attach has succeeded: the key is removed.
Attach ==
    /\ waitKey > 0
    /\ waitKey' = 0
    /\ UNCHANGED <<setting, marker, file, zfd, now, process>>

\* devfs is asynchronous: the devices may be late.
ZfdAppears ==
    /\ At("getTtyStatus") /\ ~zfd
    /\ zfd' = TRUE
    /\ UNCHANGED <<setting, marker, waitKey, file, now, process>>

\* Only a wait looks at the clock.
Tick ==
    /\ waitKey > 0
    /\ now < MaxTime
    /\ now' = now + 1
    /\ UNCHANGED <<setting, marker, waitKey, file, zfd, process>>

Step ==
    \/ OpenLog
    \/ getBrand
    \/ runIpmgmtd
    \/ setupNetworking
    \/ killIpmgmtd
    \/ mountNfsVolumes
    \/ SetUser
    \/ buildCmdEnv
    \/ buildCmdline
    \/ getTtyStatus
    \/ getStdinStatus
    \/ setupTerminal
    \/ setupLogging
    \/ waitIfAttaching
    \/ cleanup
    \/ rename
    \/ execCmdline

Next ==
    \/ Boot
    \/ Step
    \/ Fatal
    \/ Reconnect
    \/ LoggerStreams
    \/ LoggerExec
    \/ LoggerKillsInit
    \/ LoggerDies
    \/ ContractKillsInit
    \/ Attach
    \/ ZfdAppears
    \/ Tick

Spec == Init /\ [][Next]_vars

\* What metadata makes impossible ends in fatal, as the code does at once.
Refused ==
    \/ pc = "getBrand" /\ setting.brand \notin {"lx", "joyent-minimal"}
    \/ pc = "getUserGroupData" /\ ~GoodUser(setting.user)
    \/ pc = "buildCmdline" /\ CmdEntries = <<>>

\* The process is scheduled, devfs creates the devices, time passes.  Nobody
\* has to attach, and no failure has to happen.
FairSpec ==
    /\ Spec
    /\ WF_vars(Step \/ (Refused /\ Fatal))
    /\ WF_vars(ZfdAppears)
    /\ WF_vars(Tick)

-----------------------------------------------------------------------------
(* Properties.                                                             *)

What == {Closed, "null", "log", "logcopy", "urandom", "port", "sock", "ipadm",
         "door", "caller", "zfd0", "zfd1", "zfd2", "zfd3", "zfd4"}

\* The type invariant of the process, the logger's child and what outlives them.
TypeOK ==
    /\ status \in {"off", "boot", "running", "exited", "aborted", "killed"}
    /\ nboot \in 0..MaxBoot
    /\ fds \in [Fd -> What]
    /\ child.fds \in [Fd -> What]
    /\ marker \in BOOLEAN /\ didPut \in BOOLEAN /\ zfd \in BOOLEAN
    /\ waitKey \in 0..MaxTime /\ now \in 1..MaxTime

OpenFds == {n \in Fd : fds[n] # Closed}

\* The command gets its three streams on 0, 1 and 2, however often the
\* connection of the metadata client was made anew: cleanup closes by number.
\* From dockerinit it gets nothing else, but for the door of ipmgmtd if
\* door_info has failed.  From dockerexec it always has a descriptor 3: that of
\* the caller, if there was one, else the first thing the client has opened,
\* which cleanup misses, against what its comments say (see AsCommented).
CommandDescriptors ==
    status = "running" =>
        IF InitProcess
        THEN /\ fds[0] = IF setting.stdin THEN "zfd0" ELSE "null"
             /\ fds[1] = IF setting.tty THEN "zfd0" ELSE "zfd1"
             /\ fds[2] = IF setting.tty THEN "zfd0" ELSE "zfd2"
             /\ \A n \in OpenFds \ (0..2) : fds[n] = "door"
        ELSE /\ \A n \in 0..2 : fds[n] = "caller"
             /\ fds[3] = CASE setting.inherit = 3 -> "caller"
                            [] setting.inherit = 2 /\ setting.urandom -> "urandom"
                            [] setting.inherit = 2 /\ ~setting.urandom -> "port"
             /\ OpenFds = 0..3

\* A gateway on a network of the zone or of one of its link-local routes.
Near(gw) ==
    \/ \E i \in Range(setting.nics) : i.net = gw
    \/ \E l \in Range(setting.routes) : l.linklocal /\ l.dst = gw

\* When the command of the zone runs, every route of sdc:routes is there that
\* is link-local or whose gateway is near, wherever in the list the route that
\* makes it so stands, and so is the default route if the gateway of the
\* primary NIC is near.
RoutesComplete ==
    status = "running" /\ InitProcess =>
        /\ \A r \in Range(setting.routes) :
              r.linklocal \/ Near(r.gw) => \E s \in net.routes : s.dst = r.dst
        /\ \A i \in Range(setting.nics) :
              i.primary /\ i.gw # NULL /\ Near(i.gw)
                  => \E s \in net.routes : s.dst = "default"

\* assertFd never fires: no call opens something between the close of a stream
\* and its new open, and nothing lower is free.
NoUnexpectedFd == status # "aborted"

\* The logger reads the log side of the streams that init writes to, on the
\* descriptors it expects, and these are linked by then.  It also keeps the log
\* of dockerinit on 0, against the comment there (see AsCommented).
LoggerReads ==
    child.pc = "running" =>
        /\ child.fds[0] = "logcopy"
        /\ child.fds[1] = "null" /\ child.fds[2] = "null"
        /\ IF setting.tty
           THEN child.fds[3] = "zfd1" /\ <<0, 1>> \in mux
           ELSE /\ child.fds[3] = "zfd3" /\ <<1, 3>> \in mux
                /\ child.fds[4] = "zfd4" /\ <<2, 4>> \in mux

\* The numbers that dockerinit counts on are right in all its processes: where
\* it opens the streams, in the logger it forks and in the command it becomes.
DescriptorsAsCounted == CommandDescriptors /\ NoUnexpectedFd /\ LoggerReads

\* The environment has every name once, without a hole, with its last value in
\* docker:env, else in docker:linkEnv, else the default, and ends in a NULL.
EnvAsDocumented ==
    status = "running" =>
        LET all == EnvEntries(Home)
            names == {e.name : e \in Range(all)} \ {EmptyText}
            last(name) == all[Max({i \in DOMAIN all : all[i].name = name})]
        IN /\ {strlist_get(env, i) : i \in 0..(Cardinality(names) - 1)}
                 = {last(name) : name \in names}
           /\ strlist_contig_count(env) = Cardinality(names)
           /\ Terminated(env) /\ Terminated(cmdline)

\* The command runs as the user of docker:user, and in the group that is given,
\* else in that of the user's entry, if the group file has a line for it.  It
\* stays in root's group if that has none, although getUserGroupData says that
\* pw_gid is used (see AsCommented), and stays root if docker:user is a number
\* without an entry.
RunsAsUser ==
    LET pwd == FindUser(setting.user.user)
        given == IF setting.user.group = NULL THEN NULL
                 ELSE FindGroup(setting.user.group)
    IN status = "running" =>
           /\ ids.uid = IF pwd # NULL THEN pwd.uid ELSE 0
           /\ ids.gid = CASE given # NULL -> given
                          [] given = NULL /\ pwd # NULL /\ getgrgid(pwd.gid) # NULL
                                 -> pwd.gid
                          [] OTHER -> 0

\* What reaches execve is what the container's metadata and image say: the
\* environment merged from three sources, and the identity from docker:user
\* and the passwd and group files of the image.
CommandAsConfigured == EnvAsDocumented /\ RunsAsUser

\* The marker that init waits for an attach is gone when the command runs, in
\* every boot that has put it and in the first one.  (A boot that dies in the
\* wait leaves it behind, and it stays if the next one need not wait.)
MarkerGone ==
    status = "running" /\ (didPut \/ nboot = 1) /\ ~setting.refuse => ~marker

\* vmadm is told that the zone is provisioned only when the command is known,
\* its streams are in place, the metadata client is gone and nobody is waited
\* for any more.
ProvisionedWhenReady ==
    [][file' # file =>
          /\ waitKey = 0
          /\ strlist_contig_count(cmdline) > 0
          /\ fds[1] # "null" /\ fds[2] # "null"
          /\ \A n \in Fd : fds[n] \notin {"urandom", "port", "sock"}]_vars

\* Every boot ends: the command runs, or the process has given up.  The wait
\* for an attach has a deadline.
EveryBootEnds == (status = "boot") ~> (status # "boot")

\* What three comments say.  Of cleanup in dockerexec, that 4, 5 and 6 are all
\* that the metadata client has open; of the logger, that its copy of the log
\* closes when it is executed; of getUserGroupData, that the group of the
\* user's entry is used when none is given.
AsCommented ==
    /\ status = "running" => \A n \in Fd : fds[n] \notin {"urandom", "port", "sock"}
    /\ child.pc = "running" => child.fds[0] = Closed
    /\ status = "running" /\ setting.user.group = NULL =>
           LET pwd == FindUser(setting.user.user)
           IN pwd # NULL => ids.gid = pwd.gid

=============================================================================
