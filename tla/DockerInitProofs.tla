-------------------------- MODULE DockerInitProofs --------------------------
(***************************************************************************)
(* dockerinit and dockerexec for every metadata, image, number of boots and *)
(* of lost connections.                                                     *)
(*                                                                          *)
(* First the string list for every capacity and every string.  Then the     *)
(* invariant of the process, one part for each thing that it prepares: the  *)
(* descriptor table, the logger, the wait for an attach, the network, the   *)
(* user, the environment and the command line.  Each part says, for every   *)
(* function that main is at, what is done by then; in a loop it says it of  *)
(* the elements handled so far.                                             *)
(***************************************************************************)
EXTENDS DockerInit, FiniteSetTheorems, TLAPS

-----------------------------------------------------------------------------
(* The string list.                                                         *)

\* A new list holds nothing and is terminated.
LEMMA AllocTerminated ==
    ASSUME NEW c \in Nat
    PROVE  /\ Terminated(strlist_alloc(c))
           /\ Contiguous(strlist_alloc(c), 0)
  BY DEF strlist_alloc, Terminated, Contiguous, strlist_get

\* strlist_grow_by changes no element: what is new reads as NULL, as it did
\* when it was beyond the end.
LEMMA GrowKeepsElements ==
    ASSUME NEW sl, Terminated(sl), NEW n \in Nat
    PROVE  /\ Terminated(strlist_grow_by(sl, n))
           /\ strlist_grow_by(sl, n).capacity = sl.capacity + n
           /\ \A i \in Nat :
                 strlist_get(strlist_grow_by(sl, n), i) = strlist_get(sl, i)
  BY DEF strlist_grow_by, Terminated, strlist_get

\* An element within the capacity is replaced.
LEMMA ReplaceElement ==
    ASSUME NEW sl, Terminated(sl), NEW i \in Nat, i < sl.capacity, NEW str
    PROVE  LET new == [sl EXCEPT !.strings[i] = str]
           IN /\ Terminated(new)
              /\ new.capacity = sl.capacity
              /\ strlist_get(new, i) = str
              /\ \A j \in Nat \ {i} : strlist_get(new, j) = strlist_get(sl, j)
<1> DEFINE c == sl.capacity
           f == sl.strings
           g == [k \in 0..c |-> IF k = i THEN str ELSE f[k]]
           new == [capacity |-> c, strings |-> g]
<1>1. /\ c \in Nat /\ i \in 0..c /\ i # c
      /\ sl = [capacity |-> c, strings |-> f]
      /\ f = [k \in 0..c |-> f[k]]
      /\ f[c] = NULL
  BY DEF Terminated
<1>2. [f EXCEPT ![i] = str] = g
  BY <1>1
<1>3. [sl EXCEPT !.strings[i] = str] = new
  <2> HIDE DEF c, f, g
  <2>1. [sl EXCEPT !.strings[i] = str]
            = [sl EXCEPT !.strings = [sl.strings EXCEPT ![i] = str]]
    OBVIOUS
  <2>2. sl.strings = f
    BY DEF f
  <2>3. [sl EXCEPT !.strings = g] = new
    BY <1>1
  <2> QED
    BY <1>2, <2>1, <2>2, <2>3
<1>4. new.capacity = c /\ new.strings = g
  OBVIOUS
<1>5. g[c] = NULL /\ g[i] = str /\ \A j \in (0..c) \ {i} : g[j] = f[j]
  BY <1>1
<1>6. g = [k \in 0..c |-> g[k]]
  OBVIOUS
<1> HIDE DEF g, new
<1>7. Terminated(new)
  BY <1>1, <1>4, <1>5, <1>6 DEF Terminated, new
<1>8. strlist_get(new, i) = str
  BY <1>1, <1>4, <1>5 DEF strlist_get
<1>9. \A j \in Nat \ {i} : strlist_get(new, j) = strlist_get(sl, j)
  BY <1>1, <1>4, <1>5 DEF strlist_get
<1> QED
  BY <1>3, <1>4, <1>7, <1>8, <1>9

\* strlist_set stores the string at its index, grows the list when the index is
\* beyond it, changes no other element and keeps the terminator.
THEOREM SetStores ==
    ASSUME NEW sl, Terminated(sl), NEW i \in Nat, NEW str
    PROVE  LET new == strlist_set(sl, i, str)
           IN /\ Terminated(new)
              /\ strlist_get(new, i) = str
              /\ \A j \in Nat \ {i} : strlist_get(new, j) = strlist_get(sl, j)
<1> DEFINE n == (i - sl.capacity + 1) + GROW_COUNT
           room == IF i < sl.capacity THEN sl ELSE strlist_grow_by(sl, n)
<1>1. sl.capacity \in Nat
  BY DEF Terminated
<1>2. /\ Terminated(room)
      /\ i < room.capacity
      /\ \A j \in Nat : strlist_get(room, j) = strlist_get(sl, j)
  <2>1. CASE i < sl.capacity
    BY <2>1
  <2>2. CASE ~(i < sl.capacity)
    <3>1. n \in Nat /\ sl.capacity + n > i
      BY <1>1, <2>2, GrowAssumption
    <3>2. room = strlist_grow_by(sl, n)
      BY <2>2
    <3>3. /\ Terminated(room)
          /\ room.capacity = sl.capacity + n
          /\ \A j \in Nat : strlist_get(room, j) = strlist_get(sl, j)
      BY <3>1, <3>2, GrowKeepsElements
    <3> QED
      BY <3>1, <3>3
  <2> QED
    BY <2>1, <2>2
<1>3. strlist_set(sl, i, str) = [room EXCEPT !.strings[i] = str]
  BY DEF strlist_set
<1> HIDE DEF room
<1>4. /\ Terminated([room EXCEPT !.strings[i] = str])
      /\ strlist_get([room EXCEPT !.strings[i] = str], i) = str
      /\ \A j \in Nat \ {i} :
            strlist_get([room EXCEPT !.strings[i] = str], j)
                = strlist_get(room, j)
  BY <1>2, ReplaceElement
<1> QED
  BY <1>2, <1>3, <1>4

\* In a list without holes the first empty element follows the last string.
LEMMA FirstEmptyFollows ==
    ASSUME NEW sl, Terminated(sl), NEW n \in Nat, Contiguous(sl, n)
    PROVE  n <= sl.capacity /\ strlist_first_empty(sl) = n
<1>1. sl.capacity \in Nat /\ strlist_get(sl, sl.capacity) = NULL
  BY DEF Terminated, strlist_get
<1>2. n <= sl.capacity
  BY <1>1 DEF Contiguous
<1>3. /\ n \in 0..sl.capacity
      /\ strlist_get(sl, n) = NULL
      /\ \A j \in 0..(n - 1) : strlist_get(sl, j) # NULL
  BY <1>1, <1>2 DEF Contiguous
<1>4. ASSUME NEW m \in 0..sl.capacity, strlist_get(sl, m) = NULL,
             \A j \in 0..(m - 1) : strlist_get(sl, j) # NULL
      PROVE  m = n
  <2>1. ~(m < n)
    BY <1>4 DEF Contiguous
  <2>2. ~(n < m)
    BY <1>3, <1>4
  <2> QED
    BY <1>1, <2>1, <2>2
<1> QED
  BY <1>2, <1>3, <1>4 DEF strlist_first_empty

\* strlist_set_tail appends: a list of n strings without holes becomes one of
\* n + 1 whose last is the new string, the others stay, and the array handed to
\* execve ends in a NULL.
THEOREM SetTailAppends ==
    ASSUME NEW sl, Terminated(sl), NEW n \in Nat, Contiguous(sl, n),
           NEW str, str # NULL
    PROVE  LET new == strlist_set_tail(sl, str)
           IN /\ Terminated(new)
              /\ Contiguous(new, n + 1)
              /\ strlist_get(new, n) = str
              /\ \A j \in 0..(n - 1) :
                    strlist_get(new, j) = strlist_get(sl, j)
<1> DEFINE room == IF n < sl.capacity THEN sl
                   ELSE strlist_grow_by(sl, GROW_COUNT)
           new == strlist_set(room, n, str)
<1>1. strlist_first_empty(sl) = n
  BY FirstEmptyFollows
<1>2. strlist_set_tail(sl, str) = new
  BY <1>1 DEF strlist_set_tail
<1>3. /\ Terminated(room)
      /\ \A j \in Nat : strlist_get(room, j) = strlist_get(sl, j)
  <2>1. /\ Terminated(strlist_grow_by(sl, GROW_COUNT))
        /\ \A j \in Nat : strlist_get(strlist_grow_by(sl, GROW_COUNT), j)
                              = strlist_get(sl, j)
    BY GrowAssumption, GrowKeepsElements
  <2> QED
    BY <2>1
<1> HIDE DEF room
<1>4. /\ Terminated(new)
      /\ strlist_get(new, n) = str
      /\ \A j \in Nat \ {n} : strlist_get(new, j) = strlist_get(room, j)
  BY <1>3, SetStores
<1> HIDE DEF new
<1>5. Contiguous(new, n + 1)
  <2> SUFFICES ASSUME NEW i \in Nat
               PROVE  (strlist_get(new, i) # NULL) <=> (i < n + 1)
    BY DEF Contiguous
  <2>1. CASE i = n
    BY <1>4, <2>1
  <2>2. CASE i # n
    <3>1. strlist_get(new, i) = strlist_get(sl, i)
      BY <1>3, <1>4, <2>2
    <3> QED
      BY <2>2, <3>1 DEF Contiguous
  <2> QED
    BY <2>1, <2>2
<1>6. \A j \in 0..(n - 1) : strlist_get(new, j) = strlist_get(sl, j)
  BY <1>3, <1>4
<1> QED
  BY <1>2, <1>4, <1>5, <1>6

-----------------------------------------------------------------------------
(* Where the process is.  A command that runs has pc = "execCmdline".       *)

Late == {"cleanup", "rename", "execCmdline"}
AfterTerminal == {"setupLogging", "waitIfAttaching"} \cup Late
AfterCmdline == {"getTtyStatus", "getStdinStatus", "setupTerminal"}
                \cup AfterTerminal
AfterEnv == {"buildCmdline"} \cup AfterCmdline
AfterUser == {"buildCmdEnv"} \cup AfterEnv
AfterStatic == {"killIpmgmtd", "mountNfsVolumes", "getUserGroupData"}
               \cup AfterUser
AfterGateways == {"staticRoutes"} \cup AfterStatic
AfterLinkLocal == {"setupGateways"} \cup AfterGateways
AfterInterfaces == {"linkLocalRoutes"} \cup AfterLinkLocal
InitPc == {"main", "getBrand", "runIpmgmtd", "openIpadmHandle",
           "setupInterfaces"}
          \cup AfterInterfaces
ExecPc == {"getUserGroupData", "buildCmdEnv", "cleanup", "execCmdline"}

Alive == status \in {"boot", "running"}

\* The type invariant, with the setting and the stages of the child.
TypeInv ==
    /\ TypeOK
    /\ setting \in Setting
    /\ child.pc \in {"none", "streams", "exec", "running"}

\* The program counter, and the index of the loops, which is 1 outside them.
PcInv ==
    /\ Alive => pc \in IF InitProcess THEN InitPc ELSE ExecPc
    /\ status = "running" => pc = "execCmdline"
    /\ next \in Nat \ {0}
    /\ Alive /\ pc \notin {"linkLocalRoutes", "setupGateways", "staticRoutes",
                           "buildCmdEnv", "buildCmdline"} => next = 1

-----------------------------------------------------------------------------
(* The descriptor table.  The client's descriptors have the lowest numbers  *)
(* that were free at the first call, so that a reconnection finds the same  *)
(* ones; at most one more is open behind them.                              *)

Base == IF InitProcess THEN 4 ELSE setting.inherit + 1
Port == IF setting.urandom THEN Base + 1 ELSE Base

Streams(t) ==
    /\ t[0] = IF setting.stdin THEN "zfd0" ELSE "null"
    /\ t[1] = IF setting.tty THEN "zfd0" ELSE "zfd1"
    /\ t[2] = IF setting.tty THEN "zfd0" ELSE "zfd2"

Behind(p) ==
    IF p \in {"setupInterfaces", "linkLocalRoutes", "setupGateways",
              "staticRoutes"} THEN {"ipadm"}
    ELSE IF p \in {"runIpmgmtd", "openIpadmHandle", "killIpmgmtd"} THEN {Closed}
    ELSE {Closed, "door"}

Client(t, p) ==
    /\ setting.urandom => t[Base] = "urandom"
    /\ t[Port] = "port" /\ t[Port + 1] = "sock"
    /\ t[Port + 2] \in Behind(p)
    /\ \A n \in Fd : n > Port + 2 => t[n] = Closed

InitTable(t, p) ==
    /\ p = "main" => t = NoFds
    /\ p # "main" =>
          /\ IF p \in AfterTerminal THEN Streams(t)
             ELSE t[0] = "null" /\ t[1] = "null" /\ t[2] = "null"
          /\ t[3] = "log"
    /\ p = "getBrand" => \A n \in 4..9 : t[n] = Closed
    /\ p \notin {"main", "getBrand", "rename", "execCmdline"} => Client(t, p)
    /\ p \in {"rename", "execCmdline"} =>
          \A n \in 4..9 : t[n] \in {Closed, "door"}

\* What dockerexec leaves on 3: the fourth descriptor of the caller or the
\* first one of the client.
ThirdOfExec ==
    CASE setting.inherit = 3 -> "caller"
      [] setting.inherit = 2 /\ setting.urandom -> "urandom"
      [] setting.inherit = 2 /\ ~setting.urandom -> "port"

ExecTable(t, p) ==
    /\ \A n \in 0..setting.inherit : t[n] = "caller"
    /\ p = "getUserGroupData" =>
          \A n \in Fd : n > setting.inherit => t[n] = Closed
    /\ p \in {"buildCmdEnv", "cleanup"} =>
          Client(t, p) /\ t[Port + 2] = Closed
    /\ p = "execCmdline" =>
          /\ t[3] = ThirdOfExec
          /\ \A n \in Fd : n > 3 => t[n] = Closed

BootTable(t, p) == IF InitProcess THEN InitTable(t, p) ELSE ExecTable(t, p)

\* Where the client is connected.
Connected(p) ==
    IF InitProcess THEN p \notin {"main", "getBrand", "rename", "execCmdline"}
    ELSE p \in {"buildCmdEnv", "cleanup"}

TableInv ==
    /\ status = "boot" => BootTable(fds, pc)
    /\ CommandDescriptors
    /\ NoUnexpectedFd

\* The logger has its descriptors and the streams are linked before it runs.
LoggerInv ==
    child.pc \in {"exec", "running"} =>
        /\ child.fds[0] = "logcopy"
        /\ child.fds[1] = "null" /\ child.fds[2] = "null"
        /\ setting.tty => child.fds[3] = "zfd1" /\ <<0, 1>> \in mux
        /\ ~setting.tty => /\ child.fds[3] = "zfd3" /\ <<1, 3>> \in mux
                           /\ child.fds[4] = "zfd4" /\ <<2, 4>> \in mux

-----------------------------------------------------------------------------
(* The wait for an attach.                                                  *)

\* Once the wait is over the key is gone for good; the marker that a boot has
\* put, or that is there in the first one, is there only during the wait.
WaitInv ==
    /\ Alive /\ InitProcess /\ pc \in Late => waitKey = 0
    /\ nboot = 0 => status = "off" /\ ~marker /\ child.pc = "none"
    /\ (nboot <= 1 \/ didPut) /\ ~setting.refuse /\ marker =>
          /\ didPut
          /\ status # "running"
          /\ status = "boot" => pc = "waitIfAttaching"

-----------------------------------------------------------------------------
(* The network: what the first k elements of a list have added.             *)

LinkRoutes(k) ==
    \A j \in DOMAIN setting.routes :
        j <= k /\ setting.routes[j].linklocal =>
            \E s \in net.routes : s.link /\ s.dst = setting.routes[j].dst

Gateways(k) ==
    \A j \in DOMAIN setting.nics :
        /\ j <= k /\ setting.nics[j].primary
        /\ setting.nics[j].gw # NULL /\ Near(setting.nics[j].gw)
        => \E s \in net.routes : s.dst = "default"

Far(r) == ~r.linklocal /\ ~Near(r.gw)

Statics(k) ==
    \A j \in DOMAIN setting.routes :
        j <= k => \/ \E s \in net.routes : s.dst = setting.routes[j].dst
                  \/ Far(setting.routes[j])

NetOK(p) ==
    /\ net = [up |-> net.up, routes |-> net.routes]
    /\ p \in AfterInterfaces =>
          net.up = {"lo0"} \cup {i.net : i \in Range(setting.nics)}
    /\ p = "linkLocalRoutes" => LinkRoutes(next - 1)
    /\ p \in AfterLinkLocal => LinkRoutes(Len(setting.routes))
    /\ p = "setupGateways" => Gateways(next - 1)
    /\ p \in AfterGateways => Gateways(Len(setting.nics))
    /\ p = "staticRoutes" => Statics(next - 1)
    /\ p \in AfterStatic => Statics(Len(setting.routes))

NetInv == Alive /\ InitProcess => NetOK(pc)

-----------------------------------------------------------------------------
(* The user, the environment and the command line.                          *)

UserType == [pwd : {NULL} \cup [uid : Nat, gid : Nat, home : STRING],
             grp : {NULL} \cup Nat]

UserInv ==
    /\ user \in UserType
    /\ Alive /\ pc \in AfterUser => user = getUserGroupData(setting.user)
    /\ RunsAsUser

\* Entry m is the last of its name among the first k.
IsLast(all, k, m) ==
    /\ m \in 1..k
    /\ all[m].name # EmptyText
    /\ \A j \in (m + 1)..k : all[j].name # all[m].name

\* The n strings of the list are the last entries of their names among the
\* first k, each name once.
Merged(sl, n, all, k) ==
    /\ Terminated(sl)
    /\ Contiguous(sl, n)
    /\ \A i \in 0..(n - 1) : \E m \in 1..k : IsLast(all, k, m)
                                             /\ strlist_get(sl, i) = all[m]
    /\ \A m \in 1..k : all[m].name # EmptyText =>
          \E i \in 0..(n - 1) : strlist_get(sl, i).name = all[m].name
    /\ \A i, j \in 0..(n - 1) :
          strlist_get(sl, i).name = strlist_get(sl, j).name => i = j

EnvInv ==
    Alive =>
        /\ pc \notin AfterUser => env = strlist_alloc(0)
        /\ pc = "buildCmdEnv" =>
              /\ next <= Len(EnvEntries(Home))
              /\ \E n \in Nat : Merged(env, n, EnvEntries(Home), next - 1)
        /\ pc \in AfterEnv =>
              \E n \in Nat : Merged(env, n, EnvEntries(Home),
                                    Len(EnvEntries(Home)))

CmdInv ==
    Alive =>
        /\ pc \notin AfterEnv => cmdline = strlist_alloc(0)
        /\ pc = "buildCmdline" =>
              /\ CmdEntries # <<>> => next <= Len(CmdEntries)
              /\ Contiguous(cmdline, next - 1)
        /\ Terminated(cmdline)
        /\ InitProcess /\ pc \in AfterCmdline =>
              \E n \in Nat \ {0} : Contiguous(cmdline, n)

-----------------------------------------------------------------------------
(* Lemmas about the descriptor table.                                       *)

Table == [Fd -> What]

\* The lowest free number is the one open(2) takes.
LEMMA OpenLowest ==
    ASSUME NEW t \in Table, NEW k \in Fd, t[k] = Closed,
           \A m \in 0..(k - 1) : t[m] # Closed, NEW w \in What
    PROVE  /\ Open(t, w) \in Table
           /\ Open(t, w) = [t EXCEPT ![k] = w]
<1>1. LowestFree(t) = k
  <2>1. ASSUME NEW n \in Fd, t[n] = Closed, \A m \in 0..(n - 1) : t[m] # Closed
        PROVE  n = k
    BY <2>1 DEF Fd
  <2> QED
    BY <2>1 DEF LowestFree, Fd
<1> QED
  BY <1>1 DEF Open, Table

LEMMA CloseTable ==
    ASSUME NEW t \in Table, NEW S
    PROVE  /\ Close(t, S) \in Table
           /\ CloseAll(t, S) \in Table
           /\ \A n \in Fd : Close(t, S)[n] = IF n \in S THEN Closed ELSE t[n]
           /\ \A n \in Fd : CloseAll(t, S)[n] = IF t[n] \in S THEN Closed ELSE t[n]
  BY DEF Close, CloseAll, Table, What

\* Everything below k is in use: then open(2) returns k, if that is free.
Full(t, k) == \A n \in Fd : n < k => t[n] # Closed

LEMMA OpenNext ==
    ASSUME NEW t \in Table, NEW k \in Fd, Full(t, k), t[k] = Closed,
           NEW w \in What, w # Closed
    PROVE  /\ Open(t, w) \in Table
           /\ Open(t, w)[k] = w
           /\ \A n \in Fd \ {k} : Open(t, w)[n] = t[n]
           /\ Full(Open(t, w), k + 1)
<1>1. \A m \in 0..(k - 1) : t[m] # Closed
  BY DEF Full, Fd
<1>2. Open(t, w) \in Table /\ Open(t, w) = [t EXCEPT ![k] = w]
  BY <1>1, OpenLowest
<1>3. Open(t, w)[k] = w /\ \A n \in Fd \ {k} : Open(t, w)[n] = t[n]
  BY <1>2 DEF Table
<1> QED
  BY <1>2, <1>3 DEF Full, Fd

\* A reconnection gives the event port and the socket the numbers they had, if
\* these are the lowest behind what is open.
LEMMA ResetSame ==
    ASSUME NEW t \in Table, NEW p \in Fd, p + 1 \in Fd,
           t[p] = "port", t[p + 1] = "sock",
           \A n \in Fd \ {p, p + 1} : t[n] \notin {"port", "sock"},
           \A n \in 0..(p - 1) : t[n] # Closed
    PROVE  Reset(t) = t
<1> DEFINE t0 == CloseAll(t, {"port", "sock"})
           t1 == Open(t0, "port")
           t2 == Open(t1, "sock")
<1>1. /\ t0 \in Table
      /\ t0[p] = Closed /\ t0[p + 1] = Closed
      /\ \A n \in Fd \ {p, p + 1} : t0[n] = t[n]
  BY CloseTable
<1> HIDE DEF t0
<1>2. \A m \in 0..(p - 1) : t0[m] # Closed
  BY <1>1 DEF Fd
<1>3. t1 \in Table /\ t1 = [t0 EXCEPT ![p] = "port"]
  BY <1>1, <1>2, OpenLowest DEF What
<1> HIDE DEF t1
<1>4. t1[p + 1] = Closed /\ \A m \in 0..((p + 1) - 1) : t1[m] # Closed
  BY <1>1, <1>2, <1>3 DEF Table, Fd, Closed
<1>5. t2 \in Table /\ t2 = [t1 EXCEPT ![p + 1] = "sock"]
  BY <1>3, <1>4, OpenLowest DEF What
<1> HIDE DEF t2
<1>6. \A n \in Fd : t2[n] = t[n]
  BY <1>1, <1>3, <1>5 DEF Table, Fd
<1>7. t2 = t
  BY <1>5, <1>6 DEF Table
<1> QED
  BY <1>7 DEF Reset, t0, t1, t2

\* Whatever is opened, the table stays a table.
LEMMA OpenTable ==
    ASSUME NEW t \in Table, NEW w \in What
    PROVE  Open(t, w) \in Table
  BY DEF Open, Table

-----------------------------------------------------------------------------
(* What metadata can say.                                                   *)

LEMMA SettingType ==
    ASSUME setting \in Setting
    PROVE  /\ setting.prog \in {"dockerinit", "dockerexec"}
           /\ setting.inherit \in {2, 3}
           /\ setting.urandom \in BOOLEAN
           /\ setting.tty \in BOOLEAN
           /\ setting.stdin \in BOOLEAN
           /\ setting.refuse \in BOOLEAN
           /\ setting.wait \in 0..MaxTime
           /\ setting.hostname \in BOOLEAN
           /\ setting.user \in [user : STRING, group : STRING \cup {NULL}]
           /\ setting.linkEnv \in Seq(EnvEntry)
           /\ setting.env \in Seq(EnvEntry)
           /\ setting.entrypoint \in Seq(STRING)
           /\ setting.cmd \in Seq(STRING)
           /\ setting.nics \in Seq(Nic)
           /\ setting.routes \in Seq(StaticRoute)
  BY SettingAssumption

-----------------------------------------------------------------------------
(* The type invariant and the program counter.                              *)

LEMMA ConnectTable ==
    ASSUME NEW t \in Table
    PROVE  Connect(t) \in Table /\ Reset(t) \in Table
<1>1. "urandom" \in What /\ "port" \in What /\ "sock" \in What
  BY DEF What
<1>2. (IF setting.urandom THEN Open(t, "urandom") ELSE t) \in Table
  BY <1>1, OpenTable
<1> QED
  BY <1>1, <1>2, OpenTable, CloseTable DEF Connect, Reset

LEMMA LoggerTable ==
    ASSUME NEW t \in Table, NEW tty
    PROVE  LoggerFds(t, tty) \in Table
<1> DEFINE t0 == [t EXCEPT ![0] = "logcopy"]
           t1 == Open(Close(t0, 1..9), "null")
           t2 == Open(t1, "null")
<1>1. /\ "logcopy" \in What /\ "null" \in What /\ "zfd1" \in What
      /\ "zfd3" \in What /\ "zfd4" \in What
  BY DEF What
<1>2. t0 \in Table
  BY <1>1 DEF Table
<1> HIDE DEF t0
<1>3. t1 \in Table
  BY <1>1, <1>2, OpenTable, CloseTable
<1> HIDE DEF t1
<1>4. t2 \in Table
  BY <1>1, <1>3, OpenTable
<1> HIDE DEF t2
<1>5. /\ Open(Open(t2, "zfd1"), "null") \in Table
      /\ Open(Open(t2, "zfd3"), "zfd4") \in Table
  BY <1>1, <1>4, OpenTable
<1> QED
  BY <1>5 DEF LoggerFds, t0, t1, t2

LEMMA TypeInit == Init => TypeInv
<1> SUFFICES ASSUME Init PROVE TypeInv
  OBVIOUS
<1>1. fds \in [Fd -> What] /\ child.fds \in [Fd -> What] /\ child.pc = "none"
  BY DEF Init, NoFds, NoChild, What
<1>2. waitKey \in 0..MaxTime /\ now \in 1..MaxTime /\ nboot \in 0..MaxBoot
  BY SettingType, BoundAssumption DEF Init
<1> QED
  BY <1>1, <1>2 DEF Init, TypeInv, TypeOK

LEMMA TypeNext == TypeInv /\ [Next]_vars => TypeInv'
<1> SUFFICES ASSUME TypeInv, [Next]_vars PROVE TypeInv'
  OBVIOUS
<1>1. /\ fds \in Table /\ child.fds \in Table
      /\ NoFds \in Table /\ NoChild.fds \in Table /\ NoChild.pc = "none"
  BY DEF TypeInv, TypeOK, Table, NoFds, NoChild, What
<1>2. /\ "null" \in What /\ "log" \in What /\ "ipadm" \in What
      /\ "door" \in What /\ "caller" \in What /\ Closed \in What
      /\ "zfd0" \in What /\ "zfd1" \in What /\ "zfd2" \in What
  BY DEF What
<1> USE <1>1, <1>2
<1>3. CASE OpenLog
  <2>1. fds' \in Table
    BY <1>3, <1>2, OpenTable DEF OpenLog
  <2> QED
    BY <1>3, <2>1, BoundAssumption
    DEF TypeInv, TypeOK, OpenLog, At, Goto, host, memory, logger, Table
<1>4. CASE getBrand
  <2>1. fds' \in Table
    BY <1>4, ConnectTable DEF getBrand
  <2> QED
    BY <1>4, <2>1, BoundAssumption
    DEF TypeInv, TypeOK, getBrand, At, Goto, host, memory, logger, Table
<1>5. CASE OpenIpadmHandle
  <2>1. fds' \in Table
    BY <1>5, <1>2, OpenTable DEF OpenIpadmHandle
  <2> QED
    BY <1>5, <2>1, BoundAssumption
    DEF TypeInv, TypeOK, OpenIpadmHandle, At, Goto, host, memory, logger, Table
<1>6. CASE SetupInterfaces
  <2>1. fds' \in Table
    BY <1>6 DEF SetupInterfaces
  <2> QED
    BY <1>6, <2>1, BoundAssumption
    DEF TypeInv, TypeOK, SetupInterfaces, At, Goto, host, memory, logger,
        Table
<1>7. CASE LinkLocalRoutes
  <2>1. fds' \in Table
    BY <1>7 DEF LinkLocalRoutes
  <2> QED
    BY <1>7, <2>1, BoundAssumption
    DEF TypeInv, TypeOK, LinkLocalRoutes, ForEach, At, Goto, host, memory,
        logger, Table
<1>8. CASE setupGateways
  <2>1. fds' \in Table
    BY <1>8 DEF setupGateways
  <2> QED
    BY <1>8, <2>1, BoundAssumption
    DEF TypeInv, TypeOK, setupGateways, ForEach, At, Goto, host, memory,
        logger, Table
<1>9. CASE StaticRoutes
  <2>1. fds' \in Table
    BY <1>9, CloseTable DEF StaticRoutes
  <2> QED
    BY <1>9, <2>1, BoundAssumption
    DEF TypeInv, TypeOK, StaticRoutes, ForEach, At, Goto, host, memory,
        logger, Table
<1>10. CASE killIpmgmtd
  <2>1. fds' \in Table
    BY <1>10, <1>2, OpenTable DEF killIpmgmtd
  <2> QED
    BY <1>10, <2>1, BoundAssumption
    DEF TypeInv, TypeOK, killIpmgmtd, At, Goto, host, memory, logger, Table
<1>11. CASE mountNfsVolumes
  <2>1. fds' \in Table
    BY <1>11 DEF mountNfsVolumes
  <2> QED
    BY <1>11, <2>1, BoundAssumption
    DEF TypeInv, TypeOK, mountNfsVolumes, At, Goto, host, memory, logger,
        Table
<1>12. CASE SetUser
  <2>1. fds' \in Table
    BY <1>12, ConnectTable DEF SetUser
  <2> QED
    BY <1>12, <2>1, BoundAssumption
    DEF TypeInv, TypeOK, SetUser, At, Goto, host, memory, logger, Table
<1>13. CASE buildCmdEnv
  <2>1. fds' \in Table
    BY <1>13 DEF buildCmdEnv
  <2> QED
    BY <1>13, <2>1, BoundAssumption
    DEF TypeInv, TypeOK, buildCmdEnv, Fill, At, Goto, host, memory, logger,
        Table
<1>14. CASE buildCmdline
  <2>1. fds' \in Table
    BY <1>14 DEF buildCmdline
  <2> QED
    BY <1>14, <2>1, BoundAssumption
    DEF TypeInv, TypeOK, buildCmdline, Fill, At, Goto, host, memory, logger,
        Table
<1>15. CASE getTtyStatus
  <2>1. fds' \in Table
    BY <1>15 DEF getTtyStatus
  <2> QED
    BY <1>15, <2>1, BoundAssumption
    DEF TypeInv, TypeOK, getTtyStatus, At, Goto, host, memory, logger, Table
<1>16. CASE getStdinStatus
  <2>1. fds' \in Table
    BY <1>16 DEF getStdinStatus
  <2> QED
    BY <1>16, <2>1, BoundAssumption
    DEF TypeInv, TypeOK, getStdinStatus, At, Goto, host, memory, logger,
        Table
<1>17. CASE setupTerminal
  <2> DEFINE out == IF setting.tty THEN <<"zfd0", "zfd0">> ELSE <<"zfd1", "zfd2">>
             t0 == IF setting.stdin THEN Open(Close(fds, {0}), "zfd0") ELSE fds
             t1 == Open(Close(t0, {1, 2}), out[1])
             t == Open(t1, out[2])
  <2>a. out[1] \in What /\ out[2] \in What
    BY <1>2
  <2>b. t0 \in Table
    BY <1>2, OpenTable, CloseTable
  <2> HIDE DEF out, t0
  <2>c. t1 \in Table
    <3>1. Close(t0, {1, 2}) \in Table
      BY <2>b, CloseTable
    <3> QED
      BY <2>a, <3>1, OpenTable
  <2> HIDE DEF t1
  <2>d. t \in Table
    BY <2>a, <2>c, OpenTable
  <2>e. fds' = t \/ fds' = NoFds
    BY <1>17 DEF setupTerminal, t, t1, t0, out
  <2>1. fds' \in Table
    BY <1>1, <2>d, <2>e
  <2> QED
    BY <1>17, <2>1, BoundAssumption
    DEF TypeInv, TypeOK, setupTerminal, At, Goto, host, memory, logger, Table
<1>18. CASE setupLogging
  <2>1. fds' \in Table
    BY <1>18 DEF setupLogging
  <2> QED
    BY <1>18, <2>1, BoundAssumption
    DEF TypeInv, TypeOK, setupLogging, At, Goto, host, memory, logger, Table
<1>19. CASE waitIfAttaching
  <2>1. fds' \in Table
    BY <1>19 DEF waitIfAttaching
  <2> QED
    BY <1>19, <2>1, BoundAssumption
    DEF TypeInv, TypeOK, waitIfAttaching, At, Goto, host, memory, logger,
        Table
<1>20. CASE cleanup
  <2>1. fds' \in Table
    BY <1>20, CloseTable DEF cleanup
  <2> QED
    BY <1>20, <2>1, BoundAssumption
    DEF TypeInv, TypeOK, cleanup, At, Goto, host, memory, logger, Table
<1>21. CASE rename
  <2>1. fds' \in Table
    BY <1>21 DEF rename
  <2> QED
    BY <1>21, <2>1, BoundAssumption
    DEF TypeInv, TypeOK, rename, At, Goto, host, memory, logger, Table
<1>22. CASE execCmdline
  <2>1. fds' \in Table
    BY <1>22, CloseTable DEF execCmdline
  <2> QED
    BY <1>22, <2>1, BoundAssumption
    DEF TypeInv, TypeOK, execCmdline, At, Goto, host, memory, logger, Table
<1>23. CASE Boot
  <2>1. fds' \in Table
    BY <1>23 DEF Boot, Table
  <2>2. zfd' \in BOOLEAN
    BY <1>23 DEF Boot
  <2>3. nboot' \in 0..MaxBoot
    BY <1>23, BoundAssumption DEF Boot, TypeInv, TypeOK
  <2>4. child'.fds \in Table /\ child'.pc = "none"
    BY <1>23 DEF Boot
  <2> QED
    BY <1>23, <2>1, <2>2, <2>3, <2>4 DEF TypeInv, TypeOK, Boot, Table
<1>24. CASE Fatal
  <2>1. fds' \in Table
    BY <1>24 DEF Fatal
  <2> QED
    BY <1>24, <2>1, BoundAssumption
    DEF TypeInv, TypeOK, Fatal, At, Goto, host, memory, logger, Table
<1>25. CASE Reconnect
  <2>1. fds' \in Table
    BY <1>25, ConnectTable DEF Reconnect
  <2> QED
    BY <1>25, <2>1, BoundAssumption
    DEF TypeInv, TypeOK, Reconnect, At, Goto, host, memory, logger, Table
<1>26. CASE LoggerStreams
  <2>1. fds' \in Table
    BY <1>26 DEF LoggerStreams
  <2>2. child'.fds \in Table
    BY <1>26, LoggerTable DEF LoggerStreams
  <2> QED
    BY <1>26, <2>1, <2>2
    DEF TypeInv, TypeOK, LoggerStreams, At, Goto, host, memory, logger, Table
<1>27. CASE LoggerExec
  <2>1. fds' \in Table
    BY <1>27 DEF LoggerExec
  <2> QED
    BY <1>27, <2>1, BoundAssumption
    DEF TypeInv, TypeOK, LoggerExec, At, Goto, host, memory, logger, Table
<1>28. CASE LoggerKillsInit
  <2>1. fds' \in Table
    BY <1>28 DEF LoggerKillsInit
  <2> QED
    BY <1>28, <2>1, BoundAssumption
    DEF TypeInv, TypeOK, LoggerKillsInit, At, Goto, host, memory, logger,
        Table
<1>29. CASE LoggerDies
  <2>1. fds' \in Table
    BY <1>29 DEF LoggerDies
  <2> QED
    BY <1>29, <2>1, BoundAssumption
    DEF TypeInv, TypeOK, LoggerDies, At, Goto, host, memory, logger, Table
<1>30. CASE Attach
  <2>1. fds' \in Table
    BY <1>30 DEF Attach, process
  <2> QED
    BY <1>30, <2>1, BoundAssumption
    DEF TypeInv, TypeOK, Attach, At, Goto, host, memory, logger, Table,
        process
<1>31. CASE ZfdAppears
  <2>1. fds' \in Table
    BY <1>31 DEF ZfdAppears, process
  <2> QED
    BY <1>31, <2>1, BoundAssumption
    DEF TypeInv, TypeOK, ZfdAppears, At, Goto, host, memory, logger, Table,
        process
<1>32. CASE Tick
  <2>1. fds' \in Table
    BY <1>32 DEF Tick, process
  <2> QED
    BY <1>32, <2>1, BoundAssumption
    DEF TypeInv, TypeOK, Tick, process, At, Goto, host, memory, logger, Table
<1>33. CASE UNCHANGED vars
  BY <1>33 DEF TypeInv, TypeOK, vars
<1>34. CASE runIpmgmtd
  BY <1>34 DEF TypeInv, TypeOK, runIpmgmtd, At, Goto, host, memory, logger
<1>35. CASE ContractKillsInit
  <2>1. fds' \in Table
    BY <1>35 DEF ContractKillsInit
  <2> QED
    BY <1>35, <2>1, BoundAssumption
    DEF TypeInv, TypeOK, ContractKillsInit, At, Goto, host, memory, logger, Table
<1> QED
  BY <1>3, <1>4, <1>5, <1>6, <1>7, <1>8, <1>9, <1>10, <1>11, <1>12, <1>13,
     <1>14, <1>15, <1>16, <1>17, <1>18, <1>19, <1>20, <1>21, <1>22, <1>23,
     <1>24, <1>25, <1>26, <1>27, <1>28, <1>29, <1>30, <1>31, <1>32, <1>33,
     <1>34, <1>35
  DEF Next, Step, setupNetworking

\* What the logger, the host and the clock do leaves the process alone.
Outside == \/ LoggerStreams \/ LoggerExec \/ LoggerDies
           \/ Attach \/ ZfdAppears \/ Tick \/ UNCHANGED vars
Same == UNCHANGED <<setting, pc, status, nboot, fds, net, user, env, cmdline,
                    next, ids, didPut>>

LEMMA OutsideSame == Outside => Same
  BY DEF Outside, LoggerStreams, LoggerExec, LoggerDies, Attach, ZfdAppears,
         Tick, host, memory, process, vars, Same

\* The steps that end the process, apart from the end of the wait.
Ends == Fatal \/ LoggerKillsInit \/ ContractKillsInit

LEMMA EndsDead ==
    Ends => /\ status' \in {"exited", "killed"} /\ fds' = NoFds
            /\ child' = NoChild /\ child'.pc = "none"
            /\ UNCHANGED <<setting, nboot, marker, waitKey, didPut, user, next>>
  BY DEF Ends, Fatal, LoggerKillsInit, ContractKillsInit, NoChild, host, memory

LEMMA NextCases ==
    [Next]_vars => Boot \/ Step \/ Reconnect \/ Outside \/ Ends
  BY DEF Next, Outside, Ends

LEMMA PcInit == Init => PcInv
  BY DEF Init, PcInv, Alive

LEMMA PcNext == PcInv /\ [Next]_vars => PcInv'
<1> SUFFICES ASSUME PcInv, [Next]_vars PROVE PcInv'
  OBVIOUS
<1> USE DEF PcInv, Alive, InitProcess, InitPc, ExecPc, AfterInterfaces,
            AfterLinkLocal, AfterGateways, AfterStatic, AfterUser, AfterEnv,
            AfterCmdline, AfterTerminal, Late
<1>1. CASE Boot
  BY <1>1 DEF Boot
<1>2. CASE Reconnect
  BY <1>2 DEF Reconnect, host, memory
<1>3. CASE Outside
  BY <1>3, OutsideSame DEF Same
<1>4. CASE Ends
  BY <1>4, EndsDead
<1>5. CASE OpenLog
  BY <1>5 DEF OpenLog, At, Goto, host, memory, logger
<1>6. CASE getBrand
  BY <1>6 DEF getBrand, At, Goto, host, memory, logger
<1>7. CASE runIpmgmtd \/ OpenIpadmHandle
  BY <1>7 DEF runIpmgmtd, OpenIpadmHandle, At, Goto, host, memory, logger
<1>8. CASE SetupInterfaces
  BY <1>8 DEF SetupInterfaces, At, Goto, host, memory, logger
<1>9. CASE LinkLocalRoutes
  BY <1>9 DEF LinkLocalRoutes, ForEach, setupStaticRoute, At, Goto, host, memory, logger
<1>10. CASE setupGateways
  BY <1>10 DEF setupGateways, ForEach, At, Goto, host, memory, logger
<1>11. CASE StaticRoutes
  BY <1>11 DEF StaticRoutes, ForEach, setupStaticRoute, At, Goto, host, memory, logger
<1>12. CASE killIpmgmtd
  BY <1>12 DEF killIpmgmtd, At, Goto, host, memory, logger
<1>13. CASE mountNfsVolumes
  BY <1>13 DEF mountNfsVolumes, At, Goto, host, memory, logger
<1>14. CASE SetUser
  BY <1>14 DEF SetUser, At, Goto, host, memory, logger
<1>15. CASE buildCmdEnv
  BY <1>15 DEF buildCmdEnv, Fill, At, Goto, host, memory, logger
<1>16. CASE buildCmdline
  BY <1>16 DEF buildCmdline, Fill, At, Goto, host, memory, logger
<1>17. CASE getTtyStatus
  BY <1>17 DEF getTtyStatus, At, Goto, host, memory, logger
<1>18. CASE getStdinStatus
  BY <1>18 DEF getStdinStatus, At, Goto, host, memory, logger
<1>19. CASE setupTerminal
  BY <1>19 DEF setupTerminal, At, Goto, host, memory, logger
<1>20. CASE setupLogging
  BY <1>20 DEF setupLogging, At, Goto, host, memory, logger
<1>21. CASE waitIfAttaching
  BY <1>21 DEF waitIfAttaching, At, Goto, host, memory, logger
<1>22. CASE cleanup
  BY <1>22 DEF cleanup, At, Goto, host, memory, logger
<1>23. CASE rename
  BY <1>23 DEF rename, At, Goto, host, memory, logger
<1>24. CASE execCmdline
  BY <1>24 DEF execCmdline, At, Goto, host, memory, logger
<1> QED
  BY <1>1, <1>2, <1>3, <1>4, <1>5, <1>6, <1>7, <1>8, <1>9, <1>10, <1>11,
     <1>12, <1>13, <1>14, <1>15, <1>16, <1>17, <1>18, <1>19, <1>20, <1>21,
     <1>22, <1>23, <1>24, NextCases
  DEF Step, setupNetworking

-----------------------------------------------------------------------------
(* The descriptor table.                                                    *)

LEMMA Numbers ==
    ASSUME setting \in Setting
    PROVE  /\ Base \in 3..4 /\ Port \in Base..(Base + 1)
           /\ setting.urandom => Port = Base + 1
           /\ ~setting.urandom => Port = Base
           /\ InitProcess => Base = 4
           /\ ~InitProcess => Base = setting.inherit + 1
  BY SettingType DEF Base, Port

\* The first call puts the client's descriptors behind what is open.
LEMMA ConnectGives ==
    ASSUME setting \in Setting, NEW t \in Table,
           \A n \in 0..(Base - 1) : t[n] # Closed,
           \A n \in Base..9 : t[n] = Closed
    PROVE  /\ \A n \in 0..(Base - 1) : Connect(t)[n] = t[n]
           /\ setting.urandom => Connect(t)[Base] = "urandom"
           /\ Connect(t)[Port] = "port" /\ Connect(t)[Port + 1] = "sock"
           /\ \A n \in (Port + 2)..9 : Connect(t)[n] = Closed
<1> DEFINE t0 == IF setting.urandom THEN Open(t, "urandom") ELSE t
           t1 == Open(t0, "port")
           t2 == Open(t1, "sock")
<1>1. /\ Base \in 3..4 /\ Port \in Base..(Base + 1)
      /\ setting.urandom => Port = Base + 1
      /\ ~setting.urandom => Port = Base
  BY Numbers
<1>2. /\ "urandom" \in What /\ "port" \in What /\ "sock" \in What
      /\ "urandom" # Closed /\ "port" # Closed /\ "sock" # Closed
  BY DEF What, Closed
<1>3. /\ t0 \in Table
      /\ \A n \in 0..(Base - 1) : t0[n] = t[n]
      /\ \A n \in Port..9 : t0[n] = Closed
      /\ setting.urandom => t0[Base] = "urandom"
  <2>1. CASE setting.urandom
    <3>1. Open(t, "urandom") \in Table
          /\ Open(t, "urandom") = [t EXCEPT ![Base] = "urandom"]
      BY <1>1, <1>2, OpenLowest DEF Fd
    <3> QED
      BY <1>1, <2>1, <3>1 DEF Table, Fd
  <2>2. CASE ~setting.urandom
    BY <1>1, <2>2
  <2> QED
    BY <2>1, <2>2
<1> HIDE DEF t0
<1>4. Full(t0, Port) /\ t0[Port] = Closed /\ Port \in Fd
  BY <1>1, <1>2, <1>3 DEF Full, Fd
<1>5. /\ t1 \in Table /\ t1[Port] = "port"
      /\ \A n \in Fd \ {Port} : t1[n] = t0[n]
      /\ Full(t1, Port + 1)
  BY <1>2, <1>3, <1>4, OpenNext
<1> HIDE DEF t1
<1>6. t1[Port + 1] = Closed /\ Port + 1 \in Fd
  BY <1>1, <1>3, <1>5 DEF Fd
<1>7. /\ t2 \in Table /\ t2[Port + 1] = "sock"
      /\ \A n \in Fd \ {Port + 1} : t2[n] = t1[n]
  BY <1>2, <1>5, <1>6, OpenNext
<1> HIDE DEF t2
<1>8. /\ \A n \in 0..(Base - 1) : t2[n] = t[n]
      /\ setting.urandom => t2[Base] = "urandom"
      /\ t2[Port] = "port" /\ t2[Port + 1] = "sock"
      /\ \A n \in (Port + 2)..9 : t2[n] = Closed
  BY <1>1, <1>3, <1>5, <1>7 DEF Fd
<1> QED
  BY <1>8 DEF Connect, t0, t1, t2

\* Nothing below the socket is free, and the client's descriptors are there
\* once.
LEMMA ClientFull ==
    ASSUME setting \in Setting, NEW t \in Table, NEW p, BootTable(t, p),
           Connected(p)
    PROVE  /\ Client(t, p)
           /\ \A n \in 0..(Port + 1) : t[n] # Closed
           /\ \A n \in Fd \ {Port, Port + 1} : t[n] \notin {"port", "sock"}
<1>1. /\ Base \in 3..4 /\ Port \in Base..(Base + 1)
      /\ setting.urandom => Port = Base + 1
      /\ ~setting.urandom => Port = Base
      /\ InitProcess => Base = 4
      /\ ~InitProcess => Base = setting.inherit + 1
      /\ setting.inherit \in {2, 3}
  BY Numbers, SettingType
<1>2. Client(t, p)
  BY DEF BootTable, Connected, InitTable, ExecTable
<1>3. \A n \in 0..(Base - 1) : t[n] \notin {Closed, "port", "sock"}
  <2>1. CASE InitProcess
    <3>1. /\ t[0] \in {"null", "zfd0"} /\ t[1] \in {"null", "zfd0", "zfd1"}
          /\ t[2] \in {"null", "zfd0", "zfd2"} /\ t[3] = "log"
      BY <2>1 DEF BootTable, Connected, InitTable, Streams
    <3>2. \A n \in 0..3 : n = 0 \/ n = 1 \/ n = 2 \/ n = 3
      OBVIOUS
    <3> QED
      BY <1>1, <2>1, <3>1, <3>2 DEF Closed
  <2>2. CASE ~InitProcess
    BY <1>1, <2>2 DEF BootTable, ExecTable, Closed
  <2> QED
    BY <2>1, <2>2
<1>4. /\ setting.urandom => t[Base] = "urandom"
      /\ t[Port] = "port" /\ t[Port + 1] = "sock"
      /\ t[Port + 2] \in {"ipadm", Closed, "door"}
      /\ \A n \in Fd : n > Port + 2 => t[n] = Closed
  BY <1>2 DEF Client, Behind
<1>5. \A n \in 0..(Port + 1) : t[n] # Closed
  BY <1>1, <1>3, <1>4 DEF Closed
<1>6. \A n \in Fd \ {Port, Port + 1} : t[n] \notin {"port", "sock"}
  BY <1>1, <1>3, <1>4 DEF Closed, Fd
<1> QED
  BY <1>2, <1>5, <1>6

\* A reconnection changes nothing.
LEMMA ResetClient ==
    ASSUME setting \in Setting, NEW t \in Table, NEW p, BootTable(t, p),
           Connected(p)
    PROVE  Reset(t) = t
<1>1. Port \in Fd /\ Port + 1 \in Fd
  BY Numbers DEF Fd
<1>2. /\ t[Port] = "port" /\ t[Port + 1] = "sock"
      /\ \A n \in Fd \ {Port, Port + 1} : t[n] \notin {"port", "sock"}
      /\ \A n \in 0..(Port + 1) : t[n] # Closed
  BY ClientFull DEF Client
<1>3. \A n \in 0..(Port - 1) : t[n] # Closed
  BY <1>1, <1>2 DEF Fd
<1> QED
  BY <1>1, <1>2, <1>3, ResetSame

\* What is opened while the client is connected and nothing else is open goes
\* right behind its socket.
LEMMA OpenBehind ==
    ASSUME setting \in Setting, NEW t \in Table, NEW p, BootTable(t, p),
           Connected(p), t[Port + 2] = Closed, NEW w \in What
    PROVE  /\ Open(t, w) \in Table
           /\ Open(t, w)[Port + 2] = w
           /\ \A n \in Fd \ {Port + 2} : Open(t, w)[n] = t[n]
<1>1. Port \in 3..5
  BY Numbers
<1>2. \A m \in 0..((Port + 2) - 1) : t[m] # Closed
  BY <1>1, ClientFull
<1>3. Open(t, w) = [t EXCEPT ![Port + 2] = w] /\ Open(t, w) \in Table
  BY <1>1, <1>2, OpenLowest DEF Fd
<1> QED
  BY <1>1, <1>3 DEF Table, Fd

\* OpenLog: 0, 1 and 2 are the null device, 3 is the log.
LEMMA LogTable ==
    LET t == Open(Open(Open(Open(NoFds, "null"), "null"), "null"), "log")
    IN /\ t[0] = "null" /\ t[1] = "null" /\ t[2] = "null" /\ t[3] = "log"
       /\ \A n \in 4..9 : t[n] = Closed
<1> DEFINE t0 == Open(NoFds, "null")
           t1 == Open(t0, "null")
           t2 == Open(t1, "null")
           t3 == Open(t2, "log")
<1>1. /\ "null" \in What /\ "log" \in What /\ NoFds \in Table
      /\ "null" # Closed /\ "log" # Closed
      /\ 0 \in Fd /\ 1 \in Fd /\ 2 \in Fd /\ 3 \in Fd
  BY DEF What, Closed, NoFds, Table, Fd
<1>2. Full(NoFds, 0) /\ \A n \in Fd : NoFds[n] = Closed
  BY DEF Full, NoFds, Fd
<1>3. /\ t0 \in Table /\ t0[0] = "null" /\ Full(t0, 1)
      /\ \A n \in Fd \ {0} : t0[n] = Closed
  BY <1>1, <1>2, OpenNext
<1> HIDE DEF t0
<1>4. /\ t1 \in Table /\ t1[1] = "null" /\ Full(t1, 2)
      /\ \A n \in Fd \ {1} : t1[n] = t0[n]
  BY <1>1, <1>3, OpenNext
<1> HIDE DEF t1
<1>5. /\ t2 \in Table /\ t2[2] = "null" /\ Full(t2, 3)
      /\ \A n \in Fd \ {2} : t2[n] = t1[n]
  BY <1>1, <1>3, <1>4, OpenNext
<1> HIDE DEF t2
<1>6. t3[3] = "log" /\ \A n \in Fd \ {3} : t3[n] = t2[n]
  BY <1>1, <1>3, <1>4, <1>5, OpenNext
<1> HIDE DEF t3
<1>7. t3[0] = "null" /\ t3[1] = "null" /\ t3[2] = "null" /\ t3[3] = "log"
      /\ \A n \in 4..9 : t3[n] = Closed
  BY <1>3, <1>4, <1>5, <1>6 DEF Fd
<1> QED
  BY <1>7 DEF t0, t1, t2, t3

\* setupTerminal: a stream that is closed and opened again gets its number.
LEMMA TerminalTable ==
    ASSUME NEW t \in Table, t[0] = "null", t[1] = "null", t[2] = "null",
           NEW stdin \in BOOLEAN, NEW a \in What, NEW b \in What,
           a # Closed, b # Closed
    PROVE  LET t0 == IF stdin THEN Open(Close(t, {0}), "zfd0") ELSE t
               t2 == Open(Open(Close(t0, {1, 2}), a), b)
           IN /\ t2 \in Table
              /\ stdin => t0[0] = "zfd0"
              /\ t2[0] = IF stdin THEN "zfd0" ELSE "null"
              /\ t2[1] = a /\ t2[2] = b
              /\ \A n \in 3..9 : t2[n] = t[n]
<1> DEFINE v == Close(t, {0})
           t0 == IF stdin THEN Open(v, "zfd0") ELSE t
           u == Close(t0, {1, 2})
           t1 == Open(u, a)
           t2 == Open(t1, b)
<1>1. /\ "zfd0" \in What /\ "zfd0" # Closed /\ "null" # Closed
      /\ 0 \in Fd /\ 1 \in Fd /\ 2 \in Fd
  BY DEF What, Closed, Fd
<1>2. v \in Table /\ v[0] = Closed /\ \A n \in Fd \ {0} : v[n] = t[n]
  BY <1>1, CloseTable
<1>3. Full(v, 0)
  BY DEF Full, Fd
<1> HIDE DEF v
<1>4. /\ t0 \in Table /\ t0[0] = IF stdin THEN "zfd0" ELSE "null"
      /\ \A n \in Fd \ {0} : t0[n] = t[n]
  <2>1. /\ Open(v, "zfd0") \in Table /\ Open(v, "zfd0")[0] = "zfd0"
        /\ \A n \in Fd \ {0} : Open(v, "zfd0")[n] = v[n]
    BY <1>1, <1>2, <1>3, OpenNext
  <2> QED
    BY <1>2, <2>1
<1> HIDE DEF t0
<1>5. /\ u \in Table /\ u[0] = t0[0] /\ u[1] = Closed /\ u[2] = Closed
      /\ \A n \in Fd \ {1, 2} : u[n] = t0[n]
  <2>1. /\ u \in Table
        /\ \A n \in Fd : u[n] = IF n \in {1, 2} THEN Closed ELSE t0[n]
    BY <1>4, CloseTable
  <2> QED
    BY <1>1, <2>1
<1> HIDE DEF u
<1>6. Full(u, 1)
  BY <1>1, <1>4, <1>5 DEF Full, Fd
<1>7. /\ t1 \in Table /\ t1[1] = a /\ Full(t1, 2)
      /\ \A n \in Fd \ {1} : t1[n] = u[n]
  BY <1>1, <1>5, <1>6, OpenNext
<1> HIDE DEF t1
<1>8. /\ t2 \in Table /\ t2[2] = b /\ \A n \in Fd \ {2} : t2[n] = t1[n]
  BY <1>1, <1>5, <1>7, OpenNext
<1> HIDE DEF t2
<1>9. t2[0] = t0[0] /\ t2[1] = a /\ \A n \in 3..9 : t2[n] = t[n]
  BY <1>1, <1>4, <1>5, <1>7, <1>8 DEF Fd
<1>10. stdin => t0[0] = "zfd0"
  BY <1>4
<1> QED
  BY <1>4, <1>8, <1>9, <1>10 DEF t0, u, t1, t2, v

\* The logger's child: the streams to read are 3 and 4.
LEMMA LoggerGives ==
    ASSUME NEW t \in Table, NEW tty \in BOOLEAN
    PROVE  LET u == LoggerFds(t, tty)
           IN /\ u[0] = "logcopy" /\ u[1] = "null" /\ u[2] = "null"
              /\ tty => u[3] = "zfd1"
              /\ ~tty => u[3] = "zfd3" /\ u[4] = "zfd4"
<1> DEFINE v == [t EXCEPT ![0] = "logcopy"]
           u == Close(v, 1..9)
           t1 == Open(u, "null")
           t2 == Open(t1, "null")
           a == IF tty THEN "zfd1" ELSE "zfd3"
           b == IF tty THEN "null" ELSE "zfd4"
           t3 == Open(t2, a)
           t4 == Open(t3, b)
<1>1. /\ "logcopy" \in What /\ "null" \in What /\ a \in What /\ b \in What
      /\ "logcopy" # Closed /\ "null" # Closed /\ a # Closed /\ b # Closed
      /\ 0 \in Fd /\ 1 \in Fd /\ 2 \in Fd /\ 3 \in Fd /\ 4 \in Fd
  BY DEF What, Closed, Fd
<1>2. LoggerFds(t, tty) = t4
  BY DEF LoggerFds
<1>3. /\ tty => a = "zfd1"
      /\ ~tty => a = "zfd3" /\ b = "zfd4"
  OBVIOUS
<1> HIDE DEF a, b
<1>4. v \in Table /\ v[0] = "logcopy"
  BY <1>1 DEF Table
<1> HIDE DEF v
<1>5. u \in Table /\ u[0] = "logcopy" /\ \A n \in Fd \ {0} : u[n] = Closed
  <2>1. /\ u \in Table
        /\ \A n \in Fd : u[n] = IF n \in 1..9 THEN Closed ELSE v[n]
    BY <1>4, CloseTable
  <2> QED
    BY <1>4, <2>1 DEF Fd
<1> HIDE DEF u
<1>6. Full(u, 1)
  BY <1>1, <1>5 DEF Full, Fd
<1>7. /\ t1 \in Table /\ t1[1] = "null" /\ Full(t1, 2)
      /\ \A n \in Fd \ {1} : t1[n] = u[n]
  BY <1>1, <1>5, <1>6, OpenNext
<1> HIDE DEF t1
<1>8. /\ t2 \in Table /\ t2[2] = "null" /\ Full(t2, 3)
      /\ \A n \in Fd \ {2} : t2[n] = t1[n]
  BY <1>1, <1>5, <1>7, OpenNext
<1> HIDE DEF t2
<1>9. /\ t3 \in Table /\ t3[3] = a /\ Full(t3, 4)
      /\ \A n \in Fd \ {3} : t3[n] = t2[n]
  <2>1. t2[3] = Closed
    BY <1>1, <1>5, <1>7, <1>8
  <2> QED
    BY <1>1, <1>8, <2>1, OpenNext
<1> HIDE DEF t3
<1>10. t4[4] = b /\ \A n \in Fd \ {4} : t4[n] = t3[n]
  <2>1. t3[4] = Closed
    BY <1>1, <1>5, <1>7, <1>8, <1>9
  <2> QED
    BY <1>1, <1>9, <2>1, OpenNext
<1> HIDE DEF t4
<1>11. t4[0] = "logcopy" /\ t4[1] = "null" /\ t4[2] = "null" /\ t4[3] = a
  BY <1>1, <1>5, <1>7, <1>8, <1>9, <1>10
<1> QED
  BY <1>2, <1>3, <1>10, <1>11

LEMMA SameNumbers ==
    ASSUME setting' = setting
    PROVE  /\ InitProcess' = InitProcess /\ Base' = Base /\ Port' = Port
  BY DEF InitProcess, Base, Port

\* A step from a function with a connected client to another one that leaves the
\* table alone.
LEMMA TableStays ==
    ASSUME setting' = setting, fds' = fds, BootTable(fds, pc),
           Connected(pc), Connected(pc'), Behind(pc) \subseteq Behind(pc'),
           InitProcess => (pc \in AfterTerminal <=> pc' \in AfterTerminal)
    PROVE  BootTable(fds, pc)'
<1>1. Client(fds, pc) => Client(fds, pc)'
  BY SameNumbers DEF Client
<1>2. CASE InitProcess
  BY <1>1, <1>2, SameNumbers DEF BootTable, InitTable, Connected, Streams
<1>3. CASE ~InitProcess
  BY <1>1, <1>3, SameNumbers DEF BootTable, ExecTable, Connected
<1> QED
  BY <1>2, <1>3

LEMMA TableInit == Init => TableInv
  BY DEF Init, TableInv, CommandDescriptors, NoUnexpectedFd

\* The functions that neither open nor close.
Quiet ==
    \/ runIpmgmtd \/ SetupInterfaces \/ LinkLocalRoutes \/ setupGateways
    \/ mountNfsVolumes \/ buildCmdEnv \/ buildCmdline
    \/ getTtyStatus \/ getStdinStatus

LEMMA QuietTable ==
    ASSUME TypeInv, PcInv, TableInv, Quiet
    PROVE  TableInv'
<1> USE DEF At, Goto, host, memory, logger
<1>1. setting' = setting /\ fds' = fds /\ status = "boot" /\ status' = "boot"
  BY DEF Quiet, runIpmgmtd, SetupInterfaces, LinkLocalRoutes, setupGateways, ForEach,
         mountNfsVolumes, buildCmdEnv, buildCmdline, Fill, getTtyStatus,
         getStdinStatus, setupStaticRoute
<1>2. /\ Connected(pc) /\ Connected(pc')
      /\ Behind(pc) \subseteq Behind(pc')
      /\ InitProcess => (pc \in AfterTerminal <=> pc' \in AfterTerminal)
  <2>1. \/ pc = "runIpmgmtd" /\ pc' = "openIpadmHandle"
        \/ pc = "setupInterfaces" /\ pc' = "linkLocalRoutes"
        \/ pc = "linkLocalRoutes" /\ pc' \in {pc, "setupGateways"}
        \/ pc = "setupGateways" /\ pc' \in {pc, "staticRoutes"}
        \/ pc = "mountNfsVolumes" /\ pc' = "getUserGroupData"
        \/ pc = "buildCmdEnv"
           /\ pc' \in {pc, IF InitProcess THEN "buildCmdline" ELSE "cleanup"}
        \/ pc = "buildCmdline" /\ pc' \in {pc, "getTtyStatus"}
        \/ pc = "getTtyStatus" /\ pc' = "getStdinStatus"
        \/ pc = "getStdinStatus" /\ pc' = "setupTerminal"
    BY DEF Quiet, runIpmgmtd, SetupInterfaces, LinkLocalRoutes, setupGateways, ForEach,
           mountNfsVolumes, buildCmdEnv, buildCmdline, Fill, getTtyStatus,
           getStdinStatus, setupStaticRoute
  <2>2. CASE InitProcess
    BY <2>1, <2>2 DEF Connected, Behind, AfterTerminal, Late
  <2>3. CASE ~InitProcess
    <3>1. pc \in ExecPc
      BY <1>1, <2>3 DEF PcInv, Alive
    <3>2. pc = "buildCmdEnv" /\ pc' \in {"buildCmdEnv", "cleanup"}
      BY <2>1, <2>3, <3>1 DEF ExecPc
    <3> QED
      BY <2>3, <3>2 DEF Connected, Behind
  <2> QED
    BY <2>2, <2>3
<1>3. BootTable(fds, pc)'
  BY <1>1, <1>2, TableStays DEF TableInv
<1> QED
  BY <1>1, <1>3 DEF TableInv, CommandDescriptors, NoUnexpectedFd

LEMMA TableNext ==
    ASSUME TypeInv, PcInv, TableInv, [Next]_vars
    PROVE  TableInv'
<1> USE DEF At, Goto, host, memory, logger
<1>0. /\ fds \in Table /\ setting \in Setting
      /\ Base \in 3..4 /\ Port \in Base..(Base + 1)
      /\ setting.urandom => Port = Base + 1
      /\ ~setting.urandom => Port = Base
      /\ InitProcess => Base = 4
      /\ ~InitProcess => Base = setting.inherit + 1
      /\ setting.inherit \in {2, 3}
  BY Numbers, SettingType DEF TypeInv, TypeOK, Table
<1>1. CASE Boot
  <2>1. /\ setting' = setting /\ status' = "boot"
        /\ InitProcess => pc' = "main" /\ fds' = NoFds
        /\ ~InitProcess =>
              /\ pc' = "getUserGroupData"
              /\ \A n \in Fd : fds'[n] = IF n <= setting.inherit THEN "caller"
                                         ELSE Closed
    BY <1>1 DEF Boot
  <2>2. BootTable(fds, pc)'
    <3>1. CASE InitProcess
      BY <2>1, <3>1, SameNumbers DEF BootTable, InitTable
    <3>2. CASE ~InitProcess
      BY <1>0, <2>1, <3>2, SameNumbers DEF BootTable, ExecTable, Fd
    <3> QED
      BY <3>1, <3>2
  <2> QED
    BY <2>1, <2>2 DEF TableInv, CommandDescriptors, NoUnexpectedFd
<1>2. CASE Reconnect
  <2>1. /\ setting' = setting /\ status = "boot" /\ status' = "boot"
        /\ pc' = pc /\ pc \in Calls /\ fds' = Reset(fds)
    BY <1>2 DEF Reconnect
  <2>2. Connected(pc)
    <3>1. CASE InitProcess
      BY <2>1, <3>1 DEF Connected, Calls
    <3>2. CASE ~InitProcess
      <4>1. pc \in ExecPc
        BY <2>1, <3>2 DEF PcInv, Alive
      <4>2. pc # "getUserGroupData"
        <5>1. PICK n \in Fd : fds[n] = "sock"
          BY <1>2 DEF Reconnect
        <5> QED
          BY <1>0, <2>1, <3>2, <5>1 DEF TableInv, BootTable, ExecTable, Fd, Closed
      <4> QED
        BY <2>1, <3>2, <4>1, <4>2 DEF Connected, Calls, ExecPc
    <3> QED
      BY <3>1, <3>2
  <2>3. fds' = fds
    BY <1>0, <2>1, <2>2, ResetClient DEF TableInv
  <2>4. BootTable(fds, pc)'
    BY <2>1, <2>2, <2>3, TableStays DEF TableInv
  <2> QED
    BY <2>1, <2>4 DEF TableInv, CommandDescriptors, NoUnexpectedFd
<1>3. CASE Outside
  <2>1. Same
    BY <1>3, OutsideSame
  <2>2. InitProcess' = InitProcess /\ Base' = Base /\ Port' = Port
    BY <2>1, SameNumbers DEF Same
  <2>3. status = "boot" => BootTable(fds, pc)'
    BY <2>1, <2>2 DEF TableInv, Same, BootTable, InitTable, ExecTable, Client,
                      Streams, ThirdOfExec
  <2> QED
    BY <2>1, <2>2, <2>3
    DEF TableInv, Same, CommandDescriptors, NoUnexpectedFd, OpenFds
<1>4. CASE Ends
  BY <1>4, EndsDead DEF TableInv, CommandDescriptors, NoUnexpectedFd
<1>5. CASE Quiet
  BY <1>5, QuietTable
<1>6. CASE OpenLog
  <2>1. /\ setting' = setting /\ status = "boot" /\ status' = "boot"
        /\ pc = "main" /\ pc' = "getBrand" /\ InitProcess
        /\ fds' = Open(Open(Open(Open(fds, "null"), "null"), "null"), "log")
    BY <1>6 DEF OpenLog, PcInv, Alive, ExecPc
  <2>2. fds = NoFds
    BY <2>1 DEF TableInv, BootTable, InitTable
  <2>3. /\ fds'[0] = "null" /\ fds'[1] = "null" /\ fds'[2] = "null"
        /\ fds'[3] = "log" /\ \A n \in 4..9 : fds'[n] = Closed
    BY <2>1, <2>2, LogTable
  <2>4. BootTable(fds, pc)'
    BY <2>1, <2>3, SameNumbers
    DEF BootTable, InitTable, AfterTerminal, Late
  <2> QED
    BY <2>1, <2>4 DEF TableInv, CommandDescriptors, NoUnexpectedFd
<1>7. CASE getBrand
  <2>1. /\ setting' = setting /\ status = "boot" /\ status' = "boot"
        /\ pc = "getBrand" /\ pc' = "runIpmgmtd" /\ InitProcess
        /\ fds' = Connect(fds)
    BY <1>7 DEF getBrand, PcInv, Alive, ExecPc
  <2>2. /\ fds[0] = "null" /\ fds[1] = "null" /\ fds[2] = "null"
        /\ fds[3] = "log" /\ \A n \in 4..9 : fds[n] = Closed
    BY <2>1 DEF TableInv, BootTable, InitTable, AfterTerminal, Late
  <2>3. \A n \in 0..(Base - 1) : fds[n] # Closed
    <3>1. \A n \in 0..3 : n = 0 \/ n = 1 \/ n = 2 \/ n = 3
      OBVIOUS
    <3> QED
      BY <1>0, <2>1, <2>2, <3>1 DEF Closed
  <2>4. /\ \A n \in 0..(Base - 1) : fds'[n] = fds[n]
        /\ setting.urandom => fds'[Base] = "urandom"
        /\ fds'[Port] = "port" /\ fds'[Port + 1] = "sock"
        /\ \A n \in (Port + 2)..9 : fds'[n] = Closed
    BY <1>0, <2>1, <2>2, <2>3, ConnectGives
  <2>5. Client(fds, pc)'
    BY <1>0, <2>1, <2>4, SameNumbers DEF Client, Behind, Fd
  <2>6. BootTable(fds, pc)'
    BY <1>0, <2>1, <2>2, <2>4, <2>5, SameNumbers
    DEF BootTable, InitTable, AfterTerminal, Late
  <2> QED
    BY <2>1, <2>6 DEF TableInv, CommandDescriptors, NoUnexpectedFd
<1>8. CASE OpenIpadmHandle
  <2>1. /\ setting' = setting /\ status = "boot" /\ status' = "boot"
        /\ pc = "openIpadmHandle" /\ pc' = "setupInterfaces" /\ InitProcess
        /\ fds' = Open(fds, "ipadm")
    BY <1>8 DEF OpenIpadmHandle, PcInv, Alive, ExecPc
  <2>2. BootTable(fds, pc) /\ Connected(pc) /\ Client(fds, pc)
    BY <2>1 DEF TableInv, BootTable, InitTable, Connected
  <2>3. /\ fds'[Port + 2] = "ipadm"
        /\ \A n \in Fd \ {Port + 2} : fds'[n] = fds[n]
    <3>1. fds[Port + 2] = Closed /\ "ipadm" \in What
      BY <2>1, <2>2 DEF Client, Behind, What
    <3> QED
      BY <1>0, <2>1, <2>2, <3>1, OpenBehind
  <2>4. Client(fds, pc)'
    BY <1>0, <2>1, <2>2, <2>3, SameNumbers DEF Client, Behind, Fd
  <2>5. BootTable(fds, pc)'
    BY <1>0, <2>1, <2>2, <2>3, <2>4, SameNumbers
    DEF BootTable, InitTable, AfterTerminal, Late, Fd
  <2> QED
    BY <2>1, <2>5 DEF TableInv, CommandDescriptors, NoUnexpectedFd
<1>9. CASE StaticRoutes
  <2>1. /\ setting' = setting /\ status = "boot" /\ status' = "boot"
        /\ pc = "staticRoutes" /\ InitProcess
        /\ \/ pc' = pc /\ fds' = fds
           \/ pc' = "killIpmgmtd" /\ fds' = CloseAll(fds, {"ipadm"})
    BY <1>9 DEF StaticRoutes, ForEach, setupStaticRoute, PcInv, Alive, ExecPc
  <2>2. BootTable(fds, pc) /\ Connected(pc) /\ Client(fds, pc)
    BY <2>1 DEF TableInv, BootTable, InitTable, Connected
  <2>3. CASE pc' = pc /\ fds' = fds
    BY <2>1, <2>2, <2>3, TableStays
    DEF TableInv, CommandDescriptors, NoUnexpectedFd
  <2>4. CASE pc' = "killIpmgmtd" /\ fds' = CloseAll(fds, {"ipadm"})
    <3>1. \A n \in Fd : fds'[n] = IF fds[n] \in {"ipadm"} THEN Closed ELSE fds[n]
      BY <1>0, <2>4, CloseTable
    <3>2. /\ fds[0] = "null" /\ fds[1] = "null" /\ fds[2] = "null"
          /\ fds[3] = "log"
      BY <2>1, <2>2 DEF BootTable, InitTable, AfterTerminal, Late
    <3>3. fds[Port + 2] = "ipadm"
      BY <2>1, <2>2 DEF Client, Behind
    <3>4. Client(fds, pc)'
      BY <1>0, <2>1, <2>2, <2>4, <3>1, <3>3, SameNumbers
      DEF Client, Behind, Fd, Closed
    <3>5. BootTable(fds, pc)'
      BY <2>1, <2>4, <3>1, <3>2, <3>4, SameNumbers
      DEF BootTable, InitTable, AfterTerminal, Late, Fd
    <3> QED
      BY <2>1, <3>5 DEF TableInv, CommandDescriptors, NoUnexpectedFd
  <2> QED
    BY <2>1, <2>3, <2>4
<1>10. CASE killIpmgmtd
  <2>1. /\ setting' = setting /\ status = "boot" /\ status' = "boot"
        /\ pc = "killIpmgmtd" /\ pc' = "mountNfsVolumes" /\ InitProcess
        /\ fds' = fds \/ fds' = Open(fds, "door")
    BY <1>10 DEF killIpmgmtd, PcInv, Alive, ExecPc
  <2>2. BootTable(fds, pc) /\ Connected(pc) /\ Client(fds, pc)
    BY <2>1 DEF TableInv, BootTable, InitTable, Connected
  <2>3. /\ fds'[Port + 2] \in {Closed, "door"}
        /\ \A n \in Fd \ {Port + 2} : fds'[n] = fds[n]
    <3>1. fds[Port + 2] = Closed /\ "door" \in What
      BY <2>1, <2>2 DEF Client, Behind, What
    <3>2. CASE fds' = fds
      BY <3>1, <3>2
    <3>3. CASE fds' = Open(fds, "door")
      BY <1>0, <2>2, <3>1, <3>3, OpenBehind
    <3> QED
      BY <2>1, <3>2, <3>3
  <2>4. Client(fds, pc)'
    BY <1>0, <2>1, <2>2, <2>3, SameNumbers DEF Client, Behind, Fd
  <2>5. BootTable(fds, pc)'
    BY <1>0, <2>1, <2>2, <2>3, <2>4, SameNumbers
    DEF BootTable, InitTable, AfterTerminal, Late, Fd
  <2> QED
    BY <2>1, <2>5 DEF TableInv, CommandDescriptors, NoUnexpectedFd
<1>11. CASE SetUser
  <2>1. /\ setting' = setting /\ status = "boot" /\ status' = "boot"
        /\ pc = "getUserGroupData" /\ pc' = "buildCmdEnv"
        /\ fds' = IF \E n \in Fd : fds[n] = "sock" THEN fds ELSE Connect(fds)
    BY <1>11 DEF SetUser
  <2>2. CASE InitProcess
    <3>1. BootTable(fds, pc) /\ Connected(pc) /\ Client(fds, pc)
      BY <2>1, <2>2 DEF TableInv, BootTable, InitTable, Connected
    <3>2. fds' = fds
      BY <1>0, <2>1, <3>1 DEF Client, Fd
    <3>3. Connected(pc') /\ Behind(pc) \subseteq Behind(pc')
          /\ (pc \in AfterTerminal <=> pc' \in AfterTerminal)
      BY <2>1, <2>2 DEF Connected, Behind, AfterTerminal, Late
    <3>4. BootTable(fds, pc)'
      BY <2>1, <3>1, <3>2, <3>3, TableStays
    <3> QED
      BY <2>1, <3>4 DEF TableInv, CommandDescriptors, NoUnexpectedFd
  <2>3. CASE ~InitProcess
    <3>1. /\ \A n \in 0..setting.inherit : fds[n] = "caller"
          /\ \A n \in Fd : n > setting.inherit => fds[n] = Closed
      BY <2>1, <2>3 DEF TableInv, BootTable, ExecTable
    <3>2. /\ \A n \in 0..(Base - 1) : fds[n] # Closed
          /\ \A n \in Base..9 : fds[n] = Closed
          /\ \A n \in Fd : fds[n] # "sock"
      BY <1>0, <2>3, <3>1 DEF Closed, Fd
    <3>3. fds' = Connect(fds)
      BY <2>1, <3>2
    <3>4. /\ \A n \in 0..(Base - 1) : fds'[n] = fds[n]
          /\ setting.urandom => fds'[Base] = "urandom"
          /\ fds'[Port] = "port" /\ fds'[Port + 1] = "sock"
          /\ \A n \in (Port + 2)..9 : fds'[n] = Closed
      BY <1>0, <3>2, <3>3, ConnectGives
    <3>5. Client(fds, pc)'
      BY <1>0, <2>1, <3>4, SameNumbers DEF Client, Behind, Fd
    <3>6. BootTable(fds, pc)'
      BY <1>0, <2>1, <2>3, <3>1, <3>4, <3>5, SameNumbers
      DEF BootTable, ExecTable, Fd
    <3> QED
      BY <2>1, <3>6 DEF TableInv, CommandDescriptors, NoUnexpectedFd
  <2> QED
    BY <2>2, <2>3
<1>12. CASE setupTerminal
  <2> DEFINE out == IF setting.tty THEN <<"zfd0", "zfd0">> ELSE <<"zfd1", "zfd2">>
             a == out[1]
             b == out[2]
             t0 == IF setting.stdin THEN Open(Close(fds, {0}), "zfd0") ELSE fds
             t == Open(Open(Close(t0, {1, 2}), a), b)
             ok == (setting.stdin => t0[0] = "zfd0") /\ t[1] = a /\ t[2] = b
  <2>1. /\ setting' = setting /\ status = "boot"
        /\ pc = "setupTerminal" /\ InitProcess
        /\ ok => fds' = t /\ pc' = "setupLogging" /\ status' = "boot"
    BY <1>12 DEF setupTerminal, PcInv, Alive, ExecPc
  <2>2. /\ a \in What /\ b \in What /\ a # Closed /\ b # Closed
        /\ a = IF setting.tty THEN "zfd0" ELSE "zfd1"
        /\ b = IF setting.tty THEN "zfd0" ELSE "zfd2"
    BY DEF What, Closed
  <2> HIDE DEF a, b, out
  <2>3. BootTable(fds, pc) /\ Connected(pc) /\ Client(fds, pc)
    BY <2>1 DEF TableInv, BootTable, InitTable, Connected
  <2>4. fds[0] = "null" /\ fds[1] = "null" /\ fds[2] = "null" /\ fds[3] = "log"
    BY <2>1, <2>3 DEF BootTable, InitTable, AfterTerminal, Late
  <2>5. /\ setting.stdin => t0[0] = "zfd0"
        /\ t[0] = IF setting.stdin THEN "zfd0" ELSE "null"
        /\ t[1] = a /\ t[2] = b
        /\ \A n \in 3..9 : t[n] = fds[n]
    <3>1. fds \in Table /\ setting.stdin \in BOOLEAN
      BY <1>0, SettingType
    <3> QED
      BY <2>2, <2>4, <3>1, TerminalTable
  <2>6. ok
    BY <2>5
  <2> HIDE DEF t, t0, ok
  <2>7. fds' = t /\ pc' = "setupLogging" /\ status' = "boot"
    BY <2>1, <2>6
  <2>8. Client(fds, pc)'
    BY <1>0, <2>1, <2>3, <2>5, <2>7, SameNumbers DEF Client, Behind, Fd
  <2>9. Streams(fds)'
    BY <2>1, <2>2, <2>5, <2>7 DEF Streams
  <2>10. BootTable(fds, pc)'
    BY <2>1, <2>4, <2>5, <2>7, <2>8, <2>9, SameNumbers
    DEF BootTable, InitTable, AfterTerminal, Late
  <2> QED
    BY <2>7, <2>10 DEF TableInv, CommandDescriptors, NoUnexpectedFd
<1>13. CASE setupLogging
  <2>1. /\ setting' = setting /\ status = "boot" /\ status' = "boot"
        /\ pc = "setupLogging" /\ pc' = "waitIfAttaching" /\ InitProcess
        /\ fds' = fds
    BY <1>13 DEF setupLogging, PcInv, Alive, ExecPc
  <2>2. BootTable(fds, pc)'
    BY <2>1, TableStays
    DEF TableInv, Connected, Behind, AfterTerminal, Late
  <2> QED
    BY <2>1, <2>2 DEF TableInv, CommandDescriptors, NoUnexpectedFd
<1>14. CASE waitIfAttaching
  <2>1. /\ setting' = setting /\ status = "boot"
        /\ pc = "waitIfAttaching" /\ InitProcess
        /\ \/ status' = "exited"
           \/ status' = "boot" /\ fds' = fds /\ pc' \in {pc, "cleanup"}
    BY <1>14 DEF waitIfAttaching, PcInv, Alive, ExecPc
  <2>2. CASE status' = "exited"
    BY <2>2 DEF TableInv, CommandDescriptors, NoUnexpectedFd
  <2>3. CASE status' = "boot" /\ fds' = fds /\ pc' \in {pc, "cleanup"}
    <3>1. BootTable(fds, pc)'
      BY <2>1, <2>3, TableStays
      DEF TableInv, Connected, Behind, AfterTerminal, Late
    <3> QED
      BY <2>3, <3>1 DEF TableInv, CommandDescriptors, NoUnexpectedFd
  <2> QED
    BY <2>1, <2>2, <2>3
<1>15. CASE cleanup
  <2>1. /\ setting' = setting /\ status = "boot" /\ status' = "boot"
        /\ pc = "cleanup" /\ fds' = Close(fds, {4, 5, 6})
        /\ pc' = IF InitProcess THEN "rename" ELSE "execCmdline"
    BY <1>15 DEF cleanup
  <2>2. BootTable(fds, pc) /\ Connected(pc) /\ Client(fds, pc)
    BY <2>1 DEF TableInv, BootTable, InitTable, ExecTable, Connected
  <2>3. \A n \in Fd : fds'[n] = IF n \in {4, 5, 6} THEN Closed ELSE fds[n]
    BY <1>0, <2>1, CloseTable
  <2>4. CASE InitProcess
    <3>1. Streams(fds) /\ fds[3] = "log"
      BY <2>1, <2>2, <2>4 DEF BootTable, InitTable, AfterTerminal, Late
    <3>2. Streams(fds)' /\ fds'[3] = "log"
      BY <2>1, <2>3, <3>1 DEF Streams, Fd
    <3>3. \A n \in 4..9 : fds'[n] \in {Closed, "door"}
      BY <1>0, <2>1, <2>2, <2>3, <2>4 DEF Client, Behind, Fd
    <3>4. BootTable(fds, pc)'
      BY <2>1, <2>4, <3>2, <3>3, SameNumbers
      DEF BootTable, InitTable, AfterTerminal, Late
    <3> QED
      BY <2>1, <3>4 DEF TableInv, CommandDescriptors, NoUnexpectedFd
  <2>5. CASE ~InitProcess
    <3>1. \A n \in 0..setting.inherit : fds[n] = "caller"
      BY <2>2, <2>5 DEF BootTable, ExecTable
    <3>2. \A n \in 0..setting.inherit : fds'[n] = "caller"
      BY <1>0, <2>3, <3>1 DEF Fd
    <3>3. /\ fds'[3] = ThirdOfExec
          /\ \A n \in Fd : n > 3 => fds'[n] = Closed
      <4>1. fds[Port + 2] = Closed
        BY <2>1, <2>2, <2>5 DEF BootTable, ExecTable
      <4>2. \A n \in Fd : n > 3 => fds'[n] = Closed
        BY <1>0, <2>2, <2>3, <2>5, <4>1 DEF Client, Fd
      <4>3. CASE setting.inherit = 3
        BY <3>2, <4>2, <4>3 DEF ThirdOfExec
      <4>4. CASE setting.inherit = 2
        <5>1. Base = 3 /\ fds'[3] = fds[3]
          BY <1>0, <2>3, <2>5, <4>4 DEF Fd
        <5>2. /\ setting.urandom => fds[3] = "urandom"
              /\ ~setting.urandom => fds[3] = "port"
          BY <1>0, <2>2, <5>1 DEF Client
        <5>3. setting.urandom \in BOOLEAN
          BY <1>0, SettingType
        <5> QED
          BY <4>2, <4>4, <5>1, <5>2, <5>3 DEF ThirdOfExec
      <4> QED
        BY <1>0, <4>3, <4>4
    <3>4. BootTable(fds, pc)'
      <4>1. ThirdOfExec' = ThirdOfExec
        BY <2>1 DEF ThirdOfExec
      <4> QED
        BY <2>1, <2>5, <3>2, <3>3, <4>1, SameNumbers DEF BootTable, ExecTable
    <3> QED
      BY <2>1, <3>4 DEF TableInv, CommandDescriptors, NoUnexpectedFd
  <2> QED
    BY <2>4, <2>5
<1>16. CASE rename
  <2>1. /\ setting' = setting /\ status = "boot" /\ status' = "boot"
        /\ pc = "rename" /\ pc' = "execCmdline" /\ InitProcess
        /\ fds' = fds
    BY <1>16 DEF rename, PcInv, Alive, ExecPc
  <2>2. BootTable(fds, pc)'
    BY <2>1, SameNumbers
    DEF TableInv, BootTable, InitTable, Streams, AfterTerminal, Late
  <2> QED
    BY <2>1, <2>2 DEF TableInv, CommandDescriptors, NoUnexpectedFd
<1>17. CASE execCmdline
  <2>1. /\ setting' = setting /\ status = "boot" /\ status' = "running"
        /\ pc = "execCmdline" /\ fds' = CloseAll(fds, {"log"})
    BY <1>17 DEF execCmdline
  <2>2. BootTable(fds, pc)
    BY <2>1 DEF TableInv
  <2>3. \A n \in Fd : fds'[n] = IF fds[n] \in {"log"} THEN Closed ELSE fds[n]
    BY <1>0, <2>1, CloseTable
  <2>4. CASE InitProcess
    <3>1. Streams(fds) /\ fds[3] = "log"
          /\ \A n \in 4..9 : fds[n] \in {Closed, "door"}
      BY <2>1, <2>2, <2>4 DEF BootTable, InitTable, AfterTerminal, Late
    <3>2. Streams(fds)'
      BY <2>1, <2>3, <3>1 DEF Streams, Fd
    <3>3. \A n \in 3..9 : fds'[n] \in {Closed, "door"}
      BY <2>3, <3>1 DEF Fd
    <3>4. CommandDescriptors'
      BY <2>1, <2>4, <3>2, <3>3, SameNumbers
      DEF CommandDescriptors, Streams, OpenFds, Fd
    <3> QED
      BY <2>1, <3>4 DEF TableInv, NoUnexpectedFd
  <2>5. CASE ~InitProcess
    <3>1. /\ \A n \in 0..setting.inherit : fds[n] = "caller"
          /\ fds[3] = ThirdOfExec
          /\ \A n \in Fd : n > 3 => fds[n] = Closed
      BY <2>1, <2>2, <2>5 DEF BootTable, ExecTable
    <3>2. fds[3] \in {"caller", "urandom", "port"}
      <4>1. setting.urandom \in BOOLEAN
        BY <1>0, SettingType
      <4> QED
        BY <1>0, <3>1, <4>1 DEF ThirdOfExec
    <3>3. CommandDescriptors'
      <4>1. /\ \A n \in 0..2 : fds'[n] = "caller"
            /\ fds'[3] = ThirdOfExec
            /\ \A n \in Fd : n > 3 => fds'[n] = Closed
        BY <1>0, <2>3, <3>1, <3>2 DEF Fd
      <4>2. OpenFds' = 0..3
        BY <3>1, <3>2, <4>1 DEF OpenFds, Closed, Fd
      <4>3. ~InitProcess'
        BY <2>1, <2>5, SameNumbers
      <4> QED
        BY <2>1, <4>1, <4>2, <4>3 DEF CommandDescriptors, ThirdOfExec
    <3> QED
      BY <2>1, <3>3 DEF TableInv, NoUnexpectedFd
  <2> QED
    BY <2>4, <2>5
<1> QED
  BY <1>1, <1>2, <1>3, <1>4, <1>5, <1>6, <1>7, <1>8, <1>9, <1>10, <1>11, <1>12,
     <1>13, <1>14, <1>15, <1>16, <1>17, NextCases
  DEF Step, setupNetworking, Quiet

-----------------------------------------------------------------------------
(* The logger.                                                              *)

LEMMA LoggerInit == Init => LoggerInv
  BY DEF Init, LoggerInv, NoChild

LEMMA LoggerNext ==
    ASSUME TypeInv, LoggerInv, [Next]_vars
    PROVE  LoggerInv'
<1>1. CASE LoggerStreams
  <2>1. /\ setting' = setting
        /\ child' = [pc |-> "exec", fds |-> LoggerFds(child.fds, setting.tty)]
        /\ setting.tty => <<0, 1>> \in mux'
        /\ ~setting.tty => <<1, 3>> \in mux' /\ <<2, 4>> \in mux'
    BY <1>1 DEF LoggerStreams, host
  <2>2. child.fds \in Table /\ setting.tty \in BOOLEAN
    BY SettingType DEF TypeInv, TypeOK, Table
  <2>3. /\ child'.fds[0] = "logcopy"
        /\ child'.fds[1] = "null" /\ child'.fds[2] = "null"
        /\ setting.tty => child'.fds[3] = "zfd1"
        /\ ~setting.tty => child'.fds[3] = "zfd3" /\ child'.fds[4] = "zfd4"
    BY <2>1, <2>2, LoggerGives
  <2> QED
    BY <2>1, <2>3 DEF LoggerInv
<1>2. CASE LoggerExec
  <2>1. /\ setting' = setting /\ mux' = mux /\ child.pc = "exec"
        /\ child' = [child EXCEPT !.pc = "running"]
    BY <1>2 DEF LoggerExec, host
  <2>2. child'.fds = child.fds
    BY <2>1
  <2> QED
    BY <2>1, <2>2 DEF LoggerInv
<1>3. CASE child'.pc \in {"none", "streams"}
  BY <1>3 DEF LoggerInv
<1>4. CASE UNCHANGED <<setting, child, mux>>
  BY <1>4 DEF LoggerInv
<1>5. Boot \/ Ends \/ LoggerDies => child'.pc = "none"
  BY EndsDead DEF Boot, LoggerDies, NoChild
<1>6. Reconnect \/ Attach \/ ZfdAppears \/ Tick \/ UNCHANGED vars
      => UNCHANGED <<setting, child, mux>>
  BY DEF Reconnect, Attach, ZfdAppears, Tick, vars, host, logger, process
<1>7. setupLogging => \/ child'.pc = "streams"
                      \/ UNCHANGED <<setting, child, mux>>
  BY DEF setupLogging, host
<1>8. waitIfAttaching => \/ child'.pc = "none"
                         \/ UNCHANGED <<setting, child, mux>>
  BY DEF waitIfAttaching, NoChild
<1>9. setupNetworking => UNCHANGED <<setting, child, mux>>
  BY DEF setupNetworking, OpenIpadmHandle, SetupInterfaces, LinkLocalRoutes, setupGateways,
         StaticRoutes, ForEach, setupStaticRoute, host, logger
<1>10. \/ OpenLog \/ getBrand \/ runIpmgmtd \/ killIpmgmtd \/ mountNfsVolumes
       \/ SetUser \/ buildCmdEnv \/ buildCmdline \/ getTtyStatus
       \/ getStdinStatus \/ setupTerminal \/ cleanup \/ rename \/ execCmdline
       => UNCHANGED <<setting, child, mux>>
  BY DEF OpenLog, getBrand, runIpmgmtd, killIpmgmtd, mountNfsVolumes, SetUser,
         buildCmdEnv, buildCmdline, getTtyStatus, getStdinStatus,
         setupTerminal, cleanup, rename, execCmdline, host, logger
<1> QED
  BY <1>1, <1>2, <1>3, <1>4, <1>5, <1>6, <1>7, <1>8, <1>9, <1>10, NextCases
  DEF Step, Outside

-----------------------------------------------------------------------------
(* The wait for an attach.                                                  *)

LEMMA WaitInit == Init => WaitInv
  BY DEF Init, WaitInv, Alive, NoChild

\* The functions apart from the wait do not touch what it is about.
LEMMA StepWait ==
    Step => \/ waitIfAttaching
            \/ /\ UNCHANGED <<setting, nboot, marker, waitKey, didPut>>
               /\ status = "boot"
               /\ pc # "waitIfAttaching"
               /\ pc' \in Late /\ InitProcess => pc \in Late
<1> USE DEF At, Goto, host, logger, memory, Late
<1>1. setupNetworking => /\ UNCHANGED <<setting, nboot, marker, waitKey, didPut>>
                         /\ status = "boot" /\ pc # "waitIfAttaching"
                         /\ pc' \notin Late
  BY DEF setupNetworking, OpenIpadmHandle, SetupInterfaces, LinkLocalRoutes, setupGateways,
         StaticRoutes, ForEach, setupStaticRoute
<1>2. \/ OpenLog \/ getBrand \/ runIpmgmtd \/ killIpmgmtd \/ mountNfsVolumes
      \/ SetUser \/ buildCmdline \/ getTtyStatus
      \/ getStdinStatus \/ setupLogging
      => /\ UNCHANGED <<setting, nboot, marker, waitKey, didPut>>
         /\ status = "boot" /\ pc # "waitIfAttaching" /\ pc' \notin Late
  BY DEF OpenLog, getBrand, runIpmgmtd, killIpmgmtd, mountNfsVolumes, SetUser,
         buildCmdline, Fill, getTtyStatus, getStdinStatus, setupLogging
<1>3. buildCmdEnv
      => /\ UNCHANGED <<setting, nboot, marker, waitKey, didPut>>
         /\ status = "boot" /\ pc # "waitIfAttaching"
         /\ InitProcess => pc' \notin Late
  BY DEF buildCmdEnv, Fill
<1>4. setupTerminal
      => /\ UNCHANGED <<setting, nboot, marker, waitKey, didPut>>
         /\ status = "boot" /\ pc # "waitIfAttaching" /\ pc' \notin Late
  BY DEF setupTerminal
<1>5. cleanup \/ rename \/ execCmdline
      => /\ UNCHANGED <<setting, nboot, marker, waitKey, didPut>>
         /\ status = "boot" /\ pc # "waitIfAttaching" /\ pc \in Late
  BY DEF cleanup, rename, execCmdline
<1> QED
  BY <1>1, <1>2, <1>3, <1>4, <1>5 DEF Step

LEMMA WaitNext ==
    ASSUME TypeInv, PcInv, WaitInv, [Next]_vars
    PROVE  WaitInv'
<1>0. nboot \in Nat /\ marker \in BOOLEAN /\ didPut \in BOOLEAN
  BY BoundAssumption DEF TypeInv, TypeOK
<1>1. CASE Boot
  <2>1. /\ setting' = setting /\ nboot' = nboot + 1 /\ status' = "boot"
        /\ marker' = marker /\ pc' \in {"main", "getUserGroupData"}
        /\ didPut' = FALSE
    BY <1>1 DEF Boot
  <2>2. nboot' <= 1 => ~marker
    BY <1>0, <2>1 DEF WaitInv
  <2> QED
    BY <1>0, <2>1, <2>2 DEF WaitInv, Alive, Late
<1>2. CASE Reconnect
  BY <1>2 DEF Reconnect, host, logger, WaitInv, Alive, InitProcess
<1>3. CASE Outside
  <2>1. Same
    BY <1>3, OutsideSame
  <2>2. marker' = marker /\ (waitKey' = waitKey \/ waitKey' = 0)
    BY <1>3 DEF Outside, LoggerStreams, LoggerExec, LoggerDies, Attach,
                ZfdAppears, Tick, host, vars
  <2>3. nboot = 0 => child'.pc = "none"
    BY <1>3 DEF Outside, LoggerStreams, LoggerExec, LoggerDies, Attach,
                ZfdAppears, Tick, process, logger, vars, WaitInv, NoChild
  <2> QED
    BY <2>1, <2>2, <2>3 DEF Same, WaitInv, Alive, InitProcess
<1>4. CASE Ends
  <2>1. nboot # 0
    BY <1>4 DEF Ends, Fatal, LoggerKillsInit, ContractKillsInit, WaitInv
  <2> QED
    BY <1>4, <2>1, EndsDead DEF WaitInv, Alive, InitProcess
<1>5. CASE waitIfAttaching
  <2>1. /\ status = "boot" /\ pc = "waitIfAttaching"
        /\ UNCHANGED <<setting, nboot, waitKey>>
        /\ \/ /\ waitKey = 0 /\ status' = "boot" /\ didPut' = didPut
              /\ marker' = (marker /\ (didPut => setting.refuse))
           \/ /\ waitKey > 0 /\ didPut' = TRUE /\ status' # "running"
              /\ pc' = "waitIfAttaching"
    BY <1>5 DEF waitIfAttaching, At
  <2>2. nboot # 0
    BY <2>1 DEF WaitInv
  <2>3. CASE waitKey = 0 /\ status' = "boot" /\ didPut' = didPut
             /\ marker' = (marker /\ (didPut => setting.refuse))
    BY <2>1, <2>2, <2>3 DEF WaitInv
  <2>4. CASE waitKey > 0 /\ didPut' = TRUE /\ status' # "running"
             /\ pc' = "waitIfAttaching"
    BY <2>1, <2>2, <2>4 DEF WaitInv, Late
  <2> QED
    BY <2>1, <2>3, <2>4
<1>6. CASE Step /\ ~waitIfAttaching
  <2>1. /\ UNCHANGED <<setting, nboot, marker, waitKey, didPut>>
        /\ status = "boot"
        /\ pc # "waitIfAttaching"
        /\ pc' \in Late /\ InitProcess => pc \in Late
    BY <1>6, StepWait
  <2>2. nboot # 0 /\ ((nboot <= 1 \/ didPut) /\ ~setting.refuse => ~marker)
    BY <2>1 DEF WaitInv
  <2> QED
    BY <2>1, <2>2 DEF WaitInv, Alive, InitProcess
<1> QED
  BY <1>1, <1>2, <1>3, <1>4, <1>5, <1>6, NextCases

-----------------------------------------------------------------------------
(* The theorems about the descriptors and the wait.                         *)

\* The type invariant: the process, the child of the logger and what outlives
\* them have their types whatever fails and however often the zone boots.
THEOREM TypeCorrect == Spec => [](TypeInv /\ PcInv)
<1>1. Init => TypeInv /\ PcInv
  BY TypeInit, PcInit
<1>2. (TypeInv /\ PcInv) /\ [Next]_vars => (TypeInv /\ PcInv)'
  BY TypeNext, PcNext
<1> QED
  BY <1>1, <1>2, PTL DEF Spec

LEMMA TableAlways == Spec => [](TableInv /\ LoggerInv)
<1>1. Init => TableInv /\ LoggerInv
  BY TableInit, LoggerInit
<1>2. (TypeInv /\ PcInv) /\ (TableInv /\ LoggerInv) /\ [Next]_vars
      => (TableInv /\ LoggerInv)'
  BY TableNext, LoggerNext
<1> QED
  BY <1>1, <1>2, TypeCorrect, PTL DEF Spec

\* However often the connection to the metadata agent is lost, with and without
\* /dev/urandom, a door that stays open and a terminal: the streams get their
\* numbers (assertFd does not abort); the logger reads the linked streams and
\* keeps its copy of the log on 0; closing 4, 5 and 6 leaves dockerinit's command
\* nothing of the metadata client, and dockerexec's command exactly one
\* descriptor more than its streams: the caller's 3 or, if the caller has none,
\* the first one of the client, which is not closed.
THEOREM DescriptorsAreAsCounted == Spec => []DescriptorsAsCounted
<1>1. TableInv /\ LoggerInv => DescriptorsAsCounted
  BY DEF TableInv, LoggerInv, DescriptorsAsCounted, LoggerReads
<1> QED
  BY <1>1, TableAlways, PTL

LEMMA WaitAlways == Spec => []WaitInv
<1>1. (TypeInv /\ PcInv) /\ WaitInv /\ [Next]_vars => WaitInv'
  BY WaitNext
<1> QED
  BY <1>1, WaitInit, TypeCorrect, PTL DEF Spec

\* The marker in the metadata does not outlive the wait of the boot that has put
\* it, be it the first or a later one, whether an attach ends the wait or the
\* agent is slow, unless the agent refuses to delete it.
THEOREM MarkerIsGone == Spec => []MarkerGone
<1>1. WaitInv => MarkerGone
  BY DEF WaitInv, MarkerGone
<1> QED
  BY <1>1, WaitAlways, PTL

-----------------------------------------------------------------------------
(* The network.                                                             *)

IsNet(n) == n = [up |-> n.up, routes |-> n.routes]

\* Nothing is taken away.
Grows(n, m) == IsNet(m) /\ m.up = n.up /\ n.routes \subseteq m.routes

\* addRoute adds a route if it is a link's or its gateway is reached.
LEMMA AddRoute ==
    ASSUME NEW n, IsNet(n), NEW dst, NEW gw, NEW link \in BOOLEAN
    PROVE  /\ Grows(n, addRoute(n, dst, gw, link))
           /\ link \/ Reached(n, gw) =>
                 \E s \in addRoute(n, dst, gw, link).routes :
                     s.dst = dst /\ s.link = link
<1> DEFINE rt == [dst |-> dst, gw |-> gw, link |-> link]
           m == [up |-> n.up, routes |-> n.routes \cup {rt}]
<1>1. rt.dst = dst /\ rt.link = link
  OBVIOUS
<1> HIDE DEF rt
<1>2. [n EXCEPT !.routes = @ \cup {rt}] = m
  BY DEF IsNet
<1>3. Grows(n, m) /\ Grows(n, n) /\ rt \in m.routes
  BY DEF Grows, IsNet
<1>4. addRoute(n, dst, gw, link) = IF link \/ Reached(n, gw) THEN m ELSE n
  BY <1>2 DEF addRoute, rt
<1> HIDE DEF m
<1> QED
  BY <1>1, <1>3, <1>4

\* What a static route leaves: it is there, or it was not its turn, or its
\* gateway is not reached.
LEMMA StaticRouteGives ==
    ASSUME NEW n, IsNet(n), NEW r \in StaticRoute, NEW only \in BOOLEAN
    PROVE  LET m == setupStaticRoute(n, r, only)
           IN /\ Grows(n, m)
              /\ only /\ r.linklocal =>
                    \E s \in m.routes : s.link /\ s.dst = r.dst
              /\ ~r.linklocal /\ Reached(n, r.gw) =>
                    \E s \in m.routes : s.dst = r.dst
<1>1. r.linklocal \in BOOLEAN
  BY DEF StaticRoute
<1>2. /\ Grows(n, addRoute(n, r.dst, r.gw, r.linklocal))
      /\ r.linklocal \/ Reached(n, r.gw) =>
            \E s \in addRoute(n, r.dst, r.gw, r.linklocal).routes :
                s.dst = r.dst /\ s.link = r.linklocal
  BY <1>1, AddRoute
<1>3. Grows(n, n)
  BY DEF Grows
<1>4. CASE r.linklocal /\ ~only
  BY <1>3, <1>4 DEF setupStaticRoute
<1>5. CASE ~(r.linklocal /\ ~only)
  <2>1. setupStaticRoute(n, r, only) = addRoute(n, r.dst, r.gw, r.linklocal)
    BY <1>5 DEF setupStaticRoute
  <2> QED
    BY <1>1, <1>2, <2>1
<1> QED
  BY <1>4, <1>5

LEMMA GatewayGives ==
    ASSUME NEW n, IsNet(n), NEW i \in Nic
    PROVE  LET m == setupGateway(n, i)
           IN /\ Grows(n, m)
              /\ i.primary /\ i.gw # NULL /\ Reached(n, i.gw) =>
                    \E s \in m.routes : s.dst = "default"
<1>1. /\ Grows(n, addRoute(n, "default", i.gw, FALSE))
      /\ Reached(n, i.gw) =>
            \E s \in addRoute(n, "default", i.gw, FALSE).routes :
                s.dst = "default"
  <2>1. \A b \in BOOLEAN :
            /\ Grows(n, addRoute(n, "default", i.gw, b))
            /\ Reached(n, i.gw) =>
                  \E s \in addRoute(n, "default", i.gw, b).routes :
                      s.dst = "default"
    BY AddRoute
  <2>2. FALSE \in BOOLEAN
    OBVIOUS
  <2> QED
    BY <2>1, <2>2, Zenon
<1>2. Grows(n, n)
  BY DEF Grows
<1> QED
  BY <1>1, <1>2 DEF setupGateway

\* With the interfaces up and the link-local routes in place, what is near is
\* reached.
LEMMA NearReached ==
    ASSUME setting.routes \in Seq(StaticRoute),
           net.up = {"lo0"} \cup {i.net : i \in Range(setting.nics)},
           LinkRoutes(Len(setting.routes)), NEW gw, Near(gw)
    PROVE  Reached(net, gw)
<1>1. CASE \E i \in Range(setting.nics) : i.net = gw
  BY <1>1 DEF Reached
<1>2. CASE \E l \in Range(setting.routes) : l.linklocal /\ l.dst = gw
  <2>1. PICK j \in DOMAIN setting.routes :
            setting.routes[j].linklocal /\ setting.routes[j].dst = gw
    BY <1>2 DEF Range
  <2>2. j <= Len(setting.routes)
    OBVIOUS
  <2> QED
    BY <2>1, <2>2 DEF LinkRoutes, Reached
<1> QED
  BY <1>1, <1>2 DEF Near

LEMMA NetInit == Init => NetInv
  BY DEF Init, NetInv, Alive

\* A step of a function that does not touch the network, from one that follows
\* the setup to another one.
LEMMA NetStays ==
    ASSUME setting' = setting, net' = net, NetInv, Alive,
           pc \in AfterStatic, Alive' => pc' \in AfterStatic
    PROVE  NetInv'
<1> SUFFICES ASSUME Alive', InitProcess' PROVE NetOK(pc)'
  BY DEF NetInv
<1>1. NetOK(pc) /\ InitProcess
  BY DEF NetInv, InitProcess
<1>2. Grows(net, net')
  BY <1>1 DEF NetOK, Grows, IsNet
<1>3. /\ IsNet(net)
      /\ net.up = {"lo0"} \cup {i.net : i \in Range(setting.nics)}
      /\ LinkRoutes(Len(setting.routes)) /\ Gateways(Len(setting.nics))
      /\ Statics(Len(setting.routes))
  BY <1>1 DEF NetOK, IsNet, AfterStatic, AfterGateways, AfterLinkLocal,
              AfterInterfaces
<1>4. /\ LinkRoutes(Len(setting.routes))' /\ Gateways(Len(setting.nics))'
      /\ Statics(Len(setting.routes))'
  BY <1>3 DEF LinkRoutes, Gateways, Statics, Far, Near
<1>5. pc' \notin {"linkLocalRoutes", "setupGateways", "staticRoutes"}
  BY DEF AfterStatic, AfterUser, AfterEnv, AfterCmdline, AfterTerminal, Late
<1> QED
  BY <1>3, <1>4, <1>5 DEF NetOK, IsNet

\* The functions after the setup of the network.
LEMMA LaterStep ==
    ASSUME PcInv, Step, ~setupNetworking, ~OpenLog, ~getBrand, ~runIpmgmtd
    PROVE  /\ UNCHANGED <<setting, net>> /\ Alive
           /\ pc \in AfterStatic /\ (Alive' => pc' \in AfterStatic)
<1> USE DEF At, Goto, host, logger, memory, AfterStatic, AfterUser, AfterEnv,
            AfterCmdline, AfterTerminal, Late, Alive
<1>1. \/ killIpmgmtd \/ mountNfsVolumes \/ SetUser \/ getTtyStatus
      \/ getStdinStatus \/ setupLogging \/ waitIfAttaching \/ cleanup \/ rename
      \/ execCmdline
      => UNCHANGED <<setting, net>> /\ Alive
         /\ pc \in AfterStatic /\ pc' \in AfterStatic
  BY DEF killIpmgmtd, mountNfsVolumes, SetUser, getTtyStatus,
         getStdinStatus, setupLogging, waitIfAttaching, cleanup, rename,
         execCmdline
<1>2. buildCmdEnv \/ buildCmdline
      => UNCHANGED <<setting, net>> /\ Alive
         /\ pc \in AfterStatic /\ pc' \in AfterStatic
  BY DEF buildCmdEnv, buildCmdline, Fill
<1>3. setupTerminal
      => UNCHANGED <<setting, net>> /\ Alive
         /\ pc \in AfterStatic /\ pc' \in AfterStatic
  BY DEF setupTerminal
<1> QED
  BY <1>1, <1>2, <1>3 DEF Step

LEMMA NetNext ==
    ASSUME TypeInv, PcInv, NetInv, [Next]_vars
    PROVE  NetInv'
<1> DEFINE Up == {"lo0"} \cup {i.net : i \in Range(setting.nics)}
<1>0. /\ setting.nics \in Seq(Nic) /\ setting.routes \in Seq(StaticRoute)
      /\ next \in Nat \ {0}
  BY SettingType DEF TypeInv, PcInv
<1>1. CASE Boot
  <2>1. net' = NoNet /\ (InitProcess' => pc' = "main")
    BY <1>1 DEF Boot, InitProcess
  <2> QED
    BY <2>1 DEF NetInv, NetOK, NoNet, AfterInterfaces, AfterLinkLocal,
                AfterGateways, AfterStatic, AfterUser, AfterEnv, AfterCmdline,
                AfterTerminal, Late
<1>2. CASE Reconnect \/ Outside
  <2>1. UNCHANGED <<setting, pc, status, net, next>>
    BY <1>2, OutsideSame DEF Reconnect, host, memory, Same
  <2>2. /\ \A k : LinkRoutes(k)' = LinkRoutes(k)
        /\ \A k : Gateways(k)' = Gateways(k)
        /\ \A k : Statics(k)' = Statics(k)
    BY <2>1 DEF LinkRoutes, Gateways, Statics, Far, Near
  <2> QED
    BY <2>1, <2>2 DEF NetInv, NetOK, Alive, InitProcess
<1>3. CASE Ends
  BY <1>3, EndsDead DEF NetInv, Alive
<1>4. CASE OpenLog \/ getBrand \/ runIpmgmtd
  <2>1. /\ UNCHANGED <<setting, net>> /\ Alive
        /\ pc' \in {"getBrand", "runIpmgmtd", "openIpadmHandle"}
    BY <1>4 DEF OpenLog, getBrand, runIpmgmtd, At, Goto, host, memory, Alive
  <2>2. pc' \notin AfterInterfaces
    BY <2>1 DEF AfterInterfaces, AfterLinkLocal, AfterGateways, AfterStatic,
                AfterUser, AfterEnv, AfterCmdline, AfterTerminal, Late
  <2> QED
    BY <2>1, <2>2 DEF NetInv, NetOK, InitProcess, AfterInterfaces,
                      AfterLinkLocal, AfterGateways
<1>5. CASE OpenIpadmHandle
  <2>1. /\ setting' = setting /\ Alive /\ pc' = "setupInterfaces"
        /\ net' = [net EXCEPT !.up = {"lo0"}]
    BY <1>5 DEF OpenIpadmHandle, At, Goto, host, Alive
  <2>2. pc' \notin AfterInterfaces
    BY <2>1 DEF AfterInterfaces, AfterLinkLocal, AfterGateways, AfterStatic,
                AfterUser, AfterEnv, AfterCmdline, AfterTerminal, Late
  <2>3. IsNet(net) /\ InitProcess => IsNet(net')
    BY <2>1 DEF IsNet
  <2> QED
    BY <2>1, <2>2, <2>3 DEF NetInv, NetOK, IsNet, InitProcess, AfterInterfaces,
                            AfterLinkLocal, AfterGateways
<1>6. CASE SetupInterfaces
  <2>1. /\ setting' = setting /\ Alive /\ pc = "setupInterfaces"
        /\ pc' = "linkLocalRoutes"
        /\ net' = [net EXCEPT !.up = Up] /\ next' = next
    BY <1>6 DEF SetupInterfaces, setupInterfaces, At, Goto, host, Alive
  <2>2. next' = 1
    BY <2>1 DEF PcInv
  <2>3. InitProcess => IsNet(net') /\ net'.up = Up
    BY <2>1 DEF NetInv, NetOK, IsNet
  <2>4. LinkRoutes(next - 1)'
    BY <1>0, <2>1, <2>2 DEF LinkRoutes
  <2>5. pc' \notin AfterLinkLocal
    BY <2>1 DEF AfterLinkLocal, AfterGateways, AfterStatic,
                AfterUser, AfterEnv, AfterCmdline, AfterTerminal, Late
  <2> QED
    BY <2>1, <2>3, <2>4, <2>5
    DEF NetInv, NetOK, IsNet, InitProcess, AfterLinkLocal, AfterGateways
<1>7. CASE LinkLocalRoutes
  <2> DEFINE r == setting.routes[next]
  <2>1. /\ setting' = setting /\ Alive /\ pc = "linkLocalRoutes"
        /\ \/ /\ next <= Len(setting.routes) /\ next' = next + 1 /\ pc' = pc
              /\ net' = setupStaticRoute(net, r, TRUE)
           \/ /\ next > Len(setting.routes) /\ next' = 1 /\ net' = net
              /\ pc' = "setupGateways"
    BY <1>0, <1>7 DEF LinkLocalRoutes, ForEach, setupStaticRoute, At, Goto, host,
                      Alive
  <2> SUFFICES ASSUME InitProcess PROVE NetOK(pc)'
    BY <2>1 DEF NetInv, InitProcess
  <2>2. IsNet(net) /\ net.up = Up /\ LinkRoutes(next - 1)
    BY <2>1 DEF NetInv, NetOK, IsNet, AfterInterfaces
  <2>3. CASE /\ next <= Len(setting.routes) /\ next' = next + 1 /\ pc' = pc
             /\ net' = setupStaticRoute(net, r, TRUE)
    <3>1. r \in StaticRoute /\ next \in DOMAIN setting.routes
      BY <1>0, <2>3
    <3>2. /\ Grows(net, net')
          /\ r.linklocal => \E s \in net'.routes : s.link /\ s.dst = r.dst
      <4>1. \A b \in BOOLEAN :
                LET m == setupStaticRoute(net, r, b)
                IN /\ Grows(net, m)
                   /\ b /\ r.linklocal =>
                         \E s \in m.routes : s.link /\ s.dst = r.dst
        BY <2>2, <3>1, StaticRouteGives
      <4>2. LET m == setupStaticRoute(net, r, TRUE)
            IN /\ Grows(net, m)
               /\ r.linklocal => \E s \in m.routes : s.link /\ s.dst = r.dst
        BY <4>1, Zenon
      <4>3. CASE net' = setupStaticRoute(net, r, TRUE)
        BY <4>2, <4>3, Zenon
      <4> QED
        BY <2>3, <4>3
    <3>3. LinkRoutes(next - 1)'
      <4> SUFFICES ASSUME NEW j \in DOMAIN setting.routes, j <= next,
                          setting.routes[j].linklocal
                   PROVE  \E s \in net'.routes :
                              s.link /\ s.dst = setting.routes[j].dst
        <5>1. setting' = setting /\ next' - 1 = next
          BY <1>0, <2>1, <2>3
        <5> QED
          BY <5>1 DEF LinkRoutes
      <4>1. CASE j = next
        BY <3>2, <4>1
      <4>2. CASE j # next
        <5>1. j <= next - 1
          BY <1>0, <4>2
        <5> QED
          BY <2>2, <3>2, <5>1 DEF LinkRoutes, Grows
      <4> QED
        BY <4>1, <4>2
    <3>4. pc' \notin AfterLinkLocal
      BY <2>1, <2>3 DEF AfterLinkLocal, AfterGateways, AfterStatic,
                  AfterUser, AfterEnv, AfterCmdline, AfterTerminal, Late
    <3> QED
      BY <2>1, <2>2, <3>2, <3>3, <3>4
      DEF NetOK, IsNet, Grows, AfterLinkLocal, AfterGateways
  <2>4. CASE /\ next > Len(setting.routes) /\ next' = 1 /\ net' = net
             /\ pc' = "setupGateways"
    <3>1. LinkRoutes(Len(setting.routes))'
      BY <1>0, <2>1, <2>2, <2>4 DEF LinkRoutes
    <3>2. Gateways(next - 1)'
      BY <1>0, <2>1, <2>4 DEF Gateways
    <3>3. pc' \notin AfterGateways
      BY <2>4 DEF AfterGateways, AfterStatic,
                  AfterUser, AfterEnv, AfterCmdline, AfterTerminal, Late
    <3> QED
      BY <2>1, <2>2, <2>4, <3>1, <3>2, <3>3 DEF NetOK, IsNet, AfterGateways
  <2> QED
    BY <2>1, <2>3, <2>4
<1>8. CASE setupGateways
  <2> DEFINE i == setting.nics[next]
  <2>1. /\ setting' = setting /\ Alive /\ pc = "setupGateways"
        /\ \/ /\ next <= Len(setting.nics) /\ next' = next + 1 /\ pc' = pc
              /\ net' = setupGateway(net, i)
           \/ /\ next > Len(setting.nics) /\ next' = 1 /\ net' = net
              /\ pc' = "staticRoutes"
    BY <1>0, <1>8 DEF setupGateways, ForEach, At, Goto, host, Alive
  <2> SUFFICES ASSUME InitProcess PROVE NetOK(pc)'
    BY <2>1 DEF NetInv, InitProcess
  <2>2. /\ IsNet(net) /\ net.up = Up /\ LinkRoutes(Len(setting.routes))
        /\ Gateways(next - 1)
    BY <2>1 DEF NetInv, NetOK, IsNet, AfterInterfaces, AfterLinkLocal
  <2>3. CASE /\ next <= Len(setting.nics) /\ next' = next + 1 /\ pc' = pc
             /\ net' = setupGateway(net, i)
    <3>1. i \in Nic /\ next \in DOMAIN setting.nics
      BY <1>0, <2>2, <2>3
    <3>2. /\ Grows(net, net')
          /\ i.primary /\ i.gw # NULL /\ Near(i.gw) =>
                \E s \in net'.routes : s.dst = "default"
      <4>1. Near(i.gw) => Reached(net, i.gw)
        BY <1>0, <2>2, NearReached
      <4> QED
        BY <2>2, <2>3, <3>1, <4>1, GatewayGives
    <3>3. Gateways(next - 1)'
      <4> SUFFICES ASSUME NEW j \in DOMAIN setting.nics, j <= next,
                          setting.nics[j].primary, setting.nics[j].gw # NULL,
                          Near(setting.nics[j].gw)
                   PROVE  \E s \in net'.routes : s.dst = "default"
        <5>1. setting' = setting /\ next' - 1 = next
          BY <1>0, <2>1, <2>3
        <5> QED
          BY <5>1 DEF Gateways, Near
      <4>1. CASE j = next
        BY <3>2, <4>1
      <4>2. CASE j # next
        <5>1. j <= next - 1
          BY <1>0, <4>2
        <5> QED
          BY <2>2, <3>2, <5>1 DEF Gateways, Grows
      <4> QED
        BY <4>1, <4>2
    <3>4. LinkRoutes(Len(setting.routes))'
      BY <2>1, <2>2, <3>2 DEF LinkRoutes, Grows
    <3>5. pc' \notin AfterGateways
      BY <2>1, <2>3 DEF AfterGateways, AfterStatic,
                  AfterUser, AfterEnv, AfterCmdline, AfterTerminal, Late
    <3> QED
      BY <2>1, <2>2, <2>3, <3>2, <3>3, <3>4, <3>5
      DEF NetOK, IsNet, Grows, AfterGateways
  <2>4. CASE /\ next > Len(setting.nics) /\ next' = 1 /\ net' = net
             /\ pc' = "staticRoutes"
    <3>1. /\ LinkRoutes(Len(setting.routes))'
          /\ Gateways(Len(setting.nics))'
      BY <1>0, <2>1, <2>2, <2>4 DEF LinkRoutes, Gateways, Near
    <3>2. Statics(next - 1)'
      BY <1>0, <2>1, <2>4 DEF Statics
    <3>3. pc' \notin AfterStatic
      BY <2>4 DEF AfterStatic,
                  AfterUser, AfterEnv, AfterCmdline, AfterTerminal, Late
    <3> QED
      BY <2>1, <2>2, <2>4, <3>1, <3>2, <3>3 DEF NetOK, IsNet
  <2> QED
    BY <2>1, <2>3, <2>4
<1>9. CASE StaticRoutes
  <2> DEFINE r == setting.routes[next]
  <2>1. /\ setting' = setting /\ Alive /\ pc = "staticRoutes"
        /\ \/ /\ next <= Len(setting.routes) /\ next' = next + 1 /\ pc' = pc
              /\ net' = setupStaticRoute(net, r, FALSE)
           \/ /\ next > Len(setting.routes) /\ next' = 1 /\ net' = net
              /\ pc' = "killIpmgmtd"
    BY <1>0, <1>9 DEF StaticRoutes, ForEach, setupStaticRoute, At, Goto, host,
                      Alive
  <2> SUFFICES ASSUME InitProcess PROVE NetOK(pc)'
    BY <2>1 DEF NetInv, InitProcess
  <2>2. /\ IsNet(net) /\ net.up = Up /\ LinkRoutes(Len(setting.routes))
        /\ Gateways(Len(setting.nics)) /\ Statics(next - 1)
    BY <2>1 DEF NetInv, NetOK, IsNet, AfterInterfaces, AfterLinkLocal,
                AfterGateways
  <2>3. CASE /\ next <= Len(setting.routes) /\ next' = next + 1 /\ pc' = pc
             /\ net' = setupStaticRoute(net, r, FALSE)
    <3>1. r \in StaticRoute /\ next \in DOMAIN setting.routes
      BY <1>0, <2>3
    <3>2. /\ Grows(net, net')
          /\ ~r.linklocal /\ Reached(net, r.gw) =>
                \E s \in net'.routes : s.dst = r.dst
      <4>1. \A b \in BOOLEAN :
                LET m == setupStaticRoute(net, r, b)
                IN /\ Grows(net, m)
                   /\ ~r.linklocal /\ Reached(net, r.gw) =>
                         \E s \in m.routes : s.dst = r.dst
        BY <2>2, <3>1, StaticRouteGives
      <4>2. LET m == setupStaticRoute(net, r, FALSE)
            IN /\ Grows(net, m)
               /\ ~r.linklocal /\ Reached(net, r.gw) =>
                     \E s \in m.routes : s.dst = r.dst
        BY <4>1, Zenon
      <4>3. CASE net' = setupStaticRoute(net, r, FALSE)
        BY <4>2, <4>3, Zenon
      <4> QED
        BY <2>3, <4>3
    <3>3. (\E s \in net'.routes : s.dst = r.dst) \/ Far(r)
      <4>1. CASE r.linklocal
        BY <2>2, <3>1, <3>2, <4>1, <1>0 DEF LinkRoutes, Grows
      <4>2. CASE ~r.linklocal /\ Near(r.gw)
        <5>1. Reached(net, r.gw)
          BY <1>0, <2>2, <4>2, NearReached
        <5> QED
          BY <3>2, <4>2, <5>1
      <4> QED
        BY <4>1, <4>2 DEF Far
    <3>4. Statics(next - 1)'
      <4> SUFFICES ASSUME NEW j \in DOMAIN setting.routes, j <= next
                   PROVE  \/ \E s \in net'.routes : s.dst = setting.routes[j].dst
                          \/ Far(setting.routes[j])
        <5>1. setting' = setting /\ next' - 1 = next
          BY <1>0, <2>1, <2>3
        <5> QED
          BY <5>1 DEF Statics, Far, Near
      <4>1. CASE j = next
        BY <3>3, <4>1
      <4>2. CASE j # next
        <5>1. j <= next - 1
          BY <1>0, <4>2
        <5> QED
          BY <2>2, <3>2, <5>1 DEF Statics, Grows
      <4> QED
        BY <4>1, <4>2
    <3>5. LinkRoutes(Len(setting.routes))' /\ Gateways(Len(setting.nics))'
      BY <2>1, <2>2, <3>2 DEF LinkRoutes, Gateways, Grows, Near
    <3>6. pc' \notin AfterStatic
      BY <2>1, <2>3 DEF AfterStatic,
                  AfterUser, AfterEnv, AfterCmdline, AfterTerminal, Late
    <3> QED
      BY <2>1, <2>2, <2>3, <3>2, <3>4, <3>5, <3>6 DEF NetOK, IsNet, Grows
  <2>4. CASE /\ next > Len(setting.routes) /\ next' = 1 /\ net' = net
             /\ pc' = "killIpmgmtd"
    <3>1. /\ LinkRoutes(Len(setting.routes))'
          /\ Gateways(Len(setting.nics))' /\ Statics(Len(setting.routes))'
      BY <1>0, <2>1, <2>2, <2>4 DEF LinkRoutes, Gateways, Statics, Far, Near
    <3> QED
      BY <2>1, <2>2, <2>4, <3>1 DEF NetOK, IsNet
  <2> QED
    BY <2>1, <2>3, <2>4
<1>10. CASE Step /\ ~setupNetworking /\ ~OpenLog /\ ~getBrand /\ ~runIpmgmtd
  BY <1>10, LaterStep, NetStays
<1> QED
  BY <1>1, <1>2, <1>3, <1>4, <1>5, <1>6, <1>7, <1>8, <1>9, <1>10, NextCases
  DEF setupNetworking

\* When the command runs, every static route is there whose gateway is on a
\* network of the zone, be it that of a NIC or one that a link-local route
\* anywhere in the list made the zone's own, and so is the default route by such
\* a gateway of the primary NIC: two passes are enough for every list.
THEOREM RoutesAreComplete == Spec => []RoutesComplete
<1>1. (TypeInv /\ PcInv) /\ NetInv /\ [Next]_vars => NetInv'
  BY NetNext
<1>2. TypeInv /\ PcInv /\ NetInv => RoutesComplete
  <2> SUFFICES ASSUME TypeInv, PcInv, NetInv, status = "running", InitProcess
               PROVE  /\ \A r \in Range(setting.routes) :
                            (\E s \in net.routes : s.dst = r.dst) \/ Far(r)
                      /\ \A i \in Range(setting.nics) :
                            i.primary /\ i.gw # NULL /\ Near(i.gw)
                                => \E s \in net.routes : s.dst = "default"
    BY DEF RoutesComplete, Far
  <2>1. /\ Statics(Len(setting.routes)) /\ Gateways(Len(setting.nics))
    BY DEF PcInv, NetInv, NetOK, Alive, AfterGateways, AfterStatic, AfterUser,
           AfterEnv, AfterCmdline, AfterTerminal, Late
  <2>2. setting.nics \in Seq(Nic) /\ setting.routes \in Seq(StaticRoute)
    BY SettingType DEF TypeInv
  <2> QED
    BY <2>1, <2>2 DEF Statics, Gateways, Range
<1> QED
  BY <1>1, <1>2, NetInit, TypeCorrect, PTL DEF Spec

-----------------------------------------------------------------------------
(* The environment: one more entry.                                         *)

\* An entry that is the last of its name stays so unless the next one has it.
LEMMA LastStays ==
    ASSUME NEW all, NEW k \in Nat, NEW m \in 1..k, IsLast(all, k, m),
           all[k + 1].name # all[m].name
    PROVE  IsLast(all, k + 1, m)
  BY DEF IsLast

\* A list without the name gets the entry at its end.
LEMMA MergeNew ==
    ASSUME NEW all \in Seq(EnvEntry), NEW k \in Nat, k < Len(all),
           all[k + 1].name # EmptyText,
           NEW sl, NEW n \in Nat, Merged(sl, n, all, k),
           \A i \in 0..(n - 1) : strlist_get(sl, i).name # all[k + 1].name
    PROVE  Merged(strlist_set_tail(sl, all[k + 1]), n + 1, all, k + 1)
<1> DEFINE e == all[k + 1]
           new == strlist_set_tail(sl, e)
<1>1. e \in EnvEntry /\ e # NULL
  BY SettingAssumption
<1>2. /\ Terminated(new)
      /\ Contiguous(new, n + 1)
      /\ strlist_get(new, n) = e
      /\ \A j \in 0..(n - 1) : strlist_get(new, j) = strlist_get(sl, j)
  BY <1>1, SetTailAppends DEF Merged
<1> HIDE DEF new
<1>3. IsLast(all, k + 1, k + 1)
  BY DEF IsLast
<1>4. ASSUME NEW i \in 0..n
      PROVE  \E m \in 1..(k + 1) : IsLast(all, k + 1, m)
                                   /\ strlist_get(new, i) = all[m]
  <2>1. CASE i = n
    BY <1>2, <1>3, <2>1
  <2>2. CASE i # n
    <3>1. i \in 0..(n - 1)
      BY <2>2
    <3>2. PICK m \in 1..k : IsLast(all, k, m) /\ strlist_get(sl, i) = all[m]
      BY <3>1 DEF Merged
    <3>3. IsLast(all, k + 1, m)
      BY <3>1, <3>2, LastStays
    <3> QED
      BY <1>2, <3>1, <3>2, <3>3
  <2> QED
    BY <2>1, <2>2
<1>5. ASSUME NEW m \in 1..(k + 1), all[m].name # EmptyText
      PROVE  \E i \in 0..n : strlist_get(new, i).name = all[m].name
  <2>1. CASE m = k + 1
    BY <1>2, <2>1
  <2>2. CASE m # k + 1
    <3>1. m \in 1..k
      BY <2>2
    <3>2. PICK i \in 0..(n - 1) : strlist_get(sl, i).name = all[m].name
      BY <1>5, <3>1 DEF Merged
    <3> QED
      BY <1>2, <3>2
  <2> QED
    BY <2>1, <2>2
<1>6. ASSUME NEW i \in 0..n, NEW j \in 0..n,
             strlist_get(new, i).name = strlist_get(new, j).name
      PROVE  i = j
  <2>1. CASE i = n /\ j # n
    BY <1>2, <1>6, <2>1
  <2>2. CASE i # n /\ j = n
    BY <1>2, <1>6, <2>2
  <2>3. CASE i # n /\ j # n
    <3>1. i \in 0..(n - 1) /\ j \in 0..(n - 1)
      BY <2>3
    <3>2. strlist_get(sl, i).name = strlist_get(sl, j).name
      BY <1>2, <1>6, <3>1
    <3> QED
      BY <3>1, <3>2 DEF Merged
  <2> QED
    BY <2>1, <2>2, <2>3
<1>7. (n + 1) - 1 = n
  OBVIOUS
<1> QED
  BY <1>2, <1>4, <1>5, <1>6, <1>7 DEF Merged, new

\* A list that has the name has it once, and the entry takes its place.
LEMMA MergeReplace ==
    ASSUME NEW all \in Seq(EnvEntry), NEW k \in Nat, k < Len(all),
           all[k + 1].name # EmptyText,
           NEW sl, NEW n \in Nat, Merged(sl, n, all, k),
           NEW p \in 0..(n - 1), strlist_get(sl, p).name = all[k + 1].name
    PROVE  Merged(strlist_set(sl, p, all[k + 1]), n, all, k + 1)
<1> DEFINE e == all[k + 1]
           new == strlist_set(sl, p, e)
<1>1. e \in EnvEntry /\ e # NULL
  BY SettingAssumption
<1>2. /\ Terminated(new)
      /\ strlist_get(new, p) = e
      /\ \A j \in Nat \ {p} : strlist_get(new, j) = strlist_get(sl, j)
  BY SetStores DEF Merged
<1> HIDE DEF new
<1>3. IsLast(all, k + 1, k + 1)
  BY DEF IsLast
<1>4. Contiguous(new, n)
  <2> SUFFICES ASSUME NEW i \in Nat
               PROVE  (strlist_get(new, i) # NULL) <=> (i < n)
    BY DEF Contiguous
  <2>1. CASE i = p
    BY <1>1, <1>2, <2>1
  <2>2. CASE i # p
    BY <1>2, <2>2 DEF Merged, Contiguous
  <2> QED
    BY <2>1, <2>2
<1>5. ASSUME NEW i \in 0..(n - 1)
      PROVE  \E m \in 1..(k + 1) : IsLast(all, k + 1, m)
                                   /\ strlist_get(new, i) = all[m]
  <2>1. CASE i = p
    BY <1>2, <1>3, <2>1
  <2>2. CASE i # p
    <3>1. strlist_get(sl, i).name # e.name
      BY <2>2 DEF Merged
    <3>2. PICK m \in 1..k : IsLast(all, k, m) /\ strlist_get(sl, i) = all[m]
      BY DEF Merged
    <3>3. IsLast(all, k + 1, m)
      BY <3>1, <3>2, LastStays
    <3> QED
      BY <1>2, <2>2, <3>2, <3>3
  <2> QED
    BY <2>1, <2>2
<1>6. \A i \in 0..(n - 1) : strlist_get(new, i).name = strlist_get(sl, i).name
  BY <1>2
<1>7. ASSUME NEW m \in 1..(k + 1), all[m].name # EmptyText
      PROVE  \E i \in 0..(n - 1) : strlist_get(new, i).name = all[m].name
  <2>1. CASE m = k + 1
    BY <1>2, <2>1
  <2>2. CASE m # k + 1
    <3>1. m \in 1..k
      BY <2>2
    <3> QED
      BY <1>6, <1>7, <3>1 DEF Merged
  <2> QED
    BY <2>1, <2>2
<1>8. \A i, j \in 0..(n - 1) :
          strlist_get(new, i).name = strlist_get(new, j).name => i = j
  BY <1>6 DEF Merged
<1> QED
  BY <1>2, <1>4, <1>5, <1>7, <1>8 DEF Merged, new

\* cbEachEnvEntry: an entry without a name changes nothing, any other replaces
\* the one of its name or is added.
THEOREM EntryMerges ==
    ASSUME NEW all \in Seq(EnvEntry), NEW k \in Nat, k < Len(all),
           NEW sl, NEW n \in Nat, Merged(sl, n, all, k)
    PROVE  \E m \in Nat : Merged(cbEachEnvEntry(sl, all[k + 1]), m, all, k + 1)
<1> DEFINE e == all[k + 1]
           same == {i \in 0..sl.capacity :
                       strlist_get(sl, i) # NULL /\ strlist_get(sl, i).name = e.name}
<1>1. CASE e.name = EmptyText
  <2>1. cbEachEnvEntry(sl, e) = sl
    BY <1>1 DEF cbEachEnvEntry
  <2>2. ASSUME NEW m \in 1..k, IsLast(all, k, m)
        PROVE  IsLast(all, k + 1, m)
    BY <1>1, <2>2, LastStays DEF IsLast
  <2>3. \A i \in 0..(n - 1) : \E m \in 1..(k + 1) :
            IsLast(all, k + 1, m) /\ strlist_get(sl, i) = all[m]
    BY <2>2 DEF Merged
  <2>4. \A m \in 1..(k + 1) : all[m].name # EmptyText =>
            \E i \in 0..(n - 1) : strlist_get(sl, i).name = all[m].name
    BY <1>1 DEF Merged
  <2>5. Merged(sl, n, all, k + 1)
    BY <2>3, <2>4 DEF Merged
  <2> QED
    BY <2>1, <2>5
<1>2. CASE e.name # EmptyText /\ same = {}
  <2>1. cbEachEnvEntry(sl, e) = strlist_set_tail(sl, e)
    BY <1>2 DEF cbEachEnvEntry, insertOrReplaceEnv
  <2>2. sl.capacity \in Nat /\ n <= sl.capacity
    BY FirstEmptyFollows DEF Merged, Terminated
  <2>3. \A i \in 0..(n - 1) : strlist_get(sl, i).name # e.name
    BY <1>2, <2>2 DEF Merged, Contiguous
  <2>4. Merged(strlist_set_tail(sl, e), n + 1, all, k + 1)
    BY <1>2, <2>3, MergeNew
  <2> QED
    BY <2>1, <2>4
<1>3. CASE e.name # EmptyText /\ same # {}
  <2>1. cbEachEnvEntry(sl, e) = strlist_set(sl, Min(same), e)
    BY <1>3 DEF cbEachEnvEntry, insertOrReplaceEnv
  <2>2. \A i \in same : i \in 0..(n - 1) /\ strlist_get(sl, i).name = e.name
    BY DEF Merged, Contiguous, Terminated
  <2>3. \A i, j \in same : i = j
    BY <2>2 DEF Merged
  <2>4. Min(same) \in same
    <3>1. PICK p \in same : TRUE
      BY <1>3
    <3>2. \A y \in same : p =< y
      BY <2>2, <2>3
    <3> HIDE DEF same
    <3> QED
      BY <3>1, <3>2 DEF Min
  <2>5. Merged(strlist_set(sl, Min(same), e), n, all, k + 1)
    BY <1>3, <2>2, <2>4, MergeReplace
  <2> QED
    BY <2>1, <2>5
<1> QED
  BY <1>1, <1>2, <1>3

-----------------------------------------------------------------------------
(* The user, the environment and the command line.                          *)

\* What the functions do to them: nothing before getUserGroupData, nothing
\* after buildCmdline.
LEMMA StepData ==
    ASSUME PcInv, Step
    PROVE  /\ setting' = setting /\ status = "boot"
           /\ \/ /\ pc \notin AfterUser /\ pc' \notin AfterUser
                 /\ status' = "boot" /\ UNCHANGED <<user, env, cmdline, ids>>
              \/ SetUser
              \/ buildCmdEnv
              \/ buildCmdline
              \/ /\ pc \in AfterCmdline /\ pc' \in AfterCmdline
                 /\ UNCHANGED <<user, env, cmdline>>
                 /\ status' = "running" => execCmdline
<1> USE DEF At, Goto, host, logger, memory, AfterUser, AfterEnv, AfterCmdline,
            AfterTerminal, Late
<1>1. \/ OpenLog \/ getBrand \/ runIpmgmtd \/ killIpmgmtd \/ mountNfsVolumes
      => /\ setting' = setting /\ status = "boot"
         /\ pc \notin AfterUser /\ pc' \notin AfterUser
         /\ status' = "boot" /\ UNCHANGED <<user, env, cmdline, ids>>
  BY DEF OpenLog, getBrand, runIpmgmtd, killIpmgmtd, mountNfsVolumes
<1>2. setupNetworking
      => /\ setting' = setting /\ status = "boot"
         /\ pc \notin AfterUser /\ pc' \notin AfterUser
         /\ status' = "boot" /\ UNCHANGED <<user, env, cmdline, ids>>
  BY DEF setupNetworking, OpenIpadmHandle, SetupInterfaces, LinkLocalRoutes, setupGateways,
         StaticRoutes, ForEach, setupStaticRoute
<1>3. SetUser \/ buildCmdEnv \/ buildCmdline
      => setting' = setting /\ status = "boot"
  BY DEF SetUser, buildCmdEnv, buildCmdline
<1>4. \/ getTtyStatus \/ getStdinStatus \/ setupLogging \/ waitIfAttaching
      \/ cleanup \/ rename
      => /\ setting' = setting /\ status = "boot"
         /\ pc \in AfterCmdline /\ pc' \in AfterCmdline
         /\ UNCHANGED <<user, env, cmdline>> /\ status' # "running"
  BY DEF getTtyStatus, getStdinStatus, setupLogging, waitIfAttaching, cleanup,
         rename
<1>5. setupTerminal
      => /\ setting' = setting /\ status = "boot"
         /\ pc \in AfterCmdline /\ pc' \in AfterCmdline
         /\ UNCHANGED <<user, env, cmdline>> /\ status' # "running"
  BY DEF setupTerminal
<1>6. execCmdline
      => /\ setting' = setting /\ status = "boot"
         /\ pc \in AfterCmdline /\ pc' \in AfterCmdline
         /\ UNCHANGED <<user, env, cmdline>>
  BY DEF execCmdline
<1> QED
  BY <1>1, <1>2, <1>3, <1>4, <1>5, <1>6 DEF Step

\* getUserGroupData returns entries of the image.
LEMMA UserFound ==
    ASSUME NEW u
    PROVE  getUserGroupData(u) \in UserType
<1> DEFINE P == [uid : Nat, gid : Nat, home : STRING]
           pwd == FindUser(u.user)
           given == IF u.group = NULL THEN NULL ELSE FindGroup(u.group)
           grp == IF given = NULL /\ pwd # NULL THEN getgrgid(pwd.gid)
                  ELSE given
<1>1. pwd \in {NULL} \cup P
  <2> HIDE DEF P
  <2>1. Passwd \in [DOMAIN Passwd -> P]
    BY ImageAssumption DEF P
  <2>2. \A uid : getpwuid(uid) \in {NULL} \cup P
    BY <2>1 DEF getpwuid
  <2> QED
    BY <2>1, <2>2 DEF FindUser
<1>2. given \in {NULL} \cup Nat
  <2>1. Group \in [DOMAIN Group -> Nat] /\ Number \in [DOMAIN Number -> Nat]
    BY ImageAssumption
  <2>2. \A gid \in Nat : getgrgid(gid) \in {NULL} \cup Nat
    BY DEF getgrgid
  <2> QED
    BY <2>1, <2>2 DEF FindGroup
<1>3. pwd # NULL => pwd.gid \in Nat
  BY <1>1
<1> HIDE DEF pwd, given
<1>4. grp \in {NULL} \cup Nat
  BY <1>2, <1>3 DEF getgrgid
<1>5. getUserGroupData(u) = [pwd |-> pwd, grp |-> grp]
  BY DEF getUserGroupData, pwd, given
<1> HIDE DEF grp, P
<1> QED
  BY <1>1, <1>4, <1>5 DEF UserType, P

\* The identity that execCmdline takes is the one of docker:user.
LEMMA UserRuns ==
    ASSUME setting' = setting, user = getUserGroupData(setting.user), execCmdline
    PROVE  RunsAsUser'
<1> DEFINE pwd == FindUser(setting.user.user)
           given == IF setting.user.group = NULL THEN NULL
                    ELSE FindGroup(setting.user.group)
           own == getgrgid(pwd.gid)
           grp == IF given = NULL /\ pwd # NULL THEN own ELSE given
           new == [uid |-> IF user.pwd = NULL THEN 0 ELSE user.pwd.uid,
                   gid |-> IF user.grp = NULL THEN 0 ELSE user.grp,
                   groups |-> IF user.pwd = NULL \/ user.grp = NULL THEN 0
                              ELSE user.grp]
           gid == CASE given # NULL -> given
                    [] given = NULL /\ pwd # NULL /\ own # NULL -> pwd.gid
                    [] OTHER -> 0
<1>1. user.pwd = pwd /\ user.grp = grp
  BY DEF getUserGroupData
<1>2. ids' = new
  BY DEF execCmdline
<1>3. own # NULL => own = pwd.gid
  BY DEF getgrgid
<1>4. RunsAsUser' = (status' = "running" =>
          /\ ids'.uid = IF pwd # NULL THEN pwd.uid ELSE 0
          /\ ids'.gid = gid)
  BY DEF RunsAsUser
<1> HIDE DEF pwd, given, own
<1>5. ids'.uid = IF pwd # NULL THEN pwd.uid ELSE 0
  BY <1>1, <1>2
<1>6. ids'.gid = gid
  <2>1. ids'.gid = IF grp = NULL THEN 0 ELSE grp
    BY <1>1, <1>2
  <2>2. CASE given # NULL
    BY <2>1, <2>2
  <2>3. CASE given = NULL /\ pwd # NULL /\ own # NULL
    BY <1>3, <2>1, <2>3
  <2>4. CASE given = NULL /\ ~(pwd # NULL /\ own # NULL)
    BY <2>1, <2>4
  <2> QED
    BY <2>2, <2>3, <2>4
<1> QED
  BY <1>4, <1>5, <1>6

LEMMA UserInit == Init => UserInv
  BY DEF Init, UserInv, UserType, NoUser, Alive, RunsAsUser

LEMMA UserNext ==
    ASSUME TypeInv, PcInv, UserInv, [Next]_vars
    PROVE  UserInv'
<1>0. user \in UserType
  BY DEF UserInv
<1> SUFFICES /\ user' \in UserType
             /\ Alive' /\ pc' \in AfterUser =>
                    user' = getUserGroupData(setting.user)'
             /\ RunsAsUser'
  BY DEF UserInv
<1>1. CASE Boot
  <2>1. /\ setting' = setting /\ user' = NoUser /\ status' = "boot"
        /\ pc' \in {"main", "getUserGroupData"}
    BY <1>1 DEF Boot
  <2> QED
    BY <2>1 DEF NoUser, UserType, RunsAsUser, AfterUser, AfterEnv, AfterCmdline,
                AfterTerminal, Late
<1>2. CASE Reconnect \/ Outside
  <2>1. UNCHANGED <<setting, pc, status, user, ids>>
    BY <1>2, OutsideSame DEF Reconnect, host, memory, Same
  <2> QED
    BY <1>0, <2>1 DEF UserInv, Alive, RunsAsUser
<1>3. CASE Ends
  <2>1. status' \in {"exited", "killed"} /\ user' = user
    BY <1>3, EndsDead
  <2> QED
    BY <1>0, <2>1 DEF Alive, RunsAsUser
<1>4. CASE Step
  <2>0. setting' = setting /\ status = "boot"
    BY <1>4, StepData
  <2>a. getUserGroupData(setting.user)' = getUserGroupData(setting.user)
    BY <2>0
  <2>1. CASE /\ pc \notin AfterUser /\ pc' \notin AfterUser
             /\ status' = "boot" /\ UNCHANGED <<user, env, cmdline, ids>>
    BY <1>0, <2>0, <2>1 DEF RunsAsUser
  <2>2. CASE SetUser
    <3>1. user' = getUserGroupData(setting.user) /\ status' = "boot"
      BY <2>0, <2>2 DEF SetUser, Goto
    <3> QED
      BY <2>a, <3>1, UserFound DEF RunsAsUser
  <2>3. CASE buildCmdEnv \/ buildCmdline
    <3>1. user' = user /\ status' = "boot" /\ pc \in AfterUser
      BY <2>0, <2>3 DEF buildCmdEnv, buildCmdline, Fill, Goto, At, AfterUser,
                        AfterEnv
    <3> QED
      BY <1>0, <2>0, <2>a, <3>1 DEF UserInv, RunsAsUser, Alive
  <2>4. CASE /\ pc \in AfterCmdline /\ pc' \in AfterCmdline
             /\ UNCHANGED <<user, env, cmdline>>
             /\ status' = "running" => execCmdline
    <3>1. pc \in AfterUser
      BY <2>4 DEF AfterUser, AfterEnv
    <3>2. user = getUserGroupData(setting.user)
      BY <2>0, <3>1 DEF UserInv, Alive
    <3>3. CASE status' = "running"
      BY <1>0, <2>0, <2>4, <2>a, <3>2, <3>3, UserRuns
    <3>4. CASE status' # "running"
      BY <1>0, <2>0, <2>4, <2>a, <3>2, <3>4 DEF RunsAsUser
    <3> QED
      BY <3>3, <3>4
  <2> QED
    BY <1>4, <2>1, <2>2, <2>3, <2>4, StepData
<1> QED
  BY <1>1, <1>2, <1>3, <1>4, NextCases

EntriesOK ==
    /\ EnvEntries(Home) \in Seq(EnvEntry)
    /\ Len(EnvEntries(Home)) >= 3
    /\ CmdEntries \in Seq(STRING)

\* The environment consists of entries, and there are always the defaults.
LEMMA EntriesType == TypeInv /\ UserInv => EntriesOK
<1> SUFFICES ASSUME TypeInv, UserInv PROVE EntriesOK
  OBVIOUS
<1>1. setting.linkEnv \in Seq(EnvEntry) /\ setting.env \in Seq(EnvEntry)
  BY SettingType DEF TypeInv
<1>2. Home \in STRING
  <2>1. user.pwd = NULL \/ user.pwd \in [uid : Nat, gid : Nat, home : STRING]
    BY DEF UserInv, UserType
  <2> QED
    BY <2>1, TextAssumption DEF Home
<1> DEFINE base == <<Entry("TERM", "xterm"), Entry("HOME", Home),
                     Entry("PATH", "default")>>
           rest == IF InitProcess /\ setting.hostname
                   THEN <<Entry("HOSTNAME", "host")>> ELSE <<>>
<1>3. \A n, v \in STRING : Entry(n, v) \in EnvEntry
  BY DEF Entry, EnvEntry
<1>4. /\ Entry("TERM", "xterm") \in EnvEntry
      /\ Entry("HOME", Home) \in EnvEntry
      /\ Entry("PATH", "default") \in EnvEntry
      /\ Entry("HOSTNAME", "host") \in EnvEntry
  BY <1>2, <1>3, TextAssumption
<1>5. base \in Seq(EnvEntry) /\ Len(base) >= 3 /\ rest \in Seq(EnvEntry)
  BY <1>4
<1>6. EnvEntries(Home) = (base \o rest) \o setting.linkEnv \o setting.env
  BY DEF EnvEntries, Default
<1> HIDE DEF base, rest
<1>7. EnvEntries(Home) \in Seq(EnvEntry) /\ Len(EnvEntries(Home)) >= 3
  <2>1. \A a, b \in Seq(EnvEntry) :
            a \o b \in Seq(EnvEntry) /\ (Len(a) >= 3 => Len(a \o b) >= 3)
    OBVIOUS
  <2> DEFINE s1 == base \o rest
             s2 == s1 \o setting.linkEnv
             s3 == s2 \o setting.env
  <2>2. s1 \in Seq(EnvEntry) /\ Len(s1) >= 3
    BY <1>5, <2>1, Zenon
  <2> HIDE DEF s1
  <2>3. s2 \in Seq(EnvEntry) /\ Len(s2) >= 3
    BY <1>1, <2>1, <2>2, Zenon
  <2> HIDE DEF s2
  <2>4. s3 \in Seq(EnvEntry) /\ Len(s3) >= 3
    BY <1>1, <2>1, <2>3, Zenon
  <2> QED
    BY <1>6, <2>4, Zenon DEF s1, s2
<1>8. CmdEntries \in Seq(STRING)
  <2>1. setting.entrypoint \in Seq(STRING) /\ setting.cmd \in Seq(STRING)
    BY SettingType DEF TypeInv
  <2> QED
    BY <2>1 DEF CmdEntries
<1> QED
  BY <1>7, <1>8 DEF EntriesOK

\* The entries are what they were as long as the user is.
LEMMA EntriesStay ==
    ASSUME setting' = setting, user' = user
    PROVE  EnvEntries(Home)' = EnvEntries(Home) /\ CmdEntries' = CmdEntries
  BY DEF EnvEntries, Default, Home, CmdEntries, InitProcess

LEMMA EnvInit == Init => EnvInv /\ CmdInv
  BY DEF Init, EnvInv, CmdInv, Alive

LEMMA EnvNext ==
    ASSUME TypeInv, PcInv, UserInv, UserInv', EnvInv, [Next]_vars
    PROVE  EnvInv'
<1> DEFINE all == EnvEntries(Home)
<1> USE DEF Alive
<1>1. CASE Boot
  <2>1. env' = strlist_alloc(0) /\ pc' \in {"main", "getUserGroupData"}
    BY <1>1 DEF Boot
  <2> QED
    BY <2>1 DEF EnvInv, AfterUser, AfterEnv, AfterCmdline, AfterTerminal, Late
<1>2. CASE Reconnect \/ Outside
  <2>1. UNCHANGED <<setting, pc, status, user, env, next>>
    BY <1>2, OutsideSame DEF Reconnect, host, memory, Same
  <2>2. all' = all
    BY <2>1, EntriesStay
  <2> HIDE DEF all
  <2> QED
    BY <2>1, <2>2 DEF EnvInv, all, Merged, IsLast
<1>3. CASE Ends
  BY <1>3, EndsDead DEF EnvInv
<1>4. CASE Step
  <2>0. setting' = setting /\ status = "boot"
    BY <1>4, StepData
  <2>1. CASE /\ pc \notin AfterUser /\ pc' \notin AfterUser
             /\ status' = "boot" /\ UNCHANGED <<user, env, cmdline, ids>>
    <3>1. pc' \notin AfterEnv /\ pc' # "buildCmdEnv"
      BY <2>1 DEF AfterUser
    <3> QED
      BY <2>0, <2>1, <3>1 DEF EnvInv
  <2>2. CASE SetUser
    <3>1. /\ env' = env /\ pc' = "buildCmdEnv" /\ next' = next /\ pc = "getUserGroupData"
      BY <2>0, <2>2 DEF SetUser, Goto, At
    <3>2. next = 1 /\ env = strlist_alloc(0)
      BY <2>0, <3>1 DEF PcInv, EnvInv, AfterUser, AfterEnv, AfterCmdline,
                        AfterTerminal, Late
    <3>3. all' \in Seq(EnvEntry) /\ Len(all') >= 3
      <4>1. TypeInv'
        BY TypeNext
      <4>2. (TypeInv /\ UserInv => EntriesOK)'
        BY EntriesType, PTL
      <4> QED
        BY <4>1, <4>2 DEF EntriesOK
    <3> HIDE DEF all
    <3>4. Merged(strlist_alloc(0), 0, all', 0)
      BY AllocTerminated DEF Merged
    <3> QED
      BY <3>1, <3>2, <3>3, <3>4 DEF EnvInv, AfterUser, AfterEnv, AfterCmdline,
                                    AfterTerminal, Late, all
  <2>3. CASE buildCmdEnv
    <3>1. /\ pc = "buildCmdEnv" /\ user' = user
          /\ env' = cbEachEnvEntry(env, all[next])
          /\ \/ /\ next < Len(all) /\ next' = next + 1 /\ pc' = pc
             \/ /\ ~(next < Len(all)) /\ next' = 1
                /\ pc' \in {"buildCmdline", "cleanup"}
      BY <2>3 DEF buildCmdEnv, Fill, At, Goto
    <3>2. all' = all
      BY <2>0, <3>1, EntriesStay
    <3>3. all \in Seq(EnvEntry) /\ next \in Nat \ {0}
      BY EntriesType DEF EntriesOK, PcInv
    <3>4. PICK n \in Nat : Merged(env, n, all, next - 1)
      BY <2>0, <3>1 DEF EnvInv
    <3>5. next <= Len(all)
      BY <2>0, <3>1 DEF EnvInv
    <3> HIDE DEF all
    <3>6. PICK m \in Nat : Merged(env', m, all, next)
      <4>1. next - 1 \in Nat /\ next - 1 < Len(all) /\ (next - 1) + 1 = next
        BY <3>3, <3>5
      <4>2. \E m \in Nat : Merged(cbEachEnvEntry(env, all[(next - 1) + 1]), m,
                                  all, (next - 1) + 1)
        BY <3>3, <3>4, <4>1, EntryMerges
      <4> QED
        BY <3>1, <4>1, <4>2
    <3>7. CASE next < Len(all) /\ next' = next + 1 /\ pc' = pc
      <4>1. next' - 1 = next /\ next' <= Len(all)
        BY <3>3, <3>7
      <4>2. pc' \in AfterUser /\ pc' \notin AfterEnv
        BY <3>1, <3>7 DEF AfterUser, AfterEnv, AfterCmdline, AfterTerminal, Late
      <4> QED
        BY <3>2, <3>6, <4>1, <4>2 DEF EnvInv, all
    <3>8. CASE ~(next < Len(all)) /\ pc' \in {"buildCmdline", "cleanup"}
      <4>1. next = Len(all)
        BY <3>3, <3>5, <3>8
      <4>2. pc' \in AfterUser
        BY <3>8 DEF AfterUser, AfterEnv, AfterCmdline, AfterTerminal, Late
      <4> QED
        BY <3>2, <3>6, <3>8, <4>1, <4>2 DEF EnvInv, all
    <3> QED
      BY <3>1, <3>7, <3>8
  <2>4. CASE \/ buildCmdline
             \/ /\ pc \in AfterCmdline /\ pc' \in AfterCmdline
                /\ UNCHANGED <<user, env, cmdline>>
    <3>1. pc \in AfterEnv /\ pc' \in AfterEnv /\ user' = user /\ env' = env
      BY <2>4 DEF buildCmdline, Fill, At, Goto, AfterEnv, AfterCmdline
    <3>2. all' = all
      BY <2>0, <3>1, EntriesStay
    <3>3. pc' \in AfterUser /\ pc' # "buildCmdEnv"
      BY <3>1 DEF AfterUser, AfterEnv, AfterCmdline, AfterTerminal, Late
    <3> HIDE DEF all
    <3> QED
      BY <2>0, <3>1, <3>2, <3>3 DEF EnvInv, all
  <2> QED
    BY <1>4, <2>1, <2>2, <2>3, <2>4, StepData
<1> QED
  BY <1>1, <1>2, <1>3, <1>4, NextCases
LEMMA CmdNext ==
    ASSUME TypeInv, PcInv, UserInv, CmdInv, [Next]_vars
    PROVE  CmdInv'
<1> USE DEF Alive
<1>0. Terminated(strlist_alloc(0)) /\ Contiguous(strlist_alloc(0), 0)
  BY AllocTerminated
<1>1. CASE Boot
  <2>1. cmdline' = strlist_alloc(0) /\ pc' \in {"main", "getUserGroupData"}
    BY <1>1 DEF Boot
  <2> QED
    BY <1>0, <2>1 DEF CmdInv, AfterEnv, AfterCmdline, AfterTerminal, Late
<1>2. CASE Reconnect \/ Outside
  <2>1. UNCHANGED <<setting, pc, status, user, cmdline, next>>
    BY <1>2, OutsideSame DEF Reconnect, host, memory, Same
  <2> QED
    BY <2>1, EntriesStay DEF CmdInv, InitProcess
<1>3. CASE Ends
  BY <1>3, EndsDead DEF CmdInv
<1>4. CASE Step
  <2>0. setting' = setting /\ status = "boot"
    BY <1>4, StepData
  <2>1. CASE /\ pc \notin AfterUser /\ pc' \notin AfterUser
             /\ status' = "boot" /\ UNCHANGED <<user, env, cmdline, ids>>
    <3>1. /\ pc \notin AfterEnv /\ pc' \notin AfterEnv /\ pc' # "buildCmdline"
          /\ pc' \notin AfterCmdline
      BY <2>1 DEF AfterUser, AfterEnv
    <3> QED
      BY <2>0, <2>1, <3>1 DEF CmdInv
  <2>2. CASE SetUser \/ buildCmdEnv
    <3>1. /\ pc \in {"getUserGroupData", "buildCmdEnv"}
          /\ cmdline' = cmdline
          /\ \/ pc' = "buildCmdEnv"
             \/ pc' = "buildCmdline" /\ next' = 1
             \/ pc' = "cleanup" /\ ~InitProcess
      BY <2>2 DEF SetUser, buildCmdEnv, Fill, At, Goto
    <3>2. cmdline = strlist_alloc(0)
      BY <2>0, <3>1 DEF CmdInv, AfterEnv, AfterCmdline, AfterTerminal, Late
    <3>3. TypeInv /\ UserInv => CmdEntries \in Seq(STRING)
      BY EntriesType DEF EntriesOK
    <3>4. CmdEntries # <<>> => 1 <= Len(CmdEntries)
      BY <3>3
    <3>5. CmdEntries' = CmdEntries
      BY <2>0 DEF CmdEntries
    <3>6. CASE pc' = "buildCmdEnv"
      BY <1>0, <3>1, <3>2, <3>6
         DEF CmdInv, AfterEnv, AfterCmdline, AfterTerminal, Late
    <3>7. CASE pc' = "buildCmdline" /\ next' = 1
      BY <1>0, <3>1, <3>2, <3>4, <3>5, <3>7
         DEF CmdInv, AfterEnv, AfterCmdline, AfterTerminal, Late
    <3>8. CASE pc' = "cleanup" /\ ~InitProcess
      BY <1>0, <2>0, <3>1, <3>2, <3>8
         DEF CmdInv, AfterEnv, AfterCmdline, AfterTerminal, Late, InitProcess
    <3> QED
      BY <3>1, <3>6, <3>7, <3>8
  <2>3. CASE buildCmdline
    <3> DEFINE w == CmdEntries[next]
    <3>1. /\ pc = "buildCmdline" /\ CmdEntries # <<>>
          /\ cmdline' = strlist_set_tail(cmdline, w)
          /\ \/ next < Len(CmdEntries) /\ next' = next + 1 /\ pc' = pc
             \/ ~(next < Len(CmdEntries)) /\ pc' = "getTtyStatus"
      BY <2>3 DEF buildCmdline, Fill, At, Goto
    <3>2. CmdEntries' = CmdEntries
      BY <2>0 DEF CmdEntries
    <3>3. CmdEntries \in Seq(STRING) /\ next \in Nat \ {0}
      BY EntriesType DEF EntriesOK, PcInv
    <3>4. /\ next <= Len(CmdEntries) /\ Contiguous(cmdline, next - 1)
          /\ Terminated(cmdline)
      BY <2>0, <3>1 DEF CmdInv
    <3>5. w # NULL
      BY <3>3, <3>4, SettingAssumption
    <3> HIDE DEF w
    <3>6. Terminated(cmdline') /\ Contiguous(cmdline', next)
      <4>1. next - 1 \in Nat /\ (next - 1) + 1 = next
        BY <3>3
      <4>2. /\ Terminated(strlist_set_tail(cmdline, w))
            /\ Contiguous(strlist_set_tail(cmdline, w), (next - 1) + 1)
        BY <3>4, <3>5, <4>1, SetTailAppends
      <4> QED
        BY <3>1, <4>1, <4>2
    <3>7. CASE next < Len(CmdEntries) /\ next' = next + 1 /\ pc' = pc
      <4>1. next' - 1 = next /\ next' <= Len(CmdEntries)
        BY <3>3, <3>7
      <4> QED
        BY <3>1, <3>2, <3>6, <3>7, <4>1
           DEF CmdInv, AfterEnv, AfterCmdline, AfterTerminal, Late
    <3>8. CASE pc' = "getTtyStatus"
      BY <3>3, <3>6, <3>8 DEF CmdInv, AfterEnv, AfterCmdline
    <3> QED
      BY <3>1, <3>7, <3>8
  <2>4. CASE /\ pc \in AfterCmdline /\ pc' \in AfterCmdline
             /\ UNCHANGED <<user, env, cmdline>>
    <3>1. pc' # "buildCmdline" /\ pc' \in AfterEnv
      BY <2>4 DEF AfterEnv, AfterCmdline, AfterTerminal, Late
    <3> QED
      BY <2>0, <2>4, <3>1 DEF CmdInv, InitProcess
  <2> QED
    BY <1>4, <2>1, <2>2, <2>3, <2>4, StepData
<1> QED
  BY <1>1, <1>2, <1>3, <1>4, NextCases

-----------------------------------------------------------------------------
(* What the command gets.                                                   *)

\* The last entry of a name is the one with the highest index.
LEMMA LastIsMax ==
    ASSUME NEW all \in Seq(EnvEntry), NEW m, IsLast(all, Len(all), m)
    PROVE  Max({i \in DOMAIN all : all[i].name = all[m].name}) = m
<1> DEFINE I == {i \in DOMAIN all : all[i].name = all[m].name}
<1>1. m \in I
  BY DEF IsLast
<1>2. \A y \in I : m >= y
  BY DEF IsLast
<1>3. \A y \in I : y \in Int
  OBVIOUS
<1>4. ASSUME NEW x \in I, \A y \in I : x >= y
      PROVE  x = m
  BY <1>1, <1>2, <1>3, <1>4
<1> HIDE DEF I
<1>5. Max(I) = m
  BY <1>1, <1>2, <1>4 DEF Max
<1> QED
  BY <1>5 DEF I

\* What is merged from all entries has every name once, with its last entry.
LEMMA MergedAll ==
    ASSUME NEW all \in Seq(EnvEntry), NEW sl, NEW n \in Nat,
           Merged(sl, n, all, Len(all))
    PROVE  LET names == {e.name : e \in Range(all)} \ {EmptyText}
               last(name) == all[Max({i \in DOMAIN all : all[i].name = name})]
           IN /\ Cardinality(names) = n
              /\ {strlist_get(sl, i) : i \in 0..(n - 1)}
                    = {last(name) : name \in names}
              /\ strlist_contig_count(sl) = n
<1> DEFINE names == {e.name : e \in Range(all)} \ {EmptyText}
           last(name) == all[Max({i \in DOMAIN all : all[i].name = name})]
           f == [i \in 1..n |-> strlist_get(sl, i - 1).name]
<1>1. \A m \in 1..Len(all) : all[m].name # EmptyText => all[m].name \in names
  BY DEF Range
<1>2. ASSUME NEW i \in 0..(n - 1)
      PROVE  /\ strlist_get(sl, i).name \in names
             /\ strlist_get(sl, i) = last(strlist_get(sl, i).name)
  <2>1. PICK m \in 1..Len(all) : /\ IsLast(all, Len(all), m)
                                 /\ strlist_get(sl, i) = all[m]
    BY DEF Merged
  <2>2. all[m].name # EmptyText
    BY <2>1 DEF IsLast
  <2>3. last(all[m].name) = all[m]
    BY <2>1, LastIsMax
  <2> HIDE DEF names, last
  <2> QED
    BY <1>1, <2>1, <2>2, <2>3
<1>3. ASSUME NEW name \in names
      PROVE  \E i \in 0..(n - 1) : strlist_get(sl, i).name = name
  <2>1. PICK m \in 1..Len(all) : all[m].name = name /\ name # EmptyText
    BY DEF Range
  <2> QED
    BY <2>1 DEF Merged
<1> HIDE DEF names, last
<1>4. Cardinality(names) = n
  <2>1. f \in [1..n -> names]
    BY <1>2
  <2>2. \A i, j \in 1..n : f[i] = f[j] => i = j
    BY DEF Merged
  <2>3. \A name \in names : \E i \in 1..n : f[i] = name
    <3> SUFFICES ASSUME NEW name \in names
                 PROVE  \E i \in 1..n : f[i] = name
      OBVIOUS
    <3>1. PICK i \in 0..(n - 1) : strlist_get(sl, i).name = name
      BY <1>3
    <3>2. i + 1 \in 1..n /\ f[i + 1] = name
      BY <3>1
    <3> QED
      BY <3>2
  <2> HIDE DEF f
  <2>4. ExistsBijection(1..n, names)
    BY <2>1, <2>2, <2>3
       DEF ExistsBijection, Bijection, Injection, Surjection, IsInjective
  <2> QED
    BY <2>4, FS_CountingElements
<1>5. {strlist_get(sl, i) : i \in 0..(n - 1)} = {last(name) : name \in names}
  <2>1. ASSUME NEW i \in 0..(n - 1)
        PROVE  strlist_get(sl, i) \in {last(name) : name \in names}
    BY <1>2
  <2>2. ASSUME NEW name \in names
        PROVE  last(name) \in {strlist_get(sl, i) : i \in 0..(n - 1)}
    <3>1. PICK i \in 0..(n - 1) : strlist_get(sl, i).name = name
      BY <1>3
    <3> QED
      BY <1>2, <3>1
  <2> QED
    BY <2>1, <2>2
<1>6. strlist_contig_count(sl) = n
  BY FirstEmptyFollows DEF Merged, strlist_contig_count
<1> QED
  BY <1>4, <1>5, <1>6 DEF names, last

LEMMA DataAlways == Spec => [](UserInv /\ EnvInv /\ CmdInv)
<1>1. Init => UserInv /\ EnvInv /\ CmdInv
  BY UserInit, EnvInit
<1>2. (TypeInv /\ PcInv) /\ (UserInv /\ EnvInv /\ CmdInv) /\ [Next]_vars
      => (UserInv /\ EnvInv /\ CmdInv)'
  BY UserNext, EnvNext, CmdNext
<1> QED
  BY <1>1, <1>2, TypeCorrect, PTL DEF Spec

\* For every metadata and every image: the environment that reaches execve has
\* every name once, with the last of its values, counted and terminated as
\* execve reads it, however often the list had to grow; argv is terminated; and
\* the process has the user and the group of docker:user.
THEOREM CommandIsAsConfigured == Spec => []CommandAsConfigured
<1>1. (TypeInv /\ PcInv) /\ (UserInv /\ EnvInv /\ CmdInv) => EnvAsDocumented
  <2> SUFFICES ASSUME TypeInv, PcInv, UserInv, EnvInv, CmdInv, status = "running"
               PROVE  EnvAsDocumented
    BY DEF EnvAsDocumented
  <2> DEFINE all == EnvEntries(Home)
             names == {e.name : e \in Range(all)} \ {EmptyText}
             last(name) == all[Max({i \in DOMAIN all : all[i].name = name})]
  <2>1. pc = "execCmdline"
    BY DEF PcInv
  <2>2. pc \in AfterEnv
    BY <2>1 DEF AfterEnv, AfterCmdline, AfterTerminal, Late
  <2>3. PICK n \in Nat : Merged(env, n, all, Len(all))
    BY <2>2 DEF EnvInv, Alive
  <2>4. Terminated(env) /\ Terminated(cmdline)
    BY <2>3 DEF CmdInv, Alive, Merged
  <2>5. all \in Seq(EnvEntry)
    BY EntriesType DEF EntriesOK
  <2> HIDE DEF all
  <2>6. /\ Cardinality(names) = n
        /\ {strlist_get(env, i) : i \in 0..(n - 1)} = {last(name) : name \in names}
        /\ strlist_contig_count(env) = n
    BY <2>3, <2>5, MergedAll
  <2> HIDE DEF names, last
  <2>7. /\ {strlist_get(env, i) : i \in 0..(Cardinality(names) - 1)}
              = {last(name) : name \in names}
        /\ strlist_contig_count(env) = Cardinality(names)
    BY <2>6
  <2> QED
    BY <2>4, <2>7 DEF EnvAsDocumented, all, names, last
<1>2. UserInv => RunsAsUser
  BY DEF UserInv
<1> QED
  BY <1>1, <1>2, TypeCorrect, DataAlways, PTL DEF CommandAsConfigured

-----------------------------------------------------------------------------
(* The rename.                                                              *)

\* Only rename touches /var/svc.
LEMMA OnlyRename == [Next]_vars => file' = file \/ rename
<1>1. setupNetworking => file' = file
  BY DEF setupNetworking, OpenIpadmHandle, SetupInterfaces, LinkLocalRoutes, setupGateways,
         StaticRoutes, ForEach, setupStaticRoute, host
<1>2. \/ OpenLog \/ getBrand \/ runIpmgmtd \/ killIpmgmtd \/ mountNfsVolumes
      \/ SetUser \/ buildCmdEnv \/ buildCmdline \/ getTtyStatus
      \/ getStdinStatus \/ setupTerminal \/ setupLogging \/ waitIfAttaching
      \/ cleanup \/ execCmdline
      => file' = file
  BY DEF OpenLog, getBrand, runIpmgmtd, killIpmgmtd, mountNfsVolumes, SetUser,
         buildCmdEnv, buildCmdline, getTtyStatus, getStdinStatus,
         setupTerminal, setupLogging, waitIfAttaching, cleanup, execCmdline, host
<1>3. \/ Boot \/ Fatal \/ Reconnect \/ LoggerStreams \/ LoggerExec
      \/ LoggerKillsInit \/ LoggerDies \/ ContractKillsInit
      \/ Attach \/ ZfdAppears \/ Tick
      \/ UNCHANGED vars
      => file' = file
  BY DEF Boot, Fatal, Reconnect, LoggerStreams, LoggerExec, LoggerKillsInit,
         LoggerDies, ContractKillsInit, Attach, ZfdAppears, Tick, vars, host
<1> QED
  BY <1>1, <1>2, <1>3 DEF Next, Step

\* In whatever order attach, clock, logger and lost connections come: vmadm sees
\* provision_success only after the wait is over, with a command line, with the
\* streams in place and with the metadata client's descriptors closed.
THEOREM ProvisionedOnlyWhenReady == Spec => ProvisionedWhenReady
<1> DEFINE Inv == /\ TypeInv /\ PcInv /\ TableInv /\ LoggerInv /\ WaitInv
                  /\ UserInv /\ EnvInv /\ CmdInv
           Ready == /\ waitKey = 0
                    /\ strlist_contig_count(cmdline) > 0
                    /\ fds[1] # "null" /\ fds[2] # "null"
                    /\ \A n \in Fd : fds[n] \notin {"urandom", "port", "sock"}
<1>1. Inv /\ [Next]_vars => [file' # file => Ready]_vars
  <2> SUFFICES ASSUME Inv, rename PROVE Ready
    BY OnlyRename
  <2>1. status = "boot" /\ pc = "rename"
    BY DEF rename, At
  <2>2. InitProcess
    BY <2>1 DEF PcInv, Alive, ExecPc
  <2>3. waitKey = 0
    BY <2>1, <2>2 DEF WaitInv, Alive, Late
  <2>4. strlist_contig_count(cmdline) > 0
    <3>1. PICK n \in Nat \ {0} : Contiguous(cmdline, n)
      BY <2>1, <2>2 DEF CmdInv, Alive, AfterCmdline, AfterTerminal, Late
    <3>2. Terminated(cmdline)
      BY <2>1 DEF CmdInv, Alive
    <3> QED
      BY <3>1, <3>2, FirstEmptyFollows DEF strlist_contig_count
  <2>5. /\ Streams(fds) /\ fds[3] = "log"
        /\ \A n \in 4..9 : fds[n] \in {Closed, "door"}
    BY <2>1, <2>2 DEF TableInv, BootTable, InitTable, AfterTerminal, Late
  <2>6. fds[1] # "null" /\ fds[2] # "null"
    BY <2>5 DEF Streams
  <2>7. \A n \in Fd : fds[n] \notin {"urandom", "port", "sock"}
    <3> SUFFICES ASSUME NEW n \in Fd
                 PROVE  fds[n] \notin {"urandom", "port", "sock"}
      OBVIOUS
    <3>1. fds[0] \in {"zfd0", "null"} /\ fds[1] \in {"zfd0", "zfd1"}
          /\ fds[2] \in {"zfd0", "zfd2"}
      BY <2>5 DEF Streams
    <3>2. n = 0 \/ n = 1 \/ n = 2 \/ n = 3 \/ n \in 4..9
      BY DEF Fd
    <3> QED
      BY <2>5, <3>1, <3>2 DEF Closed
  <2> QED
    BY <2>3, <2>4, <2>6, <2>7
<1>2. Spec => []Inv
  BY TypeCorrect, TableAlways, WaitAlways, DataAlways, PTL
<1>3. Spec => [][Next]_vars
  BY DEF Spec
<1> QED
  BY <1>1, <1>2, <1>3, PTL DEF ProvisionedWhenReady
=============================================================================
