-------------------------- MODULE FsWatcherProofs --------------------------
(***************************************************************************)
(* What FsWatcher promises, proved for every set of files and every        *)
(* setting.  The two processes only share two queues, so each invariant    *)
(* says what the messages that are still in them will have brought about   *)
(* when they have been handled:                                            *)
(*                                                                         *)
(*   Armed      a handle has an association, or an event is on its way     *)
(*              from the port to the thread that associates again;         *)
(*   Agreed     the handle is what the module will believe once it has     *)
(*              read all that the helper has written;                      *)
(*   Fresh      the consumer knows the last version, or is to be told;     *)
(*   Calm       every event line finds its entry in self.watching, and     *)
(*              the consumer's calls find one too.                         *)
(***************************************************************************)
EXTENDS FsWatcher, FiniteSetTheorems, TLAPS

-----------------------------------------------------------------------------
(* Types.                                                                  *)

LoopCont == [kind : {"loop"}, file : File, loop : Nat, o : Nat]
LongCont == [kind : {"long"}, file : File]
WatchCont == LoopCont \cup LongCont
UnwatchCont == [kind : {"user", "cleaner"}, file : File]

Command ==
    [cmd : {"WATCH"}, cont : WatchCont] \cup [cmd : {"UNWATCH"}, cont : UnwatchCont]

Message ==
    [type : {"response"}, cont : WatchCont \cup UnwatchCont, ok : BOOLEAN]
    \cup [type : {"event"}, file : File, ev : {"mod", "del"}, final : BOOLEAN]
    \cup [type : {"error"}]

AnyEvent == [file : File, ev : {"mod", "del"}, stale : BOOLEAN]
Queued(f) == [file : {f}, ev : {"mod", "del"}, stale : {FALSE}]

StdinWork(f) ==
    [by : {"stdin"}, file : {f}, ver : Nat,
     msg : [type : {"response"}, cont : {c \in WatchCont : c.file = f}, ok : {TRUE}]]
PortWork(f) ==
    [by : {"port"}, file : {f}, ver : Nat,
     msg : [type : {"event"}, file : {f}, ev : {"mod", "del"}, final : {FALSE}]]

Entry == [id : Nat, tries : Nat, timer : Nat, long : BOOLEAN]
Loop == [file : File, pc : {"sent", "timer", "done"}, initial : BOOLEAN,
         cb : BOOLEAN]

HelperTypes ==
    /\ exists \in [File -> BOOLEAN] /\ ver \in [File -> Nat]
    /\ assoc \in [File -> BOOLEAN] /\ handle \in [File -> BOOLEAN]
    /\ portq \in [File -> Seq(AnyEvent)]
    /\ \A f \in File : portq[f] \in Seq(Queued(f))
    /\ got = None \/ got \in AnyEvent
    /\ work = None \/ \E f \in File : work \in StdinWork(f) \cup PortWork(f)

QueueTypes == cmdq \in Seq(Command) /\ outq \in Seq(Message)

ModuleTypes ==
    /\ watching \in [File -> {"no", "active", "inactive"}]
    /\ notYet \in [File -> Entry \cup {None}]
    /\ loops \in Seq(Loop)
    /\ crashed \in BOOLEAN
    /\ seen \in [File -> Nat]

ConsumerTypes ==
    /\ want \in [File -> BOOLEAN]
    /\ user \in [File -> {"idle", "watching", "dropping", "unwatching"}]
    /\ cleaner \in [File -> {"idle", "chosen", "unwatching"}]

Types ==
    /\ setting \in Setting
    /\ HelperTypes /\ QueueTypes /\ ModuleTypes /\ ConsumerTypes

-----------------------------------------------------------------------------
(* Sequences and records.                                                  *)

\* What Head and Tail give.
LEMMA TailOf ==
    ASSUME NEW S, NEW q \in Seq(S), q # <<>>
    PROVE  /\ Len(q) \in Nat \ {0} /\ Head(q) = q[1] /\ Head(q) \in S
           /\ Tail(q) \in Seq(S) /\ Len(Tail(q)) = Len(q) - 1
           /\ \A i \in 1 .. Len(Tail(q)) : Tail(q)[i] = q[i + 1]
  OBVIOUS

\* What Append gives.
LEMMA AppendOf ==
    ASSUME NEW S, NEW q \in Seq(S), NEW e \in S
    PROVE  /\ Append(q, e) \in Seq(S) /\ Append(q, e) # <<>>
           /\ Len(q) \in Nat /\ Len(Append(q, e)) = Len(q) + 1
           /\ Append(q, e)[Len(q) + 1] = e
           /\ \A i \in 1 .. Len(q) : Append(q, e)[i] = q[i]
  OBVIOUS

\* What concatenation gives.
LEMMA ConcatOf ==
    ASSUME NEW S, NEW q \in Seq(S), NEW r \in Seq(S)
    PROVE  /\ q \o r \in Seq(S) /\ Len(q \o r) = Len(q) + Len(r)
           /\ Len(q) \in Nat /\ Len(r) \in Nat
           /\ \A i \in 1 .. Len(q) : (q \o r)[i] = q[i]
           /\ \A i \in 1 .. Len(r) : (q \o r)[Len(q) + i] = r[i]
  OBVIOUS

\* What is in a queue after a step.
LEMMA ElementsOf ==
    ASSUME NEW S, NEW q \in Seq(S)
    PROVE  /\ ToSet(q) \subseteq S
           /\ \A i \in 1 .. Len(q) : q[i] \in ToSet(q)
           /\ \A x \in ToSet(q) : \E i \in 1 .. Len(q) : x = q[i]
           /\ q # <<>> => /\ Head(q) \in ToSet(q)
                          /\ ToSet(q) = {Head(q)} \cup ToSet(Tail(q))
           /\ \A e \in S : ToSet(Append(q, e)) = ToSet(q) \cup {e}
<1>1. /\ ToSet(q) \subseteq S
      /\ \A i \in 1 .. Len(q) : q[i] \in ToSet(q)
      /\ \A x \in ToSet(q) : \E i \in 1 .. Len(q) : x = q[i]
  BY DEF ToSet
<1>2. ASSUME q # <<>>
      PROVE  Head(q) \in ToSet(q) /\ ToSet(q) = {Head(q)} \cup ToSet(Tail(q))
  <2> DEFINE t == Tail(q)
  <2>1. /\ Len(q) \in Nat \ {0} /\ Head(q) = q[1] /\ t \in Seq(S)
        /\ Len(t) = Len(q) - 1 /\ \A i \in 1 .. Len(t) : t[i] = q[i + 1]
    BY <1>2, TailOf
  <2> HIDE DEF t
  <2>2. DOMAIN q = 1 .. Len(q) /\ DOMAIN t = 1 .. Len(t)
    BY <2>1
  <2>3. ASSUME NEW x \in ToSet(q) PROVE x = Head(q) \/ x \in ToSet(t)
    <3>1. PICK i \in 1 .. Len(q) : x = q[i]
      BY <1>1
    <3>2. CASE i = 1
      BY <2>1, <3>1, <3>2
    <3>3. CASE i # 1
      <4>1. i - 1 \in 1 .. Len(t) /\ t[i - 1] = q[i]
        BY <2>1, <3>3
      <4> QED
        BY <2>2, <3>1, <4>1 DEF ToSet
    <3> QED
      BY <3>2, <3>3
  <2>4. ASSUME NEW x \in ToSet(t) PROVE x \in ToSet(q)
    <3>1. PICK i \in 1 .. Len(t) : x = t[i]
      BY <2>2 DEF ToSet
    <3>2. i + 1 \in 1 .. Len(q) /\ x = q[i + 1]
      BY <2>1, <3>1
    <3> QED
      BY <2>2, <3>2 DEF ToSet
  <2>5. Head(q) \in ToSet(q)
    BY <1>1, <2>1
  <2> QED
    BY <2>3, <2>4, <2>5 DEF t
<1>3. ASSUME NEW e \in S PROVE ToSet(Append(q, e)) = ToSet(q) \cup {e}
  <2> DEFINE a == Append(q, e)
  <2>1. /\ a \in Seq(S) /\ Len(q) \in Nat /\ Len(a) = Len(q) + 1 /\ a[Len(q) + 1] = e
        /\ \A i \in 1 .. Len(q) : a[i] = q[i]
    BY AppendOf
  <2> HIDE DEF a
  <2>2. DOMAIN q = 1 .. Len(q) /\ DOMAIN a = 1 .. Len(a)
    BY <2>1
  <2> QED
    BY <2>1, <2>2 DEF ToSet, a
<1> QED
  BY <1>1, <1>2, <1>3

\* What is in two queues, one after the other.
LEMMA ElementsOfBoth ==
    ASSUME NEW S, NEW q \in Seq(S), NEW r \in Seq(S)
    PROVE  ToSet(q \o r) = ToSet(q) \cup ToSet(r)
<1> DEFINE a == q \o r
<1>1. /\ a \in Seq(S) /\ Len(a) = Len(q) + Len(r) /\ Len(q) \in Nat /\ Len(r) \in Nat
      /\ \A i \in 1 .. Len(q) : a[i] = q[i]
      /\ \A i \in 1 .. Len(r) : a[Len(q) + i] = r[i]
  BY ConcatOf
<1> HIDE DEF a
<1>2. DOMAIN a = 1 .. Len(a) /\ DOMAIN q = 1 .. Len(q) /\ DOMAIN r = 1 .. Len(r)
  BY <1>1
<1>3. ASSUME NEW x \in ToSet(a) PROVE x \in ToSet(q) \cup ToSet(r)
  <2>1. PICK i \in 1 .. Len(a) : x = a[i]
    BY <1>2 DEF ToSet
  <2>2. CASE i <= Len(q)
    <3>1. i \in 1 .. Len(q) /\ x = q[i]
      BY <1>1, <2>1, <2>2
    <3>2. x \in ToSet(q)
      BY <1>2, <3>1 DEF ToSet
    <3> QED
      BY <3>2
  <2>3. CASE i > Len(q)
    <3>1. i - Len(q) \in 1 .. Len(r) /\ a[Len(q) + (i - Len(q))] = r[i - Len(q)]
      BY <1>1, <2>3
    <3>2. x = r[i - Len(q)]
      BY <1>1, <2>1, <3>1
    <3> QED
      BY <1>2, <3>1, <3>2 DEF ToSet
  <2> QED
    BY <1>1, <2>2, <2>3
<1>4. ToSet(q) \subseteq ToSet(a)
  BY <1>1, <1>2 DEF ToSet
<1>5. ASSUME NEW x \in ToSet(r) PROVE x \in ToSet(a)
  <2>1. PICK i \in 1 .. Len(r) : x = r[i]
    BY <1>2 DEF ToSet
  <2>2. Len(q) + i \in 1 .. Len(a) /\ x = a[Len(q) + i]
    BY <1>1, <2>1
  <2> QED
    BY <1>2, <2>2 DEF ToSet
<1> QED
  BY <1>3, <1>4, <1>5 DEF a

\* An event, a work record and an entry are not None.
LEMMA NotNone ==
    /\ \A e \in AnyEvent : e # None
    /\ \A f \in File : \A w \in StdinWork(f) \cup PortWork(f) : w # None
    /\ \A o \in Entry : o # None
<1>1. DOMAIN None = {"none"}
  BY DEF None
<1>2. \A e \in AnyEvent : "file" \in DOMAIN e
  BY DEF AnyEvent
<1>3. \A f \in File : \A w \in StdinWork(f) \cup PortWork(f) : "file" \in DOMAIN w
  BY DEF StdinWork, PortWork
<1>4. \A o \in Entry : "id" \in DOMAIN o
  BY DEF Entry
<1>5. "file" # "none" /\ "id" # "none"
  OBVIOUS
<1> QED
  BY <1>1, <1>2, <1>3, <1>4, <1>5

\* The messages that the actions make are messages.
LEMMA Made ==
    /\ \A c \in WatchCont \cup UnwatchCont, ok \in BOOLEAN : Response(c, ok) \in Message
    /\ \A f \in File, ev \in {"mod", "del"}, final \in BOOLEAN :
          Event(f, ev, final) \in Message
    /\ [type |-> "error"] \in Message
    /\ \A f \in File, ev \in {"mod", "del"} :
          PortEvent(f, ev) \in Queued(f) /\ PortEvent(f, ev) \in AnyEvent
    /\ \A f \in File : Queued(f) \subseteq AnyEvent
    /\ \A c \in Command : c.cont \in WatchCont \cup UnwatchCont /\ c.cont.file \in File
    /\ \A c \in Command : c.cmd = "WATCH" => c.cont \in WatchCont
    /\ \A c \in WatchCont : [cmd |-> "WATCH", cont |-> c] \in Command
    /\ \A c \in UnwatchCont : [cmd |-> "UNWATCH", cont |-> c] \in Command
    /\ \A f \in File : \A w \in StdinWork(f) \cup PortWork(f) : w.msg \in Message
  BY DEF Response, Event, Message, PortEvent, Queued, AnyEvent, Command, WatchCont,
         UnwatchCont, LoopCont, LongCont, StdinWork, PortWork


\* SetToSeq lists the elements of a set of files.
LEMMA Listed ==
    ASSUME NEW S \in SUBSET File
    PROVE  SetToSeq(S) \in Seq(S)
<1>1. IsFiniteSet(S)
  BY FS_Subset, WatcherAssumption
<1>2. Cardinality(S) \in Nat /\ ExistsBijection(1 .. Cardinality(S), S)
  BY <1>1, FS_CardinalityType
<1>3. PICK g \in [1 .. Cardinality(S) -> S] : IsInjective(g)
  BY <1>2 DEF ExistsBijection, Bijection, Injection
<1>4. SetToSeq(S) \in [1 .. Cardinality(S) -> S]
  BY <1>3 DEF SetToSeq
<1> QED
  BY <1>2, <1>4

\* The commands of the long interval.
LEMMA LongCommands ==
    ASSUME NEW F \in Seq(File)
    PROVE  LET r == [i \in 1 .. Len(F) |->
                        [cmd |-> "WATCH", cont |-> [kind |-> "long", file |-> F[i]]]]
           IN  /\ r \in Seq(Command) /\ Len(r) = Len(F)
               /\ \A i \in 1 .. Len(r) : /\ r[i].cmd = "WATCH"
                                         /\ r[i].cont.file = F[i]
                                         /\ r[i].cont.kind = "long"
<1> DEFINE r == [i \in 1 .. Len(F) |->
                        [cmd |-> "WATCH", cont |-> [kind |-> "long", file |-> F[i]]]]
<1>1. Len(F) \in Nat /\ \A i \in 1 .. Len(F) : F[i] \in File
  OBVIOUS
<1>2. \A i \in 1 .. Len(F) :
          r[i] = [cmd |-> "WATCH", cont |-> [kind |-> "long", file |-> F[i]]]
  OBVIOUS
<1>3. \A i \in 1 .. Len(F) : r[i] \in Command
  BY <1>1, <1>2 DEF Command, WatchCont, LongCont
<1>4. r \in Seq(Command) /\ Len(r) = Len(F)
  BY <1>1, <1>3
<1>5. \A i \in 1 .. Len(F) : /\ r[i].cmd = "WATCH" /\ r[i].cont.file = F[i]
                             /\ r[i].cont.kind = "long"
  BY <1>2
<1> QED
  BY <1>4, <1>5

\* The parts of the system keep their types in the steps of the file system.
LEMMA FileSystemTypes ==
    Types /\ UNCHANGED setting /\ FileSystem => Types'
<1> SUFFICES ASSUME Types, UNCHANGED setting, FileSystem PROVE Types'
  OBVIOUS
<1>1. PICK f \in setting.files : Modify(f) \/ Create(f) \/ Delete(f)
  BY DEF FileSystem
<1>2. f \in File /\ setting.files \subseteq File
  BY <1>1, WatcherAssumption DEF Types
<1>3. PICK there \in BOOLEAN, ev \in {"mod", "del"} : FileChanges(f, there, ev)
  BY <1>1 DEF Modify, Create, Delete
<1>4. UNCHANGED <<cVars, cmdq, outq, jsVars, userVars, seen>>
  BY <1>3 DEF FileChanges
<1>5. QueueTypes' /\ ModuleTypes' /\ ConsumerTypes'
  BY <1>4 DEF Types, QueueTypes, ModuleTypes, ConsumerTypes, cVars, jsVars, userVars
<1>6. Append(portq[f], PortEvent(f, ev)) \in Seq(Queued(f)) \cap Seq(AnyEvent)
  BY <1>2, Made DEF Types, HelperTypes
<1>7. portq' \in [File -> Seq(AnyEvent)] /\ \A g \in File : portq'[g] \in Seq(Queued(g))
  BY <1>2, <1>3, <1>6 DEF FileChanges, Types, HelperTypes
<1>8. exists' \in [File -> BOOLEAN] /\ ver' \in [File -> Nat] /\ assoc' \in [File -> BOOLEAN]
  BY <1>2, <1>3 DEF FileChanges, Types, HelperTypes
<1>9. HelperTypes'
  BY <1>4, <1>7, <1>8 DEF Types, HelperTypes, cVars
<1> QED
  BY <1>5, <1>9 DEF Types

\* ... of the helper ...
LEMMA HelperStepTypes ==
    Types /\ UNCHANGED setting /\ Helper => Types'
<1> SUFFICES ASSUME Types, UNCHANGED setting, Helper PROVE Types'
  OBVIOUS
<1> USE DEF Types
<1>1. CASE CWatch
  <2> DEFINE c == Head(cmdq).cont
             f == c.file
  <2>1. cmdq # <<>> /\ Head(cmdq) \in Command /\ cmdq' \in Seq(Command) /\ c \in WatchCont
        /\ f \in File
    BY <1>1, TailOf, Made DEF CWatch, QueueTypes
  <2>2. \A ok \in BOOLEAN : Append(outq, Response(c, ok)) \in Seq(Message)
    <3> TAKE ok \in BOOLEAN
    <3>1. Response(c, ok) \in Message
      BY <2>1, Made
    <3> QED
      BY <3>1, AppendOf DEF QueueTypes
  <2>3. QueueTypes'
    BY <1>1, <2>1, <2>2 DEF CWatch, QueueTypes
  <2>4. ~handle[f] /\ exists[f] => [by |-> "stdin", file |-> f, ver |-> ver[f],
                          msg |-> Response(c, TRUE)] \in StdinWork(f)
    BY <2>1 DEF StdinWork, Response, HelperTypes
  <2>5. HelperTypes'
    <3> HIDE DEF c
    <3>1. handle' \in [File -> BOOLEAN]
      <4>1. handle' = handle \/ handle' = [handle EXCEPT ![f] = TRUE]
        BY <1>1 DEF CWatch, c
      <4> QED
        BY <2>1, <4>1 DEF HelperTypes
    <3>2. work' = None \/ \E g \in File : work' \in StdinWork(g) \cup PortWork(g)
      <4>1. \/ work' = work
            \/ work' \in StdinWork(f)
        BY <1>1, <2>4 DEF CWatch, c
      <4> QED
        BY <1>1, <2>1, <4>1 DEF CWatch, c
    <3>3. UNCHANGED <<exists, ver, assoc, portq, got>>
      BY <1>1 DEF CWatch, fsVars, portVars
    <3> QED
      BY <3>1, <3>2, <3>3 DEF HelperTypes
  <2>6. ModuleTypes' /\ ConsumerTypes'
    BY <1>1 DEF CWatch, ModuleTypes, ConsumerTypes, jsVars, userVars
  <2> QED
    BY <2>3, <2>5, <2>6
<1>2. CASE CUnwatch
  <2> DEFINE c == Head(cmdq).cont
             f == c.file
  <2>1. cmdq # <<>> /\ Head(cmdq) \in Command /\ cmdq' \in Seq(Command)
        /\ c \in WatchCont \cup UnwatchCont /\ f \in File
    BY <1>2, TailOf, Made DEF CUnwatch, QueueTypes
  <2>2. \A ok \in BOOLEAN : Append(outq, Response(c, ok)) \in Seq(Message)
    <3> TAKE ok \in BOOLEAN
    <3>1. Response(c, ok) \in Message
      BY <2>1, Made
    <3> QED
      BY <3>1, AppendOf DEF QueueTypes
  <2>3. QueueTypes'
    BY <1>2, <2>1, <2>2 DEF CUnwatch, QueueTypes
  <2>4. got' = None \/ got' \in AnyEvent
    BY <1>2 DEF CUnwatch, HelperTypes, AnyEvent
  <2>5. <<>> \in Seq(AnyEvent) /\ <<>> \in Seq(Queued(f))
    OBVIOUS
  <2>6. HelperTypes'
    <3>1. portq' \in [File -> Seq(AnyEvent)]
      BY <1>2, <2>5 DEF CUnwatch, HelperTypes, portVars
    <3>2. \A g \in File : portq'[g] \in Seq(Queued(g))
      BY <1>2, <2>1, <2>5 DEF CUnwatch, HelperTypes, portVars
    <3>3. handle' \in [File -> BOOLEAN] /\ assoc' \in [File -> BOOLEAN]
      BY <1>2 DEF CUnwatch, HelperTypes, portVars
    <3> QED
      BY <1>2, <2>4, <3>1, <3>2, <3>3 DEF CUnwatch, HelperTypes, fsVars
  <2>7. ModuleTypes' /\ ConsumerTypes'
    BY <1>2 DEF CUnwatch, ModuleTypes, ConsumerTypes, jsVars, userVars
  <2> QED
    BY <2>3, <2>6, <2>7
<1>3. CASE CPortGet
  <2>1. PICK f \in File : /\ portq[f] # <<>> /\ got' = Head(portq[f])
                          /\ portq' = [portq EXCEPT ![f] = Tail(@)]
    BY <1>3 DEF CPortGet
  <2>2. portq[f] \in Seq(AnyEvent) /\ portq[f] \in Seq(Queued(f))
    BY DEF HelperTypes
  <2>3. got' \in AnyEvent /\ Tail(portq[f]) \in Seq(AnyEvent)
        /\ Tail(portq[f]) \in Seq(Queued(f))
    BY <2>1, <2>2, TailOf
  <2>4. HelperTypes'
    BY <1>3, <2>1, <2>3 DEF CPortGet, HelperTypes, fsVars
  <2> QED
    BY <1>3, <2>4 DEF CPortGet, QueueTypes, ModuleTypes, ConsumerTypes, jsVars, userVars
<1>4. CASE CEvent
  <2> DEFINE f == got.file
  <2>1. got \in AnyEvent /\ f \in File /\ got.ev \in {"mod", "del"}
    BY <1>4 DEF CEvent, HelperTypes, AnyEvent
  <2>2. Append(outq, Event(f, got.ev, TRUE)) \in Seq(Message)
    <3>1. Event(f, got.ev, TRUE) \in Message
      BY <2>1, Made
    <3> QED
      BY <3>1, AppendOf DEF QueueTypes
  <2>3. QueueTypes'
    BY <1>4, <2>2 DEF CEvent, QueueTypes
  <2>4. [by |-> "port", file |-> f, ver |-> ver[f], msg |-> Event(f, got.ev, FALSE)]
            \in PortWork(f)
    BY <2>1 DEF PortWork, Event, HelperTypes
  <2>5. HelperTypes'
    BY <1>4, <2>1, <2>4 DEF CEvent, HelperTypes, fsVars, portVars
  <2> QED
    BY <1>4, <2>3, <2>5 DEF CEvent, ModuleTypes, ConsumerTypes, jsVars, userVars
<1>5. CASE CAssociate
  <2>1. PICK f \in File : work \in StdinWork(f) \cup PortWork(f)
    BY <1>5 DEF CAssociate, HelperTypes
  <2>2. work.file = f /\ work.msg \in Message
        /\ (work.by = "stdin" => [work.msg EXCEPT !.ok = FALSE] \in Message)
    BY <2>1, Made DEF StdinWork, PortWork, Message
  <2>3. outq \o <<work.msg, [type |-> "error"]>> \in Seq(Message)
        /\ Append(outq, work.msg) \in Seq(Message)
        /\ (work.by = "stdin" => Append(outq, [work.msg EXCEPT !.ok = FALSE])
                                    \in Seq(Message))
    BY <2>2, Made DEF QueueTypes
  <2>4. QueueTypes'
    BY <1>5, <2>3 DEF CAssociate, QueueTypes
  <2>5. Append(portq[f], PortEvent(f, "mod")) \in Seq(Queued(f)) \cap Seq(AnyEvent)
    BY Made DEF HelperTypes
  <2>6. HelperTypes'
    <3>1. portq' \in [File -> Seq(AnyEvent)] /\ \A g \in File : portq'[g] \in Seq(Queued(g))
      BY ZenonT(60), <1>5, <2>2, <2>5 DEF CAssociate, HelperTypes, portVars
    <3>2. assoc' \in [File -> BOOLEAN]
      BY <1>5, <2>2 DEF CAssociate, HelperTypes, portVars
    <3> QED
      BY <1>5, <2>2, <3>1, <3>2 DEF CAssociate, HelperTypes, fsVars
  <2> QED
    BY <1>5, <2>4, <2>6 DEF CAssociate, ModuleTypes, ConsumerTypes, jsVars, userVars
<1> QED
  BY <1>1, <1>2, <1>3, <1>4, <1>5 DEF Helper

\* A command goes to the end of the queue.
LEMMA SendTypes ==
    ASSUME QueueTypes, NEW cmd, NEW c, Send(cmd, c),
           \/ cmd = "WATCH" /\ c \in WatchCont
           \/ cmd = "UNWATCH" /\ c \in UnwatchCont
    PROVE  cmdq' \in Seq(Command)
<1>1. [cmd |-> cmd, cont |-> c] \in Command
  BY Made
<1> QED
  BY <1>1, AppendOf DEF Send, QueueTypes

\* watch() begins.
LEMMA StartLoopTypes ==
    ASSUME Types, NEW f \in File, NEW cb \in BOOLEAN, StartLoop(f, cb)
    PROVE  /\ cmdq' \in Seq(Command)
           /\ notYet' \in [File -> Entry \cup {None}]
           /\ loops' \in Seq(Loop)
<1> DEFINE l == Len(loops) + 1
<1>1. l \in Nat
  BY DEF Types, ModuleTypes
<1>2. [kind |-> "loop", file |-> f, loop |-> l, o |-> l] \in WatchCont
  BY <1>1 DEF WatchCont, LoopCont
<1>3. cmdq' \in Seq(Command)
  BY <1>2, SendTypes DEF StartLoop, Types
<1>4. [id |-> l, tries |-> 0, timer |-> 0, long |-> FALSE] \in Entry
  BY <1>1 DEF Entry
<1>5. [file |-> f, pc |-> "sent", initial |-> TRUE, cb |-> cb] \in Loop
  BY DEF Loop
<1> QED
  BY <1>3, <1>4, <1>5 DEF StartLoop, Types, ModuleTypes

\* An update of a field keeps a loop a loop.
LEMMA LoopUpdate ==
    ASSUME ModuleTypes, NEW l, NEW p \in {"sent", "timer", "done"}
    PROVE  /\ [loops EXCEPT ![l].pc = p] \in Seq(Loop)
           /\ [loops EXCEPT ![l].pc = p, ![l].initial = FALSE] \in Seq(Loop)
           /\ Len([loops EXCEPT ![l].pc = p]) = Len(loops)
           /\ Len([loops EXCEPT ![l].pc = p, ![l].initial = FALSE]) = Len(loops)
           /\ \A k \in 1 .. Len(loops) :
                 /\ [loops EXCEPT ![l].pc = p][k].cb = loops[k].cb
                 /\ [loops EXCEPT ![l].pc = p][k].file = loops[k].file
                 /\ [loops EXCEPT ![l].pc = p][k].initial = loops[k].initial
                 /\ [loops EXCEPT ![l].pc = p, ![l].initial = FALSE][k].cb = loops[k].cb
                 /\ [loops EXCEPT ![l].pc = p, ![l].initial = FALSE][k].file = loops[k].file
                 /\ [loops EXCEPT ![l].pc = p, ![l].initial = FALSE][k].initial
                       => k # l /\ loops[k].initial
<1>1. Len(loops) \in Nat /\ DOMAIN loops = 1 .. Len(loops)
      /\ \A k \in 1 .. Len(loops) : loops[k] \in Loop
  BY DEF ModuleTypes
<1>2. l \in 1 .. Len(loops) => /\ [loops[l] EXCEPT !.pc = p] \in Loop
                               /\ [loops[l] EXCEPT !.pc = p, !.initial = FALSE] \in Loop
  BY <1>1 DEF Loop
<1> DEFINE s == [loops EXCEPT ![l].pc = p]
           t == [loops EXCEPT ![l].pc = p, ![l].initial = FALSE]
<1>3. s \in [1 .. Len(loops) -> Loop] /\ t \in [1 .. Len(loops) -> Loop]
  BY <1>1, <1>2 DEF ModuleTypes
<1>4. \A k \in 1 .. Len(loops) :
         /\ s[k].cb = loops[k].cb /\ t[k].cb = loops[k].cb
         /\ s[k].file = loops[k].file /\ t[k].file = loops[k].file
         /\ s[k].initial = loops[k].initial
         /\ t[k].initial => k # l /\ loops[k].initial
  <2> TAKE k \in 1 .. Len(loops)
  <2>1. loops[k] \in Loop
    BY <1>1
  <2>2. CASE k = l
    <3>1. s[k] = [loops[l] EXCEPT !.pc = p]
          /\ t[k] = [loops[l] EXCEPT !.pc = p, !.initial = FALSE]
      BY <1>1, <2>2
    <3>2. loops[l] \in Loop
      BY <2>1, <2>2
    <3>3. /\ [loops[l] EXCEPT !.pc = p].cb = loops[l].cb
          /\ [loops[l] EXCEPT !.pc = p].file = loops[l].file
          /\ [loops[l] EXCEPT !.pc = p].initial = loops[l].initial
      BY <3>2 DEF Loop
    <3>4. /\ [loops[l] EXCEPT !.pc = p, !.initial = FALSE].cb = loops[l].cb
          /\ [loops[l] EXCEPT !.pc = p, !.initial = FALSE].file = loops[l].file
      BY <3>2 DEF Loop
    <3>5. [loops[l] EXCEPT !.pc = p, !.initial = FALSE].initial = FALSE
      BY <3>2 DEF Loop
    <3> QED
      BY <2>2, <3>1, <3>3, <3>4, <3>5
  <2>3. CASE k # l
    <3>1. s[k] = loops[k] /\ t[k] = loops[k]
      BY <1>1, <2>3
    <3> QED
      BY <2>3, <3>1
  <2> QED
    BY <2>2, <2>3
<1> HIDE DEF s, t
<1>5. s \in Seq(Loop) /\ t \in Seq(Loop) /\ Len(s) = Len(loops) /\ Len(t) = Len(loops)
  BY <1>1, <1>3
<1> QED
  BY <1>4, <1>5 DEF s, t

\* ... of the event loop ...
LEMMA EventLoopTypes ==
    Types /\ UNCHANGED setting /\ EventLoop => Types'
<1> SUFFICES ASSUME Types, UNCHANGED setting, EventLoop PROVE Types'
  OBVIOUS
<1> USE DEF Types
<1>0. /\ \A f \in File : notYet[f] # None => notYet[f] \in Entry
      /\ Len(loops) \in Nat
      /\ \A l \in 1 .. Len(loops) : loops[l] \in Loop /\ loops[l].file \in File
  <2>1. Len(loops) \in Nat /\ \A l \in 1 .. Len(loops) : loops[l] \in Loop
    BY DEF ModuleTypes
  <2>2. \A l \in 1 .. Len(loops) : loops[l].file \in File
    BY <2>1 DEF Loop
  <2>3. \A f \in File : notYet[f] # None => notYet[f] \in Entry
    BY DEF ModuleTypes
  <2> QED
    BY <2>1, <2>2, <2>3
<1>1. ASSUME NEW l \in 1 .. Len(loops), RetryTimeout(l) PROVE Types'
  <2> DEFINE f == loops[l].file
  <2>1. f \in File /\ l \in Nat
    BY <1>0
  <2>2. loops' \in Seq(Loop)
    <3>1. /\ [loops EXCEPT ![l].pc = "done"] \in Seq(Loop)
          /\ [loops EXCEPT ![l].pc = "sent"] \in Seq(Loop)
      BY LoopUpdate
    <3> QED
      BY <1>1, <3>1 DEF RetryTimeout
  <2>3. notYet[f] # None =>
            /\ [kind |-> "loop", file |-> f, loop |-> l, o |-> notYet[f].id] \in WatchCont
            /\ [notYet[f] EXCEPT !.timer = 0] \in Entry
            /\ [notYet[f] EXCEPT !.timer = 0, !.long = TRUE] \in Entry
    BY <1>0, <2>1 DEF WatchCont, LoopCont, Entry
  <2>4. cmdq' \in Seq(Command)
    BY <1>1, <2>3, SendTypes DEF RetryTimeout, QueueTypes
  <2>5. notYet' \in [File -> Entry \cup {None}]
    BY <1>1, <2>1, <2>3 DEF RetryTimeout, ModuleTypes
  <2> QED
    BY <1>1, <2>2, <2>4, <2>5 DEF RetryTimeout, HelperTypes, QueueTypes, ModuleTypes,
       ConsumerTypes, fsVars, portVars, cVars, userVars
<1>2. CASE LongInterval
  <2> DEFINE S == {f \in File : notYet[f] # None /\ notYet[f].long}
             F == SetToSeq(S)
             r == [i \in 1 .. Len(F) |->
                      [cmd |-> "WATCH", cont |-> [kind |-> "long", file |-> F[i]]]]
  <2>1. F \in Seq(File)
    BY Listed
  <2> HIDE DEF F
  <2>2. r \in Seq(Command)
    BY <2>1, LongCommands
  <2>3. cmdq' = cmdq \o r
    BY <1>2 DEF LongInterval, F
  <2> HIDE DEF r
  <2>4. cmdq' \in Seq(Command)
    BY <2>2, <2>3 DEF QueueTypes
  <2> QED
    BY <1>2, <2>4 DEF LongInterval, HelperTypes, QueueTypes, ModuleTypes,
       ConsumerTypes, fsVars, portVars, cVars, userVars
<1>3. ASSUME outq # <<>>, outq' = Tail(outq)
      PROVE  outq' \in Seq(Message) /\ Head(outq) \in Message
  BY <1>3, TailOf DEF QueueTypes
<1>4. CASE LoopResponse
  <2> DEFINE m == Head(outq)
             l == m.cont.loop
             f == m.cont.file
  <2>1. m \in Message /\ outq' \in Seq(Message) /\ m.type = "response"
        /\ m.cont.kind = "loop"
    BY <1>3, <1>4 DEF LoopResponse
  <2>2. f \in File /\ l \in Nat
    BY <2>1 DEF Message, WatchCont, UnwatchCont, LoopCont, LongCont
  <2>3. loops' \in Seq(Loop)
    <3>1. /\ [loops EXCEPT ![l].pc = "done", ![l].initial = FALSE] \in Seq(Loop)
          /\ [loops EXCEPT ![l].pc = "timer", ![l].initial = FALSE] \in Seq(Loop)
      BY LoopUpdate
    <3> QED
      BY <1>4, <3>1 DEF LoopResponse
  <2>4. notYet[f] # None =>
            [notYet[f] EXCEPT !.tries = notYet[f].tries + 1, !.timer = l] \in Entry
    <3>1. notYet[f] # None => notYet[f] \in Entry /\ notYet[f].tries + 1 \in Nat
      BY <1>0, <2>2 DEF Entry
    <3> QED
      BY <2>2, <3>1 DEF Entry
  <2>5. notYet' \in [File -> Entry \cup {None}]
    BY <1>4, <2>2, <2>4 DEF LoopResponse, ModuleTypes
  <2>6. seen' \in [File -> Nat] /\ watching' \in [File -> {"no", "active", "inactive"}]
    BY ZenonT(60), <1>4, <2>2 DEF LoopResponse, Notify, ModuleTypes, HelperTypes
  <2>7. user' \in [File -> {"idle", "watching", "dropping", "unwatching"}]
    BY <1>4 DEF LoopResponse, CallBack, ConsumerTypes
  <2> QED
    BY <1>4, <2>1, <2>3, <2>5, <2>6, <2>7 DEF LoopResponse, HelperTypes, QueueTypes,
       ModuleTypes, ConsumerTypes, fsVars, portVars, cVars
<1>5. CASE LongResponse
  <2> DEFINE m == Head(outq)
             f == m.cont.file
  <2>1. m \in Message /\ outq' \in Seq(Message) /\ m.type = "response"
    BY <1>3, <1>5 DEF LongResponse
  <2>2. f \in File
    BY <2>1 DEF Message, WatchCont, UnwatchCont, LoopCont, LongCont
  <2>3. /\ seen' \in [File -> Nat] /\ watching' \in [File -> {"no", "active", "inactive"}]
        /\ notYet' \in [File -> Entry \cup {None}]
    BY <1>5, <2>2 DEF LongResponse, Notify, ModuleTypes, HelperTypes
  <2> QED
    BY <1>5, <2>1, <2>3 DEF LongResponse, HelperTypes, QueueTypes, ModuleTypes,
       ConsumerTypes, fsVars, portVars, cVars, userVars
<1>6. CASE UnwatchResponse
  <2>1. outq' \in Seq(Message)
    BY <1>3, <1>6 DEF UnwatchResponse
  <2>2. /\ watching' \in [File -> {"no", "active", "inactive"}]
        /\ user' \in [File -> {"idle", "watching", "dropping", "unwatching"}]
        /\ cleaner' \in [File -> {"idle", "chosen", "unwatching"}]
    BY <1>6 DEF UnwatchResponse, ModuleTypes, ConsumerTypes
  <2> QED
    BY <1>6, <2>1, <2>2 DEF UnwatchResponse, HelperTypes, QueueTypes, ModuleTypes,
       ConsumerTypes, fsVars, portVars, cVars
<1>7. CASE HandleEvent
  <2> DEFINE f == Head(outq).file
  <2>1. Head(outq) \in Message /\ outq' \in Seq(Message) /\ f \in File
    BY <1>3, <1>7 DEF HandleEvent, Message
  <2>2. seen' \in [File -> Nat] /\ crashed' \in BOOLEAN
    BY <1>7, <2>1 DEF HandleEvent, Notify, ModuleTypes, HelperTypes
  <2>3. watching' \in [File -> {"no", "active", "inactive"}]
    BY <1>7, <2>1 DEF HandleEvent, ModuleTypes
  <2>4. /\ cmdq' \in Seq(Command) /\ notYet' \in [File -> Entry \cup {None}]
        /\ loops' \in Seq(Loop)
    <3>1. StartLoop(f, FALSE) \/ UNCHANGED <<notYet, loops, cmdq>>
      BY <1>7 DEF HandleEvent
    <3> QED
      BY <2>1, <3>1, StartLoopTypes DEF QueueTypes, ModuleTypes
  <2> QED
    BY <1>7, <2>1, <2>2, <2>3, <2>4 DEF HandleEvent, HelperTypes, QueueTypes, ModuleTypes,
       ConsumerTypes, fsVars, portVars, cVars, userVars
<1>8. CASE HandleError
  <2>1. outq' \in Seq(Message)
    BY <1>3, <1>8 DEF HandleError
  <2> QED
    BY <1>8, <2>1 DEF HandleError, HelperTypes, QueueTypes, ModuleTypes,
       ConsumerTypes, fsVars, portVars, cVars, userVars
<1> QED
  BY <1>1, <1>2, <1>4, <1>5, <1>6, <1>7, <1>8 DEF EventLoop

\* unwatch() sends a command or forgets an entry.
LEMMA UnwatchCallTypes ==
    ASSUME Types, NEW f \in File, NEW who \in {"user", "cleaner"},
           NEW done \in BOOLEAN, UnwatchCall(f, who, done)
    PROVE  /\ cmdq' \in Seq(Command)
           /\ watching' \in [File -> {"no", "active", "inactive"}]
           /\ notYet' \in [File -> Entry \cup {None}]
           /\ loops' \in Seq(Loop)
           /\ crashed' \in BOOLEAN
<1> USE DEF Types
<1>1. [kind |-> who, file |-> f] \in UnwatchCont
  BY DEF UnwatchCont
<1>2. cmdq' \in Seq(Command)
  BY <1>1, SendTypes DEF UnwatchCall, QueueTypes
<1>3. loops' \in Seq(Loop)
  <2>1. [loops EXCEPT ![notYet[f].timer].pc = "done"] \in Seq(Loop)
    BY LoopUpdate
  <2> QED
    BY <2>1 DEF UnwatchCall, ModuleTypes
<1> QED
  BY <1>2, <1>3 DEF UnwatchCall, ModuleTypes

\* ... and of the consumer.
LEMMA ConsumerStepTypes ==
    Types /\ UNCHANGED setting /\ Consumer => Types'
<1> SUFFICES ASSUME Types, UNCHANGED setting, NEW f \in File,
                    \/ Watch(f) \/ Forget(f) \/ Unwatch(f)
                    \/ CleanerFind(f) \/ CleanerUnwatch(f)
             PROVE  Types'
  BY WatcherAssumption DEF Types, Consumer
<1> USE DEF Types
<1>1. CASE Watch(f)
  <2>1. StartLoop(f, TRUE) \/ UNCHANGED <<notYet, loops, cmdq>>
    BY <1>1 DEF Watch
  <2>2. /\ cmdq' \in Seq(Command) /\ notYet' \in [File -> Entry \cup {None}]
        /\ loops' \in Seq(Loop)
    BY <2>1, StartLoopTypes DEF QueueTypes, ModuleTypes
  <2> QED
    BY <1>1, <2>2 DEF Watch, HelperTypes, QueueTypes, ModuleTypes, ConsumerTypes,
       fsVars, portVars, cVars
<1>2. CASE Forget(f) \/ CleanerFind(f)
  <2>1. UNCHANGED <<fsVars, portVars, cVars, cmdq, outq, jsVars, seen>>
    BY <1>2 DEF Forget, CleanerFind
  <2>2. ConsumerTypes'
    BY <1>2 DEF Forget, CleanerFind, ConsumerTypes
  <2> QED
    BY <2>1, <2>2 DEF HelperTypes, QueueTypes, ModuleTypes, fsVars, portVars, cVars, jsVars
<1>3. CASE Unwatch(f) \/ CleanerUnwatch(f)
  <2>1. \E who \in {"user", "cleaner"}, done \in BOOLEAN : UnwatchCall(f, who, done)
    BY <1>3 DEF Unwatch, CleanerUnwatch
  <2>2. /\ cmdq' \in Seq(Command) /\ notYet' \in [File -> Entry \cup {None}]
        /\ watching' \in [File -> {"no", "active", "inactive"}]
        /\ loops' \in Seq(Loop) /\ crashed' \in BOOLEAN
    BY <2>1, UnwatchCallTypes
  <2>3. ConsumerTypes'
    BY <1>3 DEF Unwatch, CleanerUnwatch, ConsumerTypes
  <2> QED
    BY <1>3, <2>2, <2>3 DEF Unwatch, CleanerUnwatch, HelperTypes, QueueTypes, ModuleTypes,
       fsVars, portVars, cVars
<1> QED
  BY <1>1, <1>2, <1>3

\* Every field keeps its type.
LEMMA TypesInvariant == Spec => []Types
<1>1. Init => Types
  <2> SUFFICES ASSUME Init PROVE Types
    OBVIOUS
  <2>1. /\ exists \in [File -> BOOLEAN] /\ ver \in [File -> Nat]
        /\ assoc \in [File -> BOOLEAN] /\ handle \in [File -> BOOLEAN]
        /\ got = None /\ work = None
    BY DEF Init
  <2>2. portq \in [File -> Seq(AnyEvent)] /\ \A f \in File : portq[f] \in Seq(Queued(f))
    BY DEF Init
  <2>3. cmdq \in Seq(Command) /\ outq \in Seq(Message) /\ loops \in Seq(Loop)
    BY DEF Init
  <2>4. ModuleTypes /\ ConsumerTypes
    BY <2>3 DEF Init, ModuleTypes, ConsumerTypes
  <2> QED
    BY <2>1, <2>2, <2>3, <2>4 DEF Init, Types, HelperTypes, QueueTypes
<1>2. Types /\ [Next]_vars => Types'
  <2> SUFFICES ASSUME Types, [Next]_vars PROVE Types'
    OBVIOUS
  <2>1. CASE Next
    BY <2>1, FileSystemTypes, HelperStepTypes, EventLoopTypes, ConsumerStepTypes DEF Next
  <2>2. CASE UNCHANGED vars
    BY <2>2 DEF vars, fsVars, portVars, cVars, jsVars, userVars, Types, HelperTypes,
       QueueTypes, ModuleTypes, ConsumerTypes
  <2> QED
    BY <2>1, <2>2
<1> QED
  BY <1>1, <1>2, PTL DEF Spec

-----------------------------------------------------------------------------
(* HandleArmed.                                                            *)

Taken(f) == got # None /\ got.file = f
Working(f) == work # None /\ work.file = f

\* A handle has an association or an event of its own under way.  The event of
\* a handle that was destroyed (stale) does not count.
Armed(f) ==
    /\ assoc[f] => handle[f]
    /\ Working(f) => handle[f]
    /\ handle[f] => \/ assoc[f] \/ portq[f] # <<>>
                    \/ Taken(f) /\ ~got.stale
                    \/ Working(f)

\* Without deletions, nothing says that a file is gone.
Mods(q) == \A i \in 1 .. Len(q) : q[i].ev = "mod"
Tame(m) == m.type # "error" /\ (m.type = "event" => ~m.final)
AllTame(q) == \A i \in 1 .. Len(q) : Tame(q[i])

NoDeletion ==
    /\ \A f \in File : handle[f] => exists[f]
    /\ \A f \in File : Mods(portq[f])
    /\ got # None => got.ev = "mod"
    /\ AllTame(outq)

\* The association of a file, its event in the port, the event that a thread
\* has taken and the thread's work are one thing that moves on.
OneToken(f) ==
    /\ portq[f] # <<>> => Len(portq[f]) = 1
    /\ assoc[f] => portq[f] = <<>> /\ ~Taken(f) /\ ~Working(f)
    /\ portq[f] # <<>> => ~Taken(f) /\ ~Working(f) /\ handle[f]
    /\ Taken(f) => ~Working(f) /\ handle[f]

\* Without a consumer that drops files, nothing is ever unwatched.
AllWanted ==
    /\ \A c \in ToSet(cmdq) : c.cmd = "WATCH" /\ want[c.cont.file]
    /\ \A m \in ToSet(outq) : m.type = "response" => want[m.cont.file]
    /\ work # None /\ work.by = "stdin" => want[work.file]
    /\ \A f \in File : /\ watching[f] # "no" \/ notYet[f] # None => want[f]
                       /\ user[f] # "dropping" /\ cleaner[f] = "idle"

NeverUnwatched ==
    /\ AllWanted
    /\ got # None => ~got.stale
    /\ \A f \in File : OneToken(f)

\* Events and lines that are added and taken.
LEMMA ModsOf ==
    ASSUME NEW q \in Seq(AnyEvent), Mods(q)
    PROVE  /\ \A e \in AnyEvent : e.ev = "mod" => Mods(Append(q, e))
           /\ q # <<>> => Head(q).ev = "mod" /\ Mods(Tail(q))
           /\ Mods(<<>>)
<1>1. ASSUME NEW e \in AnyEvent, e.ev = "mod" PROVE Mods(Append(q, e))
  <2>1. /\ Len(q) \in Nat /\ Len(Append(q, e)) = Len(q) + 1
        /\ Append(q, e)[Len(q) + 1] = e
        /\ \A i \in 1 .. Len(q) : Append(q, e)[i] = q[i]
    BY AppendOf
  <2> QED
    BY <1>1, <2>1 DEF Mods
<1>2. ASSUME q # <<>> PROVE Head(q).ev = "mod" /\ Mods(Tail(q))
  <2>1. /\ Len(q) \in Nat \ {0} /\ Head(q) = q[1] /\ Len(Tail(q)) = Len(q) - 1
        /\ \A i \in 1 .. Len(Tail(q)) : Tail(q)[i] = q[i + 1]
    BY <1>2, TailOf
  <2> QED
    BY <2>1 DEF Mods
<1>3. Mods(<<>>)
  BY DEF Mods
<1> QED
  BY <1>1, <1>2, <1>3

LEMMA TameOf ==
    ASSUME NEW q \in Seq(Message), AllTame(q)
    PROVE  /\ \A m \in Message : Tame(m) => AllTame(Append(q, m))
           /\ q # <<>> => Tame(Head(q)) /\ AllTame(Tail(q))
<1>1. ASSUME NEW m \in Message, Tame(m) PROVE AllTame(Append(q, m))
  <2>1. /\ Len(q) \in Nat /\ Len(Append(q, m)) = Len(q) + 1
        /\ Append(q, m)[Len(q) + 1] = m
        /\ \A i \in 1 .. Len(q) : Append(q, m)[i] = q[i]
    BY AppendOf
  <2> QED
    BY <1>1, <2>1 DEF AllTame
<1>2. ASSUME q # <<>> PROVE Tame(Head(q)) /\ AllTame(Tail(q))
  <2>1. /\ Len(q) \in Nat \ {0} /\ Head(q) = q[1] /\ Len(Tail(q)) = Len(q) - 1
        /\ \A i \in 1 .. Len(Tail(q)) : Tail(q)[i] = q[i + 1]
    BY <1>2, TailOf
  <2> QED
    BY <2>1 DEF AllTame
<1> QED
  BY <1>1, <1>2

\* NoDeletion in the steps of the file system and the helper.
LEMMA NoDeletionHelper ==
    ASSUME Types, NoDeletion, ~setting.mayDelete, FileSystem \/ Helper,
           \A f \in File : Working(f) => handle[f]
    PROVE  NoDeletion'
<1> USE DEF Types, HelperTypes, QueueTypes
<1>0. ASSUME NEW f \in File
      PROVE  /\ portq[f] \in Seq(AnyEvent) /\ PortEvent(f, "mod") \in AnyEvent
             /\ Mods(Append(portq[f], PortEvent(f, "mod")))
  <2>1. PortEvent(f, "mod") \in AnyEvent /\ PortEvent(f, "mod").ev = "mod"
    BY Made DEF PortEvent
  <2> QED
    BY <2>1, ModsOf DEF NoDeletion
<1>1. ASSUME FileSystem PROVE NoDeletion'
  <2>1. PICK f \in File : Modify(f) \/ Create(f)
    BY <1>1, WatcherAssumption DEF FileSystem, Delete
  <2>2. FileChanges(f, TRUE, "mod")
    BY <2>1 DEF Modify, Create
  <2>3. \A g \in File : handle'[g] => exists'[g]
    BY <2>2 DEF FileChanges, NoDeletion, cVars
  <2>4. \A g \in File : Mods(portq'[g])
    BY <1>0, <2>2 DEF FileChanges, NoDeletion
  <2> QED
    BY <2>2, <2>3, <2>4 DEF FileChanges, NoDeletion, cVars
<1>2. CASE CWatch \/ CUnwatch
  <2> DEFINE c == Head(cmdq).cont
             f == c.file
  <2>1. c \in WatchCont \cup UnwatchCont /\ f \in File
    BY <1>2, TailOf, Made DEF CWatch, CUnwatch
  <2>2. \A ok \in BOOLEAN : AllTame(Append(outq, Response(c, ok)))
    <3> TAKE ok \in BOOLEAN
    <3>1. Response(c, ok) \in Message /\ Tame(Response(c, ok))
      BY <2>1, Made DEF Response, Tame
    <3> QED
      BY <3>1, TameOf DEF NoDeletion
  <2>3. AllTame(outq')
    BY <1>2, <2>2 DEF CWatch, CUnwatch, NoDeletion
  <2>4. \A g \in File : handle'[g] => exists'[g]
    BY <1>2, <2>1 DEF CWatch, CUnwatch, NoDeletion, fsVars
  <2>5. \A g \in File : Mods(portq'[g])
    <3>1. Mods(<<>>)
      BY DEF Mods
    <3> QED
      BY <1>2, <2>1, <3>1 DEF CWatch, CUnwatch, NoDeletion, portVars
  <2>6. got' # None => got'.ev = "mod"
    <3>1. got \in AnyEvent => [got EXCEPT !.stale = TRUE].ev = got.ev
      BY DEF AnyEvent
    <3>2. got' = got \/ (got # None /\ got' = [got EXCEPT !.stale = TRUE])
      BY <1>2 DEF CWatch, CUnwatch
    <3>3. got # None => got \in AnyEvent /\ got.ev = "mod"
      BY DEF NoDeletion
    <3> QED
      BY <3>1, <3>2, <3>3
  <2> QED
    BY <2>3, <2>4, <2>5, <2>6 DEF NoDeletion
<1>3. CASE CPortGet
  <2>1. PICK f \in File : /\ portq[f] # <<>> /\ got' = Head(portq[f])
                          /\ portq' = [portq EXCEPT ![f] = Tail(@)]
    BY <1>3 DEF CPortGet
  <2>2. portq[f] \in Seq(AnyEvent) /\ Mods(portq[f])
    BY DEF NoDeletion
  <2>3. got'.ev = "mod" /\ Mods(Tail(portq[f]))
    BY <2>1, <2>2, ModsOf
  <2>4. \A g \in File : Mods(portq'[g])
    BY <2>1, <2>3 DEF NoDeletion
  <2> QED
    BY <1>3, <2>3, <2>4 DEF CPortGet, NoDeletion, fsVars
<1>4. CASE CEvent
  <2>1. got.file \in File /\ got.ev = "mod"
    BY <1>4 DEF CEvent, AnyEvent, NoDeletion
  <2>2. UNCHANGED <<outq, handle>>
    BY <1>4, <2>1 DEF CEvent, NoDeletion
  <2> QED
    BY <1>4, <2>2 DEF CEvent, NoDeletion, fsVars, portVars
<1>5. CASE CAssociate
  <2>1. PICK f \in File : work \in StdinWork(f) \cup PortWork(f)
    BY <1>5 DEF CAssociate
  <2>2. work.file = f /\ work.msg \in Message /\ Tame(work.msg)
    BY <2>1, Made DEF StdinWork, PortWork, Tame
  <2>3. exists[f]
    BY <1>5, <2>2 DEF CAssociate, Working, NoDeletion
  <2>4. outq' = Append(outq, work.msg) /\ UNCHANGED handle
        /\ portq' = IF ver[f] = work.ver THEN portq
                    ELSE [portq EXCEPT ![f] = Append(@, PortEvent(f, "mod"))]
    BY <1>5, <2>2, <2>3 DEF CAssociate
  <2>5. AllTame(outq')
    BY <2>2, <2>4, TameOf DEF NoDeletion
  <2>6. \A g \in File : Mods(portq'[g])
    BY <1>0, <2>4 DEF NoDeletion
  <2> QED
    BY <1>5, <2>4, <2>5, <2>6 DEF CAssociate, NoDeletion, fsVars
<1> QED
  BY <1>1, <1>2, <1>3, <1>4, <1>5 DEF Helper

\* NoDeletion in the steps of the module and the consumer.
LEMMA NoDeletionModule ==
    ASSUME Types, NoDeletion, EventLoop \/ Consumer
    PROVE  NoDeletion'
<1>1. UNCHANGED <<exists, portq, handle, got>>
  BY DEF EventLoop, Consumer, RetryTimeout, LongInterval, LoopResponse, LongResponse,
     UnwatchResponse, HandleEvent, HandleError, Watch, Forget, Unwatch, CleanerFind,
     CleanerUnwatch, fsVars, portVars, cVars
<1>2. outq' = outq \/ (outq # <<>> /\ outq' = Tail(outq))
  BY DEF EventLoop, Consumer, RetryTimeout, LongInterval, LoopResponse, LongResponse,
     UnwatchResponse, HandleEvent, HandleError, Watch, Forget, Unwatch, CleanerFind,
     CleanerUnwatch
<1>3. AllTame(outq')
  BY <1>2, TameOf DEF NoDeletion, Types, QueueTypes
<1> QED
  BY <1>1, <1>3 DEF NoDeletion


\* Armed in the steps of the file system and the helper.  Only a deletion
\* destroys a handle there, and only if the event is the handle's own.
LEMMA ArmedHelper ==
    ASSUME Types, \A f \in File : Armed(f), ~(setting.mayDelete /\ setting.mayDrop),
           ~setting.mayDelete => NoDeletion, ~setting.mayDrop => NeverUnwatched,
           FileSystem \/ Helper
    PROVE  \A f \in File : Armed(f)'
<1> USE DEF Types, HelperTypes, QueueTypes
<1>0. \A f \in File : Append(portq[f], PortEvent(f, "mod")) # <<>>
                      /\ Append(portq[f], PortEvent(f, "del")) # <<>>
  BY SMTT(30), Made, AppendOf
<1>1. ASSUME FileSystem PROVE \A f \in File : Armed(f)'
  <2>1. PICK f \in File : Modify(f) \/ Create(f) \/ Delete(f)
    BY <1>1, WatcherAssumption DEF FileSystem
  <2>2. PICK there \in BOOLEAN, ev \in {"mod", "del"} : FileChanges(f, there, ev)
    BY <2>1 DEF Modify, Create, Delete
  <2>3. UNCHANGED <<handle, got, work>>
    BY <2>2 DEF FileChanges, cVars
  <2>4. /\ ~assoc'[f]
        /\ assoc[f] => portq'[f] # <<>>
        /\ ~assoc[f] => portq'[f] = portq[f]
        /\ \A g \in File \ {f} : assoc'[g] = assoc[g] /\ portq'[g] = portq[g]
    <3>1. assoc' = [assoc EXCEPT ![f] = FALSE]
      BY <2>2 DEF FileChanges
    <3>2. portq' = IF assoc[f] THEN [portq EXCEPT ![f] = Append(portq[f], PortEvent(f, ev))]
                   ELSE portq
      BY <2>2 DEF FileChanges
    <3>3. Append(portq[f], PortEvent(f, ev)) # <<>>
      BY <1>0
    <3>4. ~assoc'[f] /\ \A g \in File \ {f} : assoc'[g] = assoc[g]
      BY <3>1
    <3> HIDE DEF Types, HelperTypes, QueueTypes
    <3>5. portq \in [File -> Seq(AnyEvent)]
      BY DEF Types, HelperTypes
    <3> QED
      BY <3>2, <3>3, <3>4, <3>5
  <2> QED
    BY ZenonT(60), <2>3, <2>4 DEF Armed, Taken, Working
<1>2. CASE CWatch
  <2>1. PICK f \in File : f = Head(cmdq).cont.file
    BY <1>2, TailOf, Made DEF CWatch
  <2>2. UNCHANGED <<assoc, portq, got>> /\ work = None
    BY <1>2 DEF CWatch, portVars
  <2>3. \/ UNCHANGED <<handle, work>>
        \/ /\ handle' = [handle EXCEPT ![f] = TRUE]
           /\ work' # None /\ work'.file = f
    <3>2. \/ UNCHANGED <<handle, work>>
          \/ /\ handle' = [handle EXCEPT ![f] = TRUE]
             /\ work' = [by |-> "stdin", file |-> f, ver |-> ver[f],
                         msg |-> Response(Head(cmdq).cont, TRUE)]
      BY <1>2, <2>1 DEF CWatch
    <3>3. ASSUME work' = [by |-> "stdin", file |-> f, ver |-> ver[f],
                          msg |-> Response(Head(cmdq).cont, TRUE)]
          PROVE  work' # None /\ work'.file = f
      BY <3>3 DEF None
    <3> QED
      BY <3>2, <3>3
  <2> QED
    BY <2>1, <2>2, <2>3 DEF Armed, Taken, Working
<1>3. CASE CUnwatch
  <2>1. PICK f \in File : f = Head(cmdq).cont.file
    BY <1>3, TailOf, Made DEF CUnwatch
  <2>2. work = None /\ work' = None
    BY <1>3 DEF CUnwatch
  <2>3. CASE UNCHANGED <<handle, portVars, got>>
    BY <2>2, <2>3 DEF Armed, Taken, Working, portVars
  <2>4. CASE /\ handle' = [handle EXCEPT ![f] = FALSE]
             /\ assoc' = [assoc EXCEPT ![f] = FALSE]
             /\ portq' = [portq EXCEPT ![f] = <<>>]
             /\ got' = IF got # None /\ got.file = f
                       THEN [got EXCEPT !.stale = TRUE] ELSE got
    <3>1. ~handle'[f] /\ ~assoc'[f] /\ ~Working(f)'
      BY <2>1, <2>2, <2>4 DEF Working
    <3>2. ASSUME NEW g \in File \ {f} PROVE Armed(g)'
      <4>1. handle'[g] = handle[g] /\ assoc'[g] = assoc[g] /\ portq'[g] = portq[g]
        BY <2>1, <2>4
      <4>2. Taken(g) => got' = got
        BY <2>4, <3>2 DEF Taken
      <4> QED
        BY <2>2, <4>1, <4>2 DEF Armed, Taken, Working
    <3>3. Armed(f)'
      BY <3>1 DEF Armed
    <3> QED
      BY <3>2, <3>3
  <2> QED
    BY <1>3, <2>1, <2>3, <2>4 DEF CUnwatch
<1>4. CASE CPortGet
  <2>1. PICK f \in File : /\ portq[f] # <<>> /\ got' = Head(portq[f])
                          /\ portq' = [portq EXCEPT ![f] = Tail(@)]
    BY <1>4 DEF CPortGet
  <2>2. portq[f] \in Seq(Queued(f))
    OBVIOUS
  <2>3. Head(portq[f]) \in Queued(f)
    BY <2>1, <2>2, TailOf
  <2>4. got' # None /\ got'.file = f /\ ~got'.stale
    BY <2>1, <2>3, Made, NotNone DEF Queued
  <2>5. got = None /\ UNCHANGED <<assoc, handle, work>>
        /\ \A g \in File \ {f} : portq'[g] = portq[g]
    BY <1>4, <2>1 DEF CPortGet
  <2> QED
    BY <2>1, <2>4, <2>5 DEF Armed, Taken, Working
<1>5. CASE CEvent
  <2>0. PICK f \in File : f = got.file
    BY <1>5 DEF CEvent, AnyEvent
  <2>1. /\ f = got.file /\ got # None /\ got' = None /\ work = None
        /\ UNCHANGED <<assoc, portq>>
    BY <1>5, <2>0 DEF CEvent, portVars
  <2>2. CASE (~handle[f] \/ got.stale) /\ UNCHANGED <<handle, work, outq>>
    BY <2>1, <2>2 DEF Armed, Taken, Working
  <2>3. CASE /\ handle[f] /\ (got.ev = "del" \/ ~exists[f])
             /\ handle' = [handle EXCEPT ![f] = FALSE]
             /\ UNCHANGED work
    <3>1. setting.mayDelete
      BY <2>1, <2>3 DEF NoDeletion
    <3>2. NeverUnwatched
      BY <3>1, WatcherAssumption
    <3>3. ~assoc[f]
      BY <2>1, <3>2 DEF NeverUnwatched, OneToken, Taken
    <3>4. \A g \in File \ {f} : ~Taken(g) /\ handle'[g] = handle[g]
      BY <2>1, <2>3 DEF Taken
    <3>5. ~handle'[f] /\ ~assoc'[f] /\ ~Working(f)'
      BY <2>1, <2>3, <3>3 DEF Working
    <3>6. \A g \in File \ {f} : Armed(g)'
      BY <2>1, <2>3, <3>4 DEF Armed, Taken, Working
    <3>7. Armed(f)'
      BY <3>5 DEF Armed
    <3> QED
      BY <3>6, <3>7
  <2>4. CASE /\ handle[f] /\ UNCHANGED handle
             /\ work' = [by |-> "port", file |-> f, ver |-> ver[f],
                         msg |-> Event(f, got.ev, FALSE)]
    <3>1. work' # None /\ work'.file = f
      BY <2>4 DEF None
    <3> QED
      BY <2>1, <2>4, <3>1 DEF Armed, Taken, Working
  <2> QED
    BY <1>5, <2>1, <2>2, <2>3, <2>4 DEF CEvent
<1>6. CASE CAssociate
  <2>1. PICK f \in File : work \in StdinWork(f) \cup PortWork(f)
    BY <1>6 DEF CAssociate
  <2>2. work.file = f /\ work # None /\ work' = None /\ UNCHANGED got
    BY <1>6, <2>1, NotNone DEF StdinWork, PortWork, CAssociate
  <2>3. handle[f]
    BY <2>2 DEF Armed, Working
  <2>4. CASE exists[f]
    <3>1. /\ UNCHANGED handle
          /\ assoc'[f] \/ portq'[f] # <<>>
          /\ \A g \in File \ {f} : assoc'[g] = assoc[g] /\ portq'[g] = portq[g]
      BY <1>0, <1>6, <2>2, <2>4 DEF CAssociate
    <3>2. Armed(f)'
      BY <2>2, <2>3, <3>1 DEF Armed, Working
    <3>3. \A g \in File \ {f} : Armed(g)'
      BY <2>2, <3>1 DEF Armed, Taken, Working
    <3> QED
      BY <3>2, <3>3
  <2>5. CASE ~exists[f]
    <3>1. handle' = [handle EXCEPT ![f] = FALSE] /\ UNCHANGED <<assoc, portq>>
      BY <1>6, <2>2, <2>5 DEF CAssociate, portVars
    <3>2. NeverUnwatched
      BY <2>3, <2>5, WatcherAssumption DEF NoDeletion
    <3>3. ~assoc[f]
      BY <2>2, <3>2 DEF NeverUnwatched, OneToken, Working
    <3>4. Armed(f)'
      BY <2>2, <3>1, <3>3 DEF Armed, Working
    <3>5. \A g \in File \ {f} : Armed(g)'
      BY <2>2, <3>1 DEF Armed, Taken, Working
    <3> QED
      BY <3>4, <3>5
  <2> QED
    BY <2>4, <2>5
<1> QED
  BY <1>1, <1>2, <1>3, <1>4, <1>5, <1>6 DEF Helper

-----------------------------------------------------------------------------
(* The commands that the module sends.                                     *)

\* A WATCH is for a file that is not yet watched, and a loop's for a loop that
\* there is.
WatchSent(c) ==
    /\ c.cmd = "WATCH" /\ notYet'[c.cont.file] # None
    /\ c.cont.kind = "loop" => c.cont.loop \in 1 .. Len(loops')

\* The queue of commands grows by such commands only.
SendsWatches ==
    /\ ToSet(cmdq) \subseteq ToSet(cmdq')
    /\ \A c \in ToSet(cmdq') : c \in ToSet(cmdq) \/ WatchSent(c)

\* A command that is sent comes on top of those before it.
LEMMA SendAdds ==
    ASSUME QueueTypes, NEW cmd, NEW c, Send(cmd, c),
           \/ cmd = "WATCH" /\ c \in WatchCont
           \/ cmd = "UNWATCH" /\ c \in UnwatchCont
    PROVE  ToSet(cmdq') = ToSet(cmdq) \cup {[cmd |-> cmd, cont |-> c]}
<1>1. [cmd |-> cmd, cont |-> c] \in Command
  BY Made
<1> QED
  BY <1>1, ElementsOf DEF Send, QueueTypes

\* watch() sends a WATCH.
LEMMA StartLoopSends ==
    ASSUME Types, NEW f \in File, NEW cb \in BOOLEAN, StartLoop(f, cb)
    PROVE  SendsWatches
<1> DEFINE l == Len(loops) + 1
           c == [kind |-> "loop", file |-> f, loop |-> l, o |-> l]
           e == [id |-> l, tries |-> 0, timer |-> 0, long |-> FALSE]
<1>1. l \in Nat
  BY DEF Types, ModuleTypes
<1>2. c \in WatchCont /\ c.file = f /\ e \in Entry
  BY <1>1 DEF WatchCont, LoopCont, Entry
<1>3. ToSet(cmdq') = ToSet(cmdq) \cup {[cmd |-> "WATCH", cont |-> c]}
  BY <1>2, SendAdds DEF StartLoop, Types
<1>4. notYet'[f] # None
  BY <1>2, NotNone DEF StartLoop, Types, ModuleTypes
<1>5. l \in 1 .. Len(loops')
  BY <1>1, StartLoopTypes DEF StartLoop, Types, ModuleTypes
<1>6. WatchSent([cmd |-> "WATCH", cont |-> c])
  BY <1>2, <1>4, <1>5 DEF WatchSent
<1> QED
  BY <1>3, <1>6 DEF SendsWatches

\* What the event loop sends.
LEMMA EventLoopSends ==
    ASSUME Types, EventLoop
    PROVE  SendsWatches
<1> USE DEF Types
<1>1. ASSUME UNCHANGED cmdq PROVE SendsWatches
  BY <1>1 DEF SendsWatches
<1>2. ASSUME NEW l \in 1 .. Len(loops), RetryTimeout(l) PROVE SendsWatches
  <2>1. PICK f \in File : f = loops[l].file
    <3>1. loops[l] \in Loop
      BY DEF ModuleTypes
    <3> QED
      BY <3>1 DEF Loop
  <2>2. CASE notYet[f] # None /\ notYet[f].tries < Tries
    <3> DEFINE c == [kind |-> "loop", file |-> f, loop |-> l, o |-> notYet[f].id]
    <3>1. notYet[f] \in Entry /\ l \in Nat
      BY <2>2 DEF ModuleTypes
    <3>2. c \in WatchCont /\ c.file = f
      BY <3>1 DEF Entry, WatchCont, LoopCont
    <3>3. notYet' = [notYet EXCEPT ![f].timer = 0] /\ Send("WATCH", c)
      <4>1. ~(notYet[f].tries >= Tries)
        BY <2>2, <3>1, WatcherAssumption DEF Entry
      <4> QED
        BY <1>2, <2>1, <2>2, <4>1 DEF RetryTimeout
    <3>4. [notYet[f] EXCEPT !.timer = 0] \in Entry
      BY <3>1 DEF Entry
    <3>5. notYet'[f] # None
      BY <3>3, <3>4, NotNone DEF ModuleTypes
    <3>6. ToSet(cmdq') = ToSet(cmdq) \cup {[cmd |-> "WATCH", cont |-> c]}
      BY <3>2, <3>3, SendAdds
    <3>7. Len(loops') = Len(loops)
      <4>1. loops' = [loops EXCEPT ![l].pc = "sent"] \/ loops' = [loops EXCEPT ![l].pc = "done"]
        BY <1>2 DEF RetryTimeout
      <4> QED
        BY <4>1, LoopUpdate DEF ModuleTypes
    <3>8. WatchSent([cmd |-> "WATCH", cont |-> c])
      BY <3>2, <3>5, <3>7 DEF WatchSent
    <3> QED
      BY <3>6, <3>8 DEF SendsWatches
  <2>3. CASE ~(notYet[f] # None /\ notYet[f].tries < Tries)
    BY <1>1, <1>2, <2>1, <2>3 DEF RetryTimeout
  <2> QED
    BY <2>2, <2>3
<1>3. CASE LongInterval
  <2> DEFINE S == {f \in File : notYet[f] # None /\ notYet[f].long}
             F == SetToSeq(S)
             r == [i \in 1 .. Len(F) |->
                      [cmd |-> "WATCH", cont |-> [kind |-> "long", file |-> F[i]]]]
  <2>1. F \in Seq(S) /\ F \in Seq(File)
    BY Listed
  <2> HIDE DEF F
  <2>2. /\ r \in Seq(Command) /\ Len(r) = Len(F)
        /\ \A i \in 1 .. Len(r) : /\ r[i].cmd = "WATCH" /\ r[i].cont.file = F[i]
                                  /\ r[i].cont.kind = "long"
    BY <2>1, LongCommands
  <2>3. cmdq' = cmdq \o r /\ UNCHANGED notYet
    BY <1>3 DEF LongInterval, F
  <2> HIDE DEF r
  <2>4. ToSet(cmdq') = ToSet(cmdq) \cup ToSet(r)
    BY <2>2, <2>3, ElementsOfBoth DEF QueueTypes
  <2>5. ASSUME NEW c \in ToSet(r) PROVE WatchSent(c)
    <3>1. PICK i \in 1 .. Len(r) : c = r[i]
      BY <2>2, ElementsOf
    <3>2. i \in 1 .. Len(F) /\ F[i] \in S
      BY <2>1, <2>2
    <3>3. c.cmd = "WATCH" /\ c.cont.file = F[i] /\ c.cont.kind = "long"
      BY <2>2, <3>1
    <3> QED
      BY <2>3, <3>2, <3>3 DEF WatchSent
  <2> QED
    BY <2>4, <2>5 DEF SendsWatches
<1>4. CASE LoopResponse \/ LongResponse \/ UnwatchResponse \/ HandleError
  BY <1>1, <1>4 DEF LoopResponse, LongResponse, UnwatchResponse, HandleError
<1>5. CASE HandleEvent
  <2>1. PICK f \in File : f = Head(outq).file
    BY <1>5, TailOf DEF HandleEvent, QueueTypes, Message
  <2>2. StartLoop(f, FALSE) \/ UNCHANGED cmdq
    BY <1>5, <2>1 DEF HandleEvent
  <2> QED
    BY <1>1, <2>2, StartLoopSends
<1> QED
  BY <1>2, <1>3, <1>4, <1>5 DEF EventLoop

-----------------------------------------------------------------------------
(* Nothing is unwatched if no file is dropped.                             *)

\* The files of messages, commands and work.
LEMMA FilesOf ==
    ASSUME Types
    PROVE  /\ \A c \in ToSet(cmdq) : c.cont.file \in File
           /\ \A m \in ToSet(outq) : /\ m \in Message
                                     /\ m.type = "response" => m.cont.file \in File
                                     /\ m.type = "event" => m.file \in File
           /\ work # None => /\ work.file \in File /\ work.by \in {"stdin", "port"}
                             /\ work.msg \in Message
                             /\ work.by = "stdin" => work \in StdinWork(work.file)
                             /\ work.by = "port" => work \in PortWork(work.file)
           /\ got # None => got \in AnyEvent /\ got.file \in File
<1>1. \A c \in ToSet(cmdq) : c.cont.file \in File
  BY ElementsOf, Made DEF Types, QueueTypes
<1>2. \A m \in ToSet(outq) : m \in Message
  BY ElementsOf DEF Types, QueueTypes
<1>3. \A m \in Message : /\ m.type = "response" => m.cont.file \in File
                         /\ m.type = "event" => m.file \in File
  BY DEF Message, WatchCont, UnwatchCont, LoopCont, LongCont
<1>4. ASSUME work # None
      PROVE  /\ work.file \in File /\ work.by \in {"stdin", "port"}
             /\ work.msg \in Message
             /\ work.by = "stdin" => work \in StdinWork(work.file)
             /\ work.by = "port" => work \in PortWork(work.file)
  <2>1. PICK f \in File : work \in StdinWork(f) \cup PortWork(f)
    BY <1>4 DEF Types, HelperTypes
  <2>2. /\ work \in StdinWork(f) => work.file = f /\ work.by = "stdin"
        /\ work \in PortWork(f) => work.file = f /\ work.by = "port"
    BY DEF StdinWork, PortWork
  <2>3. work.msg \in Message
    BY <2>1, Made
  <2> QED
    BY <2>1, <2>2, <2>3
<1>5. got # None => got \in AnyEvent /\ got.file \in File
  BY DEF Types, HelperTypes, AnyEvent
<1> QED
  BY <1>1, <1>2, <1>3, <1>4, <1>5

\* What is in the queue of lines after a step.
LEMMA OutQueue ==
    ASSUME QueueTypes
    PROVE  /\ \A m \in Message : ToSet(Append(outq, m)) = ToSet(outq) \cup {m}
           /\ \A m, n \in Message : ToSet(outq \o <<m, n>>) = ToSet(outq) \cup {m, n}
           /\ outq # <<>> => /\ Head(outq) \in ToSet(outq)
                             /\ ToSet(outq) = {Head(outq)} \cup ToSet(Tail(outq))
<1>1. outq \in Seq(Message)
  BY DEF QueueTypes
<1>2. \A m \in Message : ToSet(Append(outq, m)) = ToSet(outq) \cup {m}
  BY <1>1, ElementsOf
<1>3. outq # <<>> => /\ Head(outq) \in ToSet(outq)
                     /\ ToSet(outq) = {Head(outq)} \cup ToSet(Tail(outq))
  BY <1>1, ElementsOf
<1>4. ASSUME NEW m \in Message, NEW n \in Message
      PROVE  ToSet(outq \o <<m, n>>) = ToSet(outq) \cup {m, n}
  <2> DEFINE r == <<m, n>>
  <2>1. r \in Seq(Message) /\ ToSet(r) = {m, n}
    BY DEF ToSet
  <2> HIDE DEF r
  <2>2. ToSet(outq \o r) = ToSet(outq) \cup ToSet(r)
    BY <1>1, <2>1, ElementsOfBoth
  <2> QED
    BY <2>1, <2>2 DEF r
<1> QED
  BY <1>2, <1>3, <1>4

\* AllWanted in the steps of the helper.
LEMMA AllWantedHelper ==
    ASSUME Types, AllWanted, FileSystem \/ Helper
    PROVE  AllWanted'
<1> USE DEF Types, QueueTypes
<1>1. UNCHANGED <<want, watching, notYet, user, cleaner>>
  BY DEF FileSystem, Modify, Create, Delete, FileChanges, Helper, CWatch, CUnwatch,
     CPortGet, CEvent, CAssociate, jsVars, userVars
<1>2. CASE UNCHANGED <<cmdq, outq, work>>
  BY <1>1, <1>2 DEF AllWanted
<1>3. CASE CWatch
  <2> DEFINE c == Head(cmdq).cont
  <2>1. /\ cmdq # <<>> /\ Head(cmdq) \in ToSet(cmdq) /\ ToSet(cmdq') \subseteq ToSet(cmdq)
        /\ c \in WatchCont /\ c.file \in File
    BY <1>3, ElementsOf, Made DEF CWatch
  <2>2. want[c.file]
    BY <2>1 DEF AllWanted
  <2>3. ASSUME NEW ok \in BOOLEAN, outq' = Append(outq, Response(c, ok))
        PROVE  \A m \in ToSet(outq') : m.type = "response" => want[m.cont.file]
    <3>1. Response(c, ok) \in Message /\ Response(c, ok).cont = c
      BY <2>1, Made DEF Response
    <3>2. ToSet(outq') = ToSet(outq) \cup {Response(c, ok)}
      BY <2>3, <3>1, ElementsOf
    <3> QED
      BY <2>2, <3>1, <3>2 DEF AllWanted
  <2>4. \A m \in ToSet(outq') : m.type = "response" => want[m.cont.file]
    BY <1>3, <2>3 DEF CWatch, AllWanted
  <2>5. work' # None => want[work'.file]
    <3>1. work' = None \/ work' = [by |-> "stdin", file |-> c.file, ver |-> ver[c.file],
                                   msg |-> Response(c, TRUE)]
      BY <1>3 DEF CWatch
    <3>2. ASSUME work' = [by |-> "stdin", file |-> c.file, ver |-> ver[c.file],
                          msg |-> Response(c, TRUE)]
          PROVE  work'.file = c.file
      BY <3>2
    <3> QED
      BY <2>2, <3>1, <3>2
  <2> QED
    BY <1>1, <2>1, <2>4, <2>5 DEF AllWanted
<1>4. CASE CUnwatch
  <2>1. cmdq # <<>> /\ Head(cmdq) \in ToSet(cmdq) /\ Head(cmdq).cmd # "WATCH"
    BY <1>4, ElementsOf DEF CUnwatch
  <2> QED
    BY <2>1 DEF AllWanted
<1>5. CASE CEvent
  <2>1. UNCHANGED cmdq /\ got.file \in File /\ got.ev \in {"mod", "del"}
    BY <1>5, FilesOf DEF CEvent, AnyEvent
  <2>2. work' = None \/ work'.by = "port"
    <3>1. \/ work' = None
          \/ work' = [by |-> "port", file |-> got.file, ver |-> ver[got.file],
                      msg |-> Event(got.file, got.ev, FALSE)]
      BY <1>5 DEF CEvent
    <3>2. ASSUME work' = [by |-> "port", file |-> got.file, ver |-> ver[got.file],
                          msg |-> Event(got.file, got.ev, FALSE)]
          PROVE  work'.by = "port"
      BY <3>2
    <3> QED
      BY <3>1, <3>2
  <2>3. Event(got.file, got.ev, TRUE) \in Message
        /\ Event(got.file, got.ev, TRUE).type # "response"
    BY <2>1, Made DEF Event
  <2>4. ToSet(Append(outq, Event(got.file, got.ev, TRUE)))
            = ToSet(outq) \cup {Event(got.file, got.ev, TRUE)}
    BY <2>3, OutQueue
  <2>5. \A m \in ToSet(outq') : m.type = "response" => want[m.cont.file]
    BY <1>5, <2>3, <2>4 DEF CEvent, AllWanted
  <2> QED
    BY <1>1, <2>1, <2>2, <2>5 DEF AllWanted
<1>6. CASE CAssociate
  <2> DEFINE e == [type |-> "error"]
             no == [work.msg EXCEPT !.ok = FALSE]
  <2>1. work # None /\ UNCHANGED cmdq /\ work' = None
    BY <1>6 DEF CAssociate
  <2>2. work.msg \in Message /\ e \in Message /\ e.type # "response"
    BY <2>1, FilesOf, Made
  <2>3. work.msg.type = "response" => want[work.msg.cont.file]
    <3>1. work.by = "port" => work.msg.type # "response"
      BY <2>1, FilesOf DEF PortWork
    <3>2. work.by = "stdin" => work.msg.cont.file = work.file
      BY <2>1, FilesOf DEF StdinWork
    <3> QED
      BY <2>1, <3>1, <3>2, FilesOf DEF AllWanted
  <2>4. work.by = "stdin" => no \in Message /\ no.cont = work.msg.cont
                             /\ work.msg.type = "response"
    BY <2>1, FilesOf DEF StdinWork, Message
  <2>5. /\ ToSet(Append(outq, work.msg)) = ToSet(outq) \cup {work.msg}
        /\ work.by = "stdin" => ToSet(Append(outq, no)) = ToSet(outq) \cup {no}
    BY <2>2, <2>4, OutQueue
  <2>6. ToSet(outq \o <<work.msg, e>>) = ToSet(outq) \cup {work.msg, e}
    BY <2>2, OutQueue
  <2>7. \/ outq' = Append(outq, work.msg)
        \/ work.by = "stdin" /\ outq' = Append(outq, no)
        \/ outq' = outq \o <<work.msg, e>>
    BY <1>6 DEF CAssociate
  <2>8. \A m \in ToSet(outq') : m.type = "response" => want[m.cont.file]
    BY <2>2, <2>3, <2>4, <2>5, <2>6, <2>7 DEF AllWanted
  <2> QED
    BY <1>1, <2>1, <2>8 DEF AllWanted
<1>7. CASE FileSystem \/ CPortGet
  <2>1. UNCHANGED <<cmdq, outq, work>>
    BY <1>7 DEF FileSystem, Modify, Create, Delete, FileChanges, CPortGet, cVars
  <2> QED
    BY <1>2, <2>1
<1> QED
  BY <1>3, <1>4, <1>5, <1>6, <1>7 DEF Helper

\* AllWanted in the steps of the module and the consumer.
LEMMA AllWantedModule ==
    ASSUME Types, AllWanted, ~setting.mayDrop, EventLoop \/ Consumer, UNCHANGED setting
    PROVE  AllWanted'
<1> USE DEF Types, QueueTypes
<1>0. UNCHANGED work
  BY DEF EventLoop, Consumer, RetryTimeout, LongInterval, LoopResponse, LongResponse,
     UnwatchResponse, HandleEvent, HandleError, Watch, Forget, Unwatch, CleanerFind,
     CleanerUnwatch, cVars
<1>1. ASSUME EventLoop PROVE AllWanted'
  <2>1. UNCHANGED want
    BY <1>1 DEF EventLoop, RetryTimeout, LongInterval, LoopResponse, LongResponse,
       UnwatchResponse, HandleEvent, HandleError, userVars
  <2>2. outq' = outq \/ (outq # <<>> /\ outq' = Tail(outq))
    BY <1>1 DEF EventLoop, RetryTimeout, LongInterval, LoopResponse, LongResponse,
       UnwatchResponse, HandleEvent, HandleError
  <2>3. ToSet(outq') \subseteq ToSet(outq)
    BY <2>2, OutQueue
  <2>4. \A f \in File : user'[f] # "dropping" /\ cleaner'[f] = "idle"
    <3>1. CASE LoopResponse
      BY <3>1 DEF LoopResponse, CallBack, AllWanted, ConsumerTypes
    <3>2. CASE UnwatchResponse
      BY <3>2 DEF UnwatchResponse, AllWanted, ConsumerTypes
    <3>3. CASE UNCHANGED <<user, cleaner>>
      BY <3>3 DEF AllWanted
    <3> QED
      BY <1>1, <3>1, <3>2, <3>3 DEF EventLoop, RetryTimeout, LongInterval, LongResponse,
         HandleEvent, HandleError, userVars
  <2>5. \A f \in File : watching'[f] # "no" \/ notYet'[f] # None => want[f]
    <3>1. ASSUME NEW l \in 1 .. Len(loops), RetryTimeout(l)
          PROVE \A f \in File : watching'[f] # "no" \/ notYet'[f] # None => want[f]
      BY <3>1 DEF RetryTimeout, AllWanted, ModuleTypes
    <3>2. CASE LongInterval \/ HandleError
      BY <3>2 DEF LongInterval, HandleError, AllWanted
    <3>3. CASE LoopResponse \/ LongResponse
      <4>1. PICK g \in File : g = Head(outq).cont.file
        BY <3>3, ElementsOf, FilesOf DEF LoopResponse, LongResponse
      <4>2. want[g]
        BY <3>3, <4>1, ElementsOf DEF LoopResponse, LongResponse, AllWanted
      <4>3. \A f \in File \ {g} : watching'[f] = watching[f] /\ notYet'[f] = notYet[f]
        BY <3>3, <4>1 DEF LoopResponse, LongResponse, ModuleTypes
      <4> QED
        BY <4>2, <4>3 DEF AllWanted
    <3>4. CASE UnwatchResponse
      BY <3>4 DEF UnwatchResponse, AllWanted, ModuleTypes
    <3>5. CASE HandleEvent
      <4>1. PICK g \in File : g = Head(outq).file
        BY <3>5, ElementsOf, FilesOf DEF HandleEvent
      <4>2. \A f \in File \ {g} : watching'[f] = watching[f] /\ notYet'[f] = notYet[f]
        BY <3>5, <4>1 DEF HandleEvent, StartLoop, ModuleTypes
      <4>3. watching'[g] # "no" \/ notYet'[g] # None => want[g]
        BY <3>5, <4>1 DEF HandleEvent, AllWanted
      <4> QED
        BY <4>2, <4>3 DEF AllWanted
    <3> QED
      BY <1>1, <3>1, <3>2, <3>3, <3>4, <3>5 DEF EventLoop
  <2>6. SendsWatches
    BY <1>1, EventLoopSends
  <2>7. cmdq' \in Seq(Command)
    BY <1>1, EventLoopTypes DEF Types
  <2>8. \A c \in ToSet(cmdq') : c.cmd = "WATCH" /\ want[c.cont.file]
    <3>1. \A c \in ToSet(cmdq') : c.cont.file \in File
      BY <2>7, ElementsOf, Made
    <3> QED
      BY <2>5, <2>6, <3>1 DEF SendsWatches, WatchSent, AllWanted
  <2> QED
    BY <1>0, <2>1, <2>3, <2>4, <2>5, <2>8 DEF AllWanted
<1>2. ASSUME NEW f \in File, Watch(f) PROVE AllWanted'
  <2>1. want' = [want EXCEPT ![f] = TRUE] /\ UNCHANGED <<outq, watching, cleaner>>
    BY <1>2 DEF Watch
  <2>2. want'[f] /\ \A g \in File : want[g] => want'[g]
    BY <2>1 DEF ConsumerTypes
  <2>3. \A g \in File : user'[g] # "dropping"
    BY <1>2 DEF Watch, AllWanted, ConsumerTypes
  <2>4. \A g \in File \ {f} : notYet'[g] = notYet[g]
    BY <1>2 DEF Watch, StartLoop, ModuleTypes
  <2>5. \A g \in File : watching'[g] # "no" \/ notYet'[g] # None => want'[g]
    BY <2>1, <2>2, <2>4 DEF AllWanted
  <2>6. SendsWatches
    BY <1>2, StartLoopSends DEF Watch, SendsWatches
  <2>7. \A c \in ToSet(cmdq') : c.cmd = "WATCH" /\ want'[c.cont.file]
    <3>1. ASSUME NEW c \in ToSet(cmdq) PROVE c.cmd = "WATCH" /\ want'[c.cont.file]
      BY <2>2, FilesOf DEF AllWanted
    <3>2. cmdq' \in Seq(Command)
      BY <1>2, StartLoopTypes DEF Watch
    <3>3. \A c \in ToSet(cmdq') : c.cont.file \in File
      BY <3>2, ElementsOf, Made
    <3> QED
      BY <2>5, <2>6, <3>1, <3>3 DEF SendsWatches, WatchSent
  <2>8. \A m \in ToSet(outq') : m.type = "response" => want'[m.cont.file]
    BY <2>1, <2>2, FilesOf DEF AllWanted
  <2>9. work # None /\ work.by = "stdin" => want'[work.file]
    BY <2>2, FilesOf DEF AllWanted
  <2> QED
    BY <1>0, <2>1, <2>3, <2>5, <2>7, <2>8, <2>9 DEF AllWanted
<1>3. ASSUME NEW f \in File,
             Forget(f) \/ Unwatch(f) \/ CleanerFind(f) \/ CleanerUnwatch(f)
      PROVE  FALSE
  BY <1>3 DEF Forget, Unwatch, CleanerFind, CleanerUnwatch, AllWanted
<1> QED
  BY <1>1, <1>2, <1>3, WatcherAssumption DEF Consumer

\* OneToken in the steps of the file system and the helper.
LEMMA OneTokenHelper ==
    ASSUME Types, NeverUnwatched, \A f \in File : Armed(f), FileSystem \/ Helper
    PROVE  (\A f \in File : OneToken(f)') /\ (got' # None => ~got'.stale)
<1> USE DEF Types, HelperTypes, QueueTypes
<1>0. ASSUME NEW f \in File, NEW ev \in {"mod", "del"}
      PROVE  portq[f] = <<>> => Len(Append(portq[f], PortEvent(f, ev))) = 1
  OBVIOUS
<1>1. ASSUME FileSystem PROVE (\A f \in File : OneToken(f)') /\ (got' # None => ~got'.stale)
  <2>1. PICK f \in File : Modify(f) \/ Create(f) \/ Delete(f)
    BY <1>1, WatcherAssumption DEF FileSystem
  <2>2. PICK there \in BOOLEAN, ev \in {"mod", "del"} : FileChanges(f, there, ev)
    BY <2>1 DEF Modify, Create, Delete
  <2>3. UNCHANGED <<handle, got, work>>
    BY <2>2 DEF FileChanges, cVars
  <2>4. /\ ~assoc'[f]
        /\ assoc[f] => portq'[f] = Append(portq[f], PortEvent(f, ev))
        /\ ~assoc[f] => portq'[f] = portq[f]
        /\ \A g \in File \ {f} : assoc'[g] = assoc[g] /\ portq'[g] = portq[g]
    BY <2>2 DEF FileChanges
  <2>5. assoc[f] => Len(portq'[f]) = 1 /\ ~Taken(f) /\ ~Working(f) /\ handle[f]
    BY ZenonT(60), <1>0, <2>4 DEF NeverUnwatched, OneToken, Armed
  <2>6. OneToken(f)'
    BY <2>3, <2>4, <2>5 DEF NeverUnwatched, OneToken, Taken, Working
  <2>7. \A g \in File \ {f} : OneToken(g)'
    BY <2>3, <2>4 DEF NeverUnwatched, OneToken, Taken, Working
  <2> QED
    BY <2>3, <2>6, <2>7 DEF NeverUnwatched
<1>2. CASE CWatch
  <2>1. PICK f \in File : f = Head(cmdq).cont.file
    BY <1>2, TailOf, Made DEF CWatch
  <2>2. UNCHANGED <<assoc, portq, got>> /\ work = None
    BY <1>2 DEF CWatch, portVars
  <2>3. CASE UNCHANGED <<handle, work>>
    BY <2>2, <2>3 DEF NeverUnwatched, OneToken, Taken, Working
  <2>4. CASE /\ ~handle[f]
             /\ handle' = [handle EXCEPT ![f] = TRUE]
             /\ work' = [by |-> "stdin", file |-> f, ver |-> ver[f],
                         msg |-> Response(Head(cmdq).cont, TRUE)]
    <3>1. work' # None /\ work'.file = f
      BY <2>4 DEF None
    <3>2. ~assoc[f] /\ portq[f] = <<>> /\ ~Taken(f)
      BY <2>4 DEF Armed, NeverUnwatched, OneToken
    <3>3. OneToken(f)'
      BY <2>2, <3>1, <3>2 DEF OneToken, Taken, Working
    <3>4. \A g \in File \ {f} : OneToken(g)'
      BY <2>2, <2>4, <3>1 DEF NeverUnwatched, OneToken, Taken, Working
    <3> QED
      BY <2>2, <3>3, <3>4 DEF NeverUnwatched
  <2> QED
    BY <1>2, <2>1, <2>3, <2>4 DEF CWatch
<1>3. CASE CUnwatch
  <2>1. cmdq # <<>> /\ Head(cmdq) \in ToSet(cmdq) /\ Head(cmdq).cmd # "WATCH"
    BY <1>3, ElementsOf DEF CUnwatch
  <2> QED
    BY <2>1 DEF NeverUnwatched, AllWanted
<1>4. CASE CPortGet
  <2>1. PICK f \in File : /\ portq[f] # <<>> /\ got' = Head(portq[f])
                          /\ portq' = [portq EXCEPT ![f] = Tail(@)]
    BY <1>4 DEF CPortGet
  <2>2. portq[f] \in Seq(Queued(f)) /\ Len(portq[f]) = 1
    BY <2>1 DEF NeverUnwatched, OneToken
  <2>3. Head(portq[f]) \in Queued(f) /\ Tail(portq[f]) = <<>>
    <3>1. /\ Head(portq[f]) \in Queued(f) /\ Tail(portq[f]) \in Seq(Queued(f))
          /\ Len(Tail(portq[f])) = 0
      BY <2>1, <2>2, TailOf
    <3>2. \A t \in Seq(Queued(f)) : Len(t) = 0 => t = <<>>
      OBVIOUS
    <3> QED
      BY <3>1, <3>2
  <2>4. got' # None /\ got'.file = f /\ ~got'.stale
    BY <2>1, <2>3, Made, NotNone DEF Queued
  <2>5. got = None /\ UNCHANGED <<assoc, handle, work>>
        /\ portq'[f] = <<>> /\ \A g \in File \ {f} : portq'[g] = portq[g]
    BY <1>4, <2>1, <2>3 DEF CPortGet
  <2>6. OneToken(f)'
    BY <2>1, <2>4, <2>5 DEF NeverUnwatched, OneToken, Taken, Working
  <2>7. \A g \in File \ {f} : OneToken(g)'
    BY <2>4, <2>5 DEF NeverUnwatched, OneToken, Taken, Working
  <2> QED
    BY <2>4, <2>6, <2>7
<1>5. CASE CEvent
  <2>0. PICK f \in File : f = got.file
    BY <1>5 DEF CEvent, AnyEvent
  <2>1. /\ f = got.file /\ got # None /\ got' = None /\ work = None
        /\ UNCHANGED <<assoc, portq>>
    BY <1>5, <2>0 DEF CEvent, portVars
  <2>2. ~assoc[f] /\ portq[f] = <<>>
    BY <2>1 DEF NeverUnwatched, OneToken, Taken
  <2>3. \A g \in File \ {f} : ~Taken(g)
    BY <2>1 DEF Taken
  <2>4. CASE UNCHANGED <<handle, work>>
    BY <2>1, <2>4 DEF NeverUnwatched, OneToken, Taken, Working
  <2>5. CASE handle' = [handle EXCEPT ![f] = FALSE] /\ UNCHANGED work
    <3>1. OneToken(f)'
      BY <2>1, <2>2, <2>5 DEF OneToken, Taken, Working
    <3>2. \A g \in File \ {f} : OneToken(g)'
      BY <2>1, <2>5 DEF NeverUnwatched, OneToken, Taken, Working
    <3> QED
      BY <2>1, <3>1, <3>2
  <2>6. CASE /\ UNCHANGED handle
             /\ work' = [by |-> "port", file |-> f, ver |-> ver[f],
                         msg |-> Event(f, got.ev, FALSE)]
    <3>1. work' # None /\ work'.file = f
      BY <2>6 DEF None
    <3>2. OneToken(f)'
      BY <2>1, <2>2, <2>6, <3>1 DEF OneToken, Taken, Working
    <3>3. \A g \in File \ {f} : OneToken(g)'
      BY <2>1, <2>3, <2>6, <3>1 DEF NeverUnwatched, OneToken, Taken, Working
    <3> QED
      BY <2>1, <3>2, <3>3
  <2> QED
    BY <1>5, <2>1, <2>4, <2>5, <2>6 DEF CEvent
<1>6. CASE CAssociate
  <2>1. PICK f \in File : work \in StdinWork(f) \cup PortWork(f)
    BY <1>6 DEF CAssociate
  <2>2. work.file = f /\ work # None /\ work' = None /\ UNCHANGED got
    BY <1>6, <2>1, NotNone DEF StdinWork, PortWork, CAssociate
  <2>3. handle[f] /\ ~assoc[f] /\ portq[f] = <<>> /\ ~Taken(f)
    BY <2>2 DEF Armed, Working, NeverUnwatched, OneToken
  <2>4. \A g \in File \ {f} : /\ assoc'[g] = assoc[g] /\ portq'[g] = portq[g]
                              /\ handle'[g] = handle[g]
    BY <1>6, <2>2 DEF CAssociate, portVars
  <2>5. \A g \in File \ {f} : OneToken(g)'
    BY <2>2, <2>4 DEF NeverUnwatched, OneToken, Taken, Working
  <2>6. ~Taken(f)' /\ ~Working(f)'
    BY <2>2, <2>3 DEF Taken, Working
  <2>7. CASE exists[f]
    <3>1. handle'[f] /\ \/ portq'[f] = <<>>
                        \/ ~assoc'[f] /\ Len(portq'[f]) = 1
      BY <1>0, <1>6, <2>2, <2>3, <2>7 DEF CAssociate
    <3> QED
      BY <2>2, <2>5, <2>6, <3>1 DEF OneToken, NeverUnwatched
  <2>8. CASE ~exists[f]
    <3>1. ~assoc'[f] /\ portq'[f] = <<>>
      BY <1>6, <2>2, <2>3, <2>8 DEF CAssociate, portVars
    <3> QED
      BY <2>2, <2>5, <2>6, <3>1 DEF OneToken, NeverUnwatched
  <2> QED
    BY <2>7, <2>8
<1> QED
  BY <1>1, <1>2, <1>3, <1>4, <1>5, <1>6 DEF Helper

ArmedInv ==
    /\ ~(setting.mayDelete /\ setting.mayDrop) => \A f \in File : Armed(f)
    /\ ~setting.mayDelete => NoDeletion
    /\ ~setting.mayDrop => NeverUnwatched

\* ArmedInv in every step.
LEMMA ArmedStep ==
    ASSUME Types, ArmedInv, [Next]_vars
    PROVE  ArmedInv'
<1>0. {setting.mayDelete, setting.mayDrop, setting.cleaner} \subseteq BOOLEAN
  BY WatcherAssumption DEF Types
<1>1. CASE FileSystem \/ Helper
  <2>0. UNCHANGED setting \/ UNCHANGED vars
    BY DEF Next
  <2>1. UNCHANGED setting
    BY <2>0 DEF vars
  <2>2. ~(setting.mayDelete /\ setting.mayDrop) => \A f \in File : Armed(f)'
    BY <1>0, <1>1, ArmedHelper DEF ArmedInv
  <2>3. ~setting.mayDelete => NoDeletion'
    BY <1>0, <1>1, NoDeletionHelper DEF ArmedInv, Armed
  <2>4. ~setting.mayDrop => NeverUnwatched'
    BY <1>0, <1>1, AllWantedHelper, OneTokenHelper DEF ArmedInv, NeverUnwatched
  <2> QED
    BY <2>1, <2>2, <2>3, <2>4 DEF ArmedInv
<1>2. CASE (EventLoop \/ Consumer) /\ UNCHANGED setting
  <2>1. UNCHANGED <<assoc, portq, handle, got, work>>
    BY <1>2 DEF EventLoop, Consumer, RetryTimeout, LongInterval, LoopResponse, LongResponse,
       UnwatchResponse, HandleEvent, HandleError, Watch, Forget, Unwatch, CleanerFind,
       CleanerUnwatch, portVars, cVars
  <2>2. \A f \in File : /\ Armed(f) => Armed(f)'
                        /\ OneToken(f) => OneToken(f)'
    BY <2>1 DEF Armed, OneToken, Taken, Working
  <2>3. ~setting.mayDelete => NoDeletion'
    BY <1>2, NoDeletionModule DEF ArmedInv
  <2>4. ~setting.mayDrop => NeverUnwatched'
    BY <1>2, <2>1, <2>2, AllWantedModule DEF ArmedInv, NeverUnwatched
  <2> QED
    BY <1>2, <2>2, <2>3, <2>4 DEF ArmedInv
<1>3. CASE UNCHANGED vars
  BY <1>3 DEF vars, fsVars, portVars, cVars, jsVars, userVars, ArmedInv, Armed, NoDeletion,
     NeverUnwatched, AllWanted, OneToken, Taken, Working
<1> QED
  BY <1>1, <1>2, <1>3 DEF Next

LEMMA ArmedInvariant == Spec => [](Types /\ ArmedInv)
<1>1. Init => ArmedInv
  <2> SUFFICES ASSUME Init PROVE ArmedInv
    OBVIOUS
  <2>1. \A f \in File : /\ ~handle[f] /\ ~assoc[f] /\ portq[f] = <<>>
                        /\ watching[f] = "no" /\ notYet[f] = None
                        /\ user[f] = "idle" /\ cleaner[f] = "idle"
    BY DEF Init
  <2>2. got = None /\ work = None /\ cmdq = <<>> /\ outq = <<>>
    BY DEF Init
  <2>3. ToSet(cmdq) = {} /\ ToSet(outq) = {}
    BY <2>2 DEF ToSet
  <2>4. Mods(<<>>) /\ AllTame(<<>>)
    BY DEF Mods, AllTame
  <2> QED
    BY <2>1, <2>2, <2>3, <2>4 DEF ArmedInv, Armed, NoDeletion, NeverUnwatched, AllWanted,
       OneToken, Taken, Working
<1> QED
  BY <1>1, ArmedStep, TypesInvariant, PTL DEF Spec

\* The helper never stops watching a file silently: every association belongs
\* to a handle, and a handle without an association has an event in the port,
\* in a thread's hands or at the re-arm.
THEOREM NeverSilentlyUnwatched == Spec => []HandleArmed
<1>1. Types /\ ArmedInv => HandleArmed
  BY DEF ArmedInv, HandleArmed, Armed, Taken, Working
<1> QED
  BY <1>1, ArmedInvariant, PTL

-----------------------------------------------------------------------------
(* Agreement: what the module will believe when it has read every line.    *)

\* The line makes the module take f to be watched, ...
Up(m, f) ==
    /\ m.type = "response" /\ m.cont.kind \in {"loop", "long"} /\ m.cont.file = f
    /\ m.ok = TRUE

\* ... it answers an UNWATCH of f, ...
Unwatched(m, f) ==
    m.type = "response" /\ m.cont.kind \in {"user", "cleaner"} /\ m.cont.file = f

\* ... or it makes the module take f not to be watched.
Down(m, f) ==
    Unwatched(m, f) \/ (m.type = "event" /\ m.file = f /\ m.final = TRUE)

\* The last such line in the queue says that f is watched; none says that it
\* is not.
LastUp(q, f) ==
    \E i \in 1 .. Len(q) : Up(q[i], f) /\ \A j \in (i + 1) .. Len(q) : ~Down(q[j], f)
NoneDown(q, f) == \A i \in 1 .. Len(q) : ~Down(q[i], f)

Believed(f) == LastUp(outq, f) \/ (watching[f] = "active" /\ NoneDown(outq, f))

\* The helper has answered every WATCH that made a handle.
Held(f) == handle[f] /\ ~(Working(f) /\ work.by = "stdin")

NoUnwatchSent(f) == \A c \in ToSet(cmdq) : c.cmd = "UNWATCH" => c.cont.file # f

Agreed(f) == NoUnwatchSent(f) => (Held(f) <=> Believed(f))

\* No line has been or will be the cause of an exception; without deletions
\* the lines that could be are harmless.
Sound ==
    setting.mayDelete => ~crashed /\ \A m \in ToSet(outq) : m.type # "error"

AgreeInv ==
    /\ \A f \in File : Working(f) => handle[f]
    /\ Sound => \A f \in File : Agreed(f)

\* A line at the end of the queue decides.
LEMMA LineAdded ==
    ASSUME NEW q \in Seq(Message), NEW m \in Message, NEW f
    PROVE  /\ LastUp(Append(q, m), f)
                <=> (Up(m, f) \/ (LastUp(q, f) /\ ~Down(m, f)))
           /\ NoneDown(Append(q, m), f) <=> (NoneDown(q, f) /\ ~Down(m, f))
<1> DEFINE a == Append(q, m)
<1>1. /\ a \in Seq(Message) /\ Len(q) \in Nat /\ Len(a) = Len(q) + 1
      /\ a[Len(q) + 1] = m /\ \A i \in 1 .. Len(q) : a[i] = q[i]
  BY AppendOf
<1> HIDE DEF a
<1>2. ASSUME LastUp(a, f) PROVE Up(m, f) \/ (LastUp(q, f) /\ ~Down(m, f))
  <2>1. PICK i \in 1 .. Len(a) : Up(a[i], f) /\ \A j \in (i + 1) .. Len(a) : ~Down(a[j], f)
    BY <1>2 DEF LastUp
  <2>2. CASE i = Len(q) + 1
    BY <1>1, <2>1, <2>2
  <2>3. CASE i \in 1 .. Len(q)
    <3>1. ~Down(m, f)
      BY <1>1, <2>1, <2>3
    <3>2. Up(q[i], f) /\ \A j \in (i + 1) .. Len(q) : ~Down(q[j], f)
      BY <1>1, <2>1, <2>3
    <3> QED
      BY <2>3, <3>1, <3>2 DEF LastUp
  <2> QED
    BY <1>1, <2>2, <2>3
<1>3. ASSUME Up(m, f) PROVE LastUp(a, f)
  <2>1. Len(a) \in 1 .. Len(a) /\ Up(a[Len(a)], f)
        /\ \A j \in (Len(a) + 1) .. Len(a) : ~Down(a[j], f)
    BY <1>1, <1>3
  <2> QED
    BY <2>1 DEF LastUp
<1>4. ASSUME LastUp(q, f), ~Down(m, f) PROVE LastUp(a, f)
  <2>1. PICK i \in 1 .. Len(q) : Up(q[i], f) /\ \A j \in (i + 1) .. Len(q) : ~Down(q[j], f)
    BY <1>4 DEF LastUp
  <2>2. i \in 1 .. Len(a) /\ Up(a[i], f)
    BY <1>1, <2>1
  <2>3. ASSUME NEW j \in (i + 1) .. Len(a) PROVE ~Down(a[j], f)
    BY <1>1, <1>4, <2>1
  <2> QED
    BY <2>2, <2>3 DEF LastUp
<1>5. NoneDown(a, f) <=> (NoneDown(q, f) /\ ~Down(m, f))
  BY <1>1 DEF NoneDown
<1> QED
  BY <1>2, <1>3, <1>4, <1>5 DEF a

\* The line at the head counts only if no other follows.
LEMMA LineTaken ==
    ASSUME NEW q \in Seq(Message), q # <<>>, NEW f
    PROVE  /\ LastUp(q, f)
                <=> (LastUp(Tail(q), f) \/ (Up(Head(q), f) /\ NoneDown(Tail(q), f)))
           /\ NoneDown(q, f) <=> (NoneDown(Tail(q), f) /\ ~Down(Head(q), f))
<1> DEFINE t == Tail(q)
           h == Head(q)
<1>1. /\ Len(q) \in Nat \ {0} /\ h = q[1] /\ t \in Seq(Message)
      /\ Len(t) = Len(q) - 1 /\ \A i \in 1 .. Len(t) : t[i] = q[i + 1]
  BY TailOf
<1> HIDE DEF t, h
<1>2. NoneDown(q, f) <=> (NoneDown(t, f) /\ ~Down(h, f))
  <2>1. ASSUME NoneDown(q, f) PROVE NoneDown(t, f) /\ ~Down(h, f)
    BY <1>1, <2>1 DEF NoneDown
  <2>2. ASSUME NoneDown(t, f), ~Down(h, f), NEW i \in 1 .. Len(q) PROVE ~Down(q[i], f)
    <3>1. CASE i = 1
      BY <1>1, <2>2, <3>1
    <3>2. CASE i # 1
      <4>1. i - 1 \in 1 .. Len(t) /\ t[i - 1] = q[i]
        BY <1>1, <3>2
      <4> QED
        BY <2>2, <4>1 DEF NoneDown
    <3> QED
      BY <3>1, <3>2
  <2> QED
    BY <2>1, <2>2 DEF NoneDown
<1>3. ASSUME LastUp(q, f) PROVE LastUp(t, f) \/ (Up(h, f) /\ NoneDown(t, f))
  <2>1. PICK i \in 1 .. Len(q) : Up(q[i], f) /\ \A j \in (i + 1) .. Len(q) : ~Down(q[j], f)
    BY <1>3 DEF LastUp
  <2>2. CASE i = 1
    <3>1. ASSUME NEW j \in 1 .. Len(t) PROVE ~Down(t[j], f)
      <4>1. j + 1 \in (i + 1) .. Len(q) /\ t[j] = q[j + 1]
        BY <1>1, <2>2
      <4> QED
        BY <2>1, <4>1
    <3> QED
      BY <1>1, <2>1, <2>2, <3>1 DEF NoneDown
  <2>3. CASE i # 1
    <3>1. i - 1 \in 1 .. Len(t) /\ t[i - 1] = q[i]
      BY <1>1, <2>3
    <3>2. ASSUME NEW j \in ((i - 1) + 1) .. Len(t) PROVE ~Down(t[j], f)
      <4>1. j \in 1 .. Len(t) /\ j + 1 \in (i + 1) .. Len(q) /\ t[j] = q[j + 1]
        BY <1>1, <2>3
      <4> QED
        BY <2>1, <4>1
    <3>3. Up(t[i - 1], f)
      BY <2>1, <3>1
    <3> QED
      BY <3>1, <3>2, <3>3 DEF LastUp
  <2> QED
    BY <2>2, <2>3
<1>4. ASSUME Up(h, f), NoneDown(t, f) PROVE LastUp(q, f)
  <2>1. ASSUME NEW j \in (1 + 1) .. Len(q) PROVE ~Down(q[j], f)
    <3>1. j - 1 \in 1 .. Len(t) /\ t[j - 1] = q[j]
      BY <1>1
    <3> QED
      BY <1>4, <3>1 DEF NoneDown
  <2>2. 1 \in 1 .. Len(q) /\ Up(q[1], f)
    BY <1>1, <1>4
  <2> QED
    BY <2>1, <2>2 DEF LastUp
<1>5. ASSUME LastUp(t, f) PROVE LastUp(q, f)
  <2>1. PICK i \in 1 .. Len(t) : Up(t[i], f) /\ \A j \in (i + 1) .. Len(t) : ~Down(t[j], f)
    BY <1>5 DEF LastUp
  <2>2. i + 1 \in 1 .. Len(q) /\ Up(q[i + 1], f)
    BY <1>1, <2>1
  <2>3. ASSUME NEW j \in ((i + 1) + 1) .. Len(q) PROVE ~Down(q[j], f)
    <3>1. j - 1 \in (i + 1) .. Len(t) /\ j - 1 \in 1 .. Len(t) /\ t[j - 1] = q[j]
      BY <1>1, <2>1
    <3> QED
      BY <2>1, <3>1
  <2> QED
    BY <2>2, <2>3 DEF LastUp
<1> QED
  BY <1>2, <1>3, <1>4, <1>5 DEF t, h

\* What the lines of the helper mean.
LEMMA Meaning ==
    ASSUME NEW f
    PROVE  /\ \A c \in WatchCont : /\ Up(Response(c, TRUE), f) <=> c.file = f
                                   /\ ~Up(Response(c, FALSE), f)
                                   /\ ~Down(Response(c, TRUE), f)
                                   /\ ~Down(Response(c, FALSE), f)
           /\ \A c \in UnwatchCont, ok \in BOOLEAN :
                 /\ ~Up(Response(c, ok), f)
                 /\ Unwatched(Response(c, ok), f) <=> c.file = f
                 /\ Down(Response(c, ok), f) <=> c.file = f
           /\ \A g, ev : /\ ~Up(Event(g, ev, TRUE), f) /\ ~Up(Event(g, ev, FALSE), f)
                         /\ Down(Event(g, ev, TRUE), f) <=> g = f
                         /\ ~Down(Event(g, ev, FALSE), f)
<1>1. \A c \in WatchCont : c.kind \in {"loop", "long"}
  BY DEF WatchCont, LoopCont, LongCont
<1>2. \A c \in UnwatchCont : c.kind \in {"user", "cleaner"}
  BY DEF UnwatchCont
<1> QED
  BY <1>1, <1>2 DEF Up, Down, Unwatched, Response, Event

\* The helper writes a line ...
LEMMA LineWritten ==
    ASSUME Types, UNCHANGED watching, NEW f, NEW m \in Message, outq' = Append(outq, m)
    PROVE  /\ Up(m, f) => Believed(f)'
           /\ Down(m, f) => ~Believed(f)'
           /\ ~Up(m, f) /\ ~Down(m, f) => (Believed(f)' <=> Believed(f))
<1>1. /\ LastUp(outq', f) <=> (Up(m, f) \/ (LastUp(outq, f) /\ ~Down(m, f)))
      /\ NoneDown(outq', f) <=> (NoneDown(outq, f) /\ ~Down(m, f))
  BY LineAdded DEF Types, QueueTypes
<1>2. ~(Up(m, f) /\ Down(m, f))
  BY DEF Up, Down, Unwatched
<1> QED
  BY <1>1, <1>2 DEF Believed

\* ... and the module reads it.
LEMMA LineRead ==
    ASSUME Types, NEW f, outq # <<>>, outq' = Tail(outq),
           \/ Up(Head(outq), f) /\ watching'[f] = "active"
           \/ Down(Head(outq), f) /\ watching'[f] # "active"
           \/ /\ ~Up(Head(outq), f) /\ ~Down(Head(outq), f)
              /\ watching'[f] = "active" <=> watching[f] = "active"
    PROVE  Believed(f)' <=> Believed(f)
<1>1. /\ LastUp(outq, f)
            <=> (LastUp(outq', f) \/ (Up(Head(outq), f) /\ NoneDown(outq', f)))
      /\ NoneDown(outq, f) <=> (NoneDown(outq', f) /\ ~Down(Head(outq), f))
  BY LineTaken DEF Types, QueueTypes
<1>2. ~(Up(Head(outq), f) /\ Down(Head(outq), f))
  BY DEF Up, Down, Unwatched
<1> QED
  BY <1>1, <1>2 DEF Believed

\* The command at the head of the queue.
LEMMA CommandTaken ==
    ASSUME Types, cmdq # <<>>, cmdq' = Tail(cmdq)
    PROVE  /\ Head(cmdq) \in Command /\ Head(cmdq).cont.file \in File
           /\ Head(cmdq).cmd = "WATCH" => Head(cmdq).cont \in WatchCont
           /\ Head(cmdq).cmd = "UNWATCH" => Head(cmdq).cont \in UnwatchCont
           /\ \A g : Head(cmdq).cmd = "WATCH" \/ Head(cmdq).cont.file # g
                        => (NoUnwatchSent(g)' <=> NoUnwatchSent(g))
<1>1. Head(cmdq) \in ToSet(cmdq) /\ ToSet(cmdq) = {Head(cmdq)} \cup ToSet(cmdq')
  BY ElementsOf DEF Types, QueueTypes
<1>2. Head(cmdq) \in Command
  BY <1>1, ElementsOf DEF Types, QueueTypes
<1>3. Head(cmdq).cmd = "UNWATCH" => Head(cmdq).cont \in UnwatchCont
  BY <1>2 DEF Command
<1> QED
  BY <1>1, <1>2, <1>3, Made DEF NoUnwatchSent

\* AgreeInv in the steps of the helper.
LEMMA AgreedHelper ==
    ASSUME Types, ArmedInv, AgreeInv, Sound', UNCHANGED setting, FileSystem \/ Helper
    PROVE  \A f \in File : Agreed(f)'
<1> USE DEF Types
<1>0. UNCHANGED <<watching, crashed>>
  BY DEF FileSystem, Modify, Create, Delete, FileChanges, Helper, CWatch, CUnwatch,
     CPortGet, CEvent, CAssociate, jsVars
<1>1. ASSUME UNCHANGED <<cmdq, outq, handle, work>> PROVE \A f \in File : Agreed(f) => Agreed(f)'
  BY <1>0, <1>1 DEF Agreed, NoUnwatchSent, Held, Believed, Working
<1>2. Sound => \A f \in File : Agreed(f)
  BY DEF AgreeInv
<1>3. ASSUME FileSystem \/ CPortGet PROVE \A f \in File : Agreed(f)'
  <2>1. UNCHANGED <<cmdq, outq, handle, work>>
    BY <1>3 DEF FileSystem, Modify, Create, Delete, FileChanges, CPortGet, cVars
  <2> QED
    BY <1>0, <1>1, <1>2, <2>1 DEF Sound
<1>4. ASSUME NEW m \in Message, outq' = Append(outq, m) PROVE Sound
  BY <1>0, <1>4, OutQueue DEF Sound
<1>5. CASE CWatch
  <2>1. work = None /\ cmdq # <<>> /\ cmdq' = Tail(cmdq) /\ Head(cmdq).cmd = "WATCH"
    BY <1>5 DEF CWatch
  <2>2. PICK f \in File : f = Head(cmdq).cont.file
    BY <2>1, CommandTaken
  <2>3. PICK c \in WatchCont : c = Head(cmdq).cont
    BY <2>1, CommandTaken
  <2>4. \A g \in File : NoUnwatchSent(g)' <=> NoUnwatchSent(g)
    BY <2>1, CommandTaken
  <2>5. ASSUME NEW ok \in BOOLEAN, outq' = Append(outq, Response(c, ok)),
               ok = handle[f], UNCHANGED <<handle, work>>
        PROVE  \A g \in File : Agreed(g)'
    <3>1. Response(c, ok) \in Message
      BY Made
    <3>2. \A g \in File : Agreed(g)
      BY <1>2, <1>4, <2>5, <3>1
    <3>3. \A g \in File : Held(g)' <=> handle[g]
      BY <2>1, <2>5 DEF Held, Working
    <3>4. \A g \in File : Held(g) <=> handle[g]
      BY <2>1 DEF Held, Working
    <3>5. \A g \in File : ~Down(Response(c, ok), g) /\ (Up(Response(c, ok), g) <=> g = f /\ ok)
      BY <2>2, <2>3, Meaning
    <3>6. \A g \in File : IF g = f /\ ok THEN Believed(g)' ELSE Believed(g)' <=> Believed(g)
      BY <1>0, <2>5, <3>1, <3>5, LineWritten
    <3> QED
      BY <2>4, <2>5, <3>2, <3>3, <3>4, <3>6 DEF Agreed
  <2>6. ASSUME handle' = [handle EXCEPT ![f] = TRUE], ~handle[f], UNCHANGED outq,
               work' = [by |-> "stdin", file |-> f, ver |-> ver[f],
                        msg |-> Response(c, TRUE)]
        PROVE  \A g \in File : Agreed(g)'
    <3>1. \A g \in File : Agreed(g)
      BY <1>0, <1>2, <2>6 DEF Sound
    <3>2. work' # None /\ work'.file = f /\ work'.by = "stdin"
      BY <2>6 DEF None
    <3>3. ~Held(f)' /\ ~Held(f)
      BY <2>6, <3>2 DEF Held, Working
    <3>4. \A g \in File \ {f} : Held(g)' <=> Held(g)
      BY <2>1, <2>6, <3>2 DEF Held, Working, HelperTypes
    <3>5. \A g \in File : Believed(g)' <=> Believed(g)
      BY <1>0, <2>6 DEF Believed
    <3> QED
      BY <2>4, <3>1, <3>3, <3>4, <3>5 DEF Agreed
  <2> QED
    BY <1>5, <2>2, <2>3, <2>5, <2>6 DEF CWatch, HelperTypes
<1>6. CASE CUnwatch
  <2>1. work = None /\ cmdq # <<>> /\ cmdq' = Tail(cmdq) /\ Head(cmdq).cmd = "UNWATCH"
        /\ UNCHANGED work
    BY <1>6 DEF CUnwatch
  <2>2. PICK f \in File : f = Head(cmdq).cont.file
    BY <2>1, CommandTaken
  <2>3. PICK c \in UnwatchCont : c = Head(cmdq).cont
    BY <2>1, CommandTaken
  <2>4. \A g \in File \ {f} : NoUnwatchSent(g)' <=> NoUnwatchSent(g)
    BY <2>1, <2>2, CommandTaken
  <2>5. PICK ok \in BOOLEAN : outq' = Append(outq, Response(c, ok))
    BY <1>6, <2>3 DEF CUnwatch
  <2>6. Response(c, ok) \in Message
    BY Made
  <2>7. \A g \in File : Agreed(g)
    BY <1>2, <1>4, <2>5, <2>6
  <2>8. ~handle'[f] /\ \A g \in File \ {f} : handle'[g] = handle[g]
    BY <1>6, <2>2 DEF CUnwatch, HelperTypes
  <2>9. ~Held(f)' /\ \A g \in File \ {f} : Held(g)' <=> Held(g)
    BY <2>1, <2>8 DEF Held, Working
  <2>10. \A g \in File : ~Up(Response(c, ok), g) /\ (Down(Response(c, ok), g) <=> g = f)
    BY <2>2, <2>3, Meaning
  <2>11. ~Believed(f)' /\ \A g \in File \ {f} : Believed(g)' <=> Believed(g)
    BY <1>0, <2>5, <2>6, <2>10, LineWritten
  <2> QED
    BY <2>4, <2>7, <2>9, <2>11 DEF Agreed
<1>7. CASE CEvent
  <2>1. work = None /\ got # None /\ UNCHANGED cmdq
    BY <1>7 DEF CEvent
  <2>2. PICK f \in File : f = got.file
    BY <2>1, FilesOf
  <2>3. got.ev \in {"mod", "del"}
    BY <2>1, FilesOf DEF AnyEvent
  <2>4. \A g \in File : NoUnwatchSent(g)' <=> NoUnwatchSent(g)
    BY <2>1 DEF NoUnwatchSent
  <2>5. CASE UNCHANGED <<handle, work, outq>>
    BY <1>0, <1>1, <1>2, <2>1, <2>5 DEF Sound
  <2>6. ASSUME handle' = [handle EXCEPT ![f] = FALSE], UNCHANGED work,
               outq' = Append(outq, Event(f, got.ev, TRUE))
        PROVE  \A g \in File : Agreed(g)'
    <3>1. Event(f, got.ev, TRUE) \in Message
      BY <2>3, Made
    <3>2. \A g \in File : Agreed(g)
      BY <1>2, <1>4, <2>6, <3>1
    <3>3. ~handle'[f] /\ \A g \in File \ {f} : handle'[g] = handle[g]
      BY <2>6 DEF HelperTypes
    <3>4. ~Held(f)' /\ \A g \in File \ {f} : Held(g)' <=> Held(g)
      BY <2>1, <2>6, <3>3 DEF Held, Working
    <3>5. \A g \in File : /\ ~Up(Event(f, got.ev, TRUE), g)
                          /\ Down(Event(f, got.ev, TRUE), g) <=> g = f
      BY Meaning
    <3>6. ~Believed(f)' /\ \A g \in File \ {f} : Believed(g)' <=> Believed(g)
      BY <1>0, <2>6, <3>1, <3>5, LineWritten
    <3> QED
      BY <2>4, <3>2, <3>4, <3>6 DEF Agreed
  <2>7. ASSUME UNCHANGED <<handle, outq>>,
               work' = [by |-> "port", file |-> f, ver |-> ver[f],
                        msg |-> Event(f, got.ev, FALSE)]
        PROVE  \A g \in File : Agreed(g)'
    <3>1. \A g \in File : Agreed(g)
      BY <1>0, <1>2, <2>7 DEF Sound
    <3>2. work'.by = "port"
      BY <2>7
    <3>3. \A g \in File : Held(g)' <=> Held(g)
      BY <2>1, <2>7, <3>2 DEF Held, Working
    <3>4. \A g \in File : Believed(g)' <=> Believed(g)
      BY <1>0, <2>7 DEF Believed
    <3> QED
      BY <2>4, <3>1, <3>3, <3>4 DEF Agreed
  <2> QED
    BY <1>7, <2>2, <2>5, <2>6, <2>7 DEF CEvent
<1>8. CASE CAssociate
  <2>1. work # None /\ work' = None /\ UNCHANGED cmdq
    BY <1>8 DEF CAssociate
  <2>2. PICK f \in File : f = work.file
    BY <2>1, FilesOf
  <2>3. handle[f] /\ work.msg \in Message /\ work.by \in {"stdin", "port"}
    BY <2>1, <2>2, FilesOf DEF AgreeInv, Working
  <2>4. \A g \in File : NoUnwatchSent(g)' <=> NoUnwatchSent(g)
    BY <2>1 DEF NoUnwatchSent
  <2>5. \A g \in File : Held(g)' <=> handle'[g]
    BY <2>1 DEF Held, Working
  <2>6. (Held(f) <=> work.by = "port") /\ \A g \in File \ {f} : Held(g) <=> handle[g]
    BY <2>1, <2>2, <2>3 DEF Held, Working
  <2>7. work.by = "stdin" => \E c \in WatchCont : /\ work.msg = Response(c, TRUE)
                                                  /\ c.file = f
    BY <2>1, <2>2, FilesOf DEF StdinWork, Response
  <2>8. work.by = "port" => \E ev \in {"mod", "del"} : work.msg = Event(f, ev, FALSE)
    BY <2>1, <2>2, FilesOf DEF PortWork, Event
  <2>9. CASE exists[f]
    <3>1. UNCHANGED handle /\ outq' = Append(outq, work.msg)
      BY <1>8, <2>2, <2>9 DEF CAssociate
    <3>2. \A g \in File : Agreed(g)
      BY <1>2, <1>4, <2>3, <3>1
    <3>3. \A g \in File : ~Down(work.msg, g)
                          /\ (Up(work.msg, g) <=> work.by = "stdin" /\ g = f)
      <4>1. CASE work.by = "stdin"
        <5>1. PICK c \in WatchCont : work.msg = Response(c, TRUE) /\ c.file = f
          BY <2>7, <4>1
        <5>2. \A g \in File : ~Down(Response(c, TRUE), g) /\ (Up(Response(c, TRUE), g) <=> g = f)
          BY <5>1, Meaning
        <5> QED
          BY <4>1, <5>1, <5>2
      <4>2. CASE work.by = "port"
        <5>1. PICK ev \in {"mod", "del"} : work.msg = Event(f, ev, FALSE)
          BY <2>8, <4>2
        <5>2. \A g \in File : ~Down(Event(f, ev, FALSE), g) /\ ~Up(Event(f, ev, FALSE), g)
          BY Meaning
        <5> QED
          BY <4>2, <5>1, <5>2
      <4> QED
        BY <2>3, <4>1, <4>2
    <3>4. \A g \in File : IF work.by = "stdin" /\ g = f THEN Believed(g)'
                          ELSE Believed(g)' <=> Believed(g)
      BY <1>0, <2>3, <3>1, <3>3, LineWritten
    <3> QED
      BY <2>3, <2>4, <2>5, <2>6, <3>1, <3>2, <3>4 DEF Agreed
  <2>10. CASE ~exists[f] /\ work.by = "stdin"
    <3> DEFINE no == [work.msg EXCEPT !.ok = FALSE]
    <3>1. no \in Message /\ no.type = "response" /\ no.cont \in WatchCont /\ no.ok = FALSE
      BY <2>1, <2>10, FilesOf DEF StdinWork, Message
    <3>2. no.cont.kind \in {"loop", "long"}
      BY <3>1 DEF WatchCont, LoopCont, LongCont
    <3>3. handle' = [handle EXCEPT ![f] = FALSE] /\ outq' = Append(outq, no)
      BY <1>8, <2>2, <2>10 DEF CAssociate
    <3> HIDE DEF no
    <3>4. \A g \in File : Agreed(g)
      BY <1>2, <1>4, <3>1, <3>3
    <3>5. ~handle'[f] /\ \A g \in File \ {f} : handle'[g] = handle[g]
      BY <3>3 DEF HelperTypes
    <3>6. \A g \in File : ~Up(no, g) /\ ~Down(no, g)
      BY <3>1, <3>2 DEF Up, Down, Unwatched
    <3>7. \A g \in File : Believed(g)' <=> Believed(g)
      BY <1>0, <3>1, <3>3, <3>6, LineWritten
    <3> QED
      BY <2>4, <2>5, <2>6, <2>10, <3>4, <3>5, <3>7 DEF Agreed
  <2>11. CASE ~exists[f] /\ work.by = "port"
    <3>1. outq' = outq \o <<work.msg, [type |-> "error"]>>
      BY <1>8, <2>2, <2>11 DEF CAssociate
    <3>2. [type |-> "error"] \in ToSet(outq')
      BY <2>3, <3>1, OutQueue, Made
    <3>3. ~setting.mayDelete
      BY <3>2 DEF Sound
    <3> QED
      BY <2>3, <2>11, <3>3 DEF ArmedInv, NoDeletion
  <2> QED
    BY <2>3, <2>9, <2>10, <2>11
<1> QED
  BY <1>3, <1>5, <1>6, <1>7, <1>8 DEF Helper

\* AgreeInv in the steps of the module ...
LEMMA AgreedEventLoop ==
    ASSUME Types, ArmedInv, AgreeInv, Sound', UNCHANGED setting, EventLoop
    PROVE  \A f \in File : Agreed(f)'
<1> USE DEF Types
<1>0. UNCHANGED <<handle, work>>
  BY DEF EventLoop, RetryTimeout, LongInterval, LoopResponse, LongResponse,
     UnwatchResponse, HandleEvent, HandleError, cVars
<1>1. \A f \in File : Held(f)' <=> Held(f)
  BY <1>0 DEF Held, Working
<1>2. \A f \in File : NoUnwatchSent(f)' <=> NoUnwatchSent(f)
  BY EventLoopSends DEF SendsWatches, WatchSent, NoUnwatchSent
<1>3. setting.mayDelete => ~HandleError
  BY DEF HandleError, Sound
<1>4. ~setting.mayDelete => ~HandleError
  <2>1. ASSUME outq # <<>>, ~setting.mayDelete PROVE Head(outq).type # "error"
    BY <2>1, TameOf DEF ArmedInv, NoDeletion, QueueTypes, Tame
  <2> QED
    BY <2>1 DEF HandleError
<1>5. \A f \in File : Agreed(f)
  <2>1. outq' = outq \/ (outq # <<>> /\ outq' = Tail(outq) /\ Head(outq).type # "error")
    BY <1>3, <1>4 DEF EventLoop, RetryTimeout, LongInterval, LoopResponse, LongResponse,
       UnwatchResponse, HandleEvent
  <2>2. Sound
    BY <2>1, OutQueue DEF Sound, EventLoop
  <2> QED
    BY <2>2 DEF AgreeInv
<1>6. SUFFICES \A f \in File : Believed(f)' <=> Believed(f)
  BY <1>1, <1>2, <1>5 DEF Agreed
<1>7. CASE UNCHANGED <<outq, watching>>
  BY <1>7 DEF Believed
<1>8. CASE LoopResponse \/ LongResponse
  <2>1. /\ outq # <<>> /\ outq' = Tail(outq) /\ Head(outq).type = "response"
        /\ Head(outq).cont.kind \in {"loop", "long"}
    BY <1>8 DEF LoopResponse, LongResponse
  <2>2. Head(outq) \in ToSet(outq)
    BY <2>1, OutQueue
  <2>3. PICK f \in File : f = Head(outq).cont.file
    BY <2>1, <2>2, FilesOf
  <2>4. Head(outq).ok \in BOOLEAN
    BY <2>1, <2>2, FilesOf DEF Message
  <2>5. \A g \in File : ~Down(Head(outq), g) /\ (Up(Head(outq), g) <=> g = f /\ Head(outq).ok)
    BY <2>1, <2>3, <2>4 DEF Up, Down, Unwatched
  <2>6. \A g \in File : watching'[g] = IF g = f /\ Head(outq).ok THEN "active" ELSE watching[g]
    BY ZenonT(60), <1>8, <2>3, <2>4 DEF LoopResponse, LongResponse, ModuleTypes
  <2> QED
    BY <2>1, <2>5, <2>6, LineRead
<1>9. CASE UnwatchResponse
  <2>1. /\ outq # <<>> /\ outq' = Tail(outq) /\ Head(outq).type = "response"
        /\ Head(outq).cont.kind \in {"user", "cleaner"}
    BY <1>9 DEF UnwatchResponse
  <2>2. PICK f \in File : f = Head(outq).cont.file
    BY <2>1, OutQueue, FilesOf
  <2>3. \A g \in File : ~Up(Head(outq), g) /\ (Down(Head(outq), g) <=> g = f)
    BY <2>1, <2>2 DEF Up, Down, Unwatched
  <2>4. \A g \in File : watching'[g] = IF g = f THEN "no" ELSE watching[g]
    BY <1>9, <2>2 DEF UnwatchResponse, ModuleTypes
  <2> QED
    BY <2>1, <2>3, <2>4, LineRead
<1>10. CASE HandleEvent
  <2>1. outq # <<>> /\ outq' = Tail(outq) /\ Head(outq).type = "event"
    BY <1>10 DEF HandleEvent
  <2>2. Head(outq) \in ToSet(outq)
    BY <2>1, OutQueue
  <2>3. PICK f \in File : f = Head(outq).file
    BY <2>1, <2>2, FilesOf
  <2>4. Head(outq).final \in BOOLEAN
    BY <2>1, <2>2, FilesOf DEF Message
  <2>5. \A g \in File : /\ ~Up(Head(outq), g)
                        /\ Down(Head(outq), g) <=> g = f /\ Head(outq).final
    BY <2>1, <2>3, <2>4 DEF Up, Down, Unwatched
  <2>6. \A g \in File \ {f} : watching'[g] = watching[g]
    BY <1>10, <2>3 DEF HandleEvent, ModuleTypes
  <2>7. /\ Head(outq).final => watching'[f] # "active"
        /\ ~Head(outq).final => watching'[f] = watching[f]
    BY <1>10, <2>3 DEF HandleEvent, ModuleTypes
  <2> QED
    BY <2>1, <2>4, <2>5, <2>6, <2>7, LineRead
<1> QED
  BY <1>3, <1>4, <1>7, <1>8, <1>9, <1>10 DEF EventLoop, RetryTimeout, LongInterval

\* ... and of the consumer.
LEMMA AgreedConsumer ==
    ASSUME Types, AgreeInv, Sound', UNCHANGED setting, Consumer
    PROVE  \A f \in File : Agreed(f)'
<1> USE DEF Types
<1>0. UNCHANGED <<handle, work, outq>>
  BY DEF Consumer, Watch, Forget, Unwatch, CleanerFind, CleanerUnwatch, cVars
<1>1. \A f \in File : Held(f)' <=> Held(f)
  BY <1>0 DEF Held, Working
<1>2. \A f \in File : Agreed(f)
  BY <1>0 DEF AgreeInv, Sound, Consumer
<1>3. ASSUME UNCHANGED watching PROVE \A f \in File : Believed(f)' <=> Believed(f)
  BY <1>0, <1>3 DEF Believed
<1>4. ASSUME UNCHANGED cmdq PROVE \A f \in File : NoUnwatchSent(f)' <=> NoUnwatchSent(f)
  BY <1>4 DEF NoUnwatchSent
<1>5. ASSUME NEW f \in File, Watch(f) PROVE \A g \in File : Agreed(g)'
  <2>1. \A g \in File : NoUnwatchSent(g)' <=> NoUnwatchSent(g)
    BY <1>5, StartLoopSends DEF Watch, SendsWatches, WatchSent, NoUnwatchSent
  <2>2. UNCHANGED watching
    BY <1>5 DEF Watch
  <2> QED
    BY <1>1, <1>2, <1>3, <2>1, <2>2 DEF Agreed
<1>6. ASSUME NEW f \in File, NEW who \in {"user", "cleaner"}, NEW done \in BOOLEAN,
             UnwatchCall(f, who, done)
      PROVE  \A g \in File : Agreed(g)'
  <2>1. CASE /\ watching' = [watching EXCEPT ![f] = "inactive"]
             /\ Send("UNWATCH", [kind |-> who, file |-> f])
    <3> DEFINE c == [kind |-> who, file |-> f]
    <3>1. c \in UnwatchCont /\ c.file = f
      BY DEF UnwatchCont
    <3>2. ToSet(cmdq') = ToSet(cmdq) \cup {[cmd |-> "UNWATCH", cont |-> c]}
      BY <2>1, <3>1, SendAdds
    <3>3. PICK d : d = [cmd |-> "UNWATCH", cont |-> c]
      OBVIOUS
    <3>4. d.cmd = "UNWATCH" /\ d.cont.file = f
      BY <3>1, <3>3
    <3>5. ToSet(cmdq') = ToSet(cmdq) \cup {d}
      BY <3>2, <3>3
    <3>6. ~NoUnwatchSent(f)' /\ \A g \in File \ {f} : NoUnwatchSent(g)' <=> NoUnwatchSent(g)
      BY <3>4, <3>5 DEF NoUnwatchSent
    <3>7. \A g \in File \ {f} : Believed(g)' <=> Believed(g)
      BY <1>0, <2>1 DEF Believed, ModuleTypes
    <3> QED
      BY <1>1, <1>2, <3>6, <3>7 DEF Agreed
  <2>2. CASE /\ watching[f] = "inactive" /\ UNCHANGED cmdq
             /\ watching' = [watching EXCEPT ![f] = "no"]
    <3>1. \A g \in File : watching'[g] = "active" <=> watching[g] = "active"
      BY <2>2 DEF ModuleTypes
    <3>2. \A g \in File : Believed(g)' <=> Believed(g)
      BY <1>0, <3>1 DEF Believed
    <3> QED
      BY <1>1, <1>2, <1>4, <2>2, <3>2 DEF Agreed
  <2>3. CASE UNCHANGED <<watching, cmdq>>
    BY <1>1, <1>2, <1>3, <1>4, <2>3 DEF Agreed
  <2> QED
    BY <1>6, <2>1, <2>2, <2>3 DEF UnwatchCall
<1>7. ASSUME NEW f \in File, Forget(f) \/ CleanerFind(f) PROVE \A g \in File : Agreed(g)'
  BY <1>1, <1>2, <1>3, <1>4, <1>7 DEF Forget, CleanerFind, jsVars, Agreed
<1> QED
  BY <1>5, <1>6, <1>7, WatcherAssumption DEF Consumer, Unwatch, CleanerUnwatch

\* A thread that works on a file works for its handle.
LEMMA WorkingStep ==
    ASSUME Types, \A f \in File : Working(f) => handle[f], Next
    PROVE  \A f \in File : Working(f)' => handle'[f]
<1> USE DEF Types
<1>1. CASE UNCHANGED <<handle, work>>
  BY <1>1 DEF Working
<1>2. CASE CWatch
  <2>1. work = None /\ cmdq # <<>> /\ cmdq' = Tail(cmdq)
    BY <1>2 DEF CWatch
  <2>2. PICK f \in File : f = Head(cmdq).cont.file
    BY <2>1, CommandTaken
  <2>3. ASSUME work' = [by |-> "stdin", file |-> f, ver |-> ver[f],
                        msg |-> Response(Head(cmdq).cont, TRUE)]
        PROVE  work'.file = f
    BY <2>3
  <2> QED
    BY <1>1, <1>2, <2>1, <2>2, <2>3 DEF CWatch, Working, HelperTypes
<1>3. CASE CUnwatch \/ CAssociate
  BY <1>3 DEF CUnwatch, CAssociate, Working
<1>4. CASE CEvent
  <2>1. PICK f \in File : f = got.file
    BY <1>4, FilesOf DEF CEvent
  <2>2. ASSUME work' = [by |-> "port", file |-> f, ver |-> ver[f],
                        msg |-> Event(f, got.ev, FALSE)]
        PROVE  work'.file = f
    BY <2>2
  <2>3. work = None
    BY <1>4 DEF CEvent
  <2>4. CASE work' = None
    BY <2>4 DEF Working
  <2>5. CASE /\ UNCHANGED handle /\ handle[f]
             /\ work' = [by |-> "port", file |-> f, ver |-> ver[f],
                         msg |-> Event(f, got.ev, FALSE)]
    BY <2>2, <2>5 DEF Working
  <2> QED
    BY <1>4, <2>1, <2>3, <2>4, <2>5 DEF CEvent
<1>5. CASE FileSystem \/ CPortGet \/ EventLoop \/ Consumer
  BY <1>1, <1>5 DEF FileSystem, Modify, Create, Delete, FileChanges, CPortGet, EventLoop,
     RetryTimeout, LongInterval, LoopResponse, LongResponse, UnwatchResponse, HandleEvent,
     HandleError, Consumer, Watch, Forget, Unwatch, CleanerFind, CleanerUnwatch, cVars
<1> QED
  BY <1>2, <1>3, <1>4, <1>5 DEF Next, Helper

LEMMA AgreeInvariant == Spec => [](Types /\ ArmedInv /\ AgreeInv)
<1>1. Init => AgreeInv
  <2> SUFFICES ASSUME Init PROVE AgreeInv
    OBVIOUS
  <2>1. work = None /\ outq = <<>> /\ \A f \in File : ~handle[f] /\ watching[f] = "no"
    BY DEF Init
  <2> QED
    BY <2>1 DEF AgreeInv, Agreed, Held, Believed, LastUp, Working
<1>2. Types /\ ArmedInv /\ AgreeInv /\ [Next]_vars => AgreeInv'
  <2> SUFFICES ASSUME Types, ArmedInv, AgreeInv, [Next]_vars PROVE AgreeInv'
    OBVIOUS
  <2>1. CASE Next
    <3>1. UNCHANGED setting /\ (FileSystem \/ Helper \/ EventLoop \/ Consumer)
      BY <2>1 DEF Next
    <3>2. Sound' => \A f \in File : Agreed(f)'
      BY <3>1, AgreedHelper, AgreedEventLoop, AgreedConsumer
    <3>3. \A f \in File : Working(f)' => handle'[f]
      BY <2>1, WorkingStep DEF AgreeInv
    <3> QED
      BY <3>2, <3>3 DEF AgreeInv
  <2>2. CASE UNCHANGED vars
    BY <2>2 DEF vars, cVars, jsVars, AgreeInv, Sound, Agreed, NoUnwatchSent, Held, Believed,
       Working
  <2> QED
    BY <2>1, <2>2
<1> QED
  BY <1>1, <1>2, ArmedInvariant, PTL DEF Spec

\* When nothing is under way and nothing has been thrown, the helper has a
\* handle for exactly the files that the module takes to be watched, whatever
\* the order in which commands, events, deletions and answers have crossed.
THEOREM ProcessesAgree == Spec => []Agreement
<1>1. Types /\ AgreeInv => Agreement
  <2> SUFFICES ASSUME Types, AgreeInv, Quiet, ~crashed, NEW f \in File
               PROVE  watching[f] = "active" <=> handle[f]
    BY DEF Agreement
  <2>1. cmdq = <<>> /\ outq = <<>> /\ work = None
    BY DEF Quiet
  <2>2. ToSet(cmdq) = {} /\ ToSet(outq) = {}
    BY <2>1 DEF ToSet
  <2>3. Agreed(f) /\ NoUnwatchSent(f)
    BY <2>2 DEF AgreeInv, Sound, NoUnwatchSent
  <2>4. Believed(f) <=> watching[f] = "active"
    BY <2>1 DEF Believed, LastUp, NoneDown
  <2> QED
    BY <2>1, <2>3, <2>4 DEF Agreed, Held, Working, Types, HelperTypes
<1> QED
  BY <1>1, AgreeInvariant, PTL

-----------------------------------------------------------------------------
(* The loops of the watch() calls.                                         *)

\* Every command and every answer of a loop belongs to one of them.
Known(c) == c.kind = "loop" => c.loop \in 1 .. Len(loops)

LoopsKnown ==
    /\ \A c \in ToSet(cmdq) : Known(c.cont)
    /\ \A m \in ToSet(outq) : m.type = "response" => Known(m.cont)
    /\ work # None /\ work.by = "stdin" => Known(work.msg.cont)

\* The module only watches anew after a final event, so without deletions all
\* calls of watch() are the consumer's and have a callback.
AllCalledBack == ~setting.mayDelete => \A l \in 1 .. Len(loops) : loops[l].cb = TRUE

LoopInv == LoopsKnown /\ AllCalledBack

\* Calls are added, and keep their callback.
LEMMA LoopsGrow ==
    ASSUME Types, ArmedInv, AllCalledBack, UNCHANGED setting, EventLoop \/ Consumer
    PROVE  Len(loops) \in Nat /\ Len(loops') \in Nat /\ Len(loops') >= Len(loops)
           /\ AllCalledBack'
<1> USE DEF Types
<1>0. Len(loops) \in Nat
  BY DEF ModuleTypes
<1>1. ASSUME NEW l, NEW p \in {"sent", "timer", "done"},
             \/ loops' = [loops EXCEPT ![l].pc = p]
             \/ loops' = [loops EXCEPT ![l].pc = p, ![l].initial = FALSE]
             \/ loops' = loops
      PROVE  Len(loops') = Len(loops) /\ AllCalledBack'
  <2>1. CASE loops' = loops
    BY <2>1 DEF AllCalledBack
  <2>2. CASE loops' = [loops EXCEPT ![l].pc = p]
    <3>1. /\ Len(loops') = Len(loops)
          /\ \A k \in 1 .. Len(loops) : loops'[k].cb = loops[k].cb
      BY <2>2, LoopUpdate
    <3> QED
      BY <3>1 DEF AllCalledBack
  <2>3. CASE loops' = [loops EXCEPT ![l].pc = p, ![l].initial = FALSE]
    <3>1. /\ Len(loops') = Len(loops)
          /\ \A k \in 1 .. Len(loops) : loops'[k].cb = loops[k].cb
      BY <2>3, LoopUpdate
    <3> QED
      BY <3>1 DEF AllCalledBack
  <2> QED
    BY <1>1, <2>1, <2>2, <2>3
<1>2. ASSUME NEW f \in File, NEW cb \in BOOLEAN, StartLoop(f, cb)
      PROVE  Len(loops') = Len(loops) + 1 /\ (cb \/ setting.mayDelete => AllCalledBack')
  <2> DEFINE e == [file |-> f, pc |-> "sent", initial |-> TRUE, cb |-> cb]
  <2>1. e \in Loop /\ e.cb = cb
    BY DEF Loop
  <2>2. loops' = Append(loops, e)
    BY <1>2 DEF StartLoop
  <2> HIDE DEF e
  <2>3. /\ Len(loops') = Len(loops) + 1 /\ loops'[Len(loops) + 1] = e
        /\ \A k \in 1 .. Len(loops) : loops'[k] = loops[k]
    BY <2>1, <2>2, AppendOf DEF ModuleTypes
  <2>4. ASSUME cb, ~setting.mayDelete, NEW k \in 1 .. Len(loops') PROVE loops'[k].cb = TRUE
    <3>1. CASE k = Len(loops) + 1
      BY <2>1, <2>3, <2>4, <3>1
    <3>2. CASE k \in 1 .. Len(loops)
      BY <2>3, <2>4, <3>2 DEF AllCalledBack
    <3>3. k = Len(loops) + 1 \/ k \in 1 .. Len(loops)
      BY <1>0, <2>3
    <3> QED
      BY <3>1, <3>2, <3>3
  <2> QED
    BY <2>3, <2>4 DEF AllCalledBack
<1>3. ASSUME NEW l \in 1 .. Len(loops), RetryTimeout(l)
      PROVE  Len(loops') = Len(loops) /\ AllCalledBack'
  BY <1>1, <1>3 DEF RetryTimeout
<1>4. ASSUME LoopResponse PROVE Len(loops') = Len(loops) /\ AllCalledBack'
  BY <1>1, <1>4 DEF LoopResponse
<1>5. ASSUME UNCHANGED loops PROVE Len(loops') = Len(loops) /\ AllCalledBack'
  BY <1>1, <1>5
<1>6. ASSUME HandleEvent PROVE Len(loops') >= Len(loops) /\ AllCalledBack'
  <2>1. PICK f \in File : f = Head(outq).file
    BY <1>6, OutQueue, FilesOf DEF HandleEvent
  <2>2. CASE UNCHANGED loops
    BY <1>0, <1>5, <2>2
  <2>3. CASE StartLoop(f, FALSE) /\ Head(outq).final
    <3>1. outq # <<>> /\ Head(outq).type = "event"
      BY <1>6 DEF HandleEvent
    <3>2. ~setting.mayDelete => Tame(Head(outq))
      BY <3>1, TameOf DEF ArmedInv, NoDeletion, QueueTypes
    <3>3. setting.mayDelete
      BY <2>3, <3>1, <3>2 DEF Tame
    <3>4. Len(loops') = Len(loops) + 1 /\ (FALSE \/ setting.mayDelete => AllCalledBack')
      BY <1>2, <2>3
    <3> QED
      BY <1>0, <3>3, <3>4
  <2> QED
    BY <1>6, <2>1, <2>2, <2>3 DEF HandleEvent
<1>7. ASSUME NEW f \in File, NEW who, NEW done, UnwatchCall(f, who, done)
      PROVE  Len(loops') = Len(loops) /\ AllCalledBack'
  BY <1>1, <1>7 DEF UnwatchCall
<1>8. ASSUME NEW f \in File, Watch(f) PROVE Len(loops') >= Len(loops) /\ AllCalledBack'
  <2>1. CASE StartLoop(f, TRUE)
    <3>1. Len(loops') = Len(loops) + 1 /\ (TRUE \/ setting.mayDelete => AllCalledBack')
      BY <1>2, <2>1
    <3> QED
      BY <1>0, <3>1
  <2>2. CASE UNCHANGED loops
    BY <1>0, <1>5, <2>2
  <2> QED
    BY <1>8, <2>1, <2>2 DEF Watch
<1>9. ASSUME EventLoop PROVE Len(loops') >= Len(loops) /\ AllCalledBack'
  <2> DEFINE G == Len(loops') >= Len(loops) /\ AllCalledBack'
  <2>1. Len(loops') = Len(loops) /\ AllCalledBack' => G
    BY <1>0
  <2>2. ASSUME NEW l \in 1 .. Len(loops), RetryTimeout(l) PROVE G
    BY <1>3, <2>1, <2>2
  <2>3. ASSUME LoopResponse PROVE G
    BY <1>4, <2>1, <2>3
  <2>4. ASSUME LongInterval \/ LongResponse \/ UnwatchResponse \/ HandleError PROVE G
    <3>1. UNCHANGED loops
      BY <2>4 DEF LongInterval, LongResponse, UnwatchResponse, HandleError
    <3> QED
      BY <1>5, <2>1, <3>1
  <2>5. ASSUME HandleEvent PROVE G
    BY <1>6, <2>5
  <2> QED
    BY <1>9, <2>2, <2>3, <2>4, <2>5 DEF EventLoop
<1>10. ASSUME Consumer PROVE Len(loops') >= Len(loops) /\ AllCalledBack'
  BY <1>0, <1>5, <1>7, <1>8, <1>10, WatcherAssumption
     DEF Consumer, Forget, Unwatch, CleanerFind, CleanerUnwatch, jsVars
<1>11. Len(loops') \in Nat
  BY EventLoopTypes, ConsumerStepTypes DEF ModuleTypes
<1> QED
  BY <1>0, <1>9, <1>10, <1>11

\* What the steps of the helper add to the queue of lines.
LEMMA LinesAdded ==
    ASSUME Types, Helper
    PROVE  \A m \in ToSet(outq') :
              \/ m \in ToSet(outq) \/ m.type # "response"
              \/ \E c \in ToSet(cmdq) : m.cont = c.cont
              \/ work # None /\ work.by = "stdin" /\ m.cont = work.msg.cont
<1> USE DEF Types
<1>1. ASSUME UNCHANGED outq PROVE ToSet(outq') = ToSet(outq)
  BY <1>1
<1>2. ASSUME NEW m \in Message, outq' = Append(outq, m) PROVE ToSet(outq') = ToSet(outq) \cup {m}
  BY <1>2, OutQueue
<1>3. CASE CWatch \/ CUnwatch
  <2>1. cmdq # <<>> /\ cmdq' = Tail(cmdq)
    BY <1>3 DEF CWatch, CUnwatch
  <2>2. PICK d \in ToSet(cmdq) : d = Head(cmdq)
    BY <2>1, ElementsOf DEF QueueTypes
  <2>3. d.cont \in WatchCont \cup UnwatchCont
    BY <2>1, <2>2, CommandTaken, Made
  <2>4. UNCHANGED outq \/ \E ok \in BOOLEAN : outq' = Append(outq, Response(d.cont, ok))
    BY <1>3, <2>2 DEF CWatch, CUnwatch
  <2>5. ASSUME NEW ok \in BOOLEAN, outq' = Append(outq, Response(d.cont, ok))
        PROVE  ToSet(outq') = ToSet(outq) \cup {Response(d.cont, ok)}
               /\ Response(d.cont, ok).cont = d.cont
    BY <1>2, <2>3, <2>5, Made DEF Response
  <2> QED
    BY <1>1, <2>2, <2>4, <2>5
<1>4. CASE CPortGet
  BY <1>1, <1>4 DEF CPortGet
<1>5. CASE CEvent
  <2>1. UNCHANGED outq \/ outq' = Append(outq, Event(got.file, got.ev, TRUE))
    BY <1>5 DEF CEvent
  <2>2. Event(got.file, got.ev, TRUE) \in Message /\ Event(got.file, got.ev, TRUE).type = "event"
    BY <1>5, FilesOf, Made DEF CEvent, AnyEvent, Event
  <2> QED
    BY <1>1, <1>2, <2>1, <2>2
<1>6. CASE CAssociate
  <2> DEFINE e == [type |-> "error"]
             no == [work.msg EXCEPT !.ok = FALSE]
  <2>1. work # None /\ work.msg \in Message /\ e \in Message /\ e.type # "response"
    BY <1>6, FilesOf, Made DEF CAssociate
  <2>2. work.by = "stdin" => no \in Message /\ no.cont = work.msg.cont
    BY <2>1, FilesOf DEF StdinWork, Message
  <2>3. work.by # "stdin" => work.msg.type # "response"
    BY <2>1, FilesOf DEF PortWork
  <2>4. ToSet(outq \o <<work.msg, e>>) = ToSet(outq) \cup {work.msg, e}
    BY <2>1, OutQueue
  <2>5. \/ outq' = Append(outq, work.msg)
        \/ work.by = "stdin" /\ outq' = Append(outq, no)
        \/ outq' = outq \o <<work.msg, e>>
    BY <1>6 DEF CAssociate
  <2> HIDE DEF e, no
  <2>6. \A m \in ToSet(outq') : \/ m \in ToSet(outq) \/ m = work.msg \/ m = e
                                \/ work.by = "stdin" /\ m = no
    <3>1. CASE outq' = Append(outq, work.msg)
      <4>1. ToSet(outq') = ToSet(outq) \cup {work.msg}
        BY <1>2, <2>1, <3>1
      <4> QED
        BY <4>1
    <3>2. CASE work.by = "stdin" /\ outq' = Append(outq, no)
      BY <1>2, <2>2, <3>2
    <3>3. CASE outq' = outq \o <<work.msg, e>>
      BY <2>4, <3>3
    <3> QED
      BY <2>5, <3>1, <3>2, <3>3
  <2> QED
    BY <2>1, <2>2, <2>3, <2>6
<1> QED
  BY <1>3, <1>4, <1>5, <1>6 DEF Helper

LEMMA LoopStep ==
    ASSUME Types, ArmedInv, LoopInv, [Next]_vars
    PROVE  LoopInv'
<1> USE DEF Types
<1>1. CASE UNCHANGED <<setting, loops, cmdq, outq, work>>
  BY <1>1 DEF LoopInv, LoopsKnown, AllCalledBack, Known
<1>2. CASE Helper /\ UNCHANGED setting
  <2>1. UNCHANGED loops
    BY <1>2 DEF Helper, CWatch, CUnwatch, CPortGet, CEvent, CAssociate, jsVars
  <2>2. \A c : Known(c)' <=> Known(c)
    BY <2>1 DEF Known
  <2>3. cmdq' = cmdq \/ (cmdq # <<>> /\ cmdq' = Tail(cmdq))
    BY <1>2 DEF Helper, CWatch, CUnwatch, CPortGet, CEvent, CAssociate
  <2>4. ToSet(cmdq') \subseteq ToSet(cmdq)
    <3>1. cmdq \in Seq(Command)
      BY DEF QueueTypes
    <3>2. cmdq # <<>> => ToSet(cmdq) = {Head(cmdq)} \cup ToSet(Tail(cmdq))
      BY <3>1, ElementsOf
    <3> QED
      BY <2>3, <3>2
  <2>5. \A m \in ToSet(outq') : m.type = "response" => Known(m.cont)'
    BY <1>2, <2>2, LinesAdded DEF LoopInv, LoopsKnown
  <2>6. (work # None /\ work.by = "stdin" => Known(work.msg.cont))'
    <3>1. CASE CWatch
      <4>1. cmdq # <<>>
        BY <3>1 DEF CWatch
      <4>2. PICK d \in ToSet(cmdq) : d = Head(cmdq)
        BY <4>1, ElementsOf DEF QueueTypes
      <4>3. \/ work' = None
            \/ work' = [by |-> "stdin", file |-> d.cont.file, ver |-> ver[d.cont.file],
                        msg |-> Response(d.cont, TRUE)]
        BY <3>1, <4>2 DEF CWatch
      <4>4. ASSUME work' = [by |-> "stdin", file |-> d.cont.file, ver |-> ver[d.cont.file],
                            msg |-> Response(d.cont, TRUE)]
            PROVE  work'.msg.cont = d.cont
        BY <4>4 DEF Response
      <4> QED
        BY <2>2, <4>2, <4>3, <4>4 DEF LoopInv, LoopsKnown
    <3>2. CASE CEvent
      <4>1. \/ work' = None
            \/ work' = [by |-> "port", file |-> got.file, ver |-> ver[got.file],
                        msg |-> Event(got.file, got.ev, FALSE)]
        BY <3>2 DEF CEvent
      <4>2. ASSUME work' = [by |-> "port", file |-> got.file, ver |-> ver[got.file],
                            msg |-> Event(got.file, got.ev, FALSE)]
            PROVE  work'.by # "stdin"
        BY <4>2
      <4> QED
        BY <4>1, <4>2
    <3>3. CASE UNCHANGED work \/ work' = None
      BY <2>2, <3>3 DEF LoopInv, LoopsKnown
    <3> QED
      BY <1>2, <3>1, <3>2, <3>3 DEF Helper, CUnwatch, CPortGet, CAssociate
  <2> QED
    BY <1>2, <2>1, <2>2, <2>4, <2>5, <2>6 DEF LoopInv, LoopsKnown, AllCalledBack
<1>3. CASE (EventLoop \/ Consumer) /\ UNCHANGED setting
  <2>1. UNCHANGED work
    BY <1>3 DEF EventLoop, RetryTimeout, LongInterval, LoopResponse, LongResponse,
       UnwatchResponse, HandleEvent, HandleError, Consumer, Watch, Forget, Unwatch,
       CleanerFind, CleanerUnwatch, cVars
  <2>2. Len(loops) \in Nat /\ Len(loops') \in Nat /\ Len(loops') >= Len(loops) /\ AllCalledBack'
    BY <1>3, LoopsGrow DEF LoopInv
  <2>3. \A c : Known(c) => Known(c)'
    BY <2>2 DEF Known
  <2>4. outq' = outq \/ (outq # <<>> /\ outq' = Tail(outq))
    BY <1>3 DEF EventLoop, RetryTimeout, LongInterval, LoopResponse, LongResponse,
       UnwatchResponse, HandleEvent, HandleError, Consumer, Watch, Forget, Unwatch,
       CleanerFind, CleanerUnwatch
  <2>5. ToSet(outq') \subseteq ToSet(outq)
    BY <2>4, OutQueue
  <2>6. ASSUME SendsWatches PROVE \A c \in ToSet(cmdq') : Known(c.cont)'
    BY <2>3, <2>6 DEF SendsWatches, WatchSent, LoopInv, LoopsKnown, Known
  <2>7. \A c \in ToSet(cmdq') : Known(c.cont)'
    <3>1. CASE EventLoop
      BY <2>6, <3>1, EventLoopSends
    <3>2. ASSUME UNCHANGED cmdq PROVE \A c \in ToSet(cmdq') : Known(c.cont)'
      BY <2>3, <3>2 DEF LoopInv, LoopsKnown
    <3>3. ASSUME NEW f \in File, Watch(f) PROVE \A c \in ToSet(cmdq') : Known(c.cont)'
      BY <2>6, <3>2, <3>3, StartLoopSends DEF Watch
    <3>4. ASSUME NEW f \in File, NEW who \in {"user", "cleaner"}, NEW done,
                 UnwatchCall(f, who, done)
          PROVE  \A c \in ToSet(cmdq') : Known(c.cont)'
      <4>1. CASE UNCHANGED cmdq
        BY <3>2, <4>1
      <4>2. CASE Send("UNWATCH", [kind |-> who, file |-> f])
        <5>1. [kind |-> who, file |-> f] \in UnwatchCont
          BY DEF UnwatchCont
        <5>2. PICK d : d = [cmd |-> "UNWATCH", cont |-> [kind |-> who, file |-> f]]
          OBVIOUS
        <5>3. d.cont.kind # "loop"
          BY <5>2
        <5>4. ToSet(cmdq') = ToSet(cmdq) \cup {d}
          BY <4>2, <5>1, <5>2, SendAdds
        <5> QED
          BY <2>3, <5>3, <5>4 DEF LoopInv, LoopsKnown, Known
      <4> QED
        BY <3>4, <4>1, <4>2 DEF UnwatchCall
    <3>5. ASSUME NEW f \in File, Forget(f) \/ CleanerFind(f)
          PROVE  \A c \in ToSet(cmdq') : Known(c.cont)'
      BY <3>2, <3>5 DEF Forget, CleanerFind
    <3> QED
      BY <1>3, <3>1, <3>3, <3>4, <3>5, WatcherAssumption DEF Consumer, Unwatch, CleanerUnwatch
  <2> QED
    BY <2>1, <2>2, <2>3, <2>5, <2>7 DEF LoopInv, LoopsKnown
<1>4. CASE FileSystem /\ UNCHANGED setting
  BY <1>1, <1>4 DEF FileSystem, Modify, Create, Delete, FileChanges, cVars, jsVars
<1>5. CASE UNCHANGED vars
  BY <1>1, <1>5 DEF vars, cVars, jsVars
<1> QED
  BY <1>2, <1>3, <1>4, <1>5 DEF Next

-----------------------------------------------------------------------------
(* Freshness: the consumer is up to date or is to be told.                 *)

\* The line is about f: reading it tells the consumer or ends the watching.
Tells(m, f) == Up(m, f) \/ Down(m, f) \/ (m.type = "event" /\ m.file = f)

\* Such a line is in the queue, or the helper is going to write one.
Coming(f) ==
    \/ portq[f] # <<>> \/ (Taken(f) /\ ~got.stale) \/ Working(f)
    \/ ~NoUnwatchSent(f)
    \/ \E m \in ToSet(outq) : Tells(m, f)

Fresh(f) == watching[f] = "active" => seen[f] = ver[f] \/ Coming(f)

FreshInv == ~setting.mayDelete => \A f \in File : Fresh(f)

\* Where nothing is coming, the helper has the handle.
LEMMA WatchedHasHandle ==
    ASSUME Types, AgreeInv, ~setting.mayDelete, NEW f \in File, watching[f] = "active",
           NoUnwatchSent(f), \A m \in ToSet(outq) : ~Tells(m, f)
    PROVE  handle[f]
<1>1. NoneDown(outq, f)
  BY ElementsOf DEF NoneDown, Tells, Types, QueueTypes
<1>2. Agreed(f)
  BY DEF AgreeInv, Sound
<1> QED
  BY <1>1, <1>2 DEF Agreed, Believed, Held

\* FreshInv in the steps of the file system ...
LEMMA FreshFileSystem ==
    ASSUME Types, ArmedInv, AgreeInv, FreshInv, ~setting.mayDelete, FileSystem
    PROVE  \A g \in File : Fresh(g)'
<1> USE DEF Types
<1>1. PICK f \in File : Modify(f) \/ Create(f) \/ Delete(f)
  BY WatcherAssumption DEF FileSystem
<1>2. PICK there \in BOOLEAN, ev \in {"mod", "del"} : FileChanges(f, there, ev)
  BY <1>1 DEF Modify, Create, Delete
<1>3. UNCHANGED <<handle, got, work, cmdq, outq, watching, seen>>
  BY <1>2 DEF FileChanges, cVars, jsVars
<1>4. /\ assoc[f] => portq'[f] = Append(portq[f], PortEvent(f, ev))
      /\ ~assoc[f] => portq'[f] = portq[f]
      /\ \A g \in File \ {f} : portq'[g] = portq[g] /\ ver'[g] = ver[g]
  BY <1>2 DEF FileChanges, HelperTypes
<1>5. portq'[f] = portq[f] \/ (assoc[f] /\ portq'[f] # <<>>)
  <2>1. portq[f] \in Seq(AnyEvent) /\ PortEvent(f, ev) \in AnyEvent
    BY Made DEF HelperTypes
  <2>2. Append(portq[f], PortEvent(f, ev)) # <<>>
    BY <2>1, AppendOf
  <2> QED
    BY <1>4, <2>2 DEF HelperTypes
<1>6. \A g \in File : Coming(g) => Coming(g)'
  BY <1>3, <1>4, <1>5 DEF Coming, Taken, Working, NoUnwatchSent
<1>7. ASSUME watching[f] = "active", ~Coming(f) PROVE Coming(f)'
  <2>1. handle[f]
    BY <1>7, WatchedHasHandle DEF Coming
  <2>2. assoc[f]
    BY <1>7, <2>1 DEF ArmedInv, Armed, Coming
  <2> QED
    BY <1>4, <2>2, Made, AppendOf DEF Coming, HelperTypes
<1> QED
  BY <1>3, <1>4, <1>6, <1>7 DEF Fresh, FreshInv

\* ... of the helper ...
LEMMA FreshHelper ==
    ASSUME Types, ArmedInv, AgreeInv, FreshInv, ~setting.mayDelete, Helper
    PROVE  \A g \in File : Fresh(g)'
<1> USE DEF Types
<1>0. UNCHANGED <<ver, watching, seen>>
  BY DEF Helper, CWatch, CUnwatch, CPortGet, CEvent, CAssociate, fsVars, jsVars
<1>1. SUFFICES ASSUME NEW g \in File, watching[g] = "active", Coming(g) PROVE Coming(g)'
  BY <1>0 DEF Fresh, FreshInv
<1>2. ASSUME NEW m \in Message, outq' = Append(outq, m)
      PROVE  /\ (\E n \in ToSet(outq) : Tells(n, g)) => \E n \in ToSet(outq') : Tells(n, g)
             /\ Tells(m, g) => Coming(g)'
  BY <1>2, OutQueue DEF Coming
<1>3. CASE CWatch
  <2>1. /\ work = None /\ cmdq # <<>> /\ cmdq' = Tail(cmdq) /\ Head(cmdq).cmd = "WATCH"
        /\ UNCHANGED <<portq, got>>
    BY <1>3 DEF CWatch, portVars
  <2>2. NoUnwatchSent(g)' <=> NoUnwatchSent(g)
    BY <2>1, CommandTaken
  <2>3. PICK c \in WatchCont : c = Head(cmdq).cont
    BY <2>1, CommandTaken
  <2>4. UNCHANGED outq \/ \E ok \in BOOLEAN : outq' = Append(outq, Response(c, ok))
    BY <1>3, <2>3 DEF CWatch
  <2>5. (\E n \in ToSet(outq) : Tells(n, g)) => \E n \in ToSet(outq') : Tells(n, g)
    BY <1>2, <2>4, Made
  <2> QED
    BY <1>1, <2>1, <2>2, <2>5 DEF Coming, Taken, Working
<1>4. CASE CUnwatch
  <2>1. work = None /\ UNCHANGED work /\ cmdq # <<>> /\ cmdq' = Tail(cmdq)
        /\ Head(cmdq).cmd = "UNWATCH"
    BY <1>4 DEF CUnwatch
  <2>2. PICK f \in File : f = Head(cmdq).cont.file
    BY <2>1, CommandTaken
  <2>3. PICK c \in UnwatchCont : c = Head(cmdq).cont
    BY <2>1, CommandTaken
  <2>4. PICK ok \in BOOLEAN : outq' = Append(outq, Response(c, ok))
    BY <1>4, <2>3 DEF CUnwatch
  <2>5. Response(c, ok) \in Message
    BY Made
  <2>6. CASE g = f
    <3>1. Down(Response(c, ok), g)
      BY <2>2, <2>3, <2>6, Meaning
    <3> QED
      BY <1>2, <2>4, <2>5, <3>1 DEF Tells
  <2>7. CASE g # f
    <3>1. NoUnwatchSent(g)' <=> NoUnwatchSent(g)
      BY <2>1, <2>2, <2>7, CommandTaken
    <3>2. portq'[g] = portq[g]
      BY <1>4, <2>2, <2>7 DEF CUnwatch, HelperTypes, portVars
    <3>3. Taken(g) => got' = got
      BY <1>4, <2>2, <2>7 DEF CUnwatch, Taken
    <3>4. (\E n \in ToSet(outq) : Tells(n, g)) => \E n \in ToSet(outq') : Tells(n, g)
      BY <1>2, <2>4, <2>5
    <3> QED
      BY <1>1, <2>1, <3>1, <3>2, <3>3, <3>4 DEF Coming, Taken, Working
  <2> QED
    BY <2>6, <2>7
<1>5. CASE CPortGet
  <2>1. PICK f \in File : /\ portq[f] # <<>> /\ got' = Head(portq[f])
                          /\ portq' = [portq EXCEPT ![f] = Tail(@)]
    BY <1>5 DEF CPortGet
  <2>2. portq[f] \in Seq(Queued(f))
    BY DEF HelperTypes
  <2>3. Head(portq[f]) \in Queued(f)
    BY <2>1, <2>2, TailOf
  <2>4. got' # None /\ got'.file = f /\ ~got'.stale
    BY <2>1, <2>3, Made, NotNone DEF Queued
  <2>5. got = None /\ UNCHANGED <<work, cmdq, outq>>
        /\ \A h \in File \ {f} : portq'[h] = portq[h]
    BY <1>5, <2>1 DEF CPortGet, HelperTypes
  <2> QED
    BY <1>1, <2>4, <2>5 DEF Coming, Taken, Working, NoUnwatchSent
<1>6. CASE CEvent
  <2>1. got # None /\ work = None /\ UNCHANGED <<portq, cmdq>>
    BY <1>6 DEF CEvent, portVars
  <2>2. PICK f \in File : f = got.file
    BY <2>1, FilesOf
  <2>3. got.ev = "mod" /\ (handle[f] => exists[f])
    BY <2>1 DEF ArmedInv, NoDeletion
  <2>4. UNCHANGED outq
    BY <1>6, <2>2, <2>3 DEF CEvent
  <2>5. CASE g # f \/ got.stale
    BY <1>1, <2>1, <2>2, <2>4, <2>5 DEF Coming, Taken, Working, NoUnwatchSent
  <2>6. CASE g = f /\ ~got.stale /\ handle[f]
    <3>1. work' = [by |-> "port", file |-> f, ver |-> ver[f],
                   msg |-> Event(f, got.ev, FALSE)]
      BY <1>6, <2>2, <2>3, <2>6 DEF CEvent
    <3>2. work' # None /\ work'.file = f
      BY <3>1 DEF None
    <3> QED
      BY <2>6, <3>2 DEF Coming, Working
  <2>7. CASE g = f /\ ~handle[f]
    <3>1. ~NoUnwatchSent(g) \/ \E m \in ToSet(outq) : Tells(m, g)
      BY <1>1, <2>7, WatchedHasHandle
    <3> QED
      BY <2>1, <2>4, <3>1 DEF Coming, NoUnwatchSent
  <2> QED
    BY <2>5, <2>6, <2>7
<1>7. CASE CAssociate
  <2>1. work # None /\ UNCHANGED <<got, cmdq>>
    BY <1>7 DEF CAssociate
  <2>2. PICK f \in File : f = work.file
    BY <2>1, FilesOf
  <2>3. exists[f] /\ work.msg \in Message /\ work.by \in {"stdin", "port"}
    BY <2>1, <2>2, FilesOf DEF AgreeInv, Working, ArmedInv, NoDeletion
  <2>4. outq' = Append(outq, work.msg)
    BY <1>7, <2>2, <2>3 DEF CAssociate
  <2>5. CASE g = f
    <3>1. work.by = "stdin" => Up(work.msg, f)
      BY <2>1, <2>2, FilesOf DEF StdinWork, WatchCont, LoopCont, LongCont, Up
    <3>2. work.by = "port" => work.msg.type = "event" /\ work.msg.file = f
      BY <2>1, <2>2, FilesOf DEF PortWork
    <3> QED
      BY <1>2, <2>3, <2>4, <2>5, <3>1, <3>2 DEF Tells
  <2>6. CASE g # f
    <3>1. portq'[g] = portq[g]
      BY <1>7, <2>2, <2>6 DEF CAssociate, HelperTypes, portVars
    <3>2. (\E n \in ToSet(outq) : Tells(n, g)) => \E n \in ToSet(outq') : Tells(n, g)
      BY <1>2, <2>3, <2>4
    <3> QED
      BY <1>1, <2>1, <2>2, <2>6, <3>1, <3>2 DEF Coming, Taken, Working, NoUnwatchSent
  <2> QED
    BY <2>5, <2>6
<1> QED
  BY <1>3, <1>4, <1>5, <1>6, <1>7 DEF Helper

\* ... and of the module and the consumer.
LEMMA FreshModule ==
    ASSUME Types, ArmedInv, LoopInv, FreshInv, ~setting.mayDelete, EventLoop \/ Consumer
    PROVE  \A g \in File : Fresh(g)'
<1> USE DEF Types
<1>0. UNCHANGED <<ver, portq, got, work>>
  BY DEF EventLoop, RetryTimeout, LongInterval, LoopResponse, LongResponse,
     UnwatchResponse, HandleEvent, HandleError, Consumer, Watch, Forget, Unwatch,
     CleanerFind, CleanerUnwatch, fsVars, portVars, cVars
<1>1. \A g \in File : Fresh(g)
  BY DEF FreshInv
<1>2. ASSUME ToSet(cmdq) \subseteq ToSet(cmdq'), NEW g \in File,
             \A m \in ToSet(outq) : Tells(m, g) => m \in ToSet(outq')
      PROVE  Coming(g) => Coming(g)'
  BY <1>0, <1>2 DEF Coming, Taken, Working, NoUnwatchSent
<1>3. ASSUME EventLoop PROVE \A g \in File : Fresh(g)'
  <2>0. ToSet(cmdq) \subseteq ToSet(cmdq')
    BY <1>3, EventLoopSends DEF SendsWatches
  <2>1. CASE UNCHANGED <<outq, watching, seen>>
    BY <1>0, <1>1, <1>2, <2>0, <2>1 DEF Fresh
  <2>2. ASSUME outq # <<>>, outq' = Tail(outq), NEW g \in File, ~Tells(Head(outq), g)
        PROVE  Coming(g) => Coming(g)'
    BY <1>2, <2>0, <2>2, OutQueue
  <2>3. ASSUME NEW f \in File, seen' = [seen EXCEPT ![f] = ver[f]]
        PROVE  seen'[f] = ver[f] /\ \A g \in File \ {f} : seen'[g] = seen[g]
    BY <2>3 DEF ModuleTypes
  <2>4. CASE LoopResponse \/ LongResponse
    <3>1. /\ outq # <<>> /\ outq' = Tail(outq) /\ Head(outq).type = "response"
          /\ Head(outq).cont.kind \in {"loop", "long"}
      BY <2>4 DEF LoopResponse, LongResponse
    <3>2. Head(outq) \in ToSet(outq)
      BY <3>1, OutQueue
    <3>3. PICK f \in File : f = Head(outq).cont.file
      BY <3>1, <3>2, FilesOf
    <3>4. Head(outq).ok \in BOOLEAN
      BY <3>1, <3>2, FilesOf DEF Message
    <3>5. \A g \in File \ {f} : ~Tells(Head(outq), g)
      BY <3>1, <3>3 DEF Tells, Up, Down, Unwatched
    <3>6. ~Head(outq).ok => ~Tells(Head(outq), f)
      BY <3>1 DEF Tells, Up, Down, Unwatched
    <3>7. \A g \in File \ {f} : watching'[g] = watching[g] /\ seen'[g] = seen[g]
      <4>1. \A g \in File \ {f} : watching'[g] = watching[g]
        BY <2>4, <3>3 DEF LoopResponse, LongResponse, ModuleTypes
      <4> QED
        BY <2>3, <2>4, <3>3, <4>1 DEF LoopResponse, LongResponse, Notify
    <3>8. ~Head(outq).ok => watching'[f] = watching[f] /\ (seen'[f] = ver[f] \/ seen'[f] = seen[f])
      BY <2>3, <2>4, <3>3, <3>4 DEF LoopResponse, LongResponse, Notify
    <3>9. Head(outq).ok => seen'[f] = ver[f]
      <4>1. CASE LongResponse
        BY <2>3, <3>3, <4>1 DEF LongResponse, Notify
      <4>2. CASE LoopResponse
        <5>1. Head(outq).cont.kind = "loop"
          BY <4>2 DEF LoopResponse
        <5>2. PICK l \in 1 .. Len(loops) : l = Head(outq).cont.loop
          BY <3>1, <3>2, <5>1 DEF LoopInv, LoopsKnown, Known
        <5>3. loops[l].cb = TRUE
          BY DEF LoopInv, AllCalledBack
        <5>4. Head(outq).ok => Notify(f)
          BY <3>3, <4>2, <5>2, <5>3 DEF LoopResponse
        <5> QED
          BY <2>3, <5>4 DEF Notify
      <4> QED
        BY <2>4, <4>1, <4>2
    <3>10. Fresh(f)'
      <4>1. CASE Head(outq).ok
        BY <1>0, <3>9, <4>1 DEF Fresh
      <4>2. CASE ~Head(outq).ok
        BY <1>0, <1>1, <2>2, <3>1, <3>6, <3>8, <4>2 DEF Fresh
      <4> QED
        BY <4>1, <4>2
    <3>11. \A g \in File \ {f} : Fresh(g)'
      BY <1>0, <1>1, <2>2, <3>1, <3>5, <3>7 DEF Fresh
    <3> QED
      BY <3>10, <3>11
  <2>5. CASE UnwatchResponse
    <3>1. /\ outq # <<>> /\ outq' = Tail(outq) /\ Head(outq).type = "response"
          /\ UNCHANGED seen
      BY <2>5 DEF UnwatchResponse
    <3>2. PICK f \in File : f = Head(outq).cont.file
      BY <3>1, OutQueue, FilesOf
    <3>3. \A g \in File \ {f} : ~Tells(Head(outq), g)
      BY <3>1, <3>2 DEF Tells, Up, Down, Unwatched
    <3>4. watching'[f] = "no" /\ \A g \in File \ {f} : watching'[g] = watching[g]
      BY <2>5, <3>2 DEF UnwatchResponse, ModuleTypes
    <3> QED
      BY <1>0, <1>1, <2>2, <3>1, <3>3, <3>4 DEF Fresh
  <2>6. CASE HandleEvent
    <3>1. outq # <<>> /\ outq' = Tail(outq) /\ Head(outq).type = "event"
      BY <2>6 DEF HandleEvent
    <3>2. PICK f \in File : f = Head(outq).file
      BY <3>1, OutQueue, FilesOf
    <3>3. \A g \in File \ {f} : ~Tells(Head(outq), g)
      BY <3>1, <3>2 DEF Tells, Up, Down, Unwatched
    <3>4. \A g \in File \ {f} : watching'[g] = watching[g]
      BY <2>6, <3>2 DEF HandleEvent, ModuleTypes
    <3>5. \A g \in File \ {f} : seen'[g] = seen[g]
      BY <2>3, <2>6, <3>2 DEF HandleEvent, Notify
    <3>6. watching[f] = "active" => seen'[f] = ver[f]
      BY <2>3, <2>6, <3>2 DEF HandleEvent, Notify
    <3>7. watching[f] # "active" => watching'[f] # "active"
      BY <2>6, <3>2 DEF HandleEvent, ModuleTypes
    <3> QED
      BY <1>0, <1>1, <2>2, <3>1, <3>3, <3>4, <3>5, <3>6, <3>7 DEF Fresh
  <2>7. CASE HandleError
    <3>1. outq # <<>> /\ Head(outq).type = "error"
      BY <2>7 DEF HandleError
    <3>2. Tame(Head(outq))
      BY <3>1, TameOf DEF ArmedInv, NoDeletion, QueueTypes
    <3> QED
      BY <3>1, <3>2 DEF Tame
  <2> QED
    BY <1>3, <2>1, <2>4, <2>5, <2>6, <2>7 DEF EventLoop, RetryTimeout, LongInterval
<1>4. ASSUME Consumer PROVE \A g \in File : Fresh(g)'
  <2>1. UNCHANGED <<outq, seen>>
    BY <1>4 DEF Consumer, Watch, Forget, Unwatch, CleanerFind, CleanerUnwatch
  <2>2. ASSUME ToSet(cmdq) \subseteq ToSet(cmdq'),
               \A g \in File : watching'[g] = "active" => watching[g] = "active"
        PROVE  \A g \in File : Fresh(g)'
    BY <1>0, <1>1, <1>2, <2>1, <2>2 DEF Fresh
  <2>3. ASSUME NEW f \in File, Watch(f) PROVE \A g \in File : Fresh(g)'
    <3>1. ToSet(cmdq) \subseteq ToSet(cmdq')
      BY <2>3, StartLoopSends DEF Watch, SendsWatches
    <3> QED
      BY <2>2, <2>3, <3>1 DEF Watch
  <2>4. ASSUME NEW f \in File, NEW who \in {"user", "cleaner"}, NEW done,
               UnwatchCall(f, who, done)
        PROVE  \A g \in File : Fresh(g)'
    <3>1. \A g \in File : watching'[g] = "active" => watching[g] = "active"
      BY <2>4 DEF UnwatchCall, ModuleTypes
    <3>2. [kind |-> who, file |-> f] \in UnwatchCont
      BY DEF UnwatchCont
    <3>3. UNCHANGED cmdq \/ Send("UNWATCH", [kind |-> who, file |-> f])
      BY <2>4 DEF UnwatchCall
    <3>4. Send("UNWATCH", [kind |-> who, file |-> f]) => ToSet(cmdq) \subseteq ToSet(cmdq')
      BY <3>2, SendAdds
    <3> QED
      BY <2>2, <3>1, <3>3, <3>4
  <2>5. ASSUME NEW f \in File, Forget(f) \/ CleanerFind(f) PROVE \A g \in File : Fresh(g)'
    BY <2>2, <2>5 DEF Forget, CleanerFind, jsVars
  <2> QED
    BY <1>4, <2>3, <2>4, <2>5, WatcherAssumption DEF Consumer, Unwatch, CleanerUnwatch
<1> QED
  BY <1>3, <1>4

LEMMA FreshInvariant == Spec => [](Types /\ ArmedInv /\ AgreeInv /\ LoopInv /\ FreshInv)
<1>1. Init => LoopInv /\ FreshInv
  <2> SUFFICES ASSUME Init PROVE LoopInv /\ FreshInv
    OBVIOUS
  <2>1. work = None /\ outq = <<>> /\ cmdq = <<>> /\ loops = <<>>
        /\ \A f \in File : watching[f] = "no"
    BY DEF Init
  <2>2. ToSet(cmdq) = {} /\ ToSet(outq) = {}
    BY <2>1 DEF ToSet
  <2> QED
    BY <2>1, <2>2 DEF LoopInv, LoopsKnown, AllCalledBack, FreshInv, Fresh
<1>2. Types /\ ArmedInv /\ AgreeInv /\ LoopInv /\ FreshInv /\ [Next]_vars => FreshInv'
  <2> SUFFICES ASSUME Types, ArmedInv, AgreeInv, LoopInv, FreshInv, [Next]_vars
               PROVE  FreshInv'
    OBVIOUS
  <2>1. CASE Next
    <3>1. UNCHANGED setting /\ (FileSystem \/ Helper \/ EventLoop \/ Consumer)
      BY <2>1 DEF Next
    <3> QED
      BY <3>1, FreshFileSystem, FreshHelper, FreshModule DEF FreshInv
  <2>2. CASE UNCHANGED vars
    BY <2>2 DEF vars, fsVars, portVars, cVars, jsVars, FreshInv, Fresh, Coming, Taken,
       Working, NoUnwatchSent
  <2> QED
    BY <2>1, <2>2
<1> QED
  BY <1>1, <1>2, LoopStep, AgreeInvariant, PTL DEF Spec

\* When nothing is under way everybody is up to date: the helper watches what
\* the module takes to be watched, and the consumer has been told of the last
\* change of every such file.
THEOREM NoChangeMissed == Spec => []UpToDateWhenQuiet
<1>1. Types /\ FreshInv => NoMissedChange
  <2> SUFFICES ASSUME Types, FreshInv, ~setting.mayDelete, Quiet, NEW f \in File,
                      watching[f] = "active"
               PROVE  seen[f] = ver[f]
    BY DEF NoMissedChange
  <2>1. /\ cmdq = <<>> /\ outq = <<>> /\ got = None /\ work = None
        /\ portq[f] = <<>>
    BY DEF Quiet
  <2>2. ToSet(cmdq) = {} /\ ToSet(outq) = {}
    BY <2>1 DEF ToSet
  <2>3. ~Coming(f)
    BY <2>1, <2>2 DEF Coming, Taken, Working, NoUnwatchSent
  <2> QED
    BY <2>3 DEF FreshInv, Fresh
<1> QED
  BY <1>1, FreshInvariant, ProcessesAgree, PTL DEF UpToDateWhenQuiet

-----------------------------------------------------------------------------
(* Exceptions: every event line finds its entry in self.watching.          *)

EventOf(m, f) == m.type = "event" /\ m.file = f

\* When the lines before the i-th have been read, f has an entry; b: it has
\* one now.
EntryAt(q, i, f, b) ==
    \/ \E k \in 1 .. (i - 1) : /\ Up(q[k], f)
                               /\ \A j \in (k + 1) .. (i - 1) : ~Down(q[j], f)
    \/ b /\ \A j \in 1 .. (i - 1) : ~Down(q[j], f)

Covered(q, f, b) == \A i \in 1 .. Len(q) : EventOf(q[i], f) => EntryAt(q, i, f, b)

\* At the end of the queue.
EntryAtEnd(f) == LastUp(outq, f) \/ (watching[f] # "no" /\ NoneDown(outq, f))

\* At most one UNWATCH is under way.
OneCommand(q, f) ==
    \A i, j \in 1 .. Len(q) : /\ q[i].cmd = "UNWATCH" /\ q[i].cont.file = f
                              /\ q[j].cmd = "UNWATCH" /\ q[j].cont.file = f
                              => i = j
OneAnswer(q, f) ==
    \A i, j \in 1 .. Len(q) : Unwatched(q[i], f) /\ Unwatched(q[j], f) => i = j

NoAnswer(f) == \A m \in ToSet(outq) : ~Unwatched(m, f)

OneUnwatch(f) ==
    /\ OneCommand(cmdq, f) /\ OneAnswer(outq, f)
    /\ NoUnwatchSent(f) \/ NoAnswer(f)
    /\ user[f] # "unwatching" => NoUnwatchSent(f) /\ NoAnswer(f)

\* The consumer's calls for f find an entry.
Entitled(f) ==
    /\ cleaner[f] = "idle"
    /\ user[f] \in {"dropping", "unwatching"} => ~want[f]
    /\ want[f] \/ user[f] = "dropping" => IsWatching(f)
    /\ watching[f] = "inactive" => user[f] = "unwatching"

\* The first attempt of a call of watch() is under way while the consumer
\* waits for the callback, and it waits for one only.
FirstTry ==
    /\ \A l \in 1 .. Len(loops) : loops[l].initial => user[loops[l].file] = "watching"
    /\ \A l, k \in 1 .. Len(loops) :
          loops[l].initial /\ loops[k].initial /\ loops[l].file = loops[k].file => l = k

Calm(f) ==
    /\ OneUnwatch(f) /\ Entitled(f)
    /\ Held(f) => EntryAtEnd(f)
    /\ Covered(outq, f, watching[f] # "no")

CalmInv ==
    ~setting.mayDelete /\ ~setting.cleaner =>
        ~crashed /\ FirstTry /\ \A f \in File : Calm(f)

\* A line is added at the end.
LEMMA CoverAdded ==
    ASSUME NEW q \in Seq(Message), NEW m \in Message, NEW f, NEW b, Covered(q, f, b),
           EventOf(m, f) => LastUp(q, f) \/ (b /\ NoneDown(q, f))
    PROVE  Covered(Append(q, m), f, b)
<1> DEFINE a == Append(q, m)
<1>1. /\ Len(q) \in Nat /\ Len(a) = Len(q) + 1
      /\ a[Len(q) + 1] = m /\ \A i \in 1 .. Len(q) : a[i] = q[i]
  BY AppendOf
<1> HIDE DEF a
<1>2. SUFFICES ASSUME NEW i \in 1 .. Len(a), EventOf(a[i], f) PROVE EntryAt(a, i, f, b)
  BY DEF Covered, a
<1>3. \A j \in 1 .. (i - 1) : j \in 1 .. Len(q) /\ a[j] = q[j]
  BY <1>1
<1>4. EntryAt(q, i, f, b)
  <2>1. CASE i = Len(q) + 1
    <3>1. LastUp(q, f) \/ (b /\ NoneDown(q, f))
      BY <1>1, <1>2, <2>1
    <3>2. i - 1 = Len(q)
      BY <1>1, <2>1
    <3> QED
      BY <3>1, <3>2 DEF EntryAt, LastUp, NoneDown
  <2>2. CASE i \in 1 .. Len(q)
    BY <1>1, <1>2, <2>2 DEF Covered
  <2> QED
    BY <1>1, <2>1, <2>2
<1>5. CASE b /\ \A j \in 1 .. (i - 1) : ~Down(q[j], f)
  BY <1>3, <1>5 DEF EntryAt
<1>6. ASSUME NEW k \in 1 .. (i - 1), Up(q[k], f),
             \A j \in (k + 1) .. (i - 1) : ~Down(q[j], f)
      PROVE  EntryAt(a, i, f, b)
  <2>1. Up(a[k], f)
    BY <1>3, <1>6
  <2>2. ASSUME NEW j \in (k + 1) .. (i - 1) PROVE ~Down(a[j], f)
    <3>1. j \in 1 .. (i - 1)
      BY <1>1
    <3> QED
      BY <1>3, <1>6, <3>1
  <2> QED
    BY <2>1, <2>2 DEF EntryAt
<1> QED
  BY <1>4, <1>5, <1>6 DEF EntryAt

\* The line at the head is read.
LEMMA CoverTaken ==
    ASSUME NEW q \in Seq(Message), q # <<>>, NEW f, NEW b, NEW c, Covered(q, f, b),
           Up(Head(q), f) => c, b /\ ~Down(Head(q), f) => c
    PROVE  Covered(Tail(q), f, c) /\ (EventOf(Head(q), f) => b)
<1> DEFINE t == Tail(q)
           h == Head(q)
<1>1. /\ Len(q) \in Nat \ {0} /\ h = q[1]
      /\ Len(t) = Len(q) - 1 /\ \A i \in 1 .. Len(t) : t[i] = q[i + 1]
  BY TailOf
<1>2. (Up(h, f) => c) /\ (b /\ ~Down(h, f) => c)
  OBVIOUS
<1> HIDE DEF t, h
<1>3. EventOf(h, f) => b
  <2>1. 1 \in 1 .. Len(q) /\ 1 .. (1 - 1) = {}
    BY <1>1
  <2> QED
    BY <1>1, <2>1 DEF Covered, EntryAt
<1>4. ASSUME NEW i \in 1 .. Len(t), EventOf(t[i], f) PROVE EntryAt(t, i, f, c)
  <2>1. i + 1 \in 1 .. Len(q) /\ t[i] = q[i + 1] /\ (i + 1) - 1 = i
    BY <1>1
  <2>2. EntryAt(q, i + 1, f, b)
    BY <1>4, <2>1 DEF Covered
  <2>3. \A j \in 1 .. (i - 1) : j + 1 \in 2 .. i /\ t[j] = q[j + 1]
    BY <1>1
  <2>4. CASE b /\ \A j \in 1 .. i : ~Down(q[j], f)
    <3>1. ~Down(h, f)
      BY <1>1, <2>4
    <3>2. ASSUME NEW j \in 1 .. (i - 1) PROVE ~Down(t[j], f)
      <4>1. j + 1 \in 1 .. i
        OBVIOUS
      <4> QED
        BY <2>3, <2>4, <4>1
    <3> QED
      BY <1>2, <2>4, <3>1, <3>2 DEF EntryAt
  <2>5. ASSUME NEW k \in 1 .. i, Up(q[k], f), \A j \in (k + 1) .. i : ~Down(q[j], f)
        PROVE  EntryAt(t, i, f, c)
    <3>1. CASE k = 1
      <4>1. c
        BY <1>1, <1>2, <2>5, <3>1
      <4>2. ASSUME NEW j \in 1 .. (i - 1) PROVE ~Down(t[j], f)
        <5>1. j + 1 \in (k + 1) .. i
          BY <3>1
        <5> QED
          BY <2>3, <2>5, <5>1
      <4> QED
        BY <4>1, <4>2 DEF EntryAt
    <3>2. CASE k # 1
      <4>1. k - 1 \in 1 .. (i - 1) /\ (k - 1) + 1 = k
        BY <3>2
      <4>2. Up(t[k - 1], f)
        BY <2>3, <2>5, <4>1
      <4>3. ASSUME NEW j \in ((k - 1) + 1) .. (i - 1) PROVE ~Down(t[j], f)
        <5>1. j + 1 \in (k + 1) .. i /\ j \in 1 .. (i - 1)
          BY <4>1
        <5> QED
          BY <2>3, <2>5, <5>1
      <4> QED
        BY <4>1, <4>2, <4>3 DEF EntryAt
    <3> QED
      BY <3>1, <3>2
  <2> QED
    BY <2>1, <2>2, <2>4, <2>5 DEF EntryAt
<1> QED
  BY <1>3, <1>4 DEF Covered, t, h

\* The queues with at most one UNWATCH.
LEMMA OneCommandOf ==
    ASSUME NEW q \in Seq(Command), NEW f, OneCommand(q, f)
    PROVE  /\ \A c \in Command :
                 \/ ~(c.cmd = "UNWATCH" /\ c.cont.file = f)
                 \/ \A d \in ToSet(q) : ~(d.cmd = "UNWATCH" /\ d.cont.file = f)
                 => OneCommand(Append(q, c), f)
           /\ q # <<>> =>
                 /\ OneCommand(Tail(q), f)
                 /\ Head(q).cmd = "UNWATCH" /\ Head(q).cont.file = f
                      => \A d \in ToSet(Tail(q)) : ~(d.cmd = "UNWATCH" /\ d.cont.file = f)
<1>1. ASSUME NEW c \in Command,
             \/ ~(c.cmd = "UNWATCH" /\ c.cont.file = f)
             \/ \A d \in ToSet(q) : ~(d.cmd = "UNWATCH" /\ d.cont.file = f)
      PROVE  OneCommand(Append(q, c), f)
  <2> DEFINE a == Append(q, c)
  <2>1. /\ Len(q) \in Nat /\ Len(a) = Len(q) + 1
        /\ a[Len(q) + 1] = c /\ \A i \in 1 .. Len(q) : a[i] = q[i]
    BY AppendOf
  <2>2. \A i \in 1 .. Len(q) : q[i] \in ToSet(q)
    BY ElementsOf
  <2> HIDE DEF a
  <2>3. \A i \in 1 .. Len(a) : i = Len(q) + 1 \/ i \in 1 .. Len(q)
    BY <2>1
  <2>4. OneCommand(a, f)
    BY <1>1, <2>1, <2>2, <2>3 DEF OneCommand
  <2> QED
    BY <2>4 DEF a
<1>2. ASSUME q # <<>>
      PROVE  /\ OneCommand(Tail(q), f)
             /\ Head(q).cmd = "UNWATCH" /\ Head(q).cont.file = f
                      => \A d \in ToSet(Tail(q)) : ~(d.cmd = "UNWATCH" /\ d.cont.file = f)
  <2> DEFINE t == Tail(q)
             h == Head(q)
  <2>1. /\ Len(q) \in Nat \ {0} /\ h = q[1] /\ t \in Seq(Command)
        /\ Len(t) = Len(q) - 1 /\ \A i \in 1 .. Len(t) : t[i] = q[i + 1]
    BY <1>2, TailOf
  <2> HIDE DEF t, h
  <2>2. \A i \in 1 .. Len(t) : i + 1 \in 1 .. Len(q) /\ i + 1 # 1
    BY <2>1
  <2>3. \A d \in ToSet(t) : \E i \in 1 .. Len(t) : d = t[i]
    BY <2>1, ElementsOf
  <2>4. 1 \in 1 .. Len(q)
    BY <2>1
  <2>5. ASSUME NEW i \in 1 .. Len(t), NEW j \in 1 .. Len(t),
               t[i].cmd = "UNWATCH", t[i].cont.file = f,
               t[j].cmd = "UNWATCH", t[j].cont.file = f
        PROVE  i = j
    <3>1. i + 1 = j + 1
      BY <2>1, <2>2, <2>5 DEF OneCommand
    <3> QED
      BY <3>1
  <2>6. ASSUME h.cmd = "UNWATCH", h.cont.file = f, NEW d \in ToSet(t),
               d.cmd = "UNWATCH", d.cont.file = f
        PROVE  FALSE
    <3>1. PICK i \in 1 .. Len(t) : d = t[i]
      BY <2>3
    <3> QED
      BY <2>1, <2>2, <2>4, <2>6, <3>1 DEF OneCommand
  <2> QED
    BY <2>5, <2>6 DEF OneCommand, t, h
<1> QED
  BY <1>1, <1>2

LEMMA OneAnswerOf ==
    ASSUME NEW q \in Seq(Message), NEW f, OneAnswer(q, f)
    PROVE  /\ \A m \in Message :
                 ~Unwatched(m, f) \/ (\A n \in ToSet(q) : ~Unwatched(n, f))
                 => OneAnswer(Append(q, m), f)
           /\ q # <<>> =>
                 /\ OneAnswer(Tail(q), f)
                 /\ Unwatched(Head(q), f) => \A n \in ToSet(Tail(q)) : ~Unwatched(n, f)
<1>1. ASSUME NEW m \in Message,
             ~Unwatched(m, f) \/ (\A n \in ToSet(q) : ~Unwatched(n, f))
      PROVE  OneAnswer(Append(q, m), f)
  <2> DEFINE a == Append(q, m)
  <2>1. /\ Len(q) \in Nat /\ Len(a) = Len(q) + 1
        /\ a[Len(q) + 1] = m /\ \A i \in 1 .. Len(q) : a[i] = q[i]
    BY AppendOf
  <2>2. \A i \in 1 .. Len(q) : q[i] \in ToSet(q)
    BY ElementsOf
  <2> HIDE DEF a
  <2>3. \A i \in 1 .. Len(a) : i = Len(q) + 1 \/ i \in 1 .. Len(q)
    BY <2>1
  <2>4. OneAnswer(a, f)
    BY <1>1, <2>1, <2>2, <2>3 DEF OneAnswer
  <2> QED
    BY <2>4 DEF a
<1>2. ASSUME q # <<>>
      PROVE  /\ OneAnswer(Tail(q), f)
             /\ Unwatched(Head(q), f) => \A n \in ToSet(Tail(q)) : ~Unwatched(n, f)
  <2> DEFINE t == Tail(q)
             h == Head(q)
  <2>1. /\ Len(q) \in Nat \ {0} /\ h = q[1] /\ t \in Seq(Message)
        /\ Len(t) = Len(q) - 1 /\ \A i \in 1 .. Len(t) : t[i] = q[i + 1]
    BY <1>2, TailOf
  <2> HIDE DEF t, h
  <2>2. \A i \in 1 .. Len(t) : i + 1 \in 1 .. Len(q) /\ i + 1 # 1
    BY <2>1
  <2>3. \A d \in ToSet(t) : \E i \in 1 .. Len(t) : d = t[i]
    BY <2>1, ElementsOf
  <2>4. 1 \in 1 .. Len(q)
    BY <2>1
  <2>5. ASSUME NEW i \in 1 .. Len(t), NEW j \in 1 .. Len(t),
               Unwatched(t[i], f), Unwatched(t[j], f)
        PROVE  i = j
    <3>1. i + 1 = j + 1
      BY <2>1, <2>2, <2>5 DEF OneAnswer
    <3> QED
      BY <3>1
  <2>6. ASSUME Unwatched(h, f), NEW d \in ToSet(t), Unwatched(d, f) PROVE FALSE
    <3>1. PICK i \in 1 .. Len(t) : d = t[i]
      BY <2>3
    <3> QED
      BY <2>1, <2>2, <2>4, <2>6, <3>1 DEF OneAnswer
  <2> QED
    BY <2>5, <2>6 DEF OneAnswer, t, h
<1> QED
  BY <1>1, <1>2

\* The helper writes a line.
LEMMA CalmLine ==
    ASSUME Types, UNCHANGED <<watching, user>>, NEW g, NEW m \in Message,
           outq' = Append(outq, m), OneUnwatch(g), Covered(outq, g, watching[g] # "no"),
           EventOf(m, g) => EntryAtEnd(g)
    PROVE  /\ Covered(outq, g, watching[g] # "no")'
           /\ Up(m, g) => EntryAtEnd(g)'
           /\ ~Down(m, g) => (EntryAtEnd(g) => EntryAtEnd(g)')
           /\ ~Unwatched(m, g) => (NoAnswer(g)' <=> NoAnswer(g)) /\ OneAnswer(outq', g)
           /\ NoAnswer(g) => OneAnswer(outq', g)
<1> USE DEF Types, QueueTypes
<1>1. Covered(outq', g, watching[g] # "no")
  BY CoverAdded DEF EntryAtEnd
<1>2. /\ LastUp(outq', g) <=> (Up(m, g) \/ (LastUp(outq, g) /\ ~Down(m, g)))
      /\ NoneDown(outq', g) <=> (NoneDown(outq, g) /\ ~Down(m, g))
  BY LineAdded
<1>3. ToSet(outq') = ToSet(outq) \cup {m}
  BY OutQueue
<1>4. ~Unwatched(m, g) \/ NoAnswer(g) => OneAnswer(outq', g)
  BY OneAnswerOf DEF OneUnwatch, NoAnswer
<1>5. ~Unwatched(m, g) => (NoAnswer(g)' <=> NoAnswer(g))
  BY <1>3 DEF NoAnswer
<1> QED
  BY <1>1, <1>2, <1>4, <1>5 DEF EntryAtEnd

\* Calm in the steps of the file system and the helper.
LEMMA CalmHelper ==
    ASSUME Types, ArmedInv, AgreeInv, \A f \in File : Calm(f), ~setting.mayDelete,
           FileSystem \/ Helper
    PROVE  \A f \in File : Calm(f)'
<1> USE DEF Types
<1>0. UNCHANGED <<watching, notYet, user, cleaner, want>>
  BY DEF FileSystem, Modify, Create, Delete, FileChanges, Helper, CWatch, CUnwatch,
     CPortGet, CEvent, CAssociate, jsVars, userVars
<1>1. SUFFICES ASSUME NEW g \in File
               PROVE  /\ OneUnwatch(g)' /\ (Held(g)' => EntryAtEnd(g)')
                      /\ Covered(outq, g, watching[g] # "no")'
  BY <1>0 DEF Calm, Entitled, IsWatching
<1>2. /\ OneUnwatch(g) /\ (Held(g) => EntryAtEnd(g)) /\ Covered(outq, g, watching[g] # "no")
      /\ OneCommand(cmdq, g) /\ OneAnswer(outq, g)
  BY DEF Calm, OneUnwatch
<1>3. ASSUME UNCHANGED <<cmdq, outq>>, Held(g)' => Held(g)
      PROVE  /\ OneUnwatch(g)' /\ (Held(g)' => EntryAtEnd(g)')
             /\ Covered(outq, g, watching[g] # "no")'
  BY <1>0, <1>2, <1>3 DEF OneUnwatch, NoUnwatchSent, NoAnswer, EntryAtEnd
<1>4. CASE FileSystem \/ CPortGet
  <2>1. UNCHANGED <<cmdq, outq, handle, work>>
    BY <1>4 DEF FileSystem, Modify, Create, Delete, FileChanges, CPortGet, cVars
  <2> QED
    BY <1>3, <2>1 DEF Held, Working
<1>5. CASE CWatch
  <2>1. work = None /\ cmdq # <<>> /\ cmdq' = Tail(cmdq) /\ Head(cmdq).cmd = "WATCH"
    BY <1>5 DEF CWatch
  <2>2. PICK f \in File : f = Head(cmdq).cont.file
    BY <2>1, CommandTaken
  <2>3. PICK c \in WatchCont : c = Head(cmdq).cont
    BY <2>1, CommandTaken
  <2>4. NoUnwatchSent(g)' <=> NoUnwatchSent(g)
    BY <2>1, CommandTaken
  <2>5. OneCommand(cmdq', g)
    BY <1>2, <2>1, OneCommandOf DEF QueueTypes
  <2>6. ASSUME NEW ok \in BOOLEAN, outq' = Append(outq, Response(c, ok)),
               ok = handle[f], UNCHANGED <<handle, work>>
        PROVE  /\ OneUnwatch(g)' /\ (Held(g)' => EntryAtEnd(g)')
               /\ Covered(outq, g, watching[g] # "no")'
    <3>1. PICK m \in Message : m = Response(c, ok)
      BY Made
    <3>2. ~Down(m, g) /\ (Up(m, g) <=> g = f /\ ok) /\ ~EventOf(m, g)
      <4>1. ~Down(Response(c, ok), g) /\ (Up(Response(c, ok), g) <=> g = f /\ ok)
        BY <2>2, <2>3, Meaning
      <4>2. ~EventOf(Response(c, ok), g)
        BY DEF EventOf, Response
      <4> QED
        BY <3>1, <4>1, <4>2
    <3>3. /\ Covered(outq, g, watching[g] # "no")'
          /\ Up(m, g) => EntryAtEnd(g)'
          /\ EntryAtEnd(g) => EntryAtEnd(g)'
          /\ NoAnswer(g)' <=> NoAnswer(g)
          /\ OneAnswer(outq', g)
      BY <1>0, <1>2, <2>6, <3>1, <3>2, CalmLine DEF Down
    <3>4. Held(g)' <=> Held(g)
      BY <2>1, <2>6 DEF Held, Working
    <3> QED
      BY <1>0, <1>2, <2>4, <2>5, <3>3, <3>4 DEF OneUnwatch
  <2>7. ASSUME handle' = [handle EXCEPT ![f] = TRUE], ~handle[f], UNCHANGED outq,
               work' = [by |-> "stdin", file |-> f, ver |-> ver[f],
                        msg |-> Response(c, TRUE)]
        PROVE  /\ OneUnwatch(g)' /\ (Held(g)' => EntryAtEnd(g)')
               /\ Covered(outq, g, watching[g] # "no")'
    <3>1. work' # None /\ work'.file = f /\ work'.by = "stdin"
      BY <2>7 DEF None
    <3>2. Held(g)' => Held(g)
      BY <2>1, <2>7, <3>1 DEF Held, Working, HelperTypes
    <3>3. (EntryAtEnd(g)' <=> EntryAtEnd(g)) /\ (NoAnswer(g)' <=> NoAnswer(g))
      BY <1>0, <2>7 DEF EntryAtEnd, NoAnswer
    <3> QED
      BY <1>0, <1>2, <2>4, <2>5, <2>7, <3>2, <3>3 DEF OneUnwatch
  <2> QED
    BY <1>5, <2>2, <2>3, <2>6, <2>7 DEF CWatch, HelperTypes
<1>6. CASE CUnwatch
  <2>1. work = None /\ cmdq # <<>> /\ cmdq' = Tail(cmdq) /\ Head(cmdq).cmd = "UNWATCH"
        /\ UNCHANGED work
    BY <1>6 DEF CUnwatch
  <2>2. PICK f \in File : f = Head(cmdq).cont.file
    BY <2>1, CommandTaken
  <2>3. PICK c \in UnwatchCont : c = Head(cmdq).cont
    BY <2>1, CommandTaken
  <2>4. PICK ok \in BOOLEAN : outq' = Append(outq, Response(c, ok))
    BY <1>6, <2>3 DEF CUnwatch
  <2>5. PICK m \in Message : m = Response(c, ok)
    BY Made
  <2>6. ~EventOf(m, g) /\ (Down(m, g) <=> g = f) /\ (Unwatched(m, g) <=> g = f)
    <3>1. (Down(Response(c, ok), g) <=> g = f) /\ (Unwatched(Response(c, ok), g) <=> g = f)
      BY <2>2, <2>3, Meaning
    <3>2. ~EventOf(Response(c, ok), g)
      BY DEF EventOf, Response
    <3> QED
      BY <2>5, <3>1, <3>2
  <2>7. /\ Covered(outq, g, watching[g] # "no")'
        /\ ~Down(m, g) => (EntryAtEnd(g) => EntryAtEnd(g)')
        /\ ~Unwatched(m, g) => (NoAnswer(g)' <=> NoAnswer(g)) /\ OneAnswer(outq', g)
        /\ NoAnswer(g) => OneAnswer(outq', g)
    BY <1>0, <1>2, <2>4, <2>5, <2>6, CalmLine
  <2>8. OneCommand(cmdq', g)
    BY <1>2, <2>1, OneCommandOf DEF QueueTypes
  <2>9. CASE g = f
    <3>1. ~Held(g)'
      BY <1>6, <2>2, <2>9 DEF CUnwatch, HelperTypes, Held
    <3>2. ~NoUnwatchSent(g)
      BY <2>1, <2>2, <2>9, ElementsOf DEF NoUnwatchSent, QueueTypes
    <3>3. NoUnwatchSent(g)'
      <4>1. \A d \in ToSet(Tail(cmdq)) : ~(d.cmd = "UNWATCH" /\ d.cont.file = g)
        BY <1>2, <2>1, <2>2, <2>9, OneCommandOf DEF QueueTypes
      <4> QED
        BY <2>1, <4>1 DEF NoUnwatchSent
    <3>4. NoAnswer(g) /\ user[g] = "unwatching"
      BY <1>2, <3>2 DEF OneUnwatch
    <3> QED
      BY <1>0, <2>7, <2>8, <3>1, <3>3, <3>4 DEF OneUnwatch
  <2>10. CASE g # f
    <3>1. NoUnwatchSent(g)' <=> NoUnwatchSent(g)
      BY <2>1, <2>2, <2>10, CommandTaken
    <3>2. Held(g)' <=> Held(g)
      BY <1>6, <2>1, <2>2, <2>10 DEF CUnwatch, HelperTypes, Held, Working
    <3> QED
      BY <1>0, <1>2, <2>6, <2>7, <2>8, <2>10, <3>1, <3>2 DEF OneUnwatch
  <2> QED
    BY <2>9, <2>10
<1>7. CASE CEvent
  <2>1. got # None /\ work = None /\ UNCHANGED cmdq
    BY <1>7 DEF CEvent
  <2>2. PICK f \in File : f = got.file
    BY <2>1, FilesOf
  <2>3. got.ev = "mod" /\ (handle[f] => exists[f])
    BY <2>1 DEF ArmedInv, NoDeletion
  <2>4. UNCHANGED <<handle, outq>>
    BY <1>7, <2>2, <2>3 DEF CEvent
  <2> QED
    BY <1>3, <2>1, <2>4 DEF Held, Working
<1>8. CASE CAssociate
  <2>1. work # None /\ UNCHANGED cmdq /\ work' = None
    BY <1>8 DEF CAssociate
  <2>2. PICK f \in File : f = work.file
    BY <2>1, FilesOf
  <2>3. exists[f] /\ handle[f] /\ work.by \in {"stdin", "port"}
    BY <2>1, <2>2, FilesOf DEF AgreeInv, Working, ArmedInv, NoDeletion
  <2>4. PICK m \in Message : m = work.msg
    BY <2>1, FilesOf
  <2>5. outq' = Append(outq, m) /\ UNCHANGED handle
    BY <1>8, <2>2, <2>3, <2>4 DEF CAssociate
  <2>6. work.by = "stdin" => /\ ~Down(m, g) /\ ~EventOf(m, g)
                             /\ Up(m, f)
    BY <2>1, <2>2, <2>4, FilesOf
       DEF StdinWork, WatchCont, LoopCont, LongCont, Up, Down, Unwatched, EventOf
  <2>7. work.by = "port" => ~Down(m, g) /\ (EventOf(m, g) <=> g = f)
    BY <2>1, <2>2, <2>4, FilesOf DEF PortWork, Down, Unwatched, EventOf
  <2>8. Held(g)' <=> handle[g]
    BY <2>1, <2>5 DEF Held, Working
  <2>9. handle[g] => Held(g) \/ (g = f /\ work.by = "stdin")
    BY <2>1, <2>2, <2>3 DEF Held, Working
  <2>10. EventOf(m, g) => EntryAtEnd(g)
    BY <1>2, <2>3, <2>6, <2>7, <2>9
  <2>11. ~Down(m, g)
    BY <2>3, <2>6, <2>7
  <2>12. /\ Covered(outq, g, watching[g] # "no")'
         /\ Up(m, g) => EntryAtEnd(g)'
         /\ EntryAtEnd(g) => EntryAtEnd(g)'
         /\ NoAnswer(g)' <=> NoAnswer(g)
         /\ OneAnswer(outq', g)
    BY <1>0, <1>2, <2>5, <2>10, <2>11, CalmLine DEF Down
  <2>13. NoUnwatchSent(g)' <=> NoUnwatchSent(g)
    BY <2>1 DEF NoUnwatchSent
  <2> QED
    BY <1>0, <1>2, <2>1, <2>6, <2>8, <2>9, <2>12, <2>13 DEF OneUnwatch
<1> QED
  BY <1>4, <1>5, <1>6, <1>7, <1>8 DEF Helper

\* Commands that do not unwatch change nothing.
LEMMA OneCommandKept ==
    ASSUME Types, NEW g, OneCommand(cmdq, g), EventLoop \/ \E f \in File : Watch(f)
    PROVE  OneCommand(cmdq', g)
<1> USE DEF Types
<1>1. CASE UNCHANGED cmdq
  BY <1>1
<1>2. ASSUME NEW c \in WatchCont, Send("WATCH", c) PROVE OneCommand(cmdq', g)
  <2>1. PICK d \in Command : d = [cmd |-> "WATCH", cont |-> c]
    BY Made
  <2>2. d.cmd # "UNWATCH" /\ cmdq' = Append(cmdq, d)
    BY <1>2, <2>1 DEF Send
  <2> QED
    BY <2>2, OneCommandOf DEF QueueTypes
<1>3. ASSUME NEW f \in File, NEW cb, StartLoop(f, cb) PROVE OneCommand(cmdq', g)
  <2> DEFINE l == Len(loops) + 1
             c == [kind |-> "loop", file |-> f, loop |-> l, o |-> l]
  <2>1. c \in WatchCont
    BY DEF ModuleTypes, WatchCont, LoopCont
  <2> QED
    BY <1>2, <1>3, <2>1 DEF StartLoop
<1>4. ASSUME NEW l \in 1 .. Len(loops), RetryTimeout(l) PROVE OneCommand(cmdq', g)
  <2>1. PICK f \in File : f = loops[l].file
    <3>1. loops[l] \in Loop
      BY DEF ModuleTypes
    <3> QED
      BY <3>1 DEF Loop
  <2>2. CASE notYet[f] # None
    <3> DEFINE c == [kind |-> "loop", file |-> f, loop |-> l, o |-> notYet[f].id]
    <3>1. c \in WatchCont
      BY <2>2 DEF ModuleTypes, Entry, WatchCont, LoopCont
    <3>2. UNCHANGED cmdq \/ Send("WATCH", c)
      BY <1>4, <2>1 DEF RetryTimeout
    <3> QED
      BY <1>1, <1>2, <3>1, <3>2
  <2>3. CASE notYet[f] = None
    BY <1>1, <1>4, <2>1, <2>3 DEF RetryTimeout
  <2> QED
    BY <2>2, <2>3
<1>5. CASE LongInterval
  <2> DEFINE S == {f \in File : notYet[f] # None /\ notYet[f].long}
             F == SetToSeq(S)
             r == [i \in 1 .. Len(F) |->
                      [cmd |-> "WATCH", cont |-> [kind |-> "long", file |-> F[i]]]]
  <2>1. F \in Seq(File)
    BY Listed
  <2> HIDE DEF F
  <2>2. r \in Seq(Command) /\ \A i \in 1 .. Len(r) : r[i].cmd = "WATCH"
    BY <2>1, LongCommands
  <2>3. cmdq' = cmdq \o r
    BY <1>5 DEF LongInterval, F
  <2> HIDE DEF r
  <2>4. /\ Len(cmdq') = Len(cmdq) + Len(r) /\ Len(cmdq) \in Nat /\ Len(r) \in Nat
        /\ \A i \in 1 .. Len(cmdq) : cmdq'[i] = cmdq[i]
        /\ \A i \in 1 .. Len(r) : cmdq'[Len(cmdq) + i] = r[i]
    BY <2>2, <2>3, ConcatOf DEF QueueTypes
  <2>5. ASSUME NEW i \in 1 .. Len(cmdq'), cmdq'[i].cmd = "UNWATCH" PROVE i \in 1 .. Len(cmdq)
    <3>1. CASE i > Len(cmdq)
      <4>1. i - Len(cmdq) \in 1 .. Len(r) /\ Len(cmdq) + (i - Len(cmdq)) = i
        BY <2>4, <3>1
      <4>2. cmdq'[i] = r[i - Len(cmdq)]
        BY <2>4, <4>1
      <4> QED
        BY <2>2, <2>5, <4>1, <4>2
    <3> QED
      BY <2>4, <3>1
  <2> QED
    BY <2>4, <2>5 DEF OneCommand
<1>6. CASE HandleEvent
  <2>1. PICK f \in File : f = Head(outq).file
    BY <1>6, OutQueue, FilesOf DEF HandleEvent
  <2> QED
    BY <1>1, <1>3, <1>6, <2>1 DEF HandleEvent
<1>7. CASE \E f \in File : Watch(f)
  BY <1>1, <1>3, <1>7 DEF Watch
<1> QED
  BY <1>1, <1>4, <1>5, <1>6, <1>7
     DEF EventLoop, LoopResponse, LongResponse, UnwatchResponse, HandleError

\* The module reads a line.
LEMMA CalmRead ==
    ASSUME Types, NEW g, outq # <<>>, outq' = Tail(outq), Calm(g), UNCHANGED <<handle, work>>,
           Up(Head(outq), g) => watching'[g] # "no",
           watching[g] # "no" /\ ~Down(Head(outq), g) => watching'[g] # "no"
    PROVE  /\ Covered(outq, g, watching[g] # "no")'
           /\ Held(g)' => EntryAtEnd(g)'
           /\ EventOf(Head(outq), g) => watching[g] # "no"
           /\ NoAnswer(g) => NoAnswer(g)'
           /\ Unwatched(Head(outq), g) => NoAnswer(g)' /\ ~NoAnswer(g)
           /\ OneAnswer(outq', g)
<1> USE DEF Types, QueueTypes
<1>1. /\ Covered(outq', g, watching'[g] # "no")
      /\ EventOf(Head(outq), g) => watching[g] # "no"
  BY CoverTaken DEF Calm
<1>2. /\ LastUp(outq, g) <=> (LastUp(outq', g) \/ (Up(Head(outq), g) /\ NoneDown(outq', g)))
      /\ NoneDown(outq, g) <=> (NoneDown(outq', g) /\ ~Down(Head(outq), g))
  BY LineTaken
<1>3. EntryAtEnd(g) => EntryAtEnd(g)'
  BY <1>2 DEF EntryAtEnd
<1>4. Held(g)' <=> Held(g)
  BY DEF Held, Working
<1>5. /\ OneAnswer(outq', g)
      /\ Unwatched(Head(outq), g) => \A n \in ToSet(outq') : ~Unwatched(n, g)
  BY OneAnswerOf DEF Calm, OneUnwatch
<1>6. Head(outq) \in ToSet(outq) /\ ToSet(outq) = {Head(outq)} \cup ToSet(outq')
  BY OutQueue
<1> QED
  BY <1>1, <1>3, <1>4, <1>5, <1>6 DEF Calm, NoAnswer

\* An entry of not_yet_watching stays when a field of it is set.
LEMMA StillAwaited ==
    ASSUME Types, NEW f \in File, notYet[f] # None, NEW t \in Nat, NEW n \in Nat
    PROVE  /\ [notYet EXCEPT ![f].timer = t][f] # None
           /\ [notYet EXCEPT ![f].timer = t, ![f].long = TRUE][f] # None
           /\ [notYet EXCEPT ![f].tries = n, ![f].timer = t][f] # None
<1>1. notYet[f] \in Entry
  BY DEF Types, ModuleTypes
<1>2. /\ [notYet[f] EXCEPT !.timer = t] \in Entry
      /\ [notYet[f] EXCEPT !.timer = t, !.long = TRUE] \in Entry
      /\ [notYet[f] EXCEPT !.tries = n, !.timer = t] \in Entry
  BY <1>1 DEF Entry
<1>3. /\ [notYet EXCEPT ![f].timer = t][f] = [notYet[f] EXCEPT !.timer = t]
      /\ [notYet EXCEPT ![f].timer = t, ![f].long = TRUE][f]
            = [notYet[f] EXCEPT !.timer = t, !.long = TRUE]
      /\ [notYet EXCEPT ![f].tries = n, ![f].timer = t][f]
            = [notYet[f] EXCEPT !.tries = n, !.timer = t]
  BY DEF Types, ModuleTypes
<1> QED
  BY <1>2, <1>3, NotNone

\* Answers to a WATCH and timers keep what is watched or awaited.
LEMMA StillWatching ==
    ASSUME Types, LoopInv,
           LoopResponse \/ LongResponse \/ \E l \in 1 .. Len(loops) : RetryTimeout(l)
    PROVE  \A g \in File : IsWatching(g) => IsWatching(g)'
<1> USE DEF Types
<1>1. ASSUME NEW l \in 1 .. Len(loops), RetryTimeout(l), NEW g \in File, IsWatching(g)
      PROVE  IsWatching(g)'
  <2>1. PICK f \in File : f = loops[l].file
    <3>1. loops[l] \in Loop
      BY DEF ModuleTypes
    <3> QED
      BY <3>1 DEF Loop
  <2>2. UNCHANGED watching
    BY <1>1 DEF RetryTimeout
  <2>3. \A h \in File \ {f} : notYet'[h] = notYet[h]
    BY <1>1, <2>1 DEF RetryTimeout, ModuleTypes
  <2>4. notYet[f] # None => notYet'[f] # None
    <3>1. ASSUME notYet[f] # None
          PROVE  /\ [notYet EXCEPT ![f].timer = 0][f] # None
                 /\ [notYet EXCEPT ![f].timer = 0, ![f].long = TRUE][f] # None
      BY <3>1, StillAwaited
    <3> QED
      BY <1>1, <2>1, <3>1 DEF RetryTimeout
  <2> QED
    BY <1>1, <2>2, <2>3, <2>4 DEF IsWatching
<1>2. ASSUME LoopResponse \/ LongResponse, NEW g \in File, IsWatching(g) PROVE IsWatching(g)'
  <2>1. outq # <<>> /\ Head(outq).type = "response" /\ Head(outq).cont.kind \in {"loop", "long"}
    BY <1>2 DEF LoopResponse, LongResponse
  <2>2. PICK m \in ToSet(outq) : m = Head(outq)
    BY <2>1, OutQueue
  <2>3. PICK f \in File : f = m.cont.file
    BY <2>1, <2>2, FilesOf
  <2>4. CASE m.ok
    <3>1. watching' = [watching EXCEPT ![f] = "active"] /\ notYet' = [notYet EXCEPT ![f] = None]
      BY <1>2, <2>2, <2>3, <2>4 DEF LoopResponse, LongResponse
    <3> QED
      BY <1>2, <3>1 DEF IsWatching, ModuleTypes
  <2>5. CASE ~m.ok /\ LongResponse
    BY <1>2, <2>2, <2>5 DEF LongResponse, IsWatching
  <2>6. CASE ~m.ok /\ LoopResponse
    <3>1. PICK l \in 1 .. Len(loops) : l = m.cont.loop
      BY <2>1, <2>2, <2>6 DEF LoopResponse, LoopInv, LoopsKnown, Known
    <3>2. UNCHANGED watching
          /\ notYet' = IF notYet[f] # None /\ notYet[f].id = m.cont.o
                       THEN [notYet EXCEPT ![f].tries = notYet[f].tries + 1, ![f].timer = l]
                       ELSE notYet
      BY <2>2, <2>3, <2>6, <3>1 DEF LoopResponse
    <3>3. \A h \in File \ {f} : notYet'[h] = notYet[h]
      BY <3>2 DEF ModuleTypes
    <3>4. notYet[f] # None => notYet'[f] # None
      <4>1. ASSUME notYet[f] # None
            PROVE  [notYet EXCEPT ![f].tries = notYet[f].tries + 1, ![f].timer = l][f] # None
        <5>1. notYet[f].tries + 1 \in Nat /\ l \in Nat
          BY <4>1 DEF ModuleTypes, Entry
        <5> QED
          BY <4>1, <5>1, StillAwaited
      <4> QED
        BY <3>2, <4>1
    <3> QED
      BY <1>2, <3>2, <3>3, <3>4 DEF IsWatching
  <2> QED
    BY <1>2, <2>4, <2>5, <2>6
<1> QED
  BY <1>1, <1>2

\* FirstTry in a step that only goes on with a loop.
LEMMA FirstTryKept ==
    ASSUME Types, FirstTry, NEW l, NEW p \in {"sent", "timer", "done"},
           \/ loops' = [loops EXCEPT ![l].pc = p]
           \/ loops' = [loops EXCEPT ![l].pc = p, ![l].initial = FALSE]
           \/ loops' = loops,
           \A g \in File : user[g] = "watching" =>
              \/ user'[g] = "watching"
              \/ /\ l \in 1 .. Len(loops) /\ loops[l].initial /\ loops[l].file = g
                 /\ loops' = [loops EXCEPT ![l].pc = p, ![l].initial = FALSE]
    PROVE  FirstTry'
<1>1. /\ Len(loops') = Len(loops)
      /\ \A k \in 1 .. Len(loops) : /\ loops'[k].file = loops[k].file
                                    /\ loops'[k].initial => loops[k].initial
  <2>1. CASE loops' = loops
    BY <2>1
  <2>2. CASE loops' = [loops EXCEPT ![l].pc = p]
    <3>1. /\ Len(loops') = Len(loops)
          /\ \A k \in 1 .. Len(loops) : /\ loops'[k].file = loops[k].file
                                        /\ loops'[k].initial = loops[k].initial
      BY <2>2, LoopUpdate DEF Types
    <3> QED
      BY <3>1
  <2>3. CASE loops' = [loops EXCEPT ![l].pc = p, ![l].initial = FALSE]
    <3>1. /\ Len(loops') = Len(loops)
          /\ \A k \in 1 .. Len(loops) :
                /\ loops'[k].file = loops[k].file
                /\ loops'[k].initial => k # l /\ loops[k].initial
      BY <2>3, LoopUpdate DEF Types
    <3> QED
      BY <3>1
  <2> QED
    BY <2>1, <2>2, <2>3
<1>2. loops' = [loops EXCEPT ![l].pc = p, ![l].initial = FALSE] =>
          \A k \in 1 .. Len(loops) : k = l => ~loops'[k].initial
  BY LoopUpdate DEF Types
<1>3. \A k \in 1 .. Len(loops) : loops[k].file \in File
  <2>1. \A k \in 1 .. Len(loops) : loops[k] \in Loop
    BY DEF Types, ModuleTypes
  <2> QED
    BY <2>1 DEF Loop
<1>4. ASSUME NEW k \in 1 .. Len(loops), loops'[k].initial
      PROVE  user'[loops[k].file] = "watching"
  BY <1>1, <1>2, <1>3, <1>4 DEF FirstTry
<1> QED
  BY <1>1, <1>4 DEF FirstTry

\* CalmInv in the steps of the module ...
LEMMA CalmEventLoop ==
    ASSUME Types, ArmedInv, LoopInv, CalmInv, ~setting.mayDelete, ~setting.cleaner, EventLoop
    PROVE  ~crashed' /\ FirstTry' /\ \A g \in File : Calm(g)'
<1> USE DEF Types
<1>0. ~crashed /\ FirstTry /\ \A g \in File : Calm(g)
  BY DEF CalmInv
<1>1. UNCHANGED <<handle, work, want>> /\ \A g \in File : cleaner'[g] = "idle"
  <2>1. UNCHANGED <<handle, work, want>>
    BY DEF EventLoop, RetryTimeout, LongInterval, LoopResponse, LongResponse,
       UnwatchResponse, HandleEvent, HandleError, cVars, userVars
  <2>2. \A g \in File : cleaner[g] = "idle"
    BY <1>0 DEF Calm, Entitled
  <2>3. UNCHANGED cleaner \/ UnwatchResponse
    BY DEF EventLoop, RetryTimeout, LongInterval, LoopResponse, LongResponse,
       HandleEvent, HandleError, userVars
  <2>4. UnwatchResponse => \A g \in File : cleaner'[g] = "idle"
    BY <2>2 DEF UnwatchResponse, ConsumerTypes
  <2> QED
    BY <2>1, <2>2, <2>3, <2>4
<1>2. \A g \in File : OneCommand(cmdq', g) /\ (NoUnwatchSent(g)' <=> NoUnwatchSent(g))
  <2>1. \A g \in File : OneCommand(cmdq', g)
    BY <1>0, OneCommandKept DEF Calm, OneUnwatch
  <2> QED
    BY <2>1, EventLoopSends DEF SendsWatches, WatchSent, NoUnwatchSent
<1>3. ASSUME NEW g \in File, UNCHANGED <<outq, watching, user>>, IsWatching(g) => IsWatching(g)'
      PROVE  Calm(g)'
  <2>1. Held(g)' <=> Held(g)
    BY <1>1 DEF Held, Working
  <2>2. (EntryAtEnd(g)' <=> EntryAtEnd(g)) /\ (NoAnswer(g)' <=> NoAnswer(g))
    BY <1>3 DEF EntryAtEnd, NoAnswer
  <2>3. OneUnwatch(g)'
    BY <1>0, <1>2, <1>3, <2>2 DEF Calm, OneUnwatch
  <2>4. Entitled(g)'
    BY <1>0, <1>1, <1>3 DEF Calm, Entitled
  <2> QED
    BY <1>0, <1>3, <2>1, <2>2, <2>3, <2>4 DEF Calm
<1>4. ASSUME NEW l \in 1 .. Len(loops), RetryTimeout(l)
      PROVE  ~crashed' /\ FirstTry' /\ \A g \in File : Calm(g)'
  <2>1. UNCHANGED <<outq, watching, user, crashed>>
    BY <1>4 DEF RetryTimeout, userVars
  <2>2. \A g \in File : IsWatching(g) => IsWatching(g)'
    BY <1>4, StillWatching
  <2>3. FirstTry'
    <3>1. PICK p \in {"sent", "timer", "done"} : loops' = [loops EXCEPT ![l].pc = p]
      BY <1>4 DEF RetryTimeout
    <3> QED
      BY <1>0, <2>1, <3>1, FirstTryKept
  <2> QED
    BY <1>0, <1>3, <2>1, <2>2, <2>3
<1>5. CASE LongInterval
  <2>1. UNCHANGED <<outq, watching, user, crashed, notYet, loops>>
    BY <1>5 DEF LongInterval, userVars
  <2>2. FirstTry'
    BY <1>0, <2>1 DEF FirstTry
  <2> QED
    BY <1>0, <1>3, <2>1, <2>2 DEF IsWatching
<1>6. CASE LoopResponse \/ LongResponse
  <2>1. /\ outq # <<>> /\ outq' = Tail(outq) /\ Head(outq).type = "response"
        /\ Head(outq).cont.kind \in {"loop", "long"} /\ UNCHANGED crashed
    BY <1>6 DEF LoopResponse, LongResponse
  <2>2. PICK m \in ToSet(outq) : m = Head(outq)
    BY <2>1, OutQueue
  <2>3. PICK f \in File : f = m.cont.file
    BY <2>1, <2>2, FilesOf
  <2>4. m.ok \in BOOLEAN
    BY <2>1, <2>2, FilesOf DEF Message
  <2>5. \A g \in File : ~Down(m, g) /\ ~Unwatched(m, g) /\ (Up(m, g) => g = f /\ m.ok)
    BY <2>1, <2>2, <2>3, <2>4 DEF Up, Down, Unwatched
  <2>6. \A g \in File : watching'[g] = IF g = f /\ m.ok THEN "active" ELSE watching[g]
    BY ZenonT(60), <1>6, <2>2, <2>3, <2>4 DEF LoopResponse, LongResponse, ModuleTypes
  <2>7. \A g \in File : /\ Covered(outq, g, watching[g] # "no")'
                        /\ Held(g)' => EntryAtEnd(g)'
                        /\ NoAnswer(g) => NoAnswer(g)'
                        /\ OneAnswer(outq', g)
    <3> TAKE g \in File
    <3>1. /\ Up(Head(outq), g) => watching'[g] # "no"
          /\ watching[g] # "no" /\ ~Down(Head(outq), g) => watching'[g] # "no"
      BY <2>2, <2>5, <2>6
    <3> QED
      BY <1>0, <1>1, <2>1, <3>1, CalmRead
  <2>8. /\ FirstTry'
        /\ \A g \in File : \/ user'[g] = user[g]
                           \/ user[g] = "watching" /\ user'[g] = "idle"
    <3>1. CASE LongResponse
      <4>1. UNCHANGED <<loops, user>>
        BY <3>1 DEF LongResponse, userVars
      <4>2. FirstTry'
        BY <1>0, <4>1 DEF FirstTry
      <4> QED
        BY <4>1, <4>2
    <3>2. CASE LoopResponse
      <4>1. PICK l \in 1 .. Len(loops) : l = m.cont.loop
        BY <2>1, <2>2, <3>2 DEF LoopResponse, LoopInv, LoopsKnown, Known
      <4>2. PICK p \in {"sent", "timer", "done"} :
                loops' = [loops EXCEPT ![l].pc = p, ![l].initial = FALSE]
        BY <2>2, <3>2, <4>1 DEF LoopResponse
      <4>3. \/ UNCHANGED user
            \/ loops[l].initial /\ user' = [user EXCEPT ![loops[l].file] = "idle"]
        BY <2>2, <3>2, <4>1 DEF LoopResponse, CallBack
      <4>4. loops[l].initial => user[loops[l].file] = "watching"
        BY <1>0 DEF FirstTry
      <4>5. \A g \in File : user'[g] = user[g] \/ /\ user[g] = "watching" /\ user'[g] = "idle"
                                                  /\ loops[l].initial /\ loops[l].file = g
        BY <4>3, <4>4 DEF ConsumerTypes
      <4>6. FirstTry'
        BY ZenonT(60), <1>0, <4>2, <4>5, FirstTryKept
      <4> QED
        BY <4>5, <4>6
    <3> QED
      BY <1>6, <3>1, <3>2
  <2>9. \A g \in File : IsWatching(g) => IsWatching(g)'
    BY <1>6, StillWatching
  <2>10. \A g \in File : OneUnwatch(g)'
    BY <1>0, <1>2, <2>7, <2>8 DEF Calm, OneUnwatch
  <2>11. \A g \in File : Entitled(g)'
    <3> SUFFICES ASSUME NEW g \in File PROVE Entitled(g)'
      OBVIOUS
    <3>1. watching'[g] = "inactive" => watching[g] = "inactive"
      BY <2>6
    <3> QED
      BY <1>0, <1>1, <2>8, <2>9, <3>1 DEF Calm, Entitled
  <2> QED
    BY <1>0, <2>1, <2>7, <2>8, <2>10, <2>11 DEF Calm
<1>7. CASE UnwatchResponse
  <2>1. /\ outq # <<>> /\ outq' = Tail(outq) /\ Head(outq).type = "response"
        /\ Head(outq).cont.kind \in {"user", "cleaner"} /\ UNCHANGED <<crashed, loops, notYet>>
    BY <1>7 DEF UnwatchResponse
  <2>2. PICK m \in ToSet(outq) : m = Head(outq)
    BY <2>1, OutQueue
  <2>3. PICK f \in File : f = m.cont.file
    BY <2>1, <2>2, FilesOf
  <2>4. \A g \in File : ~Up(m, g) /\ (Unwatched(m, g) <=> g = f) /\ (Down(m, g) <=> g = f)
    BY <2>1, <2>2, <2>3 DEF Up, Down, Unwatched
  <2>5. \A g \in File : watching'[g] = IF g = f THEN "no" ELSE watching[g]
    BY <1>7, <2>2, <2>3 DEF UnwatchResponse, ModuleTypes
  <2>6. /\ user'[f] \in {user[f], "idle"}
        /\ \A g \in File \ {f} : user'[g] = user[g]
    BY <1>7, <2>2, <2>3 DEF UnwatchResponse, ConsumerTypes
  <2>7. \A g \in File : /\ Covered(outq, g, watching[g] # "no")'
                        /\ Held(g)' => EntryAtEnd(g)'
                        /\ NoAnswer(g) => NoAnswer(g)'
                        /\ Unwatched(Head(outq), g) => NoAnswer(g)' /\ ~NoAnswer(g)
                        /\ OneAnswer(outq', g)
    <3> TAKE g \in File
    <3>1. /\ Up(Head(outq), g) => watching'[g] # "no"
          /\ watching[g] # "no" /\ ~Down(Head(outq), g) => watching'[g] # "no"
      BY <2>2, <2>4, <2>5
    <3> QED
      BY <1>0, <1>1, <2>1, <3>1, CalmRead
  <2>8. ~NoAnswer(f) /\ NoAnswer(f)'
    BY <2>2, <2>4, <2>7
  <2>9. user[f] = "unwatching" /\ NoUnwatchSent(f) /\ ~want[f]
    BY <1>0, <2>8 DEF Calm, OneUnwatch, Entitled
  <2>10. OneUnwatch(f)'
    BY <1>2, <2>7, <2>8, <2>9 DEF OneUnwatch
  <2>11. \A g \in File \ {f} : OneUnwatch(g)'
    BY <1>0, <1>2, <2>6, <2>7 DEF Calm, OneUnwatch
  <2>12. Entitled(f)'
    BY <1>0, <1>1, <2>5, <2>6, <2>9 DEF Calm, Entitled
  <2>13. \A g \in File \ {f} : Entitled(g)'
    BY <1>0, <1>1, <2>1, <2>5, <2>6 DEF Calm, Entitled, IsWatching
  <2>14. FirstTry'
    <3>1. \A g \in File : user[g] = "watching" => user'[g] = "watching"
      BY <2>6, <2>9
    <3>2. \A k \in 1 .. Len(loops) : loops[k].file \in File
      <4>1. \A k \in 1 .. Len(loops) : loops[k] \in Loop
        BY DEF ModuleTypes
      <4> QED
        BY <4>1 DEF Loop
    <3> QED
      BY <1>0, <2>1, <3>1, <3>2 DEF FirstTry
  <2> QED
    BY <1>0, <2>1, <2>7, <2>10, <2>11, <2>12, <2>13, <2>14 DEF Calm
<1>8. CASE HandleEvent
  <2>1. outq # <<>> /\ outq' = Tail(outq) /\ Head(outq).type = "event" /\ UNCHANGED user
    BY <1>8 DEF HandleEvent, userVars
  <2>2. PICK m \in ToSet(outq) : m = Head(outq)
    BY <2>1, OutQueue
  <2>3. PICK f \in File : f = m.file
    BY <2>1, <2>2, FilesOf
  <2>4. ~m.final
    <3>1. Tame(Head(outq))
      BY <2>1, TameOf DEF ArmedInv, NoDeletion, QueueTypes
    <3> QED
      BY <2>1, <2>2, <3>1 DEF Tame
  <2>5. EventOf(m, f) /\ \A g \in File : ~Up(m, g) /\ ~Down(m, g)
    BY <2>1, <2>2, <2>3, <2>4 DEF EventOf, Up, Down, Unwatched
  <2>6. UNCHANGED <<watching, notYet, loops>>
    BY <1>8, <2>2, <2>4 DEF HandleEvent
  <2>7. \A g \in File : /\ Covered(outq, g, watching[g] # "no")'
                        /\ Held(g)' => EntryAtEnd(g)'
                        /\ EventOf(Head(outq), g) => watching[g] # "no"
                        /\ NoAnswer(g) => NoAnswer(g)'
                        /\ OneAnswer(outq', g)
    <3> TAKE g \in File
    <3>1. /\ Up(Head(outq), g) => watching'[g] # "no"
          /\ watching[g] # "no" /\ ~Down(Head(outq), g) => watching'[g] # "no"
      BY <2>2, <2>5, <2>6
    <3> QED
      BY <1>0, <1>1, <2>1, <3>1, CalmRead
  <2>8. UNCHANGED crashed
    BY <1>8, <2>2, <2>3, <2>5, <2>7 DEF HandleEvent
  <2>9. \A g \in File : OneUnwatch(g)' /\ Entitled(g)'
    BY <1>0, <1>1, <1>2, <2>1, <2>6, <2>7 DEF Calm, OneUnwatch, Entitled, IsWatching
  <2>10. FirstTry'
    BY <1>0, <2>1, <2>6 DEF FirstTry
  <2> QED
    BY <1>0, <2>7, <2>8, <2>9, <2>10 DEF Calm
<1>9. CASE HandleError
  <2>1. outq # <<>> /\ Head(outq).type = "error"
    BY <1>9 DEF HandleError
  <2>2. Tame(Head(outq))
    BY <2>1, TameOf DEF ArmedInv, NoDeletion, QueueTypes
  <2> QED
    BY <2>1, <2>2 DEF Tame
<1> QED
  BY <1>4, <1>5, <1>6, <1>7, <1>8, <1>9 DEF EventLoop

\* ... and of the consumer.
LEMMA CalmConsumer ==
    ASSUME Types, CalmInv, ~setting.mayDelete, ~setting.cleaner, Consumer
    PROVE  ~crashed' /\ FirstTry' /\ \A g \in File : Calm(g)'
<1> USE DEF Types
<1>0. ~crashed /\ FirstTry /\ \A g \in File : Calm(g)
  BY DEF CalmInv
<1>1. UNCHANGED <<handle, work, outq>>
  BY DEF Consumer, Watch, Forget, Unwatch, CleanerFind, CleanerUnwatch, cVars
<1>2. \A g \in File : (Held(g)' <=> Held(g)) /\ (NoAnswer(g)' <=> NoAnswer(g))
  BY <1>1 DEF Held, Working, NoAnswer
<1>3. ASSUME NEW g \in File, watching'[g] # "no" <=> watching[g] # "no",
             OneUnwatch(g)', Entitled(g)'
      PROVE  Calm(g)'
  <2>1. EntryAtEnd(g)' <=> EntryAtEnd(g)
    BY <1>1, <1>3 DEF EntryAtEnd
  <2>2. (watching'[g] # "no") = (watching[g] # "no")
    BY <1>3
  <2>3. Covered(outq, g, watching[g] # "no")'
    BY <1>0, <1>1, <2>2 DEF Calm
  <2> QED
    BY <1>0, <1>2, <1>3, <2>1, <2>3 DEF Calm
<1>4. ASSUME UNCHANGED cmdq
      PROVE  \A g \in File : OneCommand(cmdq', g) /\ (NoUnwatchSent(g)' <=> NoUnwatchSent(g))
  BY <1>0, <1>4 DEF Calm, OneUnwatch, NoUnwatchSent
<1>5. \A k \in 1 .. Len(loops) : loops[k].file \in File
  <2>1. \A k \in 1 .. Len(loops) : loops[k] \in Loop
    BY DEF ModuleTypes
  <2> QED
    BY <2>1 DEF Loop
<1>6. ASSUME NEW f \in File, Watch(f)
      PROVE  ~crashed' /\ FirstTry' /\ \A g \in File : Calm(g)'
  <2>1. /\ user[f] = "idle" /\ ~want[f] /\ want' = [want EXCEPT ![f] = TRUE]
        /\ UNCHANGED <<watching, crashed, cleaner>>
    BY <1>6 DEF Watch
  <2>2. \A g \in File : OneCommand(cmdq', g) /\ (NoUnwatchSent(g)' <=> NoUnwatchSent(g))
    <3>1. \A g \in File : OneCommand(cmdq', g)
      BY <1>0, <1>6, OneCommandKept DEF Calm, OneUnwatch
    <3>2. CASE StartLoop(f, TRUE)
      BY <3>1, <3>2, StartLoopSends DEF SendsWatches, WatchSent, NoUnwatchSent
    <3> QED
      BY <1>4, <1>6, <3>2 DEF Watch
  <2>3. \A g \in File \ {f} : user'[g] = user[g] /\ notYet'[g] = notYet[g] /\ want'[g] = want[g]
    BY <1>6, <2>1 DEF Watch, StartLoop, ModuleTypes, ConsumerTypes
  <2>4. user'[f] \in {"idle", "watching"} /\ IsWatching(f)'
    <3>1. CASE IsWatching(f)
      BY <1>6, <2>1, <3>1 DEF Watch, IsWatching
    <3>2. CASE ~IsWatching(f)
      <4>1. StartLoop(f, TRUE) /\ user' = [user EXCEPT ![f] = "watching"]
        BY <1>6, <3>2 DEF Watch
      <4> DEFINE l == Len(loops) + 1
                 e == [id |-> l, tries |-> 0, timer |-> 0, long |-> FALSE]
      <4>2. e \in Entry
        BY DEF ModuleTypes, Entry
      <4>3. notYet'[f] = e
        BY <4>1 DEF StartLoop, ModuleTypes
      <4>4. notYet'[f] # None
        BY <4>2, <4>3, NotNone
      <4> QED
        BY <4>1, <4>4 DEF IsWatching, ConsumerTypes
    <3> QED
      BY <3>1, <3>2
  <2>5. \A g \in File : OneUnwatch(g)'
    BY <1>0, <1>1, <1>2, <2>1, <2>2, <2>3, <2>4 DEF Calm, OneUnwatch
  <2>6. Entitled(f)'
    BY <1>0, <2>1, <2>4 DEF Calm, Entitled
  <2>7. \A g \in File \ {f} : Entitled(g)'
    BY <1>0, <2>1, <2>3 DEF Calm, Entitled, IsWatching
  <2>8. FirstTry'
    <3>1. CASE UNCHANGED <<user, loops>>
      BY <1>0, <3>1 DEF FirstTry
    <3>2. CASE StartLoop(f, TRUE) /\ user' = [user EXCEPT ![f] = "watching"]
      <4> DEFINE e == [file |-> f, pc |-> "sent", initial |-> TRUE, cb |-> TRUE]
      <4>1. e \in Loop /\ e.file = f
        BY DEF Loop
      <4>2. loops' = Append(loops, e)
        BY <3>2 DEF StartLoop
      <4> HIDE DEF e
      <4>3. /\ Len(loops) \in Nat /\ Len(loops') = Len(loops) + 1
            /\ loops'[Len(loops) + 1] = e
            /\ \A k \in 1 .. Len(loops) : loops'[k] = loops[k]
        BY <4>1, <4>2, AppendOf DEF ModuleTypes
      <4>4. \A k \in 1 .. Len(loops') : k = Len(loops) + 1 \/ k \in 1 .. Len(loops)
        BY <4>3
      <4>5. \A k \in 1 .. Len(loops) : loops[k].initial => loops[k].file # f
        BY <1>0, <2>1 DEF FirstTry
      <4>6. user'[f] = "watching" /\ \A g \in File \ {f} : user'[g] = user[g]
        BY <3>2 DEF ConsumerTypes
      <4>7. \A k \in 1 .. Len(loops') : loops'[k].initial => user'[loops'[k].file] = "watching"
        BY <1>0, <1>5, <4>1, <4>3, <4>4, <4>6 DEF FirstTry
      <4>8. ASSUME NEW k \in 1 .. Len(loops'), NEW j \in 1 .. Len(loops'),
                   loops'[k].initial, loops'[j].initial, loops'[k].file = loops'[j].file
            PROVE  k = j
        <5>1. CASE k = Len(loops) + 1 /\ j \in 1 .. Len(loops)
          BY <4>1, <4>3, <4>5, <4>8, <5>1
        <5>2. CASE j = Len(loops) + 1 /\ k \in 1 .. Len(loops)
          BY <4>1, <4>3, <4>5, <4>8, <5>2
        <5>3. CASE j \in 1 .. Len(loops) /\ k \in 1 .. Len(loops)
          BY <1>0, <4>3, <4>8, <5>3 DEF FirstTry
        <5> QED
          BY <4>4, <5>1, <5>2, <5>3
      <4> QED
        BY <4>7, <4>8 DEF FirstTry
    <3> QED
      BY <1>6, <3>1, <3>2 DEF Watch
  <2> QED
    BY <1>0, <1>3, <2>1, <2>5, <2>6, <2>7, <2>8
<1>7. ASSUME NEW f \in File, Forget(f)
      PROVE  ~crashed' /\ FirstTry' /\ \A g \in File : Calm(g)'
  <2>1. /\ user[f] = "idle" /\ want[f] /\ UNCHANGED <<cmdq, jsVars, cleaner>>
        /\ want' = [want EXCEPT ![f] = FALSE] /\ user' = [user EXCEPT ![f] = "dropping"]
    BY <1>7 DEF Forget
  <2>2. /\ user'[f] = "dropping" /\ ~want'[f]
        /\ \A g \in File \ {f} : user'[g] = user[g] /\ want'[g] = want[g]
    BY <2>1 DEF ConsumerTypes
  <2>3. UNCHANGED <<watching, notYet, loops, crashed>>
    BY <2>1 DEF jsVars
  <2>4. \A g \in File : OneUnwatch(g)'
    BY <1>0, <1>1, <1>2, <1>4, <2>1, <2>2 DEF Calm, OneUnwatch
  <2>5. Entitled(f)'
    BY <1>0, <2>1, <2>2, <2>3 DEF Calm, Entitled, IsWatching
  <2>6. \A g \in File \ {f} : Entitled(g)'
    BY <1>0, <2>1, <2>2, <2>3 DEF Calm, Entitled, IsWatching
  <2>7. FirstTry'
    BY <1>0, <1>5, <2>1, <2>2, <2>3 DEF FirstTry
  <2> QED
    BY <1>0, <1>3, <2>3, <2>4, <2>5, <2>6, <2>7
<1>8. ASSUME NEW f \in File, Unwatch(f)
      PROVE  ~crashed' /\ FirstTry' /\ \A g \in File : Calm(g)'
  <2>1. PICK done \in BOOLEAN :
            /\ UnwatchCall(f, "user", done)
            /\ user' = [user EXCEPT ![f] = IF done THEN "idle" ELSE "unwatching"]
    BY <1>8 DEF Unwatch
  <2>2. user[f] = "dropping" /\ UNCHANGED <<want, cleaner>>
    BY <1>8 DEF Unwatch
  <2>3. /\ IsWatching(f) /\ ~want[f] /\ watching[f] # "inactive"
        /\ NoUnwatchSent(f) /\ NoAnswer(f)
    BY <1>0, <2>2 DEF Calm, Entitled, OneUnwatch
  <2>4. /\ user'[f] = IF done THEN "idle" ELSE "unwatching"
        /\ \A g \in File \ {f} : user'[g] = user[g]
    BY <2>1 DEF ConsumerTypes
  <2>5. FirstTry'
    <3>1. \A g \in File : user[g] = "watching" => user'[g] = "watching"
      BY <2>2, <2>4
    <3>2. CASE loops' = loops
      BY <1>0, <1>5, <3>1, <3>2 DEF FirstTry
    <3>3. CASE loops' = [loops EXCEPT ![notYet[f].timer].pc = "done"]
      BY <1>0, <3>1, <3>3, FirstTryKept
    <3> QED
      BY <2>1, <3>2, <3>3 DEF UnwatchCall
  <2>6. CASE watching[f] = "active"
    <3> DEFINE c == [kind |-> "user", file |-> f]
    <3>1. ~done /\ watching' = [watching EXCEPT ![f] = "inactive"] /\ Send("UNWATCH", c)
          /\ UNCHANGED <<notYet, crashed>>
      BY <2>1, <2>6 DEF UnwatchCall, IsWatching
    <3>2. c \in UnwatchCont
      BY DEF UnwatchCont
    <3>3. PICK d \in Command : d = [cmd |-> "UNWATCH", cont |-> c]
      BY <3>2, Made
    <3>4. d.cmd = "UNWATCH" /\ d.cont.file = f /\ cmdq' = Append(cmdq, d)
      BY <3>1, <3>3 DEF Send
    <3>5. ToSet(cmdq') = ToSet(cmdq) \cup {d}
      BY <3>4, ElementsOf DEF QueueTypes
    <3>6. \A g \in File : OneCommand(cmdq', g)
      <4> TAKE g \in File
      <4>1. OneCommand(cmdq, g)
        BY <1>0 DEF Calm, OneUnwatch
      <4>2. \/ ~(d.cmd = "UNWATCH" /\ d.cont.file = g)
            \/ \A e \in ToSet(cmdq) : ~(e.cmd = "UNWATCH" /\ e.cont.file = g)
        BY <2>3, <3>4 DEF NoUnwatchSent
      <4> QED
        BY <3>4, <4>1, <4>2, OneCommandOf DEF QueueTypes
    <3>7. \A g \in File \ {f} : NoUnwatchSent(g)' <=> NoUnwatchSent(g)
      BY <3>4, <3>5 DEF NoUnwatchSent
    <3>8. watching'[f] = "inactive" /\ \A g \in File \ {f} : watching'[g] = watching[g]
      BY <3>1 DEF ModuleTypes
    <3>9. OneUnwatch(f)'
      BY <1>0, <1>1, <1>2, <2>3, <2>4, <3>1, <3>6 DEF Calm, OneUnwatch
    <3>10. \A g \in File \ {f} : OneUnwatch(g)'
      BY <1>0, <1>1, <1>2, <2>4, <3>6, <3>7 DEF Calm, OneUnwatch
    <3>11. Entitled(f)'
      BY <1>0, <2>2, <2>3, <2>4, <3>1, <3>8 DEF Calm, Entitled
    <3>12. \A g \in File \ {f} : Entitled(g)'
      BY <1>0, <2>2, <2>4, <3>1, <3>8 DEF Calm, Entitled, IsWatching
    <3>13. Calm(f)'
      BY <1>3, <2>6, <3>8, <3>9, <3>11
    <3>14. \A g \in File \ {f} : Calm(g)'
      BY <1>3, <3>8, <3>10, <3>12
    <3> QED
      BY <1>0, <2>5, <3>1, <3>13, <3>14
  <2>7. CASE watching[f] = "no"
    <3>1. done /\ notYet' = [notYet EXCEPT ![f] = None] /\ UNCHANGED <<watching, cmdq, crashed>>
      BY <2>1, <2>3, <2>7 DEF UnwatchCall, IsWatching
    <3>2. \A g \in File \ {f} : notYet'[g] = notYet[g]
      BY <3>1 DEF ModuleTypes
    <3>3. \A g \in File : OneUnwatch(g)'
      BY <1>0, <1>1, <1>2, <1>4, <2>3, <2>4, <3>1 DEF Calm, OneUnwatch
    <3>4. Entitled(f)'
      BY <1>0, <2>2, <2>3, <2>4, <2>7, <3>1 DEF Calm, Entitled
    <3>5. \A g \in File \ {f} : Entitled(g)'
      BY <1>0, <2>2, <2>4, <3>1, <3>2 DEF Calm, Entitled, IsWatching
    <3>6. \A g \in File : Calm(g)'
      BY <1>3, <3>1, <3>3, <3>4, <3>5
    <3> QED
      BY <1>0, <2>5, <3>1, <3>6
  <2> QED
    BY <2>3, <2>6, <2>7 DEF ModuleTypes
<1>9. ASSUME NEW f \in File, CleanerFind(f) \/ CleanerUnwatch(f) PROVE FALSE
  BY <1>0, <1>9 DEF CleanerFind, CleanerUnwatch, Calm, Entitled
<1> QED
  BY <1>6, <1>7, <1>8, <1>9, WatcherAssumption DEF Consumer

LEMMA CalmInvariant ==
    Spec => [](Types /\ ArmedInv /\ AgreeInv /\ LoopInv /\ FreshInv /\ CalmInv)
<1>1. Init => CalmInv
  <2> SUFFICES ASSUME Init PROVE CalmInv
    OBVIOUS
  <2>1. work = None /\ outq = <<>> /\ cmdq = <<>> /\ loops = <<>> /\ ~crashed
        /\ \A f \in File : /\ watching[f] = "no" /\ ~handle[f] /\ ~want[f]
                           /\ user[f] = "idle" /\ cleaner[f] = "idle"
    BY DEF Init
  <2>2. ToSet(cmdq) = {} /\ ToSet(outq) = {} /\ Len(outq) = 0 /\ Len(cmdq) = 0 /\ Len(loops) = 0
    BY <2>1 DEF ToSet
  <2>3. FirstTry
    BY <2>2 DEF FirstTry
  <2>4. \A f \in File : OneUnwatch(f)
    BY <2>2 DEF OneUnwatch, OneCommand, OneAnswer, NoUnwatchSent, NoAnswer
  <2>5. \A f \in File : Entitled(f)
    BY <2>1 DEF Entitled
  <2>6. \A f \in File : ~Held(f) /\ Covered(outq, f, watching[f] # "no")
    BY <2>1, <2>2 DEF Held, Covered
  <2> QED
    BY <2>1, <2>3, <2>4, <2>5, <2>6 DEF CalmInv, Calm
<1>2. Types /\ ArmedInv /\ AgreeInv /\ LoopInv /\ CalmInv /\ [Next]_vars => CalmInv'
  <2> SUFFICES ASSUME Types, ArmedInv, AgreeInv, LoopInv, CalmInv, [Next]_vars
               PROVE  CalmInv'
    OBVIOUS
  <2>1. CASE Next
    <3>1. UNCHANGED setting /\ (FileSystem \/ Helper \/ EventLoop \/ Consumer)
      BY <2>1 DEF Next
    <3>2. SUFFICES ASSUME ~setting.mayDelete, ~setting.cleaner
                   PROVE  ~crashed' /\ FirstTry' /\ \A f \in File : Calm(f)'
      BY <3>1 DEF CalmInv
    <3>3. CASE FileSystem \/ Helper
      <4>1. UNCHANGED <<crashed, loops, user>>
        BY <3>3 DEF FileSystem, Modify, Create, Delete, FileChanges, Helper, CWatch,
           CUnwatch, CPortGet, CEvent, CAssociate, jsVars, userVars
      <4>2. ~crashed' /\ FirstTry'
        BY <3>2, <4>1 DEF CalmInv, FirstTry
      <4>3. \A f \in File : Calm(f)'
        BY <3>2, <3>3, CalmHelper DEF CalmInv
      <4> QED
        BY <4>2, <4>3
    <3> QED
      BY <3>1, <3>2, <3>3, CalmEventLoop, CalmConsumer
  <2>2. CASE UNCHANGED vars
    BY <2>2 DEF vars, cVars, jsVars, userVars, CalmInv, FirstTry, Calm, OneUnwatch, Entitled,
       IsWatching, NoUnwatchSent, NoAnswer, Held, Working, EntryAtEnd
  <2> QED
    BY <2>1, <2>2
<1> QED
  BY <1>1, <1>2, FreshInvariant, PTL DEF Spec

\* As long as files are not deleted and the stale file check does not run, no
\* line of the helper and no call of the consumer throws: every event line
\* finds its entry in self.watching, and unwatch() finds the file watched.
THEOREM NothingThrows == Spec => []NoException
<1>1. CalmInv => NoException
  BY DEF CalmInv, NoException
<1> QED
  BY <1>1, CalmInvariant, PTL
=============================================================================
