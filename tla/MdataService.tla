---------------------------- MODULE MdataService ----------------------------
(***************************************************************************)
(* What the metadata service promises to a program in a zone that reads    *)
(* and changes one metadata key: the abstract specification that Mdata     *)
(* implements.  There is no connection, no protocol and no retry here.     *)
(*                                                                         *)
(*  - A read returns what the agent saw of the VM at some moment between   *)
(*    the call and the return.  The agent's view follows the store, with   *)
(*    a delay.                                                             *)
(*  - A change may be carried out more than once (the client repeats what  *)
(*    was not answered), but changes are carried out in the order in which *)
(*    they were submitted, and a call that returns SUCCESS leaves nothing  *)
(*    of its own behind that could be carried out later.                   *)
(***************************************************************************)
EXTENDS Naturals, Sequences, FiniteSetsExt

CONSTANTS
    Val,      \* the values of the key: non-empty sequences of lines
    Nil,      \* the key has no value
    Empty,    \* the empty value, which cannot be put
    Cmd,      \* the commands clients use, among GET, KEYS, PUT and DELETE
    MaxCall   \* bound: how often a program calls the service

VARIABLES
    store,    \* the value in the VM's metadata file
    view,     \* the value in the agent's copy of the VM object
    call,     \* the call being executed, or NoCall
    ncall,    \* how many calls were made
    pend,     \* the changes submitted and not yet carried out, oldest first
    seen,     \* what the view has been since the call began
    applied,  \* the change of this call was carried out
    outcome    \* what the last call returned

serviceVars == <<store, view, call, ncall, pend, seen, applied, outcome>>

NoCall == [cmd |-> "none", val |-> Nil, n |-> 0]

Update == {"PUT", "DELETE"}

\* A line of a value: how many dots it begins with, and the rest.
TextLine(dots, rest) == [dot |-> dots, text |-> rest]
NoText == ""
EmptyLine == TextLine(0, NoText)

\* A value without the empty lines it begins with: version 1 of the protocol
\* cannot tell the two apart.
Trim(v) ==
    LET full == {i \in DOMAIN v : v[i] # EmptyLine}
    IN IF full = {} THEN <<>> ELSE SubSeq(v, Min(full), Len(v))

\* The arguments a command is called with.
Args(c) == IF c = "PUT" THEN Val \cup {Empty} ELSE {Nil}

Calls == UNION {[cmd : {c}, val : Args(c), n : 1..MaxCall] : c \in Cmd}

\* What a change makes of the stored value.
Effect(c) == IF c.cmd = "DELETE" THEN Nil ELSE c.val

\* What a read reports when the view is v: KEYS lists the key if it has a
\* value, GET gives its value.
Answer(c, v) ==
    IF v = Nil
    THEN [code |-> IF c.cmd = "KEYS" THEN "SUCCESS" ELSE "NOTFOUND",
          data |-> <<>>]
    ELSE [code |-> "SUCCESS",
          data |-> IF c.cmd = "KEYS" THEN <<TextLine(0, "key")>> ELSE v]

Failure == [code |-> "error", data |-> <<>>]
Done == [code |-> "SUCCESS", data |-> <<TextLine(0, "OK")>>]

-----------------------------------------------------------------------------

Init ==
    /\ store \in Val \cup {Nil}
    /\ view = store
    /\ call = NoCall
    /\ ncall = 0
    /\ pend = <<>>
    /\ seen = {}
    /\ applied = FALSE
    /\ outcome = [code |-> "none", data |-> <<>>]

Call(cmd, v) ==
    /\ call = NoCall
    /\ ncall < MaxCall
    /\ call' = [cmd |-> cmd, val |-> v, n |-> ncall + 1]
    /\ ncall' = ncall + 1
    /\ seen' = {view}
    /\ applied' = FALSE
    /\ UNCHANGED <<store, view, pend, outcome>>

Submit ==
    /\ call.cmd \in Update
    /\ call.val # Empty
    /\ pend' = Append(pend, call)
    /\ UNCHANGED <<store, view, call, ncall, seen, applied, outcome>>

\* The oldest change is carried out, or fails.
Apply ==
    /\ pend # <<>>
    /\ pend' = Tail(pend)
    /\ \/ /\ store' = Effect(Head(pend))
          /\ applied' = (applied \/ Head(pend) = call)
       \/ UNCHANGED <<store, applied>>
    /\ UNCHANGED <<view, call, ncall, seen, outcome>>

\* A change is lost on its way.
Lose ==
    /\ \E i \in DOMAIN pend :
           pend' = SubSeq(pend, 1, i - 1) \o SubSeq(pend, i + 1, Len(pend))
    /\ UNCHANGED <<store, view, call, ncall, seen, applied, outcome>>

\* The agent dies: what it had not carried out is forgotten.
Forget ==
    /\ pend # <<>>
    /\ pend' = <<>>
    /\ \/ /\ store' = Effect(Head(pend))
          /\ applied' = (applied \/ Head(pend) = call)
       \/ UNCHANGED <<store, applied>>
    /\ UNCHANGED <<view, call, ncall, seen, outcome>>

\* An operator changes the metadata from outside the zone.
HostSet ==
    /\ store' \in (Val \cup {Nil}) \ {store}
    /\ UNCHANGED <<view, call, ncall, pend, seen, applied, outcome>>

Refresh ==
    /\ view' = store
    /\ seen' = IF call = NoCall THEN seen ELSE seen \cup {store}
    /\ UNCHANGED <<store, call, ncall, pend, applied, outcome>>

Return ==
    /\ call' = NoCall
    /\ seen' = {}
    /\ applied' = FALSE
    /\ UNCHANGED <<store, view, ncall, pend>>

ReturnRead ==
    /\ call.cmd \in {"GET", "KEYS"}
    /\ \E v \in seen :
           LET a == Answer(call, v)
           IN outcome' \in {a, [a EXCEPT !.data = Trim(@)]}
    /\ Return

\* A change returns SUCCESS only when it was carried out and no repetition
\* of it is still waiting.
ReturnUpdate ==
    /\ call.cmd \in Update
    /\ applied
    /\ \A i \in DOMAIN pend : pend[i] # call
    /\ outcome' = Done
    /\ Return

ReturnError ==
    /\ call # NoCall
    /\ outcome' = Failure
    /\ Return

Next ==
    \/ \E c \in Cmd : \E v \in Args(c) : Call(c, v)
    \/ Submit
    \/ Apply
    \/ Lose
    \/ Forget
    \/ HostSet
    \/ Refresh
    \/ ReturnRead
    \/ ReturnUpdate
    \/ ReturnError

Spec == Init /\ [][Next]_serviceVars

=============================================================================
