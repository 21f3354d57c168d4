------------------------------- MODULE Mdata -------------------------------
(***************************************************************************)
(* The metadata protocol: the client library that the mdata-* tools and    *)
(* dockerinit are built with (proto.c and plat/), the line between the     *)
(* zone and the host, and the handler of the metadata agent                *)
(* (lib/metadata/agent.js, makeMetadataHandler).  One key.                 *)
(*                                                                         *)
(* Zones talk to the agent over a Unix socket, and every reset of the      *)
(* protocol makes a new connection.  Hardware virtual machines use a       *)
(* serial line: a reset only flushes what has arrived, so that answers to  *)
(* requests of the past can still come in.  Version 1 of the protocol has  *)
(* no request ids; version 2 is negotiated after every reset.              *)
(***************************************************************************)
EXTENDS Naturals, Sequences, FiniteSetsExt

CONSTANTS
    Val, Nil, Empty, Cmd, MaxCall,   \* as in MdataService
    Setting,        \* where clients run: [serial |-> is the line a serial line,
                    \* root |-> does it run as root, version |-> of the agent]
    MaxLate,        \* bound: timeouts while an answer is on its way
    MaxFault,       \* bound: restarts of the agent and damaged lines
    MaxSet          \* bound: changes of the metadata by an operator

ASSUME MdataAssumption ==
    /\ Setting \subseteq [serial : BOOLEAN, root : BOOLEAN, version : {1, 2}]
    /\ Setting # {}
    /\ {MaxCall, MaxLate, MaxFault, MaxSet} \subseteq Nat
    /\ Cmd \subseteq {"GET", "KEYS", "PUT", "DELETE"}
    /\ Val \subseteq Seq([dot : Nat, text : STRING]) \ {<<>>}

VARIABLES
    setting,      \* one of Setting
    \* the client process (struct mdata_proto, struct mdata_command)
    pc,           \* where it waits, see TypeOK
    mdp_state,    \* what the next line is taken for
    mdp_version,
    reqid,        \* mdc_reqid
    response,     \* mdc_response and mdc_response_data
    call,         \* the command to execute, or NoCall
    executing,    \* inside proto_execute for the call: a reset resumes it
    permfail,
    \* the line
    toHost, toClient,
    up,           \* the agent holds the other end of the client's connection
    \* the agent
    updates,      \* calls of VM.update() in the order of their lock requests
    store, view,
    \* budgets of the bounds, and history that no action reads
    late, faults, sets, ncall, seen, applied, result

clientVars == <<pc, mdp_state, mdp_version, reqid, response, call, executing, permfail>>
lineVars == <<toHost, toClient, up>>
agentVars == <<updates, store, view>>
history == <<ncall, seen, applied, result>>
vars == <<setting, clientVars, lineVars, agentVars, late, faults, sets, history>>

Serial == setting.serial
Root == setting.root

\* The agent carries out PUT and DELETE requests of version 2.
IsUpdate(req) == req.t = "V2" /\ req.call.cmd \in {"PUT", "DELETE"} /\ req.call.val # Empty

\* The refinement mapping: a change is submitted when it is sent.
CallsOf(s) == [i \in DOMAIN s |-> s[i].call]
ChangesIn(s) ==
    LET first[i \in 0..Len(s)] ==
            IF i = 0 THEN <<>>
            ELSE IF IsUpdate(s[i]) THEN Append(first[i - 1], s[i].call)
            ELSE first[i - 1]
    IN first[Len(s)]
Service == INSTANCE MdataService WITH
    pend <- CallsOf(updates) \o ChangesIn(toHost),
    outcome <- IF result.code \in {"none", "SUCCESS", "NOTFOUND"} THEN result
               ELSE [code |-> "error", data |-> <<>>]

NoCall == Service!NoCall
TextLine(dots, rest) == [dot |-> dots, text |-> rest]   \* as in MdataService

\* Codes that mean failure: the answers UNKNOWN, INVALID_COMMAND and V2_OK (the
\* tools abort on the last one), -1 of proto_execute() or proto_init(), a host
\* too old, and death by SIGPIPE.  mdataPut() and mdataDelete() of dockerinit do
\* not look at the answer: for them only the last three are failures.
Error == {"UNKNOWN", "INVALID_COMMAND", "V2_OK", "FAILED", "TOO_OLD", "KILLED"}

-----------------------------------------------------------------------------
(* Lines.                                                                  *)

Request(t, id, c) == [t |-> t, id |-> id, call |-> c, live |-> TRUE]

Word(w) == [t |-> "word", id |-> 0, code |-> w, data |-> <<>>]
DataLine(l) == [t |-> "data", id |-> 0, code |-> "none", data |-> <<l>>]
Frame(id, w, d) == [t |-> "V2", id |-> id, code |-> w, data |-> d]
Garbage == [t |-> "garbage", id |-> 0, code |-> "none", data |-> <<>>]

EndOfData == TextLine(1, Service!NoText)

\* The text of a line, when a line of data is expected.
TextOf(line) ==
    CASE line.t = "data" -> line.data[1]
      [] line.t = "word" -> TextLine(0, line.code)
      [] OTHER           -> TextLine(0, line.t)

\* Request ids are random: none that is still on its way is chosen again.
FreshId ==
    LET used == {toHost[i].id : i \in DOMAIN toHost}
                  \cup {toClient[i].id : i \in DOMAIN toClient}
                  \cup {updates[i].id : i \in DOMAIN updates} \cup {reqid}
    IN Min((1 .. Cardinality(used) + 1) \ used)

-----------------------------------------------------------------------------
(* The client: proto.c and plat/sunos.c, plat/unix_common.c.               *)

Pending == [code |-> "PENDING", data |-> <<>>]

\* Mutant: a request that is repeated keeps its request id.
MakeRequest_SameId ==
    IF mdp_version = 1 THEN Request("V1", 0, call)
    ELSE Request("V2", IF executing /\ reqid # 0 THEN reqid ELSE FreshId, call)

\* proto_make_request_v1(), proto_make_request_v2(): the request is made anew,
\* with a new request id, whenever it is sent.
MakeRequest ==
    IF mdp_version = 1 THEN Request("V1", 0, call)
    ELSE Request("V2", FreshId, call)

\* What process_input() makes of a line that ends the answer.
Finish(code, d) ==
    [state |-> "READY", response |-> [code |-> code, data |-> d], done |-> TRUE]
Continue(state, r) == [state |-> state, response |-> r, done |-> FALSE]

\* dynstr_append() to the answer so far: the first line is not preceded by a
\* newline, and neither is a line that follows only empty ones.
AppendLine(d, l) ==
    IF d = <<>> /\ l = Service!EmptyLine THEN <<>> ELSE Append(d, l)

ProcessV2(line) ==
    IF line.t = "V2" /\ line.id = reqid
    THEN Finish(IF line.code \in {"SUCCESS", "NOTFOUND"} THEN line.code
                ELSE "UNKNOWN", line.data)
    ELSE Continue("MESSAGE_V2", response)   \* not parsed, or not our request

ProcessHeader(line) ==
    CASE line = Word("SUCCESS") ->
            Continue("MESSAGE_DATA", [response EXCEPT !.code = "SUCCESS"])
      [] line.t = "word" /\ line.code \in {"NOTFOUND", "V2_OK", "INVALID_COMMAND"} ->
            Finish(line.code, response.data)
      [] OTHER -> Finish("UNKNOWN", AppendLine(response.data, TextOf(line)))

ProcessData(line) ==
    LET l == TextOf(line)
        unstuffed == IF l.dot > 0 THEN [l EXCEPT !.dot = @ - 1] ELSE l
    IN IF l = EndOfData THEN Finish(response.code, response.data)
       ELSE Continue("MESSAGE_DATA",
                     [response EXCEPT !.data = AppendLine(@, unstuffed)])

ProcessInput(line) ==
    CASE mdp_state = "MESSAGE_V2"     -> ProcessV2(line)
      [] mdp_state = "MESSAGE_HEADER" -> ProcessHeader(line)
      [] mdp_state = "MESSAGE_DATA"   -> ProcessData(line)

\* The end of a connection (plat_fini(), or the exit of the process).  What was
\* sent on a socket is still read, but nobody gets the answer.
Dead(s) == [i \in DOMAIN s |-> [s[i] EXCEPT !.live = Serial]]
Hangup(unread) ==
    /\ toHost' = Dead(toHost)
    /\ updates' = Dead(updates)
    /\ toClient' = IF Serial THEN unread ELSE <<>>
    /\ up' = FALSE
    /\ UNCHANGED <<store, view>>

Result(r) ==
    /\ result' = r
    /\ call' = NoCall
    /\ executing' = FALSE
    /\ response' = Pending
    /\ seen' = {}
    /\ applied' = FALSE
    /\ UNCHANGED ncall

\* The process ends.
Off(unread) ==
    /\ pc' = "off"
    /\ mdp_state' = "READY"
    /\ mdp_version' = 1
    /\ reqid' = 0
    /\ permfail' = FALSE
    /\ Hangup(unread)
    /\ UNCHANGED sets

Quit(code) == Off(toClient) /\ Result([code |-> code, data |-> <<>>])

Begin(cmd, v) ==
    /\ call = NoCall
    /\ ncall < MaxCall
    /\ call' = [cmd |-> cmd, val |-> v, n |-> ncall + 1]
    /\ ncall' = ncall + 1
    /\ seen' = {view}
    /\ UNCHANGED <<mdp_state, mdp_version, reqid, response, executing, permfail,
                   applied, result, lineVars, agentVars, late, faults, sets>>

\* A program starts: proto_init(), then proto_execute().
Start(cmd, v) == pc = "off" /\ pc' = "open" /\ Begin(cmd, v)

\* dockerinit goes on with the connection it has.
NextCall(cmd, v) == pc = "ready" /\ pc' = "ready" /\ Begin(cmd, v)

Exit ==
    /\ pc = "ready" /\ call = NoCall
    /\ Off(toClient)
    /\ UNCHANGED <<response, call, executing, late, faults, history>>

\* plat_init() up to the newline of plat_send_reset().  Opening the serial line
\* flushes what has arrived (unix_open_serial()); the rest comes later.
\* find_md_ngz() may note a permission problem on its way to the socket it
\* finds.  A failure that is not permanent is tried again after a second.
Open ==
    /\ pc = "open"
    /\ pc' = "sync"
    /\ permfail' \in IF Root \/ Serial THEN {permfail} ELSE {permfail, TRUE}
    /\ \E i \in IF Serial THEN 0 .. Len(toClient) ELSE {0} :
           toClient' = SubSeq(toClient, i + 1, Len(toClient))
    /\ toHost' = Append(toHost, Request("newline", 0, NoCall))
    /\ up' = TRUE
    /\ mdp_state' = "READY"
    /\ UNCHANGED <<mdp_version, reqid, response, call, executing, agentVars,
                   late, faults, sets, history>>

\* plat_init() fails for good: proto_reset() gives up, and so does its caller.
OpenFails ==
    /\ pc = "open"
    /\ permfail \/ ~Root
    /\ Quit("FAILED")
    /\ UNCHANGED <<late, faults>>

\* Mutant: after a failure the client goes on waiting on the same connection.
Again_NoReset(unread) ==
    /\ toClient' = unread
    /\ UNCHANGED <<clientVars, toHost, up, agentVars, sets, history>>

\* The line failed: plat_fini(), and all over again.  Only a failure of
\* plat_init() itself looks at permfail, which proto_reset() clears on entry.
Again(unread) ==
    IF pc = "sync" /\ permfail
    THEN Off(unread) /\ Result([code |-> "FAILED", data |-> <<>>])
    ELSE /\ pc' = "open"
         /\ mdp_state' = IF pc = "sync" THEN "READY" ELSE "ERROR"
         /\ response' = Pending
         /\ permfail' = (pc # "wait" /\ permfail)
         /\ executing' = (executing \/ pc = "wait")
         /\ Hangup(unread)
         /\ UNCHANGED <<mdp_version, reqid, call, sets, history>>

\* proto_send() of NEGOTIATE and of the request.
Transmit(request, state) ==
    /\ Serial \/ up
    /\ toHost' = Append(toHost, request)
    /\ mdp_state' = state
    /\ UNCHANGED <<response, call, executing, permfail, toClient, up, agentVars,
                   late, faults, sets, history>>

Negotiate ==
    /\ pc = "hello"
    /\ pc' = "negotiate"
    /\ mdp_version' = 1
    /\ Transmit(Request("NEGOTIATE", 0, NoCall), "MESSAGE_HEADER")
    /\ UNCHANGED reqid

\* mdata_put.c, mdata_delete.c, mdataPut(), mdataDelete(): only before the
\* request is sent for the first time.
TooOld == ~executing /\ call.cmd \in Service!Update /\ mdp_version < 2

Refuse ==
    /\ pc = "ready" /\ TooOld
    /\ Quit("TOO_OLD")
    /\ UNCHANGED <<late, faults>>

Execute ==
    /\ pc = "ready" /\ call # NoCall /\ ~TooOld
    /\ pc' = "wait"
    /\ Transmit(MakeRequest,
                IF mdp_version = 1 THEN "MESSAGE_HEADER" ELSE "MESSAGE_V2")
    /\ reqid' = MakeRequest.id
    /\ UNCHANGED mdp_version

\* A write to a socket whose other end is closed raises SIGPIPE.
Killed ==
    /\ pc = "hello" \/ (pc = "ready" /\ call # NoCall /\ ~TooOld)
    /\ ~Serial /\ ~up
    /\ Quit("KILLED")
    /\ UNCHANGED <<late, faults>>

\* plat_recv() has a line for the client.
Readable == toClient # <<>> /\ (Serial \/ up)

\* plat_send_reset(): the line must be the answer to the newline.
RecvReset ==
    /\ pc = "sync" /\ Readable
    /\ IF Head(toClient) = Word("INVALID_COMMAND")
       THEN /\ pc' = "hello"
            /\ toClient' = Tail(toClient)
            /\ UNCHANGED <<mdp_state, mdp_version, reqid, response, call, executing,
                           permfail, toHost, up, agentVars, sets, history>>
       ELSE Again(Tail(toClient))
    /\ UNCHANGED <<late, faults>>

\* proto_recv(): the line does not end the answer.
RecvMore ==
    /\ pc \in {"negotiate", "wait"} /\ Readable
    /\ LET r == ProcessInput(Head(toClient))
       IN /\ ~r.done
          /\ mdp_state' = r.state
          /\ response' = r.response
    /\ toClient' = Tail(toClient)
    /\ UNCHANGED <<pc, mdp_version, reqid, call, executing, permfail, toHost, up,
                   agentVars, late, faults, sets, history>>

\* The answer to NEGOTIATE ends proto_reset().
RecvNegotiated ==
    /\ pc = "negotiate" /\ Readable
    /\ LET r == ProcessInput(Head(toClient))
       IN /\ r.done
          /\ mdp_state' = r.state
          /\ mdp_version' = IF r.response.code = "V2_OK" THEN 2 ELSE 1
    /\ pc' = "ready"
    /\ response' = Pending
    /\ toClient' = Tail(toClient)
    /\ UNCHANGED <<reqid, call, executing, permfail, toHost, up, agentVars, late,
                   faults, sets, history>>

\* The answer to the request ends proto_execute().  On a serial line there are
\* only the tools, which exit.
RecvAnswer ==
    /\ pc = "wait" /\ Readable
    /\ LET r == ProcessInput(Head(toClient))
       IN r.done /\ Result(r.response)
    /\ IF Serial THEN Off(Tail(toClient))
       ELSE /\ pc' = "ready"
            /\ mdp_state' = "READY"
            /\ toClient' = Tail(toClient)
            /\ UNCHANGED <<mdp_version, reqid, permfail, toHost, up, agentVars, sets>>
    /\ UNCHANGED <<late, faults>>

\* plat_recv() fails because the agent closed the socket (POLLHUP), or times
\* out.  It may time out too early: the answer is only late, or its line came in
\* pieces (after the first byte of a line, plat_recv() waits no more).
OnItsWay ==
    \/ \E i \in DOMAIN toHost : toHost[i].live
    \/ \E i \in DOMAIN updates : updates[i].live
    \/ toClient # <<>>

RecvFails ==
    /\ pc \in {"sync", "negotiate", "wait"}
    /\ OnItsWay => ~Serial /\ ~up
    /\ Again(toClient)
    /\ UNCHANGED <<late, faults>>

RecvTooEarly ==
    /\ pc \in {"sync", "negotiate", "wait"}
    /\ OnItsWay /\ late < MaxLate
    /\ \/ Again(toClient)
       \/ toClient # <<>> /\ Again(<<Garbage>> \o Tail(toClient))
    /\ late' = late + 1
    /\ UNCHANGED faults

-----------------------------------------------------------------------------
(* The agent: makeMetadataHandler() in agent.js.                           *)

\* replace(/^\./mg, '..') and the end mark.
Stuffed(d) ==
    [i \in DOMAIN d |-> DataLine(IF d[i].dot > 0 THEN [d[i] EXCEPT !.dot = @ + 1]
                                 ELSE d[i])]

Respond(req, code, d) ==
    IF req.t = "V2" THEN <<Frame(req.id, code, d)>>
    ELSE IF code # "SUCCESS" THEN <<Word(code)>>
    ELSE <<Word("SUCCESS")>> \o Stuffed(IF d = <<>> THEN <<Service!EmptyLine>> ELSE d)
           \o <<DataLine(EndOfData)>>

\* The agent writes to the connection of the request, if it is still there.
Write(req, lines) ==
    toClient' = IF req.live /\ (Serial \/ up) THEN toClient \o lines ELSE toClient

\* GET and KEYS are answered from the agent's copy of the VM object.
Found(c) ==
    IF c.cmd = "KEYS"
    THEN [code |-> "SUCCESS", data |-> IF view = Nil THEN <<>> ELSE <<TextLine(0, "key")>>]
    ELSE IF view = Nil THEN [code |-> "NOTFOUND", data |-> <<>>]
    ELSE [code |-> "SUCCESS", data |-> view]

Handle ==
    /\ toHost # <<>>
    /\ toHost' = Tail(toHost)
    /\ LET req == Head(toHost)
       IN IF IsUpdate(req)
          THEN /\ updates' = Append(updates, [call |-> req.call, id |-> req.id, live |-> req.live])
               /\ UNCHANGED toClient
          ELSE /\ UNCHANGED updates
               /\ Write(req,
                    CASE req.t = "newline"   -> <<Word("INVALID_COMMAND")>>
                      [] req.t = "NEGOTIATE" -> <<Word(IF setting.version = 2 THEN "V2_OK"
                                                       ELSE "INVALID_COMMAND")>>
                      [] req.t = "damaged"   -> <<>>
                      [] OTHER -> IF req.call.cmd \in {"GET", "KEYS"}
                                  THEN LET f == Found(req.call)
                                       IN Respond(req, f.code, f.data)
                                  ELSE Respond(req, "FAILURE", <<>>))
    /\ UNCHANGED <<clientVars, up, store, view, late, faults, sets, history>>

\* VM.update() has the lock, changes the metadata and calls back.
Changed(u) ==
    /\ store' = IF u.call.cmd = "DELETE" THEN Nil ELSE u.call.val
    /\ applied' = (applied \/ u.call = call)

UpdateDone ==
    /\ updates # <<>>
    /\ updates' = Tail(updates)
    /\ LET u == Head(updates)
       IN \/ /\ Changed(u)
             /\ Write(u, <<Frame(u.id, "SUCCESS", <<TextLine(0, "OK")>>)>>)
          \/ /\ Write(u, <<Frame(u.id, "FAILURE", <<>>)>>)
             /\ UNCHANGED <<store, applied>>
    /\ UNCHANGED <<clientVars, toHost, up, view, late, faults, sets,
                   ncall, seen, result>>

-----------------------------------------------------------------------------
(* The environment.                                                        *)

\* The agent dies and is started again: its connections, what it had not read
\* and the updates it had not finished are gone.
AgentRestart ==
    /\ faults < MaxFault
    /\ faults' = faults + 1
    /\ toHost' = <<>>
    /\ up' = FALSE
    /\ updates' = <<>>
    /\ \/ updates # <<>> /\ Changed(Head(updates))
       \/ UNCHANGED <<store, applied>>
    /\ UNCHANGED <<clientVars, toClient, view, late, sets, ncall, seen,
                   result>>

\* A frame of version 2 is damaged on the serial line.  Both ends drop what
\* does not match its checksum.
Damage ==
    /\ Serial
    /\ faults < MaxFault
    /\ faults' = faults + 1
    /\ \/ \E i \in DOMAIN toHost :
              /\ toHost[i].t = "V2"
              /\ toHost' = [toHost EXCEPT ![i].t = "damaged"]
          /\ UNCHANGED toClient
       \/ \E i \in DOMAIN toClient :
              /\ toClient[i].t = "V2"
              /\ toClient' = [toClient EXCEPT ![i] = Garbage]
          /\ UNCHANGED toHost
    /\ UNCHANGED <<clientVars, up, agentVars, late, sets, history>>

\* vmadm update, from the global zone.
HostSet ==
    /\ sets < MaxSet
    /\ sets' = sets + 1
    /\ store' \in (Val \cup {Nil}) \ {store}
    /\ UNCHANGED <<clientVars, lineVars, updates, view, late, faults, history>>

\* The agent's VminfodWatcher hears of the last change.
Refresh ==
    /\ view # store
    /\ view' = store
    /\ seen' = IF call = NoCall THEN seen ELSE seen \cup {store}
    /\ UNCHANGED <<clientVars, lineVars, updates, store, late, faults, sets,
                   ncall, applied, result>>

-----------------------------------------------------------------------------

Init ==
    /\ pc = "off" /\ mdp_state = "READY" /\ mdp_version = 1 /\ reqid = 0
    /\ response = Pending /\ call = NoCall
    /\ executing = FALSE /\ permfail = FALSE
    /\ toHost = <<>> /\ toClient = <<>> /\ up = FALSE
    /\ updates = <<>>
    /\ store \in Val \cup {Nil} /\ view = store
    /\ setting \in Setting
    /\ late = 0 /\ faults = 0 /\ sets = 0
    /\ ncall = 0 /\ seen = {} /\ applied = FALSE
    /\ result = [code |-> "none", data |-> <<>>]

Client ==
    /\ UNCHANGED setting
    /\ \/ Open \/ OpenFails \/ Negotiate \/ Refuse \/ Execute \/ Killed
       \/ RecvReset \/ RecvMore \/ RecvNegotiated \/ RecvAnswer \/ RecvFails

Agent == UNCHANGED setting /\ (Handle \/ UpdateDone)

Next ==
    /\ UNCHANGED setting
    /\ \/ \E c \in Cmd : \E v \in Service!Args(c) : Start(c, v) \/ NextCall(c, v)
       \/ Exit
       \/ Open
       \/ OpenFails
       \/ Negotiate
       \/ Refuse
       \/ Execute
       \/ Killed
       \/ RecvReset
       \/ RecvMore
       \/ RecvNegotiated
       \/ RecvAnswer
       \/ RecvFails
       \/ RecvTooEarly
       \/ Handle
       \/ UpdateDone
       \/ AgentRestart
       \/ Damage
       \/ HostSet
       \/ Refresh

Spec == Init /\ [][Next]_vars

FairSpec == Spec /\ WF_vars(Client) /\ WF_vars(Agent)

-----------------------------------------------------------------------------
(* Properties.                                                             *)

\* The variables have their types.
TypeOK ==
    /\ pc \in {"off", "open", "sync", "hello", "negotiate", "ready", "wait"}
    /\ mdp_state \in {"READY", "ERROR", "MESSAGE_HEADER", "MESSAGE_DATA", "MESSAGE_V2"}
    /\ mdp_version \in {1, 2}
    /\ reqid \in Nat
    /\ call \in Service!Calls \cup {NoCall}
    /\ {executing, permfail, up, applied} \subseteq BOOLEAN
    /\ \A i \in DOMAIN toHost : toHost[i].t \in {"newline", "NEGOTIATE", "V1", "V2", "damaged"}
    /\ \A i \in DOMAIN toClient : toClient[i].t \in {"word", "data", "V2", "garbage"}
    /\ \A i \in DOMAIN updates : updates[i].call \in Service!Calls
    /\ {store, view} \subseteq Val \cup {Nil}
    /\ result.code \in Error \cup {"none", "SUCCESS", "NOTFOUND"}

\* The client library, the line and the agent together implement the metadata
\* service: a read gives a value the agent saw during the call, and an update
\* that is reported as done was carried out and leaves no repetition behind that
\* could undo a later change, through timeouts, retries and restarts.
ImplementsService == Service!Spec

\* proto_execute() repeats a request until it is answered: every call returns.
EveryCallReturns == (call # NoCall) ~> (call = NoCall)

=============================================================================
