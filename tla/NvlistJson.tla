----------------------------- MODULE NvlistJson -----------------------------
(***************************************************************************)
(* nvlist_parse_json (src/src/dockerinit/json-nvlist/json-nvlist.c): the   *)
(* parser that turns the JSON of docker:env, docker:cmd, sdc:nics ... into *)
(* an nvlist.  It keeps its own stack of frames instead of recursing, and  *)
(* one handler runs for the state of the top frame.                        *)
(*                                                                         *)
(* The input is a sequence of tokens.  White space is left out: every      *)
(* handler discards it before it looks at a character.  The opening quote  *)
(* of a string is taken by one handler and the rest by the next; here the  *)
(* first only looks at the token and the second takes it.  A number of a   *)
(* string of digits becomes an int of Width bits, 32 in the code.          *)
(***************************************************************************)
EXTENDS Integers, Sequences, SequencesExt, TLC

CONSTANTS
    Input,    \* the texts to parse, as sequences of tokens
    Width,    \* the bits of an int
    MayFail   \* an allocation may fail

\* The value of an escape, at most 9999, fits in an int.
ASSUME WidthAssumption == Width \in Nat /\ Width > 14

VARIABLES
    input,    \* s_in
    pos,      \* s_pos
    top,      \* *s_top
    below,    \* the frames reached through pf_next, the lowest first
    heap,     \* the nvlists: what each name is bound to
    errno,    \* s_errno
    status    \* parsing, or how the call ended: ok, failed, abort

vars == <<input, pos, top, below, heap, errno, status>>

-----------------------------------------------------------------------------
(* Tokens, texts and nvpairs.                                              *)

Punct(p) == [t |-> p, name |-> "", digs |-> <<>>]
Word(w) == [t |-> "word", name |-> w, digs |-> <<>>]
\* A string of plain characters, closed by a quote.
Str(s) == [t |-> "string", name |-> s, digs |-> <<>>]
\* The same, followed by an escape \u with four hexadecimal digits.
StrEsc(s, hex) == [t |-> "string", name |-> s, digs |-> hex]
\* A string that the end of the text or an unknown escape cuts short.
BadStr(s) == [t |-> "badstring", name |-> s, digs |-> <<>>]
\* Digits with a sign ("-" or ""); none at all when only the sign is there.
Num(sign, ds) == [t |-> "number", name |-> sign, digs |-> ds]
Frac(ds) == [t |-> "frac", name |-> "", digs |-> ds]
Eof == Punct("eof")

NoChar == -1
Text == [name : STRING, esc : {NoChar} \cup (1..127)]
Plain(s) == [name |-> s, esc |-> NoChar]

NoText == Plain("(NULL)")
Length == Plain("length")
JSON_MARKER_ARRAY == Plain(".__json_array")

\* The value of a frame or of an nvpair: its type and what the type calls for.
Value(type) == [type |-> type, text |-> NoText, num |-> 0, nvl |-> 0]
NoValue == Value("NOTHING")

Container == {"OBJECT", "ARRAY"}
Type == {"NOTHING", "STRING", "INTEGER", "BOOLEAN", "NULL"} \cup Container

State == {"ERROR", "DONE", "REST", "OBJECT", "KEY_STRING", "COLON", "STRING",
          "OBJECT_COMMA", "ARRAY", "BAREWORD", "NUMBER", "ARRAY_VALUE",
          "ARRAY_COMMA"}

NewFrame(ps) ==
    [ps |-> ps, nvl |-> 0, key |-> NoText, value |-> NoValue,
     type |-> "NOTHING", idx |-> 0]

\* An int keeps the low Width bits, in two's complement.
Wrap(n) == LET m == 2 ^ Width
           IN ((n + (m \div 2)) % m) - (m \div 2)

\* atoi of a sequence of hexadecimal digits: it is decimal and it stops at the
\* first character that is none.
Atoi(ds) ==
    LET other == {i \in DOMAIN ds : ds[i] > 9}
        dec == SelectInSeq(ds, LAMBDA d : d > 9)
    IN FoldLeft(LAMBDA n, d : Wrap(10 * n + d), 0,
                IF other = {} THEN ds ELSE SubSeq(ds, 1, dec - 1))

\* What collect_string leaves of a string: strdup stops at a NUL.
Collected(tok) ==
    LET c == Atoi(tok.digs)
    IN IF tok.digs = <<>> \/ c = 0 THEN Plain(tok.name)
       ELSE [name |-> tok.name, esc |-> c]

Readable(tok) == tok.t = "string" /\ Atoi(tok.digs) <= 127

\* The token that the next character begins.
Tok == IF pos \in DOMAIN input THEN input[pos] ELSE Eof

-----------------------------------------------------------------------------
(* What the handlers are made of.                                          *)

Init ==
    /\ input \in Input
    /\ pos = 1
    /\ top = NewFrame("REST")
    /\ below = <<>>
    /\ heap = <<>>
    /\ errno = "0"
    /\ status = "parsing"

\* The dispatch: the handler of state ps runs.
In(ps) == status = "parsing" /\ top.ps = ps

Take == pos' = pos + 1

\* posterror: the frame and the stack stay for the cleanup.
PostError(e) ==
    /\ errno' = e
    /\ top' = [top EXCEPT !.ps = "ERROR"]
    /\ UNCHANGED below

\* An allocation fails: before the first handler, in a handler that allocates,
\* or in store_value, which frees the value all the same.
OutOfMemory ==
    /\ MayFail
    /\ status = "parsing"
    /\ top.ps \notin {"OBJECT_COMMA", "ERROR"}
    /\ top.ps = "DONE" => below # <<>>
    /\ errno' = "ENOMEM"
    /\ top' = [top EXCEPT !.ps = "ERROR", !.value = NoValue]
    /\ UNCHANGED <<input, pos, below, heap, status>>

MoveState(ps) ==
    /\ top' = [top EXCEPT !.ps = ps]
    /\ UNCHANGED <<below, errno>>

PushState(frame, ps, retps) ==
    /\ below' = Append(below, [frame EXCEPT !.ps = retps])
    /\ top' = NewFrame(ps)
    /\ UNCHANGED errno

\* nvlist_add_*: a name is bound once (NV_UNIQUE_NAME).
Bind(nvl, key, v) ==
    [k \in DOMAIN nvl \cup {key} |-> IF k = key THEN v ELSE nvl[k]]

\* add_empty_child, on the heap: the new nvlist is bound in the frame below.
WithChild(type) ==
    LET new == Append(heap, <<>>)
        f == Last(below)
    IN IF below = <<>> THEN new
       ELSE [new EXCEPT ![f.nvl] =
                Bind(@, f.key, [Value(type) EXCEPT !.nvl = Len(new)])]

\* decorate_array
Decorated(nvl, idx) ==
    Bind(Bind(nvl, JSON_MARKER_ARRAY, Value("NULL")), Length,
         [Value("INTEGER") EXCEPT !.num = idx])

-----------------------------------------------------------------------------
(* The handlers.                                                           *)

HdlrRest ==
    /\ In("REST")
    /\ Take
    /\ \/ Tok.t = "{" /\ MoveState("OBJECT")
       \/ Tok.t = "[" /\ MoveState("ARRAY")
       \/ Tok.t \notin {"{", "["} /\ PostError("EPROTO")
    /\ UNCHANGED <<input, heap, status>>

\* A frame that has become a container, in state ps.
Become(type, ps) ==
    top' = [top EXCEPT !.type = type, !.nvl = Len(heap) + 1, !.ps = ps]

HdlrObject ==
    /\ In("OBJECT")
    /\ heap' = WithChild("OBJECT")
    /\ \/ Tok.t = "}" /\ Take /\ Become("OBJECT", "DONE") /\ UNCHANGED errno
       \/ /\ Tok.t \in {"string", "badstring"}
          /\ Become("OBJECT", "KEY_STRING")
          /\ UNCHANGED <<pos, errno>>
       \/ /\ Tok.t \notin {"}", "string", "badstring"}
          /\ Take
          /\ Become("OBJECT", "ERROR")
          /\ errno' = "EPROTO"
    /\ UNCHANGED <<input, below, status>>

HdlrKeyString ==
    /\ In("KEY_STRING")
    /\ Take
    /\ \/ /\ Readable(Tok)
          /\ top' = [top EXCEPT !.key = Collected(Tok), !.ps = "COLON"]
          /\ UNCHANGED <<below, errno>>
       \/ ~Readable(Tok) /\ PostError("EPROTO")
    /\ UNCHANGED <<input, heap, status>>

\* The switch on the first character of a value: which handler reads it.
HandlerOf(tok) ==
    CASE tok.t \in {"string", "badstring"} -> "STRING"
      [] tok.t = "{" -> "OBJECT"
      [] tok.t = "[" -> "ARRAY"
      [] tok.t = "word" -> "BAREWORD"
      [] tok.t \in {"number", "frac"} -> "NUMBER"
      [] OTHER -> "ERROR"

\* The top frame, as frame, waits in retps while a new frame reads a value.
StartValue(frame, tok, retps) ==
    IF HandlerOf(tok) # "ERROR" THEN PushState(frame, HandlerOf(tok), retps)
    ELSE /\ top' = [frame EXCEPT !.ps = "ERROR"]
         /\ errno' = "EPROTO"
         /\ UNCHANGED below

\* A brace or bracket is taken by the switch, anything else is left.
Opens(tok) == tok.t \in {"{", "["}

HdlrColon ==
    /\ In("COLON")
    /\ \/ /\ Tok.t = ":"
          /\ LET next == IF pos + 1 \in DOMAIN input
                         THEN input[pos + 1] ELSE Eof
             IN /\ pos' = IF Opens(next) THEN pos + 2 ELSE pos + 1
                /\ StartValue(top, next, "OBJECT_COMMA")
       \/ Tok.t # ":" /\ Take /\ PostError("EPROTO")
    /\ UNCHANGED <<input, heap, status>>

\* The frame has a value of its own and is finished.
Finish(v) ==
    /\ top' = [top EXCEPT !.value = v, !.type = v.type, !.ps = "DONE"]
    /\ UNCHANGED <<below, errno>>

HdlrString ==
    /\ In("STRING")
    /\ Take
    /\ \/ /\ Readable(Tok)
          /\ Finish([Value("STRING") EXCEPT !.text = Collected(Tok)])
       \/ ~Readable(Tok) /\ PostError("EPROTO")
    /\ UNCHANGED <<input, heap, status>>

HdlrBareword ==
    /\ In("BAREWORD")
    /\ Take
    /\ \/ /\ Tok.name \in {"true", "false"}
          /\ Finish([Value("BOOLEAN") EXCEPT
                        !.num = IF Tok.name = "true" THEN 1 ELSE 0])
       \/ Tok.name = "null" /\ Finish(Value("NULL"))
       \/ /\ Tok.name \notin {"true", "false", "null"}
          /\ PostError("EPROTO")
    /\ UNCHANGED <<input, heap, status>>

HdlrNumber ==
    /\ In("NUMBER")
    /\ Take
    /\ LET n == Atoi(Tok.digs)
       IN \/ /\ Tok.t = "number" /\ Tok.digs # <<>>
             /\ Finish([Value("INTEGER") EXCEPT
                           !.num = IF Tok.name = "-" THEN Wrap(-n) ELSE n])
          \/ Tok.digs = <<>> /\ PostError("EPROTO")
          \/ Tok.t = "frac" /\ Tok.digs # <<>> /\ PostError("ENOTSUP")
    /\ UNCHANGED <<input, heap, status>>

HdlrObjectComma ==
    /\ In("OBJECT_COMMA")
    /\ \/ Tok.t = "}" /\ Take /\ MoveState("DONE")
       \/ /\ Tok.t = ","
          /\ Take
          /\ IF pos + 1 \in DOMAIN input
                /\ input[pos + 1].t \in {"string", "badstring"}
             THEN MoveState("KEY_STRING") ELSE PostError("EPROTO")
       \/ Tok.t \notin {"}", ","} /\ Take /\ PostError("EPROTO")
    /\ UNCHANGED <<input, heap, status>>

\* Mutant: an empty array is not decorated.
HdlrArray_NoLength ==
    /\ In("ARRAY")
    /\ heap' = WithChild("ARRAY")
    /\ \/ Tok.t = "]" /\ Take /\ Become("ARRAY", "DONE")
       \/ Tok.t # "]" /\ Become("ARRAY", "ARRAY_VALUE") /\ UNCHANGED pos
    /\ UNCHANGED <<input, below, errno, status>>

HdlrArray ==
    /\ In("ARRAY")
    /\ \/ /\ Tok.t = "]"
          /\ Take
          /\ heap' = [WithChild("ARRAY") EXCEPT
                         ![Len(heap) + 1] = Decorated(@, top.idx)]
          /\ Become("ARRAY", "DONE")
       \/ /\ Tok.t # "]"
          /\ heap' = WithChild("ARRAY")
          /\ Become("ARRAY", "ARRAY_VALUE")
          /\ UNCHANGED pos
    /\ UNCHANGED <<input, below, errno, status>>

\* pf_key has to be free for the next index: abort otherwise.
HdlrArrayValue ==
    /\ In("ARRAY_VALUE")
    /\ IF top.key # NoText
       THEN status' = "abort" /\ UNCHANGED <<pos, top, below, errno>>
       ELSE /\ pos' = IF Opens(Tok) THEN pos + 1 ELSE pos
            /\ StartValue([top EXCEPT !.key = Plain(ToString(top.idx)),
                                      !.idx = @ + 1], Tok, "ARRAY_COMMA")
            /\ UNCHANGED status
    /\ UNCHANGED <<input, heap>>

HdlrArrayComma ==
    /\ In("ARRAY_COMMA")
    /\ Take
    /\ \/ /\ Tok.t = "]"
          /\ heap' = [heap EXCEPT ![top.nvl] = Decorated(@, top.idx)]
          /\ MoveState("DONE")
       \/ Tok.t = "," /\ MoveState("ARRAY_VALUE") /\ UNCHANGED heap
       \/ Tok.t \notin {"]", ","} /\ PostError("EPROTO") /\ UNCHANGED heap
    /\ UNCHANGED <<input, status>>

-----------------------------------------------------------------------------
(* The loop of nvlist_parse_json around the handlers.                      *)

\* Mutant: the key of the frame below is not cleared.
StoreValue_KeepKey ==
    LET f == Last(below)
    IN /\ top' = f
       /\ heap' = IF top.type \in Container THEN heap
                  ELSE [heap EXCEPT ![f.nvl] = Bind(@, f.key, top.value)]

\* store_value: the frame below gets the value and forgets its key.  An
\* object or array was stored when it was created; a frame of no type aborts.
StoreValue ==
    LET f == Last(below)
    IN /\ top' = [f EXCEPT !.key = NoText]
       /\ heap' = IF top.type \in Container THEN heap
                  ELSE [heap EXCEPT ![f.nvl] = Bind(@, f.key, top.value)]

\* Mutant: the finished frame stays on the stack.
Pop_KeepFrame ==
    /\ In("DONE")
    /\ below # <<>>
    /\ heap' = IF top.type \in Container THEN heap
               ELSE [heap EXCEPT ![Last(below).nvl] =
                        Bind(@, Last(below).key, top.value)]
    /\ UNCHANGED <<input, pos, top, below, errno, status>>

\* A frame is done: its value is stored, it is freed, and the handler of the
\* frame below is called.  No handler is there for one that is done itself.
Pop ==
    /\ In("DONE")
    /\ below # <<>>
    /\ IF top.type = "NOTHING" \/ Last(below).ps \in {"DONE", "ERROR"}
       THEN status' = "abort" /\ UNCHANGED <<top, below, heap>>
       ELSE StoreValue /\ below' = Front(below) /\ UNCHANGED status
    /\ UNCHANGED <<input, pos, errno>>

\* parse_frame_free of every frame that is left: a value nobody took aborts.
Cleanup(end) ==
    /\ status' = IF \E f \in {top} \cup Range(below) : f.value # NoValue
                 THEN "abort" ELSE end
    /\ UNCHANGED <<input, pos, top, below, heap, errno>>

Done == In("DONE") /\ below = <<>> /\ Cleanup("ok")

Failed == In("ERROR") /\ Cleanup("failed")

Ended == status # "parsing" /\ UNCHANGED vars

Handler ==
    \/ HdlrRest
    \/ HdlrObject
    \/ HdlrKeyString
    \/ HdlrColon
    \/ HdlrString
    \/ HdlrObjectComma
    \/ HdlrArray
    \/ HdlrBareword
    \/ HdlrNumber
    \/ HdlrArrayValue
    \/ HdlrArrayComma

\* What the loop does next when memory suffices.
Step == Handler \/ Pop \/ Done \/ Failed

Next ==
    \/ Step
    \/ OutOfMemory
    \/ Ended

Spec == Init /\ [][Next]_vars

FairSpec == Spec /\ WF_vars(Step)

-----------------------------------------------------------------------------
(* Properties.                                                             *)

Frame ==
    [ps : State, nvl : 0..Len(heap), key : Text,
     value : [type : Type, text : Text, num : Int, nvl : {0}],
     type : Type, idx : Nat]

\* The frames and the nvlists stay what the code takes them for; a bound
\* nvlist is one that was allocated.
TypeOK ==
    /\ pos \in 1..(Len(input) + 2)
    /\ top \in Frame
    /\ below \in Seq(Frame)
    /\ \A h \in Range(heap) : \A k \in DOMAIN h :
           k \in Text /\ h[k].nvl \in 0..Len(heap)
    /\ errno \in {"0", "EPROTO", "ENOTSUP", "ENOMEM"}
    /\ status \in {"parsing", "ok", "failed", "abort"}

\* None of the four abort() calls is reached, whatever the text is and
\* wherever an allocation fails: hdlr_array_value finds pf_key free,
\* store_value a type, the loop a handler for the frame it has come back to,
\* parse_frame_free no value.
NoAbort == status # "abort"

\* Every call of nvlist_parse_json comes back.
ParseEnds == <>(status # "parsing")

=============================================================================
