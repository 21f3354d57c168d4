-------------------------- MODULE NvlistJsonProofs --------------------------
(***************************************************************************)
(* nvlist_parse_json never calls abort(): a proof for every text, width    *)
(* and allocation failure.                                                 *)
(*                                                                         *)
(* The abort in hdlr_array_value needs a key that was not taken away, the  *)
(* one in store_value a finished frame without a type, the one of the loop *)
(* a frame below that is finished as well, the one in parse_frame_free a   *)
(* value left in a frame that is freed.  Each is a statement about frames  *)
(* of which one is not on top, so the invariant says what a waiting frame  *)
(* looks like as well as the top one.                                      *)
(***************************************************************************)
EXTENDS NvlistJson, SequenceTheorems, TLAPS

Fields == {"ps", "nvl", "key", "value", "type", "idx"}

\* The states in which a frame has become an object or an array.
InContainer == {"KEY_STRING", "COLON", "OBJECT_COMMA", "ARRAY_VALUE",
                "ARRAY_COMMA"}

\* The states that read a string, a word or a number.
InScalar == {"STRING", "BAREWORD", "NUMBER"}

\* A frame below the top waits, as a container, for the value of its key.
Waits(f) ==
    /\ DOMAIN f = Fields
    /\ f.ps \in {"OBJECT_COMMA", "ARRAY_COMMA"}
    /\ f.type # "NOTHING"
    /\ f.value = NoValue

Stack ==
    /\ \E S : below \in Seq(S)
    /\ \A i \in 1..Len(below) : Waits(below[i])

\* The top frame: a value is there from the end of a scalar until store_value
\* only, a finished frame has a type, an array between two values has no key.
TopFrame ==
    /\ DOMAIN top = Fields
    /\ top.value # NoValue => top.ps = "DONE" /\ below # <<>>
    /\ top.ps \in InScalar => below # <<>>
    /\ top.ps \in InContainer \cup {"DONE"} => top.type # "NOTHING"
    /\ top.ps \in {"REST", "ARRAY", "ARRAY_VALUE", "ARRAY_COMMA"} =>
           top.key = NoText

IInv == NoAbort /\ Stack /\ TopFrame

-----------------------------------------------------------------------------

\* Pushing a frame that waits keeps the stack; so does taking one off.
LEMMA AppendWaits ==
    ASSUME NEW f, Stack, Waits(f), below' = Append(below, f)
    PROVE  Stack' /\ below' # <<>>
<1>1. PICK S : below \in Seq(S)
  BY DEF Stack
<1>2. below \in Seq(S \cup {f})
  BY <1>1
<1>3. below' \in Seq(S \cup {f}) /\ Len(below') = Len(below) + 1
  BY <1>2
<1>4. \A i \in 1..Len(below') : below'[i] = IF i = Len(below) + 1
                                             THEN f ELSE below[i]
  BY <1>2, <1>3
<1>5. \A i \in 1..Len(below') : Waits(below'[i])
  BY <1>2, <1>3, <1>4 DEF Stack
<1>6. below' # <<>>
  BY <1>3, <1>2
<1> QED
  BY <1>3, <1>5, <1>6 DEF Stack, Waits

LEMMA FrontOfSeq ==
    ASSUME NEW S, NEW s \in Seq(S), s # <<>>
    PROVE  /\ Front(s) \in Seq(S)
           /\ Len(Front(s)) = Len(s) - 1
           /\ \A i \in 1..(Len(s) - 1) : Front(s)[i] = s[i]
<1> DEFINE n == Len(s) - 1
<1>1. n \in Nat /\ \A i \in 1..n : s[i] \in S
  BY EmptySeq, LenProperties, ElementOfSeq
<1>2. Front(s) = SubSeq(s, 1, n)
  BY DEF Front
<1> HIDE DEF n
<1>3. /\ SubSeq(s, 1, n) \in Seq(S)
      /\ Len(SubSeq(s, 1, n)) = n
      /\ \A i \in 1..n : SubSeq(s, 1, n)[i] = s[i]
  BY <1>1, SubSeqProperties
<1> QED
  BY <1>2, <1>3 DEF n

LEMMA FrontWaits ==
    ASSUME Stack, below # <<>>
    PROVE  /\ Waits(Last(below))
           /\ below' = Front(below) => Stack'
<1>1. PICK S : below \in Seq(S)
  BY DEF Stack
<1>2. Len(below) \in Nat /\ Len(below) > 0
  BY <1>1
<1>3. Waits(Last(below))
  BY <1>2 DEF Stack, Last
<1>4. ASSUME below' = Front(below) PROVE Stack'
  <2>1. /\ below' \in Seq(S) /\ Len(below') = Len(below) - 1
        /\ \A i \in 1..(Len(below) - 1) : below'[i] = below[i]
    BY <1>1, <1>4, FrontOfSeq
  <2>2. \A i \in 1..Len(below') : Waits(below'[i])
    BY <1>2, <2>1 DEF Stack
  <2> QED
    BY <2>1, <2>2 DEF Stack, Waits
<1> QED
  BY <1>3, <1>4

\* The switch on a character chooses the handler of a new value.
LEMMA HandlerStates ==
    ASSUME NEW tok
    PROVE  HandlerOf(tok) \in InScalar \cup {"OBJECT", "ARRAY", "ERROR"}
  BY DEF HandlerOf, InScalar

\* Starting a value, from a container frame without a value.
LEMMA StartKeeps ==
    ASSUME NEW f, NEW tok, NEW retps \in {"OBJECT_COMMA", "ARRAY_COMMA"},
           Stack, DOMAIN f = Fields, f.type # "NOTHING", f.value = NoValue,
           StartValue(f, tok, retps)
    PROVE  Stack' /\ TopFrame'
<1>1. CASE HandlerOf(tok) # "ERROR"
  <2>1. below' = Append(below, [f EXCEPT !.ps = retps])
    BY <1>1 DEF StartValue, PushState
  <2>2. Waits([f EXCEPT !.ps = retps])
    BY DEF Waits, Fields
  <2>3. Stack' /\ below' # <<>>
    BY <2>1, <2>2, AppendWaits
  <2>4. top' = NewFrame(HandlerOf(tok))
    BY <1>1 DEF StartValue, PushState
  <2>5. HandlerOf(tok) \in InScalar \cup {"OBJECT", "ARRAY"}
    BY <1>1, HandlerStates
  <2>6. TopFrame'
    BY <2>3, <2>4, <2>5 DEF TopFrame, NewFrame, Fields, InScalar, InContainer
  <2> QED
    BY <2>3, <2>6
<1>2. CASE HandlerOf(tok) = "ERROR"
  <2>1. top' = [f EXCEPT !.ps = "ERROR"] /\ below' = below
    BY <1>2 DEF StartValue
  <2>2. Stack'
    BY <2>1 DEF Stack
  <2>3. TopFrame'
    BY <2>1 DEF TopFrame, Fields, InScalar, InContainer
  <2> QED
    BY <2>2, <2>3
<1> QED
  BY <1>1, <1>2

\* The top frame changes its state only, or fails; the stack stays.
LEMMA MoveKeeps ==
    ASSUME Stack, TopFrame, top.value = NoValue,
           NEW ps, ps \notin InScalar,
           ps \in InContainer \cup {"DONE"} => top.type # "NOTHING",
           ps \in {"REST", "ARRAY", "ARRAY_VALUE", "ARRAY_COMMA"} =>
               top.key = NoText,
           top' = [top EXCEPT !.ps = ps], below' = below
    PROVE  Stack' /\ TopFrame'
<1>1. Stack'
  BY DEF Stack
<1>2. TopFrame'
  BY DEF TopFrame, Fields, InScalar, InContainer
<1> QED
  BY <1>1, <1>2

LEMMA ErrorKeeps ==
    ASSUME Stack, TopFrame, top.value = NoValue, NEW e, PostError(e)
    PROVE  Stack' /\ TopFrame'
  BY MoveKeeps DEF PostError, InScalar, InContainer

LEMMA FinishKeeps ==
    ASSUME Stack, TopFrame, below # <<>>, NEW v, v.type # "NOTHING", Finish(v)
    PROVE  Stack' /\ TopFrame'
<1>1. Stack'
  BY DEF Stack, Finish
<1>2. TopFrame'
  BY DEF TopFrame, Finish, Fields, InScalar, InContainer
<1> QED
  BY <1>1, <1>2

LEMMA BecomeKeeps ==
    ASSUME Stack, TopFrame, top.value = NoValue,
           NEW type, type # "NOTHING",
           NEW ps \in {"DONE", "ERROR", "KEY_STRING", "ARRAY_VALUE"},
           ps = "ARRAY_VALUE" => top.key = NoText,
           Become(type, ps), below' = below
    PROVE  Stack' /\ TopFrame'
<1>1. Stack'
  BY DEF Stack
<1>2. TopFrame'
  BY DEF TopFrame, Become, Fields, InScalar, InContainer
<1> QED
  BY <1>1, <1>2

-----------------------------------------------------------------------------

LEMMA InitIInv == Init => IInv
<1> SUFFICES ASSUME Init PROVE IInv
  OBVIOUS
<1>1. NoAbort
  BY DEF Init, NoAbort
<1>2. below \in Seq({0}) /\ Len(below) = 0
  BY DEF Init
<1>3. Stack
  BY <1>2 DEF Stack
<1>4. TopFrame
  BY DEF Init, TopFrame, NewFrame, Fields, InScalar, InContainer
<1> QED
  BY <1>1, <1>3, <1>4 DEF IInv

\* Every handler keeps the invariant.
LEMMA HandlerKeeps == IInv /\ Handler => IInv'
<1> SUFFICES ASSUME IInv, Handler PROVE IInv'
  OBVIOUS
<1> USE DEF In
<1>0. Stack /\ TopFrame /\ NoAbort
  BY DEF IInv
<1>1. CASE HdlrRest
  <2>1. top.value = NoValue /\ top.key = NoText /\ NoAbort'
    BY <1>0, <1>1 DEF HdlrRest, TopFrame, NoAbort
  <2>2. Stack' /\ TopFrame'
    BY <1>0, <1>1, <2>1, MoveKeeps, ErrorKeeps
    DEF HdlrRest, MoveState, InScalar, InContainer
  <2> QED
    BY <2>1, <2>2 DEF IInv
<1>2. CASE HdlrObject
  <2>1. top.value = NoValue /\ NoAbort' /\ below' = below
    BY <1>0, <1>2 DEF HdlrObject, TopFrame, NoAbort
  <2>2. \E ps \in {"DONE", "ERROR", "KEY_STRING"} : Become("OBJECT", ps)
    BY <1>2 DEF HdlrObject
  <2>3. Stack' /\ TopFrame'
    BY <1>0, <2>1, <2>2, BecomeKeeps
  <2> QED
    BY <2>1, <2>3 DEF IInv
<1>3. CASE HdlrKeyString
  <2>1. top.value = NoValue /\ top.type # "NOTHING" /\ NoAbort'
    BY <1>0, <1>3 DEF HdlrKeyString, TopFrame, NoAbort, InContainer
  <2>2. CASE /\ top' = [top EXCEPT !.key = Collected(Tok), !.ps = "COLON"]
             /\ below' = below
    <3>1. Stack'
      BY <1>0, <2>2 DEF Stack
    <3>2. TopFrame'
      BY <1>0, <2>1, <2>2 DEF TopFrame, Fields, InScalar, InContainer
    <3> QED
      BY <2>1, <3>1, <3>2 DEF IInv
  <2>3. CASE PostError("EPROTO")
    BY <1>0, <2>1, <2>3, ErrorKeeps DEF IInv
  <2> QED
    BY <1>3, <2>2, <2>3 DEF HdlrKeyString
<1>4. CASE HdlrColon
  <2>1. top.value = NoValue /\ top.type # "NOTHING" /\ NoAbort'
    BY <1>0, <1>4 DEF HdlrColon, TopFrame, NoAbort, InContainer
  <2>2. DOMAIN top = Fields
    BY <1>0 DEF TopFrame
  <2>3. \/ \E tok : StartValue(top, tok, "OBJECT_COMMA")
        \/ PostError("EPROTO")
    BY <1>4 DEF HdlrColon
  <2>4. Stack' /\ TopFrame'
    BY <1>0, <2>1, <2>2, <2>3, StartKeeps, ErrorKeeps
  <2> QED
    BY <2>1, <2>4 DEF IInv
<1>5. CASE HdlrString
  <2>1. top.value = NoValue /\ below # <<>> /\ NoAbort'
    BY <1>0, <1>5 DEF HdlrString, TopFrame, NoAbort, InScalar
  <2>2. \/ \E v : v.type # "NOTHING" /\ Finish(v)
        \/ PostError("EPROTO")
    BY <1>5 DEF HdlrString, Value
  <2>3. Stack' /\ TopFrame'
    BY <1>0, <2>1, <2>2, FinishKeeps, ErrorKeeps
  <2> QED
    BY <2>1, <2>3 DEF IInv
<1>6. CASE HdlrObjectComma
  <2>1. top.value = NoValue /\ top.type # "NOTHING" /\ NoAbort'
    BY <1>0, <1>6 DEF HdlrObjectComma, TopFrame, NoAbort, InContainer
  <2>2. MoveState("DONE") \/ MoveState("KEY_STRING") \/ PostError("EPROTO")
    BY <1>6 DEF HdlrObjectComma
  <2>3. Stack' /\ TopFrame'
    BY <1>0, <2>1, <2>2, MoveKeeps, ErrorKeeps
    DEF MoveState, InScalar, InContainer
  <2> QED
    BY <2>1, <2>3 DEF IInv
<1>7. CASE HdlrArray
  <2>1. top.value = NoValue /\ top.key = NoText /\ NoAbort' /\ below' = below
    BY <1>0, <1>7 DEF HdlrArray, TopFrame, NoAbort
  <2>2. \E ps \in {"DONE", "ARRAY_VALUE"} : Become("ARRAY", ps)
    BY <1>7 DEF HdlrArray
  <2>3. Stack' /\ TopFrame'
    BY <1>0, <2>1, <2>2, BecomeKeeps
  <2> QED
    BY <2>1, <2>3 DEF IInv
<1>8. CASE HdlrBareword
  <2>1. top.value = NoValue /\ below # <<>> /\ NoAbort'
    BY <1>0, <1>8 DEF HdlrBareword, TopFrame, NoAbort, InScalar
  <2>2. \/ \E v : v.type # "NOTHING" /\ Finish(v)
        \/ PostError("EPROTO")
    BY <1>8 DEF HdlrBareword, Value
  <2>3. Stack' /\ TopFrame'
    BY <1>0, <2>1, <2>2, FinishKeeps, ErrorKeeps
  <2> QED
    BY <2>1, <2>3 DEF IInv
<1>9. CASE HdlrNumber
  <2>1. top.value = NoValue /\ below # <<>> /\ NoAbort'
    BY <1>0, <1>9 DEF HdlrNumber, TopFrame, NoAbort, InScalar
  <2>2. \/ \E v : v.type # "NOTHING" /\ Finish(v)
        \/ \E e : PostError(e)
    BY <1>9 DEF HdlrNumber, Value
  <2>3. Stack' /\ TopFrame'
    BY <1>0, <2>1, <2>2, FinishKeeps, ErrorKeeps
  <2> QED
    BY <2>1, <2>3 DEF IInv
<1>10. CASE HdlrArrayValue
  <2>1. top.value = NoValue /\ top.type # "NOTHING" /\ top.key = NoText
    BY <1>0, <1>10 DEF HdlrArrayValue, TopFrame, InContainer
  <2> DEFINE f == [top EXCEPT !.key = Plain(ToString(top.idx)), !.idx = @ + 1]
  <2>2. StartValue(f, Tok, "ARRAY_COMMA") /\ NoAbort'
    BY <1>0, <1>10, <2>1 DEF HdlrArrayValue, NoAbort
  <2>3. DOMAIN f = Fields /\ f.type # "NOTHING" /\ f.value = NoValue
    BY <1>0, <2>1 DEF TopFrame, Fields
  <2> HIDE DEF f
  <2>4. Stack' /\ TopFrame'
    BY <1>0, <2>2, <2>3, StartKeeps
  <2> QED
    BY <2>2, <2>4 DEF IInv
<1>11. CASE HdlrArrayComma
  <2>1. /\ top.value = NoValue /\ top.type # "NOTHING" /\ top.key = NoText
        /\ NoAbort'
    BY <1>0, <1>11 DEF HdlrArrayComma, TopFrame, NoAbort, InContainer
  <2>2. MoveState("DONE") \/ MoveState("ARRAY_VALUE") \/ PostError("EPROTO")
    BY <1>11 DEF HdlrArrayComma
  <2>3. Stack' /\ TopFrame'
    BY <1>0, <2>1, <2>2, MoveKeeps, ErrorKeeps
    DEF MoveState, InScalar, InContainer
  <2> QED
    BY <2>1, <2>3 DEF IInv
<1> QED
  BY <1>1, <1>2, <1>3, <1>4, <1>5, <1>6, <1>7, <1>8, <1>9, <1>10, <1>11
  DEF Handler

\* The loop around the handlers keeps it: storing, freeing, failing.
LEMMA LoopKeeps ==
    ASSUME IInv, Pop \/ Done \/ Failed \/ OutOfMemory \/ UNCHANGED vars
    PROVE  IInv'
<1> USE DEF In
<1>0. Stack /\ TopFrame /\ NoAbort
  BY DEF IInv
<1>1. CASE Pop
  <2>1. top.type # "NOTHING" /\ below # <<>>
    BY <1>0, <1>1 DEF Pop, TopFrame
  <2>2. Last(below).ps \notin {"DONE", "ERROR"}
    BY <1>0, <2>1, FrontWaits DEF Waits
  <2>3. /\ top' = [Last(below) EXCEPT !.key = NoText]
        /\ below' = Front(below)
        /\ status' = status
    BY <1>1, <2>1, <2>2 DEF Pop, StoreValue
  <2>4. Waits(Last(below)) /\ Stack'
    BY <1>0, <2>1, <2>3, FrontWaits
  <2>5. TopFrame'
    BY <2>3, <2>4 DEF TopFrame, Waits, Fields, InScalar, InContainer
  <2> QED
    BY <1>0, <2>3, <2>4, <2>5 DEF IInv, NoAbort
<1>2. CASE Done \/ Failed
  <2>1. top.value = NoValue
    BY <1>0, <1>2 DEF Done, Failed, TopFrame
  <2>2. \A f \in Range(below) : f.value = NoValue
    <3>1. PICK S : below \in Seq(S)
      BY <1>0 DEF Stack
    <3> QED
      BY <1>0, <3>1 DEF Range, Stack, Waits
  <2>3. NoAbort'
    BY <1>2, <2>1, <2>2 DEF Done, Failed, Cleanup, NoAbort
  <2>4. UNCHANGED <<top, below>>
    BY <1>2 DEF Done, Failed, Cleanup
  <2> QED
    BY <1>0, <2>3, <2>4 DEF IInv, Stack, TopFrame
<1>3. CASE OutOfMemory
  <2>1. /\ top' = [top EXCEPT !.ps = "ERROR", !.value = NoValue]
        /\ below' = below /\ status' = status
    BY <1>3 DEF OutOfMemory
  <2>2. Stack' /\ NoAbort'
    BY <1>0, <2>1 DEF Stack, NoAbort
  <2>3. TopFrame'
    BY <1>0, <2>1 DEF TopFrame, Fields, InScalar, InContainer
  <2> QED
    BY <2>2, <2>3 DEF IInv
<1>4. CASE UNCHANGED vars
  BY <1>0, <1>4 DEF vars, IInv, Stack, TopFrame, NoAbort
<1> QED
  BY <1>1, <1>2, <1>3, <1>4

\* None of the abort() calls of json-nvlist.c is reached, for every text,
\* also a malformed one, and with an allocation failing at any point.
THEOREM NeverAborts == Spec => []NoAbort
<1>1. IInv /\ [Next]_vars => IInv'
  BY HandlerKeeps, LoopKeeps DEF Next, Step, Ended
<1>2. IInv => NoAbort
  BY DEF IInv
<1> QED
  BY InitIInv, <1>1, <1>2, PTL DEF Spec

=============================================================================
