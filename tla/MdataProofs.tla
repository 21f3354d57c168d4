----------------------------- MODULE MdataProofs -----------------------------
(***************************************************************************)
(* Proofs about Mdata: for a client in a zone the client library, the line *)
(* and the agent implement MdataService, for every number of calls,        *)
(* timeouts, restarts and changes from outside.                            *)
(*                                                                         *)
(* A zone's client makes a new connection after every failure.  So what is *)
(* on its way is of connections that are gone, except perhaps for the last *)
(* request, and that is the one the client waits for (ZoneInv).            *)
(*                                                                         *)
(* What a recursive function computes is shown by induction over sets of   *)
(* numbers (Induct): the changes on the line after a request is sent, is   *)
(* read or loses its connection, and the lines the client has appended.    *)
(***************************************************************************)
EXTENDS Mdata, FiniteSetTheorems, SequenceTheorems, TLAPS

\* A set of numbers that is not empty has a least member.
LEMMA LeastNumber ==
    ASSUME NEW T, T \subseteq Nat, T # {}
    PROVE  \E x \in T : \A y \in T : x <= y
<1>1. PICK x \in T : \A y \in T : ~(<<y, x>> \in OpToRel(<, Nat))
  BY NatLessThanWellFounded, WFMin
<1>2. ASSUME NEW y \in T PROVE x <= y
  <2>1. x \in Nat /\ y \in Nat
    OBVIOUS
  <2>2. ~(y < x)
    BY <1>1, <2>1 DEF OpToRel
  <2> QED
    BY <2>1, <2>2
<1> QED
  BY <1>2

\* Induction: what holds of 0 and is handed on to the next holds of all.
LEMMA Induct ==
    ASSUME NEW S, 0 \in S, NEW n \in Nat,
           \A k \in 0..(n - 1) : k \in S => k + 1 \in S
    PROVE  \A k \in 0..n : k \in S
<1> SUFFICES ASSUME NEW m \in 0..n, m \notin S PROVE FALSE
  OBVIOUS
<1> DEFINE T == {k \in 0..n : k \notin S}
<1>1. T \subseteq Nat /\ m \in T
  OBVIOUS
<1>2. PICK x \in T : \A y \in T : x <= y
  <2> HIDE DEF T
  <2> QED
    BY <1>1, LeastNumber
<1>3. x \in Nat /\ x # 0 /\ x <= n /\ x \notin S
  BY <1>2
<1>4. x - 1 \in 0..(n - 1) /\ (x - 1) + 1 = x /\ x - 1 \notin T
  BY <1>2, <1>3
<1>5. x - 1 \in S
  BY <1>3, <1>4
<1> QED
  BY <1>3, <1>4, <1>5

-----------------------------------------------------------------------------
(* The changes on the line.                                                 *)

CallSet == [cmd : Cmd \cup {"none"}, val : Val \cup {Nil, Empty}, n : Nat]
ReqSet == [t : {"newline", "NEGOTIATE", "V1", "V2", "damaged"}, id : Nat,
           call : CallSet, live : BOOLEAN]
ChangeSet == {c \in CallSet : c.val # Empty /\ c.cmd \in {"PUT", "DELETE"}}
UpdSet == [call : ChangeSet, id : Nat, live : BOOLEAN]

Follows(f, s, i) ==
    IF i = 0 THEN <<>>
    ELSE IF IsUpdate(s[i]) THEN Append(f[i - 1], s[i].call)
    ELSE f[i - 1]

\* f counts the changes among the first n requests of s.
Counts(f, s, n) ==
    /\ f = [i \in 0..n |-> f[i]]
    /\ \A i \in 0..n : f[i] = Follows(f, s, i)

LEMMA CountsExists ==
    ASSUME NEW s, NEW n \in Nat
    PROVE  \E f : Counts(f, s, n)
<1> DEFINE S == {k \in Nat : \E f : Counts(f, s, k)}
<1>1. 0 \in S
  <2> DEFINE f == [i \in 0..0 |-> <<>>]
  <2>1. Counts(f, s, 0)
    BY DEF Counts, Follows
  <2> QED
    BY <2>1
<1>2. ASSUME NEW k \in 0..(n - 1), k \in S
      PROVE  k + 1 \in S
  <2>1. PICK f : Counts(f, s, k)
    BY <1>2
  <2> DEFINE g == [i \in 0..(k + 1) |->
                      IF i <= k THEN f[i] ELSE Follows(f, s, k + 1)]
  <2>2. \A i \in 0..k : g[i] = f[i]
    OBVIOUS
  <2>3. g[k + 1] = Follows(f, s, k + 1)
    OBVIOUS
  <2>4. g = [i \in 0..(k + 1) |-> g[i]]
    OBVIOUS
  <2> HIDE DEF g
  <2>5. \A i \in 0..k : Follows(g, s, i) = Follows(f, s, i)
    BY <2>2 DEF Follows
  <2>6. Follows(g, s, k + 1) = Follows(f, s, k + 1)
    BY <2>2 DEF Follows
  <2>7. ASSUME NEW i \in 0..(k + 1) PROVE g[i] = Follows(g, s, i)
    <3>1. CASE i \in 0..k
      BY <2>1, <2>2, <2>5, <3>1 DEF Counts
    <3>2. CASE i = k + 1
      BY <2>3, <2>6, <3>2
    <3> QED
      BY <3>1, <3>2
  <2>8. Counts(g, s, k + 1)
    BY <2>4, <2>7 DEF Counts
  <2> QED
    BY <2>8
<1>3. \A k \in 0..n : k \in S
  <2> HIDE DEF S
  <2> QED
    BY <1>1, <1>2, Induct
<1> QED
  BY <1>3

\* What ChangesIn computes is the last value of such a function.
LEMMA ChangesCounts ==
    ASSUME NEW s, Len(s) \in Nat
    PROVE  \E f : Counts(f, s, Len(s)) /\ ChangesIn(s) = f[Len(s)]
<1> DEFINE P(f) == f = [i \in 0..Len(s) |->
                           IF i = 0 THEN <<>>
                           ELSE IF IsUpdate(s[i]) THEN Append(f[i - 1], s[i].call)
                           ELSE f[i - 1]]
<1>1. PICK f : Counts(f, s, Len(s))
  BY CountsExists
<1>2. P(f)
  BY <1>1 DEF Counts, Follows
<1>3. ChangesIn(s) = (CHOOSE g : P(g))[Len(s)]
  BY DEF ChangesIn
<1> DEFINE g == CHOOSE g : P(g)
<1>4. P(g)
  <2> HIDE DEF P
  <2> QED
    BY <1>2
<1> HIDE DEF g
<1>5. Counts(g, s, Len(s))
  BY <1>4 DEF Counts, Follows
<1> QED
  BY <1>3, <1>5 DEF g

\* A change that moves from the line to the updates keeps its place.
LEMMA CallsMove ==
    ASSUME NEW a \in Seq(CallSet), NEW b \in Seq(CallSet), NEW x \in CallSet
    PROVE  Append(a, x) \o b = a \o (<<x>> \o b)
<1> DEFINE u == Append(a, x) \o b
           v == a \o (<<x>> \o b)
<1>1. u \in Seq(CallSet) /\ v \in Seq(CallSet)
  OBVIOUS
<1>2. Len(u) = Len(a) + Len(b) + 1 /\ Len(v) = Len(u)
  OBVIOUS
<1>3. \A i \in 1..Len(u) : u[i] = v[i]
  OBVIOUS
<1> HIDE DEF u, v
<1>4. u = v
  BY <1>1, <1>2, <1>3, SeqEqual
<1> QED
  BY <1>4 DEF u, v

LEMMA CallsTail ==
    ASSUME NEW a \in Seq(CallSet), NEW b \in Seq(CallSet), a # <<>>
    PROVE  Tail(a \o b) = Tail(a) \o b /\ Head(a \o b) = Head(a) /\ a \o b # <<>>
<1> DEFINE u == Tail(a \o b)
           v == Tail(a) \o b
<1>0. a \o b \in Seq(CallSet) /\ Len(a \o b) = Len(a) + Len(b) /\ Len(a) \in Nat \ {0}
      /\ Len(b) \in Nat
  OBVIOUS
<1>1. u \in Seq(CallSet) /\ v \in Seq(CallSet)
  BY <1>0
<1>2. Len(u) = Len(a) + Len(b) - 1 /\ Len(v) = Len(u)
  BY <1>0
<1>3. \A i \in 1..Len(u) : u[i] = v[i]
  BY <1>0, <1>2
<1> HIDE DEF u, v
<1>4. u = v
  BY <1>1, <1>2, <1>3, SeqEqual
<1>5. Head(a \o b) = Head(a) /\ a \o b # <<>>
  BY <1>0
<1> QED
  BY <1>4, <1>5 DEF u, v

LEMMA CallsAppend ==
    ASSUME NEW a \in Seq(CallSet), NEW b \in Seq(CallSet), NEW x \in CallSet
    PROVE  Append(a \o b, x) = a \o Append(b, x)
<1> DEFINE u == Append(a \o b, x)
           v == a \o Append(b, x)
<1>1. u \in Seq(CallSet) /\ v \in Seq(CallSet)
  OBVIOUS
<1>2. Len(u) = Len(a) + Len(b) + 1 /\ Len(v) = Len(u)
  OBVIOUS
<1>3. \A i \in 1..Len(u) : u[i] = v[i]
  OBVIOUS
<1> HIDE DEF u, v
<1>4. u = v
  BY <1>1, <1>2, <1>3, SeqEqual
<1> QED
  BY <1>4 DEF u, v

\* Lists that agree in what changes they have in the first n count the same.
LEMMA CountsSame ==
    ASSUME NEW s, NEW t, NEW n \in Nat, NEW f, NEW g,
           Counts(f, s, n), Counts(g, t, n),
           \A i \in 1..n : /\ IsUpdate(s[i]) <=> IsUpdate(t[i])
                           /\ IsUpdate(s[i]) => s[i].call = t[i].call
    PROVE  f[n] = g[n]
<1> DEFINE S == {i \in 0..n : f[i] = g[i]}
<1>1. 0 \in S
  BY DEF Counts, Follows
<1>2. ASSUME NEW k \in 0..(n - 1), k \in S
      PROVE  k + 1 \in S
  <2>1. k + 1 \in 0..n /\ k + 1 \in 1..n /\ k + 1 # 0 /\ (k + 1) - 1 = k
    OBVIOUS
  <2>2. f[k + 1] = Follows(f, s, k + 1) /\ g[k + 1] = Follows(g, t, k + 1)
    BY <2>1 DEF Counts
  <2>3. f[k] = g[k]
    BY <1>2
  <2>4. Follows(f, s, k + 1) = Follows(g, t, k + 1)
    BY <2>1, <2>3 DEF Follows
  <2> QED
    BY <2>1, <2>2, <2>4
<1>3. \A k \in 0..n : k \in S
  <2> HIDE DEF S
  <2> QED
    BY <1>1, <1>2, Induct
<1> QED
  BY <1>3

LEMMA CountsType ==
    ASSUME NEW s, NEW n \in Nat, NEW f, Counts(f, s, n),
           \A i \in 1..n : s[i].call \in CallSet
    PROVE  \A i \in 0..n : f[i] \in Seq(CallSet)
<1> DEFINE S == {i \in 0..n : f[i] \in Seq(CallSet)}
<1>1. 0 \in S
  <2>1. 0 \in 0..n /\ f[0] = <<>>
    BY DEF Counts, Follows
  <2>2. <<>> \in Seq(CallSet)
    OBVIOUS
  <2> QED
    BY <2>1, <2>2
<1>2. ASSUME NEW k \in 0..(n - 1), k \in S
      PROVE  k + 1 \in S
  <2>1. k + 1 \in 0..n /\ k + 1 \in 1..n /\ k + 1 # 0 /\ (k + 1) - 1 = k
    OBVIOUS
  <2>2. f[k + 1] = Follows(f, s, k + 1)
    BY <2>1 DEF Counts
  <2>3. f[k] \in Seq(CallSet)
    BY <1>2
  <2>4. s[k + 1].call \in CallSet
    BY <2>1
  <2> HIDE DEF CallSet
  <2>5. Append(f[k], s[k + 1].call) \in Seq(CallSet)
    BY <2>3, <2>4
  <2>6. Follows(f, s, k + 1) \in Seq(CallSet)
    BY <2>1, <2>3, <2>5 DEF Follows
  <2> QED
    BY <2>1, <2>2, <2>6
<1>3. \A k \in 0..n : k \in S
  <2> HIDE DEF S
  <2> QED
    BY <1>1, <1>2, Induct
<1> QED
  BY <1>3

LEMMA ReqFields ==
    ASSUME NEW s \in Seq(ReqSet), NEW i \in 1..Len(s)
    PROVE  /\ s[i] \in ReqSet /\ s[i].call \in CallSet /\ s[i].id \in Nat
           /\ s[i].live \in BOOLEAN
<1>1. s[i] \in ReqSet
  <2> HIDE DEF ReqSet
  <2> QED
    OBVIOUS
<1> HIDE DEF CallSet
<1> QED
  BY <1>1 DEF ReqSet

LEMMA ChangesType ==
    ASSUME NEW s \in Seq(ReqSet)
    PROVE  ChangesIn(s) \in Seq(CallSet)
<1>1. Len(s) \in Nat
  OBVIOUS
<1>2. PICK f : Counts(f, s, Len(s)) /\ ChangesIn(s) = f[Len(s)]
  BY <1>1, ChangesCounts
<1>3. \A i \in 1..Len(s) : s[i].call \in CallSet
  BY ReqFields
<1> QED
  BY <1>1, <1>2, <1>3, CountsType

LEMMA ChangesNone == ChangesIn(<<>>) = <<>>
<1>1. Len(<<>>) = 0
  OBVIOUS
<1>2. PICK f : Counts(f, <<>>, 0) /\ ChangesIn(<<>>) = f[0]
  BY <1>1, ChangesCounts
<1> QED
  BY <1>2 DEF Counts, Follows

\* A request that is sent comes last.
LEMMA ChangesAppend ==
    ASSUME NEW s \in Seq(ReqSet), NEW r \in ReqSet
    PROVE  ChangesIn(Append(s, r)) =
               IF IsUpdate(r) THEN Append(ChangesIn(s), r.call) ELSE ChangesIn(s)
<1> DEFINE n == Len(s)
           t == Append(s, r)
<1>1. /\ n \in Nat /\ Len(t) = n + 1 /\ t[n + 1] = r
      /\ \A i \in 1..n : t[i] = s[i]
  <2> HIDE DEF ReqSet
  <2> QED
    OBVIOUS
<1> HIDE DEF n, t
<1>2. PICK f : Counts(f, s, n) /\ ChangesIn(s) = f[n]
  BY <1>1, ChangesCounts DEF n
<1>3. PICK g : Counts(g, t, n + 1) /\ ChangesIn(t) = g[n + 1]
  BY <1>1, ChangesCounts
<1> DEFINE h == [i \in 0..n |-> g[i]]
<1>4. \A i \in 0..n : h[i] = g[i]
  OBVIOUS
<1>5. h = [i \in 0..n |-> h[i]]
  OBVIOUS
<1> HIDE DEF h
<1>6. Counts(h, t, n)
  <2>1. ASSUME NEW i \in 0..n PROVE h[i] = Follows(h, t, i)
    <3>1. i \in 0..(n + 1) /\ (i # 0 => i - 1 \in 0..n)
      BY <1>1
    <3>2. g[i] = Follows(g, t, i)
      BY <1>3, <3>1 DEF Counts
    <3>3. Follows(h, t, i) = Follows(g, t, i)
      BY <1>4, <3>1 DEF Follows
    <3> QED
      BY <1>4, <3>2, <3>3
  <2> QED
    BY <1>5, <2>1 DEF Counts
<1>7. f[n] = h[n]
  BY <1>1, <1>2, <1>6, CountsSame
<1>8. g[n + 1] = Follows(g, t, n + 1)
  BY <1>1, <1>3 DEF Counts
<1>9. Follows(g, t, n + 1) = IF IsUpdate(r) THEN Append(g[n], r.call) ELSE g[n]
  <2>1. n + 1 # 0 /\ (n + 1) - 1 = n
    BY <1>1
  <2> QED
    BY <1>1, <2>1 DEF Follows
<1>10. g[n] = ChangesIn(s)
  BY <1>1, <1>2, <1>4, <1>7
<1> QED
  BY <1>3, <1>8, <1>9, <1>10 DEF t

\* The head of the line is its first change, if it is one.
LEMMA ChangesHead ==
    ASSUME NEW s \in Seq(ReqSet), s # <<>>
    PROVE  ChangesIn(s) = IF IsUpdate(Head(s))
                          THEN <<Head(s).call>> \o ChangesIn(Tail(s))
                          ELSE ChangesIn(Tail(s))
<1> DEFINE t == Tail(s)
           n == Len(t)
           r == Head(s)
<1>1. /\ n \in Nat /\ Len(s) = n + 1 /\ s[1] = r /\ r \in ReqSet
      /\ t \in Seq(ReqSet)
      /\ \A i \in 1..n : t[i] = s[i + 1]
  <2> HIDE DEF ReqSet
  <2> QED
    OBVIOUS
<1> HIDE DEF n, t, r
<1>2. PICK f : Counts(f, s, n + 1) /\ ChangesIn(s) = f[n + 1]
  BY <1>1, ChangesCounts
<1>3. PICK g : Counts(g, t, n) /\ ChangesIn(t) = g[n]
  BY <1>1, ChangesCounts DEF n
<1>4. \A i \in 0..n : g[i] \in Seq(CallSet)
  BY <1>1, <1>3, ReqFields, CountsType DEF n
<1>5. r.call \in CallSet
  <2> HIDE DEF CallSet
  <2> QED
    BY <1>1 DEF ReqSet
<1> DEFINE pre == IF IsUpdate(r) THEN <<r.call>> ELSE <<>>
<1>6. pre \in Seq(CallSet)
  <2> HIDE DEF CallSet
  <2> QED
    BY <1>5
<1> DEFINE S == {i \in 0..n : f[i + 1] = pre \o g[i]}
<1> HIDE DEF CallSet
<1>7. 0 \in S
  <2>0. /\ 0 \in 0..n /\ 0 \in 0..(n + 1) /\ 1 \in 0..(n + 1)
        /\ 1 # 0 /\ 1 - 1 = 0 /\ 0 + 1 = 1
    BY <1>1
  <2>1. f[1] = Follows(f, s, 1) /\ f[0] = Follows(f, s, 0) /\ g[0] = Follows(g, t, 0)
    BY <2>0, <1>2, <1>3 DEF Counts
  <2>2. f[0] = <<>> /\ g[0] = <<>>
    BY <2>1 DEF Follows
  <2>3. Follows(f, s, 1) = pre
    <3>1. Follows(f, s, 1) = IF IsUpdate(r) THEN Append(<<>>, r.call) ELSE <<>>
      BY <1>1, <2>0, <2>2 DEF Follows
    <3>2. Append(<<>>, r.call) = <<r.call>>
      OBVIOUS
    <3> QED
      BY <3>1, <3>2
  <2>4. pre \o <<>> = pre
    <3> HIDE DEF pre
    <3> QED
      BY <1>6
  <2> HIDE DEF pre
  <2> QED
    BY <2>0, <2>1, <2>2, <2>3, <2>4
<1>8. ASSUME NEW k \in 0..(n - 1), k \in S
      PROVE  k + 1 \in S
  <2>1. /\ k + 1 \in 0..n /\ k + 1 \in 1..n /\ k + 1 # 0 /\ (k + 1) - 1 = k
        /\ (k + 1) + 1 \in 0..(n + 1) /\ (k + 1) + 1 # 0
        /\ ((k + 1) + 1) - 1 = k + 1 /\ k \in 0..n
    BY <1>1
  <2>2. f[(k + 1) + 1] = Follows(f, s, (k + 1) + 1)
    BY <1>2, <2>1 DEF Counts
  <2>3. g[k + 1] = Follows(g, t, k + 1)
    BY <1>3, <2>1 DEF Counts
  <2>4. t[k + 1] = s[(k + 1) + 1]
    BY <1>1, <2>1
  <2>5. f[k + 1] = pre \o g[k]
    BY <1>8
  <2> DEFINE c == t[k + 1].call
  <2>6. c \in CallSet
    BY <1>1, <2>1, ReqFields DEF n
  <2>7. Append(pre \o g[k], c) = pre \o Append(g[k], c)
    <3>1. g[k] \in Seq(CallSet)
      BY <1>4, <2>1
    <3> HIDE DEF pre, c, S
    <3> QED
      BY <1>6, <2>6, <3>1, CallsAppend
  <2> HIDE DEF pre, c
  <2>8. f[(k + 1) + 1] = IF IsUpdate(t[k + 1]) THEN Append(f[k + 1], c)
                         ELSE f[k + 1]
    BY <2>1, <2>2, <2>4 DEF Follows, c
  <2>9. g[k + 1] = IF IsUpdate(t[k + 1]) THEN Append(g[k], c) ELSE g[k]
    BY <2>1, <2>3 DEF Follows, c
  <2> QED
    BY <2>1, <2>5, <2>7, <2>8, <2>9
<1>9. \A k \in 0..n : k \in S
  <2> HIDE DEF S
  <2> QED
    BY <1>1, <1>7, <1>8, Induct
<1>10. f[n + 1] = pre \o g[n]
  <2>1. n \in 0..n
    BY <1>1
  <2> HIDE DEF pre
  <2> QED
    BY <1>9, <2>1
<1>11. <<>> \o g[n] = g[n]
  BY <1>1, <1>4
<1> QED
  BY <1>2, <1>3, <1>10, <1>11 DEF t, r

\* The end of a connection takes no change back.
LEMMA ChangesDead ==
    ASSUME NEW s \in Seq(ReqSet), Serial \in BOOLEAN
    PROVE  /\ Dead(s) \in Seq(ReqSet) /\ Len(Dead(s)) = Len(s)
           /\ \A i \in 1..Len(s) : Dead(s)[i].live = Serial
           /\ ChangesIn(Dead(s)) = ChangesIn(s)
<1> DEFINE n == Len(s)
           t == Dead(s)
<1>1. n \in Nat /\ DOMAIN s = 1..n
  OBVIOUS
<1>2. t = [i \in 1..n |-> [s[i] EXCEPT !.live = Serial]]
  BY <1>1 DEF Dead
<1>3. ASSUME NEW i \in 1..n
      PROVE  /\ t[i] \in ReqSet /\ t[i].live = Serial
             /\ IsUpdate(s[i]) <=> IsUpdate(t[i])
             /\ s[i].call = t[i].call
  <2>1. s[i] \in ReqSet
    BY ReqFields
  <2>2. t[i] = [s[i] EXCEPT !.live = Serial]
    BY <1>2
  <2>3. /\ t[i] \in ReqSet /\ t[i].live = Serial
        /\ s[i].call = t[i].call /\ s[i].t = t[i].t
    BY <2>1, <2>2 DEF ReqSet
  <2> QED
    BY <2>3 DEF IsUpdate
<1>4. t \in Seq(ReqSet) /\ Len(t) = n
  <2>1. t \in [1..n -> ReqSet]
    BY <1>2, <1>3
  <2> QED
    BY <1>1, <2>1, IsASeq, LenProperties
<1> HIDE DEF n, t
<1>5. PICK f : Counts(f, s, n) /\ ChangesIn(s) = f[n]
  BY <1>1, ChangesCounts DEF n
<1>6. PICK g : Counts(g, t, n) /\ ChangesIn(t) = g[n]
  BY <1>1, <1>4, ChangesCounts
<1>7. f[n] = g[n]
  <2>1. \A i \in 1..n : /\ IsUpdate(s[i]) <=> IsUpdate(t[i])
                        /\ IsUpdate(s[i]) => s[i].call = t[i].call
    BY <1>3
  <2>2. n \in Nat /\ Counts(f, s, n) /\ Counts(g, t, n)
    BY <1>1, <1>5, <1>6
  <2> QED
    BY <2>1, <2>2, CountsSame
<1> QED
  BY <1>3, <1>4, <1>5, <1>6, <1>7 DEF n, t

LEMMA UpdFields ==
    ASSUME NEW s \in Seq(UpdSet), NEW i \in 1..Len(s)
    PROVE  /\ s[i] \in UpdSet /\ s[i].call \in CallSet /\ s[i].id \in Nat
           /\ s[i].live \in BOOLEAN
<1>1. s[i] \in UpdSet
  <2> HIDE DEF UpdSet
  <2> QED
    OBVIOUS
<1> HIDE DEF CallSet
<1> QED
  BY <1>1 DEF UpdSet, ChangeSet

LEMMA CallsOfType ==
    ASSUME NEW s \in Seq(UpdSet)
    PROVE  /\ CallsOf(s) \in Seq(CallSet) /\ Len(CallsOf(s)) = Len(s)
           /\ \A i \in 1..Len(s) : CallsOf(s)[i] = s[i].call
<1>1. CallsOf(s) = [i \in 1..Len(s) |-> s[i].call] /\ Len(s) \in Nat
  BY DEF CallsOf
<1>2. CallsOf(s) \in [1..Len(s) -> CallSet]
  BY <1>1, UpdFields
<1>3. CallsOf(s) \in Seq(CallSet) /\ Len(CallsOf(s)) = Len(s)
  BY <1>1, <1>2, IsASeq, LenProperties
<1> QED
  BY <1>1, <1>3

LEMMA CallsOfNone == CallsOf(<<>>) = <<>>
<1>1. <<>> \in Seq(UpdSet)
  OBVIOUS
<1>2. Len(CallsOf(<<>>)) = 0 /\ CallsOf(<<>>) \in Seq(CallSet)
  BY <1>1, CallsOfType
<1> QED
  BY <1>2

LEMMA CallsOfAppend ==
    ASSUME NEW s \in Seq(UpdSet), NEW u \in UpdSet
    PROVE  CallsOf(Append(s, u)) = Append(CallsOf(s), u.call)
<1> DEFINE t == Append(s, u)
           a == CallsOf(t)
           b == Append(CallsOf(s), u.call)
<1>1. /\ t \in Seq(UpdSet) /\ Len(t) = Len(s) + 1 /\ Len(s) \in Nat
      /\ \A i \in 1..Len(s) : t[i] = s[i]
      /\ t[Len(s) + 1] = u
  OBVIOUS
<1>2. u.call \in CallSet
  <2> HIDE DEF CallSet
  <2> QED
    BY DEF UpdSet, ChangeSet
<1> HIDE DEF t
<1>3. a \in Seq(CallSet) /\ Len(a) = Len(s) + 1
      /\ \A i \in 1..Len(s) + 1 : a[i] = t[i].call
  BY <1>1, CallsOfType
<1>4. CallsOf(s) \in Seq(CallSet) /\ Len(CallsOf(s)) = Len(s)
      /\ \A i \in 1..Len(s) : CallsOf(s)[i] = s[i].call
  BY CallsOfType
<1>5. b \in Seq(CallSet) /\ Len(b) = Len(s) + 1
      /\ b[Len(s) + 1] = u.call
      /\ \A i \in 1..Len(s) : b[i] = s[i].call
  BY <1>1, <1>2, <1>4
<1> HIDE DEF a, b
<1>6. \A i \in 1..Len(a) : a[i] = b[i]
  BY <1>1, <1>3, <1>5
<1>7. a = b
  BY <1>3, <1>5, <1>6, SeqEqual
<1> QED
  BY <1>7 DEF a, b, t

LEMMA CallsOfTail ==
    ASSUME NEW s \in Seq(UpdSet), s # <<>>
    PROVE  /\ CallsOf(s) # <<>> /\ Head(CallsOf(s)) = Head(s).call
           /\ CallsOf(Tail(s)) = Tail(CallsOf(s))
<1> DEFINE t == Tail(s)
           a == CallsOf(t)
           b == Tail(CallsOf(s))
<1>1. /\ t \in Seq(UpdSet) /\ Len(t) = Len(s) - 1 /\ Len(s) \in Nat \ {0}
      /\ \A i \in 1..Len(t) : t[i] = s[i + 1]
      /\ Head(s) = s[1]
  OBVIOUS
<1> HIDE DEF t
<1>3. a \in Seq(CallSet) /\ Len(a) = Len(s) - 1
      /\ \A i \in 1..Len(t) : a[i] = t[i].call
  BY <1>1, CallsOfType
<1>4. CallsOf(s) \in Seq(CallSet) /\ Len(CallsOf(s)) = Len(s)
      /\ \A i \in 1..Len(s) : CallsOf(s)[i] = s[i].call
  BY CallsOfType
<1>5. /\ b \in Seq(CallSet) /\ Len(b) = Len(s) - 1
      /\ \A i \in 1..Len(b) : b[i] = CallsOf(s)[i + 1]
      /\ CallsOf(s) # <<>> /\ Head(CallsOf(s)) = CallsOf(s)[1]
  BY <1>1, <1>4
<1> HIDE DEF a, b
<1>6. \A i \in 1..Len(a) : a[i] = b[i]
  BY <1>1, <1>3, <1>4, <1>5
<1>7. a = b
  BY <1>3, <1>5, <1>6, SeqEqual
<1> QED
  BY <1>1, <1>4, <1>5, <1>7 DEF a, b, t

LEMMA CallsOfDead ==
    ASSUME NEW s \in Seq(UpdSet), Serial \in BOOLEAN
    PROVE  /\ Dead(s) \in Seq(UpdSet) /\ Len(Dead(s)) = Len(s)
           /\ \A i \in 1..Len(s) : Dead(s)[i].live = Serial
           /\ CallsOf(Dead(s)) = CallsOf(s)
<1> DEFINE n == Len(s)
           t == Dead(s)
<1>1. n \in Nat /\ DOMAIN s = 1..n
  OBVIOUS
<1>2. t = [i \in 1..n |-> [s[i] EXCEPT !.live = Serial]]
  BY <1>1 DEF Dead
<1>3. ASSUME NEW i \in 1..n
      PROVE  t[i] \in UpdSet /\ t[i].live = Serial /\ s[i].call = t[i].call
  <2>1. s[i] \in UpdSet
    BY UpdFields
  <2>2. t[i] = [s[i] EXCEPT !.live = Serial]
    BY <1>2
  <2> QED
    BY <2>1, <2>2 DEF UpdSet
<1>4. t \in Seq(UpdSet) /\ Len(t) = n
  <2>1. t \in [1..n -> UpdSet]
    BY <1>2, <1>3
  <2> QED
    BY <1>1, <2>1, IsASeq, LenProperties
<1> HIDE DEF n, t
<1>5. /\ CallsOf(s) \in Seq(CallSet) /\ Len(CallsOf(s)) = n
      /\ \A i \in 1..n : CallsOf(s)[i] = s[i].call
  BY CallsOfType DEF n
<1>6. /\ CallsOf(t) \in Seq(CallSet) /\ Len(CallsOf(t)) = n
      /\ \A i \in 1..n : CallsOf(t)[i] = t[i].call
  BY <1>4, CallsOfType
<1>7. CallsOf(t) = CallsOf(s)
  BY <1>3, <1>5, <1>6, SeqEqual
<1> QED
  BY <1>3, <1>4, <1>7 DEF n, t

-----------------------------------------------------------------------------
(* Request ids.                                                             *)

LEMMA IdsFinite ==
    ASSUME NEW S, NEW s \in Seq(S)
    PROVE  IsFiniteSet({s[i].id : i \in DOMAIN s})
<1> DEFINE D == 1..Len(s)
           T == {s[i].id : i \in D}
           f == [i \in D |-> s[i].id]
<1>1. DOMAIN s = D /\ Len(s) \in Nat
  OBVIOUS
<1>2. IsFiniteSet(D)
  BY <1>1, FS_Interval
<1>3. f \in Surjection(D, T)
  BY DEF Surjection
<1> HIDE DEF D, T, f
<1>4. IsFiniteSet(T)
  BY <1>2, <1>3, FS_Surjection DEF ExistsSurjection
<1> QED
  BY <1>1, <1>4 DEF T

\* A finite set leaves a number free up to one above its size.
LEMMA FreeNumber ==
    ASSUME NEW U, IsFiniteSet(U)
    PROVE  Min((1 .. Cardinality(U) + 1) \ U) \in Nat
<1> DEFINE n == Cardinality(U)
           R == 1 .. n + 1
           F == R \ U
<1>1. n \in Nat
  BY FS_CardinalityType
<1>2. IsFiniteSet(R) /\ Cardinality(R) = n + 1
  BY <1>1, FS_Interval
<1>3. F \subseteq Nat
  BY <1>1
<1>4. F # {}
  <2> SUFFICES ASSUME F = {} PROVE FALSE
    OBVIOUS
  <2>1. R \in SUBSET U
    OBVIOUS
  <2> HIDE DEF R, n
  <2>2. Cardinality(R) <= n
    BY <2>1, FS_Subset DEF n
  <2> QED
    BY <1>1, <1>2, <2>2
<1> HIDE DEF F
<1>5. \E x \in F : \A y \in F : x <= y
  BY <1>3, <1>4, LeastNumber
<1>6. Min(F) \in F
  BY <1>5 DEF Min
<1> QED
  BY <1>3, <1>6 DEF F

LEMMA FreshIdType ==
    ASSUME toHost \in Seq(ReqSet), updates \in Seq(UpdSet), toClient = <<>>
    PROVE  FreshId \in Nat
<1> DEFINE A == {toHost[i].id : i \in DOMAIN toHost}
           B == {toClient[i].id : i \in DOMAIN toClient}
           C == {updates[i].id : i \in DOMAIN updates}
           U == A \cup B \cup C \cup {reqid}
<1>1. IsFiniteSet(A)
  BY IdsFinite
<1>2. IsFiniteSet(C)
  BY IdsFinite
<1>3. IsFiniteSet(B)
  <2>1. toClient \in Seq({})
    OBVIOUS
  <2> QED
    BY <2>1, IdsFinite
<1>4. IsFiniteSet(U)
  <2> HIDE DEF A, B, C
  <2>1. IsFiniteSet(A \cup B)
    BY <1>1, <1>3, FS_Union
  <2>2. IsFiniteSet((A \cup B) \cup C)
    BY <1>2, <2>1, FS_Union
  <2> QED
    BY <2>2, FS_AddElement
<1>5. FreshId = Min((1 .. Cardinality(U) + 1) \ U)
  BY DEF FreshId
<1> HIDE DEF U
<1> QED
  BY <1>4, <1>5, FreeNumber

-----------------------------------------------------------------------------
(* Values as lines.                                                         *)

TextSet == [dot : Nat, text : STRING \cup {"key", Service!NoText}]
LineSet == [t : {"word", "data"}, id : {0}, code : {"none", "SUCCESS"},
            data : Seq(TextSet)]

\* x is what the client has appended of the first k lines of d.
Trimmed(x, d, k) ==
    \/ x = <<>> /\ \A j \in 1..k : d[j] = Service!EmptyLine
    \/ \E m \in 1..k :
          /\ d[m] # Service!EmptyLine
          /\ \A j \in 1..(m - 1) : d[j] = Service!EmptyLine
          /\ x \in Seq(TextSet) /\ Len(x) = (k - m) + 1
          /\ \A i \in 1..Len(x) : x[i] = d[(m + i) - 1]

LEMMA TrimStep ==
    ASSUME NEW d \in Seq(TextSet), NEW k \in 0..(Len(d) - 1), NEW x, Trimmed(x, d, k)
    PROVE  Trimmed(AppendLine(x, d[k + 1]), d, k + 1)
<1> DEFINE l == d[k + 1]
           y == AppendLine(x, l)
<1>1. l \in TextSet /\ k + 1 \in 1..Len(d) /\ Len(d) \in Nat
  <2>1. Len(d) \in Nat
    OBVIOUS
  <2>2. k + 1 \in 1..Len(d)
    BY <2>1
  <2> QED
    BY <2>1, <2>2, ElementOfSeq
<1>2. CASE x = <<>> /\ \A j \in 1..k : d[j] = Service!EmptyLine
  <2>1. CASE l = Service!EmptyLine
    <3>1. y = <<>>
      BY <1>2, <2>1 DEF AppendLine
    <3>2. \A j \in 1..(k + 1) : d[j] = Service!EmptyLine
      BY <1>1, <1>2, <2>1
    <3> QED
      BY <3>1, <3>2 DEF Trimmed
  <2>2. CASE l # Service!EmptyLine
    <3>1. y = <<l>>
      BY <1>2, <2>2 DEF AppendLine
    <3> HIDE DEF l
    <3>2. y \in Seq(TextSet) /\ Len(y) = 1 /\ y[1] = l
      BY <1>1, <3>1
    <3> HIDE DEF y
    <3>3. /\ k + 1 \in 1..(k + 1) /\ ((k + 1) - (k + 1)) + 1 = 1
          /\ ((k + 1) + 1) - 1 = k + 1 /\ (k + 1) - 1 = k
      BY <1>1
    <3>4. \A i \in 1..Len(y) : y[i] = d[((k + 1) + i) - 1]
      BY <3>2, <3>3 DEF l
    <3>5. Trimmed(y, d, k + 1)
      BY <1>2, <2>2, <3>2, <3>3, <3>4 DEF Trimmed, l
    <3> QED
      BY <3>5 DEF y, l
  <2> QED
    BY <2>1, <2>2
<1>3. CASE \E m \in 1..k :
              /\ d[m] # Service!EmptyLine
              /\ \A j \in 1..(m - 1) : d[j] = Service!EmptyLine
              /\ x \in Seq(TextSet) /\ Len(x) = (k - m) + 1
              /\ \A i \in 1..Len(x) : x[i] = d[(m + i) - 1]
  <2>1. PICK m \in 1..k :
              /\ d[m] # Service!EmptyLine
              /\ \A j \in 1..(m - 1) : d[j] = Service!EmptyLine
              /\ x \in Seq(TextSet) /\ Len(x) = (k - m) + 1
              /\ \A i \in 1..Len(x) : x[i] = d[(m + i) - 1]
    BY <1>3
  <2>2. m \in Nat /\ m >= 1 /\ m <= k /\ Len(x) >= 1
    BY <2>1
  <2>3. x # <<>>
    BY <2>1, <2>2
  <2>4. y = Append(x, l)
    BY <2>3 DEF AppendLine
  <2> HIDE DEF l
  <2>5. /\ y \in Seq(TextSet) /\ Len(y) = Len(x) + 1
        /\ \A i \in 1..Len(x) : y[i] = x[i]
        /\ y[Len(x) + 1] = l
    <3>1. x \in Seq(TextSet) /\ l \in TextSet
      BY <1>1, <2>1
    <3> HIDE DEF y
    <3> QED
      BY <2>4, <3>1, AppendProperties
  <2> HIDE DEF y
  <2>6. m \in 1..(k + 1) /\ Len(y) = ((k + 1) - m) + 1
    BY <2>1, <2>2, <2>5
  <2>7. ASSUME NEW i \in 1..Len(y) PROVE y[i] = d[(m + i) - 1]
    <3>1. CASE i \in 1..Len(x)
      BY <2>1, <2>5, <3>1
    <3>2. CASE i = Len(x) + 1
      <4>1. (m + i) - 1 = k + 1
        BY <2>1, <2>2, <3>2
      <4> QED
        BY <2>5, <3>2, <4>1 DEF l
    <3> QED
      BY <2>1, <2>2, <2>5, <3>1, <3>2
  <2>8. Trimmed(y, d, k + 1)
    BY <2>1, <2>5, <2>6, <2>7 DEF Trimmed
  <2> QED
    BY <2>8 DEF y, l
<1> QED
  BY <1>2, <1>3 DEF Trimmed

\* After the last line that is the value without the empty lines in front.
LEMMA TrimDone ==
    ASSUME NEW d \in Seq(TextSet), NEW x, Trimmed(x, d, Len(d))
    PROVE  x = Service!Trim(d)
<1> DEFINE n == Len(d)
           full == {i \in 1..n : d[i] # Service!EmptyLine}
<1>1. n \in Nat /\ DOMAIN d = 1..n
  OBVIOUS
<1>2. Service!Trim(d) = IF full = {} THEN <<>> ELSE SubSeq(d, Service!Min(full), n)
  BY <1>1 DEF Service!Trim
<1>3. CASE x = <<>> /\ \A j \in 1..n : d[j] = Service!EmptyLine
  BY <1>2, <1>3
<1>4. CASE \E m \in 1..n :
              /\ d[m] # Service!EmptyLine
              /\ \A j \in 1..(m - 1) : d[j] = Service!EmptyLine
              /\ x \in Seq(TextSet) /\ Len(x) = (n - m) + 1
              /\ \A i \in 1..Len(x) : x[i] = d[(m + i) - 1]
  <2>1. PICK m \in 1..n :
              /\ d[m] # Service!EmptyLine
              /\ \A j \in 1..(m - 1) : d[j] = Service!EmptyLine
              /\ x \in Seq(TextSet) /\ Len(x) = (n - m) + 1
              /\ \A i \in 1..Len(x) : x[i] = d[(m + i) - 1]
    BY <1>4
  <2>2. m \in full /\ \A y \in full : m <= y
    BY <1>1, <2>1
  <2>3. full \subseteq Nat
    BY <1>1
  <2> HIDE DEF full
  <2>4. Service!Min(full) = m
    <3>1. Service!Min(full) = CHOOSE x0 \in full : \A y \in full : x0 <= y
      BY DEF Service!Min
    <3> DEFINE w == CHOOSE x0 \in full : \A y \in full : x0 <= y
    <3>2. w \in full /\ \A y \in full : w <= y
      BY <2>2
    <3> HIDE DEF w
    <3>3. w <= m /\ m <= w /\ w \in Nat /\ m \in Nat
      BY <2>2, <2>3, <3>2
    <3>4. w = m
      BY <3>3
    <3> QED
      BY <3>1, <3>4 DEF w
  <2> DEFINE z == SubSeq(d, m, n)
  <2>5. z \in Seq(TextSet) /\ Len(z) = (n - m) + 1
        /\ \A i \in 1..Len(z) : z[i] = d[(m + i) - 1]
    BY <1>1, <2>1, SubSeqProperties
  <2> HIDE DEF z
  <2>6. x = z
    <3>1. x \in Seq(TextSet) /\ z \in Seq(TextSet) /\ Len(x) = Len(z)
      BY <2>1, <2>5
    <3>2. \A i \in 1..Len(x) : x[i] = z[i]
      BY <2>1, <2>5
    <3> QED
      BY <3>1, <3>2, SeqEqual
  <2> QED
    BY <1>2, <2>2, <2>4, <2>6 DEF z
<1> HIDE DEF full
<1> QED
  BY <1>3, <1>4 DEF Trimmed

\* As a line on its way to the client.
Stuff(l) == IF l.dot > 0 THEN [l EXCEPT !.dot = @ + 1] ELSE l

\* What is left of an answer in version 1 after k lines of d.
Rest(lines, d, k) ==
    /\ lines \in Seq(LineSet)
    /\ Len(lines) = (Len(d) - k) + 1
    /\ \A i \in 1..(Len(d) - k) : lines[i] = DataLine(Stuff(d[k + i]))
    /\ lines[(Len(d) - k) + 1] = DataLine(EndOfData)

LEMMA DataLineType ==
    ASSUME NEW l \in TextSet
    PROVE  DataLine(l) \in LineSet
<1>1. <<l>> \in Seq(TextSet)
  <2> HIDE DEF TextSet
  <2> QED
    OBVIOUS
<1> QED
  BY <1>1 DEF DataLine, LineSet

LEMMA StuffType ==
    ASSUME NEW l \in TextSet
    PROVE  /\ Stuff(l) \in TextSet /\ Stuff(l) # EndOfData
           /\ (IF Stuff(l).dot > 0 THEN [Stuff(l) EXCEPT !.dot = @ - 1]
               ELSE Stuff(l)) = l
<1>1. /\ l = [dot |-> l.dot, text |-> l.text] /\ l.dot \in Nat
      /\ l.text \in STRING \cup {"key", Service!NoText}
  BY DEF TextSet
<1>2. EndOfData.dot = 1
  BY DEF EndOfData, TextLine
<1>3. CASE l.dot > 0
  <2>1. Stuff(l) = [dot |-> l.dot + 1, text |-> l.text]
    BY <1>1, <1>3 DEF Stuff
  <2>2. Stuff(l).dot = l.dot + 1 /\ l.dot + 1 # 1 /\ l.dot + 1 > 0
    BY <1>1, <1>3, <2>1
  <2>3. Stuff(l) \in TextSet
    BY <1>1, <2>1 DEF TextSet
  <2>4. [Stuff(l) EXCEPT !.dot = @ - 1] = [dot |-> (l.dot + 1) - 1, text |-> l.text]
    BY <2>1
  <2>5. (l.dot + 1) - 1 = l.dot
    BY <1>1
  <2> QED
    BY <1>1, <1>2, <2>2, <2>3, <2>4, <2>5
<1>4. CASE l.dot = 0
  <2>1. Stuff(l) = l
    BY <1>4 DEF Stuff
  <2> QED
    BY <1>2, <1>4, <2>1
<1> QED
  BY <1>1, <1>3, <1>4

LEMMA EndType == DataLine(EndOfData) \in LineSet
<1>1. EndOfData \in TextSet
  BY DEF EndOfData, TextLine, TextSet
<1> QED
  BY <1>1, DataLineType

\* The answer of the agent in version 1.
LEMMA RestFirst ==
    ASSUME NEW d \in Seq(TextSet)
    PROVE  LET r == <<Word("SUCCESS")>> \o Stuffed(d) \o <<DataLine(EndOfData)>>
           IN r \in Seq(LineSet) /\ r # <<>> /\ Head(r) = Word("SUCCESS")
              /\ Rest(Tail(r), d, 0)
<1> DEFINE n == Len(d)
           w == Word("SUCCESS")
           e == DataLine(EndOfData)
           s == Stuffed(d)
<1>1. n \in Nat /\ DOMAIN d = 1..n /\ \A i \in 1..n : d[i] \in TextSet
  BY ElementOfSeq
<1>2. w \in LineSet
  <2>1. <<>> \in Seq(TextSet)
    OBVIOUS
  <2> QED
    BY <2>1 DEF Word, LineSet
<1>3. e \in LineSet
  BY EndType
<1>4. s = [i \in 1..n |-> DataLine(Stuff(d[i]))]
  BY <1>1 DEF Stuffed, Stuff
<1>5. s \in [1..n -> LineSet]
  <2>1. ASSUME NEW i \in 1..n PROVE DataLine(Stuff(d[i])) \in LineSet
    BY <1>1, StuffType, DataLineType
  <2> QED
    BY <1>4, <2>1
<1>6. s \in Seq(LineSet) /\ Len(s) = n
  BY <1>1, <1>5, IsASeq, LenProperties
<1>7. \A i \in 1..n : s[i] = DataLine(Stuff(d[i]))
  BY <1>4
<1> HIDE DEF w, e, s
<1> DEFINE r == <<w>> \o s \o <<e>>
<1>8. /\ r \in Seq(LineSet) /\ Len(r) = n + 2 /\ r[1] = w /\ r[n + 2] = e
      /\ \A i \in 1..n : r[i + 1] = s[i]
  <2> HIDE DEF LineSet
  <2>1. <<w>> \in Seq(LineSet) /\ <<e>> \in Seq(LineSet)
    BY <1>2, <1>3
  <2>2. /\ <<w>> \o s \in Seq(LineSet) /\ Len(<<w>> \o s) = n + 1
        /\ (<<w>> \o s)[1] = w
        /\ \A i \in 1..n : (<<w>> \o s)[i + 1] = s[i]
    BY <1>1, <1>2, <1>6
  <2> DEFINE q == <<w>> \o s
  <2> HIDE DEF q
  <2>3. /\ q \o <<e>> \in Seq(LineSet) /\ Len(q \o <<e>>) = n + 2
        /\ (q \o <<e>>)[n + 2] = e
        /\ \A i \in 1..(n + 1) : (q \o <<e>>)[i] = q[i]
    BY <1>1, <1>3, <2>2 DEF q
  <2>4. /\ r = q \o <<e>> /\ q[1] = w /\ \A i \in 1..n : q[i + 1] = s[i]
    BY <2>2 DEF q
  <2> HIDE DEF r
  <2>5. 1 \in 1..(n + 1) /\ \A i \in 1..n : i + 1 \in 1..(n + 1)
    BY <1>1
  <2> QED
    BY <2>3, <2>4, <2>5
<1> HIDE DEF r
<1> DEFINE t == Tail(r)
<1>9. /\ r # <<>> /\ Head(r) = w /\ t \in Seq(LineSet) /\ Len(t) = n + 1
      /\ \A i \in 1..(n + 1) : t[i] = r[i + 1]
  <2> HIDE DEF LineSet
  <2> QED
    BY <1>1, <1>8
<1> HIDE DEF t
<1>10. Rest(t, d, 0)
  <2>1. Len(d) - 0 = n /\ n + 1 \in 1..(n + 1) /\ (n + 1) + 1 = n + 2
    BY <1>1
  <2>2. \A i \in 1..n : t[i] = DataLine(Stuff(d[0 + i]))
    <3>1. ASSUME NEW i \in 1..n PROVE i \in 1..(n + 1) /\ 0 + i = i
      BY <1>1
    <3> QED
      BY <1>7, <1>8, <1>9, <3>1
  <2>3. t[n + 1] = e
    BY <1>8, <1>9, <2>1
  <2> QED
    BY <1>9, <2>1, <2>2, <2>3 DEF Rest, e
<1> QED
  BY <1>8, <1>9, <1>10 DEF r, w, s, e, t

LEMMA RestLine ==
    ASSUME NEW d \in Seq(TextSet), NEW k \in 0..(Len(d) - 1), NEW lines, Rest(lines, d, k)
    PROVE  /\ lines # <<>> /\ Head(lines) = DataLine(Stuff(d[k + 1]))
           /\ Rest(Tail(lines), d, k + 1)
<1> DEFINE n == Len(d)
           t == Tail(lines)
<1>1. n \in Nat /\ k \in 0..(n - 1)
  OBVIOUS
<1>2. lines \in Seq(LineSet) /\ Len(lines) = (n - k) + 1
  BY DEF Rest
<1> HIDE DEF n
<1>3. Len(lines) >= 2 /\ 1 \in 1..(n - k)
  BY <1>1, <1>2
<1>4. /\ lines # <<>> /\ Head(lines) = lines[1]
      /\ t \in Seq(LineSet) /\ Len(t) = Len(lines) - 1
      /\ \A i \in 1..Len(t) : t[i] = lines[i + 1]
  <2> HIDE DEF LineSet
  <2> QED
    BY <1>2, <1>3
<1> HIDE DEF t
<1>5. /\ \A i \in 1..(n - k) : lines[i] = DataLine(Stuff(d[k + i]))
      /\ lines[(n - k) + 1] = DataLine(EndOfData)
  BY DEF Rest, n
<1>6. Head(lines) = DataLine(Stuff(d[k + 1]))
  BY <1>3, <1>4, <1>5
<1>7. Len(t) = (n - (k + 1)) + 1
  BY <1>1, <1>2, <1>4
<1>8. ASSUME NEW i \in 1..(n - (k + 1)) PROVE t[i] = DataLine(Stuff(d[(k + 1) + i]))
  <2>1. i \in 1..Len(t) /\ i + 1 \in 1..(n - k) /\ k + (i + 1) = (k + 1) + i
    BY <1>1, <1>7
  <2>2. t[i] = lines[i + 1]
    BY <1>4, <2>1
  <2>3. lines[i + 1] = DataLine(Stuff(d[k + (i + 1)]))
    BY <1>5, <2>1
  <2> QED
    BY <2>1, <2>2, <2>3
<1>9. t[(n - (k + 1)) + 1] = DataLine(EndOfData)
  <2>1. (n - (k + 1)) + 1 \in 1..Len(t) /\ ((n - (k + 1)) + 1) + 1 = (n - k) + 1
    BY <1>1, <1>7
  <2> QED
    BY <1>4, <1>5, <2>1
<1>10. Rest(t, d, k + 1)
  BY <1>4, <1>7, <1>8, <1>9 DEF Rest, n
<1> QED
  BY <1>4, <1>6, <1>10 DEF t

LEMMA RestEnd ==
    ASSUME NEW d \in Seq(TextSet), NEW lines, Rest(lines, d, Len(d))
    PROVE  lines # <<>> /\ Head(lines) = DataLine(EndOfData) /\ Tail(lines) = <<>>
<1>1. Len(d) \in Nat
  OBVIOUS
<1>2. lines \in Seq(LineSet) /\ Len(lines) = 1 /\ lines[1] = DataLine(EndOfData)
  BY <1>1 DEF Rest
<1> HIDE DEF LineSet
<1>3. lines # <<>>
  <2>1. Len(lines) # 0
    BY <1>2
  <2>2. Len(<<>>) = 0
    OBVIOUS
  <2> QED
    BY <2>1, <2>2, Zenon
<1>4. Head(lines) = lines[1] /\ Tail(lines) \in Seq(LineSet) /\ Len(Tail(lines)) = Len(lines) - 1
  BY <1>2, <1>3, HeadTailProperties
<1>5. Len(Tail(lines)) = 0
  BY <1>2, <1>4
<1>6. Tail(lines) = <<>>
  BY <1>4, <1>5, EmptySeq
<1> QED
  BY <1>2, <1>3, <1>4, <1>6

-----------------------------------------------------------------------------
(* The invariant of a zone's client and its line.                           *)

Pend == CallsOf(updates) \o ChangesIn(toHost)
ValSet == Val \cup {Nil}

\* Requests of connections that are gone; or the last one is of this one.
NoneLive(s) == \A i \in 1..Len(s) : ~s[i].live
LastLive(s) ==
    /\ s # <<>> /\ s[Len(s)].live
    /\ \A i \in 1..(Len(s) - 1) : ~s[i].live
Quiet == NoneLive(toHost) /\ NoneLive(updates)
LastReq == toHost[Len(toHost)]
Sent == LastLive(toHost) /\ NoneLive(updates) /\ toClient = <<>>
Answered(lines) == Quiet /\ toClient = lines

\* The request of the call is on its way,
Asked ==
    /\ Sent /\ LastReq.call = call /\ response = Pending
    /\ \/ mdp_version = 1 /\ LastReq.t = "V1" /\ mdp_state = "MESSAGE_HEADER"
       \/ /\ mdp_version = 2 /\ LastReq.t = "V2" /\ LastReq.id = reqid
          /\ mdp_state = "MESSAGE_V2"

\* or with VM.update,
Submitted ==
    /\ LastLive(updates) /\ toHost = <<>> /\ toClient = <<>>
    /\ updates[Len(updates)].call = call /\ updates[Len(updates)].id = reqid
    /\ call.cmd \in Service!Update
    /\ mdp_state = "MESSAGE_V2"

IsRead == call.cmd \in {"GET", "KEYS"}

\* or answered in version 2,
Good(code, data) ==
    \/ /\ IsRead
       /\ \E v \in seen : Service!Answer(call, v) = [code |-> code, data |-> data]
    \/ /\ call.cmd \in Service!Update /\ applied
       /\ toHost = <<>> /\ updates = <<>>
       /\ code = "SUCCESS" /\ data = <<TextLine(0, "OK")>>
    \/ code = "FAILURE"
Framed ==
    /\ mdp_state = "MESSAGE_V2"
    /\ \E code, data : Answered(<<Frame(reqid, code, data)>>) /\ Good(code, data)

\* or in version 1, by a word
Worded ==
    /\ mdp_state = "MESSAGE_HEADER" /\ response = Pending
    /\ \/ Answered(<<Word("FAILURE")>>)
       \/ /\ Answered(<<Word("NOTFOUND")>>) /\ IsRead
          /\ \E v \in seen :
                Service!Answer(call, v) = [code |-> "NOTFOUND", data |-> <<>>]

\* or by lines, of which the client has read some.
LinesOf(d) == IF d = <<>> THEN <<Service!EmptyLine>> ELSE d
Listed(d) ==
    \E v \in seen : /\ Service!Answer(call, v).code = "SUCCESS"
                    /\ d = LinesOf(Service!Answer(call, v).data)
HeaderNext ==
    /\ Quiet /\ IsRead
    /\ mdp_state = "MESSAGE_HEADER" /\ response = Pending
    /\ toClient # <<>> /\ Head(toClient) = Word("SUCCESS")
    /\ \E d \in Seq(TextSet) : Listed(d) /\ Rest(Tail(toClient), d, 0)
DataNext ==
    /\ Quiet /\ IsRead
    /\ mdp_state = "MESSAGE_DATA"
    /\ \E d \in Seq(TextSet) : \E k \in 0..Len(d) :
          /\ Listed(d) /\ Rest(toClient, d, k)
          /\ \E x : /\ response = [code |-> "SUCCESS", data |-> x]
                    /\ Trimmed(x, d, k)

WaitInv == Asked \/ Submitted \/ Framed \/ Worded \/ HeaderNext \/ DataNext

PcSet == {"off", "open", "sync", "hello", "negotiate", "ready", "wait"}

ZoneType ==
    /\ setting \in Setting /\ Serial = FALSE
    /\ toHost \in Seq(ReqSet) /\ updates \in Seq(UpdSet)
    /\ store \in ValSet /\ view \in ValSet
    /\ call \in CallSet /\ ncall \in Nat
    /\ mdp_version \in {1, 2} /\ pc \in PcSet

CallInv ==
    /\ pc = "off" => call = NoCall
    /\ pc \in {"open", "sync", "hello", "negotiate", "wait"} => call # NoCall
    /\ call # NoCall => call.cmd \in Cmd /\ view \in seen
    /\ call = NoCall => applied = FALSE
    /\ pc # "wait" => response = Pending

LineInv ==
    /\ ~up => Quiet
    /\ pc \in {"off", "open"} => ~up
    /\ pc \in {"off", "open", "hello", "ready"} => Answered(<<>>)
    /\ pc = "sync" /\ up =>
          \/ Sent /\ LastReq.t = "newline"
          \/ Answered(<<Word("INVALID_COMMAND")>>)
    /\ pc = "negotiate" /\ up =>
          /\ mdp_state = "MESSAGE_HEADER"
          /\ \/ Sent /\ LastReq.t = "NEGOTIATE"
             \/ Answered(<<Word("V2_OK")>>)
             \/ Answered(<<Word("INVALID_COMMAND")>>)
    /\ pc = "wait" /\ up => WaitInv

ZoneInv == ZoneType /\ CallInv /\ LineInv

LEMMA NoneLiveTail ==
    ASSUME NEW S, NEW s \in Seq(S), s # <<>>, NoneLive(s)
    PROVE  NoneLive(Tail(s)) /\ ~Head(s).live
<1>1. /\ Len(Tail(s)) = Len(s) - 1 /\ \A i \in 1..Len(Tail(s)) : Tail(s)[i] = s[i + 1]
      /\ Head(s) = s[1] /\ Len(s) \in Nat \ {0}
  OBVIOUS
<1> QED
  BY <1>1 DEF NoneLive

LEMMA LastLiveTail ==
    ASSUME NEW S, NEW s \in Seq(S), s # <<>>, LastLive(s)
    PROVE  /\ ~Head(s).live =>
                  LastLive(Tail(s)) /\ Tail(s)[Len(Tail(s))] = s[Len(s)]
           /\ Head(s).live => Tail(s) = <<>> /\ Head(s) = s[Len(s)]
<1>1. /\ Len(Tail(s)) = Len(s) - 1 /\ \A i \in 1..Len(Tail(s)) : Tail(s)[i] = s[i + 1]
      /\ Head(s) = s[1] /\ Len(s) \in Nat \ {0} /\ Tail(s) \in Seq(S)
  OBVIOUS
<1>2. CASE Head(s).live
  <2>1. Len(s) = 1
    BY <1>1, <1>2 DEF LastLive
  <2>2. Len(Tail(s)) = 0
    BY <1>1, <2>1
  <2> QED
    BY <1>1, <1>2, <2>1, <2>2, EmptySeq
<1>3. CASE ~Head(s).live
  <2>1. Len(s) # 1
    BY <1>1, <1>3 DEF LastLive
  <2>2. /\ Len(Tail(s)) \in Nat \ {0} /\ Len(Tail(s)) + 1 = Len(s)
        /\ Len(Tail(s)) \in 1..Len(Tail(s))
    BY <1>1, <2>1
  <2>3. Tail(s)[Len(Tail(s))] = s[Len(s)]
    BY <1>1, <2>2
  <2>4. \A i \in 1..(Len(Tail(s)) - 1) : ~Tail(s)[i].live
    <3>1. ASSUME NEW i \in 1..(Len(Tail(s)) - 1)
          PROVE  i \in 1..Len(Tail(s)) /\ i + 1 \in 1..(Len(s) - 1)
      BY <1>1, <2>2
    <3> QED
      BY <1>1, <3>1 DEF LastLive
  <2>5. Tail(s) # <<>>
    <3>1. Len(Tail(s)) # 0 /\ Len(<<>>) = 0
      BY <2>2
    <3> QED
      BY <3>1, Zenon
  <2> QED
    BY <1>3, <2>3, <2>4, <2>5 DEF LastLive
<1> QED
  BY <1>2, <1>3

LEMMA AppendLive ==
    ASSUME NEW S, NEW s \in Seq(S), NEW r \in S, NoneLive(s)
    PROVE  /\ ~r.live => NoneLive(Append(s, r))
           /\ r.live => LastLive(Append(s, r))
           /\ Append(s, r)[Len(Append(s, r))] = r
<1> DEFINE t == Append(s, r)
<1>1. /\ Len(t) = Len(s) + 1 /\ Len(s) \in Nat /\ t # <<>>
      /\ \A i \in 1..Len(s) : t[i] = s[i]
      /\ t[Len(s) + 1] = r
  BY AppendProperties
<1> HIDE DEF t
<1>2. ~r.live => NoneLive(t)
  BY <1>1 DEF NoneLive
<1>3. r.live => LastLive(t)
  BY <1>1 DEF NoneLive, LastLive
<1> QED
  BY <1>1, <1>2, <1>3 DEF t

LEMMA NothingLive == NoneLive(<<>>)
BY DEF NoneLive

-----------------------------------------------------------------------------
(* The steps.                                                               *)

Served == Service!Next \/ UNCHANGED Service!serviceVars

LEMMA Stutter ==
    ASSUME UNCHANGED <<store, view, call, ncall, seen, applied, result>>, Pend' = Pend
    PROVE  Served
BY DEF Served, Service!serviceVars, Pend

LEMMA PendType ==
    ASSUME ZoneType
    PROVE  /\ Pend \in Seq(CallSet) /\ CallsOf(updates) \in Seq(CallSet)
           /\ ChangesIn(toHost) \in Seq(CallSet)
<1>1. CallsOf(updates) \in Seq(CallSet) /\ ChangesIn(toHost) \in Seq(CallSet)
  BY CallsOfType, ChangesType DEF ZoneType
<1> QED
  BY <1>1 DEF Pend

LEMMA SerialType == ASSUME ZoneType PROVE Serial \in BOOLEAN
BY DEF ZoneType

LEMMA HangupStep ==
    ASSUME ZoneType, NEW unread, Hangup(unread)
    PROVE  /\ toHost' \in Seq(ReqSet) /\ updates' \in Seq(UpdSet)
           /\ Quiet' /\ toClient' = <<>> /\ up' = FALSE
           /\ store' = store /\ view' = view /\ Pend' = Pend
<1>1. Serial = FALSE /\ toHost \in Seq(ReqSet) /\ updates \in Seq(UpdSet)
  BY DEF ZoneType
<1>2. /\ toHost' = Dead(toHost) /\ updates' = Dead(updates) /\ toClient' = <<>>
      /\ up' = FALSE /\ store' = store /\ view' = view
  BY <1>1 DEF Hangup
<1>3. /\ Dead(toHost) \in Seq(ReqSet) /\ Len(Dead(toHost)) = Len(toHost)
      /\ \A i \in 1..Len(toHost) : Dead(toHost)[i].live = Serial
      /\ ChangesIn(Dead(toHost)) = ChangesIn(toHost)
  BY <1>1, ChangesDead
<1>4. /\ Dead(updates) \in Seq(UpdSet) /\ Len(Dead(updates)) = Len(updates)
      /\ \A i \in 1..Len(updates) : Dead(updates)[i].live = Serial
      /\ CallsOf(Dead(updates)) = CallsOf(updates)
  BY <1>1, CallsOfDead
<1>5. Quiet'
  <2>1. NoneLive(Dead(toHost)) /\ NoneLive(Dead(updates))
    BY <1>1, <1>3, <1>4 DEF NoneLive
  <2> QED
    BY <1>2, <2>1 DEF Quiet
<1>6. Pend' = Pend
  BY <1>2, <1>3, <1>4 DEF Pend
<1> QED
  BY <1>2, <1>3, <1>4, <1>5, <1>6

LEMMA NoCallType == NoCall \in CallSet
BY DEF NoCall, Service!NoCall, CallSet

\* The process ends, and with it its call.
LEMMA OffStep ==
    ASSUME ZoneInv, NEW unread, Off(unread), setting' = setting,
           call' = NoCall, response' = Pending, ncall' = ncall, applied' = FALSE
    PROVE  ZoneInv' /\ store' = store /\ view' = view /\ Pend' = Pend
<1>1. ZoneType
  BY DEF ZoneInv
<1>2. pc' = "off" /\ mdp_version' = 1 /\ Hangup(unread)
  BY DEF Off
<1>3. /\ toHost' \in Seq(ReqSet) /\ updates' \in Seq(UpdSet)
      /\ Quiet' /\ toClient' = <<>> /\ up' = FALSE
      /\ store' = store /\ view' = view /\ Pend' = Pend
  BY <1>1, <1>2, HangupStep
<1>4. ZoneType'
  BY <1>1, <1>2, <1>3, NoCallType DEF ZoneType, PcSet, Serial
<1>5. CallInv'
  BY <1>2 DEF CallInv
<1>6. LineInv'
  BY <1>2, <1>3 DEF LineInv, Answered
<1> QED
  BY <1>3, <1>4, <1>5, <1>6 DEF ZoneInv

Failures == {"FAILED", "TOO_OLD", "KILLED", "UNKNOWN"}

\* A call that fails.
LEMMA ErrorStep ==
    ASSUME call # NoCall, NEW r, Result(r), r.code \in Failures,
           store' = store, view' = view, Pend' = Pend
    PROVE  Served
<1>1. r.code \notin {"none", "SUCCESS", "NOTFOUND"}
  BY DEF Failures
<1>2. result' = r /\ call' = NoCall /\ seen' = {} /\ applied' = FALSE /\ ncall' = ncall
  BY DEF Result
<1>3. Service!ReturnError
  BY <1>1, <1>2 DEF Service!ReturnError, Service!Return, Service!Failure, NoCall, Pend
<1> QED
  BY <1>3 DEF Served, Service!Next

LEMMA QuitStep ==
    ASSUME ZoneInv, call # NoCall, NEW code \in Failures, Quit(code), setting' = setting
    PROVE  ZoneInv' /\ Served
<1> DEFINE r == [code |-> code, data |-> <<>>]
<1>1. Off(toClient) /\ Result(r)
  BY DEF Quit
<1>2. call' = NoCall /\ response' = Pending /\ ncall' = ncall /\ applied' = FALSE
        /\ r.code \in Failures
  BY <1>1 DEF Result
<1> HIDE DEF r
<1>3. ZoneInv' /\ store' = store /\ view' = view /\ Pend' = Pend
  BY <1>1, <1>2, OffStep
<1>4. Served
  BY <1>1, <1>2, <1>3, ErrorStep
<1> QED
  BY <1>3, <1>4

LEMMA AgainStep ==
    ASSUME ZoneInv, pc \in {"sync", "negotiate", "wait"}, NEW unread, Again(unread),
           setting' = setting
    PROVE  ZoneInv' /\ Served
<1>1. ZoneType /\ CallInv /\ call # NoCall
  BY DEF ZoneInv, CallInv
<1>2. CASE pc = "sync" /\ permfail
  <2> DEFINE r == [code |-> "FAILED", data |-> <<>>]
  <2>1. Off(unread) /\ Result(r)
    BY <1>2 DEF Again
  <2>2. call' = NoCall /\ response' = Pending /\ ncall' = ncall /\ applied' = FALSE
        /\ r.code \in Failures
    BY <2>1 DEF Result, Failures
  <2> HIDE DEF r
  <2>3. ZoneInv' /\ store' = store /\ view' = view /\ Pend' = Pend
    BY <2>1, <2>2, OffStep
  <2>4. Served
    BY <1>1, <2>1, <2>2, <2>3, ErrorStep
  <2> QED
    BY <2>3, <2>4
<1>3. CASE ~(pc = "sync" /\ permfail)
  <2>1. /\ pc' = "open" /\ response' = Pending /\ Hangup(unread)
        /\ UNCHANGED <<mdp_version, reqid, call, ncall, seen, applied, result>>
    BY <1>3 DEF Again, history
  <2>2. /\ toHost' \in Seq(ReqSet) /\ updates' \in Seq(UpdSet)
        /\ Quiet' /\ toClient' = <<>> /\ up' = FALSE
        /\ store' = store /\ view' = view /\ Pend' = Pend
    BY <1>1, <2>1, HangupStep
  <2>3. ZoneType'
    BY <1>1, <2>1, <2>2 DEF ZoneType, PcSet, Serial
  <2>4. CallInv'
    BY <1>1, <2>1, <2>2 DEF CallInv
  <2>5. LineInv'
    BY <2>1, <2>2 DEF LineInv, Answered
  <2>6. Served
    BY <2>1, <2>2, Stutter
  <2> QED
    BY <2>3, <2>4, <2>5, <2>6 DEF ZoneInv
<1> QED
  BY <1>2, <1>3

\* A call begins.
LEMMA BeginStep ==
    ASSUME ZoneInv, NEW c \in Cmd, NEW v \in Service!Args(c),
           Start(c, v) \/ NextCall(c, v), setting' = setting
    PROVE  ZoneInv' /\ Served
<1>1. ZoneType /\ CallInv /\ LineInv
  BY DEF ZoneInv
<1>2. /\ call = NoCall /\ ncall < MaxCall
      /\ call' = [cmd |-> c, val |-> v, n |-> ncall + 1]
      /\ ncall' = ncall + 1 /\ seen' = {view}
      /\ UNCHANGED <<mdp_state, mdp_version, reqid, response, applied, result,
                     toHost, toClient, up, updates, store, view>>
  BY DEF Start, NextCall, Begin, lineVars, agentVars
<1>3. \/ pc = "off" /\ pc' = "open"
      \/ pc = "ready" /\ pc' = "ready"
  BY DEF Start, NextCall
<1>4. call' \in CallSet /\ ncall' \in Nat /\ ncall + 1 # 0
  <2>1. v \in Val \cup {Nil, Empty} /\ c \in Cmd \cup {"none"}
    BY DEF Service!Args
  <2>2. ncall + 1 \in Nat /\ ncall + 1 # 0
    BY <1>1 DEF ZoneType
  <2> QED
    BY <1>2, <2>1, <2>2 DEF CallSet
<1>5. call' # NoCall /\ call'.cmd = c
  BY <1>2, <1>4 DEF NoCall, Service!NoCall
<1>6. ZoneType'
  BY <1>1, <1>2, <1>3, <1>4 DEF ZoneType, PcSet, Serial
<1>7. CallInv'
  BY <1>1, <1>2, <1>3, <1>5 DEF CallInv
<1>8. LineInv'
  BY <1>1, <1>2, <1>3 DEF LineInv, Answered, Quiet
<1>9. applied' = FALSE
  BY <1>1, <1>2 DEF CallInv
<1>10. Service!Call(c, v)
  BY <1>2, <1>9 DEF Service!Call, NoCall
<1> QED
  BY <1>6, <1>7, <1>8, <1>10 DEF ZoneInv, Served, Service!Next

LEMMA ExitStep ==
    ASSUME ZoneInv, Exit, setting' = setting
    PROVE  ZoneInv' /\ Served
<1>1. pc = "ready" /\ call = NoCall /\ Off(toClient)
      /\ UNCHANGED <<response, call, ncall, seen, applied, result>>
  BY DEF Exit, history
<1>2. response = Pending /\ applied = FALSE
  BY <1>1 DEF ZoneInv, CallInv
<1>3. ZoneInv' /\ store' = store /\ view' = view /\ Pend' = Pend
  BY <1>1, <1>2, OffStep
<1>4. Served
  BY <1>1, <1>3, Stutter
<1> QED
  BY <1>3, <1>4

\* A request on a line that was quiet.
LEMMA SendStep ==
    ASSUME ZoneType, Quiet, NEW r \in ReqSet, r.live, toClient = <<>>,
           toHost' = Append(toHost, r), toClient' = toClient, updates' = updates
    PROVE  /\ toHost' \in Seq(ReqSet) /\ Sent' /\ LastReq' = r
           /\ Pend' = IF IsUpdate(r) THEN Append(Pend, r.call) ELSE Pend
<1>1. toHost \in Seq(ReqSet) /\ updates \in Seq(UpdSet)
  BY DEF ZoneType
<1>2. NoneLive(toHost) /\ NoneLive(updates)
  BY DEF Quiet
<1>3. LastLive(toHost') /\ toHost'[Len(toHost')] = r
  BY <1>1, <1>2, AppendLive
<1>4. toHost' \in Seq(ReqSet)
  BY <1>1, AppendProperties
<1>5. Sent' /\ LastReq' = r
  BY <1>2, <1>3 DEF Sent, LastReq
<1>6. ChangesIn(toHost') = IF IsUpdate(r) THEN Append(ChangesIn(toHost), r.call)
                           ELSE ChangesIn(toHost)
  BY <1>1, ChangesAppend
<1>7. r.call \in CallSet
  BY DEF ReqSet
<1>8. /\ CallsOf(updates) \in Seq(CallSet) /\ ChangesIn(toHost) \in Seq(CallSet)
  BY PendType
<1>9. CallsOf(updates) \o Append(ChangesIn(toHost), r.call) = Append(Pend, r.call)
  BY <1>7, <1>8, CallsAppend DEF Pend
<1> QED
  BY <1>4, <1>5, <1>6, <1>9 DEF Pend

LEMMA OpenStep ==
    ASSUME ZoneInv, Open, setting' = setting
    PROVE  ZoneInv' /\ Served
<1> DEFINE r == Request("newline", 0, NoCall)
<1>1. ZoneType /\ CallInv /\ LineInv
  BY DEF ZoneInv
<1>2. /\ pc = "open" /\ pc' = "sync" /\ toHost' = Append(toHost, r) /\ up' = TRUE
      /\ UNCHANGED <<mdp_version, reqid, response, call, updates, store, view, ncall,
                     seen, applied, result>>
  BY DEF Open, agentVars, history
<1>3. Quiet /\ toClient = <<>>
  BY <1>1, <1>2 DEF LineInv, Answered
<1>4. toClient' = toClient
  <2>1. toClient' = SubSeq(toClient, 1, Len(toClient))
    BY <1>1 DEF Open, ZoneType
  <2> QED
    BY <1>3, <2>1
<1>5. r \in ReqSet /\ r.live /\ r.t = "newline" /\ ~IsUpdate(r)
  BY NoCallType DEF Request, ReqSet, IsUpdate
<1> HIDE DEF r
<1>6. toHost' \in Seq(ReqSet) /\ Sent' /\ LastReq' = r /\ Pend' = Pend
  BY <1>1, <1>2, <1>3, <1>4, <1>5, SendStep
<1>7. ZoneType'
  BY <1>1, <1>2, <1>6 DEF ZoneType, PcSet, Serial
<1>8. CallInv'
  BY <1>1, <1>2 DEF CallInv
<1>9. LineInv'
  BY <1>2, <1>5, <1>6 DEF LineInv
<1>10. Served
  BY <1>2, <1>6, Stutter
<1> QED
  BY <1>7, <1>8, <1>9, <1>10 DEF ZoneInv

LEMMA NegotiateStep ==
    ASSUME ZoneInv, Negotiate, setting' = setting
    PROVE  ZoneInv' /\ Served
<1> DEFINE r == Request("NEGOTIATE", 0, NoCall)
<1>1. ZoneType /\ CallInv /\ LineInv
  BY DEF ZoneInv
<1>2. /\ pc = "hello" /\ pc' = "negotiate" /\ toHost' = Append(toHost, r)
      /\ mdp_state' = "MESSAGE_HEADER" /\ mdp_version' = 1
      /\ UNCHANGED <<response, call, toClient, up, updates, store, view, ncall,
                     seen, applied, result>>
  BY DEF Negotiate, Transmit, agentVars, history
<1>3. up
  BY <1>1 DEF Negotiate, Transmit, ZoneType
<1>4. Quiet /\ toClient = <<>>
  BY <1>1, <1>2 DEF LineInv, Answered
<1>5. r \in ReqSet /\ r.live /\ r.t = "NEGOTIATE" /\ ~IsUpdate(r)
  BY NoCallType DEF Request, ReqSet, IsUpdate
<1> HIDE DEF r
<1>6. toHost' \in Seq(ReqSet) /\ Sent' /\ LastReq' = r /\ Pend' = Pend
  BY <1>1, <1>2, <1>4, <1>5, SendStep
<1>7. ZoneType'
  BY <1>1, <1>2, <1>6 DEF ZoneType, PcSet, Serial
<1>8. CallInv'
  BY <1>1, <1>2 DEF CallInv
<1>9. LineInv'
  BY <1>2, <1>3, <1>5, <1>6 DEF LineInv
<1>10. Served
  BY <1>2, <1>6, Stutter
<1> QED
  BY <1>7, <1>8, <1>9, <1>10 DEF ZoneInv

LEMMA ExecuteStep ==
    ASSUME ZoneInv, Execute, setting' = setting
    PROVE  ZoneInv' /\ Served
<1> DEFINE r == MakeRequest
<1>1. ZoneType /\ CallInv /\ LineInv
  BY DEF ZoneInv
<1>2. /\ pc = "ready" /\ pc' = "wait" /\ call # NoCall /\ toHost' = Append(toHost, r)
      /\ mdp_state' = (IF mdp_version = 1 THEN "MESSAGE_HEADER" ELSE "MESSAGE_V2")
      /\ reqid' = r.id
      /\ UNCHANGED <<mdp_version, response, call, toClient, up, updates, store, view,
                     ncall, seen, applied, result>>
  BY DEF Execute, Transmit, agentVars, history
<1>3. up
  BY <1>1 DEF Execute, Transmit, ZoneType
<1>4. Quiet /\ toClient = <<>> /\ response = Pending
  BY <1>1, <1>2 DEF LineInv, CallInv, Answered
<1>5. /\ r \in ReqSet /\ r.live /\ r.call = call
      /\ mdp_version = 1 => r.t = "V1"
      /\ mdp_version = 2 => r.t = "V2"
  <2>1. FreshId \in Nat
    BY <1>1, <1>4, FreshIdType DEF ZoneType
  <2>2. call \in CallSet /\ mdp_version \in {1, 2}
    BY <1>1 DEF ZoneType
  <2>3. r = IF mdp_version = 1 THEN Request("V1", 0, call) ELSE Request("V2", FreshId, call)
    BY DEF MakeRequest
  <2> HIDE DEF r
  <2> QED
    BY <2>1, <2>2, <2>3 DEF Request, ReqSet
<1> HIDE DEF r
<1>6. toHost' \in Seq(ReqSet) /\ Sent' /\ LastReq' = r
      /\ Pend' = IF IsUpdate(r) THEN Append(Pend, r.call) ELSE Pend
  BY <1>1, <1>2, <1>4, <1>5, SendStep
<1>7. ZoneType'
  BY <1>1, <1>2, <1>6 DEF ZoneType, PcSet, Serial
<1>8. CallInv'
  BY <1>1, <1>2 DEF CallInv
<1>9. Asked'
  <2>1. mdp_version \in {1, 2}
    BY <1>1 DEF ZoneType
  <2>2. CASE mdp_version = 1
    BY <1>2, <1>4, <1>5, <1>6, <2>2 DEF Asked
  <2>3. CASE mdp_version = 2
    BY <1>2, <1>4, <1>5, <1>6, <2>3 DEF Asked
  <2> QED
    BY <2>1, <2>2, <2>3
<1>10. LineInv'
  BY <1>2, <1>3, <1>9 DEF LineInv, WaitInv
<1>11. Served
  <2>1. CASE IsUpdate(r)
    <3>1. call.cmd \in Service!Update /\ call.val # Empty
      BY <1>5, <2>1 DEF IsUpdate, Service!Update
    <3>2. Pend' = Append(Pend, call)
      BY <1>5, <1>6, <2>1
    <3>3. Service!Submit
      BY <1>2, <3>1, <3>2 DEF Service!Submit, Pend
    <3> QED
      BY <3>3 DEF Served, Service!Next
  <2>2. CASE ~IsUpdate(r)
    <3>1. Pend' = Pend
      BY <1>6, <2>2
    <3> QED
      BY <1>2, <3>1, Stutter
  <2> QED
    BY <2>1, <2>2
<1> QED
  BY <1>7, <1>8, <1>10, <1>11 DEF ZoneInv

LEMMA OpenFailsStep ==
    ASSUME ZoneInv, OpenFails, setting' = setting
    PROVE  ZoneInv' /\ Served
<1>1. pc = "open" /\ Quit("FAILED") /\ "FAILED" \in Failures
  BY DEF OpenFails, Failures
<1>2. call # NoCall
  BY <1>1 DEF ZoneInv, CallInv
<1> QED
  BY <1>1, <1>2, QuitStep

LEMMA RefuseStep ==
    ASSUME ZoneInv, Refuse, setting' = setting
    PROVE  ZoneInv' /\ Served
<1>1. Quit("TOO_OLD") /\ call.cmd \in Service!Update /\ "TOO_OLD" \in Failures
  BY DEF Refuse, TooOld, Failures
<1>2. call # NoCall
  BY <1>1 DEF NoCall, Service!NoCall, Service!Update
<1> QED
  BY <1>1, <1>2, QuitStep

LEMMA KilledStep ==
    ASSUME ZoneInv, Killed, setting' = setting
    PROVE  ZoneInv' /\ Served
<1>1. Quit("KILLED") /\ "KILLED" \in Failures
      /\ (pc = "hello" \/ call # NoCall)
  BY DEF Killed, Failures
<1>2. call # NoCall
  BY <1>1 DEF ZoneInv, CallInv
<1> QED
  BY <1>1, <1>2, QuitStep

-----------------------------------------------------------------------------
(* Lines that are received.                                                 *)

LEMMA OneLine ==
    ASSUME NEW w
    PROVE  <<w>> # <<>> /\ Head(<<w>>) = w /\ Tail(<<w>>) = <<>>
OBVIOUS

LEMMA WordFields ==
    ASSUME NEW w
    PROVE  Word(w).t = "word" /\ Word(w).code = w
BY DEF Word

LEMMA RecvFailsStep ==
    ASSUME ZoneInv, RecvFails \/ RecvTooEarly, setting' = setting
    PROVE  ZoneInv' /\ Served
<1>1. pc \in {"sync", "negotiate", "wait"}
  BY DEF RecvFails, RecvTooEarly
<1>2. \E unread : Again(unread)
  BY DEF RecvFails, RecvTooEarly
<1> QED
  BY <1>1, <1>2, AgainStep

LEMMA RecvResetStep ==
    ASSUME ZoneInv, RecvReset, setting' = setting
    PROVE  ZoneInv' /\ Served
<1>1. ZoneType /\ CallInv /\ LineInv
  BY DEF ZoneInv
<1>2. pc = "sync" /\ toClient # <<>> /\ up
  BY <1>1 DEF RecvReset, Readable, ZoneType
<1>3. CASE Head(toClient) = Word("INVALID_COMMAND")
  <2>1. /\ pc' = "hello" /\ toClient' = Tail(toClient)
        /\ UNCHANGED <<mdp_version, reqid, response, call, toHost, up, updates, store, view,
                       ncall, seen, applied, result>>
    BY <1>3 DEF RecvReset, agentVars, history
  <2>2. Answered(<<Word("INVALID_COMMAND")>>)
    BY <1>1, <1>2 DEF LineInv, Sent
  <2>3. toClient' = <<>> /\ Quiet'
    BY <2>1, <2>2, OneLine DEF Answered, Quiet
  <2>4. ZoneType'
    BY <1>1, <2>1 DEF ZoneType, PcSet, Serial
  <2>5. CallInv'
    BY <1>1, <1>2, <2>1 DEF CallInv
  <2>6. LineInv'
    BY <1>2, <2>1, <2>3 DEF LineInv, Answered
  <2>7. Pend' = Pend
    BY <2>1 DEF Pend
  <2> QED
    BY <2>1, <2>4, <2>5, <2>6, <2>7, Stutter DEF ZoneInv
<1>4. CASE Head(toClient) # Word("INVALID_COMMAND")
  <2>1. Again(Tail(toClient))
    BY <1>4 DEF RecvReset
  <2> QED
    BY <1>2, <2>1, AgainStep
<1> QED
  BY <1>3, <1>4

LEMMA RecvNegotiatedStep ==
    ASSUME ZoneInv, RecvNegotiated, setting' = setting
    PROVE  ZoneInv' /\ Served
<1>1. ZoneType /\ CallInv /\ LineInv
  BY DEF ZoneInv
<1>2. pc = "negotiate" /\ toClient # <<>> /\ up
  BY <1>1 DEF RecvNegotiated, Readable, ZoneType
<1>3. /\ pc' = "ready" /\ response' = Pending /\ toClient' = Tail(toClient)
      /\ mdp_version' \in {1, 2}
      /\ UNCHANGED <<reqid, call, toHost, up, updates, store, view,
                     ncall, seen, applied, result>>
  BY DEF RecvNegotiated, agentVars, history
<1>4. toClient' = <<>> /\ Quiet'
  <2>1. \/ Answered(<<Word("V2_OK")>>)
        \/ Answered(<<Word("INVALID_COMMAND")>>)
    BY <1>1, <1>2 DEF LineInv, Sent
  <2> QED
    BY <1>3, <2>1, OneLine DEF Answered, Quiet
<1>5. ZoneType'
  BY <1>1, <1>3 DEF ZoneType, PcSet, Serial
<1>6. CallInv'
  BY <1>1, <1>2, <1>3 DEF CallInv
<1>7. LineInv'
  BY <1>2, <1>3, <1>4 DEF LineInv, Answered
<1>8. Pend' = Pend
  BY <1>3 DEF Pend
<1> QED
  BY <1>3, <1>5, <1>6, <1>7, <1>8, Stutter DEF ZoneInv

\* What a line of the answer is taken for.
LEMMA WordedFinish ==
    ASSUME mdp_state = "MESSAGE_HEADER", NEW w \in {"FAILURE", "NOTFOUND", "V2_OK", "INVALID_COMMAND"}
    PROVE  LET r == ProcessInput(Word(w))
           IN /\ r.done
              /\ w # "FAILURE" => r.response = [code |-> w, data |-> response.data]
              /\ w = "FAILURE" => r.response.code = "UNKNOWN"
<1>1. ProcessInput(Word(w)) = ProcessHeader(Word(w))
  BY DEF ProcessInput
<1>2. Word(w) # Word("SUCCESS")
  <2>1. Word(w).code = w /\ Word("SUCCESS").code = "SUCCESS"
    BY WordFields
  <2> QED
    BY <2>1
<1>3. CASE w = "FAILURE"
  <2>1. ProcessHeader(Word(w)) =
            Finish("UNKNOWN", AppendLine(response.data, TextOf(Word(w))))
    BY <1>2, <1>3, WordFields DEF ProcessHeader
  <2> QED
    BY <1>1, <1>3, <2>1 DEF Finish
<1>4. CASE w # "FAILURE"
  <2>1. ProcessHeader(Word(w)) = Finish(w, response.data)
    BY <1>2, <1>4, WordFields DEF ProcessHeader
  <2> QED
    BY <1>1, <1>4, <2>1 DEF Finish
<1> QED
  BY <1>3, <1>4

LEMMA FramedFinish ==
    ASSUME mdp_state = "MESSAGE_V2", NEW code, NEW data
    PROVE  ProcessInput(Frame(reqid, code, data)) =
               Finish(IF code \in {"SUCCESS", "NOTFOUND"} THEN code ELSE "UNKNOWN", data)
BY DEF ProcessInput, ProcessV2, Frame

LEMMA HeaderContinues ==
    ASSUME mdp_state = "MESSAGE_HEADER", response = Pending
    PROVE  ProcessInput(Word("SUCCESS")) =
               Continue("MESSAGE_DATA", [code |-> "SUCCESS", data |-> <<>>])
<1>1. ProcessInput(Word("SUCCESS")) = ProcessHeader(Word("SUCCESS"))
  BY DEF ProcessInput
<1>2. Word("SUCCESS").code = "SUCCESS"
  BY WordFields
<1>3. ProcessHeader(Word("SUCCESS")) =
          Continue("MESSAGE_DATA", [response EXCEPT !.code = "SUCCESS"])
  BY <1>2 DEF ProcessHeader
<1>4. [response EXCEPT !.code = "SUCCESS"] = [code |-> "SUCCESS", data |-> <<>>]
  BY DEF Pending
<1> QED
  BY <1>1, <1>3, <1>4

LEMMA DataContinues ==
    ASSUME mdp_state = "MESSAGE_DATA", NEW x, response = [code |-> "SUCCESS", data |-> x],
           NEW l \in TextSet
    PROVE  ProcessInput(DataLine(Stuff(l))) =
               Continue("MESSAGE_DATA", [code |-> "SUCCESS", data |-> AppendLine(x, l)])
<1> DEFINE s == Stuff(l)
           u == IF s.dot > 0 THEN [s EXCEPT !.dot = @ - 1] ELSE s
<1>1. s # EndOfData /\ u = l
  BY StuffType
<1> HIDE DEF s
<1>2. TextOf(DataLine(s)) = s
  BY DEF TextOf, DataLine
<1>3. ProcessInput(DataLine(s)) = ProcessData(DataLine(s))
  BY DEF ProcessInput
<1>4. ProcessData(DataLine(s)) =
          Continue("MESSAGE_DATA", [response EXCEPT !.data = AppendLine(@, u)])
  BY <1>1, <1>2 DEF ProcessData
<1>5. [response EXCEPT !.data = AppendLine(@, l)] =
          [code |-> "SUCCESS", data |-> AppendLine(x, l)]
  OBVIOUS
<1> HIDE DEF u
<1> QED
  BY <1>1, <1>3, <1>4, <1>5 DEF s

LEMMA DataEnds ==
    ASSUME mdp_state = "MESSAGE_DATA", NEW x, response = [code |-> "SUCCESS", data |-> x]
    PROVE  ProcessInput(DataLine(EndOfData)) = Finish("SUCCESS", x)
<1>1. TextOf(DataLine(EndOfData)) = EndOfData
  BY DEF TextOf, DataLine
<1>2. ProcessInput(DataLine(EndOfData)) = ProcessData(DataLine(EndOfData))
  BY DEF ProcessInput
<1> QED
  BY <1>1, <1>2 DEF ProcessData

\* The line does not end the answer: it is one of several lines of version 1.
LEMMA RecvMoreStep ==
    ASSUME ZoneInv, RecvMore, setting' = setting
    PROVE  ZoneInv' /\ Served
<1> DEFINE r == ProcessInput(Head(toClient))
<1>1. ZoneType /\ CallInv /\ LineInv
  BY DEF ZoneInv
<1>2. pc \in {"negotiate", "wait"} /\ toClient # <<>> /\ up
  BY <1>1 DEF RecvMore, Readable, ZoneType
<1>3. /\ ~r.done /\ mdp_state' = r.state /\ response' = r.response
      /\ toClient' = Tail(toClient)
      /\ UNCHANGED <<pc, mdp_version, reqid, call, toHost, up, updates, store, view,
                     ncall, seen, applied, result>>
  BY DEF RecvMore, agentVars, history
<1> HIDE DEF r
<1>4. pc = "wait"
  <2> SUFFICES ASSUME pc = "negotiate" PROVE FALSE
    BY <1>2
  <2>1. /\ mdp_state = "MESSAGE_HEADER"
        /\ \/ toClient = <<Word("V2_OK")>>
           \/ toClient = <<Word("INVALID_COMMAND")>>
    BY <1>1, <1>2 DEF LineInv, Sent, Answered
  <2>2. \/ Head(toClient) = Word("V2_OK")
        \/ Head(toClient) = Word("INVALID_COMMAND")
    BY <2>1, OneLine
  <2> QED
    BY <1>3, <2>1, <2>2, WordedFinish DEF r
<1>5. DataNext'
  <2>1. WaitInv
    BY <1>1, <1>2, <1>4 DEF LineInv
  <2>2. ~Asked /\ ~Submitted
    BY <1>2 DEF Asked, Submitted, Sent
  <2>3. ~Framed
    <3> SUFFICES ASSUME Framed PROVE FALSE
      OBVIOUS
    <3>1. PICK code, data : toClient = <<Frame(reqid, code, data)>>
      BY DEF Framed, Answered
    <3>2. Head(toClient) = Frame(reqid, code, data)
      BY <3>1, OneLine
    <3>3. r = Finish(IF code \in {"SUCCESS", "NOTFOUND"} THEN code ELSE "UNKNOWN", data)
      BY <3>2, FramedFinish DEF r, Framed
    <3> QED
      BY <1>3, <3>3 DEF Finish
  <2>4. ~Worded
    <3> SUFFICES ASSUME Worded PROVE FALSE
      OBVIOUS
    <3>1. Head(toClient) = Word("FAILURE") \/ Head(toClient) = Word("NOTFOUND")
      BY OneLine DEF Worded, Answered
    <3> QED
      BY <1>3, <3>1, WordedFinish DEF r, Worded
  <2>5. CASE HeaderNext
    <3>1. r = Continue("MESSAGE_DATA", [code |-> "SUCCESS", data |-> <<>>])
      BY <2>5, HeaderContinues DEF r, HeaderNext
    <3>2. mdp_state' = "MESSAGE_DATA" /\ response' = [code |-> "SUCCESS", data |-> <<>>]
      BY <1>3, <3>1 DEF Continue
    <3>3. PICK d \in Seq(TextSet) : Listed(d) /\ Rest(Tail(toClient), d, 0)
      BY <2>5 DEF HeaderNext
    <3>4. Listed(d)' /\ Rest(toClient', d, 0)
      BY <1>3, <3>3 DEF Listed
    <3>5. Trimmed(<<>>, d, 0) /\ 0 \in 0..Len(d)
      <4>1. Len(d) \in Nat
        OBVIOUS
      <4> QED
        BY <4>1 DEF Trimmed
    <3>6. Quiet' /\ IsRead'
      BY <1>3, <2>5 DEF HeaderNext, Quiet, IsRead
    <3> QED
      BY <3>2, <3>4, <3>5, <3>6 DEF DataNext
  <2>6. CASE DataNext
    <3>1. PICK d \in Seq(TextSet) : \E k \in 0..Len(d) :
              /\ Listed(d) /\ Rest(toClient, d, k)
              /\ \E x : /\ response = [code |-> "SUCCESS", data |-> x]
                        /\ Trimmed(x, d, k)
      BY <2>6 DEF DataNext
    <3>2. PICK k \in 0..Len(d) :
              /\ Listed(d) /\ Rest(toClient, d, k)
              /\ \E x : /\ response = [code |-> "SUCCESS", data |-> x]
                        /\ Trimmed(x, d, k)
      BY <3>1
    <3>3. PICK x : response = [code |-> "SUCCESS", data |-> x] /\ Trimmed(x, d, k)
      BY <3>2
    <3>4. Len(d) \in Nat /\ mdp_state = "MESSAGE_DATA"
      BY <2>6 DEF DataNext
    <3>5. k # Len(d)
      <4> SUFFICES ASSUME k = Len(d) PROVE FALSE
        OBVIOUS
      <4>1. Head(toClient) = DataLine(EndOfData)
        BY <3>2, RestEnd
      <4>2. r = Finish("SUCCESS", x)
        BY <3>3, <3>4, <4>1, DataEnds DEF r
      <4> QED
        BY <1>3, <4>2 DEF Finish
    <3>6. k \in 0..(Len(d) - 1) /\ k + 1 \in 0..Len(d) /\ k + 1 \in 1..Len(d)
      BY <3>4, <3>5
    <3>7. Head(toClient) = DataLine(Stuff(d[k + 1])) /\ Rest(Tail(toClient), d, k + 1)
      BY <3>2, <3>6, RestLine
    <3>8. d[k + 1] \in TextSet
      BY <3>6, ElementOfSeq
    <3>9. r = Continue("MESSAGE_DATA", [code |-> "SUCCESS", data |-> AppendLine(x, d[k + 1])])
      BY <3>3, <3>4, <3>7, <3>8, DataContinues DEF r
    <3>10. /\ mdp_state' = "MESSAGE_DATA"
           /\ response' = [code |-> "SUCCESS", data |-> AppendLine(x, d[k + 1])]
      BY <1>3, <3>9 DEF Continue
    <3>11. Trimmed(AppendLine(x, d[k + 1]), d, k + 1)
      BY <3>3, <3>6, TrimStep
    <3>12. Listed(d)' /\ Rest(toClient', d, k + 1)
      BY <1>3, <3>2, <3>7 DEF Listed
    <3>13. Quiet' /\ IsRead'
      BY <1>3, <2>6 DEF DataNext, Quiet, IsRead
    <3> QED
      BY <3>6, <3>10, <3>11, <3>12, <3>13 DEF DataNext
  <2> QED
    BY <2>1, <2>2, <2>3, <2>4, <2>5, <2>6 DEF WaitInv
<1>6. ZoneType'
  BY <1>1, <1>3 DEF ZoneType, PcSet, Serial
<1>7. CallInv'
  BY <1>1, <1>3, <1>4 DEF CallInv
<1>8. LineInv'
  BY <1>2, <1>3, <1>4, <1>5 DEF LineInv, WaitInv
<1>9. Pend' = Pend
  BY <1>3 DEF Pend
<1> QED
  BY <1>3, <1>6, <1>7, <1>8, <1>9, Stutter DEF ZoneInv

-----------------------------------------------------------------------------
(* Answers.                                                                 *)

LEMMA AnswerFields ==
    ASSUME NEW c, NEW v
    PROVE  LET a == Service!Answer(c, v)
           IN a.code \in {"SUCCESS", "NOTFOUND"} /\ a = [code |-> a.code, data |-> a.data]
BY DEF Service!Answer

LEMMA TrimLines ==
    ASSUME NEW d
    PROVE  Service!Trim(LinesOf(d)) = Service!Trim(d)
<1>1. CASE d = <<>>
  <2> DEFINE e == <<Service!EmptyLine>>
  <2>1. DOMAIN e = {1} /\ e[1] = Service!EmptyLine
    OBVIOUS
  <2>2. {i \in DOMAIN e : e[i] # Service!EmptyLine} = {}
    BY <2>1
  <2>3. Service!Trim(e) = <<>>
    BY <2>2 DEF Service!Trim
  <2>4. {i \in DOMAIN <<>> : <<>>[i] # Service!EmptyLine} = {}
    OBVIOUS
  <2>5. Service!Trim(<<>>) = <<>>
    BY <2>4 DEF Service!Trim
  <2> QED
    BY <1>1, <2>3, <2>5 DEF LinesOf
<1>2. CASE d # <<>>
  BY <1>2 DEF LinesOf
<1> QED
  BY <1>1, <1>2

\* A read returns what the agent saw.
LEMMA ReadStep ==
    ASSUME NEW r, IsRead, Result(r), NEW v \in seen,
           \/ r = Service!Answer(call, v)
           \/ r = [Service!Answer(call, v) EXCEPT !.data = Service!Trim(@)],
           store' = store, view' = view, Pend' = Pend
    PROVE  Served
<1> DEFINE a == Service!Answer(call, v)
<1>1. a.code \in {"SUCCESS", "NOTFOUND"} /\ a = [code |-> a.code, data |-> a.data]
  BY AnswerFields
<1> HIDE DEF a
<1>2. r = a \/ r = [a EXCEPT !.data = Service!Trim(@)]
  BY DEF a
<1>3. r.code \in {"none", "SUCCESS", "NOTFOUND"}
  BY <1>1, <1>2
<1>4. result' = r /\ call' = NoCall /\ seen' = {} /\ applied' = FALSE /\ ncall' = ncall
  BY DEF Result
<1> DEFINE o == IF result.code \in {"none", "SUCCESS", "NOTFOUND"} THEN result
                ELSE [code |-> "error", data |-> <<>>]
<1>5. o' = r
  BY <1>3, <1>4
<1>6. o' \in {a, [a EXCEPT !.data = Service!Trim(@)]}
  <2> HIDE DEF o
  <2> QED
    BY <1>2, <1>5
<1>7. Service!ReturnRead
  BY <1>4, <1>6 DEF Service!ReturnRead, Service!Return, NoCall, Pend, IsRead, a
<1> QED
  BY <1>7 DEF Served, Service!Next

LEMMA RecvAnswerStep ==
    ASSUME ZoneInv, RecvAnswer, setting' = setting
    PROVE  ZoneInv' /\ Served
<1> DEFINE p == ProcessInput(Head(toClient))
           r == p.response
<1>1. ZoneType /\ CallInv /\ LineInv
  BY DEF ZoneInv
<1>2. pc = "wait" /\ toClient # <<>> /\ up /\ ~Serial
  BY <1>1 DEF RecvAnswer, Readable, ZoneType
<1>3. /\ p.done /\ Result(r)
      /\ pc' = "ready" /\ toClient' = Tail(toClient)
      /\ UNCHANGED <<mdp_version, reqid, toHost, up, updates, store, view>>
  BY <1>2 DEF RecvAnswer, agentVars
<1>4. call' = NoCall /\ response' = Pending /\ ncall' = ncall /\ applied' = FALSE
  BY <1>3 DEF Result
<1>5. Pend' = Pend
  BY <1>3 DEF Pend
<1> HIDE DEF p, r
<1>6. call # NoCall
  BY <1>1, <1>2 DEF CallInv
<1>7. Quiet /\ Tail(toClient) = <<>> /\ Served
  <2>1. WaitInv
    BY <1>1, <1>2 DEF LineInv
  <2>2. ~Asked /\ ~Submitted
    BY <1>2 DEF Asked, Submitted, Sent
  <2>3. CASE Framed
    <3>1. PICK code, data : Answered(<<Frame(reqid, code, data)>>) /\ Good(code, data)
      BY <2>3 DEF Framed
    <3>2. Quiet /\ Head(toClient) = Frame(reqid, code, data) /\ Tail(toClient) = <<>>
      BY <3>1, OneLine DEF Answered
    <3>3. p = Finish(IF code \in {"SUCCESS", "NOTFOUND"} THEN code ELSE "UNKNOWN", data)
      BY <2>3, <3>2, FramedFinish DEF p, Framed
    <3>4. r = [code |-> IF code \in {"SUCCESS", "NOTFOUND"} THEN code ELSE "UNKNOWN",
               data |-> data]
      BY <3>3 DEF r, Finish
    <3>5. ASSUME IsRead, NEW v \in seen,
                 Service!Answer(call, v) = [code |-> code, data |-> data]
          PROVE  Served
      <4>1. Service!Answer(call, v).code = code
        BY <3>5
      <4>2. code \in {"SUCCESS", "NOTFOUND"}
        BY <4>1, AnswerFields
      <4>3. r = Service!Answer(call, v)
        BY <3>4, <3>5, <4>2
      <4> QED
        BY <1>3, <1>5, <3>5, <4>3, ReadStep
    <3>6. ASSUME call.cmd \in Service!Update, applied, toHost = <<>>, updates = <<>>,
                 code = "SUCCESS", data = <<TextLine(0, "OK")>>
          PROVE  Served
      <4>1. r = [code |-> "SUCCESS", data |-> <<TextLine(0, "OK")>>]
        BY <3>4, <3>6
      <4>2. Pend = <<>>
        BY <3>6, CallsOfNone, ChangesNone DEF Pend
      <4>3. \A i \in DOMAIN Pend : Pend[i] # call
        BY <4>2
      <4>4. result' = r /\ seen' = {}
        BY <1>3 DEF Result
      <4>5. r = Service!Done /\ r.code = "SUCCESS"
        BY <4>1 DEF Service!Done, Service!TextLine, TextLine
      <4>6. Service!ReturnUpdate
        BY <1>3, <1>4, <1>5, <3>6, <4>3, <4>4, <4>5
           DEF Service!ReturnUpdate, Service!Return, NoCall, Pend
      <4> QED
        BY <4>6 DEF Served, Service!Next
    <3>7. ASSUME code = "FAILURE" PROVE Served
      <4>1. r.code \in Failures
        BY <3>4, <3>7 DEF Failures
      <4> QED
        BY <1>3, <1>5, <1>6, <4>1, ErrorStep
    <3>8. Served
      BY <3>1, <3>5, <3>6, <3>7 DEF Good
    <3> QED
      BY <3>2, <3>8
  <2>4. CASE Worded
    <3>1. CASE Answered(<<Word("FAILURE")>>)
      <4>1. Quiet /\ Head(toClient) = Word("FAILURE") /\ Tail(toClient) = <<>>
        BY <3>1, OneLine DEF Answered
      <4>2. r.code = "UNKNOWN"
        BY <2>4, <4>1, WordedFinish DEF r, p, Worded
      <4>3. r.code \in Failures
        BY <4>2 DEF Failures
      <4> QED
        BY <1>3, <1>5, <1>6, <4>1, <4>3, ErrorStep
    <3>2. CASE Answered(<<Word("NOTFOUND")>>) /\ IsRead
               /\ \E v \in seen :
                     Service!Answer(call, v) = [code |-> "NOTFOUND", data |-> <<>>]
      <4>1. Quiet /\ Head(toClient) = Word("NOTFOUND") /\ Tail(toClient) = <<>>
        BY <3>2, OneLine DEF Answered
      <4>2. r = [code |-> "NOTFOUND", data |-> response.data]
        BY <2>4, <4>1, WordedFinish DEF r, p, Worded
      <4>3. r = [code |-> "NOTFOUND", data |-> <<>>]
        BY <2>4, <4>2 DEF Worded, Pending
      <4>4. PICK v \in seen : r = Service!Answer(call, v)
        BY <3>2, <4>3
      <4>5. Served
        BY <1>3, <1>5, <3>2, <4>4, ReadStep
      <4> QED
        BY <4>1, <4>5
    <3> QED
      BY <2>4, <3>1, <3>2 DEF Worded
  <2>5. ~HeaderNext
    <3> SUFFICES ASSUME HeaderNext PROVE FALSE
      OBVIOUS
    <3>1. p = Continue("MESSAGE_DATA", [code |-> "SUCCESS", data |-> <<>>])
      BY HeaderContinues DEF p, HeaderNext
    <3> QED
      BY <1>3, <3>1 DEF Continue
  <2>6. CASE DataNext
    <3>1. PICK d \in Seq(TextSet) : \E k \in 0..Len(d) :
              /\ Listed(d) /\ Rest(toClient, d, k)
              /\ \E x : /\ response = [code |-> "SUCCESS", data |-> x]
                        /\ Trimmed(x, d, k)
      BY <2>6 DEF DataNext
    <3>2. PICK k \in 0..Len(d) :
              /\ Listed(d) /\ Rest(toClient, d, k)
              /\ \E x : /\ response = [code |-> "SUCCESS", data |-> x]
                        /\ Trimmed(x, d, k)
      BY <3>1
    <3>3. PICK x : response = [code |-> "SUCCESS", data |-> x] /\ Trimmed(x, d, k)
      BY <3>2
    <3>4. Len(d) \in Nat /\ mdp_state = "MESSAGE_DATA" /\ Quiet /\ IsRead
      BY <2>6 DEF DataNext
    <3>5. k = Len(d)
      <4> SUFFICES ASSUME k # Len(d) PROVE FALSE
        OBVIOUS
      <4>1. k \in 0..(Len(d) - 1) /\ k + 1 \in 1..Len(d)
        BY <3>4
      <4>2. Head(toClient) = DataLine(Stuff(d[k + 1]))
        BY <3>2, <4>1, RestLine
      <4>3. d[k + 1] \in TextSet
        BY <4>1, ElementOfSeq
      <4>4. p = Continue("MESSAGE_DATA", [code |-> "SUCCESS", data |-> AppendLine(x, d[k + 1])])
        BY <3>3, <3>4, <4>2, <4>3, DataContinues DEF p
      <4> QED
        BY <1>3, <4>4 DEF Continue
    <3>6. Head(toClient) = DataLine(EndOfData) /\ Tail(toClient) = <<>>
      BY <3>2, <3>5, RestEnd
    <3>7. p = Finish("SUCCESS", x)
      BY <3>3, <3>4, <3>6, DataEnds DEF p
    <3>8. r = [code |-> "SUCCESS", data |-> x]
      BY <3>7 DEF r, Finish
    <3>9. x = Service!Trim(d)
      BY <3>3, <3>5, TrimDone
    <3>10. PICK v \in seen : /\ Service!Answer(call, v).code = "SUCCESS"
                             /\ d = LinesOf(Service!Answer(call, v).data)
      BY <3>2 DEF Listed
    <3> DEFINE a == Service!Answer(call, v)
    <3>11. a = [code |-> "SUCCESS", data |-> a.data]
      BY <3>10, AnswerFields
    <3>12. x = Service!Trim(a.data)
      BY <3>9, <3>10, TrimLines
    <3> HIDE DEF a
    <3>13. r = [a EXCEPT !.data = Service!Trim(@)]
      BY <3>8, <3>11, <3>12
    <3>14. Served
      BY <1>3, <1>5, <3>4, <3>13, ReadStep DEF a
    <3> QED
      BY <3>4, <3>6, <3>14
  <2> QED
    BY <2>1, <2>2, <2>3, <2>4, <2>5, <2>6 DEF WaitInv
<1>8. toClient' = <<>> /\ Quiet'
  BY <1>3, <1>7 DEF Quiet
<1>9. ZoneType'
  BY <1>1, <1>3, <1>4, NoCallType DEF ZoneType, PcSet, Serial
<1>10. CallInv'
  BY <1>3, <1>4 DEF CallInv
<1>11. LineInv'
  BY <1>2, <1>3, <1>8 DEF LineInv, Answered
<1> QED
  BY <1>7, <1>9, <1>10, <1>11 DEF ZoneInv

-----------------------------------------------------------------------------
(* The agent.                                                               *)

\* What stays the same for a client that waits, when what is taken off the
\* line, or is carried out, is of a connection that is gone.
LEMMA OldRequest ==
    ASSUME LineInv, up' = up, pc' = pc, toClient' = toClient,
           UNCHANGED <<mdp_state, mdp_version, reqid, response, call, seen>>,
           Quiet => Quiet',
           Sent => Sent' /\ LastReq' = LastReq,
           Submitted => Submitted',
           ~(toHost = <<>> /\ updates = <<>>)
    PROVE  LineInv'
<1>1. \A lines : Answered(lines) => Answered(lines)'
  BY DEF Answered
<1>2. Asked => Asked'
  BY DEF Asked
<1>3. Framed => Framed'
  <2> SUFFICES ASSUME Framed PROVE Framed'
    OBVIOUS
  <2>1. PICK code, data : Answered(<<Frame(reqid, code, data)>>) /\ Good(code, data)
    BY DEF Framed
  <2>2. Answered(<<Frame(reqid, code, data)>>)'
    BY <2>1 DEF Answered
  <2>3. Good(code, data)'
    BY <2>1 DEF Good, IsRead
  <2> QED
    BY <2>2, <2>3 DEF Framed
<1>4. Worded => Worded'
  BY DEF Worded, Answered, IsRead
<1>5. HeaderNext => HeaderNext'
  BY DEF HeaderNext, IsRead, Listed
<1>6. DataNext => DataNext'
  BY DEF DataNext, IsRead, Listed
<1>7. WaitInv => WaitInv'
  BY <1>2, <1>3, <1>4, <1>5, <1>6 DEF WaitInv
<1> QED
  BY <1>1, <1>7 DEF LineInv, Answered

\* A request of this connection is the one that the client waits for.
LEMMA LiveRequest ==
    ASSUME ZoneInv, toHost # <<>>, Head(toHost).live
    PROVE  /\ up /\ Sent /\ Tail(toHost) = <<>> /\ Head(toHost) = LastReq
           /\ \/ pc = "sync" /\ LastReq.t = "newline"
              \/ pc = "negotiate" /\ LastReq.t = "NEGOTIATE" /\ mdp_state = "MESSAGE_HEADER"
              \/ pc = "wait" /\ Asked
<1>1. LineInv /\ ZoneType
  BY DEF ZoneInv
<1>2. toHost \in Seq(ReqSet)
  BY <1>1 DEF ZoneType
<1>3. ~NoneLive(toHost)
  BY <1>2, NoneLiveTail
<1>4. ~Quiet /\ ~Submitted /\ ~Framed /\ ~Worded /\ ~HeaderNext /\ ~DataNext
  BY <1>3 DEF Quiet, Submitted, Framed, Worded, HeaderNext, DataNext, Answered
<1>5. up
  BY <1>1, <1>4 DEF LineInv
<1>6. /\ Sent
      /\ \/ pc = "sync" /\ LastReq.t = "newline"
         \/ pc = "negotiate" /\ LastReq.t = "NEGOTIATE" /\ mdp_state = "MESSAGE_HEADER"
         \/ pc = "wait" /\ Asked
  <2>1. \A lines : ~Answered(lines)
    BY <1>4 DEF Answered
  <2>2. pc \in {"sync", "negotiate", "wait"}
    BY <1>1, <2>1 DEF ZoneType, PcSet, LineInv
  <2>3. CASE pc = "sync"
    BY <1>1, <1>5, <2>1, <2>3 DEF LineInv
  <2>4. CASE pc = "negotiate"
    BY <1>1, <1>5, <2>1, <2>4 DEF LineInv
  <2>5. CASE pc = "wait"
    BY <1>1, <1>4, <1>5, <2>5 DEF LineInv, WaitInv, Asked
  <2> QED
    BY <2>2, <2>3, <2>4, <2>5
<1>7. Tail(toHost) = <<>> /\ Head(toHost) = LastReq
  BY <1>2, <1>6, LastLiveTail DEF Sent, LastReq
<1> QED
  BY <1>5, <1>6, <1>7

LEMMA FoundIsAnswer ==
    ASSUME IsRead
    PROVE  Found(call) = Service!Answer(call, view)
BY DEF IsRead, Found, Service!Answer, Service!TextLine, TextLine

LEMMA AnswerLines ==
    ASSUME ZoneType
    PROVE  LinesOf(Service!Answer(call, view).data) \in Seq(TextSet)
<1> DEFINE d == Service!Answer(call, view).data
<1>1. \/ d = <<>>
      \/ d = <<Service!TextLine(0, "key")>>
      \/ d = view /\ view # Nil
  BY DEF Service!Answer
<1> HIDE DEF d
<1>2. <<Service!EmptyLine>> \in Seq(TextSet)
  <2>1. Service!EmptyLine \in TextSet
    BY DEF Service!EmptyLine, Service!TextLine, TextSet
  <2> HIDE DEF TextSet
  <2> QED
    BY <2>1
<1>3. <<Service!TextLine(0, "key")>> \in Seq(TextSet)
  <2>1. Service!TextLine(0, "key") \in TextSet
    BY DEF Service!TextLine, TextSet
  <2> HIDE DEF TextSet
  <2> QED
    BY <2>1
<1>4. view # Nil => view \in Seq(TextSet)
  <2> SUFFICES ASSUME view # Nil PROVE view \in Seq(TextSet)
    OBVIOUS
  <2> DEFINE T == [dot : Nat, text : STRING]
  <2>1. view \in Seq(T)
    BY MdataAssumption DEF ZoneType, ValSet
  <2>2. \A l \in T : l \in TextSet
    BY DEF TextSet
  <2> HIDE DEF T
  <2>3. /\ Len(view) \in Nat /\ view \in [1..Len(view) -> T]
    BY <2>1, LenProperties
  <2>4. view \in [1..Len(view) -> TextSet]
    BY <2>2, <2>3
  <2> QED
    BY <2>3, <2>4, IsASeq
<1> QED
  BY <1>1, <1>2, <1>3, <1>4 DEF LinesOf, d

\* The request goes to VM.update in the order of its arrival.
LEMMA HandlePend ==
    ASSUME ZoneType, Handle
    PROVE  toHost' \in Seq(ReqSet) /\ updates' \in Seq(UpdSet) /\ Pend' = Pend
<1> DEFINE q == Head(toHost)
           u == [call |-> q.call, id |-> q.id, live |-> q.live]
<1>1. toHost \in Seq(ReqSet) /\ updates \in Seq(UpdSet) /\ toHost # <<>>
      /\ toHost' = Tail(toHost)
  BY DEF ZoneType, Handle
<1>2. q \in ReqSet /\ toHost' \in Seq(ReqSet)
  BY <1>1, HeadTailProperties
<1>3. q.call \in CallSet /\ q.id \in Nat /\ q.live \in BOOLEAN
  BY <1>2 DEF ReqSet
<1>4. ChangesIn(toHost) = IF IsUpdate(q) THEN <<q.call>> \o ChangesIn(toHost')
                          ELSE ChangesIn(toHost')
  BY <1>1, ChangesHead
<1>5. CASE IsUpdate(q)
  <2>1. updates' = Append(updates, u)
    BY <1>5 DEF Handle
  <2>2. u \in UpdSet
    BY <1>3, <1>5 DEF IsUpdate, UpdSet, ChangeSet
  <2>3. updates' \in Seq(UpdSet)
    BY <1>1, <2>1, <2>2, AppendProperties
  <2>4. CallsOf(updates') = Append(CallsOf(updates), q.call)
    BY <1>1, <2>1, <2>2, CallsOfAppend
  <2>5. CallsOf(updates) \in Seq(CallSet) /\ ChangesIn(toHost') \in Seq(CallSet)
    BY <1>1, <1>2, CallsOfType, ChangesType
  <2>6. Append(CallsOf(updates), q.call) \o ChangesIn(toHost')
            = CallsOf(updates) \o (<<q.call>> \o ChangesIn(toHost'))
    BY <1>3, <2>5, CallsMove
  <2> QED
    BY <1>2, <1>4, <1>5, <2>3, <2>4, <2>6 DEF Pend
<1>6. CASE ~IsUpdate(q)
  <2>1. updates' = updates
    BY <1>6 DEF Handle
  <2> QED
    BY <1>1, <1>2, <1>4, <1>6, <2>1 DEF Pend
<1> QED
  BY <1>5, <1>6

\* The agent answers a request that is not a change.
LEMMA HandleWrites ==
    ASSUME ZoneType, Handle, up, toClient = <<>>, Head(toHost).live,
           ~IsUpdate(Head(toHost)), NEW S, NEW lines \in Seq(S),
           LET req == Head(toHost)
           IN lines = CASE req.t = "newline"   -> <<Word("INVALID_COMMAND")>>
                        [] req.t = "NEGOTIATE" -> <<Word(IF setting.version = 2 THEN "V2_OK"
                                                         ELSE "INVALID_COMMAND")>>
                        [] req.t = "damaged"   -> <<>>
                        [] OTHER -> IF req.call.cmd \in {"GET", "KEYS"}
                                    THEN LET f == Found(req.call)
                                         IN Respond(req, f.code, f.data)
                                    ELSE Respond(req, "FAILURE", <<>>)
    PROVE  toClient' = lines /\ updates' = updates
<1> DEFINE req == Head(toHost)
<1>1. Write(req, lines) /\ updates' = updates
  BY DEF Handle
<1>2. toClient' = toClient \o lines
  BY <1>1 DEF Write
<1>3. <<>> \o lines = lines
  OBVIOUS
<1> QED
  BY <1>1, <1>2, <1>3

LEMMA HandleLine ==
    ASSUME ZoneInv, Handle, setting' = setting
    PROVE  LineInv'
<1> DEFINE q == Head(toHost)
<1>1. ZoneType /\ CallInv /\ LineInv
  BY DEF ZoneInv
<1>2. /\ toHost # <<>> /\ toHost' = Tail(toHost)
      /\ UNCHANGED <<pc, mdp_state, mdp_version, reqid, response, call, up, store, view,
                     seen, applied>>
  BY DEF Handle, clientVars, history
<1>3. toHost \in Seq(ReqSet) /\ updates \in Seq(UpdSet)
  BY <1>1 DEF ZoneType
<1>4. q \in ReqSet
  BY <1>2, <1>3, HeadTailProperties
<1>5. CASE ~q.live
  <2> DEFINE u == [call |-> q.call, id |-> q.id, live |-> q.live]
  <2>1. toClient' = toClient /\ (updates' = updates \/ (IsUpdate(q) /\ updates' = Append(updates, u)))
    BY <1>5 DEF Handle, Write
  <2>2. NoneLive(updates) => NoneLive(updates')
    <3>1. CASE updates' = updates
      BY <3>1
    <3>2. CASE IsUpdate(q) /\ updates' = Append(updates, u)
      <4>1. u \in UpdSet /\ ~u.live
        BY <1>4, <1>5, <3>2 DEF ReqSet, IsUpdate, UpdSet, ChangeSet
      <4> HIDE DEF u
      <4> QED
        BY <1>3, <3>2, <4>1, AppendLive
    <3> QED
      BY <2>1, <3>1, <3>2
  <2>3. Quiet => Quiet'
    BY <1>2, <1>3, <2>2, NoneLiveTail DEF Quiet
  <2>4. Sent => Sent' /\ LastReq' = LastReq
    BY <1>2, <1>3, <1>5, <2>1, <2>2, LastLiveTail DEF Sent, LastReq
  <2>5. ~Submitted
    BY <1>2 DEF Submitted
  <2> QED
    BY <1>1, <1>2, <2>1, <2>3, <2>4, <2>5, OldRequest
<1>6. CASE q.live
  <2>1. /\ up /\ Sent /\ toHost' = <<>> /\ q = LastReq
        /\ \/ pc = "sync" /\ q.t = "newline"
           \/ pc = "negotiate" /\ q.t = "NEGOTIATE" /\ mdp_state = "MESSAGE_HEADER"
           \/ pc = "wait" /\ Asked
    BY <1>2, <1>6, LiveRequest
  <2>2. toClient = <<>> /\ NoneLive(updates)
    BY <2>1 DEF Sent
  <2>3. CASE pc = "sync" /\ q.t = "newline"
    <3> DEFINE lines == <<Word("INVALID_COMMAND")>>
    <3>1. ~IsUpdate(q)
      BY <2>3 DEF IsUpdate
    <3>2. lines \in Seq({Word("INVALID_COMMAND")})
      OBVIOUS
    <3>3. toClient' = lines /\ updates' = updates
      BY <1>1, <1>6, <2>1, <2>2, <2>3, <3>1, <3>2, HandleWrites
    <3>4. Answered(lines)'
      BY <2>1, <2>2, <3>3, NothingLive DEF Answered, Quiet
    <3> QED
      BY <1>2, <2>1, <2>3, <3>4 DEF LineInv
  <2>4. CASE pc = "negotiate" /\ q.t = "NEGOTIATE" /\ mdp_state = "MESSAGE_HEADER"
    <3> DEFINE w == Word(IF setting.version = 2 THEN "V2_OK" ELSE "INVALID_COMMAND")
               lines == <<w>>
    <3>1. ~IsUpdate(q)
      BY <2>4 DEF IsUpdate
    <3>2. lines \in Seq({w})
      OBVIOUS
    <3> HIDE DEF w
    <3>6. lines = CASE q.t = "newline"   -> <<Word("INVALID_COMMAND")>>
                    [] q.t = "NEGOTIATE" -> <<Word(IF setting.version = 2 THEN "V2_OK"
                                                   ELSE "INVALID_COMMAND")>>
                    [] q.t = "damaged"   -> <<>>
                    [] OTHER -> IF q.call.cmd \in {"GET", "KEYS"}
                                THEN LET f == Found(q.call)
                                     IN Respond(q, f.code, f.data)
                                ELSE Respond(q, "FAILURE", <<>>)
      BY <2>4 DEF w
    <3> HIDE DEF lines
    <3>3. toClient' = lines /\ updates' = updates
      BY <1>1, <1>6, <2>1, <2>2, <3>1, <3>2, <3>6, HandleWrites
    <3>4. toClient' = lines /\ Quiet'
      BY <2>1, <2>2, <3>3, NothingLive DEF Quiet
    <3>5. Answered(<<Word("V2_OK")>>)' \/ Answered(<<Word("INVALID_COMMAND")>>)'
      BY <3>3, <3>4 DEF Answered, lines, w
    <3> QED
      BY <1>2, <2>1, <2>4, <3>5 DEF LineInv
  <2>5. CASE pc = "wait" /\ Asked
    <3>1. /\ q.call = call /\ response = Pending
          /\ \/ mdp_version = 1 /\ q.t = "V1" /\ mdp_state = "MESSAGE_HEADER"
             \/ /\ mdp_version = 2 /\ q.t = "V2" /\ q.id = reqid
                /\ mdp_state = "MESSAGE_V2"
      BY <2>1, <2>5 DEF Asked
    <3>2. call # NoCall /\ view \in seen
      BY <1>1, <2>5 DEF CallInv
    <3> DEFINE a == Service!Answer(call, view)
    <3>3. ASSUME ~IsUpdate(q), updates' = updates PROVE Quiet'
      BY <2>1, <2>2, <3>3, NothingLive DEF Quiet
    <3>4. ASSUME ~IsUpdate(q), NEW S, NEW lines \in Seq(S),
                 IF IsRead THEN lines = Respond(q, a.code, a.data)
                 ELSE lines = Respond(q, "FAILURE", <<>>)
          PROVE  toClient' = lines /\ Quiet'
      <4>1. lines = CASE q.t = "newline"   -> <<Word("INVALID_COMMAND")>>
                      [] q.t = "NEGOTIATE" -> <<Word(IF setting.version = 2 THEN "V2_OK"
                                                       ELSE "INVALID_COMMAND")>>
                      [] q.t = "damaged"   -> <<>>
                      [] OTHER -> IF q.call.cmd \in {"GET", "KEYS"}
                                  THEN LET f == Found(q.call)
                                       IN Respond(q, f.code, f.data)
                                  ELSE Respond(q, "FAILURE", <<>>)
        BY <3>1, <3>4, FoundIsAnswer DEF IsRead
      <4>2. toClient' = lines /\ updates' = updates
        BY <1>1, <1>6, <2>1, <2>2, <3>4, <4>1, HandleWrites
      <4> QED
        BY <3>3, <3>4, <4>2
    <3>5. a.code \in {"SUCCESS", "NOTFOUND"} /\ a = [code |-> a.code, data |-> a.data]
      BY AnswerFields
    <3>6. CASE IsUpdate(q)
      <4> DEFINE u == [call |-> q.call, id |-> q.id, live |-> q.live]
      <4>1. updates' = Append(updates, u) /\ toClient' = toClient
        BY <3>6 DEF Handle
      <4>2. u \in UpdSet /\ u.live /\ u.call = call /\ u.id = reqid
        BY <1>4, <1>6, <3>1, <3>6 DEF ReqSet, IsUpdate, UpdSet, ChangeSet
      <4>3. call.cmd \in Service!Update /\ mdp_state = "MESSAGE_V2"
        BY <3>1, <3>6 DEF IsUpdate, Service!Update
      <4> HIDE DEF u
      <4>4. LastLive(updates') /\ updates'[Len(updates')] = u
        BY <1>3, <2>2, <4>1, <4>2, AppendLive
      <4>5. Submitted'
        BY <1>2, <2>1, <2>2, <4>1, <4>2, <4>3, <4>4 DEF Submitted
      <4> QED
        BY <1>2, <2>1, <2>5, <4>5 DEF LineInv, WaitInv
    <3>7. CASE ~IsUpdate(q) /\ q.t = "V2"
      <4>0. mdp_state = "MESSAGE_V2" /\ q.id = reqid
        BY <3>1, <3>7
      <4>1. ASSUME NEW code, NEW data, Good(code, data)',
                   IF IsRead THEN code = a.code /\ data = a.data
                   ELSE code = "FAILURE" /\ data = <<>>
            PROVE  Framed'
        <5> DEFINE f == Frame(reqid, code, data)
        <5>1. <<f>> = Respond(q, code, data) /\ <<f>> \in Seq({f})
          BY <3>7, <4>0 DEF Respond
        <5> HIDE DEF f
        <5>2. toClient' = <<f>> /\ Quiet'
          BY <3>4, <3>7, <4>1, <5>1
        <5>3. Answered(<<Frame(reqid, code, data)>>)'
          BY <1>2, <5>2 DEF Answered, f
        <5> QED
          BY <1>2, <4>0, <4>1, <5>3 DEF Framed
      <4>2. CASE IsRead
        <5>1. Good(a.code, a.data)'
          BY <1>2, <3>2, <3>5, <4>2 DEF Good, IsRead
        <5> QED
          BY <1>2, <2>1, <2>5, <4>1, <4>2, <5>1 DEF LineInv, WaitInv
      <4>3. CASE ~IsRead
        <5>1. Good("FAILURE", <<>>)'
          BY DEF Good
        <5> QED
          BY <1>2, <2>1, <2>5, <4>1, <4>3, <5>1 DEF LineInv, WaitInv
      <4> QED
        BY <4>2, <4>3
    <3>8. CASE ~IsUpdate(q) /\ q.t = "V1"
      <4>0. mdp_state = "MESSAGE_HEADER" /\ q.t # "V2"
        BY <3>1, <3>8
      <4>1. CASE ~IsRead
        <5>1. Respond(q, "FAILURE", <<>>) = <<Word("FAILURE")>>
          BY <4>0 DEF Respond
        <5>2. <<Word("FAILURE")>> \in Seq({Word("FAILURE")})
          OBVIOUS
        <5>3. toClient' = <<Word("FAILURE")>> /\ Quiet'
          BY <3>4, <3>8, <4>1, <5>1, <5>2
        <5>4. Worded'
          BY <1>2, <3>1, <4>0, <5>3 DEF Worded, Answered
        <5> QED
          BY <1>2, <2>1, <2>5, <5>4 DEF LineInv, WaitInv
      <4>2. CASE IsRead /\ a.code = "NOTFOUND"
        <5>1. Respond(q, a.code, a.data) = <<Word("NOTFOUND")>> /\ a.data = <<>>
          BY <4>0, <4>2 DEF Respond, Service!Answer
        <5>2. <<Word("NOTFOUND")>> \in Seq({Word("NOTFOUND")})
          OBVIOUS
        <5>3. toClient' = <<Word("NOTFOUND")>> /\ Quiet'
          BY <3>4, <3>8, <4>2, <5>1, <5>2
        <5>4. a = [code |-> "NOTFOUND", data |-> <<>>]
          BY <3>5, <4>2, <5>1
        <5>5. Worded'
          BY <1>2, <3>1, <3>2, <4>0, <4>2, <5>3, <5>4 DEF Worded, Answered, IsRead
        <5> QED
          BY <1>2, <2>1, <2>5, <5>5 DEF LineInv, WaitInv
      <4>3. CASE IsRead /\ a.code = "SUCCESS"
        <5>0. PICK d : d = LinesOf(a.data)
          OBVIOUS
        <5> DEFINE lines == <<Word("SUCCESS")>> \o Stuffed(d) \o <<DataLine(EndOfData)>>
        <5>1. d \in Seq(TextSet)
          BY <1>1, <5>0, AnswerLines
        <5>2. Respond(q, a.code, a.data) = lines
          BY <4>0, <4>3, <5>0 DEF Respond, LinesOf
        <5>3. /\ lines \in Seq(LineSet) /\ lines # <<>> /\ Head(lines) = Word("SUCCESS")
              /\ Rest(Tail(lines), d, 0)
          BY <5>1, RestFirst
        <5> HIDE DEF lines
        <5>4. toClient' = lines /\ Quiet'
          BY <3>4, <3>8, <4>3, <5>2, <5>3
        <5>5. Listed(d)'
          BY <1>2, <3>2, <4>3, <5>0 DEF Listed
        <5>6. HeaderNext'
          BY <1>2, <3>1, <4>0, <4>3, <5>1, <5>3, <5>4, <5>5 DEF HeaderNext, IsRead
        <5> QED
          BY <1>2, <2>1, <2>5, <5>6 DEF LineInv, WaitInv
      <4> QED
        BY <3>5, <4>1, <4>2, <4>3
    <3> QED
      BY <3>1, <3>6, <3>7, <3>8
  <2> QED
    BY <2>1, <2>3, <2>4, <2>5
<1> QED
  BY <1>5, <1>6

LEMMA HandleStep ==
    ASSUME ZoneInv, Handle, setting' = setting
    PROVE  ZoneInv' /\ Served
<1>1. ZoneType /\ CallInv
  BY DEF ZoneInv
<1>2. UNCHANGED <<pc, mdp_version, response, call, store, view, ncall, seen, applied, result>>
  BY DEF Handle, clientVars, history
<1>3. toHost' \in Seq(ReqSet) /\ updates' \in Seq(UpdSet) /\ Pend' = Pend
  BY <1>1, HandlePend
<1>4. ZoneType'
  BY <1>1, <1>2, <1>3 DEF ZoneType, PcSet, Serial
<1>5. CallInv'
  BY <1>1, <1>2 DEF CallInv
<1>6. LineInv'
  BY HandleLine
<1> QED
  BY <1>2, <1>3, <1>4, <1>5, <1>6, Stutter DEF ZoneInv

\* The oldest change is with VM.update.
LEMMA PendHead ==
    ASSUME ZoneType, updates # <<>>
    PROVE  /\ Head(updates) \in UpdSet /\ Tail(updates) \in Seq(UpdSet)
           /\ Pend # <<>> /\ Head(Pend) = Head(updates).call
           /\ Tail(Pend) = CallsOf(Tail(updates)) \o ChangesIn(toHost)
<1>1. updates \in Seq(UpdSet)
  BY DEF ZoneType
<1>2. Head(updates) \in UpdSet /\ Tail(updates) \in Seq(UpdSet)
  BY <1>1, HeadTailProperties
<1>3. /\ CallsOf(updates) # <<>> /\ Head(CallsOf(updates)) = Head(updates).call
      /\ CallsOf(Tail(updates)) = Tail(CallsOf(updates))
  BY <1>1, CallsOfTail
<1>4. CallsOf(updates) \in Seq(CallSet) /\ ChangesIn(toHost) \in Seq(CallSet)
  BY PendType
<1>5. /\ Tail(Pend) = Tail(CallsOf(updates)) \o ChangesIn(toHost)
      /\ Head(Pend) = Head(CallsOf(updates)) /\ Pend # <<>>
  BY <1>3, <1>4, CallsTail DEF Pend
<1> QED
  BY <1>2, <1>3, <1>5

\* What a change does to the store and to its call.
LEMMA ChangedType ==
    ASSUME ZoneInv, NEW u \in UpdSet, Changed(u)
    PROVE  /\ store' \in ValSet /\ store' = Service!Effect(u.call)
           /\ u.call # NoCall
           /\ call = NoCall => applied' = FALSE
<1>1. u.call \in CallSet /\ u.call.val # Empty /\ u.call.cmd \in {"PUT", "DELETE"}
  BY DEF UpdSet, ChangeSet
<1>2. u.call.val \in ValSet
  BY <1>1 DEF CallSet, ValSet
<1>3. store' \in ValSet
  BY <1>2 DEF Changed, ValSet
<1>4. u.call # NoCall
  BY <1>1 DEF NoCall, Service!NoCall
<1>5. call = NoCall => applied' = FALSE
  BY <1>4 DEF Changed, ZoneInv, CallInv
<1> QED
  BY <1>3, <1>4, <1>5 DEF Changed, Service!Effect

\* An update of this connection is the one that the client waits for.
LEMMA LiveUpdate ==
    ASSUME ZoneInv, updates # <<>>, Head(updates).live
    PROVE  /\ up /\ pc = "wait" /\ Submitted
           /\ Tail(updates) = <<>> /\ Head(updates) = updates[Len(updates)]
<1>1. LineInv /\ ZoneType
  BY DEF ZoneInv
<1>2. updates \in Seq(UpdSet)
  BY <1>1 DEF ZoneType
<1>3. ~NoneLive(updates)
  BY <1>2, NoneLiveTail
<1>4. ~Quiet /\ ~Sent /\ \A lines : ~Answered(lines)
  BY <1>3 DEF Quiet, Sent, Answered
<1>5. ~Asked /\ ~Framed /\ ~Worded /\ ~HeaderNext /\ ~DataNext
  BY <1>4 DEF Asked, Framed, Worded, HeaderNext, DataNext
<1>6. up /\ pc = "wait"
  BY <1>1, <1>4 DEF LineInv, ZoneType, PcSet
<1>7. Submitted
  BY <1>1, <1>5, <1>6 DEF LineInv, WaitInv
<1>8. Tail(updates) = <<>> /\ Head(updates) = updates[Len(updates)]
  BY <1>2, <1>7, LastLiveTail DEF Submitted
<1> QED
  BY <1>6, <1>7, <1>8

LEMMA UpdateDoneStep ==
    ASSUME ZoneInv, UpdateDone, setting' = setting
    PROVE  ZoneInv' /\ Served
<1> DEFINE u == Head(updates)
           ok == Frame(u.id, "SUCCESS", <<TextLine(0, "OK")>>)
           no == Frame(u.id, "FAILURE", <<>>)
<1>1. ZoneType /\ CallInv /\ LineInv
  BY DEF ZoneInv
<1>2. /\ updates # <<>> /\ updates' = Tail(updates)
      /\ UNCHANGED <<pc, mdp_state, mdp_version, reqid, response, call, toHost, up, view,
                     ncall, seen, result>>
      /\ \/ Changed(u) /\ Write(u, <<ok>>)
         \/ Write(u, <<no>>) /\ UNCHANGED <<store, applied>>
  BY DEF UpdateDone, clientVars
<1>3. /\ u \in UpdSet /\ updates' \in Seq(UpdSet)
      /\ Pend # <<>> /\ Head(Pend) = u.call /\ Pend' = Tail(Pend)
  <2>1. /\ Head(updates) \in UpdSet /\ Tail(updates) \in Seq(UpdSet)
        /\ Pend # <<>> /\ Head(Pend) = Head(updates).call
        /\ Tail(Pend) = CallsOf(Tail(updates)) \o ChangesIn(toHost)
    BY <1>1, <1>2, PendHead
  <2>2. Pend' = CallsOf(Tail(updates)) \o ChangesIn(toHost)
    BY <1>2 DEF Pend
  <2> QED
    BY <1>2, <2>1, <2>2
<1> HIDE DEF ok, no, u
<1>4. /\ store' \in ValSet
      /\ call = NoCall => applied' = FALSE
      /\ \/ store' = Service!Effect(u.call) /\ applied' = (applied \/ u.call = call)
         \/ UNCHANGED <<store, applied>>
  <2>1. CASE Changed(u)
    BY <1>3, <2>1, ChangedType DEF Changed
  <2>2. CASE UNCHANGED <<store, applied>>
    BY <1>1, <2>2 DEF ZoneType, CallInv
  <2> QED
    BY <1>2, <2>1, <2>2
<1>5. ZoneType'
  BY <1>1, <1>2, <1>3, <1>4 DEF ZoneType, PcSet, Serial
<1>6. CallInv'
  BY <1>1, <1>2, <1>4 DEF CallInv
<1>7. Served
  <2>1. Service!Apply
    BY <1>2, <1>3, <1>4 DEF Service!Apply, Pend
  <2> QED
    BY <2>1 DEF Served, Service!Next
<1>8. updates \in Seq(UpdSet)
  BY <1>1 DEF ZoneType
<1>9. LineInv'
  <2>1. CASE ~u.live
    <3>1. toClient' = toClient
      BY <1>2, <2>1 DEF Write
    <3>2. NoneLive(updates) => NoneLive(updates')
      BY <1>2, <1>8, NoneLiveTail
    <3>3. Quiet => Quiet'
      BY <1>2, <3>2 DEF Quiet
    <3>4. Sent => Sent' /\ LastReq' = LastReq
      BY <1>2, <3>1, <3>2 DEF Sent, LastReq
    <3>5. Submitted => Submitted'
      BY <1>2, <1>8, <2>1, <3>1, LastLiveTail DEF Submitted, u
    <3> QED
      BY <1>1, <1>2, <3>1, <3>3, <3>4, <3>5, OldRequest
  <2>2. CASE u.live
    <3>1. up /\ pc = "wait" /\ Submitted /\ updates' = <<>> /\ u.call = call /\ u.id = reqid
      BY <1>2, <2>2, LiveUpdate DEF u, Submitted
    <3>2. Quiet'
      BY <1>2, <3>1, NothingLive DEF Submitted, Quiet
    <3>3. toClient = <<>> /\ toHost' = <<>> /\ mdp_state' = "MESSAGE_V2"
          /\ call'.cmd \in Service!Update
      BY <1>2, <3>1 DEF Submitted
    <3>4. CASE Changed(u) /\ Write(u, <<ok>>)
      <4>1. toClient' = <<>> \o <<ok>>
        BY <2>2, <3>1, <3>3, <3>4 DEF Write
      <4>2. toClient' = <<ok>>
        BY <4>1
      <4>3. Answered(<<Frame(reqid, "SUCCESS", <<TextLine(0, "OK")>>)>>)'
        BY <1>2, <3>1, <3>2, <4>2 DEF Answered, ok
      <4>4. applied'
        BY <3>1, <3>4 DEF Changed
      <4>5. Good("SUCCESS", <<TextLine(0, "OK")>>)'
        BY <3>1, <3>3, <4>4 DEF Good
      <4>6. Framed'
        BY <3>3, <4>3, <4>5 DEF Framed
      <4> QED
        BY <1>2, <3>1, <4>6 DEF LineInv, WaitInv
    <3>5. CASE Write(u, <<no>>)
      <4>1. toClient' = <<>> \o <<no>>
        BY <2>2, <3>1, <3>3, <3>5 DEF Write
      <4>2. toClient' = <<no>>
        BY <4>1
      <4>3. Answered(<<Frame(reqid, "FAILURE", <<>>)>>)'
        BY <1>2, <3>1, <3>2, <4>2 DEF Answered, no
      <4>4. Good("FAILURE", <<>>)'
        BY DEF Good
      <4>5. Framed'
        BY <3>3, <4>3, <4>4 DEF Framed
      <4> QED
        BY <1>2, <3>1, <4>5 DEF LineInv, WaitInv
    <3> QED
      BY <1>2, <3>4, <3>5
  <2> QED
    BY <2>1, <2>2
<1> QED
  BY <1>5, <1>6, <1>7, <1>9 DEF ZoneInv

-----------------------------------------------------------------------------
(* The environment, and the theorem.                                        *)

LEMMA AgentRestartStep ==
    ASSUME ZoneInv, AgentRestart, setting' = setting
    PROVE  ZoneInv' /\ Served
<1>1. ZoneType /\ CallInv /\ LineInv
  BY DEF ZoneInv
<1>2. /\ toHost' = <<>> /\ up' = FALSE /\ updates' = <<>>
      /\ \/ updates # <<>> /\ Changed(Head(updates))
         \/ UNCHANGED <<store, applied>>
      /\ UNCHANGED <<pc, mdp_version, response, call, toClient, view, ncall, seen, result>>
  BY DEF AgentRestart, clientVars
<1>3. Pend' = <<>>
  BY <1>2, CallsOfNone, ChangesNone DEF Pend
<1>4. Quiet'
  BY <1>2, NothingLive DEF Quiet
<1>5. /\ store' \in ValSet
      /\ call = NoCall => applied' = FALSE
      /\ \/ /\ Pend # <<>> /\ store' = Service!Effect(Head(Pend))
            /\ applied' = (applied \/ Head(Pend) = call)
         \/ UNCHANGED <<store, applied>>
  <2>1. CASE updates # <<>> /\ Changed(Head(updates))
    <3>1. Head(updates) \in UpdSet /\ Pend # <<>> /\ Head(Pend) = Head(updates).call
      BY <1>1, <2>1, PendHead
    <3>2. /\ store' \in ValSet /\ store' = Service!Effect(Head(updates).call)
          /\ call = NoCall => applied' = FALSE
      BY <2>1, <3>1, ChangedType
    <3>3. applied' = (applied \/ Head(updates).call = call)
      BY <2>1 DEF Changed
    <3> QED
      BY <3>1, <3>2, <3>3
  <2>2. CASE UNCHANGED <<store, applied>>
    BY <1>1, <2>2 DEF ZoneType, CallInv
  <2> QED
    BY <1>2, <2>1, <2>2
<1>6. ZoneType'
  BY <1>1, <1>2, <1>5 DEF ZoneType, PcSet, Serial
<1>7. CallInv'
  BY <1>1, <1>2, <1>5 DEF CallInv
<1>8. LineInv'
  BY <1>1, <1>2, <1>4 DEF LineInv, Answered
<1>9. Served
  <2>1. CASE Pend = <<>>
    BY <1>2, <1>3, <1>5, <2>1, Stutter
  <2>2. CASE Pend # <<>>
    <3>1. Service!Forget
      BY <1>2, <1>3, <1>5, <2>2 DEF Service!Forget, Pend
    <3> QED
      BY <3>1 DEF Served, Service!Next
  <2> QED
    BY <2>1, <2>2
<1> QED
  BY <1>6, <1>7, <1>8, <1>9 DEF ZoneInv

LEMMA HostSetStep ==
    ASSUME ZoneInv, HostSet, setting' = setting
    PROVE  ZoneInv' /\ Served
<1>1. ZoneType /\ CallInv /\ LineInv
  BY DEF ZoneInv
<1>2. /\ store' \in (Val \cup {Nil}) \ {store}
      /\ UNCHANGED <<pc, mdp_state, mdp_version, reqid, response, call, toHost, toClient, up,
                     updates, view, ncall, seen, applied, result>>
  BY DEF HostSet, clientVars, lineVars, history
<1>3. ZoneType'
  BY <1>1, <1>2 DEF ZoneType, PcSet, ValSet, Serial
<1>4. CallInv'
  BY <1>1, <1>2 DEF CallInv
<1>5. WaitInv => WaitInv'
  BY <1>2 DEF WaitInv, Asked, Submitted, Framed, Worded, HeaderNext, DataNext, Sent, Quiet,
              Answered, LastReq, Good, IsRead, Listed
<1>6. LineInv'
  BY <1>1, <1>2, <1>5 DEF LineInv, Answered, Quiet, Sent, LastReq
<1>7. Service!HostSet
  BY <1>2 DEF Service!HostSet
<1> QED
  BY <1>3, <1>4, <1>6, <1>7 DEF ZoneInv, Served, Service!Next

LEMMA RefreshStep ==
    ASSUME ZoneInv, Refresh, setting' = setting
    PROVE  ZoneInv' /\ Served
<1>1. ZoneType /\ CallInv /\ LineInv
  BY DEF ZoneInv
<1>2. /\ view' = store
      /\ seen' = IF call = NoCall THEN seen ELSE seen \cup {store}
      /\ UNCHANGED <<pc, mdp_state, mdp_version, reqid, response, call, toHost, toClient, up,
                     updates, store, ncall, applied, result>>
  BY DEF Refresh, clientVars, lineVars
<1>3. seen \subseteq seen'
  BY <1>2
<1>4. ZoneType'
  BY <1>1, <1>2 DEF ZoneType, PcSet, Serial
<1>5. CallInv'
  BY <1>1, <1>2 DEF CallInv
<1>6. WaitInv => WaitInv'
  <2>1. Asked => Asked'
    BY <1>2 DEF Asked, Sent, LastReq
  <2>2. Submitted => Submitted'
    BY <1>2 DEF Submitted
  <2>3. \A lines : Answered(lines) => Answered(lines)'
    BY <1>2 DEF Answered, Quiet
  <2>4. Framed => Framed'
    <3> SUFFICES ASSUME Framed PROVE Framed'
      OBVIOUS
    <3>1. PICK code, data : Answered(<<Frame(reqid, code, data)>>) /\ Good(code, data)
      BY DEF Framed
    <3>2. Answered(<<Frame(reqid, code, data)>>)'
      BY <1>2, <3>1 DEF Answered, Quiet
    <3>3. Good(code, data)'
      BY <1>2, <1>3, <3>1 DEF Good, IsRead
    <3> QED
      BY <1>2, <3>2, <3>3 DEF Framed
  <2>5. Worded => Worded'
    BY <1>2, <1>3 DEF Worded, Answered, Quiet, IsRead
  <2>6. ASSUME NEW d, Listed(d) PROVE Listed(d)'
    BY <1>2, <1>3, <2>6 DEF Listed
  <2>7. HeaderNext => HeaderNext'
    BY <1>2, <2>6 DEF HeaderNext, Quiet, IsRead
  <2>8. DataNext => DataNext'
    BY <1>2, <2>6 DEF DataNext, Quiet, IsRead
  <2> QED
    BY <2>1, <2>2, <2>4, <2>5, <2>7, <2>8 DEF WaitInv
<1>7. LineInv'
  BY <1>1, <1>2, <1>6 DEF LineInv, Answered, Quiet, Sent, LastReq
<1>8. Service!Refresh
  BY <1>2 DEF Service!Refresh, NoCall
<1> QED
  BY <1>4, <1>5, <1>7, <1>8 DEF ZoneInv, Served, Service!Next

LEMMA InitStep ==
    ASSUME Init, ~Serial
    PROVE  ZoneInv /\ Service!Init
<1>1. /\ toHost = <<>> /\ updates = <<>> /\ toClient = <<>> /\ up = FALSE
      /\ pc = "off" /\ call = NoCall /\ ncall = 0 /\ seen = {} /\ applied = FALSE
      /\ store \in Val \cup {Nil} /\ view = store /\ mdp_version = 1
      /\ response = Pending /\ setting \in Setting
      /\ result = [code |-> "none", data |-> <<>>]
  BY DEF Init
<1>2. Pend = <<>>
  BY <1>1, CallsOfNone, ChangesNone DEF Pend
<1>3. Serial = FALSE
  BY <1>1, MdataAssumption DEF Serial
<1>4. ZoneType
  <2>1. toHost \in Seq(ReqSet) /\ updates \in Seq(UpdSet)
    BY <1>1
  <2> QED
    BY <1>1, <1>3, <2>1, NoCallType DEF ZoneType, ValSet, PcSet
<1>5. CallInv
  BY <1>1 DEF CallInv
<1>6. LineInv
  BY <1>1, NothingLive DEF LineInv, Answered, Quiet
<1>7. Service!Init
  BY <1>1, <1>2 DEF Service!Init, NoCall, Pend
<1> QED
  BY <1>4, <1>5, <1>6, <1>7 DEF ZoneInv

LEMMA StutterStep ==
    ASSUME ZoneInv, UNCHANGED vars
    PROVE  ZoneInv' /\ Served
<1>1. UNCHANGED <<setting, pc, mdp_state, mdp_version, reqid, response, call, toHost, toClient,
                  up, updates, store, view, ncall, seen, applied, result>>
  BY DEF vars, clientVars, lineVars, agentVars, history
<1>2. ZoneType'
  BY <1>1 DEF ZoneInv, ZoneType, Serial
<1>3. CallInv'
  BY <1>1 DEF ZoneInv, CallInv
<1>4. WaitInv => WaitInv'
  BY <1>1 DEF WaitInv, Asked, Submitted, Framed, Worded, HeaderNext, DataNext, Sent, Quiet,
              Answered, LastReq, Good, IsRead, Listed
<1>5. LineInv'
  BY <1>1, <1>4 DEF ZoneInv, LineInv, Answered, Quiet, Sent, LastReq
<1>6. Pend' = Pend
  BY <1>1 DEF Pend
<1> QED
  BY <1>1, <1>2, <1>3, <1>5, <1>6, Stutter DEF ZoneInv

LEMMA ZoneStep ==
    ASSUME ZoneInv, [Next]_vars
    PROVE  ZoneInv' /\ Served
<1>1. CASE UNCHANGED vars
  BY <1>1, StutterStep
<1>2. CASE Next
  <2>1. setting' = setting
    BY <1>2 DEF Next
  <2>2. ~Damage
    BY DEF Damage, ZoneInv, ZoneType
  <2>3. ASSUME NEW c \in Cmd, NEW v \in Service!Args(c), Start(c, v) \/ NextCall(c, v)
        PROVE  ZoneInv' /\ Served
    BY <2>1, <2>3, BeginStep
  <2>4. CASE Exit \/ Open \/ OpenFails \/ Negotiate \/ Refuse \/ Execute \/ Killed
    BY <2>1, <2>4, ExitStep, OpenStep, OpenFailsStep, NegotiateStep, RefuseStep,
       ExecuteStep, KilledStep
  <2>5. CASE RecvReset \/ RecvMore \/ RecvNegotiated \/ RecvAnswer \/ RecvFails \/ RecvTooEarly
    BY <2>1, <2>5, RecvResetStep, RecvMoreStep, RecvNegotiatedStep, RecvAnswerStep,
       RecvFailsStep
  <2>6. CASE Handle \/ UpdateDone \/ AgentRestart \/ HostSet \/ Refresh
    BY <2>1, <2>6, HandleStep, UpdateDoneStep, AgentRestartStep, HostSetStep, RefreshStep
  <2> QED
    BY <1>2, <2>2, <2>3, <2>4, <2>5, <2>6 DEF Next
<1> QED
  BY <1>1, <1>2

\* With a Unix socket, what is on its way to the agent or with VM.update is of
\* connections that are gone, except for the request that the client waits for,
\* and what is on its way back is the answer to that request and to no other.
THEOREM ZoneInvariance == Spec /\ ~Serial => []ZoneInv
<1>1. Init /\ ~Serial => ZoneInv
  BY InitStep
<1>2. ZoneInv /\ [Next]_vars => ZoneInv'
  BY ZoneStep
<1> QED
  BY <1>1, <1>2, PTL DEF Spec

\* For a client in a zone, with its Unix socket, the client library, the line and
\* the agent implement the metadata service, for any number of calls, late
\* answers, restarts of the agent and changes from outside.
THEOREM ZonesAreServed == Spec /\ ~Serial => ImplementsService
<1>1. Init /\ ~Serial => ZoneInv /\ Service!Init
  BY InitStep
<1>2. ZoneInv /\ [Next]_vars => ZoneInv' /\ [Service!Next]_(Service!serviceVars)
  BY ZoneStep DEF Served
<1> QED
  BY <1>1, <1>2, PTL DEF Spec, ImplementsService, Service!Spec
=============================================================================
