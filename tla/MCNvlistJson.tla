---------------------------- MODULE MCNvlistJson ----------------------------
(***************************************************************************)
(* The grammar of JSON as a reference for NvlistJson, and the texts that   *)
(* TLC parses.  The reference says which trees a whole text stands for; it *)
(* has no stack and reads nothing from left to right.                      *)
(***************************************************************************)
EXTENDS NvlistJson, FiniteSets

Tree(type) == [type |-> type, text |-> NoText, num |-> 0, sub |-> <<>>]

\* The parts of s between positions a and b.
Part(s, a, b) == SubSeq(s, a, b)

\* What one token stands for.
Hex(ds) == FoldLeft(LAMBDA n, d : 16 * n + d, 0, ds)
Dec(ds) == FoldLeft(LAMBDA n, d : 10 * n + d, 0, ds)
Characters(tok) ==
    IF tok.digs = <<>> \/ Hex(tok.digs) = 0 THEN Plain(tok.name)
    ELSE [name |-> tok.name, esc |-> Hex(tok.digs)]
IsString(tok) == tok.t = "string" /\ Hex(tok.digs) <= 127

Scalar(tok) ==
    IF IsString(tok) THEN {[Tree("STRING") EXCEPT !.text = Characters(tok)]}
    ELSE IF tok.t = "number" /\ tok.digs # <<>>
    THEN {[Tree("INTEGER") EXCEPT !.num =
              Wrap(IF tok.name = "-" THEN -Dec(tok.digs) ELSE Dec(tok.digs))]}
    ELSE IF tok = Word("null") THEN {Tree("NULL")}
    ELSE IF tok = Word("true") THEN {[Tree("BOOLEAN") EXCEPT !.num = 1]}
    ELSE IF tok = Word("false") THEN {Tree("BOOLEAN")}
    ELSE {}

Commas(s) == {i \in DOMAIN s : s[i].t = ","}
Member(key, tree) == [key |-> key, tree |-> tree]

\* The tree with these members: the last of one name counts.
Fold(type, ms) ==
    [Tree(type) EXCEPT !.sub =
        [k \in {ms[i].key : i \in DOMAIN ms} |->
            ms[CHOOSE i \in DOMAIN ms :
                   /\ ms[i].key = k
                   /\ \A j \in DOMAIN ms : ms[j].key = k => j <= i].tree]]

\* An array of n elements has a length and a mark.
ArrayEnd(n) ==
    <<Member(JSON_MARKER_ARRAY, Tree("NULL")),
      Member(Length, [Tree("INTEGER") EXCEPT !.num = n])>>

RECURSIVE Trees(_), Members(_), Elements(_)

Trees(s) ==
    IF Len(s) = 1 THEN Scalar(s[1])
    ELSE IF Len(s) < 2 THEN {}
    ELSE LET inner == Part(s, 2, Len(s) - 1)
         IN IF s[1].t = "{" /\ Last(s).t = "}"
            THEN {Fold("OBJECT", ms) : ms \in Members(inner)}
            ELSE IF s[1].t = "[" /\ Last(s).t = "]"
            THEN {Fold("ARRAY", [i \in DOMAIN es |->
                                    Member(Plain(ToString(i - 1)), es[i])]
                                \o ArrayEnd(Len(es))) : es \in Elements(inner)}
            ELSE {}

\* The sequences of members, and of elements, that s stands for.
Members(s) ==
    LET one(p) == IF Len(p) >= 3 /\ IsString(p[1]) /\ p[2].t = ":"
                  THEN {<<Member(Characters(p[1]), t)>> :
                           t \in Trees(Part(p, 3, Len(p)))}
                  ELSE {}
    IN IF s = <<>> THEN {<<>>}
       ELSE one(s) \cup
            UNION {IF i = 1 THEN {} ELSE
                   {f \o l : f \in Members(Part(s, 1, i - 1)),
                             l \in one(Part(s, i + 1, Len(s)))} : i \in Commas(s)}

Elements(s) ==
    IF s = <<>> THEN {<<>>}
    ELSE {<<t>> : t \in Trees(s)} \cup
         UNION {IF i = 1 THEN {} ELSE
                {Append(f, t) : f \in Elements(Part(s, 1, i - 1)),
                                t \in Trees(Part(s, i + 1, Len(s)))} :
                i \in Commas(s)}

\* The prefixes of s that are a text: an object or an array.
Texts(s) == {i \in 2..Len(s) : Opens(s[1]) /\ Trees(Part(s, 1, i)) # {}}

\* The tree that nvlist n holds.
RECURSIVE Built(_, _)
Built(type, n) ==
    [Tree(type) EXCEPT !.sub =
        [k \in DOMAIN heap[n] |->
            LET v == heap[n][k]
            IN IF v.type \in Container THEN Built(v.type, v.nvl)
               ELSE [Tree(v.type) EXCEPT !.text = v.text, !.num = v.num]]]

\* The parser accepts exactly the inputs that begin with an object or array of
\* JSON (without fractions and exponents, and with the escapes that are 7-bit
\* clean), and the nvlist it returns is the tree of that text: names under
\* their key, elements under their index, the last of a repeated name.
ParsesExactly ==
    /\ status = "ok" =>
          /\ errno = "0"
          /\ \E i \in Texts(input) :
                Built(top.type, top.nvl) \in Trees(Part(input, 1, i))
    /\ status = "failed" /\ errno # "ENOMEM" => Texts(input) = {}

\* For an array of one string with an escape: the comment of
\* collect_string_escape, that four-digit Unicode escapes up to and including
\* \u007f are handled.  Such an escape stands for the character of that code,
\* and one above is refused.
UnicodeEscapes ==
    LET code == Hex(input[2].digs)
    IN /\ status = "ok" =>
             code <= 127 /\ heap[1][Plain("0")].text = Characters(input[2])
       /\ status = "failed" => code > 127

-----------------------------------------------------------------------------
(* The texts.                                                              *)

P == {Punct(c) : c \in {"{", "}", "[", "]", ":", ","}}
Keys == {Str("a"), Str("b")}
Sound == {Str("a"), Num("", <<4, 0, 0, 0, 0>>), Word("true"), Word("null")}
Odd == {Word("nul"), BadStr("a"), Num("-", <<>>), Frac(<<1>>), Eof,
        StrEsc("a", <<0, 0, 0, 9>>), StrEsc("a", <<0, 0, 0, 0>>),
        StrEsc("a", <<1, 0, 0, 0>>), Word("false"), Num("-", <<3, 2, 7, 6, 8>>)}

\* The texts of exactly n tokens.
RECURSIVE Docs(_), Rows(_), Pairs(_)
Docs(n) ==
    IF n = 0 THEN {}
    ELSE IF n = 1 THEN Sound
    ELSE {<<Punct("[")>> \o r \o <<Punct("]")>> : r \in Rows(n - 2)}
         \cup {<<Punct("{")>> \o r \o <<Punct("}")>> : r \in Pairs(n - 2)}
Seqs(S, n) == IF n = 1 THEN {<<x>> : x \in S} ELSE S
Rows(n) ==
    IF n = 0 THEN {<<>>}
    ELSE Seqs(Docs(n), n) \cup
         UNION {{d \o <<Punct(",")>> \o r : d \in Seqs(Docs(i), i),
                                            r \in Rows(n - 1 - i)} :
                i \in 1..(n - 2)}
Pairs(n) ==
    IF n = 0 THEN {<<>>}
    ELSE LET one(i) == {<<k, Punct(":")>> \o d : k \in Keys,
                                                 d \in Seqs(Docs(i), i)}
         IN (IF n >= 3 THEN one(n - 2) ELSE {}) \cup
            UNION {{p \o <<Punct(",")>> \o r : p \in one(i),
                                               r \in Pairs(n - 3 - i)} :
                   i \in 1..(n - 6)}

Short == UNION {[1..n -> P \cup {Str("a"), Word("true")}] : n \in 0..4}
Good(n) == UNION {Docs(i) : i \in 2..n}
\* One token of a text changed.
Bad(n) == UNION {{[d EXCEPT ![i] = t] : i \in DOMAIN d, t \in P \cup Odd} :
                 d \in Good(n)}
MCInput == Short \cup Good(10) \cup Bad(6)

\* A string with an escape.
MCEscape == {<<Punct("["), StrEsc("a", h), Punct("]")>> :
                h \in [1..4 -> {0, 4, 7, 8, 15}]}

=============================================================================
