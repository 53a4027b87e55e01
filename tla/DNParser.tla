------------------------------ MODULE DNParser ------------------------------
(***************************************************************************)
(* The text of distinguished names and filters, byte by byte: ParseDN and  *)
(* its rendering, EscapeValue, DN equality and ancestry (src/dn.go), the   *)
(* filter builders (src/filter.go), and inScope of src/adcorefake, which   *)
(* compares DNs as text.  DNText starts from the RDNs that are read here.  *)
(*                                                                         *)
(* The loop of ParseDN is the machine: text is what it has read, chosen    *)
(* byte by byte up to a bound, and p its local variables.  A byte above    *)
(* 127 occurs alone only, where UTF-8 is broken and Go's case folding      *)
(* reads RuneError.                                                        *)
(***************************************************************************)
EXTENDS Integers, Sequences, FiniteSets, SequencesExt

CONSTANTS
    Bytes,      \* the bytes a text may hold
    TypeBytes,  \* those among them that attribute types may hold, "=" included
    Openings,   \* Openings[t]: how many bytes are read after the text t
    Names,      \* object names callers escape
    Samples     \* DN texts that others are compared with

VARIABLES text, p, room
vars == <<text, p, room>>

Space == 32  Quote == 34  Hash == 35  LParen == 40  RParen == 41  Star == 42  Plus == 43
Comma == 44  Semi == 59  Less == 60  Eq == 61  Greater == 62  Backslash == 92
WhiteSpace == 9 .. 13 \cup {Space}

isHexDigit(c) == c \in 48 .. 57 \cup 65 .. 70 \cup 97 .. 102
HexValue(c) == IF c <= 57 THEN c - 48 ELSE IF c <= 70 THEN c - 55 ELSE c - 87

escapableChars == {Backslash, Quote, Plus, Comma, Semi, Less, Greater, Eq, Space, Hash}

ASSUME TextConstants ==
    /\ Bytes \subseteq 0 .. 127 /\ TypeBytes \subseteq Bytes /\ Eq \in TypeBytes
    /\ \A s \in DOMAIN Openings : s \in Seq(Bytes) /\ Openings[s] \in Nat
    /\ \A s \in Names \cup Samples : s \in Seq(0 .. 255)

(* strings.TrimSpace *)
TrimSpace(s) ==
    LET kept == {i \in DOMAIN s : s[i] \notin WhiteSpace}
    IN  IF kept = {} THEN <<>> ELSE SubSeq(s, Min(kept), Max(kept))

-----------------------------------------------------------------------------
(* ParseDN.  An RDN is the sequence of its attributes. *)
Start == [rdns |-> <<>>, rdn |-> <<>>, typeBuf |-> <<>>, valBuf |-> <<>>, hexBuf |-> <<>>,
          hasEq |-> FALSE, escaping |-> FALSE, leading |-> FALSE, trailWS |-> 0, failed |-> FALSE]

Fail(q) == [q EXCEPT !.failed = TRUE]

appendVal(q, b, escaped) ==
    [q EXCEPT !.valBuf = Append(@, b), !.trailWS = IF b = Space /\ ~escaped THEN @ + 1 ELSE 0]

endAttr(q) ==
    LET t == TrimSpace(q.typeBuf) IN
    IF ~q.hasEq \/ t = <<>> THEN Fail(q)
    ELSE [q EXCEPT !.rdn = Append(@, [type |-> t, value |-> SubSeq(q.valBuf, 1, Len(q.valBuf) - q.trailWS)]),
                   !.typeBuf = <<>>, !.valBuf = <<>>, !.hasEq = FALSE, !.trailWS = 0]

endRDN(q) ==
    LET e == endAttr(q)
    IN  IF e.failed THEN e ELSE [e EXCEPT !.rdns = Append(@, e.rdn), !.rdn = <<>>]

(* Mutant of Escaped: the hex digits are not forgotten. *)
EscapedKeepsHex(q, b) == [appendVal(q, b, TRUE) EXCEPT !.escaping = FALSE, !.leading = FALSE]

(* The byte after a backslash, and the second byte of a hex pair. *)
Escaped(q, b) == [appendVal(q, b, TRUE) EXCEPT !.hexBuf = <<>>, !.escaping = FALSE, !.leading = FALSE]

ReadEscaped(q, c) ==
    IF isHexDigit(c)
    THEN IF q.hexBuf = <<>> THEN [q EXCEPT !.hexBuf = <<c>>]
         ELSE Escaped(q, 16 * HexValue(q.hexBuf[1]) + HexValue(c))
    ELSE IF q.hexBuf # <<>> \/ c \notin escapableChars THEN Fail(q) ELSE Escaped(q, c)

ReadType(q, c) ==
    IF c = Eq THEN [q EXCEPT !.hasEq = TRUE, !.leading = TRUE]
    ELSE [q EXCEPT !.typeBuf = Append(@, c)]

ReadValue(q, c) ==
    CASE c = Backslash                -> [q EXCEPT !.escaping = TRUE]
      [] c \in {Comma, Semi}          -> [endRDN(q) EXCEPT !.leading = FALSE]
      [] c = Plus                     -> [endAttr(q) EXCEPT !.leading = TRUE]
      [] c = Space /\ q.leading       -> q
      [] c = Hash /\ q.valBuf = <<>>  -> Fail(q)
      [] OTHER                        -> [appendVal(q, c, FALSE) EXCEPT !.leading = FALSE]

(* One iteration of the loop. *)
Step(q, c) ==
    IF q.failed THEN q
    ELSE IF q.escaping THEN ReadEscaped(q, c)
    ELSE IF ~q.hasEq THEN ReadType(q, c) ELSE ReadValue(q, c)

(* After the loop. *)
AtEnd(q) == IF q.failed \/ q.escaping \/ q.hexBuf # <<>> THEN Fail(q) ELSE endRDN(q)

Loop(t) ==
    LET after[i \in 0 .. Len(t)] == IF i = 0 THEN Start ELSE Step(after[i - 1], t[i])
    IN  after[Len(t)]

(* A blank text is the DN with no RDN. *)
Result(t, q) == IF TrimSpace(t) = <<>> THEN Start ELSE AtEnd(q)
Accepts(t) == ~Result(t, Loop(t)).failed
ParseDN(t) == Result(t, Loop(t)).rdns

(* DNs that others are compared with, or lie below, are not blank. *)
ASSUME SamplesAreDNs == \A c \in Samples : Accepts(c) /\ ParseDN(c) # <<>>

-----------------------------------------------------------------------------
Join(parts, sep) ==
    FlattenSeq([i \in DOMAIN parts |-> IF i = 1 THEN parts[i] ELSE <<sep>> \o parts[i]])

(* Mutants of needsEscape: a trailing space, a comma is written as it is. *)
needsEscapeLeading(v, i) ==
    \/ v[i] \in escapableChars \ {Space, Hash}
    \/ v[i] \in {Space, Hash} /\ i = 1

needsEscapeNoComma(v, i) ==
    \/ v[i] \in escapableChars \ {Space, Hash, Comma}
    \/ v[i] = Space /\ i \in {1, Len(v)}
    \/ v[i] = Hash /\ i = 1

(* escapeValue: which bytes get a backslash before them. *)
needsEscape(v, i) ==
    \/ v[i] \in {Comma, Plus, Quote, Backslash, Less, Greater, Semi, Eq}
    \/ v[i] = Space /\ i \in {1, Len(v)}
    \/ v[i] = Hash /\ i = 1

EscapeValue(v) == FlattenSeq([i \in DOMAIN v |->
    IF v[i] = 0 THEN <<Backslash, 48, 48>>
    ELSE IF needsEscape(v, i) THEN <<Backslash, v[i]>> ELSE <<v[i]>>])

(* DN.String *)
RenderRDN(r) == Join([i \in DOMAIN r |-> r[i].type \o <<Eq>> \o EscapeValue(r[i].value)], Plus)
Render(dn) == Join([i \in DOMAIN dn |-> RenderRDN(dn[i])], Comma)

SplitDN(t) == LET dn == ParseDN(t) IN [i \in DOMAIN dn |-> RenderRDN(dn[i])]

(* ContainerOf, of a text with more than one RDN. *)
ContainerOf(t) == Render(Tail(ParseDN(t)))

(* strings.EqualFold and ToLower on the bytes that occur: letters of ASCII *)
(* fold to lower case, a lone byte above 127 is U+FFFD to both.            *)
FoldByte(b) == IF b \in 65 .. 90 THEN b + 32 ELSE IF b > 127 THEN 65533 ELSE b
Lower(t) == [i \in DOMAIN t |-> FoldByte(t[i])]

attrEqual(a, b) == Lower(a.type) = Lower(b.type) /\ Lower(a.value) = Lower(b.value)

(* Mutant of Partners: an attribute already matched is matched again. *)
PartnersAgain(a, s, used) == {j \in DOMAIN s : attrEqual(a, s[j])}

Partners(a, s, used) == {j \in DOMAIN s \ used : attrEqual(a, s[j])}

(* RelativeDN.equalFold: each attribute takes the first partner left. *)
rdnEqualFold(r, s) ==
    /\ Len(r) = Len(s)
    /\ LET used[i \in 0 .. Len(r)] ==
               IF i = 0 THEN {} ELSE used[i - 1] \cup
                   LET left == Partners(r[i], s, used[i - 1])
                   IN  IF left = {} THEN {0} ELSE {Min(left)}
       IN  0 \notin used[Len(r)]

EqualFold(d, e) == Len(d) = Len(e) /\ \A i \in DOMAIN d : rdnEqualFold(d[i], e[i])

AncestorOfFold(d, e) ==
    /\ Len(d) < Len(e)
    /\ \A i \in DOMAIN d : rdnEqualFold(d[i], e[i + Len(e) - Len(d)])

EqualFoldDN(t, u) == Accepts(t) /\ Accepts(u) /\ EqualFold(ParseDN(t), ParseDN(u))

-----------------------------------------------------------------------------
(* Mutant of mustEscape: a parenthesis is left out. *)
mustEscapeNoParen(c) == c > 127 \/ c \in {RParen, Backslash, Star, 0}

mustEscape(c) == c > 127 \/ c \in {LParen, RParen, Backslash, Star, 0}
HexByte(n) == IF n < 10 THEN 48 + n ELSE 87 + n

EscapeFilter(v) == FlattenSeq([i \in DOMAIN v |->
    IF mustEscape(v[i]) THEN <<Backslash, HexByte(v[i] \div 16), HexByte(v[i] % 16)>> ELSE <<v[i]>>])

(* "(attr=<escaped value>)" and "(&...)" *)
Equal(attr, v) == <<LParen>> \o attr \o <<Eq>> \o EscapeFilter(v) \o <<RParen>>

And(terms) == IF Len(terms) <= 1 THEN FlattenSeq(terms)
              ELSE <<LParen, 38>> \o FlattenSeq(terms) \o <<RParen>>

(* Mutant of BelowText: the suffix need not begin at a comma. *)
BelowTextAnywhere(t, base) == t # base /\ IsSuffix(Lower(base), Lower(t))

(* inScope of a search, and the suffix test it shares with childrenLocked  *)
(* and moveLocked.  Rest is what strings.TrimSuffix leaves of the lower-   *)
(* cased text.                                                             *)
BelowText(t, base) == IsSuffix(<<Comma>> \o Lower(base), Lower(t))
Rest(t, base) == SubSeq(Lower(t), 1, Len(t) - Len(base) - 1)

inScope(t, base, scope) ==
    CASE scope = "base"     -> EqualFoldDN(t, base)
      [] scope = "onelevel" -> /\ ~EqualFoldDN(t, base) /\ BelowText(t, base)
                               /\ \A i \in DOMAIN Rest(t, base) : Rest(t, base)[i] # Comma
      [] OTHER              -> EqualFoldDN(t, base) \/ BelowText(t, base)

-----------------------------------------------------------------------------
Init == text \in DOMAIN Openings /\ p = Loop(text) /\ room = Openings[text]

Read(c) ==
    /\ ~p.failed /\ room > 0
    /\ text' = Append(text, c)
    /\ p' = Step(p, c)
    /\ room' = room - 1

Next == \E c \in IF p.hasEq THEN Bytes ELSE TypeBytes : Read(c)

Spec == Init /\ [][Next]_vars

-----------------------------------------------------------------------------
Attribute == [type : Seq(Nat), value : Seq(Nat)]

(* The parser's variables; valBuf[:len(valBuf)-trailWS] is in range, and   *)
(* hexBuf holds one byte at most (dn.go:67-76, 95, 119-121).               *)
TypeOK ==
    /\ text \in Seq(Bytes) /\ room \in Nat
    /\ p.rdn \in Seq(Attribute) /\ p.rdns \in Seq(Seq(Attribute))
    /\ p.typeBuf \in Seq(Nat) /\ p.valBuf \in Seq(0 .. 255)
    /\ p.trailWS \in 0 .. Len(p.valBuf)
    /\ Len(p.hexBuf) <= 1 /\ (p.hexBuf # <<>> => p.escaping)
    /\ p.hasEq \in BOOLEAN /\ p.escaping \in BOOLEAN /\ p.leading \in BOOLEAN /\ p.failed \in BOOLEAN

Accepted == ~Result(text, p).failed
Parsed == Result(text, p).rdns

(* What a text denotes survives being rendered and parsed again, so no     *)
(* value, space or escape that the parser lets in is lost, or changes the  *)
(* structure, when String writes it (dn.go:166-212).                       *)
RoundTrip == Accepted => Accepts(Render(Parsed)) /\ ParseDN(Render(Parsed)) = Parsed

(* An RDN assembled from any name and put before any container is read     *)
(* back as that name in that container, by ParseDN, by SplitDN and by      *)
(* ContainerOf: no name reparents its object (dn.go:183-187, 304-307).     *)
ReadBack(name, container, dn) ==
    LET rdn == <<97, Eq>> \o EscapeValue(name)
        t   == rdn \o <<Comma>> \o container
    IN  /\ Accepts(t) /\ ParseDN(t) = <<<<[type |-> <<97>>, value |-> name]>>>> \o dn
        /\ SplitDN(t)[1] = rdn /\ ContainerOf(t) = Render(dn)

NamesNeverReparent ==
    /\ \A c \in Samples : ReadBack(text, c, ParseDN(c))
    /\ Accepted /\ Parsed # <<>> => \A n \in Names : ReadBack(n, text, Parsed)

(* Equality of RDNs is equality of bags of attributes, whatever the order  *)
(* they are written in: the greedy matching of equalFold never misses a    *)
(* pairing and never uses an attribute twice (dn.go:231-251).              *)
RDNsOf(dn) == {dn[i] : i \in DOMAIN dn}
Bijections(r, s) == {f \in [DOMAIN r -> DOMAIN s] : IsInjective(f)}

EqualityIgnoresOrder ==
    LET rdns == RDNsOf(p.rdns) \cup {p.rdn} IN
    \A r \in rdns, s \in rdns \cup UNION {RDNsOf(ParseDN(t)) : t \in Samples} :
        rdnEqualFold(r, s) <=>
            Len(r) = Len(s) /\ \E f \in Bijections(r, s) : \A i \in DOMAIN r : attrEqual(r[i], s[f[i]])

(* The scopes of a search, decided on text, are those of the tree of       *)
(* parsed DNs, for DNs as the package renders them without a comma in a    *)
(* value or type and without multi-valued RDNs (fake.go:200-216, 172,      *)
(* 188).  An escaped comma breaks them: see README.                        *)
Plain(dn) == \A i \in DOMAIN dn :
    Len(dn[i]) = 1 /\ ~Contains(dn[i][1].type, Comma) /\ ~Contains(dn[i][1].value, Comma)

InTree(dn, base, scope) ==
    \/ scope # "onelevel" /\ EqualFold(dn, base)
    \/ scope = "subtree" /\ AncestorOfFold(base, dn)
    \/ scope = "onelevel" /\ AncestorOfFold(base, dn) /\ Len(dn) = Len(base) + 1

ScopeIsTree ==
    Accepted /\ Plain(Parsed) =>
        LET bases == {SubSeq(Parsed, i, Len(Parsed)) : i \in DOMAIN Parsed}
                         \cup {ParseDN(t) : t \in Samples}
        IN  \A base \in bases, scope \in {"base", "onelevel", "subtree"} :
                Plain(base) => (inScope(Render(Parsed), Render(base), scope) <=> InTree(Parsed, base, scope))

(* RFC 4515's reading of an assertion value. *)
Unescaped(f) ==
    LET from[i \in 1 .. Len(f) + 3] ==
            IF i > Len(f) THEN <<>>
            ELSE IF f[i] = Backslash
                 THEN <<16 * HexValue(f[i + 1]) + HexValue(f[i + 2])>> \o from[i + 3]
                 ELSE <<f[i]>> \o from[i + 1]
    IN  from[1]

(* A filter holds exactly the parentheses and stars its builders put in,   *)
(* and a value in it reads back as that value, be it any text or any value *)
(* a DN can carry (filter.go:7-35).                                        *)
FilterIsLiteral ==
    \A v \in {text, p.valBuf} :
        LET f == And(<<Equal(<<97>>, v), Equal(<<97>>, text)>>) IN
        /\ Unescaped(EscapeFilter(v)) = v
        /\ \A i \in DOMAIN f : f[i] \in 1 .. 127 \ {Star}
        /\ Cardinality({i \in DOMAIN f : f[i] = LParen}) = 3
        /\ Cardinality({i \in DOMAIN f : f[i] = RParen}) = 3
=============================================================================
