--------------------------- MODULE DNParserProofs ---------------------------
(***************************************************************************)
(* Machine-checked proofs about DNParser, for any bytes, any openings and  *)
(* texts of any length, in this order: ParseDN's loop as a recursive       *)
(* function of its text, and its states; that parsing undoes rendering,    *)
(* and no name reparents its object; that equality is of bags; that        *)
(* filters are literal; that scopes on text are scopes in the tree.        *)
(*                                                                         *)
(* All of it rests on reading a text in parts: what the loop has read goes *)
(* into its variables (RunConcat), and the RDNs behind it do not matter    *)
(* (BehindRun).                                                            *)
(***************************************************************************)
EXTENDS DNParser, NatFacts, SequenceTheorems

Byte == 0 .. 255
Text == Seq(Byte)

(* Attribute types as the parser leaves them: not empty, without "=", and  *)
(* no white space at either end. *)
TypeText == Seq(Byte \ {Eq})
Trimmed(t) == t[1] \notin WhiteSpace /\ t[Len(t)] \notin WhiteSpace
Types == {t \in TypeText : t # <<>> /\ Trimmed(t)}
Attrs == [type : Types, value : Text]
RDNs == Seq(Attrs) \ {<<>>}
HexDigits == {c \in Byte : isHexDigit(c)}
HexBufs == {<<>>} \cup {<<c>> : c \in HexDigits}

(* What ParseDN's variables hold: the trailing spaces counted are in the   *)
(* value, and a hex digit is kept during an escape alone.                  *)
ParserStates ==
    [rdns : Seq(RDNs), rdn : Seq(Attrs), typeBuf : TypeText, valBuf : Text, hexBuf : HexBufs, hasEq : BOOLEAN, escaping : BOOLEAN,
     leading : BOOLEAN, trailWS : Nat, failed : BOOLEAN]

States == {q \in ParserStates : q.trailWS <= Len(q.valBuf) /\ (q.hexBuf # <<>> => q.escaping)}

-----------------------------------------------------------------------------
(* Induction on sequences, by Append. *)
LEMMA SeqSetInduction ==
    ASSUME NEW S, NEW T, <<>> \in T, \A s \in Seq(S), c \in S : s \in T => Append(s, c) \in T
    PROVE  \A s \in Seq(S) : s \in T
<1>. DEFINE N == {n \in Nat : \A s \in Seq(S) : Len(s) = n => s \in T}
<1>1. 0 \in N
  BY EmptySeq
<1>2. ASSUME NEW n \in N PROVE n + 1 \in N
  <2>1. ASSUME NEW s \in Seq(S), Len(s) = n + 1 PROVE s \in T
    <3>1. s # <<>>
      BY <2>1
    <3>2. PICK u \in Seq(S), c \in S : s = Append(u, c)
      BY <3>1, SequenceEmptyOrAppend
    <3>3. Len(u) \in Nat /\ Len(s) = Len(u) + 1
      BY <3>2, AppendProperties, LenProperties
    <3>4. Len(u) = n
      BY <2>1, <3>3
    <3>. QED  BY <3>2, <3>4
  <2>. QED  BY <2>1
<1>3. N = Nat
  <2>1. N \in SUBSET Nat
    OBVIOUS
  <2>. HIDE DEF N
  <2>. QED  BY <1>1, <1>2, <2>1, NatSetInduction
<1>4. ASSUME NEW s \in Seq(S) PROVE s \in T
  BY <1>3, LenProperties
<1>. QED  BY <1>4

(* Appending to the second of two sequences appends to both. *)
AppendsToBoth(s, t, c) == Append(s \o t, c) = s \o Append(t, c)

LEMMA ConcatAppend ==
    ASSUME NEW S, NEW s \in Seq(S), NEW t \in Seq(S), NEW c \in S
    PROVE  AppendsToBoth(s, t, c)
<1>1. <<c>> \in Seq(S) /\ s \o t \in Seq(S)
  BY ConcatProperties
<1>2. (s \o t) \o <<c>> = s \o (t \o <<c>>)
  BY <1>1, ConcatAssociative
<1>3. Append(t, c) = t \o <<c>> /\ Append(s \o t, c) = (s \o t) \o <<c>>
  BY <1>1, AppendIsConcat
<1>. QED  BY <1>2, <1>3 DEF AppendsToBoth

(* A prefix and the element after it make the prefix that is longer by it. *)
PrefixGrows(s, k) == Append(SubSeq(s, 1, k), s[k + 1]) = SubSeq(s, 1, k + 1)

LEMMA GrowingPrefix ==
    ASSUME NEW S, NEW s \in Seq(S), NEW k \in Nat, k + 1 <= Len(s)
    PROVE  SubSeq(s, 1, k) \in Seq(S) /\ PrefixGrows(s, k)
<1>1. Len(s) \in Nat
  BY LenProperties
<1>2. SubSeq(s, 1, k + 1) = SubSeq(s, 1, k) \o <<s[k + 1]>>
  <2>1. 1 \in 1 .. Len(s) /\ k + 1 \in 1 .. Len(s) /\ (k + 1) - 1 = k
    BY <1>1
  <2>. QED  BY <2>1, SubSeqRecursiveSecond
<1>3. SubSeq(s, 1, k) \in Seq(S) /\ s[k + 1] \in S
  <2>1. \A i \in 1 .. k + 1 : s[i] \in S
    BY <1>1, ElementOfSeq
  <2>. QED  BY <2>1, SubSeqProperties
<1>. QED  BY <1>2, <1>3, AppendIsConcat DEF PrefixGrows

(* A set of positions that is not empty has a first and a last one. *)
LEMMA Extremes ==
    ASSUME NEW n \in Nat, NEW S \in SUBSET (1 .. n), S # {}
    PROVE  /\ Min(S) \in S /\ \A x \in S : Min(S) <= x
           /\ Max(S) \in S /\ \A x \in S : Max(S) >= x
<1>. DEFINE T == {k \in Nat : \A U \in SUBSET (1 .. k) : U # {} =>
                       /\ \E x \in U : \A y \in U : x <= y
                       /\ \E x \in U : \A y \in U : x >= y}
<1>1. 0 \in T
  <2>1. 1 .. 0 = {}
    OBVIOUS
  <2>2. \A U \in SUBSET (1 .. 0) : U = {}
    BY <2>1
  <2>. QED  BY <2>2
<1>2. ASSUME NEW k \in T PROVE k + 1 \in T
  <2>1. ASSUME NEW U \in SUBSET (1 .. k + 1), U # {}
        PROVE  /\ \E x \in U : \A y \in U : x <= y
               /\ \E x \in U : \A y \in U : x >= y
    <3>. DEFINE V == U \ {k + 1}
    <3>1. V \in SUBSET (1 .. k)
      OBVIOUS
    <3>2. CASE V = {}
      BY <2>1, <3>2
    <3>3. CASE V # {}
      <4>1. /\ \E x \in V : \A y \in V : x <= y
            /\ \E x \in V : \A y \in V : x >= y
        BY <3>1, <3>3
      <4>. QED  BY <4>1
    <3>. QED  BY <3>2, <3>3
  <2>. QED  BY <2>1
<1>3. T = Nat
  <2>1. T \in SUBSET Nat
    OBVIOUS
  <2>. HIDE DEF T
  <2>. QED  BY <1>1, <1>2, <2>1, NatSetInduction
<1>4. /\ \E x \in S : \A y \in S : x <= y
      /\ \E x \in S : \A y \in S : x >= y
  BY <1>3
<1>. QED  BY <1>4 DEF Min, Max

(* strings.TrimSpace: nothing is left of white space alone; otherwise what *)
(* is left has none at its ends; and then nothing is left to trim.         *)
LEMMA Trimming ==
    ASSUME NEW S, NEW s \in Seq(S)
    PROVE  /\ TrimSpace(s) \in Seq(S)
           /\ TrimSpace(s) = <<>> <=> \A i \in DOMAIN s : s[i] \in WhiteSpace
           /\ TrimSpace(s) # <<>> => Trimmed(TrimSpace(s))
           /\ s # <<>> /\ Trimmed(s) => TrimSpace(s) = s
<1>. DEFINE kept == {i \in DOMAIN s : s[i] \notin WhiteSpace}
            m == Min(kept)
            n == Max(kept)
<1>0. Len(s) \in Nat /\ DOMAIN s = 1 .. Len(s) /\ \A i \in 1 .. Len(s) : s[i] \in S
  BY LenProperties, ElementOfSeq
<1>1. CASE kept = {}
  <2>1. TrimSpace(s) = <<>>
    BY <1>1 DEF TrimSpace
  <2>2. \A i \in DOMAIN s : s[i] \in WhiteSpace
    BY <1>1
  <2>3. s # <<>> => ~Trimmed(s)
    <3>1. s # <<>> => 1 \in 1 .. Len(s)
      BY <1>0, EmptySeq
    <3>. QED  BY <1>0, <2>2, <3>1 DEF Trimmed
  <2>. QED  BY <2>1, <2>2, <2>3
<1>2. CASE kept # {}
  <2>1. m \in kept /\ n \in kept /\ (\A x \in kept : m <= x /\ n >= x)
    <3>1. kept \in SUBSET (1 .. Len(s))
      BY <1>0
    <3>. HIDE DEF kept
    <3>. QED  BY <1>0, <1>2, <3>1, Extremes
  <2>. DEFINE t == TrimSpace(s)
  <2>2. t = SubSeq(s, m, n)
    BY <1>2 DEF TrimSpace
  <2>3. m \in 1 .. Len(s) /\ n \in 1 .. Len(s) /\ m <= n /\ s[m] \notin WhiteSpace /\ s[n] \notin WhiteSpace
    BY <1>0, <2>1
  <2>4. s # <<>> /\ Trimmed(s) => m = 1 /\ n = Len(s)
    <3>1. s # <<>> /\ Trimmed(s) => 1 \in kept /\ Len(s) \in kept
      BY <1>0, EmptySeq DEF Trimmed
    <3>. QED  BY <1>0, <2>1, <3>1
  <2>5. ~ \A i \in DOMAIN s : s[i] \in WhiteSpace
    BY <1>2
  <2>. HIDE DEF kept, m, n
  <2>6. t \in Seq(S) /\ Len(t) = n - m + 1 /\ \A i \in 1 .. n - m + 1 : t[i] = s[m + i - 1]
    BY <1>0, <2>2, <2>3, SubSeqProperties
  <2>. HIDE DEF t
  <2>7. t # <<>> /\ t[1] = s[m] /\ t[Len(t)] = s[n]
    BY <2>3, <2>6
  <2>8. s # <<>> /\ Trimmed(s) => t = s
    BY <1>0, <2>2, <2>4, SubSeqFull
  <2>. QED  BY <2>3, <2>5, <2>6, <2>7, <2>8 DEF Trimmed, t
<1>. QED  BY <1>1, <1>2

-----------------------------------------------------------------------------
(* One byte of the loop takes a state of the parser to another. *)
LEMMA StartState == Start \in States
BY DEF Start, States, ParserStates, HexBufs, Text, TypeText

LEMMA FailState == ASSUME NEW q \in States PROVE Fail(q) \in States
BY DEF Fail, States, ParserStates

LEMMA AppendState ==
    ASSUME NEW q \in States, NEW b \in Byte, NEW escaped \in BOOLEAN
    PROVE  appendVal(q, b, escaped) \in States
<1>. DEFINE v == Append(q.valBuf, b)
            w == IF b = Space /\ ~escaped THEN q.trailWS + 1 ELSE 0
<1>1. v \in Text /\ Len(v) = Len(q.valBuf) + 1 /\ Len(q.valBuf) \in Nat
  BY AppendProperties, LenProperties DEF States, ParserStates, Text
<1>2. w \in Nat /\ w <= Len(q.valBuf) + 1
  BY <1>1 DEF States, ParserStates
<1>3. appendVal(q, b, escaped) = [q EXCEPT !.valBuf = v, !.trailWS = w]
  BY DEF appendVal, States, ParserStates
<1>. HIDE DEF v, w
<1>. QED  BY <1>1, <1>2, <1>3 DEF States, ParserStates

(* The attribute that endAttr ends. *)
Ended(q) == [type |-> TrimSpace(q.typeBuf), value |-> SubSeq(q.valBuf, 1, Len(q.valBuf) - q.trailWS)]

LEMMA EndedAttr ==
    ASSUME NEW q \in States, TrimSpace(q.typeBuf) # <<>>
    PROVE  Ended(q) \in Attrs
<1>1. TrimSpace(q.typeBuf) \in Types
  <2>1. q.typeBuf \in Seq(Byte \ {Eq})
    BY DEF States, ParserStates, TypeText
  <2>. QED  BY <2>1, Trimming DEF Types, TypeText
<1>2. SubSeq(q.valBuf, 1, Len(q.valBuf) - q.trailWS) \in Text
  <2>1. q.valBuf \in Seq(Byte) /\ q.trailWS \in Nat /\ q.trailWS <= Len(q.valBuf)
    BY DEF States, ParserStates, Text
  <2>2. Len(q.valBuf) \in Nat /\ \A i \in 1 .. Len(q.valBuf) : q.valBuf[i] \in Byte
    BY <2>1, LenProperties, ElementOfSeq
  <2>. DEFINE n == Len(q.valBuf) - q.trailWS
  <2>3. n \in Int /\ \A i \in 1 .. n : q.valBuf[i] \in Byte
    BY <2>1, <2>2
  <2>. HIDE DEF n
  <2>4. SubSeq(q.valBuf, 1, n) \in Seq(Byte)
    BY <2>3, SubSeqProperties
  <2>. QED  BY <2>4 DEF Text, n
<1>. QED  BY <1>1, <1>2 DEF Ended, Attrs

WithBufs(q, r, t, v) ==
    [q EXCEPT !.rdn = r, !.typeBuf = t, !.valBuf = v, !.hasEq = FALSE, !.trailWS = 0]

LEMMA WithBufsState ==
    ASSUME NEW q \in ParserStates, NEW r \in Seq(Attrs), NEW t \in TypeText, NEW v \in Text
    PROVE  WithBufs(q, r, t, v) \in ParserStates
BY DEF WithBufs, ParserStates

LEMMA EndAttrState ==
    ASSUME NEW q \in States
    PROVE  /\ endAttr(q) \in States
           /\ ~endAttr(q).failed => endAttr(q).rdn # <<>>
<1>. DEFINE t == TrimSpace(q.typeBuf)
<1>1. CASE ~q.hasEq \/ t = <<>>
  <2>1. endAttr(q) = Fail(q)
    BY <1>1 DEF endAttr
  <2>. QED  BY <2>1, FailState DEF Fail, States, ParserStates
<1>2. CASE q.hasEq /\ t # <<>>
  <2>. DEFINE r == Append(q.rdn, Ended(q))
  <2>1. Ended(q) \in Attrs
    BY <1>2, EndedAttr
  <2>2. r \in Seq(Attrs) /\ r # <<>>
    BY <2>1, AppendProperties DEF States, ParserStates
  <2>3. endAttr(q) = [q EXCEPT !.rdn = r, !.typeBuf = <<>>, !.valBuf = <<>>, !.hasEq = FALSE, !.trailWS = 0]
    BY <1>2 DEF endAttr, Ended, States, ParserStates
  <2>. HIDE DEF r
  <2>4. <<>> \in TypeText /\ <<>> \in Text
    BY DEF TypeText, Text
  <2>. DEFINE e == endAttr(q)
  <2>5. e \in ParserStates
    <3>1. q \in ParserStates /\ r \in Seq(Attrs)
      BY <2>2 DEF States
    <3>2. e = WithBufs(q, r, <<>>, <<>>)
      BY <2>3 DEF WithBufs
    <3>. QED  BY <2>4, <3>1, <3>2, WithBufsState
  <2>6. e.rdn = r /\ e.valBuf = <<>> /\ e.trailWS = 0 /\ e.hexBuf = q.hexBuf /\ e.escaping = q.escaping
    BY <2>3 DEF States, ParserStates
  <2>. HIDE DEF e
  <2>7. Len(<<>>) = 0
    OBVIOUS
  <2>. QED  BY <2>2, <2>5, <2>6, <2>7 DEF States, e
<1>. QED  BY <1>1, <1>2

LEMMA EndRDNState == ASSUME NEW q \in States PROVE endRDN(q) \in States
<1>. DEFINE e == endAttr(q)
            R == Append(e.rdns, e.rdn)
<1>1. e \in States /\ (~e.failed => e.rdn # <<>>)
  BY EndAttrState
<1>. HIDE DEF e
<1>2. CASE e.failed
  BY <1>1, <1>2 DEF endRDN, e
<1>3. CASE ~e.failed
  <2>1. R \in Seq(RDNs)
    BY <1>1, <1>3, AppendProperties DEF States, ParserStates, RDNs
  <2>2. endRDN(q) = [e EXCEPT !.rdns = R, !.rdn = <<>>]
    BY <1>1, <1>3 DEF endRDN, e, States, ParserStates
  <2>. DEFINE f == endRDN(q)
  <2>. HIDE DEF R
  <2>3. f \in ParserStates
    <3>1. <<>> \in Seq(Attrs)
      BY EmptySeq
    <3>. QED  BY <1>1, <2>1, <2>2, <3>1 DEF States, ParserStates
  <2>4. f.valBuf = e.valBuf /\ f.trailWS = e.trailWS /\ f.hexBuf = e.hexBuf /\ f.escaping = e.escaping
    BY <1>1, <2>2 DEF States, ParserStates
  <2>. HIDE DEF f
  <2>. QED  BY <1>1, <2>3, <2>4 DEF States, f
<1>. QED  BY <1>2, <1>3

LEMMA EscapedState == ASSUME NEW q \in States, NEW b \in Byte PROVE Escaped(q, b) \in States
<1>. DEFINE a == appendVal(q, b, TRUE)
<1>1. a \in States
  BY AppendState
<1>. HIDE DEF a
<1>2. Escaped(q, b) = [a EXCEPT !.hexBuf = <<>>, !.escaping = FALSE, !.leading = FALSE]
  BY DEF Escaped, a
<1>. QED  BY <1>1, <1>2 DEF States, ParserStates, HexBufs

LEMMA HexValues == \A c \in HexDigits : HexValue(c) \in 0 .. 15
BY DEF HexDigits, Byte, isHexDigit, HexValue

LEMMA PairIsByte == \A h, l \in 0 .. 15 : 16 * h + l \in Byte
BY DEF Byte

(* Two hex digits make a byte. *)
LEMMA HexPair ==
    ASSUME NEW q \in States, NEW c \in Byte, isHexDigit(c), q.hexBuf # <<>>
    PROVE  16 * HexValue(q.hexBuf[1]) + HexValue(c) \in Byte
<1>1. PICK d \in HexDigits : q.hexBuf = <<d>>
  BY DEF States, ParserStates, HexBufs
<1>2. q.hexBuf[1] = d
  BY <1>1
<1>. DEFINE h == HexValue(d)
            l == HexValue(c)
<1>3. h \in 0 .. 15 /\ l \in 0 .. 15
  BY HexValues DEF HexDigits
<1>. HIDE DEF h, l
<1>. QED  BY <1>2, <1>3, PairIsByte DEF h, l

LEMMA StepState == ASSUME NEW q \in States, NEW c \in Byte PROVE Step(q, c) \in States
<1>1. CASE q.failed
  BY <1>1 DEF Step
<1>2. CASE ~q.failed /\ q.escaping
  <2>1. Step(q, c) = ReadEscaped(q, c)
    BY <1>2 DEF Step
  <2>2. CASE isHexDigit(c) /\ q.hexBuf = <<>>
    <3>1. <<c>> \in HexBufs
      BY <2>2 DEF HexBufs, HexDigits
    <3>2. ReadEscaped(q, c) = [q EXCEPT !.hexBuf = <<c>>]
      BY <2>2 DEF ReadEscaped
    <3>. QED  BY <1>2, <2>1, <3>1, <3>2 DEF States, ParserStates
  <2>3. CASE isHexDigit(c) /\ q.hexBuf # <<>>
    BY <2>1, <2>3, HexPair, EscapedState DEF ReadEscaped
  <2>4. CASE ~isHexDigit(c)
    BY <2>1, <2>4, FailState, EscapedState DEF ReadEscaped
  <2>. QED  BY <2>2, <2>3, <2>4
<1>3. CASE ~q.failed /\ ~q.escaping /\ ~q.hasEq
  <2>1. Step(q, c) = ReadType(q, c)
    BY <1>3 DEF Step
  <2>2. c # Eq => Append(q.typeBuf, c) \in TypeText
    BY AppendProperties DEF States, ParserStates, TypeText
  <2>. QED  BY <2>1, <2>2 DEF ReadType, States, ParserStates
<1>4. CASE ~q.failed /\ ~q.escaping /\ q.hasEq
  <2>1. Step(q, c) = ReadValue(q, c)
    BY <1>4 DEF Step
  <2>2. CASE c = Backslash
    <3>1. ReadValue(q, c) = [q EXCEPT !.escaping = TRUE]
      BY <2>2 DEF ReadValue, Backslash, Comma, Semi, Plus, Space, Hash
    <3>. QED  BY <2>1, <3>1 DEF States, ParserStates
  <2>3. CASE c \in {Comma, Semi}
    <3>. DEFINE e == endRDN(q)
    <3>1. ReadValue(q, c) = [e EXCEPT !.leading = FALSE]
      BY <2>3 DEF ReadValue, Backslash, Comma, Semi, Plus, Space, Hash
    <3>2. e \in States
      BY EndRDNState
    <3>. HIDE DEF e
    <3>. QED  BY <2>1, <3>1, <3>2 DEF States, ParserStates
  <2>4. CASE c = Plus
    <3>. DEFINE e == endAttr(q)
    <3>1. ReadValue(q, c) = [e EXCEPT !.leading = TRUE]
      BY <2>4 DEF ReadValue, Backslash, Comma, Semi, Plus, Space, Hash
    <3>2. e \in States
      BY EndAttrState
    <3>. HIDE DEF e
    <3>. QED  BY <2>1, <3>1, <3>2 DEF States, ParserStates
  <2>5. CASE c \notin {Backslash, Comma, Semi, Plus}
    <3>. DEFINE a == appendVal(q, c, FALSE)
    <3>1. a \in States
      BY AppendState
    <3>2. \/ ReadValue(q, c) = q
          \/ ReadValue(q, c) = Fail(q)
          \/ ReadValue(q, c) = [a EXCEPT !.leading = FALSE]
      BY <2>5 DEF ReadValue
    <3>. HIDE DEF a
    <3>. QED  BY <2>1, <3>1, <3>2, FailState DEF States, ParserStates
  <2>. QED  BY <2>2, <2>3, <2>4, <2>5
<1>. QED  BY <1>1, <1>2, <1>3, <1>4
-----------------------------------------------------------------------------
(* The loop of ParseDN over t, from any state of its variables. *)
Run(q, t) ==
    LET after[i \in 0 .. Len(t)] == IF i = 0 THEN q ELSE Step(after[i - 1], t[i])
    IN  after[Len(t)]

(* f lists the states that the loop goes through. *)
IsRun(f, q, t) ==
    /\ f \in [0 .. Len(t) -> States] /\ f[0] = q
    /\ \A i \in 1 .. Len(t) : f[i] = Step(f[i - 1], t[i])

LEMMA LoopIsRun == ASSUME NEW t PROVE Loop(t) = Run(Start, t)
BY DEF Loop, Run

LEMMA RunExists ==
    ASSUME NEW q \in States, NEW t \in Text
    PROVE  \E f : IsRun(f, q, t)
<1>. DEFINE n == Len(t)
            G == [i \in Nat |-> [v \in States |-> IF i \in 1 .. n THEN Step(v, t[i]) ELSE v]]
<1>1. n \in Nat /\ \A i \in 1 .. n : t[i] \in Byte
  BY LenProperties, ElementOfSeq DEF Text
<1>. HIDE DEF n
<1>2. G \in [Nat -> [States -> States]]
  BY <1>1, StepState
<1>3. PICK f : Recursion(f, States, q, G)
  <2>. HIDE DEF G
  <2>. QED  BY <1>2, RecursiveFunction
<1>4. f \in [Nat -> States] /\ \A i \in Nat : f[i] = IF i = 0 THEN q ELSE G[i][f[i - 1]]
  <2>. HIDE DEF G
  <2>. QED  BY <1>3 DEF Recursion
<1>. DEFINE g == [i \in 0 .. n |-> f[i]]
<1>5. g \in [0 .. n -> States] /\ g[0] = q
  <2>1. f[0] = q /\ 0 \in 0 .. n /\ \A i \in 0 .. n : f[i] \in States
    <3>. HIDE DEF G
    <3>. QED  BY <1>1, <1>4
  <2>. QED  BY <2>1
<1>6. ASSUME NEW i \in 1 .. n PROVE g[i] = Step(g[i - 1], t[i])
  <2>1. i \in Nat /\ i - 1 \in 0 .. n /\ i # 0 /\ i - 1 \in Nat
    BY <1>1
  <2>2. f[i - 1] \in States /\ f[i] = G[i][f[i - 1]]
    BY <1>4, <2>1
  <2>3. G[i][f[i - 1]] = Step(f[i - 1], t[i])
    BY <2>1, <2>2
  <2>. QED  BY <2>1, <2>2, <2>3
<1>. HIDE DEF g
<1>. QED  BY <1>5, <1>6 DEF IsRun, n

LEMMA RunIs ==
    ASSUME NEW q \in States, NEW t \in Text, NEW f, IsRun(f, q, t)
    PROVE  Run(q, t) = f[Len(t)]
<1>. DEFINE n == Len(t)
            Rec(h) == h = [i \in 0 .. n |-> IF i = 0 THEN q ELSE Step(h[i - 1], t[i])]
            h == CHOOSE h : Rec(h)
            T == {i \in Nat : i <= n => h[i] = f[i]}
<1>1. n \in Nat
  BY LenProperties DEF Text
<1>2. Run(q, t) = h[n]
  BY DEF Run
<1>. HIDE DEF n
<1>3. /\ f \in [0 .. n -> States] /\ f[0] = q
      /\ \A i \in 1 .. n : f[i] = Step(f[i - 1], t[i])
  BY DEF IsRun, n
<1>4. Rec(f)
  BY <1>1, <1>3
<1>5. Rec(h)
  <2>. HIDE DEF Rec
  <2>. QED  BY <1>4
<1>6. /\ h[0] = q
      /\ \A i \in 1 .. n : h[i] = Step(h[i - 1], t[i])
  <2>. HIDE DEF h
  <2>. QED  BY <1>1, <1>5
<1>. HIDE DEF h
<1>7. 0 \in T
  BY <1>3, <1>6
<1>8. ASSUME NEW i \in T PROVE i + 1 \in T
  BY <1>1, <1>3, <1>6
<1>9. T = Nat
  <2>1. T \in SUBSET Nat
    OBVIOUS
  <2>. HIDE DEF T
  <2>. QED  BY <1>7, <1>8, <2>1, NatSetInduction
<1>. QED  BY <1>1, <1>2, <1>9 DEF n

(* The loop over nothing, over one byte more, and that it keeps States. *)
LEMMA RunEmpty == ASSUME NEW q \in States PROVE Run(q, <<>>) = q
<1>1. <<>> \in Text /\ Len(<<>>) = 0
  BY DEF Text
<1>2. PICK f : IsRun(f, q, <<>>)
  BY <1>1, RunExists
<1>. QED  BY <1>1, <1>2, RunIs DEF IsRun

LEMMA RunState == ASSUME NEW q \in States, NEW t \in Text PROVE Run(q, t) \in States
<1>1. PICK f : IsRun(f, q, t)
  BY RunExists
<1>2. Len(t) \in 0 .. Len(t)
  BY LenProperties DEF Text
<1>. QED  BY <1>1, <1>2, RunIs DEF IsRun

LEMMA RunAppend ==
    ASSUME NEW q \in States, NEW t \in Text, NEW c \in Byte
    PROVE  Append(t, c) \in Text /\ Run(q, Append(t, c)) = Step(Run(q, t), c)
<1>. DEFINE n == Len(t)
            u == Append(t, c)
<1>1. n \in Nat /\ u \in Text /\ Len(u) = n + 1 /\ u[n + 1] = c /\ \A i \in 1 .. n : u[i] = t[i]
  BY AppendProperties, LenProperties DEF Text
<1>2. PICK f : IsRun(f, q, t)
  BY RunExists
<1>. DEFINE g == [i \in 0 .. n + 1 |-> IF i = n + 1 THEN Step(f[n], c) ELSE f[i]]
<1>3. f \in [0 .. n -> States] /\ f[0] = q /\ \A i \in 1 .. n : f[i] = Step(f[i - 1], t[i])
  BY <1>2 DEF IsRun
<1>4. Run(q, t) = f[n]
  BY <1>2, RunIs
<1>. HIDE DEF n, u
<1>5. g \in [0 .. n + 1 -> States] /\ g[0] = q
  <2>1. f[n] \in States
    BY <1>1, <1>3
  <2>. QED  BY <1>1, <1>3, <2>1, StepState
<1>6. ASSUME NEW i \in 1 .. n + 1 PROVE g[i] = Step(g[i - 1], u[i])
  <2>1. CASE i = n + 1
    BY <1>1, <2>1
  <2>2. CASE i \in 1 .. n
    <3>1. i - 1 \in 0 .. n + 1 /\ i - 1 # n + 1 /\ i # n + 1 /\ i \in 0 .. n + 1
      BY <1>1, <2>2
    <3>2. g[i] = f[i] /\ g[i - 1] = f[i - 1]
      BY <3>1
    <3>. QED  BY <1>1, <1>3, <2>2, <3>2
  <2>. QED  BY <1>1, <2>1, <2>2
<1>7. g[n + 1] = Step(f[n], c)
  BY <1>1
<1>. HIDE DEF g
<1>8. IsRun(g, q, u)
  BY <1>1, <1>5, <1>6 DEF IsRun
<1>9. Run(q, u) = g[n + 1]
  BY <1>1, <1>8, RunIs
<1>. QED  BY <1>1, <1>4, <1>7, <1>9 DEF u

(* The loop over two texts is the loop over the second from where the      *)
(* first ends.                                                             *)
LEMMA RunConcat ==
    ASSUME NEW q \in States, NEW t \in Text, NEW u \in Text
    PROVE  t \o u \in Text /\ Run(q, t \o u) = Run(Run(q, t), u)
<1>. DEFINE T == {w \in Text : Run(q, t \o w) = Run(Run(q, t), w)}
<1>1. <<>> \in T
  <2>1. <<>> \in Text /\ t \o <<>> = t
    BY ConcatEmptySeq DEF Text
  <2>. QED  BY <2>1, RunState, RunEmpty
<1>2. ASSUME NEW w \in Text, NEW c \in Byte, w \in T PROVE Append(w, c) \in T
  <2>1. t \o Append(w, c) = Append(t \o w, c) /\ t \o w \in Text
    <3>1. AppendsToBoth(t, w, c)
      BY ConcatAppend DEF Text
    <3>. QED  BY <3>1, ConcatProperties DEF AppendsToBoth, Text
  <2>2. Run(q, Append(t \o w, c)) = Step(Run(q, t \o w), c)
    BY <2>1, RunAppend
  <2>3. Run(Run(q, t), Append(w, c)) = Step(Run(Run(q, t), w), c) /\ Append(w, c) \in Text
    BY RunState, RunAppend
  <2>4. Run(q, t \o w) = Run(Run(q, t), w)
    BY <1>2
  <2>5. Run(q, t \o Append(w, c)) = Run(Run(q, t), Append(w, c))
    BY <2>1, <2>2, <2>3, <2>4
  <2>. QED  BY <2>3, <2>5
<1>3. \A w \in Text : w \in T
  <2>. HIDE DEF T
  <2>. QED  BY <1>1, <1>2, SeqSetInduction DEF Text
<1>. QED  BY <1>3, ConcatProperties DEF Text
-----------------------------------------------------------------------------
(* The machine's variables are those of the loop over what it has read. *)
IInv == text \in Seq(Bytes) /\ room \in Nat /\ p = Loop(text)

LEMMA BytesAreText == Seq(Bytes) \subseteq Text
<1>1. Bytes \subseteq Byte
  BY TextConstants DEF Byte
<1>. QED  BY <1>1, SeqMonotonic DEF Text

LEMMA LoopState == ASSUME NEW t \in Text PROVE Loop(t) \in States
BY StartState, RunState, LoopIsRun

LEMMA LoopAppend ==
    ASSUME NEW t \in Text, NEW c \in Byte
    PROVE  Loop(Append(t, c)) = Step(Loop(t), c)
BY StartState, RunAppend, LoopIsRun

LEMMA Invariance == Spec => []IInv
<1>1. Init => IInv
  BY TextConstants DEF Init, IInv
<1>2. IInv /\ [Next]_vars => IInv'
  <2>. SUFFICES ASSUME IInv, [Next]_vars PROVE IInv'
    OBVIOUS
  <2>1. CASE UNCHANGED vars
    BY <2>1 DEF vars, IInv
  <2>2. ASSUME NEW c \in Bytes, Read(c) PROVE IInv'
    <3>1. text' = Append(text, c) /\ p' = Step(p, c) /\ room' = room - 1 /\ room > 0
      BY <2>2 DEF Read
    <3>2. c \in Byte /\ text \in Text
      BY BytesAreText, TextConstants DEF IInv, Byte
    <3>3. Loop(Append(text, c)) = Step(p, c)
      BY <3>2, LoopAppend DEF IInv
    <3>4. Append(text, c) \in Seq(Bytes)
      BY AppendProperties DEF IInv
    <3>. QED  BY <3>1, <3>3, <3>4 DEF IInv
  <2>. QED  BY <2>1, <2>2, TextConstants DEF Next
<1>. QED  BY <1>1, <1>2, PTL DEF Spec

(* The slices and buffers of ParseDN stay in range, whatever it reads.     *)
(* (dn.go:67-76, 95, 119-121).                                             *)
THEOREM TypeCorrect == Spec => []TypeOK
<1>1. Types \subseteq Seq(Nat) /\ Text \subseteq Seq(Nat) /\ TypeText \subseteq Seq(Nat)
  <2>1. Byte \subseteq Nat /\ Byte \ {Eq} \subseteq Nat
    BY DEF Byte
  <2>2. Text \subseteq Seq(Nat) /\ TypeText \subseteq Seq(Nat)
    BY <2>1, SeqMonotonic DEF Text, TypeText
  <2>. QED  BY <2>2 DEF Types
<1>2. Attrs \subseteq Attribute
  BY <1>1 DEF Attrs, Attribute
<1>3. Seq(Attrs) \subseteq Seq(Attribute)
  BY <1>2, SeqMonotonic
<1>4. RDNs \subseteq Seq(Attribute)
  BY <1>3 DEF RDNs
<1>5. Seq(RDNs) \subseteq Seq(Seq(Attribute))
  BY <1>4, SeqMonotonic
<1>6. \A h \in HexBufs : Len(h) <= 1
  <2>1. Len(<<>>) = 0 /\ \A c : Len(<<c>>) = 1
    OBVIOUS
  <2>2. 0 <= 1 /\ 1 <= 1
    OBVIOUS
  <2>. QED  BY <2>1, <2>2, Zenon DEF HexBufs
<1>7. IInv => p \in States
  BY BytesAreText, LoopState DEF IInv
<1>8. IInv => TypeOK
  <2>. SUFFICES ASSUME IInv PROVE TypeOK
    OBVIOUS
  <2>1. p \in ParserStates /\ p.trailWS <= Len(p.valBuf) /\ (p.hexBuf # <<>> => p.escaping)
    BY <1>7 DEF States
  <2>2. p.rdn \in Seq(Attribute) /\ p.rdns \in Seq(Seq(Attribute))
    BY <1>3, <1>5, <2>1 DEF ParserStates
  <2>3. p.typeBuf \in Seq(Nat) /\ p.valBuf \in Seq(0 .. 255)
    BY <1>1, <2>1 DEF ParserStates, Text, Byte
  <2>4. p.trailWS \in 0 .. Len(p.valBuf)
    <3>1. Len(p.valBuf) \in Nat /\ p.trailWS \in Nat
      BY <2>1, <2>3, LenProperties DEF ParserStates
    <3>. QED  BY <2>1, <3>1
  <2>5. Len(p.hexBuf) <= 1
    BY <1>6, <2>1 DEF ParserStates
  <2>6. p.hasEq \in BOOLEAN /\ p.escaping \in BOOLEAN /\ p.leading \in BOOLEAN /\ p.failed \in BOOLEAN
    BY <2>1 DEF ParserStates
  <2>7. text \in Seq(Bytes) /\ room \in Nat
    BY DEF IInv
  <2>. QED  BY <2>1, <2>2, <2>3, <2>4, <2>5, <2>6, <2>7 DEF TypeOK
<1>. QED  BY <1>8, Invariance, PTL
-----------------------------------------------------------------------------
(* RDNs read before do not matter to the loop: it adds to them. *)
Behind(R, q) == [q EXCEPT !.rdns = R \o @]

LEMMA BehindState ==
    ASSUME NEW R \in Seq(RDNs), NEW q \in States
    PROVE  Behind(R, q) \in States
<1>1. R \o q.rdns \in Seq(RDNs)
  BY ConcatProperties DEF States, ParserStates
<1>. QED  BY <1>1 DEF Behind, States, ParserStates

LEMMA BehindEndAttr ==
    ASSUME NEW R \in Seq(RDNs), NEW q \in States
    PROVE  endAttr(Behind(R, q)) = Behind(R, endAttr(q))
<1>. DEFINE S == R \o q.rdns
            e == endAttr(q)
            b == Behind(R, q)
<1>1. e.rdns = q.rdns
  BY DEF endAttr, Fail, States, ParserStates
<1>2. Behind(R, q) = [q EXCEPT !.rdns = S]
  BY DEF Behind, States, ParserStates
<1>3. Behind(R, e) = [e EXCEPT !.rdns = S]
  BY <1>1, EndAttrState DEF Behind, States, ParserStates
<1>. HIDE DEF S
<1>4. CASE ~q.hasEq \/ TrimSpace(q.typeBuf) = <<>>
  BY <1>2, <1>3, <1>4 DEF endAttr, Fail, States, ParserStates
<1>5. CASE q.hasEq /\ TrimSpace(q.typeBuf) # <<>>
  BY <1>2, <1>3, <1>5 DEF endAttr, States, ParserStates
<1>. QED  BY <1>4, <1>5

LEMMA BehindEndRDN ==
    ASSUME NEW R \in Seq(RDNs), NEW q \in States
    PROVE  endRDN(Behind(R, q)) = Behind(R, endRDN(q))
<1>. DEFINE e == endAttr(q)
<1>1. endAttr(Behind(R, q)) = Behind(R, e)
  BY BehindEndAttr
<1>2. e \in States /\ (~e.failed => e.rdn # <<>>)
  BY EndAttrState
<1>3. endRDN(q) = IF e.failed THEN e ELSE [e EXCEPT !.rdns = Append(@, e.rdn), !.rdn = <<>>]
  BY DEF endRDN
<1>4. endRDN(Behind(R, q)) =
        IF Behind(R, e).failed THEN Behind(R, e)
        ELSE [Behind(R, e) EXCEPT !.rdns = Append(@, Behind(R, e).rdn), !.rdn = <<>>]
  BY <1>1 DEF endRDN
<1>. HIDE DEF e
<1>5. Behind(R, e).failed = e.failed /\ Behind(R, e).rdn = e.rdn /\ Behind(R, e).rdns = R \o e.rdns
  BY <1>2 DEF Behind, States, ParserStates
<1>6. CASE e.failed
  BY <1>3, <1>4, <1>5, <1>6
<1>7. CASE ~e.failed
  <2>1. e.rdn \in RDNs /\ e.rdns \in Seq(RDNs)
    BY <1>2, <1>7 DEF RDNs, States, ParserStates
  <2>2. Append(R \o e.rdns, e.rdn) = R \o Append(e.rdns, e.rdn)
    <3>. DEFINE old == e.rdns
                new == e.rdn
    <3>1. old \in Seq(RDNs) /\ new \in RDNs
      BY <2>1
    <3>. HIDE DEF old, new
    <3>2. AppendsToBoth(R, old, new)
      BY <3>1, ConcatAppend
    <3>. QED  BY <3>2 DEF AppendsToBoth, old, new
  <2>. DEFINE A == Append(e.rdns, e.rdn)
              B == R \o A
              f == [e EXCEPT !.rdns = A, !.rdn = <<>>]
              g == [Behind(R, e) EXCEPT !.rdns = B, !.rdn = <<>>]
  <2>3. endRDN(q) = f
    BY <1>2, <1>3, <1>7 DEF States, ParserStates
  <2>4. endRDN(Behind(R, q)) = g
    BY <1>4, <1>5, <1>7, <2>2
  <2>. HIDE DEF A
  <2>5. Behind(R, f) = [f EXCEPT !.rdns = B]
    BY <1>2 DEF Behind, States, ParserStates
  <2>. HIDE DEF B
  <2>6. [f EXCEPT !.rdns = B] = g
    BY <1>2 DEF Behind, States, ParserStates
  <2>. QED  BY <2>3, <2>4, <2>5, <2>6
<1>. QED  BY <1>6, <1>7

LEMMA BehindStep ==
    ASSUME NEW R \in Seq(RDNs), NEW q \in States, NEW c \in Byte
    PROVE  Step(Behind(R, q), c) = Behind(R, Step(q, c))
<1>. DEFINE b == Behind(R, q)
            S == R \o q.rdns
<1>1. /\ b = [q EXCEPT !.rdns = S]
      /\ b.failed = q.failed /\ b.escaping = q.escaping /\ b.hasEq = q.hasEq /\ b.hexBuf = q.hexBuf
      /\ b.leading = q.leading /\ b.valBuf = q.valBuf /\ b.typeBuf = q.typeBuf /\ b.trailWS = q.trailWS
  BY DEF Behind, States, ParserStates
<1>2. ASSUME NEW r \in States, r.rdns = q.rdns PROVE Behind(R, r) = [r EXCEPT !.rdns = S]
  BY <1>2 DEF Behind, States, ParserStates
<1>3. Fail(b) = Behind(R, Fail(q))
  BY <1>1 DEF Fail, Behind, States, ParserStates
<1>4. ASSUME NEW x \in Byte, NEW y \in BOOLEAN
      PROVE  appendVal(b, x, y) = Behind(R, appendVal(q, x, y))
  BY <1>1 DEF appendVal, Behind, States, ParserStates
<1>5. ASSUME NEW x \in Byte PROVE Escaped(b, x) = Behind(R, Escaped(q, x))
  <2>. DEFINE a == appendVal(q, x, TRUE)
  <2>1. appendVal(b, x, TRUE) = Behind(R, a) /\ a \in States
    BY <1>4, AppendState
  <2>. HIDE DEF a, b
  <2>. QED  BY <2>1 DEF Escaped, Behind, States, ParserStates, a
<1>. HIDE DEF b, S
<1>6. CASE q.failed
  BY <1>1, <1>6 DEF Step, b
<1>7. CASE ~q.failed /\ q.escaping
  <2>1. Step(q, c) = ReadEscaped(q, c) /\ Step(b, c) = ReadEscaped(b, c)
    BY <1>1, <1>7 DEF Step
  <2>2. CASE isHexDigit(c) /\ q.hexBuf = <<>>
    <3>1. ReadEscaped(q, c) = [q EXCEPT !.hexBuf = <<c>>] /\ ReadEscaped(b, c) = [b EXCEPT !.hexBuf = <<c>>]
      BY <1>1, <2>2 DEF ReadEscaped
    <3>2. [b EXCEPT !.hexBuf = <<c>>] = Behind(R, [q EXCEPT !.hexBuf = <<c>>])
      BY DEF b, Behind, States, ParserStates
    <3>. QED  BY <2>1, <3>1, <3>2 DEF b
  <2>3. CASE isHexDigit(c) /\ q.hexBuf # <<>>
    <3>. DEFINE x == 16 * HexValue(q.hexBuf[1]) + HexValue(c)
    <3>1. ReadEscaped(q, c) = Escaped(q, x) /\ ReadEscaped(b, c) = Escaped(b, x)
      BY <1>1, <2>3 DEF ReadEscaped
    <3>2. x \in Byte
      BY <1>7, <2>3, HexPair
    <3>. HIDE DEF x
    <3>. QED  BY <1>5, <2>1, <3>1, <3>2 DEF b
  <2>4. CASE ~isHexDigit(c)
    BY <1>1, <1>3, <1>5, <2>1, <2>4 DEF ReadEscaped, b
  <2>. QED  BY <2>2, <2>3, <2>4
<1>8. CASE ~q.failed /\ ~q.escaping /\ ~q.hasEq
  <2>1. Step(q, c) = ReadType(q, c) /\ Step(b, c) = ReadType(b, c)
    BY <1>1, <1>8 DEF Step
  <2>2. ReadType(b, c) = Behind(R, ReadType(q, c))
    BY DEF ReadType, b, Behind, States, ParserStates
  <2>. QED  BY <2>1, <2>2 DEF b
<1>9. CASE ~q.failed /\ ~q.escaping /\ q.hasEq
  <2>1. Step(q, c) = ReadValue(q, c) /\ Step(b, c) = ReadValue(b, c)
    BY <1>1, <1>9 DEF Step
  <2>2. CASE c = Backslash
    <3>1. ReadValue(q, c) = [q EXCEPT !.escaping = TRUE] /\ ReadValue(b, c) = [b EXCEPT !.escaping = TRUE]
      BY <2>2 DEF ReadValue, Backslash, Comma, Semi, Plus, Space, Hash
    <3>2. [b EXCEPT !.escaping = TRUE] = Behind(R, [q EXCEPT !.escaping = TRUE])
      BY DEF b, Behind, States, ParserStates
    <3>. QED  BY <2>1, <3>1, <3>2 DEF b
  <2>3. CASE c \in {Comma, Semi}
    <3>. DEFINE e == endRDN(q)
    <3>1. ReadValue(q, c) = [e EXCEPT !.leading = FALSE] /\ ReadValue(b, c) = [endRDN(b) EXCEPT !.leading = FALSE]
      BY <2>3 DEF ReadValue, Backslash, Comma, Semi, Plus, Space, Hash
    <3>2. e \in States /\ endRDN(b) = Behind(R, e)
      BY EndRDNState, BehindEndRDN DEF b
    <3>. HIDE DEF e
    <3>3. [Behind(R, e) EXCEPT !.leading = FALSE] = Behind(R, [e EXCEPT !.leading = FALSE])
      BY <3>2 DEF Behind, States, ParserStates
    <3>. QED  BY <2>1, <3>1, <3>2, <3>3 DEF b
  <2>4. CASE c = Plus
    <3>. DEFINE e == endAttr(q)
    <3>1. ReadValue(q, c) = [e EXCEPT !.leading = TRUE] /\ ReadValue(b, c) = [endAttr(b) EXCEPT !.leading = TRUE]
      BY <2>4 DEF ReadValue, Backslash, Comma, Semi, Plus, Space, Hash
    <3>2. e \in States /\ endAttr(b) = Behind(R, e)
      BY EndAttrState, BehindEndAttr DEF b
    <3>. HIDE DEF e
    <3>3. [Behind(R, e) EXCEPT !.leading = TRUE] = Behind(R, [e EXCEPT !.leading = TRUE])
      BY <3>2 DEF Behind, States, ParserStates
    <3>. QED  BY <2>1, <3>1, <3>2, <3>3 DEF b
  <2>5. CASE c \notin {Backslash, Comma, Semi, Plus}
    <3>. DEFINE a == appendVal(q, c, FALSE)
    <3>1. CASE c = Space /\ q.leading
      <4>1. ReadValue(q, c) = q /\ ReadValue(b, c) = b
        BY <1>1, <3>1 DEF ReadValue, Backslash, Comma, Semi, Plus, Space, Hash
      <4>. QED  BY <2>1, <4>1 DEF b
    <3>2. CASE ~(c = Space /\ q.leading) /\ c = Hash /\ q.valBuf = <<>>
      <4>1. ReadValue(q, c) = Fail(q) /\ ReadValue(b, c) = Fail(b)
        BY <1>1, <3>2 DEF ReadValue, Backslash, Comma, Semi, Plus, Space, Hash
      <4>. QED  BY <1>3, <2>1, <4>1 DEF b
    <3>3. CASE ~(c = Space /\ q.leading) /\ ~(c = Hash /\ q.valBuf = <<>>)
      <4>1. /\ ReadValue(q, c) = [a EXCEPT !.leading = FALSE]
            /\ ReadValue(b, c) = [appendVal(b, c, FALSE) EXCEPT !.leading = FALSE]
        BY <1>1, <2>5, <3>3 DEF ReadValue
      <4>2. a \in States /\ appendVal(b, c, FALSE) = Behind(R, a)
        BY <1>4, AppendState
      <4>. HIDE DEF a
      <4>3. [Behind(R, a) EXCEPT !.leading = FALSE] = Behind(R, [a EXCEPT !.leading = FALSE])
        BY <4>2 DEF Behind, States, ParserStates
      <4>. QED  BY <2>1, <4>1, <4>2, <4>3 DEF b
    <3>. QED  BY <3>1, <3>2, <3>3
  <2>. QED  BY <2>2, <2>3, <2>4, <2>5
<1>. QED  BY <1>6, <1>7, <1>8, <1>9

LEMMA BehindRun ==
    ASSUME NEW R \in Seq(RDNs), NEW q \in States, NEW t \in Text
    PROVE  Run(Behind(R, q), t) = Behind(R, Run(q, t))
<1>. DEFINE T == {u \in Text : Run(Behind(R, q), u) = Behind(R, Run(q, u))}
<1>1. <<>> \in T
  BY BehindState, RunEmpty DEF Text
<1>2. ASSUME NEW u \in Text, NEW c \in Byte, u \in T PROVE Append(u, c) \in T
  <2>1. Run(q, u) \in States /\ Behind(R, q) \in States
    BY RunState, BehindState
  <2>2. Run(q, Append(u, c)) = Step(Run(q, u), c) /\ Append(u, c) \in Text
    BY RunAppend
  <2>3. Run(Behind(R, q), Append(u, c)) = Step(Run(Behind(R, q), u), c)
    BY <2>1, RunAppend
  <2>4. Run(Behind(R, q), u) = Behind(R, Run(q, u))
    BY <1>2
  <2>5. Step(Behind(R, Run(q, u)), c) = Behind(R, Step(Run(q, u), c))
    BY <2>1, BehindStep
  <2>6. Run(Behind(R, q), Append(u, c)) = Behind(R, Run(q, Append(u, c)))
    BY <2>2, <2>3, <2>4, <2>5
  <2>. QED  BY <2>2, <2>6
<1>3. \A u \in Text : u \in T
  <2>. HIDE DEF T
  <2>. QED  BY <1>1, <1>2, SeqSetInduction DEF Text
<1>. QED  BY <1>3
-----------------------------------------------------------------------------
(* FlattenSeq concatenates from the left: f lists what it has so far. *)
IsFlattening(f, parts, S) ==
    /\ f \in [0 .. Len(parts) -> Seq(S)] /\ f[0] = <<>>
    /\ \A i \in 1 .. Len(parts) : f[i] = f[i - 1] \o parts[i]
    /\ FlattenSeq(parts) = f[Len(parts)]

LEMMA Flattening ==
    ASSUME NEW S, NEW parts \in Seq(Seq(S))
    PROVE  \E f : IsFlattening(f, parts, S)
<1>. DEFINE n == Len(parts)
            T == Seq(S)
            G == [i \in Nat |-> [s \in T |-> IF i \in 1 .. n THEN s \o parts[i] ELSE s]]
<1>1. n \in Nat /\ <<>> \in T /\ \A i \in 1 .. n : parts[i] \in T
  BY LenProperties, ElementOfSeq
<1>2. G \in [Nat -> [T -> T]]
  <2>1. \A i \in 1 .. n, s \in T : s \o parts[i] \in T
    BY <1>1, ConcatProperties
  <2>. HIDE DEF T, n
  <2>. QED  BY <1>1, <2>1
<1>3. PICK f : Recursion(f, T, <<>>, G)
  <2>. HIDE DEF T, G
  <2>. QED  BY <1>1, <1>2, RecursiveFunction
<1>4. f \in [Nat -> T] /\ \A i \in Nat : f[i] = IF i = 0 THEN <<>> ELSE G[i][f[i - 1]]
  <2>. HIDE DEF T, G
  <2>. QED  BY <1>3 DEF Recursion
<1>5. \A i \in 0 .. n : f[i] \in T
  <2>. HIDE DEF T, G, n
  <2>. QED  BY <1>1, <1>4
<1>6. f[0] = <<>>
  <2>. HIDE DEF G
  <2>. QED  BY <1>4
<1>7. ASSUME NEW i \in 1 .. n PROVE f[i] = f[i - 1] \o parts[i]
  <2>1. i \in Nat /\ i # 0 /\ i - 1 \in Nat
    BY <1>1
  <2>2. f[i - 1] \in T /\ f[i] = G[i][f[i - 1]]
    <3>. HIDE DEF T, G
    <3>. QED  BY <1>4, <2>1
  <2>3. \A s \in T : G[i][s] = s \o parts[i]
    <3>. HIDE DEF T
    <3>. QED  BY <2>1
  <2>. QED  BY <2>2, <2>3
<1>. DEFINE g == [i \in 0 .. n |-> f[i]]
<1>8. g \in [0 .. n -> T] /\ g[0] = <<>> /\ g[n] = f[n]
  <2>. HIDE DEF T, n
  <2>. QED  BY <1>1, <1>5, <1>6
<1>9. \A i \in 1 .. n : g[i] = g[i - 1] \o parts[i]
  <2>1. \A i \in 1 .. n : i \in 0 .. n /\ i - 1 \in 0 .. n
    BY <1>1
  <2>. HIDE DEF n
  <2>. QED  BY <1>7, <2>1
<1>10. FlattenSeq(parts) = f[n]
  <2>1. CASE n = 0
    <3>1. parts = <<>> /\ FlattenSeq(parts) = parts
      BY <2>1, EmptySeq DEF FlattenSeq
    <3>. QED  BY <1>6, <2>1, <3>1
  <2>2. CASE n # 0
    <3>. DEFINE Rec(h) == h = [i \in 1 .. n |-> IF i = 1 THEN parts[i] ELSE h[i - 1] \o parts[i]]
                h == CHOOSE h : Rec(h)
                k == [i \in 1 .. n |-> f[i]]
                U == {i \in Nat : i \in 1 .. n => h[i] = f[i]}
    <3>1. FlattenSeq(parts) = h[n]
      BY <2>2 DEF FlattenSeq
    <3>. HIDE DEF n
    <3>2. f[1] = parts[1]
      <4>1. 1 \in 1 .. n /\ 1 - 1 = 0
        BY <1>1, <2>2
      <4>2. f[1] = <<>> \o parts[1] /\ parts[1] \in Seq(S)
        BY <1>1, <1>6, <1>7, <4>1
      <4>. QED  BY <4>2, ConcatEmptySeq
    <3>3. Rec(k)
      <4>1. \A i \in 1 .. n : i # 1 => i - 1 \in 1 .. n
        BY <1>1
      <4>. QED  BY <1>7, <3>2, <4>1
    <3>4. Rec(h)
      <4>. HIDE DEF Rec, k
      <4>. QED  BY <3>3
    <3>5. \A i \in 1 .. n : h[i] = IF i = 1 THEN parts[i] ELSE h[i - 1] \o parts[i]
      <4>. HIDE DEF h
      <4>. QED  BY <3>4
    <3>. HIDE DEF h
    <3>6. 0 \in U
      OBVIOUS
    <3>7. ASSUME NEW i \in U PROVE i + 1 \in U
      <4>1. CASE i = 0
        BY <3>2, <3>5, <4>1
      <4>2. CASE i # 0 /\ i + 1 \in 1 .. n
        <5>1. i \in 1 .. n /\ i + 1 # 1 /\ (i + 1) - 1 = i
          BY <1>1, <4>2
        <5>2. h[i] = f[i]
          BY <5>1
        <5>3. f[i + 1] = f[i] \o parts[i + 1]
          BY <1>7, <4>2, <5>1
        <5>4. h[i + 1] = h[i] \o parts[i + 1]
          BY <3>5, <4>2, <5>1
        <5>5. h[i + 1] = f[i + 1]
          BY <5>2, <5>3, <5>4
        <5>. QED  BY <5>1, <5>5
      <4>3. CASE i + 1 \notin 1 .. n
        BY <4>3
      <4>. HIDE DEF U
      <4>. QED  BY <4>1, <4>2, <4>3
    <3>8. U = Nat
      <4>1. U \in SUBSET Nat
        OBVIOUS
      <4>. HIDE DEF U
      <4>. QED  BY <3>6, <3>7, <4>1, NatSetInduction
    <3>9. n \in 1 .. n
      BY <1>1, <2>2
    <3>. QED  BY <1>1, <3>1, <3>8, <3>9
  <2>. QED  BY <2>1, <2>2
<1>. HIDE DEF g
<1>. QED  BY <1>8, <1>9, <1>10 DEF IsFlattening

(* One part is what it flattens to. *)
LEMMA FlattenOne == ASSUME NEW S, NEW s \in Seq(S) PROVE FlattenSeq(<<s>>) = s
<1>1. <<s>> \in Seq(Seq(S)) /\ Len(<<s>>) = 1 /\ <<s>>[1] = s
  OBVIOUS
<1>2. PICK f : IsFlattening(f, <<s>>, S)
  BY <1>1, Flattening
<1>3. f[0] = <<>> /\ FlattenSeq(<<s>>) = f[1]
  BY <1>1, <1>2 DEF IsFlattening
<1>4. f[1] = f[0] \o <<s>>[1]
  <2>1. 1 \in 1 .. Len(<<s>>) /\ 1 - 1 = 0
    BY <1>1
  <2>. QED  BY <1>2, <2>1 DEF IsFlattening
<1>. QED  BY <1>1, <1>3, <1>4, ConcatEmptySeq
-----------------------------------------------------------------------------
(* What escapeValue writes for the i-th byte of v. *)
Piece(v, i) ==
    IF v[i] = 0 THEN <<Backslash, 48, 48>>
    ELSE IF needsEscape(v, i) THEN <<Backslash, v[i]>> ELSE <<v[i]>>

Pieces(v) == [i \in DOMAIN v |-> Piece(v, i)]

LEMMA EscapeIsFlattening ==
    ASSUME NEW v \in Text
    PROVE  /\ Pieces(v) \in Seq(Text) /\ Len(Pieces(v)) = Len(v)
           /\ \A i \in 1 .. Len(v) : Pieces(v)[i] = Piece(v, i) /\ Piece(v, i) \in Text
           /\ EscapeValue(v) = FlattenSeq(Pieces(v))
<1>1. Len(v) \in Nat /\ DOMAIN v = 1 .. Len(v) /\ \A i \in 1 .. Len(v) : v[i] \in Byte
  BY LenProperties, ElementOfSeq DEF Text
<1>2. ASSUME NEW i \in 1 .. Len(v) PROVE Piece(v, i) \in Text
  <2>1. v[i] \in Byte /\ Backslash \in Byte /\ 48 \in Byte
    BY <1>1 DEF Byte, Backslash
  <2>. QED  BY <2>1 DEF Piece, Text
<1>3. Pieces(v) \in [1 .. Len(v) -> Text]
  BY <1>1, <1>2 DEF Pieces
<1>4. Pieces(v) \in Seq(Text) /\ Len(Pieces(v)) = Len(v)
  <2>. DEFINE n == Len(v)
  <2>. HIDE DEF n
  <2>1. \A f \in [1 .. n -> Text] : n \in Nat => f \in Seq(Text) /\ Len(f) = n
    OBVIOUS
  <2>. QED  BY <1>1, <1>3, <2>1 DEF n
<1>5. EscapeValue(v) = FlattenSeq(Pieces(v))
  BY DEF EscapeValue, Pieces, Piece
<1>. QED  BY <1>1, <1>2, <1>4, <1>5 DEF Pieces

LEMMA EscapeText == ASSUME NEW v \in Text PROVE EscapeValue(v) \in Text
<1>1. Pieces(v) \in Seq(Seq(Byte)) /\ EscapeValue(v) = FlattenSeq(Pieces(v))
  BY EscapeIsFlattening DEF Text
<1>2. PICK f : IsFlattening(f, Pieces(v), Byte)
  BY <1>1, Flattening
<1>. QED  BY <1>1, <1>2, LenProperties DEF IsFlattening, Text

(* The loop over one, two or three bytes. *)
LEMMA RunBytes ==
    ASSUME NEW q \in States, NEW a \in Byte
    PROVE  /\ Run(q, <<a>>) = Step(q, a)
           /\ \A b \in Byte : Run(q, <<a, b>>) = Step(Step(q, a), b)
           /\ \A b \in Byte, c \in Byte : Run(q, <<a, b, c>>) = Step(Step(Step(q, a), b), c)
<1>1. Run(q, <<a>>) = Step(q, a) /\ <<a>> \in Text
  <2>1. <<>> \in Text /\ Append(<<>>, a) = <<a>>
    BY DEF Text
  <2>. QED  BY <2>1, RunAppend, RunEmpty
<1>2. ASSUME NEW b \in Byte PROVE Run(q, <<a, b>>) = Step(Step(q, a), b) /\ <<a, b>> \in Text
  <2>. DEFINE u == Append(<<a>>, b)
  <2>0. <<a>> \in Seq(Byte) /\ Len(<<a>>) = 1 /\ <<a>>[1] = a
    OBVIOUS
  <2>2. u \in Seq(Byte) /\ Len(u) = 2 /\ u[1] = a /\ u[2] = b
    BY <2>0, AppendProperties
  <2>. HIDE DEF u
  <2>3. u = <<a, b>>
    BY <2>2
  <2>1. Append(<<a>>, b) = <<a, b>>
    BY <2>3 DEF u
  <2>. QED  BY <1>1, <2>1, RunAppend
<1>3. ASSUME NEW b \in Byte, NEW c \in Byte PROVE Run(q, <<a, b, c>>) = Step(Step(Step(q, a), b), c)
  <2>. DEFINE u == Append(<<a, b>>, c)
  <2>0. <<a, b>> \in Seq(Byte) /\ Len(<<a, b>>) = 2 /\ <<a, b>>[1] = a /\ <<a, b>>[2] = b
    OBVIOUS
  <2>2. u \in Seq(Byte) /\ Len(u) = 3 /\ u[1] = a /\ u[2] = b /\ u[3] = c
    BY <2>0, AppendProperties
  <2>. HIDE DEF u
  <2>3. u = <<a, b, c>>
    BY <2>2
  <2>1. Append(<<a, b>>, c) = <<a, b, c>>
    BY <2>3 DEF u
  <2>4. Run(q, <<a, b>>) = Step(Step(q, a), b) /\ <<a, b>> \in Text
    BY <1>2
  <2>5. Run(q, Append(<<a, b>>, c)) = Step(Run(q, <<a, b>>), c)
    BY <2>4, RunAppend
  <2>. QED  BY <2>1, <2>4, <2>5
<1>. QED  BY <1>1, <1>2, <1>3

(* The parser is within a value; and it has taken a byte into it. *)
Reading(q) == q \in States /\ ~q.failed /\ q.hasEq /\ ~q.escaping

Took(q, c, w) == [q EXCEPT !.valBuf = Append(@, c), !.trailWS = w, !.leading = FALSE]

(* A byte that is not special is taken, and counted if it is a space. *)
LEMMA TakesPlain ==
    ASSUME NEW q, Reading(q), NEW c \in Byte, c \notin {Backslash, Comma, Semi, Plus},
           ~(c = Space /\ q.leading), ~(c = Hash /\ q.valBuf = <<>>)
    PROVE  Step(q, c) = Took(q, c, IF c = Space THEN q.trailWS + 1 ELSE 0)
<1>1. Step(q, c) = [appendVal(q, c, FALSE) EXCEPT !.leading = FALSE]
  BY DEF Step, ReadValue, Reading
<1>. QED  BY <1>1 DEF appendVal, Took, Reading, States, ParserStates

(* A byte behind a backslash is taken as it is, and not counted. *)
LEMMA TakesEscaped ==
    ASSUME NEW q, Reading(q), NEW c \in escapableChars
    PROVE  Step(Step(q, Backslash), c) = Took(q, c, 0)
<1>. DEFINE e == [q EXCEPT !.escaping = TRUE]
<1>1. Step(q, Backslash) = e
  BY DEF Step, ReadValue, Reading, Backslash, Comma, Semi, Plus, Space, Hash
<1>2. ~isHexDigit(c)
  BY DEF escapableChars, isHexDigit, Backslash, Quote, Plus, Comma, Semi, Less, Greater, Eq, Space, Hash
<1>3. e.escaping /\ ~e.failed /\ e.hexBuf = <<>>
  BY DEF Reading, States, ParserStates
<1>4. Step(e, c) = Escaped(e, c)
  <2>. HIDE DEF e
  <2>. QED  BY <1>2, <1>3 DEF Step, ReadEscaped
<1>5. Escaped(e, c) = Took(q, c, 0)
  BY DEF Escaped, appendVal, Took, Reading, States, ParserStates
<1>. QED  BY <1>1, <1>4, <1>5

(* The NUL byte is taken from its two hex digits. *)
LEMMA TakesNul ==
    ASSUME NEW q, Reading(q)
    PROVE  Step(Step(Step(q, Backslash), 48), 48) = Took(q, 0, 0)
<1>. DEFINE e == [q EXCEPT !.escaping = TRUE]
            h == [e EXCEPT !.hexBuf = <<48>>]
<1>1. Step(q, Backslash) = e
  BY DEF Step, ReadValue, Reading, Backslash, Comma, Semi, Plus, Space, Hash
<1>2. isHexDigit(48) /\ HexValue(48) = 0
  BY DEF isHexDigit, HexValue
<1>3. e.escaping /\ ~e.failed /\ e.hexBuf = <<>>
  BY DEF Reading, States, ParserStates
<1>4. Step(e, 48) = h
  <2>. HIDE DEF e
  <2>. QED  BY <1>2, <1>3 DEF Step, ReadEscaped
<1>5. h.escaping /\ ~h.failed /\ h.hexBuf = <<48>>
  BY DEF Reading, States, ParserStates
<1>6. Step(h, 48) = Escaped(h, 0)
  <2>1. h.hexBuf # <<>> /\ h.hexBuf[1] = 48
    <3>. HIDE DEF h
    <3>. QED  BY <1>5
  <2>2. 16 * 0 + 0 = 0
    OBVIOUS
  <2>. HIDE DEF h
  <2>. QED  BY <1>2, <1>5, <2>1, <2>2 DEF Step, ReadEscaped
<1>7. Escaped(h, 0) = Took(q, 0, 0)
  BY DEF Escaped, appendVal, Took, Reading, States, ParserStates, HexBufs
<1>. QED  BY <1>1, <1>4, <1>6, <1>7
(* What escapeValue writes for a byte is read as that byte; the last one   *)
(* of a value is never counted as trailing white space.                    *)
LEMMA ReadsPiece ==
    ASSUME NEW q, Reading(q), NEW v \in Text, NEW i \in 1 .. Len(v),
           q.leading \/ q.valBuf = <<>> => i = 1
    PROVE  \E w \in Nat : (i = Len(v) => w = 0) /\ Run(q, Piece(v, i)) = Took(q, v[i], w)
<1>. DEFINE c == v[i]
<1>1. c \in Byte /\ Backslash \in Byte /\ 48 \in Byte /\ q \in States
  BY ElementOfSeq DEF Text, Byte, Backslash, Reading
<1>2. CASE c = 0
  <2>1. Run(q, <<Backslash, 48, 48>>) = Took(q, 0, 0)
    <3>. DEFINE z == 48
    <3>0. z \in Byte
      BY <1>1
    <3>. HIDE DEF z
    <3>1. \A b \in Byte, d \in Byte :
             Run(q, <<Backslash, b, d>>) = Step(Step(Step(q, Backslash), b), d)
      BY <1>1, RunBytes, Zenon
    <3>2. Run(q, <<Backslash, z, z>>) = Step(Step(Step(q, Backslash), z), z)
      BY <3>0, <3>1, Zenon
    <3>. QED  BY <3>2, TakesNul DEF z
  <2>. QED  BY <1>2, <2>1 DEF Piece
<1>3. CASE c # 0 /\ needsEscape(v, i)
  <2>1. Run(q, <<Backslash, c>>) = Step(Step(q, Backslash), c)
    BY <1>1, RunBytes
  <2>2. c \in escapableChars
    BY <1>3 DEF needsEscape, escapableChars
  <2>3. Run(q, Piece(v, i)) = Took(q, c, 0)
    BY <1>3, <2>1, <2>2, TakesEscaped DEF Piece
  <2>. QED  BY <2>3
<1>4. CASE c # 0 /\ ~needsEscape(v, i)
  <2>1. Run(q, <<c>>) = Step(q, c)
    BY <1>1, RunBytes
  <2>2. /\ c \notin {Backslash, Comma, Semi, Plus}
        /\ c = Space => i # 1 /\ i # Len(v)
        /\ c = Hash => i # 1
    BY <1>4 DEF needsEscape
  <2>3. Step(q, c) = Took(q, c, IF c = Space THEN q.trailWS + 1 ELSE 0)
    BY <1>1, <2>2, TakesPlain
  <2>4. q.trailWS + 1 \in Nat
    BY <1>1 DEF States, ParserStates
  <2>5. Piece(v, i) = <<c>>
    BY <1>4 DEF Piece
  <2>. HIDE DEF c
  <2>6. CASE c = Space
    BY <2>1, <2>2, <2>3, <2>4, <2>5, <2>6 DEF c
  <2>7. CASE c # Space
    BY <2>1, <2>3, <2>5, <2>7 DEF c
  <2>. QED  BY <2>6, <2>7
<1>. QED  BY <1>2, <1>3, <1>4

(* Where a value begins; and the parser once k bytes of v have been read.  *)
AtValue(q) == Reading(q) /\ q.leading /\ q.valBuf = <<>> /\ q.trailWS = 0

Part(q, v, k, w) == [q EXCEPT !.valBuf = SubSeq(v, 1, k), !.trailWS = w, !.leading = (k = 0)]

WithValue(q, v) == [q EXCEPT !.valBuf = v, !.leading = (v = <<>>)]

LEMMA PartGrows ==
    ASSUME NEW q, Reading(q), NEW v \in Text, NEW k \in Nat, k + 1 <= Len(v), NEW w, NEW x
    PROVE  Took(Part(q, v, k, w), v[k + 1], x) = Part(q, v, k + 1, x)
<1>1. Append(SubSeq(v, 1, k), v[k + 1]) = SubSeq(v, 1, k + 1)
  <2>1. PrefixGrows(v, k)
    BY GrowingPrefix DEF Text
  <2>. QED  BY <2>1 DEF PrefixGrows
<1>2. (k + 1 = 0) = FALSE
  OBVIOUS
<1>. DEFINE a == SubSeq(v, 1, k)
            b == SubSeq(v, 1, k + 1)
<1>. HIDE DEF a, b
<1>3. [q EXCEPT !.valBuf = Append(a, v[k + 1]), !.trailWS = x, !.leading = FALSE]
        = [q EXCEPT !.valBuf = b, !.trailWS = x, !.leading = FALSE]
  BY <1>1 DEF a, b
<1>4. Took([q EXCEPT !.valBuf = a, !.trailWS = w, !.leading = (k = 0)], v[k + 1], x)
        = [q EXCEPT !.valBuf = Append(a, v[k + 1]), !.trailWS = x, !.leading = FALSE]
  BY DEF Took, Reading, States, ParserStates
<1>. QED  BY <1>2, <1>3, <1>4 DEF Part, a, b

(* A value, escaped, is read as that value, with no trailing white space.  *)
LEMMA ReadsValue ==
    ASSUME NEW q, AtValue(q), NEW v \in Text
    PROVE  Run(q, EscapeValue(v)) = WithValue(q, v)
<1>. DEFINE n == Len(v)
<1>1. n \in Nat /\ q \in States /\ Reading(q) /\ q.leading = TRUE /\ q.valBuf = <<>> /\ q.trailWS = 0
  BY LenProperties DEF AtValue, Reading, States, ParserStates, Text
<1>2. PICK f : IsFlattening(f, Pieces(v), Byte)
  BY EscapeIsFlattening, Flattening DEF Text
<1>3. /\ f \in [0 .. n -> Text] /\ f[0] = <<>> /\ EscapeValue(v) = f[n]
      /\ \A i \in 1 .. n : f[i] = f[i - 1] \o Piece(v, i) /\ Piece(v, i) \in Text
  BY <1>2, EscapeIsFlattening DEF IsFlattening, Text
<1>. DEFINE Read_(k) == \E w \in Nat : (k = n => w = 0) /\ Run(q, f[k]) = Part(q, v, k, w)
            T == {k \in Nat : k <= n => Read_(k)}
<1>4. 0 \in T
  <2>1. SubSeq(v, 1, 0) = <<>>
    BY SubSeqEmpty
  <2>2. Part(q, v, 0, 0) = q
    BY <1>1, <2>1 DEF Part, States, ParserStates
  <2>3. Run(q, f[0]) = Part(q, v, 0, 0)
    BY <1>1, <1>3, <2>2, RunEmpty
  <2>. QED  BY <2>3
<1>5. ASSUME NEW k \in T PROVE k + 1 \in T
  <2>. SUFFICES ASSUME k + 1 <= n PROVE Read_(k + 1)
    OBVIOUS
  <2>1. k \in Nat /\ k \in 0 .. n /\ k + 1 \in 1 .. n /\ (k + 1) - 1 = k
    BY <1>1
  <2>2. PICK w \in Nat : Run(q, f[k]) = Part(q, v, k, w)
    BY <2>1
  <2>. DEFINE r == Part(q, v, k, w)
  <2>3. f[k + 1] = f[k] \o Piece(v, k + 1) /\ Piece(v, k + 1) \in Text /\ f[k] \in Text
    BY <1>3, <2>1
  <2>4. r \in States /\ Run(q, f[k + 1]) = Run(r, Piece(v, k + 1))
    <3>1. Run(q, f[k]) \in States
      BY <1>1, <2>3, RunState
    <3>2. Run(q, f[k] \o Piece(v, k + 1)) = Run(Run(q, f[k]), Piece(v, k + 1))
      BY <1>1, <2>3, RunConcat
    <3>. QED  BY <2>2, <2>3, <3>1, <3>2
  <2>5. ~r.failed /\ r.hasEq /\ ~r.escaping /\ r.leading = (k = 0) /\ r.valBuf = SubSeq(v, 1, k)
    BY <1>1 DEF Part, Reading, States, ParserStates
  <2>6. r.valBuf = <<>> => k = 0
    <3>1. \A i \in 1 .. k : v[i] \in Byte
      BY <1>1, <2>1, ElementOfSeq DEF Text
    <3>2. Len(SubSeq(v, 1, k)) = IF 1 <= k THEN k - 1 + 1 ELSE 0
      BY <2>1, <3>1, SubSeqProperties
    <3>3. SubSeq(v, 1, k) = <<>> => k = 0
      BY <2>1, <3>2
    <3>. HIDE DEF r
    <3>. QED  BY <2>5, <3>3
  <2>. HIDE DEF r
  <2>7. Reading(r) /\ (r.leading \/ r.valBuf = <<>> => k + 1 = 1)
    <3>1. Reading(r)
      BY <2>4, <2>5 DEF Reading
    <3>2. r.leading => k = 0
      BY <2>5
    <3>. QED  BY <2>1, <2>6, <3>1, <3>2
  <2>8. PICK x \in Nat : (k + 1 = n => x = 0) /\ Run(r, Piece(v, k + 1)) = Took(r, v[k + 1], x)
    BY <2>1, <2>7, ReadsPiece
  <2>9. Took(r, v[k + 1], x) = Part(q, v, k + 1, x)
    BY <1>1, <2>1, PartGrows DEF r
  <2>10. Run(q, f[k + 1]) = Part(q, v, k + 1, x)
    BY <2>4, <2>8, <2>9
  <2>. QED  BY <2>8, <2>10
<1>6. T = Nat
  <2>1. T \in SUBSET Nat
    OBVIOUS
  <2>. HIDE DEF T
  <2>. QED  BY <1>4, <1>5, <2>1, NatSetInduction
<1>7. Run(q, f[n]) = Part(q, v, n, 0)
  BY <1>1, <1>6
<1>8. SubSeq(v, 1, n) = v /\ (n = 0 <=> v = <<>>)
  BY <1>1, SubSeqFull, EmptySeq DEF Text
<1>9. Part(q, v, n, 0) = WithValue(q, v)
  BY <1>1, <1>8 DEF Part, WithValue, States, ParserStates
<1>. QED  BY <1>3, <1>7, <1>9
-----------------------------------------------------------------------------
(* Where an attribute begins. *)
Fresh(q) ==
    /\ q \in States /\ ~q.failed /\ ~q.hasEq /\ ~q.escaping
    /\ q.typeBuf = <<>> /\ q.valBuf = <<>> /\ q.trailWS = 0

WithType(q, t) == [q EXCEPT !.typeBuf = t]

LEMMA TypeTextIsText == TypeText \subseteq Text
<1>1. Byte \ {Eq} \subseteq Byte
  OBVIOUS
<1>. QED  BY <1>1, SeqMonotonic DEF TypeText, Text

(* A type is read as it is: whatever is in it, but "=". *)
LEMMA ReadsType ==
    ASSUME NEW q, Fresh(q), NEW t \in TypeText
    PROVE  Run(q, t) = WithType(q, t)
<1>. DEFINE T == {u \in TypeText : Run(q, u) = WithType(q, u)}
<1>0. q \in States
  BY DEF Fresh
<1>1. <<>> \in T
  <2>1. Run(q, <<>>) = q /\ <<>> \in TypeText
    BY <1>0, RunEmpty DEF TypeText
  <2>2. WithType(q, <<>>) = q
    BY DEF WithType, Fresh, States, ParserStates
  <2>. QED  BY <2>1, <2>2
<1>2. ASSUME NEW u \in TypeText, NEW c \in Byte \ {Eq}, u \in T PROVE Append(u, c) \in T
  <2>1. u \in Text /\ c \in Byte /\ c # Eq
    BY TypeTextIsText
  <2>2. Run(q, Append(u, c)) = Step(WithType(q, u), c)
    <3>1. Run(q, Append(u, c)) = Step(Run(q, u), c)
      BY <1>0, <2>1, RunAppend
    <3>. QED  BY <1>2, <3>1
  <2>. DEFINE r == WithType(q, u)
  <2>3. ~r.failed /\ ~r.escaping /\ ~r.hasEq /\ r.typeBuf = u
    BY DEF WithType, Fresh, States, ParserStates
  <2>4. Step(r, c) = [r EXCEPT !.typeBuf = Append(u, c)]
    <3>. HIDE DEF r
    <3>. QED  BY <2>1, <2>3 DEF Step, ReadType
  <2>5. [r EXCEPT !.typeBuf = Append(u, c)] = WithType(q, Append(u, c))
    BY DEF WithType, Fresh, States, ParserStates
  <2>6. Append(u, c) \in TypeText
    BY AppendProperties DEF TypeText
  <2>7. Run(q, Append(u, c)) = WithType(q, Append(u, c))
    BY <2>2, <2>4, <2>5
  <2>. QED  BY <2>6, <2>7
<1>3. \A u \in TypeText : u \in T
  <2>. HIDE DEF T
  <2>. QED  BY <1>1, <1>2, SeqSetInduction DEF TypeText
<1>. QED  BY <1>3

(* An attribute as String writes it, the parser that has read it, and the  *)
(* parser after its end.                                                   *)
AttrText(a) == a.type \o <<Eq>> \o EscapeValue(a.value)

Pending(q, a) ==
    [q EXCEPT !.typeBuf = a.type, !.valBuf = a.value, !.hasEq = TRUE, !.leading = (a.value = <<>>)]

Added(q, a) == [q EXCEPT !.rdn = Append(@, a), !.leading = (a.value = <<>>)]

LEMMA ReadsAttr ==
    ASSUME NEW q, Fresh(q), NEW a \in Attrs
    PROVE  AttrText(a) \in Text /\ Run(q, AttrText(a)) = Pending(q, a)
<1>. DEFINE r == WithType(q, a.type)
            s == [r EXCEPT !.hasEq = TRUE, !.leading = TRUE]
            e == EscapeValue(a.value)
<1>1. a.type \in TypeText /\ a.type \in Text /\ a.value \in Text /\ e \in Text
  BY TypeTextIsText, EscapeText DEF Attrs, Types
<1>2. <<Eq>> \in Text /\ Eq \in Byte
  BY DEF Text, Byte, Eq
<1>3. q \in States
  BY DEF Fresh
<1>. HIDE DEF e
<1>4. a.type \o <<Eq>> \in Text /\ AttrText(a) = (a.type \o <<Eq>>) \o e /\ AttrText(a) \in Text
  <2>1. a.type \o <<Eq>> \in Text
    BY <1>1, <1>2, ConcatProperties DEF Text
  <2>2. (a.type \o <<Eq>>) \o e \in Text
    BY <1>1, <2>1, ConcatProperties DEF Text
  <2>. QED  BY <2>1, <2>2 DEF AttrText, e
<1>5. Run(q, a.type) = r /\ r \in States
  <2>1. Run(q, a.type) = r
    BY <1>1, ReadsType
  <2>. QED  BY <1>1, <1>3, <2>1, RunState
<1>6. Run(q, a.type \o <<Eq>>) = Step(r, Eq)
  <2>1. Run(q, a.type \o <<Eq>>) = Run(Run(q, a.type), <<Eq>>)
    BY <1>1, <1>2, <1>3, RunConcat
  <2>2. Run(r, <<Eq>>) = Step(r, Eq)
    BY <1>2, <1>5, RunBytes
  <2>. QED  BY <1>5, <2>1, <2>2
<1>7. Step(r, Eq) = s
  <2>1. ~r.failed /\ ~r.escaping /\ ~r.hasEq
    BY DEF WithType, Fresh, States, ParserStates
  <2>. HIDE DEF r
  <2>. QED  BY <2>1 DEF Step, ReadType
<1>8. AtValue(s)
  <2>1. s \in States
    BY <1>2, <1>5, <1>7, StepState
  <2>2. ~s.failed /\ s.hasEq /\ ~s.escaping /\ s.leading /\ s.valBuf = <<>> /\ s.trailWS = 0
    BY DEF WithType, Fresh, States, ParserStates
  <2>. HIDE DEF s
  <2>. QED  BY <2>1, <2>2 DEF AtValue, Reading
<1>9. Run(q, AttrText(a)) = Run(s, e)
  <2>1. Run(q, (a.type \o <<Eq>>) \o e) = Run(Run(q, a.type \o <<Eq>>), e)
    BY <1>1, <1>3, <1>4, RunConcat
  <2>. QED  BY <1>4, <1>6, <1>7, <2>1
<1>10. Run(s, e) = WithValue(s, a.value)
  BY <1>1, <1>8, ReadsValue DEF e
<1>11. WithValue(s, a.value) = Pending(q, a)
  BY DEF WithValue, WithType, Pending, Fresh, States, ParserStates
<1>. QED  BY <1>4, <1>9, <1>10, <1>11

LEMMA EndsAttr ==
    ASSUME NEW q, Fresh(q), NEW a \in Attrs
    PROVE  endAttr(Pending(q, a)) = Added(q, a)
<1>. DEFINE r == Pending(q, a)
<1>1. a.type \in TypeText /\ a.type # <<>> /\ Trimmed(a.type) /\ a.value \in Text
  BY DEF Attrs, Types
<1>2. r.typeBuf = a.type /\ r.hasEq /\ r.valBuf = a.value /\ r.trailWS = 0
  BY DEF Pending, Fresh, States, ParserStates
<1>3. TrimSpace(a.type) = a.type
  BY <1>1, Trimming DEF TypeText
<1>4. SubSeq(a.value, 1, Len(a.value) - 0) = a.value
  <2>1. Len(a.value) \in Nat
    BY <1>1, LenProperties DEF Text
  <2>2. Len(a.value) - 0 = Len(a.value)
    BY <2>1
  <2>. QED  BY <1>1, <2>2, SubSeqFull DEF Text
<1>5. a = [type |-> a.type, value |-> a.value]
  BY DEF Attrs
<1>6. Ended(r) = a
  <2>. HIDE DEF r
  <2>. QED  BY <1>2, <1>3, <1>4, <1>5 DEF Ended
<1>7. endAttr(r) = [r EXCEPT !.rdn = Append(@, a), !.typeBuf = <<>>, !.valBuf = <<>>,
                             !.hasEq = FALSE, !.trailWS = 0]
  <2>. HIDE DEF r
  <2>. QED  BY <1>1, <1>2, <1>3, <1>6 DEF endAttr, Ended
<1>8. [r EXCEPT !.rdn = Append(@, a), !.typeBuf = <<>>, !.valBuf = <<>>, !.hasEq = FALSE, !.trailWS = 0]
        = Added(q, a)
  BY DEF Pending, Added, Fresh, States, ParserStates
<1>. QED  BY <1>7, <1>8
(* The separators: "+" begins another attribute, "," another RDN. *)
AfterPlus(q, a) == [q EXCEPT !.rdn = Append(@, a), !.leading = TRUE]
AfterRDN(q, r, l) == [q EXCEPT !.rdns = Append(@, r), !.rdn = <<>>, !.leading = l]

LEMMA PendingState ==
    ASSUME NEW q, Fresh(q), NEW a \in Attrs
    PROVE  Reading(Pending(q, a))
<1>1. Pending(q, a) \in States
  BY ReadsAttr, RunState DEF Fresh
<1>2. Pending(q, a).failed = FALSE /\ Pending(q, a).hasEq /\ Pending(q, a).escaping = FALSE
  BY DEF Pending, Fresh, States, ParserStates
<1>. QED  BY <1>1, <1>2 DEF Reading

LEMMA ReadsPlus ==
    ASSUME NEW q, Fresh(q), NEW a \in Attrs
    PROVE  Step(Pending(q, a), Plus) = AfterPlus(q, a) /\ Fresh(AfterPlus(q, a))
<1>. DEFINE r == Pending(q, a)
<1>1. Reading(r) /\ endAttr(r) = Added(q, a)
  BY PendingState, EndsAttr
<1>2. Step(r, Plus) = [endAttr(r) EXCEPT !.leading = TRUE]
  <2>. HIDE DEF r
  <2>. QED  BY <1>1 DEF Reading, Step, ReadValue, Backslash, Comma, Semi, Plus, Space, Hash
<1>3. [Added(q, a) EXCEPT !.leading = TRUE] = AfterPlus(q, a)
  BY DEF Added, AfterPlus, Fresh, States, ParserStates
<1>4. Step(r, Plus) = AfterPlus(q, a)
  BY <1>1, <1>2, <1>3
<1>5. AfterPlus(q, a) \in States
  <2>1. r \in States /\ Plus \in Byte
    BY <1>1 DEF Reading, Plus, Byte
  <2>. HIDE DEF r
  <2>. QED  BY <1>4, <2>1, StepState
<1>6. Fresh(AfterPlus(q, a))
  <2>. DEFINE s == AfterPlus(q, a)
  <2>1. s.failed = q.failed /\ s.hasEq = q.hasEq /\ s.escaping = q.escaping
        /\ s.typeBuf = q.typeBuf /\ s.valBuf = q.valBuf /\ s.trailWS = q.trailWS
    BY DEF AfterPlus, Fresh, States, ParserStates
  <2>. HIDE DEF s
  <2>. QED  BY <1>5, <2>1 DEF Fresh, s
<1>. QED  BY <1>4, <1>6

LEMMA EndsRDN ==
    ASSUME NEW q, Fresh(q), NEW a \in Attrs
    PROVE  /\ endRDN(Pending(q, a)) = AfterRDN(q, Append(q.rdn, a), a.value = <<>>)
           /\ ~endRDN(Pending(q, a)).failed
<1>. DEFINE e == Added(q, a)
            r == Append(q.rdn, a)
<1>1. endAttr(Pending(q, a)) = e
  BY EndsAttr
<1>2. ~e.failed /\ e.rdn = r
  BY DEF Added, Fresh, States, ParserStates
<1>3. endRDN(Pending(q, a)) = [e EXCEPT !.rdns = Append(@, r), !.rdn = <<>>]
  <2>. HIDE DEF e, r
  <2>. QED  BY <1>1, <1>2 DEF endRDN
<1>. HIDE DEF r
<1>4. [e EXCEPT !.rdns = Append(@, r), !.rdn = <<>>] = AfterRDN(q, r, a.value = <<>>)
  BY DEF Added, AfterRDN, Fresh, States, ParserStates
<1>5. ~AfterRDN(q, r, a.value = <<>>).failed
  BY DEF AfterRDN, Fresh, States, ParserStates
<1>. QED  BY <1>3, <1>4, <1>5 DEF r

LEMMA ReadsComma ==
    ASSUME NEW q, Fresh(q), NEW a \in Attrs
    PROVE  Step(Pending(q, a), Comma) = AfterRDN(q, Append(q.rdn, a), FALSE)
<1>. DEFINE r == Pending(q, a)
            u == Append(q.rdn, a)
            b == (a.value = <<>>)
<1>1. Reading(r) /\ endRDN(r) = AfterRDN(q, u, b)
  BY PendingState, EndsRDN
<1>2. Step(r, Comma) = [endRDN(r) EXCEPT !.leading = FALSE]
  <2>. HIDE DEF r, u, b
  <2>. QED  BY <1>1 DEF Reading, Step, ReadValue, Backslash, Comma, Semi, Plus, Space, Hash
<1>. HIDE DEF r, u, b
<1>3. [AfterRDN(q, u, b) EXCEPT !.leading = FALSE] = AfterRDN(q, u, FALSE)
  BY DEF AfterRDN, Fresh, States, ParserStates
<1>. QED  BY <1>1, <1>2, <1>3 DEF r, u

-----------------------------------------------------------------------------
(* A name before a container *)
LEMMA NameBeforeContainer ==
    ASSUME NEW a \in Attrs, NEW c \in Text
    PROVE  /\ (AttrText(a) \o <<Comma>>) \o c \in Text
           /\ Loop((AttrText(a) \o <<Comma>>) \o c) = Behind(<<<<a>>>>, Loop(c))
           /\ <<<<a>>>> \in Seq(RDNs)
<1>. DEFINE t == AttrText(a)
            R == <<<<a>>>>
<1>1. Fresh(Start)
  BY StartState DEF Fresh, Start
<1>2. t \in Text /\ Run(Start, t) = Pending(Start, a)
  BY <1>1, ReadsAttr
<1>3. <<Comma>> \in Text /\ Comma \in Byte
  BY DEF Text, Byte, Comma
<1>. HIDE DEF t
<1>4. t \o <<Comma>> \in Text /\ Run(Start, t \o <<Comma>>) = Step(Pending(Start, a), Comma)
  <2>1. t \o <<Comma>> \in Text /\ Run(Start, t \o <<Comma>>) = Run(Run(Start, t), <<Comma>>)
    BY <1>2, <1>3, StartState, RunConcat
  <2>2. Pending(Start, a) \in States
    BY <1>1, PendingState DEF Reading
  <2>. QED  BY <1>2, <1>3, <2>1, <2>2, RunBytes
<1>5. R \in Seq(RDNs)
  <2>1. <<a>> \in RDNs
    BY DEF RDNs
  <2>. QED  BY <2>1
<1>6. Step(Pending(Start, a), Comma) = Behind(R, Start)
  <2>0. Start.rdns = <<>> /\ Start.rdn = <<>> /\ Start.leading = FALSE /\ Start \in ParserStates
    BY StartState DEF Start, States
  <2>2. Append(<<>>, a) = <<a>> /\ Append(<<>>, <<a>>) = R /\ R \o <<>> = R
    BY <1>5, ConcatEmptySeq
  <2>1. Step(Pending(Start, a), Comma) = AfterRDN(Start, <<a>>, FALSE)
    <3>1. Step(Pending(Start, a), Comma) = AfterRDN(Start, Append(Start.rdn, a), FALSE)
      BY <1>1, ReadsComma
    <3>2. Append(Start.rdn, a) = <<a>>
      BY <2>0, <2>2
    <3>. QED  BY <3>1, <3>2
  <2>3. AfterRDN(Start, <<a>>, FALSE) = [Start EXCEPT !.rdns = R]
    <3>1. Append(Start.rdns, <<a>>) = R
      BY <2>0, <2>2
    <3>. HIDE DEF R
    <3>2. AfterRDN(Start, <<a>>, FALSE) = [Start EXCEPT !.rdns = R, !.rdn = <<>>, !.leading = FALSE]
      BY <2>0, <3>1 DEF AfterRDN, ParserStates
    <3>. QED  BY <2>0, <3>2 DEF ParserStates
  <2>4. Behind(R, Start) = [Start EXCEPT !.rdns = R]
    BY <2>2 DEF Behind, Start
  <2>. QED  BY <2>1, <2>2, <2>3, <2>4
<1>. HIDE DEF R
<1>7. Run(Start, (t \o <<Comma>>) \o c) = Run(Behind(R, Start), c)
  BY <1>4, <1>6, StartState, RunConcat
<1>8. Run(Behind(R, Start), c) = Behind(R, Run(Start, c))
  BY <1>5, StartState, BehindRun
<1>9. (t \o <<Comma>>) \o c \in Text
  BY <1>4, ConcatProperties DEF Text
<1>. QED  BY <1>5, <1>7, <1>8, <1>9, LoopIsRun DEF t, R
(* What is accepted, and what it denotes. *)
LEMMA AcceptedText ==
    ASSUME NEW t \in Text, TrimSpace(t) # <<>>
    PROVE  /\ Accepts(t) <=> ~AtEnd(Loop(t)).failed
           /\ ParseDN(t) = AtEnd(Loop(t)).rdns
           /\ Accepts(t) => /\ ~Loop(t).failed /\ ~Loop(t).escaping /\ Loop(t).hexBuf = <<>>
                            /\ AtEnd(Loop(t)) = endRDN(Loop(t))
<1>1. Result(t, Loop(t)) = AtEnd(Loop(t))
  BY DEF Result
<1>2. Loop(t) \in States
  BY LoopState
<1>3. Fail(Loop(t)).failed
  BY <1>2 DEF Fail, States, ParserStates
<1>. QED  BY <1>1, <1>3 DEF Accepts, ParseDN, AtEnd

(* White space alone reads nothing. *)
LEMMA BlankLoop ==
    ASSUME NEW t \in Text, TrimSpace(t) = <<>>
    PROVE  ~Loop(t).hasEq /\ Loop(t).rdns = <<>>
<1>. DEFINE Blank(u) == \A i \in 1 .. Len(u) : u[i] \in WhiteSpace
            Unread(q) == ~q.hasEq /\ ~q.escaping /\ q.rdns = <<>>
            T == {u \in Text : Blank(u) => Unread(Loop(u))}
<1>1. <<>> \in T
  <2>1. Loop(<<>>) = Start /\ <<>> \in Text
    BY StartState, RunEmpty, LoopIsRun DEF Text
  <2>2. Unread(Start)
    BY DEF Start
  <2>. QED  BY <2>1, <2>2
<1>2. ASSUME NEW u \in Text, NEW c \in Byte, u \in T PROVE Append(u, c) \in T
  <2>1. Append(u, c) \in Text /\ Loop(Append(u, c)) = Step(Loop(u), c) /\ Loop(u) \in States
    BY LoopAppend, LoopState, AppendProperties DEF Text
  <2>2. ASSUME Blank(Append(u, c)) PROVE Blank(u) /\ c # Eq
    <3>1. /\ Len(u) \in Nat /\ Len(Append(u, c)) = Len(u) + 1 /\ Append(u, c)[Len(u) + 1] = c
          /\ \A i \in 1 .. Len(u) : Append(u, c)[i] = u[i]
      BY AppendProperties, LenProperties DEF Text
    <3>2. c \in WhiteSpace
      BY <2>2, <3>1
    <3>3. Blank(u)
      BY <2>2, <3>1
    <3>. QED  BY <3>2, <3>3 DEF WhiteSpace, Space, Eq
  <2>3. ASSUME Blank(Append(u, c)) PROVE Unread(Step(Loop(u), c))
    <3>1. Unread(Loop(u)) /\ c # Eq
      BY <1>2, <2>2, <2>3
    <3>. QED  BY <2>1, <3>1 DEF Step, ReadType, States, ParserStates
  <2>. HIDE DEF Blank, Unread
  <2>. QED  BY <2>1, <2>3
<1>3. \A u \in Text : u \in T
  <2>. HIDE DEF T
  <2>. QED  BY <1>1, <1>2, SeqSetInduction DEF Text
<1>4. Blank(t)
  BY Trimming, LenProperties DEF Text
<1>. QED  BY <1>3, <1>4

LEMMA ParsedDN == ASSUME NEW t \in Text PROVE ParseDN(t) \in Seq(RDNs)
<1>1. Loop(t) \in States
  BY LoopState
<1>2. AtEnd(Loop(t)) \in States
  BY <1>1, FailState, EndRDNState DEF AtEnd
<1>3. Result(t, Loop(t)) \in States
  BY <1>2, StartState DEF Result
<1>. QED  BY <1>3 DEF ParseDN, States, ParserStates

LEMMA NameReadBack ==
    ASSUME NEW a \in Attrs, NEW c \in Text, Accepts(c), ParseDN(c) # <<>>
    PROVE  /\ Accepts((AttrText(a) \o <<Comma>>) \o c)
           /\ ParseDN((AttrText(a) \o <<Comma>>) \o c) = <<<<a>>>> \o ParseDN(c)
<1>. DEFINE t == (AttrText(a) \o <<Comma>>) \o c
            R == <<<<a>>>>
            q == Loop(c)
<1>1. t \in Text /\ Loop(t) = Behind(R, q) /\ R \in Seq(RDNs) /\ q \in States
  BY NameBeforeContainer, LoopState
<1>2. TrimSpace(c) # <<>>
  BY DEF ParseDN, Result, Start
<1>3. ~q.failed /\ ~q.escaping /\ q.hexBuf = <<>> /\ ~endRDN(q).failed /\ ParseDN(c) = endRDN(q).rdns
  BY <1>2, AcceptedText
<1>4. TrimSpace(t) # <<>>
  <2>. HIDE DEF t, q
  <2>1. Behind(R, q).rdns = R \o q.rdns /\ q.rdns \in Seq(RDNs)
    BY <1>1 DEF Behind, States, ParserStates
  <2>2. R # <<>>
    OBVIOUS
  <2>. HIDE DEF R
  <2>3. R \o q.rdns # <<>>
    BY <1>1, <2>1, <2>2, ConcatEqualIffEmpty
  <2>. QED  BY <1>1, <2>1, <2>3, BlankLoop
<1>. HIDE DEF t, R, q
<1>5. endRDN(Loop(t)) = Behind(R, endRDN(q))
  BY <1>1, BehindEndRDN
<1>6. /\ ~Behind(R, q).failed /\ ~Behind(R, q).escaping /\ Behind(R, q).hexBuf = <<>>
  BY <1>1, <1>3 DEF Behind, States, ParserStates
<1>7. AtEnd(Loop(t)) = Behind(R, endRDN(q))
  BY <1>1, <1>5, <1>6 DEF AtEnd
<1>8. Behind(R, endRDN(q)).failed = endRDN(q).failed /\ Behind(R, endRDN(q)).rdns = R \o endRDN(q).rdns
  BY <1>1, EndRDNState DEF Behind, States, ParserStates
<1>9. Accepts(t) /\ ParseDN(t) = R \o ParseDN(c)
  BY <1>1, <1>3, <1>4, <1>7, <1>8, AcceptedText
<1>. QED  BY <1>9 DEF t, R
-----------------------------------------------------------------------------
(* Join concatenates from the left too, with a separator between. *)
IsJoining(f, parts, sep) ==
    /\ f \in [0 .. Len(parts) -> Text] /\ f[0] = <<>>
    /\ Len(parts) >= 1 => f[1] = parts[1]
    /\ \A i \in 1 .. Len(parts) : i # 1 => f[i] = (f[i - 1] \o <<sep>>) \o parts[i]
    /\ Join(parts, sep) = f[Len(parts)]

LEMMA Joining ==
    ASSUME NEW parts \in Seq(Text), NEW sep \in Byte
    PROVE  \E f : IsJoining(f, parts, sep)
<1>. DEFINE n == Len(parts)
            ps == [i \in DOMAIN parts |-> IF i = 1 THEN parts[i] ELSE <<sep>> \o parts[i]]
<1>1. n \in Nat /\ DOMAIN parts = 1 .. n /\ <<sep>> \in Text /\ \A i \in 1 .. n : parts[i] \in Text
  <2>1. <<sep>> \in Text
    BY DEF Text
  <2>. QED  BY <2>1, LenProperties, ElementOfSeq
<1>2. ps \in Seq(Text) /\ Len(ps) = n
  <2>1. \A i \in 1 .. n : <<sep>> \o parts[i] \in Text
    BY <1>1, ConcatProperties DEF Text
  <2>2. ps \in [1 .. n -> Text]
    BY <1>1, <2>1
  <2>. HIDE DEF ps, n
  <2>. QED  BY <1>1, <2>2
<1>3. \A i \in 1 .. n : ps[i] = IF i = 1 THEN parts[i] ELSE <<sep>> \o parts[i]
  BY <1>1
<1>4. Join(parts, sep) = FlattenSeq(ps)
  BY DEF Join
<1>. HIDE DEF ps
<1>5. PICK f : IsFlattening(f, ps, Byte)
  BY <1>2, Flattening DEF Text
<1>6. f \in [0 .. n -> Text] /\ f[0] = <<>> /\ Join(parts, sep) = f[n]
  BY <1>2, <1>4, <1>5 DEF IsFlattening, Text
<1>7. \A i \in 1 .. n : f[i] = f[i - 1] \o ps[i]
  BY <1>2, <1>5 DEF IsFlattening
<1>. HIDE DEF n
<1>8. n >= 1 => f[1] = parts[1]
  <2>. SUFFICES ASSUME n >= 1 PROVE f[1] = parts[1]
    OBVIOUS
  <2>1. 1 \in 1 .. n /\ 1 - 1 = 0
    BY <1>1
  <2>2. f[1] = f[0] \o ps[1]
    BY <1>7, <2>1
  <2>3. ps[1] = parts[1]
    BY <1>3, <2>1
  <2>4. <<>> \o parts[1] = parts[1]
    BY <1>1, <2>1, ConcatEmptySeq DEF Text
  <2>. QED  BY <1>6, <2>2, <2>3, <2>4
<1>9. ASSUME NEW i \in 1 .. n, i # 1 PROVE f[i] = (f[i - 1] \o <<sep>>) \o parts[i]
  <2>1. f[i] = f[i - 1] \o (<<sep>> \o parts[i])
    BY <1>3, <1>7, <1>9
  <2>2. i - 1 \in 0 .. n
    BY <1>1
  <2>3. f[i - 1] \in Text /\ parts[i] \in Text
    BY <1>1, <1>6, <2>2
  <2>4. (f[i - 1] \o <<sep>>) \o parts[i] = f[i - 1] \o (<<sep>> \o parts[i])
    <3>. DEFINE x == f[i - 1]
                y == <<sep>>
                z == parts[i]
    <3>1. x \in Seq(Byte) /\ y \in Seq(Byte) /\ z \in Seq(Byte)
      BY <1>1, <2>3 DEF Text
    <3>. HIDE DEF x, y, z
    <3>2. (x \o y) \o z = x \o (y \o z)
      BY <3>1, ConcatAssociative
    <3>. QED  BY <3>2 DEF x, y, z
  <2>. QED  BY <2>1, <2>4
<1>. QED  BY <1>6, <1>8, <1>9 DEF IsJoining, n

(* An RDN is written as its attributes, a DN as its RDNs. *)
AttrTexts(r) == [i \in DOMAIN r |-> AttrText(r[i])]
RDNTexts(dn) == [i \in DOMAIN dn |-> RenderRDN(dn[i])]

LEMMA AttrTextsType ==
    ASSUME NEW r \in Seq(Attrs)
    PROVE  /\ AttrTexts(r) \in Seq(Text) /\ Len(AttrTexts(r)) = Len(r)
           /\ \A i \in 1 .. Len(r) : AttrTexts(r)[i] = AttrText(r[i])
           /\ RenderRDN(r) = Join(AttrTexts(r), Plus)
<1>. DEFINE n == Len(r)
<1>1. n \in Nat /\ DOMAIN r = 1 .. n /\ \A i \in 1 .. n : AttrText(r[i]) \in Text
  <2>1. \A a \in Attrs : AttrText(a) \in Text
    BY StartState, ReadsAttr DEF Fresh, Start
  <2>. QED  BY <2>1, LenProperties, ElementOfSeq
<1>2. AttrTexts(r) \in [1 .. n -> Text] /\ \A i \in 1 .. n : AttrTexts(r)[i] = AttrText(r[i])
  BY <1>1 DEF AttrTexts
<1>3. AttrTexts(r) \in Seq(Text) /\ Len(AttrTexts(r)) = n
  <2>. HIDE DEF n
  <2>. QED  BY <1>1, <1>2
<1>4. RenderRDN(r) = Join(AttrTexts(r), Plus)
  BY DEF RenderRDN, AttrTexts, AttrText
<1>. QED  BY <1>2, <1>3, <1>4

LEMMA RenderText ==
    /\ \A r \in Seq(Attrs) : RenderRDN(r) \in Text
    /\ \A a \in Attrs : RenderRDN(<<a>>) = AttrText(a)
<1>1. Plus \in Byte
  BY DEF Plus, Byte
<1>2. ASSUME NEW r \in Seq(Attrs)
      PROVE  RenderRDN(r) \in Text /\ (Len(r) = 1 => RenderRDN(r) = AttrText(r[1]))
  <2>1. PICK f : IsJoining(f, AttrTexts(r), Plus)
    BY <1>1, AttrTextsType, Joining
  <2>2. /\ f \in [0 .. Len(r) -> Text] /\ RenderRDN(r) = f[Len(r)]
        /\ Len(r) >= 1 => f[1] = AttrTexts(r)[1]
    BY <2>1, AttrTextsType DEF IsJoining
  <2>3. Len(r) \in Nat /\ Len(r) \in 0 .. Len(r)
    BY LenProperties
  <2>. QED  BY <2>2, <2>3, AttrTextsType
<1>3. ASSUME NEW a \in Attrs PROVE RenderRDN(<<a>>) = AttrText(a)
  <2>1. <<a>> \in Seq(Attrs) /\ Len(<<a>>) = 1 /\ <<a>>[1] = a
    OBVIOUS
  <2>2. RenderRDN(<<a>>) = AttrText(<<a>>[1])
    BY <1>2, <2>1
  <2>. QED  BY <2>1, <2>2
<1>. QED  BY <1>2, <1>3

(* No name, put before any container by the builders, reparents its        *)
(* object: ParseDN, SplitDN and ContainerOf read that name in that         *)
(* container (dn.go:183-187, 304-307).                                     *)
THEOREM NoNameReparents ==
    \A name \in Text, c \in Text :
        Accepts(c) /\ ParseDN(c) # <<>> => ReadBack(name, c, ParseDN(c))
<1>. SUFFICES ASSUME NEW name \in Text, NEW c \in Text, Accepts(c), ParseDN(c) # <<>>
              PROVE  ReadBack(name, c, ParseDN(c))
  OBVIOUS
<1>. DEFINE a == [type |-> <<97>>, value |-> name]
            rdn == <<97, Eq>> \o EscapeValue(name)
            t == (rdn \o <<Comma>>) \o c
            dn == ParseDN(c)
<1>1. a \in Attrs
  <2>1. 97 \in Byte \ {Eq} /\ 97 \notin WhiteSpace
    BY DEF Byte, Eq, WhiteSpace, Space
  <2>2. <<97>> \in TypeText /\ <<97>> # <<>> /\ Len(<<97>>) = 1 /\ <<97>>[1] = 97
    BY <2>1 DEF TypeText
  <2>. QED  BY <2>1, <2>2 DEF Attrs, Types, Trimmed
<1>2. AttrText(a) = rdn
  <2>. DEFINE u == <<97>> \o <<Eq>>
  <2>1. /\ <<97>> \in Seq(Nat) /\ Len(<<97>>) = 1 /\ <<97>>[1] = 97
        /\ <<Eq>> \in Seq(Nat) /\ Len(<<Eq>>) = 1 /\ <<Eq>>[1] = Eq
    BY DEF Eq
  <2>2. u \in Seq(Nat) /\ Len(u) = 2 /\ u[1] = 97 /\ u[2] = Eq
    BY <2>1, ConcatProperties
  <2>. HIDE DEF u
  <2>3. u = <<97, Eq>>
    BY <2>2
  <2>. QED  BY <2>3 DEF AttrText, u
<1>3. Accepts(t) /\ ParseDN(t) = <<<<a>>>> \o dn
  BY <1>1, <1>2, NameReadBack
<1>4. dn \in Seq(RDNs) /\ <<a>> \in RDNs /\ <<<<a>>>> \in Seq(RDNs)
  BY <1>1, ParsedDN, NameBeforeContainer DEF RDNs
<1>. DEFINE R == <<a>>
            all == <<R>> \o dn
<1>. HIDE DEF a, dn, t, rdn, R
<1>5. /\ all \in Seq(RDNs) /\ Len(all) = Len(dn) + 1 /\ Len(dn) \in Nat /\ all[1] = R
      /\ \A i \in 1 .. Len(dn) : all[i + 1] = dn[i]
  <2>1. <<R>> \in Seq(RDNs) /\ Len(<<R>>) = 1 /\ <<R>>[1] = R /\ Len(dn) \in Nat
    BY <1>4, LenProperties DEF R
  <2>. QED  BY <1>4, <2>1, ConcatProperties
<1>. HIDE DEF all
<1>6. SplitDN(t)[1] = rdn
  <2>1. SplitDN(t) = [i \in DOMAIN all |-> RenderRDN(all[i])]
    BY <1>3 DEF SplitDN, R, all
  <2>2. 1 \in DOMAIN all
    BY <1>5, LenProperties
  <2>. QED  BY <1>1, <1>2, <1>5, <2>1, <2>2, RenderText DEF R
<1>7. Tail(all) = dn
  <2>1. all # <<>>
    BY <1>5, EmptySeq
  <2>2. Tail(all) \in Seq(RDNs) /\ Len(Tail(all)) = Len(dn) /\ \A i \in 1 .. Len(dn) : Tail(all)[i] = dn[i]
    BY <1>5, <2>1, HeadTailProperties
  <2>. QED  BY <1>4, <2>2, SeqEqual
<1>8. ContainerOf(t) = Render(dn)
  BY <1>3, <1>7 DEF ContainerOf, R, all
<1>9. ParseDN(t) = <<<<[type |-> <<97>>, value |-> name]>>>> \o dn
  BY <1>3 DEF a
<1>. QED  BY <1>3, <1>6, <1>8, <1>9 DEF ReadBack, dn, t, rdn

(* The same of the names and texts that are model-checked. *)
THEOREM NamesStayPut == Spec => []NamesNeverReparent
<1>1. IInv => NamesNeverReparent
  <2>. SUFFICES ASSUME IInv PROVE NamesNeverReparent
    OBVIOUS
  <2>1. text \in Text /\ Accepted = Accepts(text) /\ Parsed = ParseDN(text)
    BY BytesAreText DEF IInv, Accepted, Accepts, Parsed, ParseDN
  <2>2. Names \subseteq Text /\ Samples \subseteq Text
    BY TextConstants DEF Text, Byte
  <2>3. \A c \in Samples : Accepts(c) /\ ParseDN(c) # <<>>
    BY SamplesAreDNs
  <2>. QED  BY <2>1, <2>2, <2>3, NoNameReparents DEF NamesNeverReparent
<1>. QED  BY <1>1, Invariance, PTL
-----------------------------------------------------------------------------
(* x is the parser that has read the RDNs R, and all of r but its end.     *)
AtEndOf(x, R, r) ==
    \E s \in States, a \in Attrs :
        Fresh(s) /\ s.rdns = R /\ Append(s.rdn, a) = r /\ x = Pending(s, a)

(* An RDN, rendered, is read as that RDN. *)
LEMMA ReadsRDN ==
    ASSUME NEW q, Fresh(q), q.rdn = <<>>, NEW r \in RDNs
    PROVE  AtEndOf(Run(q, RenderRDN(r)), q.rdns, r)
<1>. DEFINE n == Len(r)
<1>1. r \in Seq(Attrs) /\ n \in Nat /\ n # 0 /\ q \in States /\ Plus \in Byte /\ <<Plus>> \in Text
  BY LenProperties, EmptySeq DEF RDNs, Fresh, Plus, Byte, Text
<1>2. PICK f : IsJoining(f, AttrTexts(r), Plus)
  BY <1>1, AttrTextsType, Joining
<1>3. f \in [0 .. n -> Text] /\ f[1] = AttrText(r[1]) /\ RenderRDN(r) = f[n]
  <2>1. Len(AttrTexts(r)) = n /\ RenderRDN(r) = Join(AttrTexts(r), Plus) /\ n >= 1 /\ 1 \in 1 .. n
    BY <1>1, AttrTextsType
  <2>2. AttrTexts(r)[1] = AttrText(r[1])
    BY <1>1, <2>1, AttrTextsType
  <2>. QED  BY <1>2, <2>1, <2>2 DEF IsJoining
<1>4. \A i \in 1 .. n : i # 1 => f[i] = (f[i - 1] \o <<Plus>>) \o AttrText(r[i])
  BY <1>1, <1>2, AttrTextsType DEF IsJoining
<1>5. \A i \in 1 .. n : r[i] \in Attrs
  BY <1>1, ElementOfSeq
<1>. HIDE DEF n
<1>. DEFINE So(k) == \E s \in States : /\ Fresh(s) /\ s.rdns = q.rdns /\ s.rdn = SubSeq(r, 1, k)
                                       /\ Run(q, f[k + 1]) = Pending(s, r[k + 1])
            T == {k \in Nat : k + 1 <= n => So(k)}
<1>6. 0 \in T
  <2>1. SubSeq(r, 1, 0) = <<>> /\ 0 + 1 = 1 /\ 1 \in 1 .. n
    BY <1>1, SubSeqEmpty
  <2>2. Run(q, AttrText(r[1])) = Pending(q, r[1])
    BY <1>5, <2>1, ReadsAttr
  <2>3. So(0)
    BY <1>1, <1>3, <2>1, <2>2
  <2>. HIDE DEF So
  <2>. QED  BY <2>3
<1>7. ASSUME NEW k \in T PROVE k + 1 \in T
  <2>. SUFFICES ASSUME (k + 1) + 1 <= n PROVE So(k + 1)
    OBVIOUS
  <2>. DEFINE i == k + 1
  <2>1. k \in Nat /\ i \in Nat /\ i \in 1 .. n /\ i + 1 \in 1 .. n /\ i + 1 # 1 /\ (i + 1) - 1 = i /\ i \in 0 .. n
    BY <1>1
  <2>2. PICK s \in States : /\ Fresh(s) /\ s.rdns = q.rdns /\ s.rdn = SubSeq(r, 1, k)
                            /\ Run(q, f[i]) = Pending(s, r[i])
    BY <2>1
  <2>3. r[i] \in Attrs /\ r[i + 1] \in Attrs /\ f[i] \in Text
    BY <1>3, <1>5, <2>1
  <2>4. f[i + 1] = (f[i] \o <<Plus>>) \o AttrText(r[i + 1])
    BY <1>4, <2>1
  <2>. DEFINE u == AfterPlus(s, r[i])
              x == f[i] \o <<Plus>>
  <2>5. Step(Pending(s, r[i]), Plus) = u /\ Fresh(u)
    BY <2>2, <2>3, ReadsPlus
  <2>6. Run(q, x) = u /\ x \in Text
    <3>1. x \in Text /\ Run(q, x) = Run(Pending(s, r[i]), <<Plus>>)
      BY <1>1, <2>2, <2>3, RunConcat
    <3>2. Pending(s, r[i]) \in States
      BY <2>2, <2>3, PendingState DEF Reading
    <3>. QED  BY <1>1, <2>5, <3>1, <3>2, RunBytes
  <2>7. Run(q, f[i + 1]) = Pending(u, r[i + 1])
    <3>1. AttrText(r[i + 1]) \in Text /\ Run(u, AttrText(r[i + 1])) = Pending(u, r[i + 1])
      BY <2>3, <2>5, ReadsAttr
    <3>2. Run(q, x \o AttrText(r[i + 1])) = Run(Run(q, x), AttrText(r[i + 1]))
      BY <1>1, <2>6, <3>1, RunConcat
    <3>. QED  BY <2>4, <2>6, <3>1, <3>2
  <2>8. u.rdns = q.rdns /\ u.rdn = SubSeq(r, 1, i)
    <3>1. PrefixGrows(r, k)
      BY <1>1, <2>1, GrowingPrefix DEF n
    <3>2. u.rdns = s.rdns /\ u.rdn = Append(s.rdn, r[i])
      BY <2>2 DEF AfterPlus, States, ParserStates
    <3>. QED  BY <2>2, <3>1, <3>2 DEF PrefixGrows
  <2>9. u \in States
    BY <2>5 DEF Fresh
  <2>. HIDE DEF u, i
  <2>10. So(i)
    BY <2>5, <2>7, <2>8, <2>9
  <2>. QED  BY <2>10 DEF i
<1>8. T = Nat
  <2>1. T \in SUBSET Nat
    OBVIOUS
  <2>. HIDE DEF T
  <2>. QED  BY <1>6, <1>7, <2>1, NatSetInduction
<1>9. PICK s \in States : /\ Fresh(s) /\ s.rdns = q.rdns /\ s.rdn = SubSeq(r, 1, n - 1)
                          /\ Run(q, f[n]) = Pending(s, r[n])
  <2>1. n - 1 \in Nat /\ (n - 1) + 1 = n /\ (n - 1) + 1 <= n
    BY <1>1
  <2>2. So(n - 1)
    BY <1>8, <2>1
  <2>. QED  BY <2>1, <2>2
<1>10. Append(s.rdn, r[n]) = r
  <2>1. n - 1 \in Nat /\ (n - 1) + 1 = n /\ (n - 1) + 1 <= Len(r)
    BY <1>1 DEF n
  <2>2. PrefixGrows(r, n - 1)
    BY <1>1, <2>1, GrowingPrefix
  <2>3. SubSeq(r, 1, n) = r
    BY <1>1, SubSeqFull DEF n
  <2>. QED  BY <1>9, <2>1, <2>2, <2>3 DEF PrefixGrows
<1>11. n \in 1 .. n
  BY <1>1
<1>. QED  BY <1>3, <1>5, <1>9, <1>10, <1>11 DEF AtEndOf
(* After a comma another RDN is read, behind those before it.              *)
LEMMA CommaEndsRDN ==
    ASSUME NEW x, NEW R \in Seq(RDNs), NEW r \in RDNs, AtEndOf(x, R, r)
    PROVE  /\ Fresh(Step(x, Comma)) /\ Step(x, Comma).rdn = <<>>
           /\ Step(x, Comma).rdns = Append(R, r)
<1>1. PICK s \in States, a \in Attrs : Fresh(s) /\ s.rdns = R /\ Append(s.rdn, a) = r /\ x = Pending(s, a)
  BY DEF AtEndOf
<1>2. Step(x, Comma) = AfterRDN(s, r, FALSE)
  BY <1>1, ReadsComma
<1>. DEFINE u == AfterRDN(s, r, FALSE)
<1>3. u \in States
  <2>1. Pending(s, a) \in States /\ Comma \in Byte
    BY <1>1, PendingState DEF Reading, Comma, Byte
  <2>. QED  BY <1>1, <1>2, <2>1, StepState
<1>4. /\ u.failed = s.failed /\ u.hasEq = s.hasEq /\ u.escaping = s.escaping /\ u.typeBuf = s.typeBuf
      /\ u.valBuf = s.valBuf /\ u.trailWS = s.trailWS /\ u.rdn = <<>> /\ u.rdns = Append(s.rdns, r)
  BY <1>1 DEF AfterRDN, States, ParserStates
<1>. HIDE DEF u
<1>. QED  BY <1>1, <1>2, <1>3, <1>4 DEF Fresh, u

(* At the end of the text the last RDN is ended, and the parser accepts.   *)
LEMMA EndEndsRDN ==
    ASSUME NEW x, NEW R \in Seq(RDNs), NEW r \in RDNs, AtEndOf(x, R, r)
    PROVE  x.hasEq /\ ~AtEnd(x).failed /\ AtEnd(x).rdns = Append(R, r)
<1>1. PICK s \in States, a \in Attrs : Fresh(s) /\ s.rdns = R /\ Append(s.rdn, a) = r /\ x = Pending(s, a)
  BY DEF AtEndOf
<1>2. Reading(x)
  BY <1>1, PendingState
<1>3. AtEnd(x) = endRDN(x)
  BY <1>2 DEF AtEnd, Reading, States
<1>4. endRDN(x) = AfterRDN(s, r, a.value = <<>>) /\ ~endRDN(x).failed
  BY <1>1, EndsRDN
<1>5. AfterRDN(s, r, a.value = <<>>).rdns = Append(R, r)
  BY <1>1 DEF AfterRDN, States, ParserStates
<1>. QED  BY <1>2, <1>3, <1>4, <1>5 DEF Reading

LEMMA RDNTextsType ==
    ASSUME NEW dn \in Seq(RDNs)
    PROVE  /\ RDNTexts(dn) \in Seq(Text) /\ Len(RDNTexts(dn)) = Len(dn)
           /\ \A i \in 1 .. Len(dn) : RDNTexts(dn)[i] = RenderRDN(dn[i]) /\ RenderRDN(dn[i]) \in Text
           /\ Render(dn) = Join(RDNTexts(dn), Comma)
<1>. DEFINE n == Len(dn)
<1>1. n \in Nat /\ DOMAIN dn = 1 .. n /\ \A i \in 1 .. n : RenderRDN(dn[i]) \in Text
  BY LenProperties, ElementOfSeq, RenderText DEF RDNs
<1>2. RDNTexts(dn) \in [1 .. n -> Text] /\ \A i \in 1 .. n : RDNTexts(dn)[i] = RenderRDN(dn[i])
  BY <1>1 DEF RDNTexts
<1>3. RDNTexts(dn) \in Seq(Text) /\ Len(RDNTexts(dn)) = n
  <2>. HIDE DEF n
  <2>. QED  BY <1>1, <1>2
<1>4. Render(dn) = Join(RDNTexts(dn), Comma)
  BY DEF Render, RDNTexts
<1>. QED  BY <1>1, <1>2, <1>3, <1>4

(* A DN, rendered, is read up to its end. *)
LEMMA ReadsDN ==
    ASSUME NEW dn \in Seq(RDNs), dn # <<>>
    PROVE  /\ Render(dn) \in Text
           /\ AtEndOf(Run(Start, Render(dn)), SubSeq(dn, 1, Len(dn) - 1), dn[Len(dn)])
<1>. DEFINE n == Len(dn)
<1>1. n \in Nat /\ n # 0 /\ Start \in States /\ Comma \in Byte /\ <<Comma>> \in Text
  BY LenProperties, EmptySeq, StartState DEF Comma, Byte, Text
<1>2. PICK f : IsJoining(f, RDNTexts(dn), Comma)
  BY <1>1, RDNTextsType, Joining
<1>3. f \in [0 .. n -> Text] /\ f[1] = RenderRDN(dn[1]) /\ Render(dn) = f[n]
  <2>1. Len(RDNTexts(dn)) = n /\ Render(dn) = Join(RDNTexts(dn), Comma) /\ n >= 1 /\ 1 \in 1 .. n
    BY <1>1, RDNTextsType
  <2>2. RDNTexts(dn)[1] = RenderRDN(dn[1])
    BY <1>1, <2>1, RDNTextsType
  <2>. QED  BY <1>2, <2>1, <2>2 DEF IsJoining
<1>4. \A i \in 1 .. n : i # 1 => f[i] = (f[i - 1] \o <<Comma>>) \o RenderRDN(dn[i])
  BY <1>1, <1>2, RDNTextsType DEF IsJoining
<1>5. \A i \in 1 .. n : dn[i] \in RDNs /\ RenderRDN(dn[i]) \in Text
  BY <1>1, ElementOfSeq, RDNTextsType
<1>. HIDE DEF n
<1>. DEFINE So(k) == AtEndOf(Run(Start, f[k + 1]), SubSeq(dn, 1, k), dn[k + 1])
            T == {k \in Nat : k + 1 <= n => So(k)}
<1>6. 0 \in T
  <2>1. SubSeq(dn, 1, 0) = <<>> /\ 0 + 1 = 1 /\ 1 \in 1 .. n
    BY <1>1, SubSeqEmpty
  <2>2. Fresh(Start) /\ Start.rdn = <<>> /\ Start.rdns = <<>>
    BY <1>1 DEF Fresh, Start
  <2>3. AtEndOf(Run(Start, RenderRDN(dn[1])), Start.rdns, dn[1])
    BY <1>5, <2>1, <2>2, ReadsRDN
  <2>4. So(0)
    BY <1>3, <2>1, <2>2, <2>3
  <2>. HIDE DEF So
  <2>. QED  BY <2>4
<1>7. ASSUME NEW k \in T PROVE k + 1 \in T
  <2>. SUFFICES ASSUME (k + 1) + 1 <= n PROVE So(k + 1)
    OBVIOUS
  <2>. DEFINE i == k + 1
              x == f[i] \o <<Comma>>
              R == SubSeq(dn, 1, k)
              y == Run(Start, f[i])
              u == Step(y, Comma)
  <2>1. k \in Nat /\ i \in Nat /\ i \in 1 .. n /\ i + 1 \in 1 .. n /\ i + 1 # 1 /\ (i + 1) - 1 = i /\ i \in 0 .. n
    BY <1>1
  <2>2. AtEndOf(y, R, dn[i])
    BY <2>1
  <2>3. dn[i] \in RDNs /\ dn[i + 1] \in RDNs /\ RenderRDN(dn[i + 1]) \in Text /\ f[i] \in Text
    BY <1>3, <1>5, <2>1
  <2>4. f[i + 1] = x \o RenderRDN(dn[i + 1])
    BY <1>4, <2>1
  <2>5. R \in Seq(RDNs) /\ Append(R, dn[i]) = SubSeq(dn, 1, i)
    BY <1>1, <2>1, GrowingPrefix DEF n, PrefixGrows
  <2>6. x \in Text /\ Run(Start, x) = u
    <3>1. x \in Text /\ Run(Start, x) = Run(y, <<Comma>>)
      BY <1>1, <2>3, RunConcat
    <3>2. y \in States
      BY <1>1, <2>3, RunState
    <3>. QED  BY <1>1, <3>1, <3>2, RunBytes
  <2>. HIDE DEF x, R, y, u, i
  <2>7. Fresh(u) /\ u.rdn = <<>> /\ u.rdns = Append(R, dn[i])
    BY <2>2, <2>3, <2>5, CommaEndsRDN DEF u
  <2>8. Run(Start, f[i + 1]) = Run(u, RenderRDN(dn[i + 1]))
    BY <1>1, <2>3, <2>4, <2>6, RunConcat
  <2>9. AtEndOf(Run(u, RenderRDN(dn[i + 1])), u.rdns, dn[i + 1])
    BY <2>3, <2>7, ReadsRDN
  <2>10. So(i)
    BY <2>5, <2>7, <2>8, <2>9
  <2>. QED  BY <2>10 DEF i
<1>8. T = Nat
  <2>1. T \in SUBSET Nat
    OBVIOUS
  <2>. HIDE DEF T
  <2>. QED  BY <1>6, <1>7, <2>1, NatSetInduction
<1>9. AtEndOf(Run(Start, f[n]), SubSeq(dn, 1, n - 1), dn[n])
  <2>1. n - 1 \in Nat /\ (n - 1) + 1 = n /\ (n - 1) + 1 <= n
    BY <1>1
  <2>2. So(n - 1)
    BY <1>8, <2>1
  <2>. QED  BY <2>1, <2>2
<1>10. n \in 0 .. n
  BY <1>1
<1>. QED  BY <1>3, <1>9, <1>10 DEF n

(* Whatever DN of types without "=" and of any values is rendered, parsing *)
(* it gives that DN (dn.go:166-212).                                       *)
THEOREM RenderedReadsBack ==
    \A dn \in Seq(RDNs) : Accepts(Render(dn)) /\ ParseDN(Render(dn)) = dn
<1>. SUFFICES ASSUME NEW dn \in Seq(RDNs) PROVE Accepts(Render(dn)) /\ ParseDN(Render(dn)) = dn
  OBVIOUS
<1>. DEFINE n == Len(dn)
            t == Render(dn)
            q == Loop(t)
<1>1. CASE dn = <<>>
  <2>1. t = <<>>
    <3>1. Comma \in Byte /\ Len(dn) = 0
      BY <1>1 DEF Comma, Byte
    <3>2. PICK f : IsJoining(f, RDNTexts(dn), Comma)
      BY <3>1, RDNTextsType, Joining
    <3>3. Len(RDNTexts(dn)) = 0 /\ Render(dn) = Join(RDNTexts(dn), Comma)
      BY <3>1, RDNTextsType
    <3>. QED  BY <3>2, <3>3 DEF IsJoining
  <2>2. TrimSpace(<<>>) = <<>>
    <3>1. <<>> \in Seq(Byte) /\ DOMAIN <<>> = {}
      OBVIOUS
    <3>2. \A i \in DOMAIN <<>> : <<>>[i] \in WhiteSpace
      BY <3>1
    <3>. QED  BY <3>1, <3>2, Trimming
  <2>. QED  BY <1>1, <2>1, <2>2 DEF Accepts, ParseDN, Result, Start
<1>2. CASE dn # <<>>
  <2>1. n \in Nat /\ n # 0
    BY <1>2, LenProperties, EmptySeq
  <2>2. t \in Text /\ AtEndOf(q, SubSeq(dn, 1, n - 1), dn[n])
    BY <1>2, ReadsDN, LoopIsRun
  <2>3. SubSeq(dn, 1, n - 1) \in Seq(RDNs) /\ dn[n] \in RDNs /\ Append(SubSeq(dn, 1, n - 1), dn[n]) = dn
    <3>1. n - 1 \in Nat /\ (n - 1) + 1 = n /\ (n - 1) + 1 <= n
      BY <2>1
    <3>2. SubSeq(dn, 1, n) = dn
      BY SubSeqFull
    <3>3. n \in 1 .. n
      BY <2>1
    <3>4. PrefixGrows(dn, n - 1) /\ SubSeq(dn, 1, n - 1) \in Seq(RDNs)
      BY <3>1, GrowingPrefix
    <3>. QED  BY <3>1, <3>2, <3>3, <3>4, ElementOfSeq DEF PrefixGrows
  <2>. HIDE DEF n, t, q
  <2>4. q.hasEq /\ ~AtEnd(q).failed /\ AtEnd(q).rdns = dn
    BY <2>2, <2>3, EndEndsRDN
  <2>5. TrimSpace(t) # <<>>
    BY <2>2, <2>4, BlankLoop DEF q
  <2>. QED  BY <2>2, <2>4, <2>5, AcceptedText DEF t, q
<1>. QED  BY <1>1, <1>2

(* What a text denotes survives being rendered and parsed again, whatever  *)
(* the text: no value, space or escape that the parser lets in is lost.    *)
THEOREM TextsRoundTrip == Spec => []RoundTrip
<1>1. IInv => RoundTrip
  <2>. SUFFICES ASSUME IInv PROVE RoundTrip
    OBVIOUS
  <2>1. text \in Text /\ Parsed = ParseDN(text)
    BY BytesAreText DEF IInv, Parsed, ParseDN
  <2>. QED  BY <2>1, ParsedDN, RenderedReadsBack DEF RoundTrip
<1>. QED  BY <1>1, Invariance, PTL
-----------------------------------------------------------------------------
(* equalFold: u[i] are the partners taken by the first i attributes of r,  *)
(* with 0 for one that found none.                                         *)
Choice(a, s, used) == LET left == Partners(a, s, used) IN IF left = {} THEN {0} ELSE {Min(left)}

IsGreedy(u, r, s) ==
    /\ u \in [0 .. Len(r) -> SUBSET (0 .. Len(s))] /\ u[0] = {}
    /\ \A i \in 1 .. Len(r) : u[i] = u[i - 1] \cup Choice(r[i], s, u[i - 1])
    /\ rdnEqualFold(r, s) <=> Len(r) = Len(s) /\ 0 \notin u[Len(r)]

LEMMA ChoiceMade ==
    ASSUME NEW s \in Seq(Attrs), NEW a, NEW used, Partners(a, s, used) # {}
    PROVE  /\ Min(Partners(a, s, used)) \in Partners(a, s, used)
           /\ Choice(a, s, used) = {Min(Partners(a, s, used))}
<1>1. Len(s) \in Nat /\ Partners(a, s, used) \in SUBSET (1 .. Len(s))
  BY LenProperties DEF Partners
<1>2. Min(Partners(a, s, used)) \in Partners(a, s, used)
  BY <1>1, Extremes
<1>. QED  BY <1>2 DEF Choice

LEMMA ChoiceType ==
    ASSUME NEW s \in Seq(Attrs), NEW a, NEW used
    PROVE  Choice(a, s, used) \subseteq 0 .. Len(s)
<1>1. Len(s) \in Nat /\ Partners(a, s, used) \in SUBSET (1 .. Len(s))
  BY LenProperties DEF Partners
<1>2. CASE Partners(a, s, used) = {}
  BY <1>1, <1>2 DEF Choice
<1>3. CASE Partners(a, s, used) # {}
  BY <1>1, <1>3, ChoiceMade
<1>. QED  BY <1>2, <1>3

LEMMA Greedy ==
    ASSUME NEW r \in Seq(Attrs), NEW s \in Seq(Attrs)
    PROVE  \E u : IsGreedy(u, r, s)
<1>. DEFINE n == Len(r)
            S == SUBSET (0 .. Len(s))
            G == [i \in Nat |-> [used \in S |-> used \cup Choice(r[i], s, used)]]
<1>1. n \in Nat /\ {} \in S
  BY LenProperties
<1>2. G \in [Nat -> [S -> S]]
  BY ChoiceType
<1>3. PICK v : Recursion(v, S, {}, G)
  <2>. HIDE DEF S, G
  <2>. QED  BY <1>1, <1>2, RecursiveFunction
<1>4. v \in [Nat -> S] /\ \A i \in Nat : v[i] = IF i = 0 THEN {} ELSE G[i][v[i - 1]]
  <2>. HIDE DEF S, G
  <2>. QED  BY <1>3 DEF Recursion
<1>5. \A i \in Nat : i # 0 => v[i - 1] \in S /\ v[i] = v[i - 1] \cup Choice(r[i], s, v[i - 1])
  <2>. SUFFICES ASSUME NEW i \in Nat, i # 0
                PROVE  v[i - 1] \in S /\ v[i] = v[i - 1] \cup Choice(r[i], s, v[i - 1])
    OBVIOUS
  <2>1. i - 1 \in Nat
    OBVIOUS
  <2>2. v[i - 1] \in S /\ v[i] = G[i][v[i - 1]]
    <3>. HIDE DEF S, G
    <3>. QED  BY <1>4, <2>1
  <2>3. G[i] = [used \in S |-> used \cup Choice(r[i], s, used)]
    <3>. HIDE DEF S
    <3>. QED  OBVIOUS
  <2>4. G[i][v[i - 1]] = v[i - 1] \cup Choice(r[i], s, v[i - 1])
    <3>. HIDE DEF S, G
    <3>. QED  BY <2>2, <2>3
  <2>. HIDE DEF G, S
  <2>. QED  BY <2>2, <2>4
<1>6. v[0] = {}
  <2>. HIDE DEF G
  <2>. QED  BY <1>4
<1>. DEFINE u == [i \in 0 .. n |-> v[i]]
<1>7. u \in [0 .. n -> S] /\ u[0] = {} /\ u[n] = v[n]
  <2>1. \A i \in 0 .. n : v[i] \in S
    <3>. HIDE DEF G, S
    <3>. QED  BY <1>1, <1>4
  <2>. HIDE DEF S, n
  <2>. QED  BY <1>1, <1>6, <2>1
<1>8. \A i \in 1 .. n : u[i] = u[i - 1] \cup Choice(r[i], s, u[i - 1])
  <2>1. \A i \in 1 .. n : i \in Nat /\ i # 0 /\ i \in 0 .. n /\ i - 1 \in 0 .. n
    BY <1>1
  <2>. HIDE DEF S, n, G
  <2>. QED  BY <1>5, <2>1
<1>9. rdnEqualFold(r, s) <=> Len(r) = Len(s) /\ 0 \notin u[n]
  <2>. DEFINE Rec(h) == h = [i \in 0 .. n |->
                               IF i = 0 THEN {} ELSE h[i - 1] \cup
                                   LET left == Partners(r[i], s, h[i - 1])
                                   IN  IF left = {} THEN {0} ELSE {Min(left)}]
              h == CHOOSE h : Rec(h)
              T == {i \in Nat : i <= n => h[i] = u[i]}
  <2>1. rdnEqualFold(r, s) <=> Len(r) = Len(s) /\ 0 \notin h[n]
    BY DEF rdnEqualFold
  <2>2. Rec(u)
    <3>1. u = [i \in 0 .. n |-> IF i = 0 THEN {} ELSE u[i - 1] \cup Choice(r[i], s, u[i - 1])]
      <4>1. \A i \in 0 .. n : i # 0 => i \in 1 .. n
        BY <1>1
      <4>2. \A i \in 0 .. n : u[i] = IF i = 0 THEN {} ELSE u[i - 1] \cup Choice(r[i], s, u[i - 1])
        <5>. HIDE DEF u, n
        <5>. QED  BY <1>7, <1>8, <4>1
      <4>3. u = [i \in 0 .. n |-> u[i]]
        OBVIOUS
      <4>. HIDE DEF u, n
      <4>. QED  BY <4>2, <4>3
    <3>. HIDE DEF u, n
    <3>. QED  BY <3>1 DEF Choice
  <2>3. Rec(h)
    <3>. HIDE DEF Rec, u
    <3>. QED  BY <2>2
  <2>4. \A i \in 0 .. n : h[i] = IF i = 0 THEN {} ELSE h[i - 1] \cup Choice(r[i], s, h[i - 1])
    <3>. HIDE DEF h, n
    <3>. QED  BY <2>3 DEF Choice
  <2>. HIDE DEF h
  <2>5. 0 \in T
    <3>. HIDE DEF u, n
    <3>1. 0 \in 0 .. n
      BY <1>1
    <3>2. h[0] = {} /\ u[0] = {}
      BY <1>7, <2>4, <3>1
    <3>. QED  BY <3>2
  <2>6. ASSUME NEW i \in T PROVE i + 1 \in T
    <3>. HIDE DEF u, n
    <3>. SUFFICES ASSUME i + 1 <= n PROVE h[i + 1] = u[i + 1]
      OBVIOUS
    <3>1. i + 1 \in 1 .. n /\ i + 1 \in 0 .. n /\ i + 1 # 0 /\ (i + 1) - 1 = i /\ i <= n
      BY <1>1
    <3>2. h[i] = u[i]
      BY <3>1
    <3>3. u[i + 1] = u[i] \cup Choice(r[i + 1], s, u[i])
      BY <1>8, <3>1
    <3>4. h[i + 1] = h[i] \cup Choice(r[i + 1], s, h[i])
      BY <2>4, <3>1
    <3>. QED  BY <3>2, <3>3, <3>4
  <2>7. T = Nat
    <3>1. T \in SUBSET Nat
      OBVIOUS
    <3>. HIDE DEF T
    <3>. QED  BY <2>5, <2>6, <3>1, NatSetInduction
  <2>. HIDE DEF u
  <2>8. h[n] = u[n]
    BY <1>1, <2>7
  <2>. QED  BY <2>1, <2>8
<1>. HIDE DEF u
<1>. QED  BY <1>7, <1>8, <1>9 DEF IsGreedy
(* What the first attributes took stays taken. *)
LEMMA TakenStays ==
    ASSUME NEW r \in Seq(Attrs), NEW s \in Seq(Attrs), NEW u, IsGreedy(u, r, s),
           NEW i \in 0 .. Len(r)
    PROVE  \A j \in 0 .. Len(r) : i <= j => u[i] \subseteq u[j]
<1>. DEFINE n == Len(r)
            T == {j \in Nat : i <= j /\ j <= n => u[i] \subseteq u[j]}
<1>1. n \in Nat
  BY LenProperties
<1>2. \A k \in 1 .. n : u[k - 1] \subseteq u[k]
  BY DEF IsGreedy
<1>. HIDE DEF n
<1>3. 0 \in T
  <2>1. i <= 0 => i = 0
    BY <1>1 DEF n
  <2>. QED  BY <2>1
<1>4. ASSUME NEW j \in T PROVE j + 1 \in T
  <2>. SUFFICES ASSUME i <= j + 1, j + 1 <= n PROVE u[i] \subseteq u[j + 1]
    OBVIOUS
  <2>1. CASE i = j + 1
    BY <2>1
  <2>2. CASE i # j + 1
    <3>1. i <= j /\ j <= n /\ j + 1 \in 1 .. n /\ (j + 1) - 1 = j
      BY <1>1, <2>2 DEF n
    <3>2. u[i] \subseteq u[j] /\ u[j] \subseteq u[j + 1]
      BY <1>2, <3>1
    <3>. QED  BY <3>2
  <2>. QED  BY <2>1, <2>2
<1>5. T = Nat
  <2>1. T \in SUBSET Nat
    OBVIOUS
  <2>. HIDE DEF T
  <2>. QED  BY <1>3, <1>4, <2>1, NatSetInduction
<1>. QED  BY <1>1, <1>5 DEF n

(* f pairs each attribute of r with one of s that equals it, none twice. *)
Pairing(f, r, s) == f \in Bijections(r, s) /\ \A i \in DOMAIN r : attrEqual(r[i], s[f[i]])

(* What is equal makes a pairing. *)
LEMMA EqualHasPairing ==
    ASSUME NEW r \in Seq(Attrs), NEW s \in Seq(Attrs), rdnEqualFold(r, s)
    PROVE  Len(r) = Len(s) /\ \E f : Pairing(f, r, s)
<1>. DEFINE n == Len(r)
<1>1. n \in Nat /\ DOMAIN r = 1 .. n
  BY LenProperties
<1>2. PICK u : IsGreedy(u, r, s)
  BY Greedy
<1>3. Len(s) = n /\ DOMAIN s = 1 .. n /\ 0 \notin u[n]
  BY <1>2, LenProperties DEF IsGreedy
<1>. DEFINE P(i) == Partners(r[i], s, u[i - 1])
            f == [i \in 1 .. n |-> Min(P(i))]
<1>4. ASSUME NEW i \in 1 .. n
      PROVE  /\ f[i] \in 1 .. n /\ attrEqual(r[i], s[f[i]]) /\ f[i] \notin u[i - 1] /\ f[i] \in u[i]
             /\ i \in 0 .. n /\ i - 1 \in 0 .. n
  <2>1. i \in 0 .. n /\ i - 1 \in 0 .. n /\ n \in 0 .. n /\ i <= n
    BY <1>1
  <2>2. u[i] = u[i - 1] \cup Choice(r[i], s, u[i - 1]) /\ u[i] \subseteq u[n]
    BY <1>2, <2>1, TakenStays DEF IsGreedy
  <2>3. P(i) # {}
    BY <1>3, <2>2 DEF Choice
  <2>4. Min(P(i)) \in P(i) /\ Choice(r[i], s, u[i - 1]) = {Min(P(i))}
    BY <2>3, ChoiceMade
  <2>. QED  BY <1>3, <2>1, <2>2, <2>4 DEF Partners
<1>. HIDE DEF f
<1>5. ASSUME NEW a \in 1 .. n, NEW b \in 1 .. n, a < b PROVE f[a] # f[b]
  <2>1. a <= b - 1
    BY <1>5
  <2>2. u[a] \subseteq u[b - 1]
    BY <1>2, <1>4, <2>1, TakenStays
  <2>. QED  BY <1>4, <2>2
<1>6. f \in [1 .. n -> 1 .. n]
  <2>1. f = [i \in 1 .. n |-> f[i]]
    BY DEF f
  <2>. QED  BY <1>4, <2>1
<1>7. IsInjective(f)
  <2>1. \A a, b \in 1 .. n : a = b \/ a < b \/ b < a
    BY <1>1
  <2>. QED  BY <1>5, <1>6, <2>1 DEF IsInjective
<1>8. Pairing(f, r, s)
  BY <1>1, <1>3, <1>4, <1>6, <1>7 DEF Pairing, Bijections
<1>. QED  BY <1>3, <1>8

(* What has a pairing is equal: where the greedy choice differs from the   *)
(* pairing's, exchanging two of its partners makes it agree.               *)
LEMMA PairingIsEqual ==
    ASSUME NEW r \in Seq(Attrs), NEW s \in Seq(Attrs), Len(r) = Len(s),
           NEW g, Pairing(g, r, s)
    PROVE  rdnEqualFold(r, s)
<1>. DEFINE n == Len(r)
<1>1. n \in Nat /\ DOMAIN r = 1 .. n /\ DOMAIN s = 1 .. n
  BY LenProperties
<1>2. PICK u : IsGreedy(u, r, s)
  BY Greedy
<1>. HIDE DEF n
<1>3. ASSUME NEW f
      PROVE  Pairing(f, r, s) <=> /\ f \in [1 .. n -> 1 .. n]
                                  /\ \A a, b \in 1 .. n : f[a] = f[b] => a = b
                                  /\ \A i \in 1 .. n : attrEqual(r[i], s[f[i]])
  BY <1>1 DEF Pairing, Bijections, IsInjective
<1>. DEFINE Agrees(f, i) == u[i] = {f[j] : j \in 1 .. i}
            T == {i \in Nat : i <= n => \E f : Pairing(f, r, s) /\ Agrees(f, i)}
<1>4. 0 \in T
  <2>1. u[0] = {} /\ 1 .. 0 = {}
    BY <1>2 DEF IsGreedy
  <2>2. Agrees(g, 0)
    BY <2>1
  <2>. QED  BY <2>2
<1>5. ASSUME NEW i \in T PROVE i + 1 \in T
  <2>. SUFFICES ASSUME i + 1 <= n PROVE \E f : Pairing(f, r, s) /\ Agrees(f, i + 1)
    OBVIOUS
  <2>. DEFINE k == i + 1
              left == Partners(r[k], s, u[i])
              m == Min(left)
  <2>1. i \in Nat /\ i <= n /\ k \in 1 .. n /\ k - 1 = i /\ k \notin 1 .. i /\ 1 .. i \subseteq 1 .. n
        /\ 1 .. k = 1 .. i \cup {k}
    BY <1>1
  <2>2. PICK f : Pairing(f, r, s) /\ Agrees(f, i)
    BY <2>1
  <2>3. /\ f \in [1 .. n -> 1 .. n] /\ \A a, b \in 1 .. n : f[a] = f[b] => a = b
        /\ \A j \in 1 .. n : attrEqual(r[j], s[f[j]])
    BY <1>3, <2>2
  <2>. HIDE DEF k
  <2>4. f[k] \in left
    BY <1>1, <2>1, <2>2, <2>3 DEF Partners
  <2>5. m \in left /\ Choice(r[k], s, u[i]) = {m}
    BY <2>4, ChoiceMade
  <2>6. u[k] = u[i] \cup {m}
    BY <1>2, <2>1, <2>5 DEF IsGreedy, n
  <2>. HIDE DEF left, m
  <2>7. m \in 1 .. n /\ attrEqual(r[k], s[m]) /\ \A j \in 1 .. i : f[j] # m
    BY <1>1, <2>2, <2>5 DEF Partners, left
  <2>. DEFINE h == [j \in 1 .. n |-> IF j = k THEN m ELSE IF f[j] = m THEN f[k] ELSE f[j]]
  <2>8. h \in [1 .. n -> 1 .. n]
    BY <2>1, <2>3, <2>7
  <2>9. h[k] = m /\ \A j \in 1 .. i : h[j] = f[j]
    BY <2>1, <2>7
  <2>10. \A a, b \in 1 .. n : h[a] = h[b] => a = b
    BY <2>1, <2>3
  <2>11. \A j \in 1 .. n : attrEqual(r[j], s[h[j]])
    BY <2>1, <2>3, <2>7 DEF attrEqual
  <2>. HIDE DEF h
  <2>12. Pairing(h, r, s)
    BY <1>3, <2>8, <2>10, <2>11
  <2>13. Agrees(h, k)
    BY <2>1, <2>2, <2>6, <2>9
  <2>. QED  BY <2>12, <2>13 DEF k
<1>6. T = Nat
  <2>1. T \in SUBSET Nat
    OBVIOUS
  <2>. HIDE DEF T
  <2>. QED  BY <1>4, <1>5, <2>1, NatSetInduction
<1>7. PICK f : Pairing(f, r, s) /\ Agrees(f, n)
  BY <1>1, <1>6
<1>8. 0 \notin u[n]
  <2>1. f \in [1 .. n -> 1 .. n]
    BY <1>3, <1>7
  <2>2. \A j \in 1 .. n : f[j] # 0
    BY <2>1
  <2>3. u[n] = {f[j] : j \in 1 .. n}
    BY <1>7
  <2>. HIDE DEF Agrees
  <2>. QED  BY <2>2, <2>3
<1>. QED  BY <1>2, <1>8 DEF IsGreedy, n

(* Equality of RDNs is equality of bags of attributes, whatever the order  *)
(* they are written in: the greedy matching of equalFold never misses a    *)
(* pairing and never uses an attribute twice (dn.go:231-251).              *)
THEOREM EqualityIsOfBags ==
    \A r, s \in Seq(Attrs) :
        rdnEqualFold(r, s) <=>
            Len(r) = Len(s) /\ \E f \in Bijections(r, s) : \A i \in DOMAIN r : attrEqual(r[i], s[f[i]])
BY EqualHasPairing, PairingIsEqual DEF Pairing

(* The same of the RDNs that are model-checked. *)
THEOREM EqualityIsFair == Spec => []EqualityIgnoresOrder
<1>1. IInv => EqualityIgnoresOrder
  <2>. SUFFICES ASSUME IInv PROVE EqualityIgnoresOrder
    OBVIOUS
  <2>1. p \in States
    BY BytesAreText, LoopState DEF IInv
  <2>2. ASSUME NEW dn \in Seq(RDNs) PROVE RDNsOf(dn) \subseteq Seq(Attrs)
    BY LenProperties, ElementOfSeq DEF RDNsOf, RDNs
  <2>3. RDNsOf(p.rdns) \cup {p.rdn} \subseteq Seq(Attrs)
    BY <2>1, <2>2 DEF States, ParserStates
  <2>4. ASSUME NEW t \in Samples PROVE RDNsOf(ParseDN(t)) \subseteq Seq(Attrs)
    <3>1. t \in Text
      BY TextConstants DEF Text, Byte
    <3>. QED  BY <2>2, <3>1, ParsedDN
  <2>5. UNION {RDNsOf(ParseDN(t)) : t \in Samples} \subseteq Seq(Attrs)
    BY <2>4
  <2>6. ASSUME NEW r \in Seq(Attrs), NEW s \in Seq(Attrs)
        PROVE  rdnEqualFold(r, s) <=>
                 Len(r) = Len(s) /\ \E f \in Bijections(r, s) : \A i \in DOMAIN r : attrEqual(r[i], s[f[i]])
    BY EqualityIsOfBags
  <2>. QED  BY <2>3, <2>5, <2>6 DEF EqualityIgnoresOrder
<1>. QED  BY <1>1, Invariance, PTL
-----------------------------------------------------------------------------
(* The reading of RFC 4515 from one position on, given it from the later   *)
(* ones; g lists it from each position of f.                               *)
ReadFrom(f, g, i) ==
    IF i > Len(f) THEN <<>>
    ELSE IF f[i] = Backslash
         THEN <<16 * HexValue(f[i + 1]) + HexValue(f[i + 2])>> \o g[i + 3]
         ELSE <<f[i]>> \o g[i + 1]

IsReading(g, f) ==
    /\ \A i \in 1 .. Len(f) + 3 : g[i] = ReadFrom(f, g, i)
    /\ Unescaped(f) = g[1]

LEMMA ReadingExists ==
    ASSUME NEW S, NEW f \in Seq(S)
    PROVE  \E g : IsReading(g, f)
<1>. DEFINE n == Len(f)
            D == {f[i] : i \in 1 .. n} \cup {16 * HexValue(f[i + 1]) + HexValue(f[i + 2]) : i \in 1 .. n}
            P == 1 .. n + 3
            T == Seq(D)
            L == [P -> T]
            G == [k \in Nat |-> [g \in L |-> [i \in P |-> IF i = n + 1 - k THEN ReadFrom(f, g, i) ELSE g[i]]]]
            Empty == [i \in P |-> <<>>]
<1>1. n \in Nat
  BY LenProperties
<1>2. Empty \in L
  BY EmptySeq
<1>3. ASSUME NEW g \in L, NEW i \in P PROVE ReadFrom(f, g, i) \in T
  <2>1. <<>> \in T
    BY EmptySeq
  <2>2. ASSUME i <= n PROVE g[i + 1] \in T /\ g[i + 3] \in T /\ i \in 1 .. n
    <3>1. i + 1 \in P /\ i + 3 \in P /\ i \in 1 .. n
      BY <1>1, <2>2
    <3>. HIDE DEF P, T
    <3>. QED  BY <3>1
  <2>3. ASSUME NEW d \in D, NEW s \in T PROVE <<d>> \o s \in T
    <3>1. <<d>> \in T
      <4>. HIDE DEF D
      <4>. QED  OBVIOUS
    <3>. HIDE DEF D
    <3>. QED  BY <3>1, ConcatProperties
  <2>4. ASSUME NEW j \in 1 .. n PROVE f[j] \in D /\ 16 * HexValue(f[j + 1]) + HexValue(f[j + 2]) \in D
    OBVIOUS
  <2>5. CASE i > n
    BY <2>1, <2>5 DEF ReadFrom
  <2>6. CASE i <= n
    <3>1. ~(i > n)
      BY <1>1, <2>6
    <3>. HIDE DEF D, T, P
    <3>2. <<f[i]>> \o g[i + 1] \in T /\ <<16 * HexValue(f[i + 1]) + HexValue(f[i + 2])>> \o g[i + 3] \in T
      BY <2>2, <2>3, <2>4, <2>6
    <3>. QED  BY <3>1, <3>2 DEF ReadFrom
  <2>. QED  BY <1>1, <2>5, <2>6
<1>. HIDE DEF D
<1>4. G \in [Nat -> [L -> L]]
  <2>1. ASSUME NEW k \in Nat, NEW g \in L
        PROVE  [i \in P |-> IF i = n + 1 - k THEN ReadFrom(f, g, i) ELSE g[i]] \in L
    <3>. HIDE DEF P, T, n
    <3>. QED  BY <1>3
  <2>. HIDE DEF P, L, n
  <2>. QED  BY <2>1
<1>5. PICK h : Recursion(h, L, Empty, G)
  <2>. HIDE DEF L, G, Empty
  <2>. QED  BY <1>2, <1>4, RecursiveFunction
<1>6. h \in [Nat -> L] /\ h[0] = Empty
  <2>. HIDE DEF L, G, Empty
  <2>. QED  BY <1>5 DEF Recursion
<1>7. ASSUME NEW k \in Nat
      PROVE  h[k + 1] = [i \in P |-> IF i = n - k THEN ReadFrom(f, h[k], i) ELSE h[k][i]]
  <2>1. h[k] \in L
    <3>. HIDE DEF L
    <3>. QED  BY <1>6
  <2>2. k + 1 \in Nat /\ k + 1 # 0 /\ (k + 1) - 1 = k /\ n + 1 - (k + 1) = n - k
    BY <1>1
  <2>3. h[k + 1] = G[k + 1][h[k]]
    <3>. HIDE DEF L, G, Empty
    <3>. QED  BY <1>5, <2>2 DEF Recursion
  <2>4. G[k + 1][h[k]] = [i \in P |-> IF i = n + 1 - (k + 1) THEN ReadFrom(f, h[k], i) ELSE h[k][i]]
    <3>. HIDE DEF L, P
    <3>. QED  BY <2>1, <2>2
  <2>. HIDE DEF L, G, P
  <2>. QED  BY <2>2, <2>3, <2>4
<1>. DEFINE Right(k) == \A i \in P : i > n - k => h[k][i] = ReadFrom(f, h[k], i)
            K == {k \in Nat : Right(k)}
<1>8. 0 \in K
  <2>1. \A i \in P : i > n - 0 => i > n
    BY <1>1
  <2>. HIDE DEF P
  <2>. QED  BY <1>6, <2>1 DEF ReadFrom
<1>9. ASSUME NEW k \in K PROVE k + 1 \in K
  <2>1. ASSUME NEW i \in P, i > n - (k + 1) PROVE h[k + 1][i] = ReadFrom(f, h[k + 1], i)
    <3>1. h[k + 1][i] = ReadFrom(f, h[k], i)
      <4>1. CASE i = n - k
        <5>. HIDE DEF P
        <5>. QED  BY <1>7, <4>1
      <4>2. CASE i # n - k
        <5>1. i > n - k
          BY <1>1, <2>1, <4>2
        <5>. HIDE DEF P
        <5>. QED  BY <1>7, <4>2, <5>1
      <4>. QED  BY <4>1, <4>2
    <3>2. ASSUME i <= n
          PROVE  h[k + 1][i + 1] = h[k][i + 1] /\ h[k + 1][i + 3] = h[k][i + 3]
      <4>1. i + 1 \in P /\ i + 3 \in P /\ i + 1 # n - k /\ i + 3 # n - k
        BY <1>1, <2>1, <3>2
      <4>. HIDE DEF P
      <4>. QED  BY <1>7, <4>1
    <3>3. i > n \/ i <= n
      BY <1>1
    <3>. HIDE DEF P
    <3>4. ReadFrom(f, h[k], i) = ReadFrom(f, h[k + 1], i)
      BY <3>2, <3>3 DEF ReadFrom
    <3>. QED  BY <3>1, <3>4
  <2>2. k + 1 \in Nat
    OBVIOUS
  <2>. QED  BY <2>1, <2>2
<1>10. K = Nat
  <2>1. K \in SUBSET Nat
    OBVIOUS
  <2>. HIDE DEF K
  <2>. QED  BY <1>8, <1>9, <2>1, NatSetInduction
<1>. DEFINE Rec(g) == g = [i \in 1 .. Len(f) + 3 |->
                IF i > Len(f) THEN <<>>
                ELSE IF f[i] = Backslash
                     THEN <<16 * HexValue(f[i + 1]) + HexValue(f[i + 2])>> \o g[i + 3]
                     ELSE <<f[i]>> \o g[i + 1]]
            g == CHOOSE g : Rec(g)
<1>11. Rec(h[n])
  <2>1. \A i \in P : h[n][i] = ReadFrom(f, h[n], i)
    <3>1. Right(n)
      <4>. HIDE DEF Right
      <4>. QED  BY <1>1, <1>10
    <3>2. \A i \in P : i > n - n
      BY <1>1
    <3>. HIDE DEF P
    <3>. QED  BY <3>1, <3>2
  <2>2. h[n] \in [P -> T]
    <3>. HIDE DEF T, P
    <3>. QED  BY <1>1, <1>6
  <2>. HIDE DEF T, n
  <2>. QED  BY <2>1, <2>2 DEF ReadFrom, n
<1>12. Rec(g)
  <2>. HIDE DEF Rec
  <2>. QED  BY <1>11
<1>13. Unescaped(f) = g[1]
  BY DEF Unescaped
<1>14. \A i \in 1 .. Len(f) + 3 : g[i] = ReadFrom(f, g, i)
  <2>. HIDE DEF g
  <2>. QED  BY <1>12 DEF ReadFrom
<1>. QED  BY <1>13, <1>14 DEF IsReading
(* Where the parts of a flattening lie: n of them are read. *)
Holds(f, parts, k, n) ==
    /\ Len(f[k]) = Len(f[k - 1]) + Len(parts[k]) /\ Len(f[k]) <= Len(f[n])
    /\ \A j \in 1 .. Len(parts[k]) : f[n][Len(f[k - 1]) + j] = parts[k][j]

LEMMA PartsInPlace ==
    ASSUME NEW S, NEW parts \in Seq(Seq(S)), NEW f, IsFlattening(f, parts, S)
    PROVE  \A k \in 1 .. Len(parts) : Holds(f, parts, k, Len(parts))
<1>. DEFINE m == Len(parts)
            T == {n \in Nat : n <= m => \A k \in 1 .. n : Holds(f, parts, k, n)}
<1>1. m \in Nat /\ \A i \in 1 .. m : parts[i] \in Seq(S)
  BY LenProperties, ElementOfSeq
<1>2. /\ \A i \in 0 .. m : f[i] \in Seq(S)
      /\ \A i \in 1 .. m : f[i] = f[i - 1] \o parts[i]
  BY DEF IsFlattening
<1>. HIDE DEF m
<1>3. 0 \in T
  OBVIOUS
<1>4. ASSUME NEW n \in T, n + 1 <= m, NEW k \in 1 .. n + 1 PROVE Holds(f, parts, k, n + 1)
  <2>. DEFINE a == Len(f[n])
              b == Len(parts[n + 1])
  <2>1. n \in Nat /\ n \in 0 .. m /\ n + 1 \in 0 .. m /\ n + 1 \in 1 .. m /\ (n + 1) - 1 = n
    BY <1>1, <1>4
  <2>2. f[n] \in Seq(S) /\ parts[n + 1] \in Seq(S) /\ f[n + 1] = f[n] \o parts[n + 1]
    BY <1>1, <1>2, <2>1
  <2>3. /\ a \in Nat /\ b \in Nat /\ Len(f[n + 1]) = a + b
        /\ \A i \in 1 .. a + b : f[n + 1][i] = IF i <= a THEN f[n][i] ELSE parts[n + 1][i - a]
    <3>. DEFINE s == f[n]
                t == parts[n + 1]
    <3>1. s \in Seq(S) /\ t \in Seq(S) /\ f[n + 1] = s \o t
      BY <2>2
    <3>. HIDE DEF s, t
    <3>2. /\ Len(s) \in Nat /\ Len(t) \in Nat /\ Len(f[n + 1]) = Len(s) + Len(t)
          /\ \A i \in 1 .. Len(s) + Len(t) : f[n + 1][i] = IF i <= Len(s) THEN s[i] ELSE t[i - Len(s)]
      BY <3>1, LenProperties, ConcatProperties
    <3>. QED  BY <3>2 DEF s, t
  <2>. HIDE DEF a, b
  <2>4. CASE k = n + 1
    <3>1. Len(f[k]) = Len(f[k - 1]) + Len(parts[k]) /\ Len(f[k]) <= Len(f[n + 1])
      <4>1. Len(f[n + 1]) <= Len(f[n + 1])
        BY <2>3
      <4>. QED  BY <2>1, <2>3, <2>4, <4>1 DEF a, b
    <3>2. ASSUME NEW j \in 1 .. b PROVE f[n + 1][a + j] = parts[n + 1][j]
      <4>1. a + j \in 1 .. a + b /\ ~(a + j <= a) /\ (a + j) - a = j
        BY <2>3
      <4>. QED  BY <2>3, <4>1
    <3>. QED  BY <2>1, <2>4, <3>1, <3>2 DEF Holds, a, b
  <2>5. CASE k # n + 1
    <3>1. k \in 1 .. n /\ k \in 1 .. m /\ k - 1 \in 0 .. m
      BY <1>1, <1>4, <2>1, <2>5
    <3>2. Holds(f, parts, k, n)
      BY <1>1, <1>4, <3>1
    <3>. DEFINE c == Len(f[k - 1])
                d == Len(parts[k])
    <3>3. c \in Nat /\ d \in Nat
      BY <1>1, <1>2, <3>1, LenProperties
    <3>4. Len(f[k]) = c + d /\ Len(f[k]) <= a /\ \A j \in 1 .. d : f[n][c + j] = parts[k][j]
      BY <3>2 DEF Holds, a
    <3>. HIDE DEF c, d
    <3>5. Len(f[k]) <= Len(f[n + 1])
      BY <2>3, <3>3, <3>4
    <3>6. ASSUME NEW j \in 1 .. d PROVE f[n + 1][c + j] = parts[k][j]
      <4>1. c + j \in 1 .. a + b /\ c + j <= a
        BY <2>3, <3>3, <3>4
      <4>. QED  BY <2>3, <3>4, <4>1
    <3>. QED  BY <3>4, <3>5, <3>6 DEF Holds, c, d
  <2>. QED  BY <2>4, <2>5
<1>5. ASSUME NEW n \in T PROVE n + 1 \in T
  <2>1. n + 1 \in Nat
    OBVIOUS
  <2>2. n + 1 <= m => \A k \in 1 .. n + 1 : Holds(f, parts, k, n + 1)
    <3>. HIDE DEF T
    <3>. QED  BY <1>4
  <2>. QED  BY <2>1, <2>2
<1>6. T = Nat
  <2>1. T \in SUBSET Nat
    OBVIOUS
  <2>. HIDE DEF T
  <2>. QED  BY <1>3, <1>5, <2>1, NatSetInduction
<1>. QED  BY <1>1, <1>6 DEF m

-----------------------------------------------------------------------------
(* What EscapeFilter writes for a byte. *)
FilterPiece(c) == IF mustEscape(c) THEN <<Backslash, HexByte(c \div 16), HexByte(c % 16)>> ELSE <<c>>
FilterPieces(v) == [i \in DOMAIN v |-> FilterPiece(v[i])]

(* The bytes that mean themselves in a filter, or begin an escape. *)
Literal == 1 .. 127 \ {Star, LParen, RParen}

LEMMA HexByteReads == \A n \in 0 .. 15 : HexByte(n) \in Literal /\ HexValue(HexByte(n)) = n
BY DEF HexByte, HexValue, Literal, Star, LParen, RParen

LEMMA Nibbles == \A c \in Byte : c \div 16 \in 0 .. 15 /\ c % 16 \in 0 .. 15 /\ (16 * (c \div 16)) + (c % 16) = c
BY DEF Byte

LEMMA FilterIsFlattening ==
    ASSUME NEW v \in Text
    PROVE  /\ FilterPieces(v) \in Seq(Seq(Literal)) /\ Len(FilterPieces(v)) = Len(v)
           /\ \A i \in 1 .. Len(v) : FilterPieces(v)[i] = FilterPiece(v[i])
           /\ EscapeFilter(v) = FlattenSeq(FilterPieces(v))
<1>1. Len(v) \in Nat /\ DOMAIN v = 1 .. Len(v) /\ \A i \in 1 .. Len(v) : v[i] \in Byte
  BY LenProperties, ElementOfSeq DEF Text
<1>2. ASSUME NEW c \in Byte PROVE FilterPiece(c) \in Seq(Literal)
  <2>1. CASE mustEscape(c)
    <3>. DEFINE h == HexByte(c \div 16)
                l == HexByte(c % 16)
    <3>1. h \in Literal /\ l \in Literal
      BY Nibbles, HexByteReads
    <3>2. Backslash \in Literal
      BY DEF Literal, Backslash, Star, LParen, RParen
    <3>. HIDE DEF h, l, Literal
    <3>3. <<Backslash, h, l>> \in Seq(Literal)
      BY <3>1, <3>2
    <3>. QED  BY <2>1, <3>3 DEF FilterPiece, h, l
  <2>2. CASE ~mustEscape(c)
    <3>1. c \in Literal
      BY <2>2 DEF mustEscape, Literal, Byte
    <3>. HIDE DEF Literal
    <3>. QED  BY <2>2, <3>1 DEF FilterPiece
  <2>. QED  BY <2>1, <2>2
<1>3. FilterPieces(v) \in [1 .. Len(v) -> Seq(Literal)]
  BY <1>1, <1>2 DEF FilterPieces
<1>4. FilterPieces(v) \in Seq(Seq(Literal)) /\ Len(FilterPieces(v)) = Len(v)
  <2>. DEFINE n == Len(v)
              L == Seq(Literal)
  <2>. HIDE DEF n, L
  <2>1. \A f \in [1 .. n -> L] : n \in Nat => f \in Seq(L) /\ Len(f) = n
    OBVIOUS
  <2>. QED  BY <1>1, <1>3, <2>1 DEF n, L
<1>5. EscapeFilter(v) = FlattenSeq(FilterPieces(v))
  BY DEF EscapeFilter, FilterPieces, FilterPiece
<1>. QED  BY <1>1, <1>4, <1>5 DEF FilterPieces

LEMMA EscapedIsLiteral == ASSUME NEW v \in Text PROVE EscapeFilter(v) \in Seq(Literal)
<1>1. PICK f : IsFlattening(f, FilterPieces(v), Literal)
  BY FilterIsFlattening, Flattening
<1>2. Len(FilterPieces(v)) \in 0 .. Len(FilterPieces(v))
  BY FilterIsFlattening, LenProperties
<1>. QED  BY <1>1, <1>2, FilterIsFlattening DEF IsFlattening

(* An escaped value reads back as the value. *)
LEMMA ValueReadsBack == ASSUME NEW v \in Text PROVE Unescaped(EscapeFilter(v)) = v
<1>. DEFINE m == Len(v)
            e == EscapeFilter(v)
            parts == FilterPieces(v)
<1>1. m \in Nat /\ \A i \in 1 .. m : v[i] \in Byte
  BY LenProperties, ElementOfSeq DEF Text
<1>2. /\ parts \in Seq(Seq(Literal)) /\ Len(parts) = m /\ e = FlattenSeq(parts)
      /\ \A i \in 1 .. m : parts[i] = FilterPiece(v[i])
  BY FilterIsFlattening
<1>3. PICK f : IsFlattening(f, parts, Literal)
  BY <1>2, Flattening
<1>4. e = f[m] /\ f[0] = <<>> /\ \A i \in 0 .. m : f[i] \in Seq(Literal)
  BY <1>2, <1>3 DEF IsFlattening
<1>5. \A k \in 1 .. m : Holds(f, parts, k, m)
  BY <1>2, <1>3, PartsInPlace
<1>6. PICK g : IsReading(g, e)
  BY EscapedIsLiteral, ReadingExists
<1>7. Unescaped(e) = g[1] /\ \A i \in 1 .. Len(e) + 3 : g[i] = ReadFrom(e, g, i)
  BY <1>6 DEF IsReading
<1>. HIDE DEF m, e, parts
(* The reading from behind the k-th piece is what v holds behind k. *)
<1>. DEFINE ReadsBehind(k) == g[Len(f[k]) + 1] = SubSeq(v, k + 1, m)
            T == {n \in Nat : n <= m => ReadsBehind(m - n)}
<1>8. 0 \in T
  <2>1. Len(e) \in Nat /\ Len(e) + 1 \in 1 .. Len(e) + 3 /\ Len(e) + 1 > Len(e) /\ m - 0 = m /\ m + 1 > m
    BY <1>1, <1>4, LenProperties
  <2>2. g[Len(e) + 1] = <<>>
    BY <1>7, <2>1 DEF ReadFrom
  <2>3. SubSeq(v, m + 1, m) = <<>>
    BY <1>1, <2>1, SubSeqEmpty
  <2>. QED  BY <1>4, <2>1, <2>2, <2>3
<1>9. ASSUME NEW k \in 1 .. m, ReadsBehind(k) PROVE ReadsBehind(k - 1)
  <2>. DEFINE a == Len(f[k - 1])
              c == v[k]
  <2>1. k \in 0 .. m /\ k - 1 \in 0 .. m /\ k \in Nat /\ (k - 1) + 1 = k /\ m \in 0 .. m /\ m \in k .. m
    BY <1>1
  <2>2. c \in Byte /\ a \in Nat /\ Len(e) \in Nat
    BY <1>1, <1>4, <2>1, LenProperties
  <2>3. /\ Len(f[k]) = a + Len(parts[k]) /\ Len(f[k]) <= Len(e)
        /\ \A j \in 1 .. Len(parts[k]) : e[a + j] = parts[k][j]
    BY <1>4, <1>5, <2>1 DEF Holds
  <2>4. parts[k] = FilterPiece(c)
    BY <1>2
  <2>. HIDE DEF a, c
  <2>5. g[a + 1] = <<c>> \o g[Len(f[k]) + 1]
    <3>1. CASE mustEscape(c)
      <4>. DEFINE h == HexByte(c \div 16)
                  l == HexByte(c % 16)
      <4>1. Len(parts[k]) = 3 /\ parts[k][1] = Backslash /\ parts[k][2] = h /\ parts[k][3] = l
        BY <2>4, <3>1 DEF FilterPiece
      <4>2. e[a + 1] = Backslash /\ e[a + 2] = h /\ e[a + 3] = l /\ Len(f[k]) = a + 3
        BY <2>3, <4>1
      <4>3. 16 * HexValue(h) + HexValue(l) = c
        BY <2>2, Nibbles, HexByteReads
      <4>. HIDE DEF h, l
      <4>4. /\ a + 1 \in 1 .. Len(e) + 3 /\ ~(a + 1 > Len(e))
            /\ (a + 1) + 1 = a + 2 /\ (a + 1) + 2 = a + 3 /\ (a + 1) + 3 = Len(f[k]) + 1
        BY <2>2, <2>3, <4>2
      <4>5. g[a + 1] = <<16 * HexValue(h) + HexValue(l)>> \o g[Len(f[k]) + 1]
        BY <1>7, <4>2, <4>4 DEF ReadFrom
      <4>. QED  BY <4>3, <4>5
    <3>2. CASE ~mustEscape(c)
      <4>1. Len(parts[k]) = 1 /\ parts[k][1] = c
        BY <2>4, <3>2 DEF FilterPiece
      <4>2. e[a + 1] = c /\ Len(f[k]) = a + 1 /\ c # Backslash
        BY <2>3, <3>2, <4>1 DEF mustEscape
      <4>3. a + 1 \in 1 .. Len(e) + 3 /\ ~(a + 1 > Len(e)) /\ (a + 1) + 1 = Len(f[k]) + 1
        BY <2>2, <2>3, <4>2
      <4>. QED  BY <1>7, <4>2, <4>3 DEF ReadFrom
    <3>. QED  BY <3>1, <3>2
  <2>6. SubSeq(v, k, m) = <<v[k]>> \o SubSeq(v, k + 1, m)
    <3>1. v \in Seq(Byte) /\ k \in 1 .. Len(v) /\ m \in k .. Len(v)
      BY <2>1 DEF m, Text
    <3>. QED  BY <3>1, SubSeqRecursiveFirst
  <2>. QED  BY <1>9, <2>1, <2>5, <2>6 DEF a, c
<1>10. ASSUME NEW n \in T PROVE n + 1 \in T
  <2>1. CASE n + 1 <= m
    <3>1. m - n \in 1 .. m /\ (m - n) - 1 = m - (n + 1) /\ n <= m
      BY <1>1, <2>1
    <3>2. ReadsBehind(m - n)
      BY <3>1
    <3>. HIDE DEF ReadsBehind
    <3>. QED  BY <1>9, <3>1, <3>2
  <2>2. CASE ~(n + 1 <= m)
    BY <2>2
  <2>. QED  BY <2>1, <2>2
<1>11. T = Nat
  <2>1. T \in SUBSET Nat
    OBVIOUS
  <2>. HIDE DEF T
  <2>. QED  BY <1>8, <1>10, <2>1, NatSetInduction
<1>12. ReadsBehind(0)
  <2>1. m <= m /\ m - m = 0
    BY <1>1
  <2>. HIDE DEF ReadsBehind
  <2>. QED  BY <1>1, <1>11, <2>1
<1>13. g[1] = SubSeq(v, 1, m)
  <2>1. Len(f[0]) + 1 = 1 /\ 0 + 1 = 1
    BY <1>4, EmptySeq
  <2>. QED  BY <1>12, <2>1
<1>14. SubSeq(v, 1, m) = v
  BY SubSeqFull DEF m, Text
<1>. QED  BY <1>7, <1>13, <1>14 DEF e
-----------------------------------------------------------------------------
(* How often a byte occurs in a text. *)
Places(s, c) == {i \in DOMAIN s : s[i] = c}
Count(s, c) == Cardinality(Places(s, c))

LEMMA CountAppend ==
    ASSUME NEW S, NEW s \in Seq(S), NEW d \in S, NEW c
    PROVE  /\ Count(s, c) \in Nat
           /\ Count(Append(s, d), c) = Count(s, c) + IF d = c THEN 1 ELSE 0
<1>. DEFINE n == Len(s)
            t == Append(s, d)
<1>1. n \in Nat /\ DOMAIN s = 1 .. n
  BY LenProperties
<1>2. /\ DOMAIN t = 1 .. n + 1 /\ t[n + 1] = d
      /\ \A i \in 1 .. n : t[i] = s[i]
  <2>1. t \in Seq(S) /\ Len(t) = n + 1 /\ t[n + 1] = d /\ \A i \in 1 .. n : t[i] = s[i]
    BY AppendProperties
  <2>. HIDE DEF t, n
  <2>2. DOMAIN t = 1 .. Len(t)
    BY <2>1, LenProperties
  <2>. QED  BY <2>1, <2>2
<1>. HIDE DEF n, t
<1>3. IsFiniteSet(Places(s, c)) /\ Cardinality(Places(s, c)) \in Nat
  <2>1. IsFiniteSet(1 .. n) /\ Places(s, c) \in SUBSET (1 .. n)
    BY <1>1, FS_Interval DEF Places
  <2>. QED  BY <2>1, FS_Subset, FS_CardinalityType
<1>4. n + 1 \notin Places(s, c)
  BY <1>1 DEF Places
<1>5. Places(t, c) = IF d = c THEN Places(s, c) \cup {n + 1} ELSE Places(s, c)
  <2>1. \A i : i \in 1 .. n + 1 <=> i \in 1 .. n \/ i = n + 1
    BY <1>1
  <2>2. \A i : i \in Places(t, c) <=> i \in Places(s, c) \/ (i = n + 1 /\ d = c)
    <3>1. \A i \in 1 .. n : i # n + 1
      BY <1>1
    <3>. QED  BY <1>1, <1>2, <2>1, <3>1 DEF Places
  <2>. QED  BY <2>2
<1>6. d = c => Count(t, c) = Count(s, c) + 1
  BY <1>3, <1>4, <1>5, FS_AddElement DEF Count
<1>. QED  BY <1>3, <1>5, <1>6 DEF Count, t

LEMMA CountConcat ==
    ASSUME NEW S, NEW s \in Seq(S), NEW t \in Seq(S), NEW c
    PROVE  Count(s \o t, c) = Count(s, c) + Count(t, c)
<1>. DEFINE T == {u \in Seq(S) : Count(s \o u, c) = Count(s, c) + Count(u, c)}
<1>1. <<>> \in T
  <2>1. s \o <<>> = s /\ <<>> \in Seq(S)
    BY ConcatEmptySeq, EmptySeq
  <2>2. Count(<<>>, c) = 0
    <3>1. Places(<<>>, c) = {}
      BY DEF Places
    <3>. QED  BY <3>1, FS_EmptySet DEF Count
  <2>3. Count(s, c) \in Nat
    <3>1. CASE S = {}
      <4>1. s = <<>>
        BY <3>1, EmptySeq, ElementOfSeq
      <4>. QED  BY <2>2, <4>1
    <3>2. CASE S # {}
      BY <3>2, CountAppend
    <3>. QED  BY <3>1, <3>2
  <2>. QED  BY <2>1, <2>2, <2>3
<1>2. ASSUME NEW u \in Seq(S), NEW d \in S, u \in T PROVE Append(u, d) \in T
  <2>1. AppendsToBoth(s, u, d)
    BY ConcatAppend
  <2>2. Append(s \o u, d) = s \o Append(u, d) /\ s \o u \in Seq(S) /\ Append(u, d) \in Seq(S)
    BY <2>1, ConcatProperties, AppendProperties DEF AppendsToBoth
  <2>. DEFINE x == s \o u
              y == Append(u, d)
              k == IF d = c THEN 1 ELSE 0
  <2>3. Count(Append(x, d), c) = Count(x, c) + k
    <3>1. x \in Seq(S)
      BY <2>2
    <3>. HIDE DEF x
    <3>. QED  BY <3>1, CountAppend
  <2>4. Count(y, c) = Count(u, c) + k /\ Count(u, c) \in Nat /\ Count(s, c) \in Nat
    BY CountAppend
  <2>5. Count(x, c) = Count(s, c) + Count(u, c)
    BY <1>2
  <2>6. Count(s \o y, c) = Count(s, c) + Count(y, c)
    <3>1. Count(s \o y, c) = Count(Append(x, d), c)
      BY <2>2
    <3>2. k \in Nat
      OBVIOUS
    <3>. HIDE DEF x, y, k
    <3>. QED  BY <2>3, <2>4, <2>5, <3>1, <3>2
  <2>. QED  BY <2>2, <2>6
<1>3. \A u \in Seq(S) : u \in T
  <2>. HIDE DEF T
  <2>. QED  BY <1>1, <1>2, SeqSetInduction
<1>. QED  BY <1>3

LEMMA CountOne ==
    ASSUME NEW d, NEW c
    PROVE  Count(<<d>>, c) = IF d = c THEN 1 ELSE 0
<1>1. Places(<<d>>, c) = IF d = c THEN {1} ELSE {}
  BY DEF Places
<1>. QED  BY <1>1, FS_EmptySet, FS_Singleton DEF Count

LEMMA CountNone ==
    ASSUME NEW S, NEW s \in Seq(S), NEW c, c \notin S
    PROVE  Count(s, c) = 0
<1>1. Places(s, c) = {}
  BY LenProperties, ElementOfSeq DEF Places
<1>. QED  BY <1>1, FS_EmptySet DEF Count

-----------------------------------------------------------------------------
(* What a filter may consist of: literal bytes and its own parentheses. *)
FilterByte == 1 .. 127 \ {Star}

LEMMA FilterBytes ==
    /\ LParen \in FilterByte /\ RParen \in FilterByte /\ Eq \in FilterByte /\ 38 \in FilterByte
    /\ Literal \subseteq FilterByte /\ LParen # RParen
    /\ Eq \notin {LParen, RParen} /\ 38 \notin {LParen, RParen}
BY DEF FilterByte, Literal, LParen, RParen, Eq, Star

(* An assertion has one parenthesis of each kind, whatever its value. *)
LEMMA AssertionParens ==
    ASSUME NEW attr \in Seq(Literal), NEW v \in Text
    PROVE  /\ Equal(attr, v) \in Seq(FilterByte)
           /\ \A c \in {LParen, RParen} : Count(Equal(attr, v), c) = 1
<1>. DEFINE e == EscapeFilter(v)
            a == <<LParen>> \o attr
            b == a \o <<Eq>>
            d == b \o e
<1>1. e \in Seq(Literal) /\ e \in Seq(FilterByte) /\ attr \in Seq(FilterByte)
  BY EscapedIsLiteral, FilterBytes, SeqMonotonic
<1>2. Equal(attr, v) = d \o <<RParen>>
  BY DEF Equal
<1>. HIDE DEF e
<1>3. <<LParen>> \in Seq(FilterByte) /\ <<Eq>> \in Seq(FilterByte) /\ <<RParen>> \in Seq(FilterByte)
  <2>. HIDE DEF FilterByte
  <2>. QED  BY FilterBytes
<1>4. a \in Seq(FilterByte) /\ b \in Seq(FilterByte) /\ d \in Seq(FilterByte) /\ d \o <<RParen>> \in Seq(FilterByte)
  BY <1>1, <1>3, ConcatProperties
<1>5. ASSUME NEW c \in {LParen, RParen} PROVE Count(d \o <<RParen>>, c) = 1
  <2>1. Count(e, c) = 0 /\ Count(attr, c) = 0
    <3>1. c \notin Literal
      BY DEF Literal
    <3>. QED  BY <1>1, <3>1, CountNone
  <2>2. /\ Count(<<LParen>>, c) = IF LParen = c THEN 1 ELSE 0
        /\ Count(<<RParen>>, c) = IF RParen = c THEN 1 ELSE 0
        /\ Count(<<Eq>>, c) = 0
    BY CountOne, FilterBytes
  <2>3. Count(a, c) = Count(<<LParen>>, c) + Count(attr, c)
    BY <1>1, <1>3, CountConcat
  <2>4. Count(b, c) = Count(a, c) + Count(<<Eq>>, c)
    <3>. HIDE DEF a
    <3>. QED  BY <1>3, <1>4, CountConcat
  <2>5. Count(d, c) = Count(b, c) + Count(e, c)
    <3>. HIDE DEF b
    <3>. QED  BY <1>1, <1>4, CountConcat
  <2>6. Count(d \o <<RParen>>, c) = Count(d, c) + Count(<<RParen>>, c)
    <3>. HIDE DEF d
    <3>. QED  BY <1>3, <1>4, CountConcat
  <2>. HIDE DEF a, b, d
  <2>. QED  BY <2>1, <2>2, <2>3, <2>4, <2>5, <2>6, FilterBytes
<1>. QED  BY <1>2, <1>4, <1>5

LEMMA FlattenTwo ==
    ASSUME NEW S, NEW s \in Seq(S), NEW t \in Seq(S)
    PROVE  FlattenSeq(<<s, t>>) = s \o t
<1>. DEFINE u == <<s, t>>
<1>1. u \in Seq(Seq(S)) /\ Len(u) = 2 /\ u[1] = s /\ u[2] = t
  OBVIOUS
<1>. HIDE DEF u
<1>2. PICK f : IsFlattening(f, u, S)
  BY <1>1, Flattening
<1>3. f[0] = <<>> /\ FlattenSeq(u) = f[2] /\ \A i \in 1 .. 2 : f[i] = f[i - 1] \o u[i]
  BY <1>1, <1>2 DEF IsFlattening
<1>4. f[1] = f[0] \o u[1] /\ f[2] = f[1] \o u[2]
  <2>1. 1 \in 1 .. 2 /\ 2 \in 1 .. 2 /\ 1 - 1 = 0 /\ 2 - 1 = 1
    OBVIOUS
  <2>. QED  BY <1>3, <2>1
<1>5. f[1] = s
  BY <1>1, <1>3, <1>4, ConcatEmptySeq
<1>. QED  BY <1>1, <1>3, <1>4, <1>5 DEF u

(* What FilterIsLiteral says of a filter with the values v and w. *)
IsLiteral(attr, v, w) ==
    LET f == And(<<Equal(attr, v), Equal(attr, w)>>) IN
    /\ Unescaped(EscapeFilter(v)) = v
    /\ \A i \in DOMAIN f : f[i] \in 1 .. 127 \ {Star}
    /\ Cardinality({i \in DOMAIN f : f[i] = LParen}) = 3
    /\ Cardinality({i \in DOMAIN f : f[i] = RParen}) = 3

(* A filter of two assertions holds the parentheses its builders put in,   *)
(* no star and no byte outside ASCII, whatever the values are; and each    *)
(* value reads back (filter.go:7-35).                                      *)
THEOREM ValuesAreLiteral == \A attr \in Seq(Literal), v, w \in Text : IsLiteral(attr, v, w)
<1>. SUFFICES ASSUME NEW attr \in Seq(Literal), NEW v \in Text, NEW w \in Text PROVE IsLiteral(attr, v, w)
  OBVIOUS
<1>. DEFINE s == Equal(attr, v)
            t == Equal(attr, w)
            f == And(<<s, t>>)
            st == s \o t
            a == <<LParen, 38>>
            b == a \o st
<1>1. /\ s \in Seq(FilterByte) /\ t \in Seq(FilterByte)
      /\ \A c \in {LParen, RParen} : Count(s, c) = 1 /\ Count(t, c) = 1
  BY AssertionParens
<1>. HIDE DEF s, t
<1>2. f = b \o <<RParen>>
  <2>. DEFINE ts == <<s, t>>
  <2>1. Len(ts) = 2
    OBVIOUS
  <2>2. FlattenSeq(ts) = st
    BY <1>1, FlattenTwo
  <2>. HIDE DEF ts, st
  <2>3. And(ts) = a \o FlattenSeq(ts) \o <<RParen>>
    <3>1. ~(Len(ts) <= 1)
      BY <2>1
    <3>. QED  BY <3>1 DEF And
  <2>. QED  BY <2>2, <2>3 DEF ts
<1>3. a \in Seq(FilterByte) /\ <<LParen>> \in Seq(FilterByte) /\ <<RParen>> \in Seq(FilterByte)
  <2>. HIDE DEF FilterByte
  <2>. QED  BY FilterBytes
<1>4. st \in Seq(FilterByte) /\ b \in Seq(FilterByte) /\ f \in Seq(FilterByte)
  <2>1. st \in Seq(FilterByte)
    BY <1>1, ConcatProperties
  <2>. HIDE DEF st, a, f
  <2>2. b \in Seq(FilterByte)
    BY <1>3, <2>1, ConcatProperties
  <2>. HIDE DEF b
  <2>3. f \in Seq(FilterByte)
    BY <1>2, <1>3, <2>2, ConcatProperties
  <2>. QED  BY <2>1, <2>2, <2>3
<1>5. \A i \in DOMAIN f : f[i] \in FilterByte
  <2>. HIDE DEF f, FilterByte
  <2>. QED  BY <1>4, LenProperties, ElementOfSeq
<1>6. ASSUME NEW c \in {LParen, RParen} PROVE Count(f, c) = 3
  <2>1. Count(a, c) = IF LParen = c THEN 1 ELSE 0
    <3>1. Places(a, c) = IF LParen = c THEN {1} ELSE {}
      BY FilterBytes DEF Places
    <3>. QED  BY <3>1, FS_EmptySet, FS_Singleton DEF Count
  <2>2. Count(st, c) = 2
    <3>1. Count(st, c) = Count(s, c) + Count(t, c)
      BY <1>1, CountConcat
    <3>. QED  BY <1>1, <3>1
  <2>3. Count(b, c) = Count(a, c) + Count(st, c)
    <3>. HIDE DEF a, st
    <3>. QED  BY <1>3, <1>4, CountConcat
  <2>4. Count(b \o <<RParen>>, c) = Count(b, c) + Count(<<RParen>>, c)
    <3>. HIDE DEF b
    <3>. QED  BY <1>3, <1>4, CountConcat
  <2>5. Count(<<RParen>>, c) = IF RParen = c THEN 1 ELSE 0
    BY CountOne
  <2>. HIDE DEF a, b, st, f
  <2>. QED  BY <1>2, <2>1, <2>2, <2>3, <2>4, <2>5, FilterBytes
<1>7. Cardinality({i \in DOMAIN f : f[i] = LParen}) = 3 /\ Cardinality({i \in DOMAIN f : f[i] = RParen}) = 3
  <2>. HIDE DEF f
  <2>. QED  BY <1>6 DEF Count, Places
<1>8. Unescaped(EscapeFilter(v)) = v
  BY ValueReadsBack
<1>. QED  BY <1>5, <1>7, <1>8 DEF FilterByte, IsLiteral, s, t

(* The same of the values that are model-checked: any text read, and any   *)
(* value read from one.                                                    *)
THEOREM FiltersAreLiteral == Spec => []FilterIsLiteral
<1>1. IInv => FilterIsLiteral
  <2>. SUFFICES ASSUME IInv PROVE FilterIsLiteral
    OBVIOUS
  <2>1. text \in Text /\ p.valBuf \in Text
    BY BytesAreText, LoopState DEF IInv, States, ParserStates
  <2>2. <<97>> \in Seq(Literal)
    <3>1. 97 \in Literal
      BY DEF Literal, Star, LParen, RParen
    <3>. HIDE DEF Literal
    <3>. QED  BY <3>1
  <2>3. \A v \in {text, p.valBuf} : v \in Text
    BY <2>1
  <2>. DEFINE a == <<97>>
  <2>4. FilterIsLiteral <=> \A v \in {text, p.valBuf} : IsLiteral(a, v, text)
    BY DEF FilterIsLiteral, IsLiteral
  <2>. HIDE DEF a
  <2>5. ASSUME NEW v \in Text PROVE IsLiteral(a, v, text)
    BY <2>1, <2>2, ValuesAreLiteral DEF a
  <2>. QED  BY <2>3, <2>4, <2>5
<1>. QED  BY <1>1, Invariance, PTL
-----------------------------------------------------------------------------
(* Case folding of bytes, kept within the bytes: what FoldByte takes for   *)
(* U+FFFD is the byte 255 here.  Two texts fold alike in either way.       *)
FoldTo(b) == IF b > 127 THEN 255 ELSE FoldByte(b)
Folded(t) == [i \in DOMAIN t |-> FoldTo(t[i])]

(* Bytes that no other byte folds to. *)
Unfolded == 0 .. 64 \cup 91 .. 96

LEMMA FoldKeeps == \A a \in Byte, c \in Unfolded : FoldTo(a) = c <=> a = c
BY DEF FoldTo, FoldByte, Byte, Unfolded

LEMMA FoldBytes ==
    /\ \A a \in Byte : FoldTo(a) \in Byte
    /\ \A a, b \in Byte : FoldTo(a) = FoldTo(b) <=> FoldByte(a) = FoldByte(b)
    /\ \A a \in Byte : FoldByte(a) \in Nat /\ (FoldByte(a) = Comma <=> a = Comma)
BY DEF FoldTo, FoldByte, Byte, Comma

LEMMA FoldedText ==
    ASSUME NEW s \in Text
    PROVE  /\ Folded(s) \in Text /\ Len(Folded(s)) = Len(s)
           /\ \A i \in 1 .. Len(s) : Folded(s)[i] = FoldTo(s[i]) /\ s[i] \in Byte
<1>. DEFINE n == Len(s)
<1>1. n \in Nat /\ DOMAIN s = 1 .. n /\ \A i \in 1 .. n : s[i] \in Byte
  BY LenProperties, ElementOfSeq DEF Text
<1>2. Folded(s) \in [1 .. n -> Byte]
  BY <1>1, FoldBytes DEF Folded
<1>3. Folded(s) \in Text /\ Len(Folded(s)) = n
  <2>1. \A f \in [1 .. n -> Byte] : f \in Seq(Byte) /\ Len(f) = n
    <3>. HIDE DEF n
    <3>. QED  BY <1>1
  <2>. QED  BY <1>2, <2>1 DEF Text
<1>. QED  BY <1>1, <1>3 DEF Folded

LEMMA FoldedEqual ==
    ASSUME NEW s \in Text, NEW t \in Text
    PROVE  Folded(s) = Folded(t) <=> Lower(s) = Lower(t)
<1>1. DOMAIN s = 1 .. Len(s) /\ DOMAIN t = 1 .. Len(t) /\ Len(s) \in Nat /\ Len(t) \in Nat
  BY LenProperties DEF Text
<1>2. \A i \in DOMAIN s : s[i] \in Byte
  BY <1>1, FoldedText
<1>3. \A i \in DOMAIN t : t[i] \in Byte
  BY <1>1, FoldedText
<1>4. DOMAIN Folded(s) = DOMAIN s /\ DOMAIN Folded(t) = DOMAIN t /\ DOMAIN Lower(s) = DOMAIN s /\ DOMAIN Lower(t) = DOMAIN t
  BY DEF Folded, Lower
<1>5. Folded(s) = Folded(t) <=> DOMAIN s = DOMAIN t /\ \A i \in DOMAIN s : FoldTo(s[i]) = FoldTo(t[i])
  BY <1>4 DEF Folded
<1>6. Lower(s) = Lower(t) <=> DOMAIN s = DOMAIN t /\ \A i \in DOMAIN s : FoldByte(s[i]) = FoldByte(t[i])
  BY <1>4 DEF Lower
<1>. QED  BY <1>2, <1>3, <1>5, <1>6, FoldBytes

LEMMA FoldedConcat ==
    ASSUME NEW s \in Text, NEW t \in Text
    PROVE  Folded(s \o t) = Folded(s) \o Folded(t)
<1>. DEFINE u == s \o t
            w == Folded(s) \o Folded(t)
            m == Len(s)
            n == Len(t)
<1>1. m \in Nat /\ n \in Nat /\ Folded(s) \in Text /\ Folded(t) \in Text /\ Len(Folded(s)) = m /\ Len(Folded(t)) = n
  BY FoldedText, LenProperties DEF Text
<1>2. u \in Text /\ Len(u) = m + n /\ \A i \in 1 .. m + n : u[i] = IF i <= m THEN s[i] ELSE t[i - m]
  BY ConcatProperties DEF Text
<1>3. w \in Text /\ Len(w) = m + n /\ \A i \in 1 .. m + n : w[i] = IF i <= m THEN Folded(s)[i] ELSE Folded(t)[i - m]
  <2>. DEFINE fs == Folded(s)
              ft == Folded(t)
  <2>1. fs \in Seq(Byte) /\ ft \in Seq(Byte)
    BY <1>1 DEF Text
  <2>. HIDE DEF fs, ft
  <2>2. /\ fs \o ft \in Seq(Byte) /\ Len(fs \o ft) = Len(fs) + Len(ft)
        /\ \A i \in 1 .. Len(fs) + Len(ft) : (fs \o ft)[i] = IF i <= Len(fs) THEN fs[i] ELSE ft[i - Len(fs)]
    BY <2>1, ConcatProperties
  <2>. QED  BY <1>1, <2>2 DEF Text, fs, ft
<1>. HIDE DEF u, w
<1>4. Folded(u) \in Text /\ Len(Folded(u)) = m + n /\ \A i \in 1 .. m + n : Folded(u)[i] = FoldTo(u[i])
  BY <1>2, FoldedText
<1>5. ASSUME NEW i \in 1 .. m + n PROVE Folded(u)[i] = w[i]
  <2>1. CASE i <= m
    <3>1. i \in 1 .. m
      BY <1>1, <2>1
    <3>. QED  BY <1>2, <1>3, <1>4, <2>1, <3>1, FoldedText
  <2>2. CASE ~(i <= m)
    <3>1. i - m \in 1 .. n
      BY <1>1, <2>2
    <3>. QED  BY <1>2, <1>3, <1>4, <2>2, <3>1, FoldedText
  <2>. QED  BY <2>1, <2>2
<1>. HIDE DEF m, n
<1>6. Folded(u) = w
  <2>. DEFINE x == Folded(u)
  <2>1. x \in Seq(Byte) /\ w \in Seq(Byte) /\ Len(x) = Len(w) /\ \A i \in 1 .. Len(x) : x[i] = w[i]
    BY <1>3, <1>4, <1>5 DEF Text
  <2>. HIDE DEF x
  <2>2. x = w
    BY <2>1, SeqEqual
  <2>. QED  BY <2>2 DEF x
<1>. QED  BY <1>6 DEF u, w

(* Folding what is flattened is flattening what is folded. *)
LEMMA FoldedFlattening ==
    ASSUME NEW ps \in Seq(Text), NEW qs \in Seq(Text), Len(qs) = Len(ps),
           \A i \in 1 .. Len(ps) : qs[i] = Folded(ps[i])
    PROVE  Folded(FlattenSeq(ps)) = FlattenSeq(qs)
<1>. DEFINE n == Len(ps)
<1>1. n \in Nat /\ \A i \in 1 .. n : ps[i] \in Text
  BY LenProperties, ElementOfSeq
<1>2. PICK f : IsFlattening(f, ps, Byte)
  BY Flattening DEF Text
<1>3. PICK g : IsFlattening(g, qs, Byte)
  BY Flattening DEF Text
<1>4. /\ \A i \in 0 .. n : f[i] \in Text
      /\ f[0] = <<>> /\ FlattenSeq(ps) = f[n] /\ \A i \in 1 .. n : f[i] = f[i - 1] \o ps[i]
  BY <1>2 DEF IsFlattening, Text
<1>5. g[0] = <<>> /\ FlattenSeq(qs) = g[n] /\ \A i \in 1 .. n : g[i] = g[i - 1] \o Folded(ps[i])
  BY <1>3 DEF IsFlattening
<1>. DEFINE T == {k \in Nat : k <= n => g[k] = Folded(f[k])}
<1>. HIDE DEF n
<1>6. 0 \in T
  <2>1. Folded(<<>>) = <<>>
    BY DEF Folded
  <2>. QED  BY <1>4, <1>5, <2>1
<1>7. ASSUME NEW k \in T PROVE k + 1 \in T
  <2>1. ASSUME k + 1 <= n PROVE g[k + 1] = Folded(f[k + 1])
    <3>1. k \in 0 .. n /\ k <= n /\ k + 1 \in 1 .. n /\ (k + 1) - 1 = k
      BY <1>1, <2>1
    <3>2. g[k] = Folded(f[k])
      BY <3>1
    <3>3. g[k + 1] = g[k] \o Folded(ps[k + 1]) /\ f[k + 1] = f[k] \o ps[k + 1]
      BY <1>4, <1>5, <3>1
    <3>4. Folded(f[k] \o ps[k + 1]) = Folded(f[k]) \o Folded(ps[k + 1])
      BY <1>1, <1>4, <3>1, FoldedConcat
    <3>. QED  BY <3>2, <3>3, <3>4
  <2>. QED  BY <2>1
<1>8. T = Nat
  <2>1. T \in SUBSET Nat
    OBVIOUS
  <2>. HIDE DEF T
  <2>. QED  BY <1>6, <1>7, <2>1, NatSetInduction
<1>. QED  BY <1>1, <1>4, <1>5, <1>8

(* A value and its folding are escaped in the same places. *)
LEMMA FoldedEscape ==
    ASSUME NEW v \in Text
    PROVE  Folded(EscapeValue(v)) = EscapeValue(Folded(v))
<1>. DEFINE w == Folded(v)
<1>1. w \in Text /\ Len(w) = Len(v) /\ \A i \in 1 .. Len(v) : w[i] = FoldTo(v[i]) /\ v[i] \in Byte
  BY FoldedText
<1>2. /\ Pieces(v) \in Seq(Text) /\ Len(Pieces(v)) = Len(v) /\ EscapeValue(v) = FlattenSeq(Pieces(v))
      /\ \A i \in 1 .. Len(v) : Pieces(v)[i] = Piece(v, i)
  BY EscapeIsFlattening
<1>. HIDE DEF w
<1>3. /\ Pieces(w) \in Seq(Text) /\ Len(Pieces(w)) = Len(v) /\ EscapeValue(w) = FlattenSeq(Pieces(w))
      /\ \A i \in 1 .. Len(v) : Pieces(w)[i] = Piece(w, i)
  BY <1>1, EscapeIsFlattening
<1>4. ASSUME NEW i \in 1 .. Len(v) PROVE Piece(w, i) = Folded(Piece(v, i))
  <2>0. 0 \in Unfolded /\ {Comma, Plus, Quote, Backslash, Less, Greater, Semi, Eq, Space, Hash} \subseteq Unfolded
    BY DEF Unfolded, Comma, Plus, Quote, Backslash, Less, Greater, Semi, Eq, Space, Hash
  <2>1. v[i] \in Byte /\ w[i] = FoldTo(v[i]) /\ (w[i] = 0 <=> v[i] = 0)
    BY <1>1, <2>0, FoldKeeps
  <2>2. needsEscape(w, i) <=> needsEscape(v, i)
    <3>1. \A c \in {Comma, Plus, Quote, Backslash, Less, Greater, Semi, Eq, Space, Hash} : w[i] = c <=> v[i] = c
      BY <2>0, <2>1, FoldKeeps
    <3>. QED  BY <1>1, <3>1 DEF needsEscape
  <2>3. FoldTo(Backslash) = Backslash /\ FoldTo(48) = 48
    BY DEF FoldTo, FoldByte, Backslash
  <2>4. \A b : Folded(<<b>>) = <<FoldTo(b)>>
    BY DEF Folded
  <2>5. \A b : Folded(<<Backslash, b>>) = <<Backslash, FoldTo(b)>>
    BY <2>3 DEF Folded
  <2>6. Folded(<<Backslash, 48, 48>>) = <<Backslash, 48, 48>>
    BY <2>3 DEF Folded
  <2>. QED  BY <2>1, <2>2, <2>4, <2>5, <2>6 DEF Piece
<1>5. Folded(FlattenSeq(Pieces(v))) = FlattenSeq(Pieces(w))
  BY <1>2, <1>3, <1>4, FoldedFlattening
<1>. QED  BY <1>2, <1>3, <1>5 DEF w
(* Two joinings that begin alike agree as far as they do. *)
LEMMA JoiningsAgree ==
    ASSUME NEW ps \in Seq(Text), NEW qs \in Seq(Text), NEW sep,
           NEW f, IsJoining(f, ps, sep), NEW g, IsJoining(g, qs, sep),
           NEW n \in Nat, n <= Len(ps), n <= Len(qs), \A i \in 1 .. n : ps[i] = qs[i]
    PROVE  f[n] = g[n]
<1>. DEFINE T == {k \in Nat : k <= n => f[k] = g[k]}
<1>1. Len(ps) \in Nat /\ Len(qs) \in Nat
  BY LenProperties
<1>2. 0 \in T
  BY DEF IsJoining
<1>3. ASSUME NEW k \in T, k + 1 <= n PROVE f[k + 1] = g[k + 1]
  <2>1. /\ k \in Nat /\ k + 1 \in 1 .. Len(ps) /\ k + 1 \in 1 .. Len(qs) /\ k + 1 \in 1 .. n
        /\ (k + 1) - 1 = k /\ k <= n
    BY <1>1, <1>3
  <2>2. CASE k = 0
    <3>1. f[1] = ps[1] /\ g[1] = qs[1]
      BY <1>1, <1>3, <2>2 DEF IsJoining
    <3>. QED  BY <2>1, <2>2, <3>1
  <2>3. CASE k # 0
    <3>1. k + 1 # 1 /\ f[k] = g[k]
      BY <2>1, <2>3
    <3>2. f[k + 1] = (f[(k + 1) - 1] \o <<sep>>) \o ps[k + 1]
      BY <2>1, <3>1 DEF IsJoining
    <3>3. g[k + 1] = (g[(k + 1) - 1] \o <<sep>>) \o qs[k + 1]
      BY <2>1, <3>1 DEF IsJoining
    <3>. QED  BY <2>1, <3>1, <3>2, <3>3
  <2>. QED  BY <2>2, <2>3
<1>4. \A k \in T : k + 1 \in T
  <2>1. ASSUME NEW k \in T PROVE k + 1 \in Nat /\ (k + 1 <= n => f[k + 1] = g[k + 1])
    BY <1>3
  <2>. QED  BY <2>1
<1>5. T = Nat
  <2>1. T \in SUBSET Nat
    OBVIOUS
  <2>. HIDE DEF T
  <2>. QED  BY <1>2, <1>4, <2>1, NatSetInduction
<1>. QED  BY <1>5

(* The text of a DN that is one RDN longer, and of two DNs in a row. *)
RendersAppended(d, r) ==
    Render(Append(d, r)) = IF d = <<>> THEN RenderRDN(r) ELSE (Render(d) \o <<Comma>>) \o RenderRDN(r)

LEMMA RenderAppend ==
    ASSUME NEW d \in Seq(RDNs), NEW r \in RDNs
    PROVE  RendersAppended(d, r)
<1>. DEFINE n == Len(d)
            e == Append(d, r)
            ps == RDNTexts(d)
            qs == RDNTexts(e)
<1>1. n \in Nat /\ (d = <<>> <=> n = 0)
  BY LenProperties, EmptySeq
<1>2. e \in Seq(RDNs) /\ Len(e) = n + 1 /\ e[n + 1] = r /\ \A i \in 1 .. n : e[i] = d[i]
  BY AppendProperties
<1>. HIDE DEF e, n
<1>3. /\ ps \in Seq(Text) /\ Len(ps) = n /\ Render(d) = Join(ps, Comma)
      /\ \A i \in 1 .. n : ps[i] = RenderRDN(d[i])
  BY RDNTextsType DEF n
<1>4. /\ qs \in Seq(Text) /\ Len(qs) = n + 1 /\ Render(e) = Join(qs, Comma)
      /\ \A i \in 1 .. n + 1 : qs[i] = RenderRDN(e[i])
  BY <1>2, RDNTextsType
<1>. HIDE DEF ps, qs
<1>5. Comma \in Byte
  BY DEF Comma, Byte
<1>6. PICK f : IsJoining(f, ps, Comma)
  BY <1>3, <1>5, Joining
<1>7. PICK g : IsJoining(g, qs, Comma)
  BY <1>4, <1>5, Joining
<1>8. f[n] = g[n] /\ Render(d) = f[n] /\ Render(e) = g[n + 1]
  <2>1. \A i \in 1 .. n : i \in 1 .. n + 1
    BY <1>1
  <2>2. \A i \in 1 .. n : ps[i] = qs[i]
    BY <1>2, <1>3, <1>4, <2>1
  <2>3. n <= Len(ps) /\ n <= Len(qs)
    BY <1>1, <1>3, <1>4
  <2>4. f[n] = g[n]
    BY <1>1, <1>3, <1>4, <1>6, <1>7, <2>2, <2>3, JoiningsAgree
  <2>5. Render(d) = f[n]
    BY <1>3, <1>6 DEF IsJoining
  <2>6. Render(e) = g[n + 1]
    BY <1>4, <1>7 DEF IsJoining
  <2>. QED  BY <2>4, <2>5, <2>6
<1>9. n + 1 \in 1 .. n + 1 /\ qs[n + 1] = RenderRDN(r)
  BY <1>1, <1>2, <1>4
<1>10. CASE n = 0
  <2>1. g[1] = qs[1]
    BY <1>4, <1>7, <1>10 DEF IsJoining
  <2>. QED  BY <1>1, <1>8, <1>9, <1>10, <2>1 DEF RendersAppended, e
<1>11. CASE n # 0
  <2>1. n + 1 # 1 /\ (n + 1) - 1 = n
    BY <1>1, <1>11
  <2>2. g[n + 1] = (g[(n + 1) - 1] \o <<Comma>>) \o qs[n + 1]
    BY <1>4, <1>7, <1>9, <2>1 DEF IsJoining
  <2>. QED  BY <1>1, <1>8, <1>9, <1>11, <2>1, <2>2 DEF RendersAppended, e
<1>. QED  BY <1>10, <1>11

LEMMA RenderIsText == ASSUME NEW d \in Seq(RDNs) PROVE Render(d) \in Text
<1>1. Comma \in Byte
  BY DEF Comma, Byte
<1>2. PICK f : IsJoining(f, RDNTexts(d), Comma)
  BY <1>1, RDNTextsType, Joining
<1>3. Len(d) \in 0 .. Len(d)
  BY LenProperties
<1>. QED  BY <1>2, <1>3, RDNTextsType DEF IsJoining

(* Four texts in a row, however they are grouped. *)
Regroups(a, y, c, z) == ((a \o y) \o c) \o z = a \o ((y \o c) \o z)

LEMMA Regrouping ==
    ASSUME NEW S, NEW a \in Seq(S), NEW y \in Seq(S), NEW c \in Seq(S), NEW z \in Seq(S)
    PROVE  Regroups(a, y, c, z)
<1>1. (a \o y) \o c = a \o (y \o c)
  BY ConcatAssociative
<1>. DEFINE yc == y \o c
<1>2. yc \in Seq(S)
  BY ConcatProperties
<1>. HIDE DEF yc
<1>3. (a \o yc) \o z = a \o (yc \o z)
  BY <1>2, ConcatAssociative
<1>. QED  BY <1>1, <1>3 DEF yc, Regroups

RendersConcat(d, e) == Render(d \o e) = (Render(d) \o <<Comma>>) \o Render(e)

LEMMA RenderConcat ==
    ASSUME NEW d \in Seq(RDNs), d # <<>>, NEW e \in Seq(RDNs), e # <<>>
    PROVE  RendersConcat(d, e)
<1>. DEFINE T == {u \in Seq(RDNs) : u # <<>> => RendersConcat(d, u)}
<1>1. <<>> \in T
  BY EmptySeq
<1>2. ASSUME NEW u \in Seq(RDNs), NEW r \in RDNs, u \in T PROVE Append(u, r) \in T
  <2>1. AppendsToBoth(d, u, r) /\ Append(u, r) \in Seq(RDNs) /\ d \o u \in Seq(RDNs)
    BY ConcatAppend, ConcatProperties, AppendProperties
  <2>2. d \o u # <<>>
    <3>1. Len(d) \in Nat /\ Len(d) # 0 /\ Len(u) \in Nat /\ Len(d \o u) = Len(d) + Len(u)
      BY LenProperties, EmptySeq, ConcatProperties
    <3>. QED  BY <3>1
  <2>. DEFINE x == Render(d)
              y == Render(u)
              z == RenderRDN(r)
              c == <<Comma>>
              du == d \o u
  <2>3. x \in Seq(Byte) /\ y \in Seq(Byte) /\ z \in Seq(Byte) /\ c \in Seq(Byte)
    <3>1. Comma \in Byte
      BY DEF Comma, Byte
    <3>2. z \in Text
      BY RenderText DEF RDNs
    <3>. HIDE DEF Byte
    <3>. QED  BY <3>1, <3>2, RenderIsText DEF Text
  <2>4. Render(Append(u, r)) = IF u = <<>> THEN z ELSE (y \o c) \o z
    BY RenderAppend DEF RendersAppended
  <2>5. Render(d \o Append(u, r)) = (Render(du) \o c) \o z
    <3>1. Render(Append(du, r)) = (Render(du) \o c) \o z
      <4>. HIDE DEF du, c, z
      <4>1. du \in Seq(RDNs) /\ du # <<>>
        BY <2>1, <2>2 DEF du
      <4>2. RendersAppended(du, r)
        BY <4>1, RenderAppend
      <4>. QED  BY <4>1, <4>2 DEF RendersAppended, c, z
    <3>. QED  BY <2>1, <3>1 DEF AppendsToBoth
  <2>6. CASE u = <<>>
    <3>1. du = d
      BY <2>6, ConcatEmptySeq
    <3>2. Render(d \o Append(u, r)) = (x \o c) \o z
      BY <2>5, <3>1
    <3>3. Render(Append(u, r)) = z
      BY <2>4, <2>6
    <3>. QED  BY <2>1, <3>2, <3>3 DEF RendersConcat
  <2>7. CASE u # <<>>
    <3>1. Render(du) = (x \o c) \o y
      BY <1>2, <2>7 DEF RendersConcat
    <3>2. Render(Append(u, r)) = (y \o c) \o z
      BY <2>4, <2>7
    <3>. HIDE DEF x, y, z, c
    <3>. DEFINE xc == x \o c
    <3>3. xc \in Seq(Byte)
      BY <2>3, ConcatProperties
    <3>4. ((xc \o y) \o c) \o z = xc \o ((y \o c) \o z)
      <4>. HIDE DEF xc
      <4>1. Regroups(xc, y, c, z)
        BY <2>3, <3>3, Regrouping
      <4>. QED  BY <4>1 DEF Regroups
    <3>5. Render(d \o Append(u, r)) = (x \o c) \o Render(Append(u, r))
      BY <2>5, <3>1, <3>2, <3>4
    <3>. QED  BY <2>1, <3>5 DEF RendersConcat, x, c
  <2>. QED  BY <2>6, <2>7
<1>3. \A u \in Seq(RDNs) : u \in T
  <2>. HIDE DEF T
  <2>. QED  BY <1>1, <1>2, SeqSetInduction
<1>. QED  BY <1>3
-----------------------------------------------------------------------------
(* DNs of RDNs of one attribute, and their folding. *)
SingleRDNs == {<<a>> : a \in Attrs}
FoldAttr(a) == [type |-> Folded(a.type), value |-> Folded(a.value)]
FoldDN(dn) == [i \in DOMAIN dn |-> <<FoldAttr(dn[i][1])>>]

LEMMA SinglesAreRDNs ==
    /\ SingleRDNs \subseteq RDNs /\ Seq(SingleRDNs) \subseteq Seq(RDNs)
    /\ \A r \in SingleRDNs : r[1] \in Attrs /\ r = <<r[1]>> /\ Len(r) = 1
<1>1. ASSUME NEW a \in Attrs PROVE <<a>> \in Seq(Attrs) /\ <<a>> # <<>> /\ <<a>>[1] = a /\ Len(<<a>>) = 1
  OBVIOUS
<1>2. SingleRDNs \subseteq RDNs
  BY <1>1 DEF SingleRDNs, RDNs
<1>3. Seq(SingleRDNs) \subseteq Seq(RDNs)
  <2>. HIDE DEF SingleRDNs
  <2>. QED  BY <1>2, SeqMonotonic
<1>. QED  BY <1>1, <1>2, <1>3 DEF SingleRDNs

LEMMA FoldedAttr ==
    ASSUME NEW a \in Attrs
    PROVE  FoldAttr(a) \in Attrs /\ AttrText(FoldAttr(a)) = Folded(AttrText(a))
<1>. DEFINE t == a.type
            ft == Folded(t)
<1>1. t \in Seq(Byte \ {Eq}) /\ t # <<>> /\ Trimmed(t) /\ a.value \in Text
  BY DEF Attrs, Types, TypeText
<1>2. t \in Text
  <2>1. Byte \ {Eq} \subseteq Byte
    OBVIOUS
  <2>. QED  BY <1>1, <2>1, SeqMonotonic DEF Text
<1>3. Len(t) \in Nat \ {0} /\ \A i \in 1 .. Len(t) : t[i] # Eq
  BY <1>1, EmptySeq, ElementOfSeq
<1>. HIDE DEF t
<1>4. ft \in Text /\ Len(ft) = Len(t) /\ \A i \in 1 .. Len(t) : ft[i] = FoldTo(t[i]) /\ t[i] \in Byte
  BY <1>2, FoldedText
<1>5. Eq \in Unfolded /\ WhiteSpace \subseteq Unfolded
  BY DEF Eq, WhiteSpace, Space, Unfolded
<1>6. \A i \in 1 .. Len(t) : ft[i] # Eq /\ ft[i] \in Byte
  BY <1>3, <1>4, <1>5, FoldKeeps, FoldBytes
<1>7. \A i \in 1 .. Len(t) : t[i] \notin WhiteSpace => ft[i] \notin WhiteSpace
  BY <1>4, <1>5, FoldKeeps
<1>8. ft \in TypeText
  <2>1. ft \in [1 .. Len(t) -> Byte \ {Eq}]
    <3>1. DOMAIN ft = 1 .. Len(t) /\ ft = [i \in 1 .. Len(t) |-> ft[i]]
      BY <1>4, LenProperties DEF Text
    <3>. HIDE DEF ft
    <3>. QED  BY <1>6, <3>1
  <2>. DEFINE n == Len(t)
              S == Byte \ {Eq}
  <2>2. \A f \in [1 .. n -> S] : f \in Seq(S)
    <3>. HIDE DEF n, S
    <3>1. n \in Nat
      BY <1>3 DEF n
    <3>. QED  BY <3>1
  <2>. QED  BY <2>1, <2>2 DEF TypeText
<1>9. ft \in Types
  <2>1. 1 \in 1 .. Len(t) /\ Len(t) \in 1 .. Len(t)
    BY <1>3
  <2>2. Trimmed(ft)
    BY <1>1, <1>4, <1>7, <2>1 DEF Trimmed
  <2>3. ft # <<>>
    BY <1>3, <1>4, EmptySeq
  <2>. QED  BY <1>8, <2>2, <2>3 DEF Types
<1>10. FoldAttr(a) \in Attrs
  <2>1. Folded(a.value) \in Text
    BY <1>1, FoldedText
  <2>. QED  BY <1>9, <2>1 DEF FoldAttr, Attrs, t
<1>11. AttrText(FoldAttr(a)) = Folded(AttrText(a))
  <2>. DEFINE e == EscapeValue(a.value)
              c == <<Eq>>
              te == t \o c
  <2>1. c \in Text /\ e \in Text /\ te \in Text
    <3>1. c \in Text
      BY DEF Eq, Byte, Text
    <3>. QED  BY <1>1, <1>2, <3>1, EscapeText, ConcatProperties DEF Text
  <2>2. Folded(c) = c
    <3>1. FoldTo(Eq) = Eq
      BY DEF FoldTo, FoldByte, Eq
    <3>. QED  BY <3>1 DEF Folded
  <2>3. Folded(te) = ft \o c
    BY <1>2, <2>1, <2>2, FoldedConcat
  <2>4. Folded(te \o e) = Folded(te) \o Folded(e)
    <3>. HIDE DEF te, e
    <3>. QED  BY <2>1, FoldedConcat
  <2>5. Folded(e) = EscapeValue(Folded(a.value))
    BY <1>1, FoldedEscape
  <2>. QED  BY <2>3, <2>4, <2>5 DEF AttrText, FoldAttr, t
<1>. QED  BY <1>10, <1>11

LEMMA FoldedRDN ==
    ASSUME NEW dn \in Seq(SingleRDNs)
    PROVE  /\ FoldDN(dn) \in Seq(SingleRDNs) /\ Len(FoldDN(dn)) = Len(dn)
           /\ \A i \in 1 .. Len(dn) : FoldDN(dn)[i] = <<FoldAttr(dn[i][1])>>
<1>. DEFINE n == Len(dn)
<1>1. n \in Nat /\ DOMAIN dn = 1 .. n /\ \A i \in 1 .. n : dn[i] \in SingleRDNs
  BY LenProperties, ElementOfSeq
<1>2. \A i \in 1 .. n : <<FoldAttr(dn[i][1])>> \in SingleRDNs
  BY <1>1, SinglesAreRDNs, FoldedAttr DEF SingleRDNs
<1>3. FoldDN(dn) \in [1 .. n -> SingleRDNs]
  BY <1>1, <1>2 DEF FoldDN
<1>4. \A f \in [1 .. n -> SingleRDNs] : f \in Seq(SingleRDNs) /\ Len(f) = n
  <2>. HIDE DEF n, SingleRDNs
  <2>. QED  BY <1>1
<1>. QED  BY <1>1, <1>3, <1>4 DEF FoldDN

(* A folded DN is written as the folding of what the DN is written as. *)
LEMMA FoldedRender ==
    \A dn \in Seq(SingleRDNs) : Render(FoldDN(dn)) = Folded(Render(dn))
<1>. DEFINE T == {dn \in Seq(SingleRDNs) : Render(FoldDN(dn)) = Folded(Render(dn))}
<1>1. <<>> \in T
  <2>1. FoldDN(<<>>) = <<>> /\ Folded(<<>>) = <<>>
    BY DEF FoldDN, Folded
  <2>2. Render(<<>>) = <<>>
    <3>. DEFINE parts == [i \in DOMAIN <<>> |-> RenderRDN(<<>>[i])]
    <3>1. parts = <<>>
      OBVIOUS
    <3>2. Render(<<>>) = Join(<<>>, Comma)
      BY <3>1 DEF Render
    <3>3. [i \in DOMAIN <<>> |-> IF i = 1 THEN <<>>[i] ELSE <<Comma>> \o <<>>[i]] = <<>>
      OBVIOUS
    <3>4. Join(<<>>, Comma) = FlattenSeq(<<>>)
      BY <3>3 DEF Join
    <3>. QED  BY <3>2, <3>4 DEF FlattenSeq
  <2>3. <<>> \in Seq(SingleRDNs)
    BY EmptySeq
  <2>. QED  BY <2>1, <2>2, <2>3
<1>2. ASSUME NEW d \in Seq(SingleRDNs), NEW r \in SingleRDNs, d \in T PROVE Append(d, r) \in T
  <2>. DEFINE e == Append(d, r)
              fr == <<FoldAttr(r[1])>>
  <2>1. e \in Seq(SingleRDNs) /\ Len(e) = Len(d) + 1 /\ e[Len(d) + 1] = r /\ \A i \in 1 .. Len(d) : e[i] = d[i]
    BY AppendProperties
  <2>2. r[1] \in Attrs /\ r = <<r[1]>> /\ fr \in SingleRDNs /\ r \in RDNs /\ fr \in RDNs
    BY SinglesAreRDNs, FoldedAttr DEF SingleRDNs
  <2>. HIDE DEF e
  <2>3. FoldDN(e) = Append(FoldDN(d), fr)
    <3>. DEFINE u == FoldDN(e)
                v == FoldDN(d)
                w == Append(v, fr)
    <3>1. u \in Seq(SingleRDNs) /\ Len(u) = Len(e) /\ \A i \in 1 .. Len(e) : u[i] = <<FoldAttr(e[i][1])>>
      BY <2>1, FoldedRDN
    <3>2. v \in Seq(SingleRDNs) /\ Len(v) = Len(d) /\ \A i \in 1 .. Len(d) : v[i] = <<FoldAttr(d[i][1])>>
      BY FoldedRDN
    <3>. HIDE DEF u, v, fr
    <3>3. w \in Seq(SingleRDNs) /\ Len(w) = Len(v) + 1 /\ w[Len(v) + 1] = fr /\ \A i \in 1 .. Len(v) : w[i] = v[i]
      BY <2>2, <3>2, AppendProperties
    <3>. HIDE DEF w
    <3>4. Len(d) \in Nat
      BY LenProperties
    <3>5. ASSUME NEW i \in 1 .. Len(u) PROVE u[i] = w[i]
      <4>1. i \in 1 .. Len(d) \/ i = Len(d) + 1
        BY <2>1, <3>1, <3>4
      <4>2. CASE i \in 1 .. Len(d)
        BY <2>1, <3>1, <3>2, <3>3, <4>2
      <4>3. CASE i = Len(d) + 1
        BY <2>1, <3>1, <3>2, <3>3, <4>3 DEF fr
      <4>. QED  BY <4>1, <4>2, <4>3
    <3>6. Len(u) = Len(w)
      BY <2>1, <3>1, <3>2, <3>3
    <3>7. u = w
      BY <3>1, <3>3, <3>5, <3>6, SeqEqual
    <3>. QED  BY <3>7 DEF u, v, w
  <2>. DEFINE fd == FoldDN(d)
  <2>4. fd \in Seq(SingleRDNs) /\ fd \in Seq(RDNs) /\ d \in Seq(RDNs) /\ (d = <<>> <=> fd = <<>>)
    <3>1. fd \in Seq(SingleRDNs) /\ Len(fd) = Len(d)
      BY FoldedRDN
    <3>. QED  BY <3>1, SinglesAreRDNs, EmptySeq
  <2>5. RenderRDN(fr) = Folded(RenderRDN(r)) /\ RenderRDN(r) \in Text
    <3>1. RenderRDN(r) = AttrText(r[1]) /\ RenderRDN(fr) = AttrText(FoldAttr(r[1]))
      BY <2>2, RenderText, FoldedAttr
    <3>2. RenderRDN(r) \in Text
      BY <2>2, RenderText DEF RDNs
    <3>. QED  BY <2>2, <3>1, <3>2, FoldedAttr
  <2>. HIDE DEF fd, fr
  <2>6. RendersAppended(d, r) /\ RendersAppended(fd, fr)
    BY <2>2, <2>4, RenderAppend
  <2>7. CASE d = <<>>
    <3>1. Render(e) = RenderRDN(r) /\ Render(Append(fd, fr)) = RenderRDN(fr)
      BY <2>4, <2>6, <2>7 DEF RendersAppended, e
    <3>. QED  BY <2>1, <2>3, <2>5, <3>1 DEF e, fd
  <2>8. CASE d # <<>>
    <3>. DEFINE x == Render(d)
                c == <<Comma>>
                y == RenderRDN(r)
                xc == x \o c
    <3>1. Render(e) = xc \o y /\ Render(Append(fd, fr)) = (Render(fd) \o c) \o RenderRDN(fr)
      BY <2>4, <2>6, <2>8 DEF RendersAppended, e
    <3>2. x \in Text /\ c \in Text /\ y \in Text /\ Folded(c) = c
      <4>1. FoldTo(Comma) = Comma /\ Comma \in Byte
        BY DEF FoldTo, FoldByte, Comma, Byte
      <4>2. Folded(c) = c
        BY <4>1 DEF Folded
      <4>3. c \in Text
        <5>. HIDE DEF Byte
        <5>. QED  BY <4>1 DEF Text
      <4>. QED  BY <2>4, <2>5, <4>2, <4>3, RenderIsText
    <3>3. Render(fd) = Folded(x)
      BY <1>2 DEF fd
    <3>. HIDE DEF x, c, y
    <3>4. Folded(xc) = Folded(x) \o c /\ xc \in Text
      BY <3>2, FoldedConcat, ConcatProperties DEF Text
    <3>5. Folded(xc \o y) = Folded(xc) \o Folded(y)
      <4>. HIDE DEF xc
      <4>. QED  BY <3>2, <3>4, FoldedConcat
    <3>6. Render(FoldDN(e)) = Folded(Render(e))
      BY <2>3, <2>5, <3>1, <3>3, <3>4, <3>5 DEF fd, y
    <3>. QED  BY <2>1, <3>6 DEF e
  <2>. QED  BY <2>7, <2>8
<1>3. \A dn \in Seq(SingleRDNs) : dn \in T
  <2>. HIDE DEF T
  <2>. QED  BY <1>1, <1>2, SeqSetInduction
<1>. QED  BY <1>3
(* RDNs of one attribute are equal if their attributes are. *)
LEMMA SingleEqual ==
    ASSUME NEW a \in Attrs, NEW b \in Attrs
    PROVE  rdnEqualFold(<<a>>, <<b>>) <=> FoldAttr(a) = FoldAttr(b)
<1>. DEFINE r == <<a>>
            s == <<b>>
<1>1. r \in Seq(Attrs) /\ s \in Seq(Attrs) /\ Len(r) = 1 /\ Len(s) = 1 /\ r[1] = a /\ s[1] = b /\ DOMAIN r = {1} /\ DOMAIN s = {1}
  OBVIOUS
<1>. HIDE DEF r, s
<1>2. rdnEqualFold(r, s) => attrEqual(a, b)
  <2>. SUFFICES ASSUME rdnEqualFold(r, s) PROVE attrEqual(a, b)
    OBVIOUS
  <2>1. PICK f : Pairing(f, r, s)
    BY <1>1, EqualHasPairing
  <2>2. f \in [{1} -> {1}] /\ attrEqual(r[1], s[f[1]])
    BY <1>1, <2>1 DEF Pairing, Bijections
  <2>. QED  BY <1>1, <2>2
<1>3. attrEqual(a, b) => rdnEqualFold(r, s)
  <2>. DEFINE f == [i \in {1} |-> 1]
  <2>1. f \in [{1} -> {1}] /\ IsInjective(f) /\ f[1] = 1
    BY DEF IsInjective
  <2>. HIDE DEF f
  <2>2. attrEqual(a, b) => Pairing(f, r, s)
    BY <1>1, <2>1 DEF Pairing, Bijections
  <2>. QED  BY <1>1, <2>2, PairingIsEqual
<1>4. attrEqual(a, b) <=> FoldAttr(a) = FoldAttr(b)
  <2>1. a.type \in Text /\ b.type \in Text /\ a.value \in Text /\ b.value \in Text
    <3>1. TypeText \subseteq Text
      BY TypeTextIsText
    <3>. QED  BY <3>1 DEF Attrs, Types
  <2>2. Folded(a.type) = Folded(b.type) <=> Lower(a.type) = Lower(b.type)
    BY <2>1, FoldedEqual
  <2>3. Folded(a.value) = Folded(b.value) <=> Lower(a.value) = Lower(b.value)
    BY <2>1, FoldedEqual
  <2>. QED  BY <2>2, <2>3 DEF attrEqual, FoldAttr
<1>. QED  BY <1>2, <1>3, <1>4 DEF r, s

(* Such DNs are equal exactly if their texts are, but for case. *)
LEMMA TextsDecide ==
    ASSUME NEW d \in Seq(SingleRDNs), NEW e \in Seq(SingleRDNs)
    PROVE  Lower(Render(d)) = Lower(Render(e)) <=> EqualFold(d, e)
<1>. DEFINE fd == FoldDN(d)
            fe == FoldDN(e)
<1>1. /\ fd \in Seq(SingleRDNs) /\ Len(fd) = Len(d) /\ Render(fd) = Folded(Render(d))
      /\ \A i \in 1 .. Len(d) : fd[i] = <<FoldAttr(d[i][1])>>
  BY FoldedRDN, FoldedRender
<1>2. /\ fe \in Seq(SingleRDNs) /\ Len(fe) = Len(e) /\ Render(fe) = Folded(Render(e))
      /\ \A i \in 1 .. Len(e) : fe[i] = <<FoldAttr(e[i][1])>>
  BY FoldedRDN, FoldedRender
<1>. HIDE DEF fd, fe
<1>3. Lower(Render(d)) = Lower(Render(e)) <=> Folded(Render(d)) = Folded(Render(e))
  <2>1. Render(d) \in Text /\ Render(e) \in Text
    BY SinglesAreRDNs, RenderIsText
  <2>. QED  BY <2>1, FoldedEqual
<1>4. Render(fd) = Render(fe) <=> fd = fe
  <2>1. ParseDN(Render(fd)) = fd /\ ParseDN(Render(fe)) = fe
    BY <1>1, <1>2, SinglesAreRDNs, RenderedReadsBack
  <2>. QED  BY <2>1
<1>5. fd = fe <=> Len(d) = Len(e) /\ \A i \in 1 .. Len(d) : fd[i] = fe[i]
  BY <1>1, <1>2, SeqEqual
<1>6. ASSUME NEW i \in 1 .. Len(d), Len(d) = Len(e)
      PROVE  fd[i] = fe[i] <=> rdnEqualFold(d[i], e[i])
  <2>. DEFINE r == d[i]
              s == e[i]
  <2>1. r \in SingleRDNs /\ s \in SingleRDNs
    BY <1>6, ElementOfSeq
  <2>2. fd[i] = <<FoldAttr(r[1])>> /\ fe[i] = <<FoldAttr(s[1])>>
    BY <1>1, <1>2, <1>6
  <2>. HIDE DEF r, s
  <2>3. r = <<r[1]>> /\ s = <<s[1]>> /\ r[1] \in Attrs /\ s[1] \in Attrs
    BY <2>1, SinglesAreRDNs
  <2>4. rdnEqualFold(r, s) <=> FoldAttr(r[1]) = FoldAttr(s[1])
    BY <2>3, SingleEqual
  <2>5. \A x, y : <<x>> = <<y>> <=> x = y
    OBVIOUS
  <2>. QED  BY <2>2, <2>4, <2>5 DEF r, s
<1>7. DOMAIN d = 1 .. Len(d)
  BY LenProperties
<1>. QED  BY <1>1, <1>2, <1>3, <1>4, <1>5, <1>6, <1>7 DEF EqualFold

-----------------------------------------------------------------------------
(* RDNs in which a comma separates nothing. *)
PlainRDNs == {r \in SingleRDNs : ~Contains(r[1].type, Comma) /\ ~Contains(r[1].value, Comma)}
NoComma(t) == \A i \in 1 .. Len(t) : t[i] # Comma

LEMMA PlainIsSeq ==
    ASSUME NEW dn \in Seq(RDNs), Plain(dn)
    PROVE  dn \in Seq(PlainRDNs)
<1>. DEFINE n == Len(dn)
<1>1. n \in Nat /\ DOMAIN dn = 1 .. n /\ dn \in [1 .. n -> RDNs]
  BY LenProperties
<1>2. ASSUME NEW i \in 1 .. n PROVE dn[i] \in PlainRDNs
  <2>. DEFINE r == dn[i]
  <2>1. r \in Seq(Attrs) /\ Len(r) = 1 /\ ~Contains(r[1].type, Comma) /\ ~Contains(r[1].value, Comma)
    BY <1>1 DEF Plain, RDNs
  <2>. HIDE DEF r
  <2>2. r[1] \in Attrs
    <3>1. 1 \in 1 .. Len(r)
      BY <2>1
    <3>. QED  BY <2>1, <3>1, ElementOfSeq
  <2>3. r = <<r[1]>>
    <3>1. r \in [1 .. 1 -> Attrs]
      BY <2>1, LenProperties
    <3>. QED  BY <3>1
  <2>4. r \in SingleRDNs
    BY <2>2, <2>3 DEF SingleRDNs
  <2>. QED  BY <2>1, <2>4 DEF PlainRDNs, r
<1>3. dn \in [1 .. n -> PlainRDNs]
  BY <1>1, <1>2
<1>4. \A f \in [1 .. n -> PlainRDNs] : f \in Seq(PlainRDNs)
  <2>. HIDE DEF n, PlainRDNs
  <2>. QED  BY <1>1
<1>. QED  BY <1>3, <1>4

LEMMA PlainAreSingle ==
    PlainRDNs \subseteq SingleRDNs /\ Seq(PlainRDNs) \subseteq Seq(SingleRDNs) /\ Seq(PlainRDNs) \subseteq Seq(RDNs)
<1>1. PlainRDNs \subseteq SingleRDNs
  BY DEF PlainRDNs
<1>2. Seq(PlainRDNs) \subseteq Seq(SingleRDNs)
  <2>. HIDE DEF PlainRDNs, SingleRDNs
  <2>. QED  BY <1>1, SeqMonotonic
<1>. QED  BY <1>1, <1>2, SinglesAreRDNs

LEMMA NoCommaConcat ==
    ASSUME NEW s \in Text, NoComma(s), NEW t \in Text, NoComma(t)
    PROVE  NoComma(s \o t)
<1>1. Len(s) \in Nat /\ Len(t) \in Nat
  BY LenProperties DEF Text
<1>2. Len(s \o t) = Len(s) + Len(t) /\ \A i \in 1 .. Len(s) + Len(t) : (s \o t)[i] = IF i <= Len(s) THEN s[i] ELSE t[i - Len(s)]
  BY ConcatProperties DEF Text
<1>3. \A i \in 1 .. Len(s) + Len(t) : (i <= Len(s) => i \in 1 .. Len(s)) /\ (~(i <= Len(s)) => i - Len(s) \in 1 .. Len(t))
  BY <1>1
<1>. QED  BY <1>2, <1>3 DEF NoComma

(* Escaping puts no comma where the value has none, and an RDN without one *)
(* is written without one.                                                 *)
LEMMA NoCommaEscape == ASSUME NEW v \in Text, NoComma(v) PROVE NoComma(EscapeValue(v))
<1>. DEFINE S == Byte \ {Comma}
            ps == Pieces(v)
            n == Len(v)
<1>1. n \in Nat /\ \A i \in 1 .. n : v[i] \in S
  BY LenProperties, ElementOfSeq DEF Text, NoComma
<1>2. ps \in Seq(Text) /\ Len(ps) = n /\ EscapeValue(v) = FlattenSeq(ps) /\ \A i \in 1 .. n : ps[i] = Piece(v, i)
  BY EscapeIsFlattening
<1>3. Backslash \in S /\ 48 \in S
  BY DEF Byte, Backslash, Comma
<1>4. \A i \in 1 .. n : ps[i] \in Seq(S)
  <2>1. \A b \in S : <<b>> \in Seq(S) /\ <<Backslash, b>> \in Seq(S) /\ <<Backslash, 48, 48>> \in Seq(S)
    <3>. HIDE DEF S
    <3>. QED  BY <1>3
  <2>2. ASSUME NEW i \in 1 .. n PROVE Piece(v, i) \in Seq(S)
    <3>. DEFINE b == v[i]
    <3>1. b \in S
      BY <1>1
    <3>2. Piece(v, i) = IF b = 0 THEN <<Backslash, 48, 48>> ELSE IF needsEscape(v, i) THEN <<Backslash, b>> ELSE <<b>>
      BY DEF Piece
    <3>. HIDE DEF S, b
    <3>. QED  BY <2>1, <3>1, <3>2
  <2>. QED  BY <1>2, <2>2
<1>5. ps \in Seq(Seq(S))
  <2>1. ps \in [1 .. n -> Seq(S)]
    <3>1. ps \in [1 .. n -> Text]
      BY <1>2, LenProperties
    <3>. HIDE DEF S, ps, n
    <3>. QED  BY <1>4, <3>1
  <2>2. \A f \in [1 .. n -> Seq(S)] : f \in Seq(Seq(S))
    <3>. DEFINE Z == Seq(S)
    <3>. HIDE DEF Z, n
    <3>1. \A f \in [1 .. n -> Z] : f \in Seq(Z)
      BY <1>1
    <3>. QED  BY <3>1 DEF Z
  <2>. QED  BY <2>1, <2>2
<1>. HIDE DEF ps
<1>6. PICK f : IsFlattening(f, ps, S)
  <2>. HIDE DEF S
  <2>. QED  BY <1>5, Flattening
<1>7. EscapeValue(v) \in Seq(S)
  <2>1. n \in 0 .. n
    BY <1>1
  <2>. HIDE DEF S
  <2>. QED  BY <1>2, <1>6, <2>1 DEF IsFlattening
<1>. QED  BY <1>7, ElementOfSeq DEF NoComma

LEMMA NoCommaRDN == ASSUME NEW r \in PlainRDNs PROVE NoComma(RenderRDN(r)) /\ RenderRDN(r) \in Text
<1>. DEFINE a == r[1]
            c == <<Eq>>
            e == EscapeValue(a.value)
            tc == a.type \o c
<1>1. a \in Attrs /\ r = <<a>> /\ r \in Seq(Attrs)
  BY PlainAreSingle, SinglesAreRDNs DEF RDNs
<1>2. a.type \in Text /\ a.value \in Text /\ NoComma(a.type) /\ NoComma(a.value)
  <2>1. a.type \in Text /\ a.value \in Text
    BY <1>1, TypeTextIsText DEF Attrs, Types
  <2>. QED  BY <2>1 DEF PlainRDNs, Contains, NoComma
<1>3. c \in Text /\ NoComma(c)
  BY DEF Text, Byte, Eq, Comma, NoComma
<1>4. e \in Text /\ NoComma(e)
  BY <1>2, EscapeText, NoCommaEscape
<1>5. RenderRDN(r) = tc \o e
  BY <1>1, RenderText DEF AttrText
<1>. HIDE DEF a, c, e
<1>6. tc \in Text /\ NoComma(tc)
  BY <1>2, <1>3, NoCommaConcat, ConcatProperties DEF Text
<1>. HIDE DEF tc
<1>7. tc \o e \in Text /\ NoComma(tc \o e)
  BY <1>4, <1>6, NoCommaConcat, ConcatProperties DEF Text
<1>. QED  BY <1>5, <1>7
-----------------------------------------------------------------------------
(* A comma in the text of a plain DN lies between two parts of the DN. *)
Separates(dn, i) ==
    \E d, e \in Seq(PlainRDNs) : d # <<>> /\ e # <<>> /\ dn = d \o e /\ i = Len(Render(d)) + 1

LEMMA RenderOne == ASSUME NEW r \in RDNs PROVE Render(<<r>>) = RenderRDN(r)
<1>1. <<>> \in Seq(RDNs) /\ Append(<<>>, r) = <<r>>
  OBVIOUS
<1>. QED  BY <1>1, RenderAppend DEF RendersAppended

LEMMA ThreeParts ==
    ASSUME NEW S, NEW x \in Seq(S), NEW c \in S, NEW y \in Seq(S), NEW t, t = (x \o <<c>>) \o y
    PROVE  /\ Len(x) \in Nat /\ Len(y) \in Nat /\ t \in Seq(S) /\ Len(t) = Len(x) + 1 + Len(y) /\ t[Len(x) + 1] = c
           /\ \A i \in 1 .. Len(x) : t[i] = x[i]
           /\ \A i \in 1 .. Len(y) : t[Len(x) + 1 + i] = y[i]
<1>. DEFINE z == <<c>>
            xc == x \o z
            m == Len(x)
            n == Len(y)
<1>1. z \in Seq(S) /\ Len(z) = 1 /\ z[1] = c /\ t = xc \o y
  OBVIOUS
<1>2. m \in Nat /\ n \in Nat
  BY LenProperties
<1>. HIDE DEF z
<1>3. xc \in Seq(S) /\ Len(xc) = Len(x) + Len(z) /\ \A i \in 1 .. Len(x) + Len(z) : xc[i] = IF i <= Len(x) THEN x[i] ELSE z[i - Len(x)]
  BY <1>1, ConcatProperties
<1>4. xc \in Seq(S) /\ Len(xc) = m + 1 /\ \A i \in 1 .. m + 1 : xc[i] = IF i <= m THEN x[i] ELSE z[i - m]
  BY <1>1, <1>3
<1>. HIDE DEF xc
<1>5. t \in Seq(S) /\ Len(t) = Len(xc) + Len(y) /\ \A i \in 1 .. Len(xc) + Len(y) : t[i] = IF i <= Len(xc) THEN xc[i] ELSE y[i - Len(xc)]
  BY <1>1, <1>4, ConcatProperties
<1>6. t \in Seq(S) /\ Len(t) = m + 1 + n /\ \A i \in 1 .. m + 1 + n : t[i] = IF i <= m + 1 THEN xc[i] ELSE y[i - (m + 1)]
  BY <1>4, <1>5
<1>. HIDE DEF m, n
<1>7. t[m + 1] = c
  <2>1. m + 1 \in 1 .. m + 1 + n /\ m + 1 \in 1 .. m + 1 /\ m + 1 <= m + 1 /\ ~(m + 1 <= m) /\ (m + 1) - m = 1
    BY <1>2
  <2>. QED  BY <1>1, <1>4, <1>6, <2>1
<1>8. ASSUME NEW i \in 1 .. m PROVE t[i] = x[i]
  <2>1. i \in 1 .. m + 1 + n /\ i \in 1 .. m + 1 /\ i <= m + 1 /\ i <= m
    BY <1>2
  <2>. QED  BY <1>4, <1>6, <2>1
<1>9. ASSUME NEW i \in 1 .. n PROVE t[m + 1 + i] = y[i]
  <2>1. m + 1 + i \in 1 .. m + 1 + n /\ ~(m + 1 + i <= m + 1) /\ (m + 1 + i) - (m + 1) = i
    BY <1>2
  <2>. QED  BY <1>6, <2>1
<1>. QED  BY <1>2, <1>6, <1>7, <1>8, <1>9 DEF m, n

(* What is written when an RDN is put behind a DN that is not empty. *)
LEMMA BehindComma ==
    ASSUME NEW d \in Seq(PlainRDNs), d # <<>>, NEW r \in PlainRDNs
    PROVE  LET t == Render(Append(d, r))
               m == Len(Render(d))
               n == Len(RenderRDN(r))
           IN  /\ m \in Nat /\ n \in Nat /\ t \in Text /\ Len(t) = m + 1 + n /\ t[m + 1] = Comma
               /\ \A i \in 1 .. m : t[i] = Render(d)[i]
               /\ \A i \in 1 .. n : t[m + 1 + i] = RenderRDN(r)[i]
<1>. DEFINE x == Render(d)
            y == RenderRDN(r)
            t == Render(Append(d, r))
<1>1. d \in Seq(RDNs) /\ r \in RDNs
  BY PlainAreSingle, SinglesAreRDNs
<1>2. x \in Seq(Byte) /\ y \in Seq(Byte)
  BY <1>1, RenderIsText, NoCommaRDN DEF Text
<1>3. Comma \in Byte
  BY DEF Comma, Byte
<1>4. t = (x \o <<Comma>>) \o y
  BY <1>1, RenderAppend DEF RendersAppended
<1>. HIDE DEF x, y, t
<1>5. /\ Len(x) \in Nat /\ Len(y) \in Nat /\ t \in Seq(Byte) /\ Len(t) = Len(x) + 1 + Len(y) /\ t[Len(x) + 1] = Comma
      /\ \A i \in 1 .. Len(x) : t[i] = x[i]
      /\ \A i \in 1 .. Len(y) : t[Len(x) + 1 + i] = y[i]
  BY <1>2, <1>3, <1>4, ThreeParts
<1>. QED  BY <1>5 DEF Text, t, x, y

LEMMA CommasSeparate ==
    \A dn \in Seq(PlainRDNs) : \A i \in 1 .. Len(Render(dn)) : Render(dn)[i] = Comma => Separates(dn, i)
<1>. DEFINE T == {dn \in Seq(PlainRDNs) : \A i \in 1 .. Len(Render(dn)) : Render(dn)[i] = Comma => Separates(dn, i)}
<1>1. <<>> \in T
  <2>1. Render(<<>>) = <<>>
    <3>1. <<>> \in Seq(RDNs) /\ Comma \in Byte
      BY EmptySeq DEF Comma, Byte
    <3>2. PICK f : IsJoining(f, RDNTexts(<<>>), Comma)
      BY <3>1, RDNTextsType, Joining
    <3>3. Len(RDNTexts(<<>>)) = 0 /\ Render(<<>>) = Join(RDNTexts(<<>>), Comma)
      BY <3>1, RDNTextsType, EmptySeq
    <3>. QED  BY <3>2, <3>3 DEF IsJoining
  <2>. QED  BY <2>1, EmptySeq
<1>2. ASSUME NEW u \in Seq(PlainRDNs), NEW r \in PlainRDNs, u \in T PROVE Append(u, r) \in T
  <2>. DEFINE dn == Append(u, r)
              t == Render(dn)
              m == Len(Render(u))
              n == Len(RenderRDN(r))
  <2>0. dn \in Seq(PlainRDNs) /\ <<r>> \in Seq(PlainRDNs) /\ <<r>> # <<>> /\ dn = u \o <<r>>
    <3>. HIDE DEF PlainRDNs
    <3>. QED  BY AppendProperties, AppendIsConcat
  <2>1. CASE u = <<>>
    <3>1. dn = <<r>>
      BY <2>1
    <3>2. t = RenderRDN(r)
      BY <3>1, RenderOne, PlainAreSingle, SinglesAreRDNs
    <3>3. NoComma(t)
      BY <3>2, NoCommaRDN
    <3>. QED  BY <2>0, <3>3 DEF NoComma
  <2>2. CASE u # <<>>
    <3>1. /\ m \in Nat /\ n \in Nat /\ t \in Text /\ Len(t) = m + 1 + n /\ t[m + 1] = Comma
          /\ \A i \in 1 .. m : t[i] = Render(u)[i]
          /\ \A i \in 1 .. n : t[m + 1 + i] = RenderRDN(r)[i]
      BY <2>2, BehindComma
    <3>2. ASSUME NEW i \in 1 .. m, t[i] = Comma PROVE Separates(dn, i)
      <4>1. Separates(u, i)
        <5>1. \A j \in 1 .. m : Render(u)[j] = Comma => Separates(u, j)
          BY <1>2
        <5>. QED  BY <3>1, <3>2, <5>1
      <4>2. PICK d \in Seq(PlainRDNs), e \in Seq(PlainRDNs) : d # <<>> /\ e # <<>> /\ u = d \o e /\ i = Len(Render(d)) + 1
        BY <4>1 DEF Separates
      <4>. DEFINE er == Append(e, r)
      <4>3. er \in Seq(PlainRDNs) /\ er # <<>> /\ dn = d \o er
        <5>1. er \in Seq(PlainRDNs) /\ Len(er) = Len(e) + 1 /\ Len(e) \in Nat
          BY AppendProperties, LenProperties
        <5>2. AppendsToBoth(d, e, r)
          BY ConcatAppend
        <5>3. dn = d \o er
          BY <4>2, <5>2 DEF AppendsToBoth
        <5>. HIDE DEF er
        <5>4. er # <<>>
          BY <5>1, EmptySeq
        <5>. QED  BY <5>1, <5>3, <5>4
      <4>. HIDE DEF er, dn
      <4>. QED  BY <4>2, <4>3 DEF Separates
    <3>3. Separates(dn, m + 1)
      <4>. HIDE DEF dn
      <4>. QED  BY <2>0, <2>2 DEF Separates
    <3>4. ASSUME NEW i \in 1 .. m + 1 + n, i > m + 1 PROVE t[i] # Comma
      <4>1. i - (m + 1) \in 1 .. n /\ m + 1 + (i - (m + 1)) = i
        BY <3>1, <3>4
      <4>2. t[i] = RenderRDN(r)[i - (m + 1)]
        BY <3>1, <4>1
      <4>. QED  BY <4>1, <4>2, NoCommaRDN DEF NoComma
    <3>. HIDE DEF dn, t, m, n
    <3>5. ASSUME NEW i \in 1 .. m + 1 + n PROVE i \in 1 .. m \/ i = m + 1 \/ i > m + 1
      BY <3>1
    <3>6. \A i \in 1 .. Len(t) : t[i] = Comma => Separates(dn, i)
      BY <3>1, <3>2, <3>3, <3>4, <3>5
    <3>. QED  BY <2>0, <3>6 DEF t, dn
  <2>. QED  BY <2>1, <2>2
<1>3. \A dn \in Seq(PlainRDNs) : dn \in T
  <2>. HIDE DEF T
  <2>. QED  BY <1>1, <1>2, SeqSetInduction
<1>. QED  BY <1>3

(* A text without a comma is that of a single RDN. *)
LEMMA OneRDN ==
    ASSUME NEW d \in Seq(PlainRDNs), d # <<>>
    PROVE  NoComma(Render(d)) <=> Len(d) = 1
<1>1. PICK u \in Seq(PlainRDNs), r \in PlainRDNs : d = Append(u, r)
  BY SequenceEmptyOrAppend
<1>2. Len(u) \in Nat /\ Len(d) = Len(u) + 1 /\ (Len(u) = 0 <=> u = <<>>)
  BY <1>1, AppendProperties, LenProperties, EmptySeq
<1>3. CASE u = <<>>
  <2>1. d = <<r>>
    BY <1>1, <1>3
  <2>2. Render(d) = RenderRDN(r)
    BY <2>1, RenderOne, PlainAreSingle, SinglesAreRDNs
  <2>. QED  BY <1>2, <1>3, <2>2, NoCommaRDN
<1>4. CASE u # <<>>
  <2>. DEFINE t == Render(d)
              m == Len(Render(u))
              n == Len(RenderRDN(r))
  <2>1. m \in Nat /\ n \in Nat /\ Len(t) = m + 1 + n /\ t[m + 1] = Comma
    BY <1>1, <1>4, BehindComma
  <2>2. ~NoComma(t)
    <3>. HIDE DEF t, m, n
    <3>. QED  BY <2>1 DEF NoComma
  <2>. QED  BY <1>2, <1>4, <2>2
<1>. QED  BY <1>3, <1>4

-----------------------------------------------------------------------------
(* A suffix, position by position. *)
LEMMA SuffixPoints ==
    ASSUME NEW S, NEW s \in Seq(S), NEW t \in Seq(S)
    PROVE  IsSuffix(s, t) <=>
             Len(s) <= Len(t) /\ \A i \in 1 .. Len(s) : t[(Len(t) - Len(s)) + i] = s[i]
<1>. DEFINE m == Len(s)
            n == Len(t)
            rs == Reverse(s)
            rt == Reverse(t)
<1>1. m \in Nat /\ n \in Nat /\ (\A i \in 1 .. m : s[i] \in S) /\ (\A i \in 1 .. n : t[i] \in S)
  BY LenProperties, ElementOfSeq
<1>2. /\ Len(rs) = m /\ \A i \in 1 .. m : rs[i] = s[(m - i) + 1]
      /\ Len(rt) = n /\ \A i \in 1 .. n : rt[i] = t[(n - i) + 1]
  BY <1>1 DEF Reverse
<1>3. rs \in Seq(S) /\ rt \in Seq(S)
  <2>1. \A i \in 1 .. m : (m - i) + 1 \in 1 .. m
    BY <1>1
  <2>2. \A i \in 1 .. n : (n - i) + 1 \in 1 .. n
    BY <1>1
  <2>3. rs \in [1 .. m -> S] /\ rt \in [1 .. n -> S]
    BY <1>1, <2>1, <2>2 DEF Reverse
  <2>. HIDE DEF rs, rt, m, n
  <2>. QED  BY <1>1, <2>3
<1>4. IsSuffix(s, t) <=> m <= n /\ SubSeq(rs, 1, m) = SubSeq(rt, 1, m)
  BY <1>2 DEF IsSuffix, IsPrefix
<1>. HIDE DEF rs, rt, m, n
<1>5. ASSUME m <= n
      PROVE  SubSeq(rs, 1, m) = SubSeq(rt, 1, m) <=> \A i \in 1 .. m : rs[i] = rt[i]
  <2>. DEFINE x == SubSeq(rs, 1, m)
              y == SubSeq(rt, 1, m)
  <2>1. \A i \in 1 .. m : rs[i] \in S /\ rt[i] \in S
    <3>1. \A i \in 1 .. m : i \in 1 .. n
      BY <1>1, <1>5
    <3>. QED  BY <1>2, <1>3, <3>1, ElementOfSeq
  <2>2. x \in Seq(S) /\ y \in Seq(S) /\ Len(x) = m /\ Len(y) = m /\ \A i \in 1 .. m : x[i] = rs[i] /\ y[i] = rt[i]
    BY <1>1, <2>1, SubSeqProperties
  <2>. HIDE DEF x, y
  <2>3. x = y <=> \A i \in 1 .. m : x[i] = y[i]
    BY <2>2, SeqEqual
  <2>. QED  BY <2>2, <2>3 DEF x, y
<1>6. ASSUME m <= n
      PROVE  (\A i \in 1 .. m : rs[i] = rt[i]) <=> \A i \in 1 .. m : t[(n - m) + i] = s[i]
  <2>1. \A i \in 1 .. m : (m - i) + 1 \in 1 .. m /\ i \in 1 .. n /\ (n - m) + ((m - i) + 1) = (n - i) + 1
    BY <1>1, <1>6
  <2>2. \A i \in 1 .. m : (m - ((m - i) + 1)) + 1 = i
    BY <1>1
  <2>3. ASSUME \A i \in 1 .. m : t[(n - m) + i] = s[i], NEW i \in 1 .. m PROVE rs[i] = rt[i]
    <3>. DEFINE j == (m - i) + 1
    <3>1. j \in 1 .. m /\ i \in 1 .. n /\ (n - m) + j = (n - i) + 1
      BY <1>1, <1>6
    <3>2. rs[i] = s[j] /\ rt[i] = t[(n - i) + 1]
      BY <1>2, <3>1
    <3>. HIDE DEF j
    <3>. QED  BY <2>3, <3>1, <3>2
  <2>4. ASSUME \A i \in 1 .. m : rs[i] = rt[i], NEW i \in 1 .. m PROVE t[(n - m) + i] = s[i]
    <3>. DEFINE j == (m - i) + 1
    <3>1. j \in 1 .. m /\ j \in 1 .. n /\ (m - j) + 1 = i /\ (n - j) + 1 = (n - m) + i
      BY <1>1, <1>6
    <3>. HIDE DEF j
    <3>. QED  BY <1>2, <2>4, <3>1
  <2>. QED  BY <2>3, <2>4
<1>. QED  BY <1>4, <1>5, <1>6 DEF m, n
LEMMA LowerText ==
    ASSUME NEW t \in Text
    PROVE  /\ Lower(t) \in Seq(Nat) /\ Len(Lower(t)) = Len(t) /\ DOMAIN Lower(t) = 1 .. Len(t)
           /\ \A i \in 1 .. Len(t) : Lower(t)[i] = FoldByte(t[i]) /\ t[i] \in Byte
<1>. DEFINE n == Len(t)
<1>1. n \in Nat /\ DOMAIN t = 1 .. n /\ \A i \in 1 .. n : t[i] \in Byte
  BY LenProperties, ElementOfSeq DEF Text
<1>2. Lower(t) \in [1 .. n -> Nat]
  BY <1>1, FoldBytes DEF Lower
<1>3. \A f \in [1 .. n -> Nat] : f \in Seq(Nat) /\ Len(f) = n
  <2>. HIDE DEF n
  <2>. QED  BY <1>1
<1>. QED  BY <1>1, <1>2, <1>3 DEF Lower

LEMMA LowerPoints ==
    ASSUME NEW s \in Text, NEW t \in Text
    PROVE  Lower(s) = Lower(t) <=> Len(s) = Len(t) /\ \A i \in 1 .. Len(s) : FoldByte(s[i]) = FoldByte(t[i])
<1>. DEFINE x == Lower(s)
            y == Lower(t)
<1>1. x \in Seq(Nat) /\ Len(x) = Len(s) /\ \A i \in 1 .. Len(s) : x[i] = FoldByte(s[i])
  BY LowerText
<1>2. y \in Seq(Nat) /\ Len(y) = Len(t) /\ \A i \in 1 .. Len(t) : y[i] = FoldByte(t[i])
  BY LowerText
<1>. HIDE DEF x, y
<1>3. x = y <=> Len(x) = Len(y) /\ \A i \in 1 .. Len(x) : x[i] = y[i]
  BY <1>1, <1>2, SeqEqual
<1>. QED  BY <1>1, <1>2, <1>3 DEF x, y

(* The suffix test of a search, position by position: t is n bytes, a      *)
(* comma and a text that is b but for case.                                *)
LEMMA BelowPoints ==
    ASSUME NEW t \in Text, NEW b \in Text
    PROVE  BelowText(t, b) <=>
             \E n \in Nat : /\ Len(t) = n + 1 + Len(b) /\ t[n + 1] = Comma
                            /\ \A i \in 1 .. Len(b) : FoldByte(t[n + 1 + i]) = FoldByte(b[i])
<1>. DEFINE L == Lower(t)
            z == <<Comma>>
            lb == Lower(b)
            s == z \o lb
            k == Len(t)
            m == Len(b)
<1>1. k \in Nat /\ m \in Nat
  BY LenProperties DEF Text
<1>2. L \in Seq(Nat) /\ Len(L) = k /\ \A i \in 1 .. k : L[i] = FoldByte(t[i]) /\ t[i] \in Byte
  BY LowerText
<1>3. lb \in Seq(Nat) /\ Len(lb) = m /\ \A i \in 1 .. m : lb[i] = FoldByte(b[i])
  BY LowerText
<1>4. z \in Seq(Nat) /\ Len(z) = 1 /\ z[1] = Comma
  BY DEF Comma
<1>. HIDE DEF lb, z, L, k, m
<1>5. s \in Seq(Nat) /\ Len(s) = Len(z) + Len(lb) /\ \A i \in 1 .. Len(z) + Len(lb) : s[i] = IF i <= Len(z) THEN z[i] ELSE lb[i - Len(z)]
  BY <1>3, <1>4, ConcatProperties
<1>6. s \in Seq(Nat) /\ Len(s) = m + 1 /\ s[1] = Comma /\ \A i \in 1 .. m : s[1 + i] = FoldByte(b[i])
  <2>1. Len(s) = m + 1 /\ \A i \in 1 .. m + 1 : s[i] = IF i <= 1 THEN z[i] ELSE lb[i - 1]
    BY <1>1, <1>3, <1>4, <1>5
  <2>2. 1 \in 1 .. m + 1 /\ \A i \in 1 .. m : 1 + i \in 1 .. m + 1 /\ ~(1 + i <= 1) /\ (1 + i) - 1 = i
    BY <1>1
  <2>3. s[1] = Comma
    BY <1>4, <2>1, <2>2
  <2>4. ASSUME NEW i \in 1 .. m PROVE s[1 + i] = FoldByte(b[i])
    BY <1>3, <2>1, <2>2
  <2>. QED  BY <1>5, <2>1, <2>3, <2>4
<1>. HIDE DEF s
<1>7. BelowText(t, b) <=> IsSuffix(s, L)
  BY DEF BelowText, s, L, z, lb
<1>8. IsSuffix(s, L) <=> m + 1 <= k /\ \A i \in 1 .. m + 1 : L[(k - (m + 1)) + i] = s[i]
  <2>1. IsSuffix(s, L) <=> Len(s) <= Len(L) /\ \A i \in 1 .. Len(s) : L[(Len(L) - Len(s)) + i] = s[i]
    BY <1>2, <1>6, SuffixPoints
  <2>2. Len(s) = m + 1 /\ Len(L) = k
    BY <1>2, <1>6
  <2>. QED  BY <2>1, <2>2
<1>9. ASSUME IsSuffix(s, L)
      PROVE  \E n \in Nat : /\ k = n + 1 + m /\ t[n + 1] = Comma
                            /\ \A i \in 1 .. m : FoldByte(t[n + 1 + i]) = FoldByte(b[i])
  <2>. DEFINE n == k - (m + 1)
  <2>1. n \in Nat /\ k = n + 1 + m
    BY <1>1, <1>8, <1>9
  <2>2. \A i \in 1 .. m + 1 : L[n + i] = s[i]
    BY <1>8, <1>9
  <2>. HIDE DEF n
  <2>3. t[n + 1] = Comma
    <3>1. 1 \in 1 .. m + 1 /\ n + 1 \in 1 .. k
      BY <1>1, <2>1
    <3>2. L[n + 1] = Comma
      BY <1>6, <2>2, <3>1
    <3>. QED  BY <1>2, <3>1, <3>2, FoldBytes
  <2>4. ASSUME NEW i \in 1 .. m PROVE FoldByte(t[n + 1 + i]) = FoldByte(b[i])
    <3>1. 1 + i \in 1 .. m + 1 /\ n + (1 + i) = n + 1 + i /\ n + 1 + i \in 1 .. k
      BY <1>1, <2>1
    <3>2. L[n + 1 + i] = s[1 + i]
      BY <2>2, <3>1
    <3>. QED  BY <1>2, <1>6, <3>1, <3>2
  <2>. QED  BY <2>1, <2>3, <2>4
<1>10. ASSUME NEW n \in Nat, k = n + 1 + m, t[n + 1] = Comma,
              \A i \in 1 .. m : FoldByte(t[n + 1 + i]) = FoldByte(b[i])
       PROVE  IsSuffix(s, L)
  <2>1. m + 1 <= k /\ k - (m + 1) = n
    BY <1>1, <1>10
  <2>2. ASSUME NEW i \in 1 .. m + 1 PROVE L[n + i] = s[i]
    <3>1. CASE i = 1
      <4>1. n + 1 \in 1 .. k
        BY <1>1, <1>10
      <4>. QED  BY <1>2, <1>6, <1>10, <3>1, <4>1, FoldBytes
    <3>2. CASE i # 1
      <4>. DEFINE j == i - 1
      <4>1. j \in 1 .. m /\ 1 + j = i /\ n + i = n + 1 + j /\ n + 1 + j \in 1 .. k
        BY <1>1, <1>10, <3>2
      <4>. HIDE DEF j
      <4>. QED  BY <1>2, <1>6, <1>10, <4>1
    <3>. QED  BY <3>1, <3>2
  <2>. QED  BY <1>8, <2>1, <2>2
<1>. QED  BY <1>7, <1>9, <1>10 DEF k, m

-----------------------------------------------------------------------------
(* dn is d beneath e, and e is base. *)
LiesBeneath(dn, base, d, e) ==
    d \in Seq(PlainRDNs) /\ d # <<>> /\ e \in Seq(PlainRDNs) /\ e # <<>> /\ dn = d \o e /\ EqualFold(base, e)

LEMMA BeneathPoints ==
    ASSUME NEW d \in Seq(PlainRDNs), d # <<>>, NEW e \in Seq(PlainRDNs), e # <<>>
    PROVE  LET t == Render(d \o e)
               n == Len(Render(d))
               m == Len(Render(e))
           IN  /\ t \in Text /\ n \in Nat /\ m \in Nat /\ Len(t) = n + 1 + m /\ t[n + 1] = Comma
               /\ \A i \in 1 .. n : t[i] = Render(d)[i]
               /\ \A i \in 1 .. m : t[n + 1 + i] = Render(e)[i]
<1>. DEFINE x == Render(d)
            y == Render(e)
            t == Render(d \o e)
<1>1. d \in Seq(RDNs) /\ e \in Seq(RDNs)
  BY PlainAreSingle
<1>2. x \in Seq(Byte) /\ y \in Seq(Byte)
  BY <1>1, RenderIsText DEF Text
<1>3. Comma \in Byte
  BY DEF Comma, Byte
<1>4. t = (x \o <<Comma>>) \o y
  BY <1>1, RenderConcat DEF RendersConcat
<1>. HIDE DEF x, y, t
<1>5. /\ Len(x) \in Nat /\ Len(y) \in Nat /\ t \in Seq(Byte) /\ Len(t) = Len(x) + 1 + Len(y) /\ t[Len(x) + 1] = Comma
      /\ \A i \in 1 .. Len(x) : t[i] = x[i]
      /\ \A i \in 1 .. Len(y) : t[Len(x) + 1 + i] = y[i]
  BY <1>2, <1>3, <1>4, ThreeParts
<1>. QED  BY <1>5 DEF Text, t, x, y

LEMMA BelowSplits ==
    ASSUME NEW dn \in Seq(PlainRDNs), NEW base \in Seq(PlainRDNs), base # <<>>,
           BelowText(Render(dn), Render(base))
    PROVE  \E d, e : LiesBeneath(dn, base, d, e)
<1>. DEFINE t == Render(dn)
            b == Render(base)
<1>1. t \in Text /\ b \in Text
  BY PlainAreSingle, RenderIsText
<1>2. PICK n \in Nat : /\ Len(t) = n + 1 + Len(b) /\ t[n + 1] = Comma
                       /\ \A i \in 1 .. Len(b) : FoldByte(t[n + 1 + i]) = FoldByte(b[i])
  BY <1>1, BelowPoints
<1>3. n + 1 \in 1 .. Len(t)
  <2>1. Len(b) \in Nat
    BY <1>1, LenProperties DEF Text
  <2>. HIDE DEF t, b
  <2>. QED  BY <1>2, <2>1
<1>4. Separates(dn, n + 1)
  BY <1>2, <1>3, CommasSeparate
<1>5. PICK d \in Seq(PlainRDNs), e \in Seq(PlainRDNs) : d # <<>> /\ e # <<>> /\ dn = d \o e /\ n + 1 = Len(Render(d)) + 1
  BY <1>4 DEF Separates
<1>. DEFINE x == Render(d)
            y == Render(e)
<1>6. /\ Len(x) \in Nat /\ Len(y) \in Nat /\ Len(t) = Len(x) + 1 + Len(y)
      /\ \A i \in 1 .. Len(y) : t[Len(x) + 1 + i] = y[i]
  BY <1>5, BeneathPoints
<1>7. y \in Text /\ Len(b) \in Nat
  BY <1>1, PlainAreSingle, RenderIsText, LenProperties DEF Text
<1>8. Lower(b) = Lower(y)
  <2>. HIDE DEF t, b, x
  <2>1. Len(x) = n
    BY <1>2, <1>5, <1>6 DEF x
  <2>2. Len(b) = Len(y)
    BY <1>2, <1>6, <1>7, <2>1
  <2>. HIDE DEF y
  <2>3. \A i \in 1 .. Len(b) : FoldByte(b[i]) = FoldByte(y[i])
    BY <1>2, <1>6, <2>1, <2>2
  <2>. QED  BY <1>1, <1>7, <2>2, <2>3, LowerPoints
<1>9. EqualFold(base, e)
  BY <1>8, PlainAreSingle, TextsDecide
<1>. QED  BY <1>5, <1>9 DEF LiesBeneath

LEMMA SplitIsBelow ==
    ASSUME NEW dn \in Seq(PlainRDNs), NEW base \in Seq(PlainRDNs), NEW d, NEW e, LiesBeneath(dn, base, d, e)
    PROVE  /\ BelowText(Render(dn), Render(base))
           /\ AncestorOfFold(base, dn) /\ Len(dn) = Len(d) + Len(base) /\ Len(d) \in Nat /\ Len(base) \in Nat
           /\ NoComma(Render(d)) <=> \A i \in DOMAIN Rest(Render(dn), Render(base)) : Rest(Render(dn), Render(base))[i] # Comma
<1>. DEFINE t == Render(dn)
            b == Render(base)
            x == Render(d)
            y == Render(e)
            n == Len(x)
<1>1. d \in Seq(PlainRDNs) /\ d # <<>> /\ e \in Seq(PlainRDNs) /\ e # <<>> /\ dn = d \o e /\ EqualFold(base, e)
  BY DEF LiesBeneath
<1>2. t \in Text /\ b \in Text /\ x \in Text /\ y \in Text
  BY <1>1, PlainAreSingle, RenderIsText
<1>3. /\ n \in Nat /\ Len(y) \in Nat /\ Len(t) = n + 1 + Len(y) /\ t[n + 1] = Comma
      /\ \A i \in 1 .. n : t[i] = x[i]
      /\ \A i \in 1 .. Len(y) : t[n + 1 + i] = y[i]
  BY <1>1, BeneathPoints
<1>4. Lower(b) = Lower(y)
  BY <1>1, PlainAreSingle, TextsDecide
<1>5. Len(b) = Len(y) /\ \A i \in 1 .. Len(b) : FoldByte(b[i]) = FoldByte(y[i])
  BY <1>2, <1>4, LowerPoints
<1>6. BelowText(t, b)
  <2>. HIDE DEF t, b, x, y, n
  <2>1. \A i \in 1 .. Len(b) : FoldByte(t[n + 1 + i]) = FoldByte(b[i])
    BY <1>3, <1>5
  <2>. QED  BY <1>2, <1>3, <1>5, <2>1, BelowPoints
<1>7. /\ Len(d) \in Nat /\ Len(d) # 0 /\ Len(base) \in Nat /\ Len(e) = Len(base) /\ Len(dn) = Len(d) + Len(base)
      /\ \A i \in 1 .. Len(base) : dn[i + Len(dn) - Len(base)] = e[i]
  <2>1. Len(e) = Len(base)
    BY <1>1 DEF EqualFold
  <2>2. Len(d) \in Nat /\ Len(d) # 0 /\ Len(base) \in Nat
    BY <1>1, LenProperties, EmptySeq
  <2>3. Len(dn) = Len(d) + Len(e) /\ \A i \in 1 .. Len(d) + Len(e) : dn[i] = IF i <= Len(d) THEN d[i] ELSE e[i - Len(d)]
    BY <1>1, ConcatProperties
  <2>4. ASSUME NEW i \in 1 .. Len(base) PROVE dn[i + Len(dn) - Len(base)] = e[i]
    <3>1. /\ i + Len(dn) - Len(base) = i + Len(d) /\ i + Len(d) \in 1 .. Len(d) + Len(e)
          /\ ~(i + Len(d) <= Len(d)) /\ (i + Len(d)) - Len(d) = i
      BY <2>1, <2>2, <2>3
    <3>. QED  BY <2>3, <3>1
  <2>. QED  BY <2>1, <2>2, <2>3, <2>4
<1>8. AncestorOfFold(base, dn)
  <2>1. DOMAIN base = 1 .. Len(base)
    BY LenProperties
  <2>2. Len(base) < Len(dn)
    BY <1>7
  <2>3. \A i \in DOMAIN base : rdnEqualFold(base[i], e[i])
    BY <1>1 DEF EqualFold
  <2>. QED  BY <1>7, <2>1, <2>2, <2>3 DEF AncestorOfFold
<1>9. NoComma(x) <=> \A i \in DOMAIN Rest(t, b) : Rest(t, b)[i] # Comma
  <2>. DEFINE L == Lower(t)
              R == SubSeq(L, 1, n)
  <2>1. L \in Seq(Nat) /\ Len(L) = Len(t) /\ \A i \in 1 .. Len(t) : L[i] = FoldByte(t[i]) /\ t[i] \in Byte
    BY <1>2, LowerText
  <2>. HIDE DEF t, b, x, y, L, n
  <2>2. Len(t) - Len(b) - 1 = n /\ \A i \in 1 .. n : i \in 1 .. Len(t)
    BY <1>3, <1>5
  <2>3. Rest(t, b) = R
    BY <2>2 DEF Rest, L
  <2>4. \A i \in 1 .. n : L[i] = FoldByte(x[i]) /\ x[i] \in Byte /\ L[i] \in Nat
    BY <1>3, <2>1, <2>2, FoldBytes
  <2>5. R \in Seq(Nat) /\ Len(R) = n /\ \A i \in 1 .. n : R[i] = L[i]
    <3>1. \A i \in 1 .. n : L[i] \in Nat
      BY <2>4
    <3>. QED  BY <1>3, <3>1, SubSeqProperties
  <2>. HIDE DEF R
  <2>6. DOMAIN R = 1 .. n
    BY <2>5, LenProperties
  <2>7. \A i \in 1 .. n : R[i] # Comma <=> x[i] # Comma
    BY <2>4, <2>5, FoldBytes
  <2>. QED  BY <2>3, <2>6, <2>7 DEF NoComma, n
<1>. QED  BY <1>6, <1>7, <1>8, <1>9

LEMMA AncestorSplits ==
    ASSUME NEW dn \in Seq(PlainRDNs), NEW base \in Seq(PlainRDNs), base # <<>>, AncestorOfFold(base, dn)
    PROVE  \E d, e : LiesBeneath(dn, base, d, e)
<1>. DEFINE k == Len(dn) - Len(base)
            d == SubSeq(dn, 1, k)
            e == SubSeq(dn, k + 1, Len(dn))
<1>1. Len(dn) \in Nat /\ Len(base) \in Nat /\ Len(base) # 0 /\ Len(base) < Len(dn)
  BY LenProperties, EmptySeq DEF AncestorOfFold
<1>2. k \in 1 .. Len(dn) /\ k + 1 \in 1 .. Len(dn) /\ Len(dn) - (k + 1) + 1 = Len(base) /\ k <= Len(dn) /\ k + 1 <= Len(dn)
  BY <1>1
<1>3. \A i \in 1 .. Len(dn) : dn[i] \in PlainRDNs
  BY ElementOfSeq
<1>. HIDE DEF k
<1>4. d \in Seq(PlainRDNs) /\ Len(d) = k
  <2>1. \A i \in 1 .. k : dn[i] \in PlainRDNs
    BY <1>1, <1>2, <1>3
  <2>. HIDE DEF PlainRDNs
  <2>2. d \in Seq(PlainRDNs) /\ Len(d) = IF 1 <= k THEN k - 1 + 1 ELSE 0
    BY <1>1, <1>2, <2>1, SubSeqProperties
  <2>. QED  BY <1>1, <1>2, <2>2
<1>5. e \in Seq(PlainRDNs) /\ Len(e) = Len(base) /\ \A i \in 1 .. Len(base) : e[i] = dn[(k + 1) + i - 1]
  <2>1. \A i \in k + 1 .. Len(dn) : dn[i] \in PlainRDNs
    BY <1>1, <1>2, <1>3
  <2>. HIDE DEF PlainRDNs
  <2>2. /\ e \in Seq(PlainRDNs) /\ Len(e) = IF k + 1 <= Len(dn) THEN Len(dn) - (k + 1) + 1 ELSE 0
        /\ \A i \in 1 .. Len(dn) - (k + 1) + 1 : e[i] = dn[(k + 1) + i - 1]
    BY <1>1, <1>2, <2>1, SubSeqProperties
  <2>. QED  BY <1>2, <2>2
<1>6. dn = d \o e
  <2>1. d \o e = SubSeq(dn, 1, Len(dn))
    BY <1>1, <1>2, ConcatAdjacentSubSeq
  <2>. QED  BY <2>1, SubSeqFull
<1>. HIDE DEF d, e
<1>7. EqualFold(base, e)
  <2>1. DOMAIN base = 1 .. Len(base)
    BY LenProperties
  <2>2. ASSUME NEW i \in 1 .. Len(base) PROVE rdnEqualFold(base[i], e[i])
    <3>1. i + Len(dn) - Len(base) = (k + 1) + i - 1
      BY <1>1 DEF k
    <3>. QED  BY <1>5, <2>1, <3>1 DEF AncestorOfFold
  <2>. QED  BY <1>5, <2>1, <2>2 DEF EqualFold
<1>8. d # <<>> /\ e # <<>>
  BY <1>1, <1>2, <1>4, <1>5, EmptySeq
<1>. QED  BY <1>4, <1>5, <1>6, <1>7, <1>8 DEF LiesBeneath

(* A search in a scope finds, comparing texts, what the tree of parsed DNs *)
(* has in that scope: for every DN and every base of RDNs of one attribute *)
(* without a comma (fake.go:200-216).                                      *)
THEOREM ScopesAreTrees ==
    ASSUME NEW dn \in Seq(RDNs), Plain(dn), NEW base \in Seq(RDNs), Plain(base), base # <<>>,
           NEW scope \in {"base", "onelevel", "subtree"}
    PROVE  inScope(Render(dn), Render(base), scope) <=> InTree(dn, base, scope)
<1>. DEFINE t == Render(dn)
            b == Render(base)
<1>1. dn \in Seq(PlainRDNs) /\ base \in Seq(PlainRDNs)
  BY PlainIsSeq
<1>2. EqualFoldDN(t, b) <=> EqualFold(dn, base)
  BY RenderedReadsBack DEF EqualFoldDN
<1>3. BelowText(t, b) <=> AncestorOfFold(base, dn)
  BY <1>1, BelowSplits, SplitIsBelow, AncestorSplits
<1>4. ASSUME BelowText(t, b)
      PROVE  (\A i \in DOMAIN Rest(t, b) : Rest(t, b)[i] # Comma) <=> Len(dn) = Len(base) + 1
  <2>1. PICK d, e : LiesBeneath(dn, base, d, e)
    BY <1>1, <1>4, BelowSplits
  <2>2. /\ Len(dn) = Len(d) + Len(base) /\ Len(d) \in Nat /\ Len(base) \in Nat
        /\ NoComma(Render(d)) <=> \A i \in DOMAIN Rest(t, b) : Rest(t, b)[i] # Comma
    BY <1>1, <2>1, SplitIsBelow
  <2>3. NoComma(Render(d)) <=> Len(d) = 1
    BY <2>1, OneRDN DEF LiesBeneath
  <2>4. Len(d) = 1 <=> Len(dn) = Len(base) + 1
    <3>1. \A x, y \in Nat : x = 1 <=> x + y = y + 1
      OBVIOUS
    <3>. QED  BY <2>2, <3>1
  <2>. QED  BY <2>2, <2>3, <2>4
<1>5. AncestorOfFold(base, dn) => ~EqualFold(dn, base)
  <2>1. Len(dn) \in Nat /\ Len(base) \in Nat
    BY LenProperties
  <2>. QED  BY <2>1 DEF AncestorOfFold, EqualFold
<1>. HIDE DEF t, b
<1>6. CASE scope = "base"
  <2>1. inScope(t, b, scope) <=> EqualFoldDN(t, b)
    BY <1>6 DEF inScope
  <2>2. InTree(dn, base, scope) <=> EqualFold(dn, base)
    BY <1>6 DEF InTree
  <2>. QED  BY <1>2, <2>1, <2>2 DEF t, b
<1>7. CASE scope = "onelevel"
  <2>1. inScope(t, b, scope) <=> ~EqualFoldDN(t, b) /\ BelowText(t, b) /\ \A i \in DOMAIN Rest(t, b) : Rest(t, b)[i] # Comma
    BY <1>7 DEF inScope
  <2>2. InTree(dn, base, scope) <=> AncestorOfFold(base, dn) /\ Len(dn) = Len(base) + 1
    BY <1>7 DEF InTree
  <2>. QED  BY <1>2, <1>3, <1>4, <1>5, <2>1, <2>2 DEF t, b
<1>8. CASE scope = "subtree"
  <2>1. inScope(t, b, scope) <=> EqualFoldDN(t, b) \/ BelowText(t, b)
    BY <1>8 DEF inScope
  <2>2. InTree(dn, base, scope) <=> EqualFold(dn, base) \/ AncestorOfFold(base, dn)
    BY <1>8 DEF InTree
  <2>. QED  BY <1>2, <1>3, <2>1, <2>2 DEF t, b
<1>. QED  BY <1>6, <1>7, <1>8

(* The same of the DNs that are model-checked. *)
THEOREM SearchScopes == Spec => []ScopeIsTree
<1>1. IInv => ScopeIsTree
  <2>. SUFFICES ASSUME IInv, Accepted, Plain(Parsed) PROVE ScopeIsTree
    BY DEF ScopeIsTree
  <2>. DEFINE bases == {SubSeq(Parsed, i, Len(Parsed)) : i \in DOMAIN Parsed} \cup {ParseDN(t) : t \in Samples}
              dn == Parsed
  <2>1. dn \in Seq(RDNs)
    <3>1. text \in Text /\ Parsed = ParseDN(text)
      BY BytesAreText DEF IInv, Parsed, ParseDN
    <3>. QED  BY <3>1, ParsedDN
  <2>2. ASSUME NEW i \in DOMAIN dn PROVE SubSeq(dn, i, Len(dn)) \in Seq(RDNs) /\ SubSeq(dn, i, Len(dn)) # <<>>
    <3>. HIDE DEF dn
    <3>1. Len(dn) \in Nat /\ i \in 1 .. Len(dn)
      BY <2>1, LenProperties
    <3>2. \A j \in i .. Len(dn) : dn[j] \in RDNs
      <4>1. \A j \in i .. Len(dn) : j \in 1 .. Len(dn)
        BY <3>1
      <4>. QED  BY <2>1, <4>1, ElementOfSeq
    <3>. DEFINE s == SubSeq(dn, i, Len(dn))
    <3>3. s \in Seq(RDNs) /\ Len(s) = IF i <= Len(dn) THEN Len(dn) - i + 1 ELSE 0
      BY <3>1, <3>2, SubSeqProperties
    <3>. HIDE DEF s
    <3>4. Len(s) # 0
      BY <3>1, <3>3
    <3>. QED  BY <3>3, <3>4, EmptySeq DEF s
  <2>3. ASSUME NEW t \in Samples PROVE ParseDN(t) \in Seq(RDNs) /\ ParseDN(t) # <<>>
    <3>1. t \in Text
      BY TextConstants DEF Text, Byte
    <3>. QED  BY <3>1, ParsedDN, SamplesAreDNs
  <2>4. \A base \in bases : base \in Seq(RDNs) /\ base # <<>>
    BY <2>2, <2>3
  <2>5. ASSUME NEW base \in bases, NEW scope \in {"base", "onelevel", "subtree"}, Plain(base)
        PROVE  inScope(Render(dn), Render(base), scope) <=> InTree(dn, base, scope)
    <3>. HIDE DEF dn, bases
    <3>1. Plain(dn)
      BY DEF dn
    <3>. QED  BY <2>1, <2>4, <2>5, <3>1, ScopesAreTrees
  <2>. QED  BY <2>5 DEF ScopeIsTree
<1>. QED  BY <1>1, Invariance, PTL
=============================================================================
