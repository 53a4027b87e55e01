------------------------------- MODULE DNText -------------------------------
(***************************************************************************)
(* Distinguished names as the text a caller writes, and the two ways the   *)
(* code compares that text: parsed (EqualFoldDN, src/dn.go, through eqDN)  *)
(* and as lower-cased strings (strings.HasSuffix in src/adcorefake).       *)
(*                                                                         *)
(* A DN is the sequence of its RDN texts, leaf first.  An RDN text is a    *)
(* record: the attribute type, the value as spelled, and whether optional  *)
(* white space was written before it.  Fold maps a value to its lower-case *)
(* spelling.  Text that does not parse is left to the parser's own module. *)
(***************************************************************************)
EXTENDS Naturals, Sequences

CONSTANTS
    Values,     \* spellings of RDN values, among them spellings that differ in case
    Fold        \* Fold[v]: v in lower case

ASSUME FoldType == Fold \in [Values -> Values] /\ \A v \in Values : Fold[Fold[v]] = Fold[v]

Attrs == {"OU", "CN", "DC"}

RDNText == [attr : Attrs, val : Values, spaced : BOOLEAN]

DNTexts == Seq(RDNText)

(* An RDN text as EscapeValue writes it: never with white space before it. *)
RDN(a, v) == [attr |-> a, val |-> v, spaced |-> FALSE]

(* What parsing keeps of a text for EqualFold, and what strings.ToLower    *)
(* keeps of it: the second still tells spacing apart.                      *)
Parsed(d)  == [i \in DOMAIN d |-> <<d[i].attr, Fold[d[i].val]>>]
Lowered(d) == [i \in DOMAIN d |-> [d[i] EXCEPT !.val = Fold[@]]]

EqDN(a, b) == Parsed(a) = Parsed(b)

(* strings.HasSuffix(strings.ToLower(d), "," + strings.ToLower(base)) *)
BelowText(d, base) ==
    /\ Len(d) > Len(base)
    /\ Lowered(SubSeq(d, Len(d) - Len(base) + 1, Len(d))) = Lowered(base)

(* d[:len(d)-len(old)] + new *)
Rebase(d, old, new) == SubSeq(d, 1, Len(d) - Len(old)) \o new
=============================================================================
