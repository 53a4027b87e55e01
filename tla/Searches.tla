------------------------------ MODULE Searches ------------------------------
(***************************************************************************)
(* The Search of the directory services: a query with its defaults         *)
(* (src/search.go), the scope test inScope and the size limit              *)
(* (src/adcorefake), on the objects of DirectoryStore.  A search has       *)
(* store.mu throughout, so it sees the state between two operations and    *)
(* is an operator here.  Filters are not evaluated by the code modelled.   *)
(***************************************************************************)
EXTENDS DirectoryStore

CONSTANTS
    DNC,                \* the DN of the domain, where searches begin
    DefaultSizeLimit    \* the limit of a query that names none; 1000 in the code

ASSUME SearchConstants == DNC \in DNTexts \ {<<>>} /\ DefaultSizeLimit \in Nat \ {0}

(* A query: base <<>>, scope "" and limit 0 are the zero values. *)
WithDefaults(q) ==
    [base  |-> IF q.base = <<>> THEN DNC ELSE q.base,
     scope |-> IF q.scope = "" THEN "subtree" ELSE q.scope,
     limit |-> IF q.limit = 0 THEN DefaultSizeLimit ELSE q.limit]

(* Mutant of InScope: one level is every level. *)
InScopeDeep(d, q) ==
    CASE q.scope = "base" -> EqDN(d, q.base)
      [] q.scope = "onelevel" -> BelowText(d, q.base)
      [] OTHER -> EqDN(d, q.base) \/ BelowText(d, q.base)

(* inScope: what precedes the base's text must hold no comma. *)
InScope(d, q) ==
    CASE q.scope = "base" -> EqDN(d, q.base)
      [] q.scope = "onelevel" -> BelowText(d, q.base) /\ Len(d) = Len(q.base) + 1
      [] OTHER -> EqDN(d, q.base) \/ BelowText(d, q.base)

(* The objects returned, and whether the call fails instead. *)
Search(class, query) ==
    LET q   == WithDefaults(query)
        out == {d \in DOMAIN byDN : byDN[d].class = class /\ InScope(d, q)}
    IN  [tooMany |-> Cardinality(out) > q.limit,
         found   |-> IF Cardinality(out) > q.limit THEN {} ELSE {byDN[d].guid : d \in out}]

(* The place in the tree, as parsed, that a scope names. *)
InTree(d, base, scope) ==
    \/ scope \in {"base", "subtree"} /\ EqDN(d, base)
    \/ scope = "onelevel" /\ d # <<>> /\ EqDN(Tail(d), base)
    \/ scope = "subtree" /\ BelowDN(d, base)

SeesTheTree(class, base, scope, limit) ==
    LET answer == Search(class, [base |-> base, scope |-> scope, limit |-> limit])
        there  == {d \in DOMAIN byDN : byDN[d].class = class /\ InTree(d, base, scope)}
    IN  /\ answer.tooMany <=> Cardinality(there) > limit
        /\ ~answer.tooMany => answer.found = {byDN[d].guid : d \in there}
        /\ (base = DNC /\ scope = "subtree" /\ limit = DefaultSizeLimit) =>
               Search(class, [base |-> <<>>, scope |-> "", limit |-> 0]) = answer

(* A search returns the objects of its class that are at the place in the  *)
(* tree its scope names, all of them or an error, whatever renames and     *)
(* moves the tree has been through (fake.go:200-216, ou.go:58-76;          *)
(* "errors rather than truncating", adcoretest/suite.go:121-122).          *)
SearchesSeeTheTree ==
    mv = Idle =>
        \A class \in Classes, base \in Containers \cup DOMAIN byDN,
           scope \in {"base", "onelevel", "subtree"}, limit \in 1 .. 2 :
            SeesTheTree(class, base, scope, limit)
=============================================================================
