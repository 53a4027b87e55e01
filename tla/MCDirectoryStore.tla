-------------------------- MODULE MCDirectoryStore --------------------------
(* Instances of DirectoryStore and Searches: the values of its structured constants. *)
EXTENDS Searches

(* "A" is another spelling of "a"; "x" names the domain and the accounts. *)
MCFold == [v \in Values |-> IF v = "A" THEN "a" ELSE v]

MCBare == [s \in Sams \cup {Unset} |-> IF s = "x$" THEN "x" ELSE s]

Root      == <<RDN("DC", "x")>>
InA       == <<RDN("OU", "a")>> \o Root
(* OU=a, DC=x: the DN of InA, written with a space after the comma. *)
InASpaced == <<RDN("OU", "a"), [RDN("DC", "x") EXCEPT !.spaced = TRUE]>>

TreeContainers   == {Root, InA}
SpacedContainers == {Root, InA, InASpaced}
=============================================================================
