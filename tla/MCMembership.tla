---------------------------- MODULE MCMembership ----------------------------
(* Instances of Membership: the lists edits are given.  A pair names one   *)
(* object twice, or its first or its second identity does not resolve,     *)
(* according to the objects there are.                                     *)
EXTENDS Membership

ByGUID(g) == [form |-> "guid", arg |-> g]
ByDN(d)   == [form |-> "dn", arg |-> d]

MCLists == {<<>>} \cup {<<ByGUID(g)>> : g \in Guids} \cup {<<ByDN(d), ByGUID(2)>> : d \in DNs}
=============================================================================
