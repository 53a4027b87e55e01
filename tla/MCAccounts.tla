----------------------------- MODULE MCAccounts -----------------------------
(* Instances of Accounts: the principals that specs list. *)
EXTENDS Accounts

ByGUID(g) == [form |-> "guid", arg |-> g]
ByDN(d)   == [form |-> "dn", arg |-> d]

(* None, one that may be gone, and two of which either may be missing. *)
MCPrincipals == {<<>>, <<ByGUID(1)>>} \cup {<<ByDN(d), ByGUID(2)>> : d \in DNs}
=============================================================================
