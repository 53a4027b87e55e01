---------------------------- MODULE MCAclCalls ----------------------------
(* Instances of AclCalls: entries of two canonical keys, one of them in    *)
(* two spellings and once as read back from an inheriting object.          *)
EXTENDS AclCalls, TLC

MCLower == [t \in {"s", "S", "read", "Read", "write"} |->
               CASE t = "S" -> "s" [] t = "Read" -> "read" [] OTHER -> t]

Both    == [subject |-> "s", rights |-> <<"read", "write">>, inherited |-> FALSE]
BothToo == [subject |-> "S", rights |-> <<"write", "Read">>, inherited |-> TRUE]
One     == [subject |-> "s", rights |-> <<"read">>, inherited |-> FALSE]

MCACEs  == {Both, BothToo, One}
MCLists == {<<>>, <<One>>, <<BothToo, Both>>}

Symmetry == Permutations(Calls)
===========================================================================
