----------------------------- MODULE Membership -----------------------------
(***************************************************************************)
(* Group membership in src/adcorefake/group.go: AddMembers and             *)
(* RemoveMembers, which work through a list of identities and stop at the  *)
(* first that resolves to nothing; Members and IsMember; and the recursive *)
(* walk of MembersRecursive, in whatever order Go ranges over its maps.    *)
(*                                                                         *)
(* Of the object tree only what membership depends on is kept: DNs are     *)
(* atoms, and an object is created, renamed (by which it may land on       *)
(* another) and deleted.  A call holds store.mu until it returns, so the   *)
(* steps of an edit or a walk are not interleaved with other calls.        *)
(***************************************************************************)
EXTENDS Naturals, Sequences, FiniteSets

CONSTANTS
    DNs,        \* the distinguished names objects may have
    MaxSeq,     \* bound on the objects ever created
    Lists       \* the lists of identities an edit may be given

Guids == 1 .. MaxSeq

Identities == [form : {"guid"}, arg : Guids] \cup [form : {"dn"}, arg : DNs]

ASSUME MembershipConstants == MaxSeq \in Nat /\ Lists \subseteq Seq(Identities)

VARIABLES
    byDN,       \* byDN[d]: the object whose DN is d
    seq,        \* the number of GUIDs handed out
    call,       \* the edit or walk that holds store.mu, or Idle
    added       \* history: the pairs <<group, member>> of live objects whose
                \* last successful edit added the member

vars == <<byDN, seq, call, added>>

(* Only whether an object is a group matters; "account" is every other class. *)
Classes == {"group", "account"}

Objects == [guid : Guids, class : Classes, members : SUBSET Guids]

Idle == [op |-> "idle"]

(* An edit: its group's DN, the list it was given, how many identities it  *)
(* has applied, and the members its group had when it began.               *)
Edits ==
    [op : {"add", "remove"}, group : DNs, list : Lists, n : Nat,
     status : {"running", "ok", "not found"}, start : SUBSET Guids]

(* A walk: the frames of the recursion are the members each has yet to     *)
(* visit, the innermost last.                                              *)
Walks == [op : {"walk"}, root : DNs, seen : SUBSET Guids, out : Seq(Guids),
          frames : Seq(SUBSET Guids)]

TypeOK ==
    /\ DOMAIN byDN \subseteq DNs /\ \A d \in DOMAIN byDN : byDN[d] \in Objects
    /\ seq \in 0 .. MaxSeq
    /\ call \in {Idle} \cup Edits \cup Walks
    /\ call # Idle => (IF call.op = "walk" THEN call.root ELSE call.group) \in DOMAIN byDN
    /\ added \subseteq Guids \X Guids

Init ==
    /\ byDN = [d \in {} |-> Idle]
    /\ seq = 0
    /\ call = Idle
    /\ added = {}

-----------------------------------------------------------------------------
(* findLocked, for the two forms that matter here, as the set of its results. *)
Found(id) == {d \in DOMAIN byDN : IF id.form = "guid" THEN byDN[d].guid = id.arg ELSE d = id.arg}

Live(guid) == {d \in DOMAIN byDN : byDN[d].guid = guid}

Groups == {d \in DOMAIN byDN : byDN[d].class = "group"}

(* memberModelsLocked: members are kept by GUID, and a GUID that no object *)
(* has any more is passed over.                                            *)
MemberModels(d) == {m \in byDN[d].members : Live(m) # {}}

IsMember(d, guid) == guid \in byDN[d].members

(* What a deletion, or a rename landing on an object, takes out of added. *)
Forget(guids) == {p \in added : p[1] \notin guids /\ p[2] \notin guids}

-----------------------------------------------------------------------------
(* Mutant of NextGUID: the number of objects in place of a counter. *)
NextGUIDReused == Cardinality(DOMAIN byDN) + 1

NextGUID == seq + 1

Create(d, class) ==
    /\ call = Idle /\ seq < MaxSeq
    /\ d \notin DOMAIN byDN
    /\ byDN' = [e \in DOMAIN byDN \cup {d} |->
                   IF e = d THEN [guid |-> NextGUID, class |-> class, members |-> {}] ELSE byDN[e]]
    /\ seq' = seq + 1
    /\ UNCHANGED <<call, added>>

(* Update moves the object in place; an object already at the new DN is lost. *)
Rename(d, new) ==
    /\ call = Idle
    /\ d \in DOMAIN byDN /\ new # d
    /\ byDN' = [e \in (DOMAIN byDN \ {d}) \cup {new} |-> IF e = new THEN byDN[d] ELSE byDN[e]]
    /\ added' = Forget({byDN[e].guid : e \in DOMAIN byDN \cap {new}})
    /\ UNCHANGED <<seq, call>>

(* Mutant of Delete: it does not wait for the call that holds store.mu. *)
DeleteUnlocked(d) ==
    /\ d \in DOMAIN byDN
    /\ byDN' = [e \in DOMAIN byDN \ {d} |-> byDN[e]]
    /\ added' = Forget({byDN[d].guid})
    /\ UNCHANGED <<seq, call>>

(* Delete does not look for the groups that list the object. *)
Delete(d) ==
    /\ call = Idle
    /\ d \in DOMAIN byDN
    /\ byDN' = [e \in DOMAIN byDN \ {d} |-> byDN[e]]
    /\ added' = Forget({byDN[d].guid})
    /\ UNCHANGED <<seq, call>>

-----------------------------------------------------------------------------
(* An edit with an empty list returns without taking a lock. *)
StartEdit(op, d, list) ==
    /\ call = Idle
    /\ d \in Groups /\ list # <<>>
    /\ call' = [op |-> op, group |-> d, list |-> list, n |-> 0, status |-> "running",
                start |-> byDN[d].members]
    /\ UNCHANGED <<byDN, seq, added>>

Editing == call.op \in {"add", "remove"} /\ call.status = "running"

(* Mutants of NotResolved: the identity is looked up again; it is skipped. *)
Retried == UNCHANGED <<byDN, added, call>>

Skipped ==
    /\ call' = [call EXCEPT !.n = @ + 1]
    /\ UNCHANGED <<byDN, added>>

(* The edit ends at an identity that resolves to nothing, and what it has  *)
(* applied so far stays.                                                   *)
NotResolved ==
    /\ call' = [call EXCEPT !.status = "not found"]
    /\ UNCHANGED <<byDN, added>>

EditMember ==
    /\ Editing /\ call.n < Len(call.list)
    /\ LET found == Found(call.list[call.n + 1]) IN
          \/ found = {} /\ NotResolved
          \/ \E m \in found :
                LET pair == <<byDN[call.group].guid, byDN[m].guid>> IN
                /\ byDN' = [byDN EXCEPT ![call.group].members =
                               IF call.op = "add" THEN @ \cup {pair[2]} ELSE @ \ {pair[2]}]
                /\ added' = IF call.op = "add" THEN added \cup {pair} ELSE added \ {pair}
                /\ call' = [call EXCEPT !.n = @ + 1]
    /\ UNCHANGED seq

EndEdit ==
    /\ Editing /\ call.n = Len(call.list)
    /\ call' = [call EXCEPT !.status = "ok"]
    /\ UNCHANGED <<byDN, seq, added>>

-----------------------------------------------------------------------------
StartWalk(d) ==
    /\ call = Idle
    /\ d \in Groups
    /\ call' = [op |-> "walk", root |-> d, seen |-> {}, out |-> <<>>,
                frames |-> <<byDN[d].members>>]
    /\ UNCHANGED <<byDN, seq, added>>

Walking == call.op = "walk" /\ call.frames # <<>>

Top == call.frames[Len(call.frames)]

(* The frames once guid has been taken from the innermost. *)
Visited(guid) == [call.frames EXCEPT ![Len(call.frames)] = @ \ {guid}]

(* Mutants of Marked: only groups are marked as seen; only accounts are. *)
MarkedGroup(m)   == IF m.class = "group" THEN call.seen \cup {m.guid} ELSE call.seen
MarkedAccount(m) == IF m.class = "group" THEN call.seen ELSE call.seen \cup {m.guid}

Marked(m) == call.seen \cup {m.guid}

(* One iteration of walk: a member seen before, or deleted, is passed over; *)
(* a group is descended into; anything else is reported.                    *)
Visit(guid) ==
    /\ Walking /\ guid \in Top
    /\ \/ /\ guid \in call.seen \/ Live(guid) = {}
          /\ call' = [call EXCEPT !.seen = @ \cup {guid}, !.frames = Visited(guid)]
       \/ /\ guid \notin call.seen
          /\ \E d \in Live(guid) :
                LET m == byDN[d] IN
                IF m.class = "group"
                THEN call' = [call EXCEPT !.seen = Marked(m),
                                          !.frames = Append(Visited(guid), m.members)]
                ELSE call' = [call EXCEPT !.seen = Marked(m), !.frames = Visited(guid),
                                          !.out = Append(@, guid)]
    /\ UNCHANGED <<byDN, seq, added>>

Leave ==
    /\ Walking /\ Top = {}
    /\ call' = [call EXCEPT !.frames = SubSeq(@, 1, Len(@) - 1)]
    /\ UNCHANGED <<byDN, seq, added>>

Done == \/ (call.op = "walk" /\ call.frames = <<>>)
        \/ (call.op \in {"add", "remove"} /\ call.status # "running")

Return ==
    /\ Done
    /\ call' = Idle
    /\ UNCHANGED <<byDN, seq, added>>

-----------------------------------------------------------------------------
(* What the call holding store.mu does next. *)
Continue ==
    \/ EditMember
    \/ EndEdit
    \/ \E guid \in Guids : Visit(guid)
    \/ Leave
    \/ Return

Next ==
    \/ \E d \in DNs :
          \/ \E class \in Classes : Create(d, class)
          \/ \E new \in DNs : Rename(d, new)
          \/ Delete(d)
          \/ \E op \in {"add", "remove"}, list \in Lists : StartEdit(op, d, list)
          \/ StartWalk(d)
    \/ Continue

Spec == Init /\ [][Next]_vars

(* A call that has store.mu runs to its end: it waits for nothing. *)
FairSpec == Spec /\ WF_vars(Continue)

-----------------------------------------------------------------------------
(* Members reports exactly the live objects that a completed step of an    *)
(* edit added and none has removed since: not one that was deleted, nor    *)
(* another created later under the same DN (memberModelsLocked, nextGUID). *)
MembersAreAdded ==
    \A d \in Groups : MemberModels(d) = {m \in Guids : <<byDN[d].guid, m>> \in added}

(* The objects the identities of list up to the nth resolve to. *)
Resolved(list, n) == {byDN[d].guid : d \in UNION {Found(list[i]) : i \in 1 .. n}}

(* An edit that returns nil has put every object it was given in, or out,  *)
(* even if named twice in different forms, and touched no other member;    *)
(* one that fails has done so for exactly the identities ahead of the      *)
(* first that does not resolve (editMembers).                              *)
EditsApplyAPrefix ==
    call.op \in {"add", "remove"} =>
        LET given == Resolved(call.list, call.n) IN
        /\ byDN[call.group].members =
              IF call.op = "add" THEN call.start \cup given ELSE call.start \ given
        /\ \A i \in 1 .. call.n : Found(call.list[i]) # {}
        /\ call.status = "ok" => call.n = Len(call.list)
        /\ call.status = "not found" =>
              call.n < Len(call.list) /\ Found(call.list[call.n + 1]) = {}

(* A set of objects that has, with a group, all of the group's members. *)
Closed(guids) == \A g \in Groups : byDN[g].guid \in guids => byDN[g].members \subseteq guids

(* The objects a chain of memberships leads to from the group at d: those  *)
(* in every closed set its members are in.                                 *)
Within(d) ==
    {g \in Guids : \A guids \in SUBSET Guids :
                       byDN[d].members \subseteq guids /\ Closed(guids) => g \in guids}

(* MembersRecursive reports every account that a chain of groups leads to, *)
(* each once, whatever the order of the maps and however groups are nested *)
(* in each other or in themselves.                                         *)
WalkFindsEachOnce ==
    call.op = "walk" /\ call.frames = <<>> =>
        /\ {call.out[i] : i \in DOMAIN call.out} =
              {g \in Within(call.root) : \E d \in Live(g) : byDN[d].class = "account"}
        /\ \A i, j \in DOMAIN call.out : i # j => call.out[i] # call.out[j]

(* The walk is inside each group at most once, the one it began at twice:  *)
(* its recursion is no deeper than the groups are many.                    *)
WalkDepthBounded == call.op = "walk" => Len(call.frames) <= Cardinality(Groups) + 1

(* Every call returns, on cyclic groups too: the walk is not endless. *)
CallsReturn == call # Idle ~> call = Idle
=============================================================================
