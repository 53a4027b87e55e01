-------------------------- MODULE MembershipProofs --------------------------
(***************************************************************************)
(* Machine-checked proofs about Membership, for any sets of DNs and lists  *)
(* of identities and any number of objects.                                *)
(*                                                                         *)
(* What Members reports follows the object and not its DN because a GUID   *)
(* names at most one object and is not handed out again; an edit applies   *)
(* its list one by one because each of its identities resolves to one      *)
(* object at most; and the walk is right because, at every step of it,     *)
(* what it has still to visit lies in its frames.                          *)
(***************************************************************************)
EXTENDS Membership, Integers, FiniteSetTheorems, SequenceTheorems, TLAPS

(* The map is finite; a GUID names one object, and was handed out.         *)
UniqueGuids ==
    /\ IsFiniteSet(DOMAIN byDN)
    /\ \A d, e \in DOMAIN byDN : byDN[d].guid = byDN[e].guid => d = e
    /\ \A d \in DOMAIN byDN : byDN[d].guid \in 1 .. seq

(* Only GUIDs that were handed out are members. *)
KnownMembers == \A d \in DOMAIN byDN : byDN[d].members \subseteq 1 .. seq

(* The pairs of the history are of objects that are there. *)
AddedLive == \A p \in added : Live(p[1]) # {} /\ Live(p[2]) # {}

(* An edit works on a group, and on the objects of its list in turn. *)
EditGroup == call.op \in {"add", "remove"} => call.group \in Groups /\ call.n <= Len(call.list)

(* What the frames of the walk have still to visit. *)
Pending(frames) == UNION {frames[i] : i \in 1 .. Len(frames)}

(* The groups the walk has seen. *)
SeenGroups == {g \in Groups : byDN[g].guid \in call.seen}

(* The walk has one frame for the root and one, at most, for every group   *)
(* it has seen.                                                            *)
FramesSeen == call.op = "walk" => Len(call.frames) <= Cardinality(SeenGroups) + 1

(* The members of the root and of every group seen are seen or pending.    *)
NothingMissed ==
    call.op = "walk" =>
        /\ byDN[call.root].members \subseteq call.seen \cup Pending(call.frames)
        /\ \A g \in SeenGroups : byDN[g].members \subseteq call.seen \cup Pending(call.frames)

(* A chain of memberships leads to all that is seen or pending. *)
NothingElse ==
    call.op = "walk" => call.seen \cup Pending(call.frames) \subseteq Within(call.root)

(* What is reported are the accounts among the objects seen, each once. *)
Reported ==
    call.op = "walk" =>
        /\ {call.out[i] : i \in DOMAIN call.out} =
              {g \in call.seen : \E d \in Live(g) : byDN[d].class = "account"}
        /\ \A i, j \in DOMAIN call.out : i # j => call.out[i] # call.out[j]

StoreInv == TypeOK /\ UniqueGuids /\ KnownMembers /\ AddedLive /\ MembersAreAdded
EditInv  == EditGroup /\ EditsApplyAPrefix
WalkInv  == FramesSeen /\ NothingMissed /\ NothingElse /\ Reported
IInv     == StoreInv /\ EditInv /\ WalkInv
-----------------------------------------------------------------------------
(* The call is idle, an edit or a walk, and its op says which. *)
LEMMA CallCases ==
    ASSUME TypeOK
    PROVE  /\ call.op = "idle" => call = Idle
           /\ call.op \in {"add", "remove"} => call \in Edits /\ call.group \in DOMAIN byDN
           /\ call.op = "walk" => call \in Walks /\ call.root \in DOMAIN byDN
           /\ call.op \in {"idle", "add", "remove", "walk"}
<1>1. CASE call = Idle
  BY <1>1 DEF Idle
<1>2. CASE call \in Edits
  <2>1. call.op \in {"add", "remove"}
    BY <1>2 DEF Edits
  <2>2. call # Idle
    BY <2>1 DEF Idle
  <2>. QED  BY <1>2, <2>1, <2>2 DEF TypeOK
<1>3. CASE call \in Walks
  <2>1. call.op = "walk"
    BY <1>3 DEF Walks
  <2>2. call # Idle
    BY <2>1 DEF Idle
  <2>. QED  BY <1>3, <2>1, <2>2 DEF TypeOK
<1>. QED  BY <1>1, <1>2, <1>3 DEF TypeOK

LEMMA InitInv == Init => IInv
<1>. SUFFICES ASSUME Init PROVE IInv
  OBVIOUS
<1>1. DOMAIN byDN = {} /\ call = Idle /\ call.op = "idle" /\ added = {} /\ seq = 0
  BY DEF Init, Idle
<1>2. UniqueGuids
  BY <1>1, FS_EmptySet DEF UniqueGuids
<1>3. TypeOK /\ KnownMembers /\ AddedLive /\ MembersAreAdded
  BY <1>1, MembershipConstants DEF TypeOK, KnownMembers, AddedLive, MembersAreAdded, Groups
<1>4. EditInv /\ WalkInv
  BY <1>1 DEF EditInv, EditGroup, EditsApplyAPrefix, WalkInv, FramesSeen, NothingMissed,
              NothingElse, Reported
<1>. QED  BY <1>2, <1>3, <1>4 DEF IInv, StoreInv

(* While no call holds the lock there is nothing to say of calls. *)
LEMMA IdleInv ==
    ASSUME call' = Idle
    PROVE  EditInv' /\ WalkInv'
BY DEF Idle, EditInv, EditGroup, EditsApplyAPrefix, WalkInv, FramesSeen, NothingMissed,
       NothingElse, Reported

LEMMA CreateStep ==
    ASSUME StoreInv, NEW d \in DNs, NEW class \in Classes, Create(d, class)
    PROVE  IInv'
<1>. USE DEF Create, NextGUID, StoreInv
<1>1. /\ d \notin DOMAIN byDN /\ DOMAIN byDN' = DOMAIN byDN \cup {d}
      /\ byDN'[d] = [guid |-> seq + 1, class |-> class, members |-> {}]
      /\ \A e \in DOMAIN byDN : e # d /\ byDN'[e] = byDN[e]
      /\ seq \in Nat /\ seq' = seq + 1 /\ seq' <= MaxSeq
  BY MembershipConstants DEF TypeOK
<1>2. TypeOK'
  <2>1. byDN'[d] \in Objects
    BY <1>1, MembershipConstants DEF Objects, Guids
  <2>2. seq' \in 0 .. MaxSeq
    BY <1>1, MembershipConstants
  <2>. QED  BY <1>1, <2>1, <2>2 DEF TypeOK
<1>3. 1 .. seq \subseteq 1 .. seq' /\ seq' \in 1 .. seq' /\ seq' \notin 1 .. seq
  BY <1>1
<1>4. UniqueGuids'
  BY <1>1, <1>3, FS_AddElement DEF UniqueGuids
<1>5. KnownMembers'
  BY <1>1, <1>3 DEF KnownMembers
<1>6. \A x : Live(x) \subseteq Live(x)' /\ (x # seq + 1 => Live(x)' = Live(x))
  BY <1>1 DEF Live
<1>7. AddedLive'
  BY <1>6 DEF AddedLive
<1>8. MembersAreAdded'
  <2>. SUFFICES ASSUME NEW e \in Groups'
                PROVE  MemberModels(e)' = {m \in Guids : <<byDN'[e].guid, m>> \in added}
    BY DEF MembersAreAdded
  <2>1. CASE e = d
    <3>1. \A p \in added : p[1] # seq + 1
      BY <1>3, <1>1 DEF AddedLive, Live, UniqueGuids
    <3>2. \A m : <<seq + 1, m>> \notin added
      BY <3>1
    <3>. QED  BY <1>1, <2>1, <3>2 DEF MemberModels
  <2>2. CASE e # d
    <3>1. e \in Groups /\ byDN'[e] = byDN[e] /\ e \in DOMAIN byDN
      BY <1>1, <2>2 DEF Groups
    <3>2. \A m \in byDN[e].members : m # seq + 1
      BY <1>1, <3>1 DEF KnownMembers
    <3>3. MemberModels(e)' = MemberModels(e)
      BY <1>6, <3>1, <3>2 DEF MemberModels
    <3>. QED  BY <3>1, <3>3 DEF MembersAreAdded
  <2>. QED  BY <2>1, <2>2
<1>. QED  BY <1>2, <1>4, <1>5, <1>7, <1>8, IdleInv DEF IInv

(* Objects stay in the map, under another DN or not; those that go take    *)
(* their pairs with them.  from tells where an object was.                 *)
LEMMA MoveOrDrop ==
    ASSUME StoreInv, NEW gone, NEW from,
           gone \subseteq {byDN[e].guid : e \in DOMAIN byDN},
           DOMAIN byDN' \subseteq DNs, IsFiniteSet(DOMAIN byDN'),
           \A e \in DOMAIN byDN' : from[e] \in DOMAIN byDN /\ byDN'[e] = byDN[from[e]]
                                       /\ byDN[from[e]].guid \notin gone,
           \A e \in DOMAIN byDN : byDN[e].guid \in gone \/ \E f \in DOMAIN byDN' : from[f] = e,
           \A e, f \in DOMAIN byDN' : from[e] = from[f] => e = f,
           added' = Forget(gone), seq' = seq, call' = Idle
    PROVE  IInv'
<1>. USE DEF StoreInv
<1>1. TypeOK'
  <2>1. added' \subseteq Guids \X Guids
    BY DEF TypeOK, Forget
  <2>. QED  BY <2>1 DEF TypeOK
<1>2. UniqueGuids'
  BY DEF UniqueGuids
<1>3. KnownMembers'
  BY DEF KnownMembers
<1>4. \A x : Live(x)' # {} <=> (Live(x) # {} /\ x \notin gone)
  <2>. SUFFICES ASSUME NEW x PROVE Live(x)' # {} <=> (Live(x) # {} /\ x \notin gone)
    OBVIOUS
  <2>1. ASSUME NEW e \in Live(x)' PROVE from[e] \in Live(x) /\ x \notin gone
    BY <2>1 DEF Live
  <2>2. ASSUME NEW e \in Live(x), x \notin gone PROVE Live(x)' # {}
    <3>1. e \in DOMAIN byDN /\ byDN[e].guid = x
      BY DEF Live
    <3>2. PICK f \in DOMAIN byDN' : from[f] = e
      BY <2>2, <3>1
    <3>3. f \in Live(x)'
      BY <3>1, <3>2 DEF Live
    <3>. QED  BY <3>3
  <2>. QED  BY <2>1, <2>2
<1>5. AddedLive'
  BY <1>4 DEF AddedLive, Forget
<1>6. MembersAreAdded'
  <2>. SUFFICES ASSUME NEW e \in Groups'
                PROVE  MemberModels(e)' = {m \in Guids : <<byDN'[e].guid, m>> \in added'}
    BY DEF MembersAreAdded
  <2>1. e \in DOMAIN byDN' /\ from[e] \in Groups /\ byDN'[e] = byDN[from[e]]
    BY DEF Groups
  <2>2. MemberModels(e)' = {m \in MemberModels(from[e]) : m \notin gone}
    BY <1>4, <2>1 DEF MemberModels
  <2>3. MemberModels(from[e]) = {m \in Guids : <<byDN[from[e]].guid, m>> \in added}
    BY <2>1 DEF MembersAreAdded
  <2>4. \A m : <<byDN[from[e]].guid, m>> \in added'
                   <=> <<byDN[from[e]].guid, m>> \in added /\ m \notin gone
    BY <2>1 DEF Forget
  <2>. QED  BY <2>1, <2>2, <2>3, <2>4
<1>. QED  BY <1>1, <1>2, <1>3, <1>5, <1>6, IdleInv DEF IInv

LEMMA RenameStep ==
    ASSUME StoreInv, NEW d \in DNs, NEW new \in DNs, Rename(d, new)
    PROVE  IInv'
<1>. DEFINE gone == {byDN[e].guid : e \in DOMAIN byDN \cap {new}}
            from == [e \in (DOMAIN byDN \ {d}) \cup {new} |-> IF e = new THEN d ELSE e]
<1>1. /\ call' = Idle /\ seq' = seq /\ added' = Forget(gone)
      /\ d \in DOMAIN byDN /\ d # new /\ DOMAIN byDN \subseteq DNs
      /\ DOMAIN byDN' = (DOMAIN byDN \ {d}) \cup {new}
      /\ \A e \in DOMAIN byDN' : byDN'[e] = byDN[from[e]]
  BY DEF Rename, StoreInv, TypeOK
<1>2. IsFiniteSet(DOMAIN byDN')
  <2>1. IsFiniteSet(DOMAIN byDN \ {d})
    BY FS_RemoveElement DEF StoreInv, UniqueGuids
  <2>. QED  BY <1>1, <2>1, FS_AddElement
<1>3. gone \subseteq {byDN[e].guid : e \in DOMAIN byDN}
  OBVIOUS
<1>4. \A e \in DOMAIN byDN' : from[e] \in DOMAIN byDN /\ byDN[from[e]].guid \notin gone
  BY <1>1 DEF StoreInv, UniqueGuids
<1>5. \A e \in DOMAIN byDN : byDN[e].guid \in gone \/ \E f \in DOMAIN byDN' : from[f] = e
  <2>. SUFFICES ASSUME NEW e \in DOMAIN byDN, e # new
                PROVE  \E f \in DOMAIN byDN' : from[f] = e
    OBVIOUS
  <2>1. CASE e = d
    BY <1>1, <2>1
  <2>2. CASE e # d
    BY <1>1, <2>2
  <2>. QED  BY <2>1, <2>2
<1>6. \A e, f \in DOMAIN byDN' : from[e] = from[f] => e = f
  BY <1>1
<1>7. DOMAIN byDN' \subseteq DNs
  BY <1>1
<1>. HIDE DEF gone, from
<1>. QED  BY <1>1, <1>2, <1>3, <1>4, <1>5, <1>6, <1>7, MoveOrDrop

LEMMA DeleteStep ==
    ASSUME StoreInv, NEW d \in DNs, Delete(d)
    PROVE  IInv'
<1>. DEFINE gone == {byDN[d].guid}
            from == [e \in DOMAIN byDN \ {d} |-> e]
<1>1. /\ call' = Idle /\ seq' = seq /\ added' = Forget(gone)
      /\ d \in DOMAIN byDN /\ DOMAIN byDN \subseteq DNs
      /\ DOMAIN byDN' = DOMAIN byDN \ {d}
      /\ \A e \in DOMAIN byDN' : from[e] = e /\ byDN'[e] = byDN[from[e]]
  BY DEF Delete, StoreInv, TypeOK
<1>2. IsFiniteSet(DOMAIN byDN')
  BY <1>1, FS_RemoveElement DEF StoreInv, UniqueGuids
<1>3. gone \subseteq {byDN[e].guid : e \in DOMAIN byDN}
  BY <1>1
<1>4. \A e \in DOMAIN byDN' : from[e] \in DOMAIN byDN /\ byDN[from[e]].guid \notin gone
  BY <1>1 DEF StoreInv, UniqueGuids
<1>5. \A e \in DOMAIN byDN : byDN[e].guid \in gone \/ \E f \in DOMAIN byDN' : from[f] = e
  BY <1>1
<1>6. (\A e, f \in DOMAIN byDN' : from[e] = from[f] => e = f) /\ DOMAIN byDN' \subseteq DNs
  BY <1>1
<1>. HIDE DEF gone, from
<1>. QED  BY <1>1, <1>2, <1>3, <1>4, <1>5, <1>6, MoveOrDrop

-----------------------------------------------------------------------------
(* An identity resolves to one object at most. *)
LEMMA FoundOne ==
    ASSUME UniqueGuids, NEW id, NEW d \in Found(id), NEW e \in Found(id)
    PROVE  d = e
BY DEF UniqueGuids, Found

LEMMA StartEditStep ==
    ASSUME StoreInv, NEW op \in {"add", "remove"}, NEW d \in DNs, NEW list \in Lists,
           StartEdit(op, d, list)
    PROVE  IInv'
<1>. USE DEF StartEdit
<1>1. d \in DOMAIN byDN /\ byDN[d].members \subseteq Guids /\ UNCHANGED <<byDN, seq, added>>
  BY DEF StoreInv, TypeOK, Groups, Objects
<1>2. call' \in Edits /\ call'.op = op /\ call'.group = d /\ call'.list = list /\ call'.n = 0
          /\ call'.status = "running" /\ call'.start = byDN[d].members
  BY <1>1 DEF Edits
<1>. HIDE DEF StartEdit
<1>3. TypeOK'
  BY <1>1, <1>2 DEF StoreInv, TypeOK
<1>4. (UniqueGuids /\ KnownMembers /\ AddedLive /\ MembersAreAdded)'
  BY <1>1 DEF StoreInv, UniqueGuids, KnownMembers, AddedLive, Live, MembersAreAdded, Groups,
              MemberModels
<1>5. list \in Seq(Identities) /\ Len(list) \in Nat
  BY MembershipConstants, LenProperties
<1>6. EditGroup'
  BY <1>1, <1>2, <1>5 DEF EditGroup, StartEdit, Groups
<1>7. EditsApplyAPrefix'
  <2>1. Resolved(call.list, call.n)' = {}
    BY <1>2 DEF Resolved
  <2>. QED  BY <1>1, <1>2, <2>1 DEF EditsApplyAPrefix
<1>8. WalkInv'
  BY <1>2 DEF WalkInv, FramesSeen, NothingMissed, NothingElse, Reported
<1>. QED  BY <1>3, <1>4, <1>6, <1>7, <1>8 DEF IInv, StoreInv, EditInv

(* A step of an edit or a walk that leaves the store as it is. *)
LEMMA StoreKept ==
    ASSUME StoreInv, UNCHANGED <<byDN, seq, added>>, TypeOK'
    PROVE  StoreInv'
BY DEF StoreInv, UniqueGuids, KnownMembers, AddedLive, Live, MembersAreAdded, Groups, MemberModels

LEMMA ReturnStep ==
    ASSUME IInv, Return
    PROVE  IInv'
<1>1. TypeOK' /\ call' = Idle
  BY DEF IInv, StoreInv, TypeOK, Return
<1>. QED  BY <1>1, StoreKept, IdleInv DEF IInv, Return

(* Once a step of an edit or a walk is done the other has nothing to say.  *)
LEMMA NotWalking == ASSUME call'.op \in {"add", "remove"} PROVE WalkInv'
BY DEF WalkInv, FramesSeen, NothingMissed, NothingElse, Reported

LEMMA NotEditing == ASSUME call'.op = "walk" PROVE EditInv'
BY DEF EditInv, EditGroup, EditsApplyAPrefix

(* The end of the list, or an identity that resolves to nothing. *)
LEMMA StopEditStep ==
    ASSUME IInv, Editing, UNCHANGED <<byDN, seq, added>>, NEW status \in {"ok", "not found"},
           call' = [call EXCEPT !.status = status],
           status = "ok" => call.n = Len(call.list),
           status = "not found" => call.n < Len(call.list) /\ Found(call.list[call.n + 1]) = {}
    PROVE  IInv'
<1>1. call \in Edits /\ call.group \in DOMAIN byDN /\ call.op \in {"add", "remove"}
  BY CallCases DEF IInv, StoreInv, Editing
<1>2. /\ call' \in Edits /\ call'.op = call.op /\ call'.group = call.group
      /\ call'.list = call.list /\ call'.n = call.n /\ call'.start = call.start
      /\ call'.status = status
  BY <1>1 DEF Edits
<1>3. TypeOK'
  BY <1>1, <1>2 DEF IInv, StoreInv, TypeOK
<1>4. EditGroup'
  BY <1>1, <1>2 DEF IInv, EditInv, EditGroup, Groups
<1>5. EditsApplyAPrefix'
  <2>1. \A id : Found(id)' = Found(id)
    BY DEF Found
  <2>2. Resolved(call.list, call.n)' = Resolved(call.list, call.n)
    BY <1>2, <2>1 DEF Resolved
  <2>3. EditsApplyAPrefix
    BY DEF IInv, EditInv
  <2>. QED  BY <1>1, <1>2, <2>1, <2>2, <2>3 DEF EditsApplyAPrefix
<1>. QED  BY <1>1, <1>2, <1>3, <1>4, <1>5, StoreKept, NotWalking DEF IInv, EditInv

(* One identity of the list resolves to m, which the group gains or loses. *)
LEMMA EditOneStep ==
    ASSUME IInv, Editing, call.n < Len(call.list), NEW m \in Found(call.list[call.n + 1]),
           NEW g, NEW x, g = call.group, x = byDN[m].guid,
           byDN' = [byDN EXCEPT ![g].members =
                       IF call.op = "add" THEN @ \cup {x} ELSE @ \ {x}],
           added' = IF call.op = "add" THEN added \cup {<<byDN[g].guid, x>>}
                    ELSE added \ {<<byDN[g].guid, x>>},
           call' = [call EXCEPT !.n = @ + 1], UNCHANGED seq
    PROVE  IInv'
<1>. DEFINE edited(s) == IF call.op = "add" THEN s \cup {x} ELSE s \ {x}
<1>1. call \in Edits /\ g \in DOMAIN byDN /\ call.op \in {"add", "remove"} /\ g \in Groups
  BY CallCases DEF IInv, StoreInv, EditInv, EditGroup, Editing
<1>2. /\ call' \in Edits /\ call'.op = call.op /\ call'.group = g /\ call'.list = call.list
      /\ call'.n = call.n + 1 /\ call.n \in Nat /\ call'.start = call.start
      /\ call'.status = call.status /\ call.status = "running"
  <2>0. call.n \in Nat
    BY <1>1 DEF Edits
  <2>1. call.n + 1 \in Nat
    BY <2>0
  <2>. QED  BY <1>1, <2>0, <2>1 DEF Edits, Editing
<1>3. m \in DOMAIN byDN /\ x \in Guids /\ x \in 1 .. seq
  BY DEF Found, IInv, StoreInv, UniqueGuids, TypeOK, Objects
<1>4. /\ DOMAIN byDN' = DOMAIN byDN
      /\ \A e \in DOMAIN byDN :
            /\ byDN'[e].guid = byDN[e].guid /\ byDN'[e].class = byDN[e].class
            /\ byDN'[e].members = IF e = g THEN edited(byDN[e].members) ELSE byDN[e].members
            /\ byDN'[e] \in Objects
  <2>. HIDE DEF edited
  <2>1. byDN[g] \in Objects /\ DOMAIN byDN' = DOMAIN byDN
    BY <1>1 DEF IInv, StoreInv, TypeOK
  <2>2. byDN'[g] = [byDN[g] EXCEPT !.members = edited(byDN[g].members)]
    BY <1>1 DEF edited
  <2>3. byDN'[g].guid = byDN[g].guid /\ byDN'[g].class = byDN[g].class
            /\ byDN'[g].members = edited(byDN[g].members) /\ byDN'[g] \in Objects
    <3>1. edited(byDN[g].members) \in SUBSET Guids
      BY <1>3, <2>1 DEF Objects, edited
    <3>. QED  BY <2>1, <2>2, <3>1 DEF Objects
  <2>4. \A e \in DOMAIN byDN : e # g => byDN'[e] = byDN[e] /\ byDN[e] \in Objects
    BY DEF IInv, StoreInv, TypeOK
  <2>. QED  BY <2>1, <2>3, <2>4
<1>6. byDN[g].guid \in Guids
  BY <1>1 DEF IInv, StoreInv, TypeOK, Objects
<1>7. TypeOK'
  <2>1. call' # Idle /\ call'.op # "walk"
    BY <1>1, <1>2 DEF Idle
  <2>2. added' \subseteq Guids \X Guids
    BY <1>3, <1>6 DEF IInv, StoreInv, TypeOK
  <2>. QED  BY <1>1, <1>2, <1>4, <2>1, <2>2 DEF IInv, StoreInv, TypeOK
<1>8. UniqueGuids' /\ KnownMembers'
  BY <1>1, <1>3, <1>4 DEF IInv, StoreInv, UniqueGuids, KnownMembers
<1>9. Groups' = Groups /\ (\A y : Live(y)' = Live(y)) /\ \A id : Found(id)' = Found(id)
  BY <1>4 DEF Groups, Live, Found
<1>10. AddedLive'
  <2>1. Live(byDN[g].guid) # {} /\ Live(x) # {}
    BY <1>1, <1>3 DEF Live
  <2>. QED  BY <1>9, <2>1 DEF IInv, StoreInv, AddedLive
<1>11. MembersAreAdded'
  <2>. SUFFICES ASSUME NEW e \in Groups
                PROVE  MemberModels(e)' = {y \in Guids : <<byDN'[e].guid, y>> \in added'}
    BY <1>9 DEF MembersAreAdded
  <2>1. e \in DOMAIN byDN /\ MemberModels(e) = {y \in Guids : <<byDN[e].guid, y>> \in added}
    BY DEF IInv, StoreInv, MembersAreAdded, Groups
  <2>2. MemberModels(e)' = {y \in byDN'[e].members : Live(y) # {}}
    BY <1>9 DEF MemberModels
  <2>3. CASE e = g
    <3>1. Live(x) # {}
      BY <1>3 DEF Live
    <3>2. byDN'[e].members = edited(byDN[e].members) /\ byDN'[e].guid = byDN[g].guid
      BY <1>4, <2>1, <2>3
    <3>3. \A y : y \in MemberModels(e) <=> y \in byDN[e].members /\ Live(y) # {}
      BY DEF MemberModels
    <3>4. \A y : y \in MemberModels(e) <=> y \in Guids /\ <<byDN[g].guid, y>> \in added
      BY <2>1, <2>3
    <3>5. CASE call.op = "add"
      <4>1. \A y : y \in MemberModels(e)' <=> y \in MemberModels(e) \/ y = x
        BY <2>2, <3>1, <3>2, <3>3, <3>5
      <4>2. \A y : y \in MemberModels(e)' <=> y \in Guids /\ <<byDN'[e].guid, y>> \in added'
        BY <1>3, <3>2, <3>4, <3>5, <4>1
      <4>. QED  BY <2>2, <4>2
    <3>6. CASE call.op # "add"
      <4>1. \A y : y \in MemberModels(e)' <=> y \in MemberModels(e) /\ y # x
        BY <2>2, <3>1, <3>2, <3>3, <3>6
      <4>2. \A y : y \in MemberModels(e)' <=> y \in Guids /\ <<byDN'[e].guid, y>> \in added'
        BY <1>3, <3>2, <3>4, <3>6, <4>1
      <4>. QED  BY <2>2, <4>2
    <3>. QED  BY <3>5, <3>6
  <2>4. CASE e # g
    <3>1. byDN[e].guid # byDN[g].guid
      BY <1>1, <2>1, <2>4 DEF IInv, StoreInv, UniqueGuids
    <3>2. MemberModels(e)' = MemberModels(e)
      BY <1>4, <2>1, <2>2, <2>4 DEF MemberModels
    <3>. QED  BY <1>4, <2>1, <3>1, <3>2
  <2>. QED  BY <2>3, <2>4
<1>12. EditGroup'
  <2>1. call.list \in Seq(Identities)
    BY <1>1, MembershipConstants DEF Edits
  <2>2. Len(call.list) \in Nat
    BY <2>1, LenProperties
  <2>. QED  BY <1>1, <1>2, <1>9, <2>2 DEF EditGroup
<1>13. EditsApplyAPrefix'
  <2>1. \A l, n : Resolved(l, n)' = Resolved(l, n)
    <3>. SUFFICES ASSUME NEW l, NEW n PROVE Resolved(l, n)' = Resolved(l, n)
      OBVIOUS
    <3>1. \A d \in UNION {Found(l[i]) : i \in 1 .. n} : byDN'[d].guid = byDN[d].guid
      BY <1>4 DEF Found
    <3>2. Resolved(l, n)' = {byDN'[d].guid : d \in UNION {Found(l[i]) : i \in 1 .. n}}
      BY <1>9 DEF Resolved
    <3>. QED  BY <3>1, <3>2 DEF Resolved
  <2>2. Resolved(call.list, call.n + 1) = Resolved(call.list, call.n) \cup {x}
    <3>1. Found(call.list[call.n + 1]) = {m}
      BY FoundOne DEF IInv, StoreInv
    <3>2. 1 .. call.n + 1 = (1 .. call.n) \cup {call.n + 1}
      BY <1>2
    <3>. QED  BY <3>1, <3>2 DEF Resolved
  <2>3. /\ byDN[g].members = IF call.op = "add" THEN call.start \cup Resolved(call.list, call.n)
                             ELSE call.start \ Resolved(call.list, call.n)
        /\ \A i \in 1 .. call.n : Found(call.list[i]) # {}
    BY <1>1 DEF IInv, EditInv, EditsApplyAPrefix
  <2>4. \A i \in 1 .. call.n + 1 : Found(call.list[i])' # {}
    BY <1>2, <1>9, <2>3
  <2>5. Resolved(call.list, call.n)' = Resolved(call.list, call.n) \cup {x}
    BY <1>2, <2>1, <2>2
  <2>6. byDN'[g].members = IF call.op = "add" THEN call.start \cup (Resolved(call.list, call.n) \cup {x})
                           ELSE call.start \ (Resolved(call.list, call.n) \cup {x})
    <3>. DEFINE given == Resolved(call.list, call.n)
    <3>1. byDN'[g].members = edited(byDN[g].members)
      BY <1>1, <1>4
    <3>2. CASE call.op = "add"
      <4>1. byDN'[g].members = (call.start \cup given) \cup {x}
        BY <2>3, <3>1, <3>2
      <4>. HIDE DEF given
      <4>. QED  BY <3>2, <4>1 DEF given
    <3>3. CASE call.op # "add"
      <4>1. byDN'[g].members = (call.start \ given) \ {x}
        BY <2>3, <3>1, <3>3
      <4>. QED  BY <3>3, <4>1
    <3>. QED  BY <3>2, <3>3
  <2>7. \A i \in 1 .. call'.n : Found(call.list[i])' # {}
    BY <1>2, <2>4
  <2>8. call'.status # "ok" /\ call'.status # "not found"
    BY <1>2
  <2>9. byDN'[call'.group].members = IF call'.op = "add" THEN call'.start \cup Resolved(call.list, call.n)'
                                     ELSE call'.start \ Resolved(call.list, call.n)'
    BY <1>2, <2>5, <2>6
  <2>. QED  BY <2>7, <2>8, <2>9 DEF EditsApplyAPrefix
<1>. QED  BY <1>1, <1>2, <1>7, <1>8, <1>10, <1>11, <1>12, <1>13, NotWalking
          DEF IInv, StoreInv, EditInv
-----------------------------------------------------------------------------
(* What is pending when an element is taken from the innermost frame, when *)
(* a frame is added, and when an empty one is left.                        *)
LEMMA PendingTaken ==
    ASSUME NEW f \in Seq(SUBSET Guids), f # <<>>, NEW guid
    PROVE  LET F == [f EXCEPT ![Len(f)] = @ \ {guid}] IN
           /\ F \in Seq(SUBSET Guids) /\ Len(F) = Len(f)
           /\ Pending(F) \subseteq Pending(f)
           /\ Pending(f) \subseteq Pending(F) \cup {guid}
<1>. DEFINE F == [f EXCEPT ![Len(f)] = @ \ {guid}]
<1>1. Len(f) \in Nat \ {0} /\ DOMAIN f = 1 .. Len(f) /\ Len(f) \in 1 .. Len(f)
  BY LenProperties, EmptySeq
<1>2. f[Len(f)] \in SUBSET Guids
  BY <1>1, ElementOfSeq
<1>3. F \in Seq(SUBSET Guids) /\ Len(F) = Len(f)
          /\ \A i \in 1 .. Len(f) : F[i] = IF i = Len(f) THEN f[i] \ {guid} ELSE f[i]
  <2>. DEFINE e == f[Len(f)] \ {guid}
              n == Len(f)
  <2>1. e \in SUBSET Guids
    BY <1>2
  <2>2. F = [f EXCEPT ![n] = e]
    OBVIOUS
  <2>3. /\ F \in Seq(SUBSET Guids) /\ Len(F) = Len(f)
        /\ \A i \in 1 .. Len(f) : F[i] = IF i = n THEN e ELSE f[i]
    <3>. HIDE DEF e, F, n
    <3>. QED  BY <1>1, <2>1, <2>2, ExceptSeq DEF n
  <2>. HIDE DEF F
  <2>. QED  BY <2>3
<1>. HIDE DEF F
<1>4. Pending(F) \subseteq Pending(f) /\ Pending(f) \subseteq Pending(F) \cup {guid}
  BY <1>3 DEF Pending
<1>. QED  BY <1>3, <1>4 DEF F

LEMMA PendingAppended ==
    ASSUME NEW f \in Seq(SUBSET Guids), NEW s \in SUBSET Guids
    PROVE  /\ Append(f, s) \in Seq(SUBSET Guids) /\ Len(Append(f, s)) = Len(f) + 1
           /\ Pending(Append(f, s)) = Pending(f) \cup s
<1>1. /\ Append(f, s) \in Seq(SUBSET Guids) /\ Len(Append(f, s)) = Len(f) + 1
      /\ \A i \in 1 .. Len(f) : Append(f, s)[i] = f[i]
      /\ Append(f, s)[Len(f) + 1] = s
  BY AppendProperties
<1>2. Len(f) \in Nat /\ 1 .. Len(f) + 1 = (1 .. Len(f)) \cup {Len(f) + 1}
  BY LenProperties
<1>. QED  BY <1>1, <1>2 DEF Pending

LEMMA PendingLeft ==
    ASSUME NEW f \in Seq(SUBSET Guids), f # <<>>, f[Len(f)] = {}
    PROVE  LET F == SubSeq(f, 1, Len(f) - 1) IN
           /\ F \in Seq(SUBSET Guids) /\ Len(F) = Len(f) - 1
           /\ Pending(F) = Pending(f)
<1>. DEFINE F == SubSeq(f, 1, Len(f) - 1)
<1>1. Len(f) \in Nat \ {0}
  BY LenProperties, EmptySeq
<1>2. /\ F \in Seq(SUBSET Guids) /\ Len(F) = Len(f) - 1
      /\ \A i \in 1 .. Len(f) - 1 : F[i] = f[i]
  <2>1. \A i \in 1 .. Len(f) - 1 : f[i] \in SUBSET Guids
    BY <1>1, ElementOfSeq
  <2>. DEFINE n == Len(f) - 1
  <2>2. n \in Nat /\ n - 1 + 1 = n /\ (1 <= n \/ n = 0) /\ \A i \in 1 .. n : 1 + i - 1 = i
    <3>1. n \in Nat
      BY <1>1
    <3>. HIDE DEF n
    <3>. QED  BY <3>1
  <2>3. /\ SubSeq(f, 1, n) \in Seq(SUBSET Guids)
        /\ Len(SubSeq(f, 1, n)) = IF 1 <= n THEN n - 1 + 1 ELSE 0
        /\ \A i \in 1 .. n - 1 + 1 : SubSeq(f, 1, n)[i] = f[1 + i - 1]
    <3>. HIDE DEF n
    <3>1. 1 \in Int /\ n \in Int /\ \A i \in 1 .. n : f[i] \in SUBSET Guids
      BY <2>1, <2>2 DEF n
    <3>. QED  BY ONLY <3>1, SubSeqProperties
  <2>. QED  BY <2>2, <2>3
<1>3. 1 .. Len(f) = (1 .. Len(f) - 1) \cup {Len(f)}
  BY <1>1
<1>. HIDE DEF F
<1>4. Pending(F) = Pending(f)
  BY <1>1, <1>2, <1>3 DEF Pending
<1>. QED  BY <1>2, <1>4 DEF F

(* A chain that leads to a group leads to its members. *)
LEMMA WithinClosed ==
    ASSUME TypeOK, NEW r \in DOMAIN byDN
    PROVE  /\ byDN[r].members \subseteq Within(r)
           /\ \A g \in Groups : byDN[g].guid \in Within(r) => byDN[g].members \subseteq Within(r)
<1>1. \A d \in DOMAIN byDN : byDN[d].members \subseteq Guids
  BY DEF TypeOK, Objects
<1>2. byDN[r].members \subseteq Within(r)
  BY <1>1 DEF Within
<1>3. ASSUME NEW g \in Groups, byDN[g].guid \in Within(r), NEW x \in byDN[g].members
      PROVE  x \in Within(r)
  <2>1. g \in DOMAIN byDN /\ x \in Guids
    BY <1>1 DEF Groups
  <2>2. ASSUME NEW s \in SUBSET Guids, byDN[r].members \subseteq s, Closed(s) PROVE x \in s
    <3>1. byDN[g].guid \in s
      BY <1>3, <2>2 DEF Within
    <3>. QED  BY <2>2, <3>1 DEF Closed
  <2>. QED  BY <2>1, <2>2 DEF Within
<1>. QED  BY <1>2, <1>3

LEMMA StartWalkStep ==
    ASSUME StoreInv, NEW d \in DNs, StartWalk(d)
    PROVE  IInv'
<1>1. /\ d \in Groups /\ d \in DOMAIN byDN /\ byDN[d].members \subseteq Guids
      /\ UNCHANGED <<byDN, seq, added>>
  BY DEF StartWalk, StoreInv, TypeOK, Groups, Objects
<1>2. /\ call' \in Walks /\ call'.op = "walk" /\ call'.root = d /\ call'.seen = {}
      /\ call'.out = <<>> /\ call'.frames = <<byDN[d].members>>
  <2>1. <<byDN[d].members>> \in Seq(SUBSET Guids)
    BY <1>1
  <2>2. <<>> \in Seq(Guids)
    OBVIOUS
  <2>. QED  BY <1>1, <2>1, <2>2 DEF StartWalk, Walks
<1>3. TypeOK'
  BY <1>1, <1>2 DEF StoreInv, TypeOK
<1>4. Pending(<<byDN[d].members>>) = byDN[d].members
  BY DEF Pending
<1>5. SeenGroups' = {}
  BY <1>2 DEF SeenGroups
<1>6. FramesSeen'
  <2>1. Len(call'.frames) = 1
    BY <1>2
  <2>. QED  BY <1>5, <2>1, FS_EmptySet DEF FramesSeen
<1>7. NothingMissed'
  BY <1>1, <1>2, <1>4, <1>5 DEF NothingMissed
<1>8. NothingElse'
  <2>1. byDN[d].members \subseteq Within(d)
    BY <1>1, WithinClosed DEF StoreInv
  <2>2. \A r : Within(r)' = Within(r)
    BY <1>1 DEF Within, Closed, Groups
  <2>. QED  BY <1>2, <1>4, <2>1, <2>2 DEF NothingElse
<1>9. Reported'
  BY <1>2 DEF Reported
<1>. QED  BY <1>1, <1>2, <1>3, <1>6, <1>7, <1>8, <1>9, StoreKept, NotEditing DEF IInv, WalkInv

(* A step of the walk takes guid from what is pending, and puts ms there,  *)
(* which holds the members of the group that guid names if it is one not   *)
(* seen before.                                                            *)
LEMMA Progress ==
    ASSUME IInv, call.op = "walk", call'.op = "walk", UNCHANGED <<byDN, seq, added>>,
           call'.root = call.root,
           NEW guid \in Pending(call.frames), call'.seen = call.seen \cup {guid},
           NEW ms, ms \subseteq Within(call.root),
           guid \in call.seen \/ \A d \in Live(guid) \cap Groups : byDN[d].members \subseteq ms,
           Pending(call'.frames) \subseteq Pending(call.frames) \cup ms,
           Pending(call.frames) \cup ms \subseteq Pending(call'.frames) \cup {guid}
    PROVE  NothingMissed' /\ NothingElse'
<1>. DEFINE left == call.seen \cup Pending(call.frames)
            now == call'.seen \cup Pending(call'.frames)
<1>1. left \subseteq now /\ ms \subseteq now
  OBVIOUS
<1>2. Groups' = Groups /\ \A r : Within(r)' = Within(r)
  BY DEF Groups, Within, Closed
<1>3. NothingMissed'
  <2>1. byDN[call.root].members \subseteq left
    BY DEF IInv, WalkInv, NothingMissed
  <2>2. ASSUME NEW g \in SeenGroups' PROVE byDN[g].members \subseteq now
    <3>1. g \in Groups /\ byDN[g].guid \in call.seen \cup {guid}
      BY <1>2 DEF SeenGroups
    <3>2. CASE byDN[g].guid \in call.seen
      <4>1. byDN[g].members \subseteq left
        BY <3>1, <3>2 DEF IInv, WalkInv, NothingMissed, SeenGroups
      <4>. QED  BY <1>1, <4>1
    <3>3. CASE byDN[g].guid \notin call.seen
      <4>1. byDN[g].guid = guid /\ g \in Live(guid)
        BY <3>1, <3>3 DEF Groups, Live
      <4>. QED  BY <1>1, <3>1, <3>3, <4>1
    <3>. QED  BY <3>2, <3>3
  <2>3. byDN'[call'.root].members \subseteq now
    BY <1>1, <2>1
  <2>. HIDE DEF left
  <2>. QED  BY <2>2, <2>3 DEF NothingMissed
<1>4. NothingElse'
  <2>1. left \subseteq Within(call.root)
    BY DEF IInv, WalkInv, NothingElse
  <2>2. now \subseteq Within(call.root)
    BY <2>1
  <2>. QED  BY <1>2, <2>2 DEF NothingElse
<1>. QED  BY <1>3, <1>4

(* The walk at one member of the innermost frame. *)
LEMMA WalkFacts ==
    ASSUME IInv, Walking
    PROVE  /\ call \in Walks /\ call.op = "walk" /\ call.root \in DOMAIN byDN
           /\ call.frames \in Seq(SUBSET Guids) /\ call.frames # <<>>
           /\ call.out \in Seq(Guids) /\ call.seen \subseteq Guids
           /\ \A guid \in Top : guid \in Pending(call.frames) /\ guid \in Within(call.root)
<1>1. call \in Walks /\ call.op = "walk" /\ call.root \in DOMAIN byDN
  BY CallCases DEF IInv, StoreInv, Walking
<1>2. call.frames \in Seq(SUBSET Guids) /\ call.frames # <<>>
  BY <1>1 DEF Walks, Walking
<1>3. Top \subseteq Pending(call.frames)
  <2>1. Len(call.frames) \in Nat \ {0}
    BY <1>2, EmptySeq
  <2>2. Len(call.frames) \in 1 .. Len(call.frames)
    BY <2>1
  <2>. QED  BY <2>2 DEF Top, Pending
<1>4. Pending(call.frames) \subseteq Within(call.root)
  BY <1>1 DEF IInv, WalkInv, NothingElse
<1>. QED  BY <1>1, <1>2, <1>3, <1>4 DEF Walks

LEMMA SeenFinite ==
    ASSUME StoreInv
    PROVE  /\ IsFiniteSet(Groups) /\ IsFiniteSet(SeenGroups)
           /\ Cardinality(Groups) \in Nat /\ Cardinality(SeenGroups) \in Nat
           /\ Cardinality(SeenGroups) <= Cardinality(Groups)
<1>1. IsFiniteSet(Groups)
  BY FS_Subset DEF StoreInv, UniqueGuids, Groups
<1>2. SeenGroups \in SUBSET Groups
  BY DEF SeenGroups
<1>. QED  BY <1>1, <1>2, FS_Subset, FS_CardinalityType

(* A member seen before, or that is there no more. *)
LEMMA PassOverStep ==
    ASSUME IInv, Walking, NEW guid \in Top, UNCHANGED <<byDN, seq, added>>,
           guid \in call.seen \/ Live(guid) = {},
           call' = [call EXCEPT !.seen = @ \cup {guid}, !.frames = Visited(guid)]
    PROVE  IInv'
<1>1. /\ call \in Walks /\ call.op = "walk" /\ call.root \in DOMAIN byDN
      /\ call.frames \in Seq(SUBSET Guids) /\ call.frames # <<>> /\ call.out \in Seq(Guids)
      /\ guid \in Pending(call.frames) /\ guid \in Within(call.root)
  BY WalkFacts
<1>2. /\ Visited(guid) \in Seq(SUBSET Guids) /\ Len(Visited(guid)) = Len(call.frames)
      /\ Pending(Visited(guid)) \subseteq Pending(call.frames)
      /\ Pending(call.frames) \subseteq Pending(Visited(guid)) \cup {guid}
  BY <1>1, PendingTaken DEF Visited
<1>3. guid \in Guids
  BY <1>1 DEF Within
<1>4. /\ call' \in Walks /\ call'.op = "walk" /\ call'.root = call.root
      /\ call'.seen = call.seen \cup {guid} /\ call'.frames = Visited(guid)
      /\ call'.out = call.out
  BY <1>1, <1>2, <1>3 DEF Walks
<1>5. TypeOK'
  BY <1>1, <1>4 DEF IInv, StoreInv, TypeOK
<1>6. NothingMissed' /\ NothingElse'
  <2>. PICK ms : ms = {}
    OBVIOUS
  <2>1. guid \in call.seen \/ \A d \in Live(guid) \cap Groups : byDN[d].members \subseteq ms
    OBVIOUS
  <2>2. /\ ms \subseteq Within(call.root)
        /\ Pending(call'.frames) \subseteq Pending(call.frames) \cup ms
        /\ Pending(call.frames) \cup ms \subseteq Pending(call'.frames) \cup {guid}
    BY <1>2, <1>4
  <2>. QED  BY <1>1, <1>4, <2>1, <2>2, Progress
<1>7. SeenGroups' = SeenGroups
  BY <1>4 DEF SeenGroups, Groups, Live
<1>8. FramesSeen'
  BY <1>1, <1>2, <1>4, <1>7 DEF IInv, WalkInv, FramesSeen
<1>9. Reported'
  <2>1. {g \in call'.seen : \E d \in Live(g)' : byDN'[d].class = "account"}
            = {g \in call.seen : \E d \in Live(g) : byDN[d].class = "account"}
    BY <1>4 DEF Live
  <2>. QED  BY <1>1, <1>4, <2>1 DEF IInv, WalkInv, Reported
<1>. QED  BY <1>4, <1>5, <1>6, <1>8, <1>9, StoreKept, NotEditing DEF IInv, WalkInv

(* A group not seen before is descended into. *)
LEMMA DescendStep ==
    ASSUME IInv, Walking, NEW guid \in Top, UNCHANGED <<byDN, seq, added>>,
           guid \notin call.seen, NEW d \in Live(guid), byDN[d].class = "group",
           call' = [call EXCEPT !.seen = @ \cup {guid},
                                !.frames = Append(Visited(guid), byDN[d].members)]
    PROVE  IInv'
<1>1. /\ call \in Walks /\ call.op = "walk" /\ call.root \in DOMAIN byDN
      /\ call.frames \in Seq(SUBSET Guids) /\ call.frames # <<>> /\ call.out \in Seq(Guids)
      /\ guid \in Pending(call.frames) /\ guid \in Within(call.root)
  BY WalkFacts
<1>2. /\ Visited(guid) \in Seq(SUBSET Guids) /\ Len(Visited(guid)) = Len(call.frames)
      /\ Pending(Visited(guid)) \subseteq Pending(call.frames)
      /\ Pending(call.frames) \subseteq Pending(Visited(guid)) \cup {guid}
  BY <1>1, PendingTaken DEF Visited
<1>3. guid \in Guids /\ d \in DOMAIN byDN /\ d \in Groups /\ byDN[d].guid = guid
          /\ byDN[d].members \in SUBSET Guids
  BY <1>1 DEF Within, Live, Groups, IInv, StoreInv, TypeOK, Objects
<1>. DEFINE F == Append(Visited(guid), byDN[d].members)
<1>4. /\ F \in Seq(SUBSET Guids) /\ Len(F) = Len(call.frames) + 1
      /\ Pending(F) = Pending(Visited(guid)) \cup byDN[d].members
  BY <1>2, <1>3, PendingAppended
<1>. HIDE DEF F
<1>5. /\ call' \in Walks /\ call'.op = "walk" /\ call'.root = call.root
      /\ call'.seen = call.seen \cup {guid} /\ call'.frames = F /\ call'.out = call.out
  BY <1>1, <1>3, <1>4 DEF Walks, F
<1>6. TypeOK'
  BY <1>1, <1>5 DEF IInv, StoreInv, TypeOK
<1>7. \A e \in Live(guid) : e = d
  BY <1>3 DEF IInv, StoreInv, UniqueGuids, Live
<1>8. NothingMissed' /\ NothingElse'
  <2>1. byDN[d].members \subseteq Within(call.root)
    BY <1>1, <1>3, WithinClosed DEF IInv, StoreInv
  <2>2. \A e \in Live(guid) \cap Groups : byDN[e].members \subseteq byDN[d].members
    BY <1>7
  <2>. QED  BY <1>1, <1>2, <1>4, <1>5, <2>1, <2>2, Progress
<1>9. FramesSeen'
  <2>1. SeenGroups' = SeenGroups \cup {d} /\ d \notin SeenGroups
    BY <1>3, <1>5, <1>7 DEF SeenGroups, Groups, Live
  <2>2. Cardinality(SeenGroups') = Cardinality(SeenGroups) + 1
    BY <2>1, SeenFinite, FS_AddElement DEF IInv
  <2>3. Len(call.frames) <= Cardinality(SeenGroups) + 1 /\ Len(call.frames) \in Nat
    BY <1>1, LenProperties DEF IInv, WalkInv, FramesSeen
  <2>. QED  BY <1>4, <1>5, <2>2, <2>3, SeenFinite DEF IInv, FramesSeen
<1>10. Reported'
  <2>1. {g \in call'.seen : \E e \in Live(g)' : byDN'[e].class = "account"}
            = {g \in call.seen : \E e \in Live(g) : byDN[e].class = "account"}
    BY <1>5, <1>7 DEF Live
  <2>2. /\ {call.out[i] : i \in DOMAIN call.out} =
              {g \in call.seen : \E e \in Live(g) : byDN[e].class = "account"}
        /\ \A i, j \in DOMAIN call.out : i # j => call.out[i] # call.out[j]
    BY <1>1 DEF IInv, WalkInv, Reported
  <2>. QED  BY <1>5, <2>1, <2>2 DEF Reported
<1>. QED  BY <1>5, <1>6, <1>8, <1>9, <1>10, StoreKept, NotEditing DEF IInv, WalkInv

(* An account not seen before is reported. *)
LEMMA ReportStep ==
    ASSUME IInv, Walking, NEW guid \in Top, UNCHANGED <<byDN, seq, added>>,
           guid \notin call.seen, NEW d \in Live(guid), byDN[d].class # "group",
           call' = [call EXCEPT !.seen = @ \cup {guid}, !.frames = Visited(guid),
                                !.out = Append(@, guid)]
    PROVE  IInv'
<1>1. /\ call \in Walks /\ call.op = "walk" /\ call.root \in DOMAIN byDN
      /\ call.frames \in Seq(SUBSET Guids) /\ call.frames # <<>> /\ call.out \in Seq(Guids)
      /\ guid \in Pending(call.frames) /\ guid \in Within(call.root)
  BY WalkFacts
<1>2. /\ Visited(guid) \in Seq(SUBSET Guids) /\ Len(Visited(guid)) = Len(call.frames)
      /\ Pending(Visited(guid)) \subseteq Pending(call.frames)
      /\ Pending(call.frames) \subseteq Pending(Visited(guid)) \cup {guid}
  BY <1>1, PendingTaken DEF Visited
<1>3. guid \in Guids /\ d \in DOMAIN byDN /\ byDN[d].guid = guid /\ byDN[d].class = "account"
  BY <1>1 DEF Within, Live, IInv, StoreInv, TypeOK, Objects, Classes
<1>. DEFINE O == Append(call.out, guid)
            n == Len(call.out)
<1>4. /\ O \in Seq(Guids) /\ n \in Nat /\ DOMAIN call.out = 1 .. n /\ DOMAIN O = 1 .. n + 1
      /\ \A i \in 1 .. n : O[i] = call.out[i]
      /\ O[n + 1] = guid
  BY <1>1, <1>3, AppendProperties, LenProperties
<1>. HIDE DEF O, n
<1>5. /\ call' \in Walks /\ call'.op = "walk" /\ call'.root = call.root
      /\ call'.seen = call.seen \cup {guid} /\ call'.frames = Visited(guid) /\ call'.out = O
  BY <1>1, <1>2, <1>3, <1>4 DEF Walks, O
<1>6. TypeOK'
  BY <1>1, <1>5 DEF IInv, StoreInv, TypeOK
<1>7. \A e \in Live(guid) : e = d
  BY <1>3 DEF IInv, StoreInv, UniqueGuids, Live
<1>8. NothingMissed' /\ NothingElse'
  <2>. PICK ms : ms = {}
    OBVIOUS
  <2>1. \A e \in Live(guid) \cap Groups : byDN[e].members \subseteq ms
    BY <1>3, <1>7 DEF Groups
  <2>2. /\ ms \subseteq Within(call.root)
        /\ Pending(call'.frames) \subseteq Pending(call.frames) \cup ms
        /\ Pending(call.frames) \cup ms \subseteq Pending(call'.frames) \cup {guid}
    BY <1>2, <1>5
  <2>. QED  BY <1>1, <1>5, <2>1, <2>2, Progress
<1>9. FramesSeen'
  <2>1. SeenGroups' = SeenGroups
    BY <1>3, <1>5, <1>7 DEF SeenGroups, Groups, Live
  <2>. QED  BY <1>1, <1>2, <1>5, <2>1 DEF IInv, WalkInv, FramesSeen
<1>10. Reported'
  <2>1. {g \in call'.seen : \E e \in Live(g)' : byDN'[e].class = "account"}
            = {g \in call.seen : \E e \in Live(g) : byDN[e].class = "account"} \cup {guid}
    BY <1>3, <1>5 DEF Live
  <2>2. /\ {call.out[i] : i \in DOMAIN call.out} =
              {g \in call.seen : \E e \in Live(g) : byDN[e].class = "account"}
        /\ \A i, j \in DOMAIN call.out : i # j => call.out[i] # call.out[j]
    BY <1>1 DEF IInv, WalkInv, Reported
  <2>3. 1 .. n + 1 = (1 .. n) \cup {n + 1} /\ n + 1 \notin 1 .. n
    BY <1>4
  <2>4. \A i \in 1 .. n : O[i] # guid
    BY <1>4, <2>2
  <2>5. {O[i] : i \in DOMAIN O} = {call.out[i] : i \in DOMAIN call.out} \cup {guid}
    BY <1>4, <2>3
  <2>6. \A i, j \in DOMAIN O : i # j => O[i] # O[j]
    BY <1>4, <2>2, <2>3, <2>4
  <2>. QED  BY <1>5, <2>1, <2>2, <2>5, <2>6 DEF Reported
<1>. QED  BY <1>5, <1>6, <1>8, <1>9, <1>10, StoreKept, NotEditing DEF IInv, WalkInv

(* An empty frame is left. *)
LEMMA LeaveStep ==
    ASSUME IInv, Leave
    PROVE  IInv'
<1>1. /\ call \in Walks /\ call.op = "walk" /\ call.root \in DOMAIN byDN
      /\ call.frames \in Seq(SUBSET Guids) /\ call.frames # <<>>
      /\ call.frames[Len(call.frames)] = {} /\ UNCHANGED <<byDN, seq, added>>
  BY WalkFacts DEF Leave, Top
<1>. DEFINE F == SubSeq(call.frames, 1, Len(call.frames) - 1)
<1>2. F \in Seq(SUBSET Guids) /\ Len(F) = Len(call.frames) - 1 /\ Pending(F) = Pending(call.frames)
  BY <1>1, PendingLeft
<1>3. call' = [call EXCEPT !.frames = F]
  BY DEF Leave
<1>. HIDE DEF F
<1>4. /\ call' \in Walks /\ call'.op = "walk" /\ call'.root = call.root
      /\ call'.seen = call.seen /\ call'.frames = F /\ call'.out = call.out
  BY <1>1, <1>2, <1>3 DEF Walks
<1>5. TypeOK'
  BY <1>1, <1>4 DEF IInv, StoreInv, TypeOK
<1>6. SeenGroups' = SeenGroups /\ \A r : Within(r)' = Within(r)
  BY <1>1, <1>4 DEF SeenGroups, Groups, Within, Closed
<1>7. FramesSeen'
  <2>1. Len(call.frames) \in Nat /\ Len(call.frames) <= Cardinality(SeenGroups) + 1
    BY <1>1, LenProperties DEF IInv, WalkInv, FramesSeen
  <2>. QED  BY <1>2, <1>4, <1>6, <2>1, SeenFinite DEF IInv, FramesSeen
<1>8. NothingMissed' /\ NothingElse'
  BY <1>1, <1>2, <1>4, <1>6 DEF IInv, WalkInv, NothingMissed, NothingElse
<1>9. Reported'
  BY <1>1, <1>4 DEF IInv, WalkInv, Reported, Live
<1>. QED  BY <1>1, <1>4, <1>5, <1>7, <1>8, <1>9, StoreKept, NotEditing DEF IInv, WalkInv

-----------------------------------------------------------------------------
LEMMA VisitStep ==
    ASSUME IInv, NEW guid \in Guids, Visit(guid)
    PROVE  IInv'
<1>1. Walking /\ guid \in Top /\ UNCHANGED <<byDN, seq, added>>
  BY DEF Visit
<1>2. CASE /\ guid \in call.seen \/ Live(guid) = {}
           /\ call' = [call EXCEPT !.seen = @ \cup {guid}, !.frames = Visited(guid)]
  BY <1>1, <1>2, PassOverStep
<1>3. ASSUME guid \notin call.seen, NEW d \in Live(guid),
             IF byDN[d].class = "group"
             THEN call' = [call EXCEPT !.seen = Marked(byDN[d]),
                                       !.frames = Append(Visited(guid), byDN[d].members)]
             ELSE call' = [call EXCEPT !.seen = Marked(byDN[d]), !.frames = Visited(guid),
                                       !.out = Append(@, guid)]
      PROVE  IInv'
  <2>1. Marked(byDN[d]) = call.seen \cup {guid}
    BY DEF Marked, Live
  <2>2. CASE byDN[d].class = "group"
    BY <1>1, <1>3, <2>1, <2>2, DescendStep
  <2>3. CASE byDN[d].class # "group"
    BY <1>1, <1>3, <2>1, <2>3, ReportStep
  <2>. QED  BY <2>2, <2>3
<1>. QED  BY <1>2, <1>3 DEF Visit

LEMMA EditMemberStep ==
    ASSUME IInv, EditMember
    PROVE  IInv'
<1>1. Editing /\ call.n < Len(call.list) /\ UNCHANGED seq
  BY DEF EditMember
<1>2. CASE Found(call.list[call.n + 1]) = {} /\ NotResolved
  BY <1>1, <1>2, StopEditStep DEF NotResolved
<1>3. ASSUME NEW m \in Found(call.list[call.n + 1]),
             LET pair == <<byDN[call.group].guid, byDN[m].guid>> IN
                /\ byDN' = [byDN EXCEPT ![call.group].members =
                               IF call.op = "add" THEN @ \cup {pair[2]} ELSE @ \ {pair[2]}]
                /\ added' = IF call.op = "add" THEN added \cup {pair} ELSE added \ {pair}
                /\ call' = [call EXCEPT !.n = @ + 1]
      PROVE  IInv'
  <2>1. PICK g, x : g = call.group /\ x = byDN[m].guid
    OBVIOUS
  <2>2. /\ byDN' = [byDN EXCEPT ![g].members =
                       IF call.op = "add" THEN @ \cup {x} ELSE @ \ {x}]
        /\ added' = IF call.op = "add" THEN added \cup {<<byDN[g].guid, x>>}
                    ELSE added \ {<<byDN[g].guid, x>>}
        /\ call' = [call EXCEPT !.n = @ + 1]
    BY <1>3, <2>1
  <2>. QED  BY <1>1, <2>1, <2>2, EditOneStep
<1>. QED  BY <1>2, <1>3 DEF EditMember

LEMMA EndEditStep ==
    ASSUME IInv, EndEdit
    PROVE  IInv'
BY StopEditStep DEF EndEdit

LEMMA NextInv == IInv /\ [Next]_vars => IInv'
<1>1. ASSUME IInv, Next PROVE IInv'
  BY <1>1, CreateStep, RenameStep, DeleteStep, StartEditStep, StartWalkStep, EditMemberStep,
     EndEditStep, VisitStep, LeaveStep, ReturnStep DEF IInv, Next, Continue
<1>2. ASSUME IInv, UNCHANGED vars PROVE IInv'
  <2>1. TypeOK'
    BY <1>2 DEF vars, IInv, StoreInv, TypeOK
  <2>2. EditInv'
    <3>1. (\A id : Found(id)' = Found(id)) /\ Groups' = Groups
      BY <1>2 DEF vars, Found, Groups
    <3>2. Resolved(call.list, call.n)' = Resolved(call.list, call.n)
      BY <1>2, <3>1 DEF vars, Resolved
    <3>3. EditGroup'
      BY <1>2, <3>1 DEF vars, IInv, EditInv, EditGroup
    <3>4. EditsApplyAPrefix'
      BY <1>2, <3>1, <3>2 DEF vars, IInv, EditInv, EditsApplyAPrefix
    <3>. QED  BY <3>3, <3>4 DEF EditInv
  <2>3. WalkInv'
    BY <1>2 DEF vars, IInv, WalkInv, FramesSeen, SeenGroups, Groups, NothingMissed, NothingElse,
                Within, Closed, Reported, Live
  <2>. QED  BY <1>2, <2>1, <2>2, <2>3, StoreKept DEF vars, IInv
<1>. QED  BY <1>1, <1>2

(* The inductive invariant holds in every reachable state. *)
LEMMA Invariance == Spec => []IInv
BY InitInv, NextInv, PTL DEF Spec
-----------------------------------------------------------------------------
(* The store and the call that holds it stay well-formed, whatever is      *)
(* created, renamed and deleted (group.go:14-138).                         *)
THEOREM TypeCorrect == Spec => []TypeOK
<1>1. IInv => TypeOK
  BY DEF IInv, StoreInv
<1>. QED  BY <1>1, Invariance, PTL

(* Members reports exactly the live objects that an edit added and none    *)
(* has removed since (group.go:140-164, fake.go:91-94).                    *)
THEOREM MembershipFollowsObjects == Spec => []MembersAreAdded
<1>1. IInv => MembersAreAdded
  BY DEF IInv, StoreInv
<1>. QED  BY <1>1, Invariance, PTL

(* An edit applies exactly the identities ahead of the first that does not *)
(* resolve, and all of them when it returns nil (group.go:202-240).        *)
THEOREM EditsArePrefixes == Spec => []EditsApplyAPrefix
<1>1. IInv => EditsApplyAPrefix
  BY DEF IInv, EditInv
<1>. QED  BY <1>1, Invariance, PTL

(* MembersRecursive reports every account that a chain of groups leads to, *)
(* each once, and nothing else, for groups nested in any way and maps      *)
(* ranged over in any order (group.go:166-200).                            *)
THEOREM WalkCorrect == Spec => []WalkFindsEachOnce
<1>1. IInv => WalkFindsEachOnce
  <2>. SUFFICES ASSUME IInv, call.op = "walk", call.frames = <<>>
                PROVE  /\ {call.out[i] : i \in DOMAIN call.out} =
                            {g \in Within(call.root) : \E d \in Live(g) : byDN[d].class = "account"}
                       /\ \A i, j \in DOMAIN call.out : i # j => call.out[i] # call.out[j]
    BY DEF WalkFindsEachOnce
  <2>1. call \in Walks /\ call.seen \in SUBSET Guids
    BY CallCases DEF IInv, StoreInv, Walks
  <2>2. Pending(call.frames) = {}
    BY DEF Pending
  <2>3. byDN[call.root].members \subseteq call.seen /\ Closed(call.seen)
    BY <2>2 DEF IInv, WalkInv, NothingMissed, Closed, SeenGroups
  <2>4. Within(call.root) \subseteq call.seen
    BY <2>1, <2>3 DEF Within
  <2>5. call.seen \subseteq Within(call.root)
    BY DEF IInv, WalkInv, NothingElse
  <2>. QED  BY <2>4, <2>5 DEF IInv, WalkInv, Reported
<1>. QED  BY <1>1, Invariance, PTL

(* The recursion of the walk is no deeper than the groups are many, and    *)
(* one (group.go:181-197).                                                 *)
THEOREM WalkIsShallow == Spec => []WalkDepthBounded
<1>1. IInv => WalkDepthBounded
  <2>. SUFFICES ASSUME IInv, call.op = "walk"
                PROVE  Len(call.frames) <= Cardinality(Groups) + 1
    BY DEF WalkDepthBounded
  <2>1. Len(call.frames) \in Nat
    BY CallCases, LenProperties DEF IInv, StoreInv, Walks
  <2>2. Len(call.frames) <= Cardinality(SeenGroups) + 1
    BY DEF IInv, WalkInv, FramesSeen
  <2>. QED  BY <2>1, <2>2, SeenFinite DEF IInv
<1>. QED  BY <1>1, Invariance, PTL
=============================================================================
