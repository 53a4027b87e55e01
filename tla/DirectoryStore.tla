--------------------------- MODULE DirectoryStore ---------------------------
(***************************************************************************)
(* The object tree of src/adcorefake: the map from DN text to object that  *)
(* every directory service of the package reads and writes, identity       *)
(* resolution, and Create, Update and Delete of the five object classes.   *)
(* All of them run under store.mu, so an operation is one action, except   *)
(* that the loop of moveLocked, whose outcome depends on the order in      *)
(* which Go ranges over the map it is changing, takes a step per           *)
(* iteration; no other operation starts before the loop has ended.         *)
(*                                                                         *)
(* A call that fails changes nothing and is not a step.                    *)
(***************************************************************************)
EXTENDS DNText, FiniteSets

CONSTANTS
    Classes,    \* the classes of object that occur, among AllClasses
    Names,      \* the names a spec may give, spellings among Values
    Containers, \* the DN texts a spec may name as its container
    Sams,       \* account names, up to case
    Bare,       \* Bare[s]: s without its trailing "$"
    MaxSeq,     \* bound on the objects ever created
    MaxDepth    \* bound on the RDNs of a DN

AllClasses == {"organizationalUnit", "group", "user", "computer", "gmsa"}

(* "" is the account name, and the SID, of an object that has none. *)
Unset == ""

ASSUME StoreConstants ==
    /\ Classes \subseteq AllClasses
    /\ Names \subseteq Values /\ Containers \subseteq DNTexts
    /\ Unset \notin Sams
    /\ Bare \in [Sams \cup {Unset} -> Sams \cup {Unset}] /\ Bare[Unset] = Unset
    /\ MaxSeq \in Nat /\ MaxDepth \in Nat

VARIABLES
    byDN,       \* byDN[d]: the object stored under the DN text d
    seq,        \* the number of GUIDs handed out
    mv,         \* the loop of moveLocked while it runs, or Idle
    before      \* history: byDN when the running move began, or NoObjects

vars == <<byDN, seq, mv, before>>

Idle == [old |-> <<>>, new |-> <<>>, todo |-> {}]

NoObjects == [d \in {} |-> <<>>]

(* dn is object.dn, DN and name and container the fields of its model. *)
Objects == [guid : 1 .. MaxSeq, class : Classes, dn : DNTexts, DN : DNTexts,
            name : Names, container : Containers, sam : Sams \cup {Unset}]

IsStore(f) == /\ DOMAIN f \subseteq DNTexts
              /\ \A d \in DOMAIN f : f[d] \in Objects

TypeOK ==
    /\ IsStore(byDN) /\ IsStore(before)
    /\ seq \in 0 .. MaxSeq
    /\ mv \in [old : DNTexts, new : DNTexts, todo : SUBSET DNTexts]
    /\ mv.todo \subseteq DOMAIN byDN

Init ==
    /\ byDN = NoObjects
    /\ seq = 0
    /\ mv = Idle
    /\ before = NoObjects

-----------------------------------------------------------------------------
(* The map operations of Go: delete(s.byDN, d) and s.byDN[d] = o. *)
Without(f, d) == [e \in DOMAIN f \ {d} |-> f[e]]
With(f, d, o) == [e \in DOMAIN f \cup {d} |-> IF e = d THEN o ELSE f[e]]

IsOU(class)    == class = "organizationalUnit"
NamingAttr(class) == IF IsOU(class) THEN "OU" ELSE "CN"

(* The DN a spec asks for: "CN=" + EscapeValue(name) + "," + container. *)
SpecDN(class, name, container) == <<RDN(NamingAttr(class), name)>> \o container

(* Sam matching.  Groups and users are compared with the whole argument,   *)
(* computers and service accounts with the argument less its "$"; an       *)
(* object has "" in the models of the other classes, so an argument that   *)
(* is, or is stripped to, "" matches everything.                           *)
SamMatches(o, s) ==
    \/ s = Unset \/ Bare[s] = Unset
    \/ (o.class \in {"group", "user"} /\ o.sam = s)
    \/ (o.class \in {"computer", "gmsa"} /\ o.sam = Bare[s])

(* A SID is made of the same counter as the GUID; OUs have none, and so    *)
(* have the models of an object's other classes.                           *)
SidMatches(o, s) == s = 0 \/ (~IsOU(o.class) /\ o.guid = s)

Matches(o, id) ==
    \/ (id.form = "guid" /\ o.guid = id.arg)
    \/ (id.form = "dn"   /\ EqDN(o.dn, id.arg))
    \/ (id.form = "sam"  /\ SamMatches(o, id.arg))
    \/ (id.form = "sid"  /\ SidMatches(o, id.arg))

(* findLocked returns the first match in map order: any of them. *)
Found(id) == {d \in DOMAIN byDN : Matches(byDN[d], id)}

Identities ==
    [form : {"guid"}, arg : 1 .. seq] \cup [form : {"dn"}, arg : DOMAIN byDN]
        \cup [form : {"sam"}, arg : Sams \cup {Unset}] \cup [form : {"sid"}, arg : 0 .. seq]

(* The objects an operation on class may act on when called with id. *)
Targets(class, id) == {d \in Found(id) : byDN[d].class = class}

(* The DN texts childrenLocked counts. *)
Children(d) == {e \in DOMAIN byDN : ~EqDN(e, d) /\ BelowText(e, d)}

-----------------------------------------------------------------------------
Create(class, name, container, sam) ==
    /\ mv = Idle /\ seq < MaxSeq
    /\ LET dn == SpecDN(class, name, container) IN
          /\ \A d \in DOMAIN byDN : ~EqDN(d, dn)
          /\ byDN' = With(byDN, dn,
                [guid |-> seq + 1, class |-> class, dn |-> dn, DN |-> dn,
                 name |-> name, container |-> container, sam |-> sam])
    /\ seq' = seq + 1
    /\ UNCHANGED <<mv, before>>

(* Go on with the loop while there is an entry to visit. *)
Loop(next, start) ==
    /\ mv' = IF next.todo = {} THEN Idle ELSE next
    /\ before' = IF next.todo = {} THEN NoObjects ELSE start

(* Mutants of StartMove: descendants are not carried; only those directly  *)
(* beneath the object are.                                                 *)
StartMoveAlone(o, new, name, container) ==
    /\ Len(new) <= MaxDepth
    /\ byDN' = With(Without(byDN, o.dn), new,
                   [o EXCEPT !.dn = new, !.DN = new, !.name = name, !.container = container])
    /\ UNCHANGED <<mv, before>>

StartMoveWithChildren(o, new, name, container) ==
    LET old  == o.dn
        head == With(Without(byDN, old), new,
                    [o EXCEPT !.dn = new, !.DN = new, !.name = name, !.container = container])
        todo == {d \in DOMAIN head : d # new /\ BelowText(d, old) /\ Len(d) = Len(old) + 1}
    IN  /\ Len(new) <= MaxDepth
        /\ byDN' = head
        /\ Loop([old |-> old, new |-> new, todo |-> todo], byDN)

(* moveLocked up to its loop, then the assignment of the model's DN, name  *)
(* and container that follows it: the loop does not touch this object.     *)
StartMove(o, new, name, container) ==
    LET old  == o.dn
        head == With(Without(byDN, old), new,
                    [o EXCEPT !.dn = new, !.DN = new, !.name = name, !.container = container])
        todo == {d \in DOMAIN head : d # new /\ BelowText(d, old)}
    IN  /\ Len(new) <= MaxDepth
        /\ byDN' = head
        /\ Loop([old |-> old, new |-> new, todo |-> todo], byDN)

(* Update changes the account name in place, then moves the object when    *)
(* the spec's name is another string than the model's or its container is  *)
(* another DN than the model's.                                            *)
Update(class, id, name, container, sam) ==
    /\ mv = Idle
    /\ \E d \in Targets(class, id) :
          LET o == [byDN[d] EXCEPT !.sam = IF sam = Unset THEN @ ELSE sam] IN
          \/ /\ name = o.name /\ EqDN(container, o.container)
             /\ byDN' = With(byDN, d, o)
             /\ UNCHANGED <<mv, before>>
          \/ /\ name # o.name \/ ~EqDN(container, o.container)
             /\ StartMove(o, SpecDN(class, name, container), name, container)
    /\ UNCHANGED seq

(* Mutants of MoveChild: the entry's old key is not deleted; its model's   *)
(* DN is not updated; a visited entry is visited again.                    *)
MoveChildLeavesCopy ==
    \E d \in mv.todo :
        LET to == Rebase(d, mv.old, mv.new)
        IN  /\ byDN' = With(byDN, to, [byDN[d] EXCEPT !.dn = to, !.DN = to])
            /\ Loop([mv EXCEPT !.todo = @ \ {d}], before)
            /\ UNCHANGED seq

MoveChildStaleModel ==
    \E d \in mv.todo :
        LET to == Rebase(d, mv.old, mv.new)
        IN  /\ byDN' = With(Without(byDN, d), to, [byDN[d] EXCEPT !.dn = to])
            /\ Loop([mv EXCEPT !.todo = @ \ {d}], before)
            /\ UNCHANGED seq

MoveChildNeverDone ==
    \E d \in mv.todo :
        LET to == Rebase(d, mv.old, mv.new)
        IN  /\ byDN' = With(Without(byDN, d), to, [byDN[d] EXCEPT !.dn = to, !.DN = to])
            /\ UNCHANGED <<mv, before, seq>>

(* One iteration of moveLocked's loop.  The range expression is the map    *)
(* being changed: entries present at the start and not yet removed are     *)
(* visited, in any order, and an entry the loop inserts may be visited or  *)
(* not.  The latter matters only when the object moves beneath itself; a   *)
(* repeated visit is cut off at MaxDepth.                                  *)
MoveChild ==
    \E d \in mv.todo :
        LET to    == Rebase(d, mv.old, mv.new)
            again == {e \in {to} : BelowText(e, mv.old) /\ Len(Rebase(e, mv.old, mv.new)) <= MaxDepth}
        IN  /\ byDN' = With(Without(byDN, d), to, [byDN[d] EXCEPT !.dn = to, !.DN = to])
            /\ \E more \in SUBSET again :
                  Loop([mv EXCEPT !.todo = (@ \ {d}) \cup more], before)
            /\ UNCHANGED seq

(* Mutant of Delete: an OU is deleted with children beneath it. *)
DeleteUnchecked(class, id) ==
    /\ mv = Idle
    /\ \E d \in Targets(class, id) : byDN' = Without(byDN, d)
    /\ UNCHANGED <<seq, mv, before>>

(* An OU that still has children is refused; other classes are not asked. *)
Delete(class, id) ==
    /\ mv = Idle
    /\ \E d \in Targets(class, id) :
          /\ IsOU(class) => Children(d) = {}
          /\ byDN' = Without(byDN, d)
    /\ UNCHANGED <<seq, mv, before>>

(* The account name a spec of this class carries: OUs have none, and an    *)
(* Update may leave it out.                                                *)
SpecSams(class) == IF IsOU(class) THEN {Unset} ELSE Sams

Next ==
    \/ MoveChild
    \/ \E class \in Classes :
          \/ \E name \in Names, container \in Containers :
                \/ \E sam \in SpecSams(class) : Create(class, name, container, sam)
                \/ \E id \in Identities, sam \in SpecSams(class) \cup {Unset} :
                      Update(class, id, name, container, sam)
          \/ \E id \in Identities : Delete(class, id)

Spec == Init /\ [][Next]_vars

-----------------------------------------------------------------------------
(* The map's key, the object's dn and its model's DN are one text, and the *)
(* first RDN of that text is the model's name: what a lookup by DN finds   *)
(* is what a read reports, through every rename, move and move of an       *)
(* ancestor (fake.go:181-198, and the Update of each class).               *)
IndexConsistent ==
    \A d \in DOMAIN byDN :
        LET o == byDN[d] IN
        /\ o.dn = d /\ o.DN = d
        /\ d[1] = RDN(NamingAttr(o.class), o.name)

(* No object is stored twice, also while a loop is moving entries about,   *)
(* and a GUID is never handed out again (fake.go:91-94, 181-198).          *)
OneEntryPerObject ==
    /\ \A d, e \in DOMAIN byDN : byDN[d].guid = byDN[e].guid => d = e
    /\ \A d \in DOMAIN byDN : byDN[d].guid <= seq

Live == {byDN[d].guid : d \in DOMAIN byDN}

(* An object is lost only when another takes over its DN text, or alone,   *)
(* by a Delete; an OU so deleted leaves nothing beneath its DN as text.    *)
NothingVanishes == [][
    \A d \in DOMAIN byDN : byDN[d].guid \notin Live' =>
        \/ d \in DOMAIN byDN'
        \/ /\ byDN' = Without(byDN, d)
           /\ IsOU(byDN[d].class) => \A e \in DOMAIN byDN' : ~BelowText(e, d)]_vars

(* f is the map g with the entries at and beneath old carried to new: each *)
(* at the place its relative name gives it there, and no other entry       *)
(* touched unless one landed on it.                                        *)
Relocated(f, g, old, new) ==
    LET below  == {d \in DOMAIN g : d # old /\ BelowText(d, old)}
        stays  == DOMAIN g \ (below \cup {old})
        landed == {new} \cup {Rebase(d, old, new) : d \in below}
    IN  /\ DOMAIN f = stays \cup landed
        /\ \A d \in stays \ landed : f[d] = g[d]
        /\ f[new].guid = g[old].guid
        /\ \A t \in landed \ {new} :
              \E d \in below : Rebase(d, old, new) = t /\ f[t].guid = g[d].guid

(* When the loop of a move ends, every entry that was beneath the old DN   *)
(* is at the place its relative name gives it beneath the new one, no      *)
(* other entry was touched unless one landed on it, and nothing else is    *)
(* there: "carrying its descendants with it - the property the contract    *)
(* cares about" (fake.go:179-180).  Not claimed when one of the two DNs is *)
(* beneath the other: there an entry just moved is again beneath the old   *)
(* DN, and the loop moves it a second time when it happens to revisit it.  *)
MoveCarriesSubtree == [][
    mv # Idle /\ mv' = Idle /\ ~BelowText(mv.new, mv.old) /\ ~BelowText(mv.old, mv.new) =>
        Relocated(byDN', before, mv.old, mv.new)]_vars

-----------------------------------------------------------------------------
(* What the repository says of the program and the code does not do: each  *)
(* is checked by a run of its own that exhibits the disagreement.          *)

(* A model's container is "derived from DN" (models.go:10): whenever no    *)
(* move is running it is the parent of the DN.                             *)
ContainerDerivedFromDN ==
    mv = Idle => \A d \in DOMAIN byDN : EqDN(byDN[d].container, Tail(d))

(* An OU is neither deleted nor moved away from over a child: whatever     *)
(* text names its DN, an object beneath it counts (fake.go:165, ou.go:131; *)
(* dn.go:289-291 on comparing DNs as strings).                             *)
BelowDN(d, base) ==
    Len(d) > Len(base) /\ EqDN(SubSeq(d, Len(d) - Len(base) + 1, Len(d)), base)

ChildrenNeverOrphaned == [][
    mv = Idle /\ mv' = Idle =>
        \A d \in DOMAIN byDN :
            IsOU(byDN[d].class) /\ (\A e \in DOMAIN byDN' : ~EqDN(e, d)) =>
                \A e \in DOMAIN byDN' :
                    BelowDN(e, d) => byDN'[e].guid = byDN[d].guid]_vars
=============================================================================
