------------------------ MODULE DirectoryStoreProofs ------------------------
(***************************************************************************)
(* Machine-checked proofs about DirectoryStore and Searches, for any       *)
(* values of their constants: any spellings, containers, classes, bounds.  *)
(*                                                                         *)
(* The invariants are proved together, for each rests on another.  That a  *)
(* move deletes the entry it inserts elsewhere needs object.dn to be the   *)
(* key (IndexConsistent); that a carried entry keeps its own RDN needs the *)
(* loop's entries to be longer than the DN cut off them (LoopInv).  That a *)
(* move carries its subtree needs what the loop has done so far (Carrying) *)
(* and that an entry it visits twice stays where it is (LandedStays).      *)
(*                                                                         *)
(* Children keep their parents, and searches see the tree, where DN text   *)
(* and parsed DNs agree on what lies beneath what; they do on text without *)
(* optional white space, which is what moves keep and CanonicalContainers  *)
(* asks of the specs.                                                      *)
(***************************************************************************)
EXTENDS Searches, SequenceTheorems, TLAPS

(* Every entry has an RDN of its own. *)
Rooted == \A d \in DOMAIN byDN : Len(d) >= 1

(* The loop has only entries of the map before it, beneath the old DN. *)
LoopInv == \A d \in mv.todo : d \in DOMAIN byDN /\ BelowText(d, mv.old)

IInv == TypeOK /\ IndexConsistent /\ OneEntryPerObject /\ Rooted /\ LoopInv

-----------------------------------------------------------------------------
(* An entry carried from beneath old to beneath new is DN text, and keeps  *)
(* its own RDN, the first.                                                 *)
LEMMA RebaseKeepsRDN ==
    ASSUME NEW d \in DNTexts, NEW old \in DNTexts, NEW new \in DNTexts, Len(d) > Len(old)
    PROVE  /\ Rebase(d, old, new) \in DNTexts
           /\ Len(Rebase(d, old, new)) >= 1
           /\ Rebase(d, old, new)[1] = d[1]
<1>. DEFINE n == Len(d) - Len(old)
            p == SubSeq(d, 1, n)
<1>1. n \in 1 .. Len(d)
  BY LenProperties DEF DNTexts
<1>2. p \in DNTexts /\ Len(p) = n /\ p[1] = d[1]
  BY <1>1, SubSeqProperties DEF DNTexts
<1>. QED  BY <1>1, <1>2, ConcatProperties DEF Rebase, DNTexts

(* A DN made of a name and a container begins with the name. *)
LEMMA SpecDNBegins ==
    ASSUME NEW class, NEW name \in Values, NEW container \in DNTexts
    PROVE  /\ SpecDN(class, name, container) \in DNTexts
           /\ Len(SpecDN(class, name, container)) >= 1
           /\ SpecDN(class, name, container)[1] = RDN(NamingAttr(class), name)
<1>. DEFINE r == <<RDN(NamingAttr(class), name)>>
<1>1. r \in DNTexts /\ Len(r) = 1 /\ r[1] = RDN(NamingAttr(class), name)
  BY DEF DNTexts, RDNText, Attrs, RDN, NamingAttr
<1>. QED  BY <1>1, ConcatProperties DEF SpecDN, DNTexts

(* Go's map operations keep a store a store. *)
LEMMA StoreOps ==
    ASSUME NEW f, IsStore(f), NEW d \in DNTexts, NEW o \in Objects
    PROVE  IsStore(Without(f, d)) /\ IsStore(With(f, d, o))
BY DEF IsStore, Without, With

LEMMA InitInv == Init => IInv
BY StoreConstants DEF Init, IInv, TypeOK, IsStore, NoObjects, Idle, DNTexts, IndexConsistent,
   OneEntryPerObject, Rooted, LoopInv

(* Loop either ends or goes on with entries of the map beneath the old DN. *)
LEMMA LoopTypes ==
    ASSUME NEW next, NEW start, Loop(next, start), IsStore(start),
           next \in [old : DNTexts, new : DNTexts, todo : SUBSET DNTexts],
           \A d \in next.todo : d \in DOMAIN byDN' /\ BelowText(d, next.old)
    PROVE  /\ IsStore(before')
           /\ mv' \in [old : DNTexts, new : DNTexts, todo : SUBSET DNTexts]
           /\ mv'.todo \subseteq DOMAIN byDN'
           /\ LoopInv'
BY DEF Loop, LoopInv, IsStore, NoObjects, Idle, DNTexts

LEMMA CreateStep ==
    ASSUME IInv, NEW class \in Classes, NEW name \in Names, NEW container \in Containers,
           NEW sam \in SpecSams(class), Create(class, name, container, sam)
    PROVE  IInv'
<1>. USE DEF IInv
<1>. DEFINE dn == SpecDN(class, name, container)
            o  == [guid |-> seq + 1, class |-> class, dn |-> dn, DN |-> dn,
                   name |-> name, container |-> container, sam |-> sam]
<1>1. /\ byDN' = With(byDN, dn, o) /\ seq' = seq + 1 /\ seq < MaxSeq /\ mv = Idle
      /\ mv' = mv /\ before' = before
  BY DEF Create
<1>2. dn \in DNTexts /\ Len(dn) >= 1 /\ dn[1] = RDN(NamingAttr(class), name)
  BY SpecDNBegins, StoreConstants
<1>. HIDE DEF dn
<1>3. seq + 1 \in 1 .. MaxSeq /\ seq \in Nat
  BY <1>1, StoreConstants DEF TypeOK
<1>4. o \in Objects
  BY <1>2, <1>3 DEF Objects, SpecSams
<1>5. TypeOK'
  BY <1>1, <1>2, <1>3, <1>4, StoreOps DEF TypeOK, Idle
<1>6. DOMAIN byDN' = DOMAIN byDN \cup {dn} /\ byDN'[dn] = o
  BY <1>1 DEF With
<1>7. \A d \in DOMAIN byDN : d # dn => byDN'[d] = byDN[d]
  BY <1>1 DEF With
<1>8. IndexConsistent' /\ Rooted'
  BY <1>2, <1>6, <1>7 DEF IndexConsistent, Rooted
<1>9. OneEntryPerObject'
  <2>1. \A d \in DOMAIN byDN : byDN[d].guid \in Nat /\ byDN[d].guid <= seq
    BY DEF OneEntryPerObject, TypeOK, IsStore, Objects
  <2>. QED  BY <1>1, <1>3, <1>6, <1>7, <2>1 DEF OneEntryPerObject
<1>10. LoopInv'
  BY <1>1 DEF LoopInv, Idle
<1>. QED  BY <1>5, <1>8, <1>9, <1>10

LEMMA DeleteStep ==
    ASSUME IInv, NEW class \in Classes, NEW id, Delete(class, id)
    PROVE  IInv'
<1>. USE DEF IInv
<1>1. PICK d \in DOMAIN byDN : byDN' = Without(byDN, d)
  BY DEF Delete, Targets, Found
<1>2. UNCHANGED <<seq, mv, before>> /\ mv = Idle
  BY DEF Delete
<1>3. TypeOK'
  BY <1>1, <1>2 DEF TypeOK, IsStore, Without, Idle
<1>4. IndexConsistent' /\ OneEntryPerObject' /\ Rooted'
  BY <1>1, <1>2 DEF IndexConsistent, OneEntryPerObject, Rooted, Without
<1>5. LoopInv'
  BY <1>2 DEF LoopInv, Idle
<1>. QED  BY <1>3, <1>4, <1>5

(* A move takes the object out of its old key and puts it, renamed, under  *)
(* the new one, over whatever was there.                                   *)
LEMMA StartMoveStep ==
    ASSUME IInv, NEW class \in Classes, NEW name \in Names, NEW container \in Containers,
           NEW d \in DOMAIN byDN, NEW o \in Objects,
           o.dn = d, o.guid = byDN[d].guid, o.class = class,
           StartMove(o, SpecDN(class, name, container), name, container), seq' = seq
    PROVE  IInv'
<1>. USE DEF IInv
<1>. DEFINE new  == SpecDN(class, name, container)
            p    == [o EXCEPT !.dn = new, !.DN = new, !.name = name, !.container = container]
            head == With(Without(byDN, d), new, p)
            todo == {e \in DOMAIN head : e # new /\ BelowText(e, d)}
<1>1. /\ byDN' = head
      /\ Loop([old |-> d, new |-> new, todo |-> todo], byDN)
  BY DEF StartMove
<1>2. new \in DNTexts /\ Len(new) >= 1 /\ new[1] = RDN(NamingAttr(class), name)
  BY SpecDNBegins, StoreConstants
<1>. HIDE DEF new
<1>3. d \in DNTexts /\ IsStore(byDN)
  BY DEF TypeOK, IsStore
<1>4. p \in Objects
  BY <1>2 DEF Objects
<1>5. IsStore(byDN')
  <2>1. IsStore(Without(byDN, d))
    BY <1>3 DEF IsStore, Without
  <2>. QED  BY <1>1, <1>2, <1>4, <2>1, StoreOps
<1>6. /\ IsStore(before')
      /\ mv' \in [old : DNTexts, new : DNTexts, todo : SUBSET DNTexts]
      /\ mv'.todo \subseteq DOMAIN byDN'
      /\ LoopInv'
  <2>. DEFINE next == [old |-> d, new |-> new, todo |-> todo]
  <2>1. \A e \in next.todo : e \in DOMAIN byDN' /\ BelowText(e, next.old)
    BY <1>1
  <2>2. todo \subseteq DNTexts
    BY <1>1, <1>5 DEF IsStore
  <2>3. next \in [old : DNTexts, new : DNTexts, todo : SUBSET DNTexts] /\ Loop(next, byDN)
    BY <1>1, <1>2, <1>3, <2>2
  <2>. HIDE DEF next
  <2>. QED  BY <1>3, <2>1, <2>3, LoopTypes
<1>7. TypeOK'
  BY <1>5, <1>6 DEF TypeOK
<1>8. DOMAIN byDN' = (DOMAIN byDN \ {d}) \cup {new} /\ byDN'[new] = p
  BY <1>1 DEF With, Without
<1>9. \A e \in DOMAIN byDN' : e # new => byDN'[e] = byDN[e]
  BY <1>1 DEF With, Without
<1>10. p.guid = byDN[d].guid /\ p.dn = new /\ p.DN = new /\ p.class = class /\ p.name = name
  BY DEF Objects
<1>. HIDE DEF p
<1>11. IndexConsistent' /\ Rooted'
  BY <1>2, <1>8, <1>9, <1>10 DEF IndexConsistent, Rooted
<1>12. OneEntryPerObject'
  BY <1>8, <1>9, <1>10 DEF OneEntryPerObject
<1>. QED  BY <1>6, <1>7, <1>11, <1>12

LEMMA UpdateStep ==
    ASSUME IInv, NEW class \in Classes, NEW id, NEW name \in Names, NEW container \in Containers,
           NEW sam \in SpecSams(class) \cup {Unset}, Update(class, id, name, container, sam)
    PROVE  IInv'
<1>. USE DEF IInv
<1>1. PICK d \in DOMAIN byDN :
         /\ byDN[d].class = class
         /\ LET o == [byDN[d] EXCEPT !.sam = IF sam = Unset THEN @ ELSE sam] IN
            \/ byDN' = With(byDN, d, o) /\ UNCHANGED <<mv, before>>
            \/ StartMove(o, SpecDN(class, name, container), name, container)
  BY DEF Update, Targets, Found
<1>. DEFINE o == [byDN[d] EXCEPT !.sam = IF sam = Unset THEN @ ELSE sam]
<1>2. d \in DNTexts /\ byDN[d] \in Objects /\ byDN[d].dn = d
  BY DEF TypeOK, IsStore, IndexConsistent
<1>3. /\ o \in Objects /\ o.dn = d /\ o.DN = byDN[d].DN /\ o.guid = byDN[d].guid
      /\ o.class = class /\ o.name = byDN[d].name
  BY <1>1, <1>2 DEF Objects, SpecSams
<1>4. mv = Idle /\ seq' = seq
  BY DEF Update
<1>5. CASE byDN' = With(byDN, d, o) /\ UNCHANGED <<mv, before>>
  <2>. HIDE DEF o
  <2>1. TypeOK'
    BY <1>2, <1>3, <1>4, <1>5, StoreOps DEF TypeOK, Idle
  <2>2. DOMAIN byDN' = DOMAIN byDN /\ byDN'[d] = o /\ \A e \in DOMAIN byDN : e # d => byDN'[e] = byDN[e]
    BY <1>5 DEF With
  <2>3. IndexConsistent' /\ Rooted'
    BY <1>1, <1>3, <2>2 DEF IndexConsistent, Rooted
  <2>4. OneEntryPerObject'
    <3>1. \A e \in DOMAIN byDN : byDN'[e].guid = byDN[e].guid
      BY <1>3, <2>2
    <3>. QED  BY <1>4, <2>2, <3>1 DEF OneEntryPerObject
  <2>5. LoopInv'
    BY <1>4, <1>5 DEF LoopInv, Idle
  <2>. QED  BY <2>1, <2>3, <2>4, <2>5
<1>6. CASE StartMove(o, SpecDN(class, name, container), name, container)
  BY <1>3, <1>4, <1>6, StartMoveStep
<1>. QED  BY <1>1, <1>5, <1>6

LEMMA MoveChildStep ==
    ASSUME IInv, MoveChild
    PROVE  IInv'
<1>. USE DEF IInv
<1>1. PICK d \in mv.todo :
         LET to == Rebase(d, mv.old, mv.new) IN
         /\ byDN' = With(Without(byDN, d), to, [byDN[d] EXCEPT !.dn = to, !.DN = to])
         /\ \E more \in SUBSET {e \in {to} : BelowText(e, mv.old)} :
               Loop([mv EXCEPT !.todo = (@ \ {d}) \cup more], before)
         /\ seq' = seq
  BY DEF MoveChild
<1>. DEFINE to == Rebase(d, mv.old, mv.new)
            p  == [byDN[d] EXCEPT !.dn = to, !.DN = to]
<1>2. d \in DOMAIN byDN /\ d \in DNTexts /\ byDN[d] \in Objects /\ Len(d) > Len(mv.old)
  BY DEF LoopInv, TypeOK, IsStore, BelowText
<1>3. to \in DNTexts /\ Len(to) >= 1 /\ to[1] = d[1]
  BY <1>2, RebaseKeepsRDN DEF TypeOK
<1>4. p \in Objects
  BY <1>2, <1>3 DEF Objects
<1>5. p.guid = byDN[d].guid /\ p.dn = to /\ p.DN = to /\ p.class = byDN[d].class /\ p.name = byDN[d].name
  BY <1>2 DEF Objects
<1>6. byDN' = With(Without(byDN, d), to, p)
  BY <1>1
<1>7. PICK more \in SUBSET {e \in {to} : BelowText(e, mv.old)} :
         Loop([mv EXCEPT !.todo = (@ \ {d}) \cup more], before)
  BY <1>1
<1>. HIDE DEF to, p
<1>8. IsStore(byDN')
  <2>1. IsStore(Without(byDN, d))
    BY DEF TypeOK, IsStore, Without
  <2>. QED  BY <1>3, <1>4, <1>6, <2>1, StoreOps
<1>9. /\ DOMAIN byDN' = (DOMAIN byDN \ {d}) \cup {to} /\ byDN'[to] = p
      /\ \A e \in DOMAIN byDN' : e # to => byDN'[e] = byDN[e]
  BY <1>6 DEF With, Without
<1>10. /\ IsStore(before')
       /\ mv' \in [old : DNTexts, new : DNTexts, todo : SUBSET DNTexts]
       /\ mv'.todo \subseteq DOMAIN byDN'
       /\ LoopInv'
  <2>. DEFINE next == [mv EXCEPT !.todo = (@ \ {d}) \cup more]
  <2>1. next.old = mv.old /\ next.todo = (mv.todo \ {d}) \cup more
    BY DEF TypeOK
  <2>2. \A e \in next.todo : e \in DOMAIN byDN' /\ BelowText(e, next.old)
    BY <1>7, <1>9, <2>1 DEF LoopInv
  <2>3. next \in [old : DNTexts, new : DNTexts, todo : SUBSET DNTexts] /\ Loop(next, before)
    BY <1>3, <1>7 DEF TypeOK
  <2>. HIDE DEF next
  <2>. QED  BY <2>2, <2>3, LoopTypes DEF TypeOK
<1>11. TypeOK'
  BY <1>1, <1>8, <1>10 DEF TypeOK
<1>12. IndexConsistent' /\ Rooted'
  BY <1>2, <1>3, <1>5, <1>9 DEF IndexConsistent, Rooted
<1>13. OneEntryPerObject'
  BY <1>1, <1>2, <1>5, <1>9 DEF OneEntryPerObject
<1>. QED  BY <1>10, <1>11, <1>12, <1>13
-----------------------------------------------------------------------------
(* The store's invariants hold in every reachable state, in the middle of  *)
(* a move's loop as well as between operations (fake.go:32-44, 181-198).   *)
THEOREM InductiveInvariant == Spec => []IInv
<1>1. Init => IInv
  BY InitInv
<1>2. IInv /\ [Next]_vars => IInv'
  <2>. SUFFICES ASSUME IInv, [Next]_vars PROVE IInv'
    OBVIOUS
  <2>1. CASE MoveChild
    BY <2>1, MoveChildStep
  <2>2. CASE \E class \in Classes, name \in Names, container \in Containers :
                \E sam \in SpecSams(class) : Create(class, name, container, sam)
    BY <2>2, CreateStep
  <2>3. CASE \E class \in Classes, name \in Names, container \in Containers, id \in Identities :
                \E sam \in SpecSams(class) \cup {Unset} : Update(class, id, name, container, sam)
    BY <2>3, UpdateStep
  <2>4. CASE \E class \in Classes, id \in Identities : Delete(class, id)
    BY <2>4, DeleteStep
  <2>5. CASE UNCHANGED vars
    BY <2>5 DEF vars, IInv, TypeOK, IsStore, IndexConsistent, OneEntryPerObject, Rooted, LoopInv
  <2>. QED  BY <2>1, <2>2, <2>3, <2>4, <2>5 DEF Next
<1>. QED  BY <1>1, <1>2, PTL DEF Spec

(* Every variable stays in its type. *)
THEOREM TypeCorrect == Spec => []TypeOK
<1>1. IInv => TypeOK
  BY DEF IInv
<1>. QED  BY <1>1, InductiveInvariant, PTL

(* The key of an entry, its object's dn, its model's DN and its model's    *)
(* name agree, whatever is renamed and moved.                              *)
THEOREM Consistency == Spec => []IndexConsistent
<1>1. IInv => IndexConsistent
  BY DEF IInv
<1>. QED  BY <1>1, InductiveInvariant, PTL

(* No object is stored under two DN texts, and no GUID is used twice. *)
THEOREM Uniqueness == Spec => []OneEntryPerObject
<1>1. IInv => OneEntryPerObject
  BY DEF IInv
<1>. QED  BY <1>1, InductiveInvariant, PTL

-----------------------------------------------------------------------------
(* The step-by-step argument for NothingVanishes: an object not found in   *)
(* the next state was landed on, or deleted.                               *)
LEMMA OnlyMovesAndDeletesLose ==
    ASSUME IInv, [Next]_vars, NEW d \in DOMAIN byDN, byDN[d].guid \notin Live'
    PROVE  \/ d \in DOMAIN byDN'
           \/ /\ byDN' = Without(byDN, d)
              /\ IsOU(byDN[d].class) => \A e \in DOMAIN byDN' : ~BelowText(e, d)
<1>. USE DEF IInv
<1>1. \A e \in DOMAIN byDN' : byDN'[e].guid # byDN[d].guid
  BY DEF Live
<1>2. CASE MoveChild
  <2>1. PICK c \in mv.todo :
           byDN' = With(Without(byDN, c), Rebase(c, mv.old, mv.new),
                        [byDN[c] EXCEPT !.dn = Rebase(c, mv.old, mv.new),
                                        !.DN = Rebase(c, mv.old, mv.new)])
    BY <1>2 DEF MoveChild
  <2>2. c \in DOMAIN byDN /\ byDN[c] \in Objects
    BY DEF LoopInv, TypeOK, IsStore
  <2>3. byDN'[Rebase(c, mv.old, mv.new)].guid = byDN[c].guid /\ Rebase(c, mv.old, mv.new) \in DOMAIN byDN'
    BY <2>1, <2>2 DEF With, Without, Objects
  <2>4. c # d
    BY <1>1, <2>3
  <2>. QED  BY <2>1, <2>4 DEF With, Without
<1>3. CASE \E class \in Classes, name \in Names, container \in Containers :
              \E sam \in SpecSams(class) : Create(class, name, container, sam)
  BY <1>3 DEF Create, With
<1>4. CASE \E class \in Classes, name \in Names, container \in Containers, id \in Identities :
              \E sam \in SpecSams(class) \cup {Unset} : Update(class, id, name, container, sam)
  <2>1. PICK class \in Classes, name \in Names, container \in Containers, id \in Identities :
           \E sam \in SpecSams(class) \cup {Unset} : Update(class, id, name, container, sam)
    BY <1>4
  <2>2. PICK sam \in SpecSams(class) \cup {Unset} : Update(class, id, name, container, sam)
    BY <2>1
  <2>3. PICK c \in DOMAIN byDN :
           LET o == [byDN[c] EXCEPT !.sam = IF sam = Unset THEN @ ELSE sam] IN
           byDN' = With(byDN, c, o) \/ StartMove(o, SpecDN(class, name, container), name, container)
    BY <2>2 DEF Update, Targets, Found
  <2>. DEFINE o   == [byDN[c] EXCEPT !.sam = IF sam = Unset THEN @ ELSE sam]
              new == SpecDN(class, name, container)
              p   == [o EXCEPT !.dn = new, !.DN = new, !.name = name, !.container = container]
  <2>4. byDN[c] \in Objects /\ byDN[c].dn = c
    BY DEF TypeOK, IsStore, IndexConsistent
  <2>5. o.dn = c /\ p.guid = byDN[c].guid
    BY <2>4 DEF Objects
  <2>6. CASE byDN' = With(byDN, c, o)
    BY <2>6 DEF With
  <2>7. CASE StartMove(o, new, name, container)
    <3>1. byDN' = With(Without(byDN, c), new, p)
      BY <2>5, <2>7 DEF StartMove
    <3>. HIDE DEF new, p
    <3>2. new \in DOMAIN byDN' /\ byDN'[new] = p
      BY <3>1 DEF With
    <3>3. c # d
      BY <1>1, <2>5, <3>2
    <3>. QED  BY <3>1, <3>3 DEF With, Without
  <2>. QED  BY <2>3, <2>6, <2>7
<1>5. CASE \E class \in Classes, id \in Identities : Delete(class, id)
  <2>1. PICK c \in DOMAIN byDN : /\ byDN' = Without(byDN, c)
                                 /\ IsOU(byDN[c].class) => Children(c) = {}
    BY <1>5 DEF Delete, Targets, Found
  <2>2. CASE c # d
    BY <2>1, <2>2 DEF Without
  <2>3. CASE c = d
    <3>1. ASSUME NEW e \in DOMAIN byDN', BelowText(e, d), EqDN(e, d)
          PROVE  FALSE
      <4>1. e \in DNTexts /\ d \in DNTexts /\ Len(e) > Len(d)
        BY <2>1, <3>1 DEF TypeOK, IsStore, Without, BelowText
      <4>2. DOMAIN Parsed(e) = 1 .. Len(e) /\ DOMAIN Parsed(d) = 1 .. Len(d)
        BY <4>1, LenProperties DEF Parsed, DNTexts
      <4>3. Len(e) \in 1 .. Len(e) /\ Len(e) \notin 1 .. Len(d)
        BY <4>1, LenProperties DEF DNTexts
      <4>. QED  BY <3>1, <4>2, <4>3 DEF EqDN
    <3>2. IsOU(byDN[d].class) => \A e \in DOMAIN byDN' : ~BelowText(e, d)
      BY <2>1, <2>3, <3>1 DEF Children, Without
    <3>. QED  BY <2>1, <2>3, <3>2
  <2>. QED  BY <2>2, <2>3
<1>6. CASE UNCHANGED vars
  BY <1>6 DEF vars
<1>. QED  BY <1>2, <1>3, <1>4, <1>5, <1>6 DEF Next

(* An object is lost only to an object that takes over its DN text, or by  *)
(* a Delete, which takes nothing else and no OU with an entry beneath it   *)
(* (fake.go:166-198; ou.go:115-136).                                       *)
THEOREM NoSilentLoss == Spec => NothingVanishes
<1>1. IInv /\ [Next]_vars =>
        [\A d \in DOMAIN byDN : byDN[d].guid \notin Live' =>
            \/ d \in DOMAIN byDN'
            \/ /\ byDN' = Without(byDN, d)
               /\ IsOU(byDN[d].class) => \A e \in DOMAIN byDN' : ~BelowText(e, d)]_vars
  BY OnlyMovesAndDeletesLose
<1>. QED  BY <1>1, InductiveInvariant, PTL DEF Spec, NothingVanishes

-----------------------------------------------------------------------------
(* What a text comparison keeps of an RDN. *)
Low(r) == [r EXCEPT !.val = Fold[@]]

(* The suffix test, RDN by RDN. *)
LEMMA BelowByRDN ==
    ASSUME NEW d \in DNTexts, NEW base \in DNTexts
    PROVE  BelowText(d, base) <=>
              /\ Len(d) > Len(base)
              /\ \A i \in 1 .. Len(base) : Low(d[Len(d) - Len(base) + i]) = Low(base[i])
<1>. DEFINE n == Len(d) - Len(base)
            s == SubSeq(d, n + 1, Len(d))
<1>1. SUFFICES ASSUME Len(d) > Len(base)
               PROVE  Lowered(s) = Lowered(base) <=>
                         \A i \in 1 .. Len(base) : Low(d[n + i]) = Low(base[i])
  BY DEF BelowText
<1>2. /\ Len(base) \in Nat /\ Len(d) \in Nat /\ n \in Nat
      /\ DOMAIN base = 1 .. Len(base) /\ DOMAIN d = 1 .. Len(d)
  BY <1>1, LenProperties DEF DNTexts
<1>3. DOMAIN s = 1 .. Len(base) /\ \A i \in 1 .. Len(base) : s[i] = d[n + i]
  <2>1. n + 1 \in 1 .. Len(d) + 1 /\ Len(d) \in n .. Len(d)
    BY <1>1, <1>2
  <2>2. s = [i \in 1 .. Len(base) |-> d[n + i]]
    BY <1>1, <1>2, SubSeqProperties DEF DNTexts
  <2>. QED  BY <2>2
<1>. HIDE DEF s
<1>4. Lowered(s) = [i \in 1 .. Len(base) |-> Low(d[n + i])]
  BY <1>3 DEF Lowered, Low
<1>5. Lowered(base) = [i \in 1 .. Len(base) |-> Low(base[i])]
  BY <1>2 DEF Lowered, Low
<1>. HIDE DEF n
<1>. QED  BY <1>4, <1>5

(* The RDNs of an entry carried: its own first, then those of the new DN. *)
LEMMA RebaseByRDN ==
    ASSUME NEW d \in DNTexts, NEW old \in DNTexts, NEW new \in DNTexts, Len(d) > Len(old)
    PROVE  /\ Len(d) - Len(old) \in Nat \ {0}
           /\ Rebase(d, old, new) \in DNTexts
           /\ Len(Rebase(d, old, new)) = (Len(d) - Len(old)) + Len(new)
           /\ \A i \in 1 .. Len(d) - Len(old) : Rebase(d, old, new)[i] = d[i]
           /\ \A i \in 1 .. Len(new) : Rebase(d, old, new)[(Len(d) - Len(old)) + i] = new[i]
<1>. DEFINE n == Len(d) - Len(old)
            p == SubSeq(d, 1, n)
<1>1. n \in 1 .. Len(d) /\ Len(new) \in Nat
  BY LenProperties DEF DNTexts
<1>2. p \in DNTexts /\ Len(p) = n /\ \A i \in 1 .. n : p[i] = d[i]
  BY <1>1, SubSeqProperties DEF DNTexts
<1>3. Rebase(d, old, new) = p \o new
  BY DEF Rebase
<1>. HIDE DEF p, n
<1>4. /\ p \o new \in DNTexts /\ Len(p \o new) = n + Len(new)
      /\ \A i \in 1 .. n + Len(new) : (p \o new)[i] = IF i <= n THEN p[i] ELSE new[i - n]
  BY <1>2, ConcatProperties DEF DNTexts
<1>. QED  BY <1>1, <1>2, <1>3, <1>4 DEF n

(* Neither DN is beneath the other. *)
Apart(old, new) == ~BelowText(new, old) /\ ~BelowText(old, new)

(* An entry already carried that the loop takes for one it has to carry    *)
(* stays where it is.                                                      *)
LEMMA LandedStays ==
    ASSUME NEW d \in DNTexts, NEW old \in DNTexts, NEW new \in DNTexts, Apart(old, new),
           Len(d) > Len(old), BelowText(Rebase(d, old, new), old)
    PROVE  Rebase(Rebase(d, old, new), old, new) = Rebase(d, old, new)
<1>. DEFINE to == Rebase(d, old, new)
            n  == Len(d) - Len(old)
            lo == Len(old)
            ln == Len(new)
<1>1. /\ n \in Nat \ {0} /\ to \in DNTexts /\ Len(to) = n + ln
      /\ \A i \in 1 .. ln : to[n + i] = new[i]
  BY RebaseByRDN
<1>2. lo \in Nat /\ ln \in Nat
  BY LenProperties DEF DNTexts
<1>3. Len(to) > lo /\ \A i \in 1 .. lo : Low(to[Len(to) - lo + i]) = Low(old[i])
  BY <1>1, BelowByRDN
<1>4. ln = lo
  <2>1. ASSUME ln > lo PROVE FALSE
    <3>1. ASSUME NEW i \in 1 .. lo PROVE Low(new[ln - lo + i]) = Low(old[i])
      <4>1. ln - lo + i \in 1 .. ln /\ n + (ln - lo + i) = Len(to) - lo + i
        BY <1>1, <1>2, <2>1
      <4>. QED  BY <1>1, <1>3, <4>1
    <3>. QED  BY <2>1, <3>1, BelowByRDN DEF Apart
  <2>2. ASSUME ln < lo PROVE FALSE
    <3>1. ASSUME NEW i \in 1 .. ln PROVE Low(old[lo - ln + i]) = Low(new[i])
      <4>1. lo - ln + i \in 1 .. lo /\ Len(to) - lo + (lo - ln + i) = n + i
        BY <1>1, <1>2, <2>2
      <4>. QED  BY <1>1, <1>3, <4>1
    <3>. QED  BY <2>2, <3>1, BelowByRDN DEF Apart
  <2>. QED  BY <1>2, <2>1, <2>2
<1>. DEFINE tt == Rebase(to, old, new)
<1>5. /\ tt \in DNTexts /\ Len(tt) = (Len(to) - lo) + ln
      /\ \A i \in 1 .. Len(to) - lo : tt[i] = to[i]
      /\ \A i \in 1 .. ln : tt[(Len(to) - lo) + i] = new[i]
  <2>1. to \in DNTexts /\ Len(to) > Len(old)
    BY <1>1, <1>3
  <2>. HIDE DEF to
  <2>2. tt \in DNTexts
    BY <2>1, RebaseByRDN
  <2>3. Len(tt) = (Len(to) - lo) + ln
    BY <2>1, RebaseByRDN
  <2>4. \A i \in 1 .. Len(to) - lo : tt[i] = to[i]
    BY <2>1, RebaseByRDN
  <2>5. \A i \in 1 .. ln : tt[(Len(to) - lo) + i] = new[i]
    BY <2>1, RebaseByRDN
  <2>. QED  BY <2>2, <2>3, <2>4, <2>5
<1>. HIDE DEF to, tt, lo, ln, n
<1>6. Len(tt) = Len(to) /\ Len(to) - lo = n
  BY <1>1, <1>2, <1>4, <1>5
<1>7. ASSUME NEW i \in 1 .. Len(to) PROVE tt[i] = to[i]
  <2>1. CASE i <= n
    BY <1>5, <1>6, <2>1
  <2>2. CASE i > n
    <3>1. i - n \in 1 .. ln /\ n + (i - n) = i
      BY <1>1, <1>2, <2>2
    <3>. QED  BY <1>1, <1>5, <1>6, <3>1
  <2>. QED  BY <1>1, <2>1, <2>2
<1>8. tt \in Seq(RDNText) /\ to \in Seq(RDNText)
  BY <1>1, <1>5 DEF DNTexts
<1>. QED  BY <1>6, <1>7, <1>8, SeqEqual DEF tt, to

-----------------------------------------------------------------------------
Beneath(g, old) == {d \in DOMAIN g : BelowText(d, old)}
Elsewhere(g, old) == DOMAIN g \ (Beneath(g, old) \cup {old})

(* f is the map when, of the move from old to new that began with g, todo  *)
(* is left: every entry is one of four, the last two hold the objects they *)
(* should, and what the loop has not touched is as it was.                 *)
Carrying(f, g, old, new, todo) ==
    /\ old \in DOMAIN g
    /\ DOMAIN f = (Elsewhere(g, old) \cup {new})
                     \cup (todo \cup {Rebase(d, old, new) : d \in Beneath(g, old) \ todo})
    /\ \A t \in todo : t \in Beneath(g, old) \/ \E e \in Beneath(g, old) \ todo : Rebase(e, old, new) = t
    /\ \A d \in Elsewhere(g, old) :
          d # new /\ (\A e \in Beneath(g, old) : Rebase(e, old, new) # d) => f[d] = g[d]
    /\ f[new].guid = g[old].guid
    /\ \A t \in todo : \E d \in Beneath(g, old) :
          Rebase(d, old, new) = Rebase(t, old, new) /\ f[t].guid = g[d].guid
    /\ \A d \in Beneath(g, old) \ todo : \E e \in Beneath(g, old) :
          Rebase(e, old, new) = Rebase(d, old, new) /\ f[Rebase(d, old, new)].guid = g[e].guid

(* One visit of the loop. *)
LEMMA CarryingStep ==
    ASSUME NEW f, NEW g, NEW old \in DNTexts, NEW new \in DNTexts, NEW todo, NEW more, NEW d \in todo,
           NEW o, o.guid = f[d].guid, DOMAIN g \subseteq DNTexts,
           \A t \in todo : t \in DNTexts /\ BelowText(t, old),
           Apart(old, new), more \subseteq {e \in {Rebase(d, old, new)} : BelowText(e, old)},
           Carrying(f, g, old, new, todo)
    PROVE  Carrying(With(Without(f, d), Rebase(d, old, new), o), g, old, new, (todo \ {d}) \cup more)
<1>. DEFINE To(x) == Rebase(x, old, new)
            B  == Beneath(g, old)
            S  == Elsewhere(g, old)
            h  == With(Without(f, d), To(d), o)
            td == (todo \ {d}) \cup more
<1>1. ASSUME NEW x, x \in B \/ x \in todo
      PROVE  /\ x \in DNTexts /\ BelowText(x, old) /\ x # new /\ x # old /\ To(x) # new
             /\ BelowText(To(x), old) => To(To(x)) = To(x)
  <2>1. x \in DNTexts /\ BelowText(x, old) /\ Len(x) > Len(old)
    BY <1>1 DEF Beneath, BelowText
  <2>2. Len(To(x)) > Len(new)
    <3>1. /\ Len(x) - Len(old) \in Nat \ {0} /\ Len(To(x)) = (Len(x) - Len(old)) + Len(new)
          /\ Len(new) \in Nat
      BY <2>1, RebaseByRDN, LenProperties DEF DNTexts
    <3>. QED  BY <3>1
  <2>3. x # new /\ x # old /\ To(x) # new
    <3>1. Len(new) \in Nat /\ Len(old) \in Nat
      BY LenProperties DEF DNTexts
    <3>. QED  BY <2>1, <2>2, <3>1 DEF Apart
  <2>. QED  BY <2>1, <2>3, LandedStays
<1>2. /\ DOMAIN h = (DOMAIN f \ {d}) \cup {To(d)} /\ h[To(d)] = o
      /\ \A x \in DOMAIN f : x # d /\ x # To(d) => h[x] = f[x]
  BY DEF With, Without
<1>3. /\ old \in DOMAIN g
      /\ DOMAIN f = (S \cup {new}) \cup (todo \cup {To(x) : x \in B \ todo})
      /\ \A t \in todo : t \in B \/ \E e \in B \ todo : To(e) = t
      /\ \A x \in S : x # new /\ (\A e \in B : To(e) # x) => f[x] = g[x]
      /\ f[new].guid = g[old].guid
      /\ \A t \in todo : \E x \in B : To(x) = To(t) /\ f[t].guid = g[x].guid
      /\ \A x \in B \ todo : \E e \in B : To(e) = To(x) /\ f[To(x)].guid = g[e].guid
  BY DEF Carrying
<1>4. more \subseteq {To(d)} /\ \A e \in more : BelowText(e, old)
  OBVIOUS
<1>. HIDE DEF To, B, S, h, td
<1>7. To(d) # d => d \in B
  BY <1>1, <1>3
<1>8. To(d) = d \/ \A x \in B : To(x) # d
  BY <1>1
<1>9. d \notin S
  BY <1>1 DEF S, B, Elsewhere, Beneath
<1>5. ASSUME NEW y \in B, y \in more PROVE y = To(d) /\ To(y) = y
  BY <1>1, <1>4, <1>5
<1>6. d \notin B => To(d) = d /\ \E e \in B \ td : To(e) = d
  BY <1>3, <1>7, <1>5 DEF td
<1>10. DOMAIN h = (S \cup {new}) \cup (td \cup {To(x) : x \in B \ td})
  <2>1. To(d) \in td \cup {To(y) : y \in B \ td}
    <3>1. CASE d \in B /\ d \notin td
      BY <3>1
    <3>2. CASE d \in B /\ d \in td
      <4>1. d \in more
        BY <3>2 DEF td
      <4>. QED  BY <1>5, <3>2, <4>1
    <3>3. CASE d \notin B
      BY <1>6, <3>3
    <3>. QED  BY <3>1, <3>2, <3>3
  <2>2. ASSUME NEW x \in DOMAIN f, x # d
        PROVE  x \in (S \cup {new}) \cup (td \cup {To(y) : y \in B \ td})
    <3>1. CASE x \in S \cup {new} \cup todo
      BY <2>2, <3>1 DEF td
    <3>2. CASE x \in {To(y) : y \in B \ todo}
      <4>1. PICK y \in B \ todo : x = To(y)
        BY <3>2
      <4>2. CASE y \in td
        <5>1. y \in more
          BY <4>2 DEF td
        <5>2. x = y
          BY <1>5, <4>1, <5>1
        <5>. QED  BY <4>2, <5>2
      <4>3. CASE y \notin td
        BY <4>1, <4>3
      <4>. QED  BY <4>2, <4>3
    <3>. QED  BY <1>3, <3>1, <3>2
  <2>3. ASSUME NEW x \in (S \cup {new}) \cup td PROVE x \in DOMAIN h
    <3>1. CASE x \in S \cup {new}
      BY <1>1, <1>2, <1>3, <1>9, <3>1
    <3>2. CASE x \in td
      BY <1>2, <1>3, <1>4, <3>2 DEF td
    <3>. QED  BY <2>3, <3>1, <3>2
  <2>4. ASSUME NEW y \in B \ td PROVE To(y) \in DOMAIN h
    <3>1. CASE y = d
      BY <1>2, <3>1
    <3>2. CASE y # d
      <4>1. y \notin todo
        BY <2>4, <3>2 DEF td
      <4>2. To(y) \in DOMAIN f
        BY <1>3, <2>4, <4>1
      <4>. QED  BY <1>2, <1>8, <2>4, <4>2
    <3>. QED  BY <3>1, <3>2
  <2>. QED  BY <1>2, <2>1, <2>2, <2>3, <2>4
<1>11. \A t \in td : t \in B \/ \E e \in B \ td : To(e) = t
  <2>. SUFFICES ASSUME NEW t \in td, t \notin B PROVE \E e \in B \ td : To(e) = t
    OBVIOUS
  <2>1. CASE t \in more
    <3>1. t = To(d)
      BY <2>1, <1>4
    <3>2. CASE d \in B
      <4>1. d \notin td
        BY <1>5, <3>1, <3>2 DEF td
      <4>. QED  BY <3>1, <3>2, <4>1
    <3>3. CASE d \notin B
      BY <1>6, <3>1, <3>3
    <3>. QED  BY <3>2, <3>3
  <2>2. CASE t \in todo \ {d}
    <3>1. PICK e \in B \ todo : To(e) = t
      BY <1>3, <2>2
    <3>2. e \notin more
      BY <1>5, <3>1
    <3>. QED  BY <3>1, <3>2 DEF td
  <2>. QED  BY <2>1, <2>2 DEF td
<1>12. \A x \in S : x # new /\ (\A e \in B : To(e) # x) => h[x] = g[x]
  <2>. SUFFICES ASSUME NEW x \in S, x # new, \A e \in B : To(e) # x PROVE h[x] = g[x]
    OBVIOUS
  <2>1. x \in DOMAIN f /\ x # d /\ x # To(d) /\ f[x] = g[x]
    BY <1>3, <1>7, <1>9
  <2>. QED  BY <1>2, <2>1
<1>13. h[new].guid = g[old].guid
  <2>1. new \in DOMAIN f /\ new # d /\ new # To(d)
    BY <1>1, <1>3
  <2>. QED  BY <1>2, <1>3, <2>1
<1>14. PICK c \in B : To(c) = To(d) /\ o.guid = g[c].guid
  BY <1>3
<1>15. \A t \in td : \E x \in B : To(x) = To(t) /\ h[t].guid = g[x].guid
  <2>. SUFFICES ASSUME NEW t \in td PROVE \E x \in B : To(x) = To(t) /\ h[t].guid = g[x].guid
    OBVIOUS
  <2>1. CASE t = To(d)
    <3>1. BelowText(t, old)
      BY <1>1, <1>4 DEF td
    <3>2. To(t) = To(d)
      BY <1>1, <2>1, <3>1
    <3>. QED  BY <1>2, <1>14, <2>1, <3>2
  <2>2. CASE t # To(d)
    <3>1. t \in todo /\ t # d /\ t \in DOMAIN f
      BY <1>3, <1>4, <2>2 DEF td
    <3>. QED  BY <1>2, <1>3, <2>2, <3>1
  <2>. QED  BY <2>1, <2>2
<1>16. \A x \in B \ td : \E e \in B : To(e) = To(x) /\ h[To(x)].guid = g[e].guid
  <2>. SUFFICES ASSUME NEW x \in B \ td PROVE \E e \in B : To(e) = To(x) /\ h[To(x)].guid = g[e].guid
    OBVIOUS
  <2>1. CASE To(x) = To(d)
    BY <1>2, <1>14, <2>1
  <2>2. CASE To(x) # To(d)
    <3>1. x \in B \ todo
      BY <2>2 DEF td
    <3>2. To(x) \in DOMAIN f /\ To(x) # d
      BY <1>3, <1>8, <2>2, <3>1
    <3>. QED  BY <1>2, <1>3, <2>2, <3>1, <3>2
  <2>. QED  BY <2>1, <2>2
<1>. QED  BY <1>3, <1>10, <1>11, <1>12, <1>13, <1>15, <1>16 DEF Carrying, To, B, S, h, td

(* The beginning of a loop: nothing is carried yet. *)
LEMMA CarryingStarts ==
    ASSUME NEW g, NEW old \in DOMAIN g, NEW new \in DNTexts, NEW o, o.guid = g[old].guid,
           DOMAIN g \subseteq DNTexts, Apart(old, new)
    PROVE  LET f == With(Without(g, old), new, o)
           IN  Carrying(f, g, old, new, {d \in DOMAIN f : d # new /\ BelowText(d, old)})
<1>. DEFINE f == With(Without(g, old), new, o)
            todo == {d \in DOMAIN f : d # new /\ BelowText(d, old)}
<1>1. /\ DOMAIN f = (DOMAIN g \ {old}) \cup {new} /\ f[new] = o
      /\ \A x \in DOMAIN g : x # old /\ x # new => f[x] = g[x]
  BY DEF With, Without
<1>2. ~BelowText(old, old) /\ ~BelowText(new, old)
  BY LenProperties DEF BelowText, Apart, DNTexts
<1>3. todo = Beneath(g, old)
  BY <1>1, <1>2 DEF Beneath
<1>4. \A d \in Beneath(g, old) : d \in DOMAIN g /\ d # old /\ d # new
  BY <1>2 DEF Beneath
<1>5. DOMAIN g \ {old} = Elsewhere(g, old) \cup Beneath(g, old)
  BY <1>4 DEF Elsewhere
<1>6. \A d \in Elsewhere(g, old) : d \in DOMAIN g /\ d # old
  BY DEF Elsewhere
<1>. HIDE DEF f, todo
<1>7. Carrying(f, g, old, new, todo)
  BY <1>1, <1>3, <1>4, <1>5, <1>6 DEF Carrying
<1>. QED  BY <1>7 DEF f, todo

(* The end of a loop: what MoveCarriesSubtree says of it. *)
LEMMA CarryingEnds ==
    ASSUME NEW f, NEW g, NEW old, NEW new, Carrying(f, g, old, new, {})
    PROVE  Relocated(f, g, old, new)
<1>. DEFINE below == {d \in DOMAIN g : d # old /\ BelowText(d, old)}
            stays == DOMAIN g \ (below \cup {old})
<1>1. below = Beneath(g, old)
  BY DEF Beneath, BelowText
<1>2. stays = Elsewhere(g, old)
  BY <1>1 DEF Elsewhere
<1>. HIDE DEF below, stays
<1>3. DOMAIN f = stays \cup ({new} \cup {Rebase(d, old, new) : d \in below})
  BY <1>1, <1>2 DEF Carrying
<1>4. \A d \in stays \ ({new} \cup {Rebase(e, old, new) : e \in below}) : f[d] = g[d]
  BY <1>1, <1>2 DEF Carrying
<1>5. f[new].guid = g[old].guid
  BY DEF Carrying
<1>6. \A x \in below : \E d \in below :
         Rebase(d, old, new) = Rebase(x, old, new) /\ f[Rebase(x, old, new)].guid = g[d].guid
  BY <1>1 DEF Carrying
<1>. QED  BY <1>3, <1>4, <1>5, <1>6 DEF below, stays, Relocated

-----------------------------------------------------------------------------
(* While a loop runs between DNs that are apart, the map is as Carrying    *)
(* says.                                                                   *)
CarryInv == mv.todo # {} /\ Apart(mv.old, mv.new) => Carrying(byDN, before, mv.old, mv.new, mv.todo)

(* A visit of the loop keeps the map so, and so does the last one. *)
LEMMA VisitCarries ==
    ASSUME IInv, CarryInv, MoveChild, Apart(mv.old, mv.new)
    PROVE  /\ mv' # Idle => CarryInv'
           /\ mv' = Idle => Carrying(byDN', before, mv.old, mv.new, {})
<1>. USE DEF IInv
<1>1. PICK d \in mv.todo :
         LET to == Rebase(d, mv.old, mv.new) IN
         /\ byDN' = With(Without(byDN, d), to, [byDN[d] EXCEPT !.dn = to, !.DN = to])
         /\ \E more \in SUBSET {e \in {to} : BelowText(e, mv.old)} :
               Loop([mv EXCEPT !.todo = (@ \ {d}) \cup more], before)
  BY DEF MoveChild
<1>. DEFINE to == Rebase(d, mv.old, mv.new)
            p  == [byDN[d] EXCEPT !.dn = to, !.DN = to]
<1>2. PICK more \in SUBSET {e \in {to} : BelowText(e, mv.old)} :
         Loop([mv EXCEPT !.todo = (@ \ {d}) \cup more], before)
  BY <1>1
<1>. DEFINE todo == (mv.todo \ {d}) \cup more
            next == [mv EXCEPT !.todo = (@ \ {d}) \cup more]
<1>3. next.old = mv.old /\ next.new = mv.new /\ next.todo = todo
  BY DEF TypeOK
<1>4. byDN[d] \in Objects /\ \A t \in mv.todo : t \in DNTexts /\ BelowText(t, mv.old)
  BY DEF LoopInv, TypeOK, IsStore
<1>5. p.guid = byDN[d].guid
  BY <1>4 DEF Objects
<1>6. /\ Carrying(byDN, before, mv.old, mv.new, mv.todo)
      /\ DOMAIN before \subseteq DNTexts /\ mv.old \in DNTexts /\ mv.new \in DNTexts
  BY DEF CarryInv, TypeOK, IsStore
<1>7. byDN' = With(Without(byDN, d), to, p)
  BY <1>1
<1>. HIDE DEF p
<1>8. Carrying(With(Without(byDN, d), to, p), before, mv.old, mv.new, todo)
  BY <1>2, <1>4, <1>5, <1>6, CarryingStep
<1>9. Carrying(byDN', before, mv.old, mv.new, todo)
  BY <1>7, <1>8
<1>. HIDE DEF next, todo
<1>10. CASE todo = {}
  BY <1>2, <1>3, <1>9, <1>10 DEF Loop, next, CarryInv
<1>11. CASE todo # {}
  <2>1. mv' = next /\ before' = before
    BY <1>2, <1>3, <1>11 DEF Loop, next
  <2>2. mv' # Idle
    BY <1>3, <1>11, <2>1 DEF Idle
  <2>. QED  BY <1>3, <1>9, <2>1, <2>2 DEF CarryInv
<1>. QED  BY <1>10, <1>11

(* So does an Update that begins a loop; one without a loop leaves none. *)
LEMMA UpdateCarries ==
    ASSUME IInv, NEW class \in Classes, NEW id, NEW name \in Names, NEW container \in Containers,
           NEW sam \in SpecSams(class) \cup {Unset}, Update(class, id, name, container, sam)
    PROVE  CarryInv'
<1>. USE DEF IInv
<1>1. PICK d \in DOMAIN byDN :
         LET o == [byDN[d] EXCEPT !.sam = IF sam = Unset THEN @ ELSE sam] IN
         \/ mv = Idle /\ UNCHANGED mv
         \/ StartMove(o, SpecDN(class, name, container), name, container)
  BY DEF Update, Targets, Found
<1>. DEFINE o   == [byDN[d] EXCEPT !.sam = IF sam = Unset THEN @ ELSE sam]
            new == SpecDN(class, name, container)
            p   == [o EXCEPT !.dn = new, !.DN = new, !.name = name, !.container = container]
            head == With(Without(byDN, d), new, p)
            todo == {e \in DOMAIN head : e # new /\ BelowText(e, d)}
<1>2. byDN[d] \in Objects /\ byDN[d].dn = d /\ d \in DNTexts
  BY DEF TypeOK, IsStore, IndexConsistent
<1>3. o.dn = d /\ p.guid = byDN[d].guid
  BY <1>2 DEF Objects
<1>4. CASE mv = Idle /\ UNCHANGED mv
  BY <1>4 DEF Idle, CarryInv
<1>5. CASE StartMove(o, new, name, container)
  <2>1. byDN' = head /\ Loop([old |-> d, new |-> new, todo |-> todo], byDN)
    BY <1>3, <1>5 DEF StartMove
  <2>2. new \in DNTexts /\ DOMAIN byDN \subseteq DNTexts
    BY SpecDNBegins, StoreConstants DEF TypeOK, IsStore
  <2>. HIDE DEF p, new
  <2>3. Apart(d, new) => Carrying(head, byDN, d, new, todo)
    BY <1>2, <1>3, <2>2, CarryingStarts
  <2>. HIDE DEF head, todo
  <2>4. CASE todo = {}
    BY <2>1, <2>4 DEF Loop, Idle, CarryInv
  <2>5. CASE todo # {}
    <3>1. /\ mv'.old = d /\ mv'.new = new /\ mv'.todo = todo /\ before' = byDN
      BY <2>1, <2>5 DEF Loop
    <3>. QED  BY <2>1, <2>3, <3>1 DEF CarryInv
  <2>. QED  BY <2>4, <2>5
<1>. QED  BY <1>1, <1>4, <1>5

LEMMA CarryInvariance == Spec => []CarryInv
<1>1. Init => CarryInv
  BY DEF Init, Idle, CarryInv
<1>2. IInv /\ CarryInv /\ [Next]_vars => CarryInv'
  <2>. SUFFICES ASSUME IInv, CarryInv, [Next]_vars PROVE CarryInv'
    OBVIOUS
  <2>1. CASE MoveChild
    <3>1. CASE mv' = Idle
      BY <3>1 DEF Idle, CarryInv
    <3>2. CASE mv' # Idle /\ Apart(mv.old, mv.new)
      BY <2>1, <3>2, VisitCarries
    <3>3. CASE mv' # Idle /\ ~Apart(mv.old, mv.new)
      <4>1. mv'.old = mv.old /\ mv'.new = mv.new
        BY <2>1, <3>3 DEF MoveChild, Loop, IInv, TypeOK
      <4>. QED  BY <3>3, <4>1 DEF CarryInv
    <3>. QED  BY <3>1, <3>2, <3>3
  <2>2. CASE \E class \in Classes, name \in Names, container \in Containers :
                \E sam \in SpecSams(class) : Create(class, name, container, sam)
    BY <2>2 DEF Create, Idle, CarryInv
  <2>3. CASE \E class \in Classes, name \in Names, container \in Containers, id \in Identities :
                \E sam \in SpecSams(class) \cup {Unset} : Update(class, id, name, container, sam)
    BY <2>3, UpdateCarries
  <2>4. CASE \E class \in Classes, id \in Identities : Delete(class, id)
    BY <2>4 DEF Delete, Idle, CarryInv
  <2>5. CASE UNCHANGED vars
    BY <2>5 DEF vars, CarryInv
  <2>. QED  BY <2>1, <2>2, <2>3, <2>4, <2>5 DEF Next
<1>. QED  BY <1>1, <1>2, InductiveInvariant, PTL DEF Spec

(* When a move's loop ends, every entry that was beneath the old DN is at  *)
(* its place beneath the new one, whatever the order of the visits and     *)
(* whatever was landed on, and no other is touched (fake.go:179-198).      *)
THEOREM MovesCarrySubtrees == Spec => MoveCarriesSubtree
<1>. DEFINE Carries ==
        mv # Idle /\ mv' = Idle /\ ~BelowText(mv.new, mv.old) /\ ~BelowText(mv.old, mv.new) =>
            Relocated(byDN', before, mv.old, mv.new)
<1>1. ASSUME IInv, CarryInv, [Next]_vars PROVE [Carries]_vars
  <2>. SUFFICES ASSUME mv # Idle, mv' = Idle, Apart(mv.old, mv.new) PROVE Carries
    BY DEF Apart
  <2>1. MoveChild
    <3>1. mv' # mv
      OBVIOUS
    <3>2. ASSUME NEW class, NEW name, NEW container, NEW sam, Create(class, name, container, sam)
          PROVE  FALSE
      BY <3>2 DEF Create
    <3>3. ASSUME NEW class, NEW id, NEW name, NEW container, NEW sam,
                 Update(class, id, name, container, sam)
          PROVE  FALSE
      BY <3>3 DEF Update
    <3>4. ASSUME NEW class, NEW id, Delete(class, id) PROVE FALSE
      BY <3>4 DEF Delete
    <3>5. ~UNCHANGED vars
      BY <3>1 DEF vars
    <3>. QED  BY <1>1, <3>2, <3>3, <3>4, <3>5 DEF Next
  <2>2. Carrying(byDN', before, mv.old, mv.new, {})
    BY <1>1, <2>1, VisitCarries
  <2>. QED  BY <2>2, CarryingEnds
<1>2. IInv /\ CarryInv /\ [Next]_vars => [Carries]_vars
  BY <1>1
<1>3. Spec => [][Carries]_vars
  BY <1>2, InductiveInvariant, CarryInvariance, PTL DEF Spec
<1>. QED  BY <1>3 DEF MoveCarriesSubtree

-----------------------------------------------------------------------------
(* DN text as the package itself writes it: no optional white space.  The  *)
(* containers of the specs are so written, and not blank.                  *)
Canonical(d) == \A i \in DOMAIN d : ~d[i].spaced

CanonicalContainers == \A c \in Containers : c # <<>> /\ Canonical(c)

CanonInv ==
    /\ \A d \in DOMAIN byDN : Canonical(d)
    /\ mv.todo # {} => Canonical(mv.new)

(* Texts of different lengths parse to different DNs. *)
LEMMA EqDNLen ==
    ASSUME NEW d \in DNTexts, NEW e \in DNTexts, EqDN(d, e)
    PROVE  Len(d) = Len(e)
<1>. DEFINE m == Len(d)
            n == Len(e)
<1>1. m \in Nat /\ n \in Nat /\ DOMAIN d = 1 .. m /\ DOMAIN e = 1 .. n
  BY LenProperties DEF DNTexts
<1>2. DOMAIN d = DOMAIN e
  BY DEF EqDN, Parsed
<1>. HIDE DEF m, n
<1>3. m = n
  <2>1. 1 .. m = 1 .. n
    BY <1>1, <1>2
  <2>2. \A i \in Nat : i \in 1 .. m <=> i \in 1 .. n
    BY <2>1
  <2>3. (m >= 1 => m <= n) /\ (n >= 1 => n <= m)
    BY <1>1, <2>2
  <2>. QED  BY <1>1, <2>3
<1>. QED  BY <1>3 DEF m, n

(* On canonical text the two comparisons, parsed and lower-cased, agree. *)
LEMMA CanonicalCompares ==
    ASSUME NEW d \in DNTexts, NEW e \in DNTexts, Canonical(d), Canonical(e)
    PROVE  EqDN(d, e) <=> Lowered(d) = Lowered(e)
<1>1. d \in [DOMAIN d -> RDNText] /\ e \in [DOMAIN e -> RDNText]
  BY LenProperties DEF DNTexts
<1>2. ASSUME NEW i \in DOMAIN d, NEW j \in DOMAIN e
      PROVE  (<<d[i].attr, Fold[d[i].val]>> = <<e[j].attr, Fold[e[j].val]>>) <=>
                ([d[i] EXCEPT !.val = Fold[@]] = [e[j] EXCEPT !.val = Fold[@]])
  <2>. DEFINE a == [d[i] EXCEPT !.val = Fold[@]]
              b == [e[j] EXCEPT !.val = Fold[@]]
  <2>1. d[i] \in RDNText /\ e[j] \in RDNText /\ d[i].spaced = FALSE /\ e[j].spaced = FALSE
    BY <1>1 DEF Canonical, RDNText
  <2>2. a \in RDNText /\ a.attr = d[i].attr /\ a.val = Fold[d[i].val] /\ a.spaced = FALSE
    BY <2>1, FoldType DEF RDNText
  <2>3. b \in RDNText /\ b.attr = e[j].attr /\ b.val = Fold[e[j].val] /\ b.spaced = FALSE
    BY <2>1, FoldType DEF RDNText
  <2>. HIDE DEF a, b
  <2>4. a = b <=> a.attr = b.attr /\ a.val = b.val
    BY <2>2, <2>3 DEF RDNText
  <2>. QED  BY <2>2, <2>3, <2>4 DEF a, b
<1>3. EqDN(d, e) <=> /\ DOMAIN d = DOMAIN e
                     /\ \A i \in DOMAIN d : <<d[i].attr, Fold[d[i].val]>> = <<e[i].attr, Fold[e[i].val]>>
  BY DEF EqDN, Parsed
<1>4. (Lowered(d) = Lowered(e)) <=>
         /\ DOMAIN d = DOMAIN e
         /\ \A i \in DOMAIN d : [d[i] EXCEPT !.val = Fold[@]] = [e[i] EXCEPT !.val = Fold[@]]
  BY DEF Lowered
<1>. QED  BY <1>2, <1>3, <1>4

(* So do the two tests for what lies beneath a DN. *)
LEMMA CanonicalBelow ==
    ASSUME NEW d \in DNTexts, NEW base \in DNTexts, Canonical(d), Canonical(base)
    PROVE  BelowText(d, base) <=> BelowDN(d, base)
<1>. DEFINE s == SubSeq(d, Len(d) - Len(base) + 1, Len(d))
<1>1. SUFFICES ASSUME Len(d) > Len(base) PROVE Lowered(s) = Lowered(base) <=> EqDN(s, base)
  BY DEF BelowText, BelowDN
<1>2. Len(base) \in Nat /\ Len(d) \in Nat /\ DOMAIN d = 1 .. Len(d)
  BY LenProperties DEF DNTexts
<1>3. s \in DNTexts /\ Canonical(s)
  <2>. DEFINE m == Len(d) - Len(base) + 1
  <2>1. m \in 1 .. Len(d) + 1
    BY <1>1, <1>2
  <2>2. \A i \in m .. Len(d) : d[i] \in RDNText /\ i \in DOMAIN d
    BY <1>2, <2>1 DEF DNTexts
  <2>. HIDE DEF m
  <2>3. /\ s \in Seq(RDNText) /\ Len(s) = Len(d) - m + 1
        /\ \A i \in 1 .. Len(d) - m + 1 : s[i] = d[m + i - 1]
    BY <1>2, <2>1, <2>2, SubSeqProperties DEF m
  <2>4. DOMAIN s = 1 .. Len(d) - m + 1
    BY <2>3, LenProperties
  <2>5. \A i \in 1 .. Len(d) - m + 1 : m + i - 1 \in DOMAIN d
    BY <1>2, <2>1
  <2>. QED  BY <2>3, <2>4, <2>5 DEF Canonical, DNTexts
<1>. QED  BY <1>3, CanonicalCompares

(* Names and containers make canonical text, and moves keep it so. *)
LEMMA CanonicalSpecDN ==
    ASSUME CanonicalContainers, NEW class, NEW name \in Names, NEW container \in Containers
    PROVE  Canonical(SpecDN(class, name, container))
<1>. DEFINE r == <<RDN(NamingAttr(class), name)>>
<1>1. container \in DNTexts
  BY StoreConstants
<1>2. /\ r \in Seq(RDNText) /\ Len(r) = 1 /\ ~r[1].spaced
      /\ r \o container \in Seq(RDNText) /\ Len(r \o container) = 1 + Len(container)
      /\ \A i \in 1 .. 1 + Len(container) : (r \o container)[i] = IF i <= 1 THEN r[i] ELSE container[i - 1]
  <2>1. name \in Values
    BY StoreConstants
  <2>2. r \in Seq(RDNText) /\ Len(r) = 1 /\ r[1] = RDN(NamingAttr(class), name)
    BY <2>1 DEF RDNText, Attrs, RDN, NamingAttr
  <2>3. ~r[1].spaced
    BY <2>2 DEF RDN
  <2>. HIDE DEF r
  <2>4. container \in Seq(RDNText)
    BY <1>1 DEF DNTexts
  <2>5. /\ r \o container \in Seq(RDNText) /\ Len(r \o container) = Len(r) + Len(container)
        /\ \A i \in 1 .. Len(r) + Len(container) :
              (r \o container)[i] = IF i <= Len(r) THEN r[i] ELSE container[i - Len(r)]
    BY <2>2, <2>4, ConcatProperties
  <2>. QED  BY <2>2, <2>3, <2>5
<1>. HIDE DEF r
<1>3. /\ Len(container) \in Nat /\ DOMAIN container = 1 .. Len(container)
      /\ DOMAIN (r \o container) = 1 .. 1 + Len(container)
  BY <1>1, <1>2, LenProperties DEF DNTexts
<1>4. ASSUME NEW i \in 1 .. 1 + Len(container) PROVE ~(r \o container)[i].spaced
  <2>1. CASE i = 1
    BY <1>1, <1>2, <2>1
  <2>2. CASE i # 1
    <3>1. i - 1 \in DOMAIN container /\ ~(i <= 1)
      BY <1>3, <2>2
    <3>. QED  BY <1>2, <3>1 DEF CanonicalContainers, Canonical
  <2>. QED  BY <2>1, <2>2
<1>. QED  BY <1>3, <1>4 DEF SpecDN, Canonical, r

LEMMA CanonicalRebase ==
    ASSUME NEW d \in DNTexts, NEW old \in DNTexts, NEW new \in DNTexts, Len(d) > Len(old),
           Canonical(d), Canonical(new)
    PROVE  Canonical(Rebase(d, old, new))
<1>. DEFINE n == Len(d) - Len(old)
            to == Rebase(d, old, new)
<1>1. /\ n \in Nat \ {0} /\ to \in DNTexts /\ Len(to) = n + Len(new)
      /\ \A i \in 1 .. n : to[i] = d[i]
      /\ \A i \in 1 .. Len(new) : to[n + i] = new[i]
  BY RebaseByRDN
<1>2. /\ Len(new) \in Nat /\ Len(old) \in Nat /\ DOMAIN d = 1 .. Len(d)
      /\ DOMAIN new = 1 .. Len(new) /\ Len(d) \in Nat /\ n <= Len(d)
  BY LenProperties DEF DNTexts
<1>3. DOMAIN to = 1 .. n + Len(new)
  BY <1>1, LenProperties DEF DNTexts
<1>. HIDE DEF to, n
<1>4. ASSUME NEW i \in 1 .. n + Len(new) PROVE ~to[i].spaced
  <2>1. CASE i <= n
    BY <1>1, <1>2, <2>1 DEF Canonical
  <2>2. CASE i > n
    <3>1. i - n \in DOMAIN new /\ n + (i - n) = i
      BY <1>1, <1>2, <2>2
    <3>. QED  BY <1>1, <1>2, <3>1 DEF Canonical
  <2>. QED  BY <1>1, <2>1, <2>2
<1>. QED  BY <1>3, <1>4 DEF Canonical, to

-----------------------------------------------------------------------------
(* Every DN in the store is canonical when the containers of specs are. *)
LEMMA CanonInvariance == ASSUME CanonicalContainers PROVE Spec => []CanonInv
<1>1. Init => CanonInv
  BY DEF Init, NoObjects, Idle, CanonInv
<1>2. IInv /\ CanonInv /\ [Next]_vars => CanonInv'
  <2>. SUFFICES ASSUME IInv, CanonInv, [Next]_vars PROVE CanonInv'
    OBVIOUS
  <2>1. CASE MoveChild
    <3>1. PICK d \in mv.todo :
             LET to == Rebase(d, mv.old, mv.new) IN
             /\ byDN' = With(Without(byDN, d), to, [byDN[d] EXCEPT !.dn = to, !.DN = to])
             /\ \E more \in SUBSET {e \in {to} : BelowText(e, mv.old)} :
                   Loop([mv EXCEPT !.todo = (@ \ {d}) \cup more], before)
      BY <2>1 DEF MoveChild
    <3>2. /\ d \in DOMAIN byDN /\ d \in DNTexts /\ Len(d) > Len(mv.old)
          /\ mv.old \in DNTexts /\ mv.new \in DNTexts
      BY DEF IInv, LoopInv, TypeOK, IsStore, BelowText
    <3>3. Canonical(Rebase(d, mv.old, mv.new))
      BY <3>2, CanonicalRebase DEF CanonInv
    <3>4. \A e \in DOMAIN byDN' : e \in DOMAIN byDN \/ e = Rebase(d, mv.old, mv.new)
      BY <3>1 DEF With, Without
    <3>5. mv'.todo # {} => mv'.new = mv.new
      BY <3>1 DEF Loop, Idle, IInv, TypeOK
    <3>. QED  BY <3>3, <3>4, <3>5 DEF CanonInv
  <2>2. CASE \E class \in Classes, name \in Names, container \in Containers :
                \E sam \in SpecSams(class) : Create(class, name, container, sam)
    <3>1. PICK class \in Classes, name \in Names, container \in Containers :
             \E sam \in SpecSams(class) : Create(class, name, container, sam)
      BY <2>2
    <3>2. /\ \A e \in DOMAIN byDN' : e \in DOMAIN byDN \/ e = SpecDN(class, name, container)
          /\ mv' = mv
      BY <3>1 DEF Create, With
    <3>. QED  BY <3>2, CanonicalSpecDN DEF CanonInv
  <2>3. CASE \E class \in Classes, name \in Names, container \in Containers, id \in Identities :
                \E sam \in SpecSams(class) \cup {Unset} : Update(class, id, name, container, sam)
    <3>1. PICK class \in Classes, name \in Names, container \in Containers, id \in Identities :
             \E sam \in SpecSams(class) \cup {Unset} : Update(class, id, name, container, sam)
      BY <2>3
    <3>0. PICK d \in DOMAIN byDN : \E o :
             \/ byDN' = With(byDN, d, o) /\ mv' = mv
             \/ StartMove(o, SpecDN(class, name, container), name, container)
      BY <3>1 DEF Update, Targets, Found
    <3>2. PICK o :
             \/ byDN' = With(byDN, d, o) /\ mv' = mv
             \/ StartMove(o, SpecDN(class, name, container), name, container)
      BY <3>0
    <3>3. CASE byDN' = With(byDN, d, o) /\ mv' = mv
      BY <3>3 DEF CanonInv, With
    <3>4. CASE StartMove(o, SpecDN(class, name, container), name, container)
      <4>1. \A e \in DOMAIN byDN' : e \in DOMAIN byDN \/ e = SpecDN(class, name, container)
        BY <3>4 DEF StartMove, With, Without
      <4>2. mv'.todo # {} => mv'.new = SpecDN(class, name, container)
        BY <3>4 DEF StartMove, Loop, Idle
      <4>. QED  BY <4>1, <4>2, CanonicalSpecDN DEF CanonInv
    <3>. QED  BY <3>2, <3>3, <3>4
  <2>4. CASE \E class \in Classes, id \in Identities : Delete(class, id)
    BY <2>4 DEF Delete, Without, CanonInv
  <2>5. CASE UNCHANGED vars
    BY <2>5 DEF vars, CanonInv
  <2>. QED  BY <2>1, <2>2, <2>3, <2>4, <2>5 DEF Next
<1>. QED  BY <1>1, <1>2, InductiveInvariant, PTL DEF Spec

(* No OU goes from over a child, by a Delete or by a move, as long as      *)
(* containers are written as the package writes DNs (ou.go:115-136,        *)
(* fake.go:165-198).  That they may be written otherwise is a finding.     *)
THEOREM ChildrenKeepParents == ASSUME CanonicalContainers PROVE Spec => ChildrenNeverOrphaned
<1>. DEFINE Kept ==
        mv = Idle /\ mv' = Idle =>
            \A d \in DOMAIN byDN :
                IsOU(byDN[d].class) /\ (\A e \in DOMAIN byDN' : ~EqDN(e, d)) =>
                    \A e \in DOMAIN byDN' : BelowDN(e, d) => byDN'[e].guid = byDN[d].guid
<1>1. ASSUME IInv, CanonInv, CanonInv', Next, mv = Idle, mv' = Idle,
             NEW d \in DOMAIN byDN, IsOU(byDN[d].class), \A e \in DOMAIN byDN' : ~EqDN(e, d),
             NEW e \in DOMAIN byDN', BelowDN(e, d)
      PROVE  byDN'[e].guid = byDN[d].guid
  <2>1. d \notin DOMAIN byDN'
    BY <1>1 DEF EqDN
  <2>2. ASSUME e \in DNTexts PROVE BelowText(e, d) /\ ~EqDN(e, d)
    <3>1. d \in DNTexts /\ Canonical(d) /\ Canonical(e)
      BY <1>1 DEF IInv, TypeOK, IsStore, CanonInv
    <3>2. BelowText(e, d)
      BY <1>1, <2>2, <3>1, CanonicalBelow
    <3>. QED  BY <1>1, <3>2
  <2>3. CASE \E class \in Classes, id \in Identities : Delete(class, id)
    <3>1. PICK c \in DOMAIN byDN : byDN' = Without(byDN, c) /\ (IsOU(byDN[c].class) => Children(c) = {})
      BY <2>3 DEF Delete, Targets, Found
    <3>2. c = d /\ e \in DOMAIN byDN
      BY <2>1, <3>1 DEF Without
    <3>3. e \in DNTexts
      BY <1>1, <3>2 DEF IInv, TypeOK, IsStore
    <3>. QED  BY <1>1, <2>2, <3>1, <3>2, <3>3 DEF Children
  <2>4. CASE \E class \in Classes, name \in Names, container \in Containers, id \in Identities :
                \E sam \in SpecSams(class) \cup {Unset} : Update(class, id, name, container, sam)
    <3>1. PICK class \in Classes, name \in Names, container \in Containers, id \in Identities :
             \E sam \in SpecSams(class) \cup {Unset} : Update(class, id, name, container, sam)
      BY <2>4
    <3>0. PICK c \in DOMAIN byDN : \E sam :
             LET o == [byDN[c] EXCEPT !.sam = sam] IN
             \/ byDN' = With(byDN, c, o)
             \/ StartMove(o, SpecDN(class, name, container), name, container)
      BY <3>1 DEF Update, Targets, Found
    <3>2. PICK sam :
             LET o == [byDN[c] EXCEPT !.sam = sam] IN
             \/ byDN' = With(byDN, c, o)
             \/ StartMove(o, SpecDN(class, name, container), name, container)
      BY <3>0
    <3>. DEFINE o   == [byDN[c] EXCEPT !.sam = sam]
                new == SpecDN(class, name, container)
                p   == [o EXCEPT !.dn = new, !.DN = new, !.name = name, !.container = container]
    <3>3. ~(byDN' = With(byDN, c, o))
      BY <2>1 DEF With
    <3>4. byDN[c] \in Objects /\ byDN[c].dn = c
      BY <1>1 DEF IInv, TypeOK, IsStore, IndexConsistent
    <3>5. o.dn = c /\ p.guid = byDN[c].guid
      BY <3>4 DEF Objects
    <3>6. byDN' = With(Without(byDN, c), new, p)
      BY <3>2, <3>3, <3>5 DEF StartMove
    <3>7. Loop([old |-> c, new |-> new, todo |-> {x \in DOMAIN byDN' : x # new /\ BelowText(x, c)}], byDN)
      BY <3>2, <3>3, <3>5 DEF StartMove
    <3>. HIDE DEF o, p, new
    <3>8. c = d /\ byDN'[new].guid = byDN[d].guid
      BY <2>1, <3>5, <3>6 DEF With, Without
    <3>9. \A x \in DOMAIN byDN' : x # new => ~BelowText(x, c)
      BY <1>1, <3>7 DEF Loop, Idle
    <3>10. CASE e # new
      <4>1. e \in DNTexts
        BY <1>1, <3>6, <3>10 DEF With, Without, IInv, TypeOK, IsStore
      <4>. QED  BY <2>2, <3>8, <3>9, <3>10, <4>1
    <3>. QED  BY <3>8, <3>10
  <2>5. CASE MoveChild
    BY <1>1, <2>5 DEF MoveChild, Idle
  <2>6. CASE \E class \in Classes, name \in Names, container \in Containers :
                \E sam \in SpecSams(class) : Create(class, name, container, sam)
    BY <2>1, <2>6 DEF Create, With
  <2>. QED  BY <1>1, <2>3, <2>4, <2>5, <2>6 DEF Next
<1>2. IInv /\ CanonInv /\ CanonInv' /\ [Next]_vars => [Kept]_vars
  BY <1>1
<1>3. Spec => [][Kept]_vars
  BY <1>2, InductiveInvariant, CanonInvariance, PTL DEF Spec
<1>. QED  BY <1>3 DEF ChildrenNeverOrphaned

-----------------------------------------------------------------------------
(* The scope decided on canonical text is the place in the tree. *)
LEMMA ScopeIsPlace ==
    ASSUME NEW d \in DNTexts, NEW base \in DNTexts, Canonical(d), Canonical(base), d # <<>>,
           NEW scope \in {"base", "onelevel", "subtree"}, NEW limit
    PROVE  InScope(d, [base |-> base, scope |-> scope, limit |-> limit]) <=> InTree(d, base, scope)
<1>1. BelowText(d, base) <=> BelowDN(d, base)
  BY CanonicalBelow
<1>2. CASE scope = "onelevel"
  <2>1. /\ Len(d) \in Nat \ {0} /\ Len(base) \in Nat /\ Tail(d) \in DNTexts /\ Len(Tail(d)) = Len(d) - 1
        /\ Tail(d) = SubSeq(d, 2, Len(d))
    BY DEF DNTexts
  <2>2. EqDN(Tail(d), base) => Len(d) = Len(base) + 1
    <3>1. EqDN(Tail(d), base) => Len(Tail(d)) = Len(base)
      BY <2>1, EqDNLen
    <3>. DEFINE n == Len(d)
                m == Len(base)
                k == Len(Tail(d))
    <3>2. n \in Nat /\ m \in Nat /\ k = n - 1 /\ (EqDN(Tail(d), base) => k = m)
      BY <2>1, <3>1
    <3>. HIDE DEF n, m, k
    <3>3. EqDN(Tail(d), base) => n = m + 1
      BY <3>2
    <3>. QED  BY <3>3 DEF n, m
  <2>3. Len(d) = Len(base) + 1 => (BelowDN(d, base) <=> EqDN(Tail(d), base))
    <3>. SUFFICES ASSUME Len(d) = Len(base) + 1 PROVE BelowDN(d, base) <=> EqDN(Tail(d), base)
      OBVIOUS
    <3>1. Len(d) > Len(base) /\ Len(d) - Len(base) + 1 = 2
      BY <2>1
    <3>. QED  BY <2>1, <3>1 DEF BelowDN
  <2>. QED  BY <1>1, <1>2, <2>1, <2>2, <2>3 DEF InScope, InTree
<1>3. CASE scope # "onelevel"
  BY <1>1, <1>3 DEF InScope, InTree
<1>. QED  BY <1>2, <1>3

(* Whatever the limit, every search sees the tree. *)
LEMMA SearchSees ==
    ASSUME CanonicalContainers, IInv, CanonInv, NEW class \in Classes,
           NEW base \in Containers \cup DOMAIN byDN, NEW scope \in {"base", "onelevel", "subtree"},
           NEW limit \in Nat \ {0}
    PROVE  SeesTheTree(class, base, scope, limit)
<1>. DEFINE q     == [base |-> base, scope |-> scope, limit |-> limit]
            out   == {d \in DOMAIN byDN : byDN[d].class = class /\ InScope(d, q)}
            there == {d \in DOMAIN byDN : byDN[d].class = class /\ InTree(d, base, scope)}
<1>1. base \in DNTexts /\ Canonical(base) /\ base # <<>>
  <2>1. CASE base \in Containers
    BY <2>1, StoreConstants DEF CanonicalContainers
  <2>2. CASE base \in DOMAIN byDN
    <3>1. base \in DNTexts /\ Len(base) >= 1
      BY <2>2 DEF IInv, TypeOK, IsStore, Rooted
    <3>2. base # <<>>
      BY <3>1 DEF DNTexts
    <3>. QED  BY <2>2, <3>1, <3>2 DEF CanonInv
  <2>. QED  BY <2>1, <2>2
<1>2. WithDefaults(q) = q
  BY <1>1 DEF WithDefaults
<1>3. out = there
  <2>1. ASSUME NEW d \in DOMAIN byDN PROVE InScope(d, q) <=> InTree(d, base, scope)
    <3>1. d \in DNTexts /\ Len(d) >= 1 /\ Canonical(d)
      BY DEF IInv, TypeOK, IsStore, Rooted, CanonInv
    <3>2. d # <<>>
      BY <3>1 DEF DNTexts
    <3>. QED  BY <1>1, <3>1, <3>2, ScopeIsPlace
  <2>. HIDE DEF q
  <2>. QED  BY <2>1
<1>4. base = DNC /\ scope = "subtree" /\ limit = DefaultSizeLimit =>
         WithDefaults([base |-> <<>>, scope |-> "", limit |-> 0]) = q
  BY DEF WithDefaults
<1>. DEFINE tooMany == Cardinality(out) > limit
<1>5. /\ Search(class, q).tooMany = tooMany
      /\ Search(class, q).found = IF tooMany THEN {} ELSE {byDN[d].guid : d \in out}
  <2>1. q.limit = limit
    OBVIOUS
  <2>. HIDE DEF q
  <2>. QED  BY <1>2, <2>1 DEF Search
<1>6. base = DNC /\ scope = "subtree" /\ limit = DefaultSizeLimit =>
         Search(class, [base |-> <<>>, scope |-> "", limit |-> 0]) = Search(class, q)
  BY <1>2, <1>4 DEF Search
<1>. HIDE DEF out, there, q
<1>7. /\ Search(class, q).tooMany <=> Cardinality(there) > limit
      /\ ~Search(class, q).tooMany => Search(class, q).found = {byDN[d].guid : d \in there}
  <2>1. tooMany <=> Cardinality(there) > limit
    BY <1>3
  <2>. HIDE DEF tooMany
  <2>. QED  BY <1>3, <1>5, <2>1
<1>. QED  BY <1>6, <1>7 DEF SeesTheTree, there, q

(* Every search between two operations returns the objects at the place    *)
(* its scope names, all or none, whatever its limit (ou.go:58-76,          *)
(* fake.go:200-216).                                                       *)
THEOREM SearchesOfAnyLimit ==
    ASSUME CanonicalContainers
    PROVE  Spec => [](mv = Idle => \A class \in Classes, base \in Containers \cup DOMAIN byDN,
                                     scope \in {"base", "onelevel", "subtree"}, limit \in Nat \ {0} :
                                        SeesTheTree(class, base, scope, limit))
<1>1. IInv /\ CanonInv =>
        \A class \in Classes, base \in Containers \cup DOMAIN byDN,
           scope \in {"base", "onelevel", "subtree"}, limit \in Nat \ {0} :
              SeesTheTree(class, base, scope, limit)
  BY SearchSees
<1>. QED  BY <1>1, InductiveInvariant, CanonInvariance, PTL

(* The same of the limits that are model-checked. *)
THEOREM SearchesAreComplete == ASSUME CanonicalContainers PROVE Spec => []SearchesSeeTheTree
<1>1. IInv /\ CanonInv => SearchesSeeTheTree
  BY SearchSees DEF SearchesSeeTheTree
<1>. QED  BY <1>1, InductiveInvariant, CanonInvariance, PTL
=============================================================================
