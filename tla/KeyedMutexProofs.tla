-------------------------- MODULE KeyedMutexProofs --------------------------
(***************************************************************************)
(* Machine-checked proofs about KeyedMutex, for any finite set of calls    *)
(* and any sets of keys and heap cells.                                    *)
(*                                                                         *)
(* MutualExclusion is not inductive: two holders of one key are excluded   *)
(* only because they went through the same entry, and they did so only     *)
(* because no entry leaves the map while its count says it is in use.      *)
(* IInv adds those facts.                                                  *)
(***************************************************************************)
EXTENDS KeyedMutex, FiniteSetTheorems, TLAPS

(* k.mu is held by the call whose program counter is in its two critical   *)
(* sections, and by no other.                                              *)
MuInv == \A c \in Calls : HoldsMu(c) <=> mu = c

(* A call past Lock's first line has a key; past the lookup it has a cell. *)
KeyInv == \A c \in Calls :
    /\ pc[c] # "idle" => key[c] \in Keys
    /\ Registered(c) => ent[c] \in Entries

(* A registered call's entry is the one the map has for its key. *)
EntryInv == \A c \in Calls : Registered(c) => m[key[c]] = ent[c]

(* One entry serves one key. *)
InjInv == \A j, k \in Keys : m[j] # None /\ m[j] = m[k] => j = k

(* A registered entry's count is the number of its users, and not zero. *)
RefsInv == \A k \in Keys :
    m[k] # None => /\ refs[m[k]] = Cardinality(Users(m[k]))
                   /\ refs[m[k]] # 0

(* e.mu is held by the call that is between its Lock and its Unlock. *)
LockInv == \A c \in Calls : HoldsKey(c) => emu[ent[c]] = c

(* The holder of a mapped entry's mutex is such a call. *)
OwnerInv == \A k \in Keys :
    m[k] # None /\ emu[m[k]] # None
        => HoldsKey(emu[m[k]]) /\ ent[emu[m[k]]] = m[k]

(* The Once has run when the closure has, and not before it is called. *)
OnceInv == \A c \in Calls :
    /\ pc[c] \in {"unlock", "unlockMu", "unref", "released"} => once[c]
    /\ pc[c] \in {"lock", "lookup", "wait", "held"} => ~once[c]

IInv == /\ TypeOK /\ MuInv /\ KeyInv /\ EntryInv /\ InjInv
        /\ RefsInv /\ LockInv /\ OwnerInv /\ OnceInv
-----------------------------------------------------------------------------
(* The set of calls that use an entry is finite, and has a natural number  *)
(* as its cardinality.                                                     *)
LEMMA UsersFinite == \A e : IsFiniteSet(Users(e)) /\ Cardinality(Users(e)) \in Nat
BY CallsFinite, FS_Subset, FS_CardinalityType DEF Users

(* One call more, one call less: how the count of an entry's users moves   *)
(* when c starts and when it stops referring to it.                        *)
LEMMA UsersAdd ==
    ASSUME NEW c, NEW e, c \notin Users(e)
    PROVE  Cardinality(Users(e) \cup {c}) = Cardinality(Users(e)) + 1
BY UsersFinite, FS_AddElement

LEMMA UsersRemove ==
    ASSUME NEW c, NEW e, c \in Users(e)
    PROVE  /\ Cardinality(Users(e) \ {c}) = Cardinality(Users(e)) - 1
           /\ Cardinality(Users(e) \ {c}) = 0 => Users(e) \ {c} = {}
<1>1. IsFiniteSet(Users(e) \ {c})
  BY UsersFinite, FS_Subset
<1>. QED  BY <1>1, UsersFinite, FS_RemoveElement, FS_EmptySet

LEMMA InitInv == Init => IInv
BY NoneIsFresh DEF Init, IInv, TypeOK, PCs, MuInv, KeyInv, EntryInv, InjInv, RefsInv,
   LockInv, OwnerInv, OnceInv, HoldsMu, HoldsKey, Registered

(* The steps that change neither the map nor anyone's registration. *)
LEMMA LockStep ==
    ASSUME IInv, NEW c \in Calls, NEW k \in Keys, Lock(c, k)
    PROVE  IInv'
<1>. USE NoneIsFresh DEF Lock, IInv
<1>1. TypeOK'
  BY DEF TypeOK, PCs
<1>2. MuInv'
  BY DEF TypeOK, MuInv, HoldsMu
<1>3. KeyInv' /\ EntryInv' /\ InjInv' /\ LockInv'
  BY DEF TypeOK, KeyInv, EntryInv, InjInv, LockInv, Registered, HoldsKey
<1>4. \A e : Users(e)' = Users(e)
  BY DEF TypeOK, Users, Registered
<1>5. RefsInv'
  BY <1>4 DEF RefsInv
<1>6. OwnerInv' /\ OnceInv'
  BY DEF TypeOK, OwnerInv, OnceInv, HoldsKey
<1>. QED  BY <1>1, <1>2, <1>3, <1>5, <1>6

LEMMA LockMuStep ==
    ASSUME IInv, NEW c \in Calls, LockMu(c) \/ RelockMu(c)
    PROVE  IInv'
<1>. USE NoneIsFresh DEF LockMu, RelockMu, IInv
<1>1. TypeOK'
  BY DEF TypeOK, PCs
<1>2. MuInv'
  BY DEF TypeOK, MuInv, HoldsMu
<1>3. KeyInv' /\ EntryInv' /\ InjInv' /\ LockInv'
  BY DEF TypeOK, KeyInv, EntryInv, InjInv, LockInv, Registered, HoldsKey
<1>4. \A e : Users(e)' = Users(e)
  BY DEF TypeOK, Users, Registered
<1>5. RefsInv'
  BY <1>4 DEF RefsInv
<1>6. OwnerInv' /\ OnceInv'
  BY DEF TypeOK, OwnerInv, OnceInv, HoldsKey
<1>. QED  BY <1>1, <1>2, <1>3, <1>5, <1>6

LEMMA AcquireStep ==
    ASSUME IInv, NEW c \in Calls, Acquire(c)
    PROVE  IInv'
<1>. USE NoneIsFresh DEF Acquire, IInv
<1>0. ent[c] \in Entries /\ m[key[c]] = ent[c] /\ key[c] \in Keys
  BY DEF KeyInv, EntryInv, Registered
<1>1. TypeOK'
  BY <1>0 DEF TypeOK, PCs
<1>2. MuInv' /\ OnceInv'
  <2>1. ~once[c]
    BY DEF OnceInv
  <2>. QED  BY <2>1 DEF TypeOK, MuInv, HoldsMu, OnceInv
<1>3. KeyInv' /\ EntryInv' /\ InjInv'
  BY DEF TypeOK, KeyInv, EntryInv, InjInv, Registered
<1>4. \A e : Users(e)' = Users(e)
  BY DEF TypeOK, Users, Registered
<1>5. RefsInv'
  BY <1>4 DEF RefsInv
<1>6. LockInv'
  BY <1>0 DEF TypeOK, LockInv, HoldsKey
<1>7. OwnerInv'
  BY <1>0 DEF TypeOK, OwnerInv, HoldsKey
<1>. QED  BY <1>1, <1>2, <1>3, <1>5, <1>6, <1>7

LEMMA UnlockStep ==
    ASSUME IInv, NEW c \in Calls, Unlock(c)
    PROVE  IInv'
<1>. USE NoneIsFresh DEF Unlock, IInv
<1>0. pc[c] = "held"
  BY DEF OnceInv
<1>1. TypeOK'
  BY DEF TypeOK, PCs
<1>2. MuInv' /\ OnceInv'
  BY <1>0 DEF TypeOK, MuInv, HoldsMu, OnceInv
<1>3. KeyInv' /\ EntryInv' /\ InjInv' /\ LockInv'
  BY <1>0 DEF TypeOK, KeyInv, EntryInv, InjInv, LockInv, Registered, HoldsKey
<1>4. \A e : Users(e)' = Users(e)
  BY <1>0 DEF TypeOK, Users, Registered
<1>5. RefsInv'
  BY <1>4 DEF RefsInv
<1>6. OwnerInv'
  BY <1>0 DEF TypeOK, OwnerInv, HoldsKey
<1>. QED  BY <1>1, <1>2, <1>3, <1>5, <1>6
LEMMA UnlockEntryStep ==
    ASSUME IInv, NEW c \in Calls, UnlockEntry(c)
    PROVE  IInv'
<1>. USE NoneIsFresh DEF UnlockEntry, IInv
<1>0. /\ ent[c] \in Entries /\ m[key[c]] = ent[c] /\ key[c] \in Keys
      /\ emu[ent[c]] = c
  BY DEF KeyInv, EntryInv, LockInv, Registered, HoldsKey
<1>1. TypeOK'
  BY DEF TypeOK, PCs
<1>2. MuInv' /\ OnceInv'
  BY DEF TypeOK, MuInv, HoldsMu, OnceInv
<1>3. KeyInv' /\ EntryInv' /\ InjInv'
  BY DEF TypeOK, KeyInv, EntryInv, InjInv, Registered
<1>4. \A e : Users(e)' = Users(e)
  BY DEF TypeOK, Users, Registered
<1>5. RefsInv'
  BY <1>4 DEF RefsInv
<1>6. LockInv'
  <2>. SUFFICES ASSUME NEW d \in Calls, HoldsKey(d)'
                PROVE  emu'[ent[d]] = d
    BY DEF LockInv
  <2>1. d # c /\ HoldsKey(d)
    BY DEF TypeOK, HoldsKey
  <2>2. emu[ent[d]] = d /\ ent[d] \in Entries
    BY <2>1 DEF LockInv, KeyInv, HoldsKey, Registered
  <2>. QED  BY <1>0, <2>1, <2>2 DEF TypeOK
<1>7. OwnerInv'
  BY <1>0 DEF TypeOK, OwnerInv, HoldsKey
<1>. QED  BY <1>1, <1>2, <1>3, <1>5, <1>6, <1>7

(* A lookup registers c with the entry the map has, or with a fresh one.   *)
LEMMA LookupStep ==
    ASSUME IInv, NEW c \in Calls, Lookup(c)
    PROVE  IInv'
<1>. USE NoneIsFresh DEF IInv
<1>1. PICK e \in Entries : (Found(c, e) \/ Created(c, e)) /\ ent' = [ent EXCEPT ![c] = e]
  BY DEF Lookup
<1>2. /\ pc[c] = "lookup" /\ mu' = None /\ pc' = [pc EXCEPT ![c] = "wait"]
      /\ UNCHANGED <<key, once>> /\ key[c] \in Keys /\ mu = c
  BY DEF Lookup, KeyInv, MuInv, HoldsMu
<1>3. m'[key[c]] = e /\ refs' \in [Entries -> Nat] /\ m' \in [Keys -> Entries \cup {None}]
  BY <1>1, <1>2 DEF TypeOK, Found, Created
<1>4. \A k \in Keys : k # key[c] => m'[k] = m[k] /\ (m[k] # None => m[k] # e)
  BY <1>1, <1>2 DEF TypeOK, Found, Created, Unreachable, InjInv
<1>5. emu' \in [Entries -> Calls \cup {None}] /\ \A f \in Entries : f # e => emu'[f] = emu[f]
  BY <1>1, <1>2 DEF TypeOK, Found, Created
<1>6. Created(c, e) => \A d \in Calls : ent[d] # e
  BY DEF Created, Unreachable
<1>7. TypeOK'
  BY <1>1, <1>2, <1>3, <1>5 DEF TypeOK, PCs
<1>8. MuInv' /\ OnceInv'
  BY <1>2 DEF TypeOK, MuInv, HoldsMu, OnceInv
<1>9. KeyInv'
  BY <1>1, <1>2 DEF TypeOK, KeyInv, Registered
<1>10. EntryInv'
  <2>. SUFFICES ASSUME NEW d \in Calls, Registered(d)', d # c
                PROVE  m'[key[d]] = ent[d]
    BY <1>1, <1>2, <1>3 DEF EntryInv, TypeOK
  <2>1. Registered(d) /\ key[d] \in Keys /\ ent'[d] = ent[d]
    BY <1>1, <1>2 DEF TypeOK, Registered, KeyInv
  <2>2. m[key[d]] = ent[d] /\ ent[d] \in Entries
    BY <2>1 DEF EntryInv, KeyInv
  <2>3. m[key[d]] # None
    BY <2>2
  <2>. QED  BY <1>1, <1>2, <2>1, <2>2, <2>3 DEF TypeOK, Found, Created
<1>11. InjInv'
  BY <1>2, <1>3, <1>4 DEF InjInv
<1>12. Users(e)' = Users(e) \cup {c} /\ \A f : f # e => Users(f)' = Users(f)
  BY <1>1, <1>2 DEF TypeOK, Users, Registered
<1>13. c \notin Users(e)
  BY <1>2 DEF Users, Registered
<1>14. Cardinality(Users(e)') = Cardinality(Users(e)) + 1 /\ Cardinality(Users(e)) \in Nat
  BY <1>12, <1>13, UsersAdd, UsersFinite
<1>15. refs'[e] = Cardinality(Users(e)')
  <2>1. CASE Found(c, e)
    BY <1>2, <1>14, <2>1 DEF Found, RefsInv, TypeOK
  <2>2. CASE Created(c, e)
    <3>1. Users(e) = {}
      BY <1>6, <2>2 DEF Users
    <3>2. Cardinality(Users(e)) = 0
      BY <3>1, FS_EmptySet
    <3>. QED  BY <1>14, <2>2, <3>2 DEF Created, TypeOK
  <2>. QED  BY <1>1, <2>1, <2>2
<1>16. \A f \in Entries : f # e => refs'[f] = refs[f]
  BY <1>1 DEF TypeOK, Found, Created
<1>17. RefsInv'
  <2>. SUFFICES ASSUME NEW k \in Keys, NEW f \in Entries, m'[k] = f
                PROVE  refs'[f] = Cardinality(Users(f)') /\ refs'[f] # 0
    BY <1>7 DEF RefsInv, TypeOK
  <2>1. CASE f = e
    BY <1>14, <1>15, <2>1
  <2>2. CASE f # e
    <3>1. m[k] = f
      BY <1>3, <1>4, <2>2
    <3>2. refs[f] = Cardinality(Users(f)) /\ refs[f] # 0
      BY <3>1 DEF RefsInv
    <3>. QED  BY <1>12, <1>16, <2>2, <3>2
  <2>. QED  BY <2>1, <2>2
<1>18. LockInv'
  <2>. SUFFICES ASSUME NEW d \in Calls, HoldsKey(d)'
                PROVE  emu'[ent'[d]] = d
    BY DEF LockInv
  <2>1. d # c /\ HoldsKey(d) /\ ent'[d] = ent[d]
    BY <1>1, <1>2 DEF TypeOK, HoldsKey
  <2>2. emu[ent[d]] = d /\ ent[d] \in Entries
    BY <2>1 DEF LockInv, KeyInv, HoldsKey, Registered
  <2>. QED  BY <1>1, <1>5, <1>6, <2>1, <2>2 DEF Found
<1>19. OwnerInv'
  <2>. SUFFICES ASSUME NEW k \in Keys, NEW f \in Entries, m'[k] = f,
                       NEW d \in Calls, emu'[f] = d
                PROVE  HoldsKey(d)' /\ ent'[d] = f
    BY <1>7 DEF OwnerInv, TypeOK
  <2>1. m[k] = f /\ emu[f] = d
    <3>1. CASE f # e
      BY <1>3, <1>4, <1>5, <3>1
    <3>2. CASE f = e
      BY <1>1, <1>2, <1>3, <1>4, <3>2 DEF Found, Created, TypeOK
    <3>. QED  BY <3>1, <3>2
  <2>2. HoldsKey(d) /\ ent[d] = f
    BY <2>1 DEF OwnerInv
  <2>. QED  BY <1>1, <1>2, <2>2 DEF TypeOK, HoldsKey
<1>. QED  BY <1>7, <1>8, <1>9, <1>10, <1>11, <1>17, <1>18, <1>19
(* The last release of an entry takes it out of the map; nobody else can   *)
(* still be registered with it.                                            *)
LEMMA UnrefStep ==
    ASSUME IInv, NEW c \in Calls, Unref(c)
    PROVE  IInv'
<1>. USE NoneIsFresh DEF IInv
<1>0. PICK e \in Entries : e = ent[c]
  BY DEF Unref, KeyInv, Registered
<1>1. /\ pc[c] = "unref" /\ mu' = None /\ pc' = [pc EXCEPT ![c] = "released"]
      /\ UNCHANGED <<emu, key, ent, once>>
      /\ refs' = [refs EXCEPT ![e] = @ - 1]
      /\ m' = IF refs'[e] = 0 THEN [m EXCEPT ![key[c]] = None] ELSE m
  BY <1>0 DEF Unref
<1>2. e = ent[c] /\ key[c] \in Keys /\ m[key[c]] = e /\ mu = c
  BY <1>0, <1>1 DEF KeyInv, EntryInv, MuInv, Registered, HoldsMu
<1>3. refs[e] = Cardinality(Users(e)) /\ refs[e] # 0 /\ refs[e] \in Nat
  BY <1>2 DEF RefsInv, TypeOK
<1>4. c \in Users(e)
  BY <1>0, <1>1 DEF Users, Registered
<1>5. Users(e)' = Users(e) \ {c} /\ \A f : f # e => Users(f)' = Users(f)
  BY <1>0, <1>1 DEF TypeOK, Users, Registered
<1>6. /\ refs'[e] = Cardinality(Users(e)') /\ refs'[e] \in Nat
      /\ refs'[e] = 0 => Users(e)' = {}
  BY <1>1, <1>2, <1>3, <1>4, <1>5, UsersRemove, UsersFinite DEF TypeOK
<1>7. \A k \in Keys : m'[k] # None => m'[k] = m[k]
  BY <1>1, <1>2 DEF TypeOK
<1>8. TypeOK'
  BY <1>1, <1>2, <1>6 DEF TypeOK, PCs
<1>9. MuInv' /\ KeyInv'
  BY <1>1, <1>2 DEF TypeOK, MuInv, HoldsMu, KeyInv, Registered
<1>10. OnceInv'
  BY <1>1 DEF TypeOK, OnceInv
<1>11. EntryInv'
  <2>. SUFFICES ASSUME NEW d \in Calls, Registered(d)'
                PROVE  m'[key[d]] = ent[d]
    BY <1>1 DEF EntryInv
  <2>1. Registered(d) /\ key[d] \in Keys /\ m[key[d]] = ent[d] /\ ent[d] \in Entries
    BY <1>1 DEF TypeOK, Registered, KeyInv, EntryInv
  <2>2. CASE refs'[e] = 0
    <3>1. ent[d] # e
      BY <1>0, <1>1, <1>6, <2>2 DEF Users
    <3>. QED  BY <1>1, <1>2, <2>1, <3>1 DEF TypeOK
  <2>3. CASE refs'[e] # 0
    BY <1>1, <2>1, <2>3
  <2>. QED  BY <2>2, <2>3
<1>12. InjInv'
  BY <1>7 DEF InjInv
<1>13. RefsInv'
  <2>. SUFFICES ASSUME NEW k \in Keys, NEW f \in Entries, m'[k] = f
                PROVE  refs'[f] = Cardinality(Users(f)') /\ refs'[f] # 0
    BY <1>8 DEF RefsInv, TypeOK
  <2>1. m[k] = f
    BY <1>7
  <2>2. CASE f = e
    <3>1. k = key[c]
      BY <1>2, <2>1, <2>2 DEF InjInv
    <3>2. refs'[e] # 0
      BY <1>1, <1>2, <2>2, <3>1 DEF TypeOK
    <3>. QED  BY <1>6, <2>2, <3>2
  <2>3. CASE f # e
    <3>1. refs'[f] = refs[f]
      BY <1>1, <2>3 DEF TypeOK
    <3>2. refs[f] = Cardinality(Users(f)) /\ refs[f] # 0
      BY <2>1 DEF RefsInv
    <3>. QED  BY <1>5, <2>3, <3>1, <3>2
  <2>. QED  BY <2>2, <2>3
<1>14. LockInv'
  BY <1>1 DEF TypeOK, LockInv, HoldsKey
<1>15. OwnerInv'
  <2>. SUFFICES ASSUME NEW k \in Keys, NEW f \in Entries, m'[k] = f,
                       NEW d \in Calls, emu[f] = d
                PROVE  HoldsKey(d)' /\ ent[d] = f
    BY <1>1, <1>8 DEF OwnerInv, TypeOK
  <2>1. HoldsKey(d) /\ ent[d] = f
    BY <1>7 DEF OwnerInv
  <2>. QED  BY <1>1, <2>1 DEF TypeOK, HoldsKey
<1>. QED  BY <1>8, <1>9, <1>10, <1>11, <1>12, <1>13, <1>14, <1>15

LEMMA StutterStep == IInv /\ UNCHANGED vars => IInv'
<1>. SUFFICES ASSUME IInv, UNCHANGED vars PROVE IInv'
  OBVIOUS
<1>1. \A e : Users(e)' = Users(e)
  BY DEF vars, Users, Registered
<1>. QED  BY <1>1 DEF vars, IInv, TypeOK, MuInv, KeyInv, EntryInv, InjInv, RefsInv,
            LockInv, OwnerInv, OnceInv, HoldsMu, HoldsKey, Registered

-----------------------------------------------------------------------------
(* The inductive invariant holds in every reachable state: KeyedMutex      *)
(* keeps its map, its reference counts and its two levels of mutexes       *)
(* consistent under every interleaving of calls (locks.go:24-48).          *)
THEOREM InductiveInvariant == Spec => []IInv
<1>1. Init => IInv
  BY InitInv
<1>2. IInv /\ [Next]_vars => IInv'
  <2>. SUFFICES ASSUME IInv, Next PROVE IInv'
    BY StutterStep
  <2>1. PICK c \in Calls : Step(c) \/ \E k \in Keys : Lock(c, k)
    BY DEF Next
  <2>2. CASE \E k \in Keys : Lock(c, k)
    BY <2>2, LockStep
  <2>3. CASE LockMu(c) \/ RelockMu(c)
    BY <2>3, LockMuStep
  <2>4. CASE Lookup(c)
    BY <2>4, LookupStep
  <2>5. CASE Acquire(c)
    BY <2>5, AcquireStep
  <2>6. CASE Unlock(c)
    BY <2>6, UnlockStep
  <2>7. CASE UnlockEntry(c)
    BY <2>7, UnlockEntryStep
  <2>8. CASE Unref(c)
    BY <2>8, UnrefStep
  <2>. QED  BY <2>1, <2>2, <2>3, <2>4, <2>5, <2>6, <2>7, <2>8 DEF Step
<1>. QED  BY <1>1, <1>2, PTL DEF Spec

(* Every variable stays in its type. *)
THEOREM TypeCorrect == Spec => []TypeOK
<1>1. IInv => TypeOK
  BY DEF IInv
<1>. QED  BY <1>1, InductiveInvariant, PTL

(* Two writers of one key never overlap: both went through the entry the   *)
(* map has for the key, whose mutex has one holder.                        *)
THEOREM Exclusion == Spec => []MutualExclusion
<1>1. IInv => MutualExclusion
  BY DEF IInv, MutualExclusion, EntryInv, LockInv, HoldsKey, Registered
<1>. QED  BY <1>1, InductiveInvariant, PTL

(* A caller is kept waiting only by a holder of the key it asked for. *)
THEOREM Independence == Spec => []KeysIndependent
<1>1. IInv => KeysIndependent
  <2>. SUFFICES ASSUME IInv, NEW c \in Calls, pc[c] = "wait", emu[ent[c]] # None
                PROVE  HoldsKey(emu[ent[c]]) /\ key[emu[ent[c]]] = key[c]
    BY DEF KeysIndependent
  <2>. DEFINE d == emu[ent[c]]
  <2>1. ent[c] \in Entries /\ key[c] \in Keys /\ m[key[c]] = ent[c]
    BY DEF IInv, KeyInv, EntryInv, Registered
  <2>2. d \in Calls
    BY <2>1 DEF IInv, TypeOK
  <2>3. HoldsKey(d) /\ ent[d] = ent[c]
    BY <2>1, NoneIsFresh DEF IInv, OwnerInv
  <2>4. m[key[d]] = ent[d] /\ key[d] \in Keys
    BY <2>2, <2>3 DEF IInv, EntryInv, KeyInv, Registered, HoldsKey
  <2>. QED  BY <2>1, <2>3, <2>4, NoneIsFresh DEF IInv, InjInv
<1>. QED  BY <1>1, InductiveInvariant, PTL

(* Reference counts are exact, and no call works on a dropped entry. *)
THEOREM ExactReferences == Spec => []RefsExact
<1>1. IInv => RefsExact
  BY NoneIsFresh DEF IInv, RefsExact, EntryInv, RefsInv
<1>. QED  BY <1>1, InductiveInvariant, PTL

(* The map holds the keys in use and no others, so it cannot grow without  *)
(* bound: a key whose last caller is gone has left it.                     *)
THEOREM NoLeak == Spec => []NoEntryLeaks
<1>1. IInv => NoEntryLeaks
  <2>. SUFFICES ASSUME IInv
                PROVE  KeysInMap = {key[c] : c \in {d \in Calls : Registered(d)}}
    BY DEF NoEntryLeaks
  <2>1. ASSUME NEW k \in Keys, m[k] # None
        PROVE  \E c \in Calls : Registered(c) /\ key[c] = k
    <3>1. Users(m[k]) # {}
      BY <2>1, FS_EmptySet DEF IInv, RefsInv
    <3>2. PICK c \in Calls : Registered(c) /\ ent[c] = m[k]
      BY <3>1 DEF Users
    <3>3. m[key[c]] = m[k] /\ key[c] \in Keys
      BY <3>2 DEF IInv, EntryInv, KeyInv, Registered
    <3>. QED  BY <2>1, <3>2, <3>3 DEF IInv, InjInv
  <2>2. ASSUME NEW c \in Calls, Registered(c)
        PROVE  key[c] \in Keys /\ m[key[c]] # None
    BY <2>2, NoneIsFresh DEF IInv, EntryInv, KeyInv, Registered
  <2>. QED  BY <2>1, <2>2 DEF KeysInMap
<1>. QED  BY <1>1, InductiveInvariant, PTL
-----------------------------------------------------------------------------
(* Refinement: each step of the two-level protocol is one step of the      *)
(* abstract lock, or none of its.  Entering Lock is Request, locking the   *)
(* entry's mutex is Grant, unlocking it is Release, and the bookkeeping    *)
(* under k.mu is invisible.                                                *)
LEMMA InitRefines == Init => KL!Init
BY DEF Init, KL!Init, Wants, Holds, HoldsKey

LEMMA StepRefines ==
    ASSUME IInv, Next
    PROVE  KL!Next \/ UNCHANGED KL!lockVars
<1>. USE NoneIsFresh
<1>1. ASSUME NEW c \in Calls, NEW k \in Keys, Lock(c, k)
      PROVE  KL!Next
  <2>1. Wants(c) = None /\ Holds(c) = None
    BY <1>1 DEF Lock, Wants, Holds, HoldsKey
  <2>2. \A d \in Calls : Wants(d)' = IF d = c THEN k ELSE Wants(d)
    BY <1>1 DEF Lock, Wants, IInv, TypeOK
  <2>3. \A d \in Calls : Holds(d)' = Holds(d)
    BY <1>1 DEF Lock, Holds, HoldsKey, IInv, TypeOK
  <2>4. KL!Request(c, k)
    BY <2>1, <2>2, <2>3 DEF KL!Request
  <2>. QED  BY <2>4 DEF KL!Next
<1>2. ASSUME NEW c \in Calls,
             LockMu(c) \/ Lookup(c) \/ Unlock(c) \/ RelockMu(c) \/ Unref(c)
      PROVE  UNCHANGED KL!lockVars
  <2>1. pc[c] # "released" \/ once[c]
    BY DEF IInv, OnceInv
  <2>2. \A d \in Calls : Wants(d)' = Wants(d)
    BY <1>2, <2>1 DEF LockMu, Lookup, Unlock, RelockMu, Unref, Wants, IInv, TypeOK
  <2>3. \A d \in Calls : Holds(d)' = Holds(d)
    BY <1>2, <2>1 DEF LockMu, Lookup, Unlock, RelockMu, Unref, Holds, HoldsKey, IInv, TypeOK
  <2>. QED  BY <2>2, <2>3 DEF KL!lockVars
<1>3. ASSUME NEW c \in Calls, Acquire(c)
      PROVE  KL!Next
  <2>1. /\ key[c] \in Keys /\ m[key[c]] = ent[c] /\ Wants(c) = key[c]
    BY <1>3 DEF Acquire, IInv, KeyInv, EntryInv, Registered, Wants
  <2>2. ASSUME NEW d \in Calls, Holds(d) = key[c]
        PROVE  FALSE
    <3>1. HoldsKey(d) /\ key[d] = key[c]
      BY <2>1, <2>2 DEF Holds
    <3>2. ent[d] = ent[c] /\ emu[ent[d]] = d
      BY <2>1, <3>1 DEF IInv, EntryInv, LockInv, HoldsKey, Registered
    <3>. QED  BY <1>3, <3>2 DEF Acquire
  <2>3. \A d \in Calls : Wants(d)' = IF d = c THEN None ELSE Wants(d)
    BY <1>3 DEF Acquire, Wants, IInv, TypeOK
  <2>4. \A d \in Calls : Holds(d)' = IF d = c THEN key[c] ELSE Holds(d)
    BY <1>3 DEF Acquire, Holds, HoldsKey, IInv, TypeOK
  <2>5. KL!Grant(c)
    BY <2>1, <2>2, <2>3, <2>4 DEF KL!Grant
  <2>. QED  BY <2>5 DEF KL!Next
<1>4. ASSUME NEW c \in Calls, UnlockEntry(c)
      PROVE  KL!Next
  <2>1. Holds(c) # None
    BY <1>4 DEF UnlockEntry, Holds, HoldsKey, IInv, KeyInv
  <2>2. \A d \in Calls : Wants(d)' = Wants(d)
    BY <1>4 DEF UnlockEntry, Wants, IInv, TypeOK
  <2>3. \A d \in Calls : Holds(d)' = IF d = c THEN None ELSE Holds(d)
    BY <1>4 DEF UnlockEntry, Holds, HoldsKey, IInv, TypeOK
  <2>4. KL!Release(c)
    BY <2>1, <2>2, <2>3 DEF KL!Release
  <2>. QED  BY <2>4 DEF KL!Next
<1>. QED  BY <1>1, <1>2, <1>3, <1>4 DEF Next, Step

(* Every behaviour of KeyedMutex is, seen by its callers, a behaviour of   *)
(* one plain mutual-exclusion lock per key (locks.go:5-7, 23): sharing,    *)
(* counting and dropping entries cannot be observed.                       *)
THEOREM Refinement == Spec => ImplementsKeyedLock
<1>1. Init => KL!Init
  BY InitRefines
<1>2. IInv /\ [Next]_vars => [KL!Next]_(KL!lockVars)
  <2>1. UNCHANGED vars => UNCHANGED KL!lockVars
    BY DEF vars, KL!lockVars, Wants, Holds, HoldsKey
  <2>. QED  BY <2>1, StepRefines
<1>. QED  BY <1>1, <1>2, InductiveInvariant, PTL DEF Spec, ImplementsKeyedLock, KL!Spec
=============================================================================
