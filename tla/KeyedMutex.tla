----------------------------- MODULE KeyedMutex -----------------------------
(***************************************************************************)
(* The KeyedMutex of src/locks.go, at the grain of its mutex operations:   *)
(* every step between two of them that touches shared state is an action   *)
(* of its own.  k.mu guards the map; each map entry carries the mutex of   *)
(* its key and a reference count, and is dropped from the map by the last  *)
(* caller that refers to it.                                               *)
(*                                                                         *)
(* Entries are heap cells.  `&keyedEntry{}` allocates any cell nothing     *)
(* points to, so a cell may be recycled exactly when Go's collector could  *)
(* recycle it.                                                             *)
(***************************************************************************)
EXTENDS Naturals, FiniteSets

CONSTANTS
    Calls,      \* concurrent invocations of Lock, with their release closures
    Keys,       \* the strings locked
    Entries,    \* heap cells for keyedEntry values
    None        \* nil

ASSUME CallsFinite == IsFiniteSet(Calls)
ASSUME NoneIsFresh == None \notin Calls \cup Keys \cup Entries

VARIABLES
    mu,         \* holder of k.mu, or None
    m,          \* m[k]: the entry registered for k, or None
    emu,        \* emu[e]: holder of e.mu, or None
    refs,       \* refs[e]: e.refs
    pc,         \* pc[c]: where call c is
    key,        \* key[c]: the argument of the call
    ent,        \* ent[c]: its local e, captured by the closure it returned
    once        \* once[c]: the closure's sync.Once has run

vars == <<mu, m, emu, refs, pc, key, ent, once>>

(***************************************************************************)
(* Program counters.  "lock" is blocked at k.mu.Lock of line 25, "lookup"  *)
(* holds k.mu, "wait" is blocked at e.mu.Lock, "held" has returned to its  *)
(* caller, "unlock" is inside once.Do, "unlockMu" is blocked at k.mu.Lock  *)
(* of line 40, "unref" holds k.mu, "released" has run its closure.         *)
(***************************************************************************)
PCs == {"idle", "lock", "lookup", "wait", "held",
        "unlock", "unlockMu", "unref", "released"}

HoldsMu(c)    == pc[c] \in {"lookup", "unref"}
HoldsKey(c)   == pc[c] \in {"held", "unlock"}
Registered(c) == pc[c] \in {"wait", "held", "unlock", "unlockMu", "unref"}

Users(e) == {c \in Calls : Registered(c) /\ ent[c] = e}

(* No pointer to e is left, in the map or in a live closure. *)
Unreachable(e) == (\A k \in Keys : m[k] # e) /\ (\A c \in Calls : ent[c] # e)

(* What len(k.m) counts in Size. *)
KeysInMap == {k \in Keys : m[k] # None}

TypeOK ==
    /\ mu \in Calls \cup {None}
    /\ m \in [Keys -> Entries \cup {None}]
    /\ emu \in [Entries -> Calls \cup {None}]
    /\ refs \in [Entries -> Nat]
    /\ pc \in [Calls -> PCs]
    /\ key \in [Calls -> Keys \cup {None}]
    /\ ent \in [Calls -> Entries \cup {None}]
    /\ once \in [Calls -> BOOLEAN]

Init ==
    /\ mu = None
    /\ m = [k \in Keys |-> None]
    /\ emu = [e \in Entries |-> None]
    /\ refs = [e \in Entries |-> 0]
    /\ pc = [c \in Calls |-> "idle"]
    /\ key = [c \in Calls |-> None]
    /\ ent = [c \in Calls |-> None]
    /\ once = [c \in Calls |-> FALSE]

-----------------------------------------------------------------------------
(* A caller enters Lock(k).  Entering again forgets the previous closure. *)
Lock(c, k) ==
    /\ pc[c] \in {"idle", "released"}
    /\ pc' = [pc EXCEPT ![c] = "lock"]
    /\ key' = [key EXCEPT ![c] = k]
    /\ ent' = [ent EXCEPT ![c] = None]
    /\ once' = [once EXCEPT ![c] = FALSE]
    /\ UNCHANGED <<mu, m, emu, refs>>

LockMu(c) ==
    /\ pc[c] = "lock"
    /\ mu = None
    /\ mu' = c
    /\ pc' = [pc EXCEPT ![c] = "lookup"]
    /\ UNCHANGED <<m, emu, refs, key, ent, once>>

(* Mutants of Found: an entry of any key will do; the reference is not     *)
(* counted.                                                                *)
FoundOfAnyKey(c, e) ==
    /\ \E k \in Keys : m[k] = e
    /\ m' = m
    /\ refs' = [refs EXCEPT ![e] = @ + 1]
    /\ emu' = emu

FoundNotCounted(c, e) ==
    /\ m[key[c]] = e
    /\ UNCHANGED <<m, refs, emu>>

(* Find or create the entry, count the reference, release k.mu. *)
Found(c, e) ==
    /\ m[key[c]] = e
    /\ m' = m
    /\ refs' = [refs EXCEPT ![e] = @ + 1]
    /\ emu' = emu

Created(c, e) ==
    /\ m[key[c]] = None
    /\ Unreachable(e)
    /\ m' = [m EXCEPT ![key[c]] = e]
    /\ refs' = [refs EXCEPT ![e] = 1]
    /\ emu' = [emu EXCEPT ![e] = None]

Lookup(c) ==
    /\ pc[c] = "lookup"
    /\ \E e \in Entries :
          /\ Found(c, e) \/ Created(c, e)
          /\ ent' = [ent EXCEPT ![c] = e]
    /\ mu' = None
    /\ pc' = [pc EXCEPT ![c] = "wait"]
    /\ UNCHANGED <<key, once>>

(* e.mu.Lock succeeds and Lock returns. *)
Acquire(c) ==
    /\ pc[c] = "wait"
    /\ emu[ent[c]] = None
    /\ emu' = [emu EXCEPT ![ent[c]] = c]
    /\ pc' = [pc EXCEPT ![c] = "held"]
    /\ UNCHANGED <<mu, m, refs, key, ent, once>>

(* Mutant of Unlock: the closure has no sync.Once. *)
UnlockWithoutOnce(c) ==
    /\ pc[c] \in {"held", "released"}
    /\ pc' = [pc EXCEPT ![c] = "unlock"]
    /\ UNCHANGED <<mu, m, emu, refs, key, ent, once>>

(* The release closure is called; a second call finds the Once done and    *)
(* returns, which changes nothing.                                         *)
Unlock(c) ==
    /\ pc[c] \in {"held", "released"}
    /\ ~once[c]
    /\ once' = [once EXCEPT ![c] = TRUE]
    /\ pc' = [pc EXCEPT ![c] = "unlock"]
    /\ UNCHANGED <<mu, m, emu, refs, key, ent>>

UnlockEntry(c) ==
    /\ pc[c] = "unlock"
    /\ emu' = [emu EXCEPT ![ent[c]] = None]
    /\ pc' = [pc EXCEPT ![c] = "unlockMu"]
    /\ UNCHANGED <<mu, m, refs, key, ent, once>>

RelockMu(c) ==
    /\ pc[c] = "unlockMu"
    /\ mu = None
    /\ mu' = c
    /\ pc' = [pc EXCEPT ![c] = "unref"]
    /\ UNCHANGED <<m, emu, refs, key, ent, once>>

(* Mutants of Unref: every release drops the entry from the map; none does. *)
UnrefDropsAlways(c) ==
    /\ pc[c] = "unref"
    /\ refs' = [refs EXCEPT ![ent[c]] = @ - 1]
    /\ m' = [m EXCEPT ![key[c]] = None]
    /\ mu' = None
    /\ pc' = [pc EXCEPT ![c] = "released"]
    /\ UNCHANGED <<emu, key, ent, once>>

UnrefKeepsEntry(c) ==
    /\ pc[c] = "unref"
    /\ refs' = [refs EXCEPT ![ent[c]] = @ - 1]
    /\ mu' = None
    /\ pc' = [pc EXCEPT ![c] = "released"]
    /\ UNCHANGED <<m, emu, key, ent, once>>

(* Drop the reference; the last one also drops the entry from the map. *)
Unref(c) ==
    /\ pc[c] = "unref"
    /\ refs' = [refs EXCEPT ![ent[c]] = @ - 1]
    /\ m' = IF refs'[ent[c]] = 0 THEN [m EXCEPT ![key[c]] = None] ELSE m
    /\ mu' = None
    /\ pc' = [pc EXCEPT ![c] = "released"]
    /\ UNCHANGED <<emu, key, ent, once>>

Step(c) ==
    \/ LockMu(c) \/ Lookup(c) \/ Acquire(c) \/ Unlock(c)
    \/ UnlockEntry(c) \/ RelockMu(c) \/ Unref(c)

Next == \E c \in Calls : Step(c) \/ \E k \in Keys : Lock(c, k)

Spec == Init /\ [][Next]_vars

(* Mutants of Fairness: an entry's mutex, or k.mu, is a lock a waiter may  *)
(* lose to newcomers for ever.                                             *)
BargingEntryMutex ==
    \A c \in Calls :
        /\ SF_vars(LockMu(c)) /\ SF_vars(RelockMu(c)) /\ WF_vars(Acquire(c))
        /\ WF_vars(Lookup(c)) /\ WF_vars(Unlock(c))
        /\ WF_vars(UnlockEntry(c)) /\ WF_vars(Unref(c))

BargingMapMutex ==
    \A c \in Calls :
        /\ WF_vars(LockMu(c)) /\ WF_vars(RelockMu(c)) /\ SF_vars(Acquire(c))
        /\ WF_vars(Lookup(c)) /\ WF_vars(Unlock(c))
        /\ WF_vars(UnlockEntry(c)) /\ WF_vars(Unref(c))

(***************************************************************************)
(* Fairness.  A goroutine that can run does run (WF), and every caller in  *)
(* the repository releases what it locked, by defer (WF on Unlock).  The   *)
(* two mutexes are sync.Mutex, whose starvation mode hands the lock to the *)
(* goroutine that has waited longest: a waiter cannot be passed over for   *)
(* ever, which is SF on the three acquisitions.  Nobody has to call Lock.  *)
(***************************************************************************)
Fairness ==
    \A c \in Calls :
        /\ SF_vars(LockMu(c)) /\ SF_vars(RelockMu(c)) /\ SF_vars(Acquire(c))
        /\ WF_vars(Lookup(c)) /\ WF_vars(Unlock(c))
        /\ WF_vars(UnlockEntry(c)) /\ WF_vars(Unref(c))

FairSpec == Spec /\ Fairness

-----------------------------------------------------------------------------
(* Two calls that both have a key, and have not yet unlocked it, have      *)
(* different keys: writers of one target never overlap, even while entries *)
(* are being dropped from the map and created again (locks.go:5, 24).      *)
MutualExclusion ==
    \A c, d \in Calls : HoldsKey(c) /\ HoldsKey(d) /\ key[c] = key[d] => c = d

(* A call blocked on an entry's mutex is blocked by a call that locked the *)
(* same key: "Two writers naming different objects proceed concurrently"   *)
(* (locks.go:5-7).                                                         *)
KeysIndependent ==
    \A c \in Calls :
        pc[c] = "wait" /\ emu[ent[c]] # None
            => HoldsKey(emu[ent[c]]) /\ key[emu[ent[c]]] = key[c]

(* A call never works on an entry that has been dropped from the map, and  *)
(* an entry's count is the number of calls that refer to it: neither a     *)
(* late waiter nor a late release finds the entry replaced (locks.go:31,   *)
(* 41-44).                                                                 *)
RefsExact ==
    /\ \A c \in Calls : Registered(c) => m[key[c]] = ent[c]
    /\ \A e \in Entries : (\E k \in Keys : m[k] = e) => refs[e] = Cardinality(Users(e))

(* Whenever k.mu is free, and so whenever Size() can look, the map holds   *)
(* exactly the keys some call refers to: no entry outlives its last user   *)
(* (locks.go:42-43, 50-55; locks_test.go).                                 *)
NoEntryLeaks ==
    mu = None => KeysInMap = {key[c] : c \in {d \in Calls : Registered(d)}}

(* Lock always returns. *)
LockReturns == \A c \in Calls : pc[c] = "lock" ~> pc[c] = "held"

(* A release always completes, also while other calls keep coming. *)
ReleaseCompletes == \A c \in Calls : pc[c] = "unlock" ~> pc[c] = "released"

-----------------------------------------------------------------------------
(* The abstract lock as callers see it: a call wants its key from the      *)
(* moment it enters Lock until e.mu.Lock succeeds, and holds it from then  *)
(* until e.mu.Unlock.                                                      *)
Wants(c) == IF pc[c] \in {"lock", "lookup", "wait"} THEN key[c] ELSE None
Holds(c) == IF HoldsKey(c) THEN key[c] ELSE None

KL == INSTANCE KeyedLock WITH
        wants <- [c \in Calls |-> Wants(c)],
        holds <- [c \in Calls |-> Holds(c)]

(* KeyedMutex implements one plain lock per key. *)
ImplementsKeyedLock == KL!Spec
=============================================================================
