------------------------------ MODULE AclCalls ------------------------------
(***************************************************************************)
(* Concurrent calls on one directory of src/adcorefake, seen through its   *)
(* ACL service (adcorefake/acl.go): the write path that every service      *)
(* shares.  A write takes the KeyedMutex entry of its identity's text,     *)
(* then store.mu; a read and a Create take store.mu alone; deferred        *)
(* releases run in the opposite order.  Grant, Revoke and Get work on an   *)
(* object's list of access-control entries in the steps the code takes;    *)
(* Create and Delete stand for those of the five object classes.           *)
(*                                                                         *)
(* The keyed lock is the abstract KeyedLock, which KeyedMutex implements.  *)
(***************************************************************************)
EXTENDS Naturals, Sequences, FiniteSets

CONSTANTS
    Calls,      \* the calls that may be in progress at once
    DNs,        \* the distinguished names objects may have
    MaxSeq,     \* bound on the objects ever created
    ACEs,       \* the access-control entries callers write down
    Lower,      \* Lower[t]: the text t in lower case
    Lists,      \* the lists of entries a call may be given
    None        \* no call, no key, no request

Guids == 1 .. MaxSeq

VARIABLES
    dirs,       \* dirs[d]: the object at DN d, its GUID and its dacl
    seq,        \* the number of GUIDs handed out
    wants,      \* the keyed lock: the key each call waits for, or None
    holds,      \* and the key each call holds, or None
    mu,         \* the call that holds store.mu, or None
    pc,         \* where each call is
    taken,      \* how many of its locks each call holds
    req,        \* the request each call has in progress, or None
    local,      \* a call's local list: entries to add, or entries kept
    seen,       \* a Grant's local set of keys
    result      \* what each call is about to return

vars == <<dirs, seq, wants, holds, mu, pc, taken, req, local, seen, result>>

Identities == [form : {"guid"}, arg : Guids] \cup [form : {"dn"}, arg : DNs]

(* The requests callers make. *)
Requests ==
    [op : {"grant", "revoke"}, id : Identities, list : Lists]
        \cup [op : {"get", "delete"}, id : Identities, list : {<<>>}]
        \cup [op : {"create"}, id : [form : {"dn"}, arg : DNs], list : {<<>>}]

ASSUME AclConstants ==
    /\ IsFiniteSet(Calls) /\ MaxSeq \in Nat
    /\ ACEs \subseteq [subject : DOMAIN Lower, rights : Seq(DOMAIN Lower), inherited : BOOLEAN]
    /\ Lists \subseteq Seq(ACEs)
    /\ None \notin Calls \cup Identities \cup Requests

KL == INSTANCE KeyedLock WITH Keys <- Identities

(* CanonicalACEKey: case-insensitive, and the rights sorted.  The subject  *)
(* stands for the trustee, type, object types and inheritance.             *)
CanonicalACEKey(a) ==
    LET rights == [i \in DOMAIN a.rights |-> Lower[a.rights[i]]]
    IN  [subject |-> Lower[a.subject],
         rights  |-> [r \in {rights[i] : i \in DOMAIN rights} |->
                         Cardinality({i \in DOMAIN rights : rights[i] = r})]]

KeysOf(list) == {CanonicalACEKey(list[i]) : i \in DOMAIN list}

Stored == ACEs \cup {[a EXCEPT !.inherited = FALSE] : a \in ACEs}

Keys == {CanonicalACEKey(a) : a \in ACEs}

Results == [outcome : {"pending", "ok", "notFound", "exists"}, keys : SUBSET Keys]

Result(outcome, keys) == [outcome |-> outcome, keys |-> keys]

Pending == Result("pending", {})

TypeOK ==
    /\ DOMAIN dirs \subseteq DNs
    /\ \A d \in DOMAIN dirs : dirs[d] \in [guid : Guids, dacl : Seq(Stored)]
    /\ seq \in 0 .. MaxSeq
    /\ wants \in [Calls -> Identities \cup {None}] /\ holds \in [Calls -> Identities \cup {None}]
    /\ mu \in Calls \cup {None}
    /\ pc \in [Calls -> {"idle", "empty", "lock", "body", "append", "assign", "unlock"}]
    /\ taken \in [Calls -> 0 .. 2]
    /\ req \in [Calls -> Requests \cup {None}]
    /\ local \in [Calls -> Seq(Stored)]
    /\ seen \in [Calls -> SUBSET Keys]
    /\ result \in [Calls -> Results]
    /\ \A c \in Calls : pc[c] = "idle" => /\ taken[c] = 0 /\ mu # c
                                         /\ wants[c] = None /\ holds[c] = None

Init ==
    /\ dirs = [d \in {} |-> None] /\ seq = 0
    /\ KL!Init
    /\ mu = None
    /\ pc = [c \in Calls |-> "idle"] /\ taken = [c \in Calls |-> 0]
    /\ req = [c \in Calls |-> None]
    /\ local = [c \in Calls |-> <<>>] /\ seen = [c \in Calls |-> {}]
    /\ result = [c \in Calls |-> Pending]

-----------------------------------------------------------------------------
Goto(c, where) == pc' = [pc EXCEPT ![c] = where]

(* Mutants of Locks: Delete takes the locks in the other order; Revoke     *)
(* relies on its key alone.                                                *)
LocksSwapped(op) ==
    IF op \in {"get", "create"} THEN <<"mu">>
    ELSE IF op = "delete" THEN <<"mu", "key">> ELSE <<"key", "mu">>

LocksRevokeKeyOnly(op) ==
    IF op \in {"get", "create"} THEN <<"mu">>
    ELSE IF op = "revoke" THEN <<"key">> ELSE <<"key", "mu">>

(* The locks of an operation, in the order it takes them. *)
Locks(op) == IF op \in {"get", "create"} THEN <<"mu">> ELSE <<"key", "mu">>

NextLock(c) == Locks(req[c].op)[taken[c] + 1]

(* The objects there are or may be once the calls in progress have ended. *)
Creations == seq + Cardinality({c \in Calls : req[c] # None /\ req[c].op = "create"})

(* Mutant of Finish: the locks are not released when nothing was found. *)
FinishUnreleased(c, outcome, keys) ==
    /\ result' = [result EXCEPT ![c] = Result(outcome, keys)]
    /\ local' = [local EXCEPT ![c] = <<>>] /\ seen' = [seen EXCEPT ![c] = {}]
    /\ Goto(c, IF outcome = "notFound" THEN "idle" ELSE "unlock")

(* What is left to do is to release the locks and return. *)
Finish(c, outcome, keys) ==
    /\ result' = [result EXCEPT ![c] = Result(outcome, keys)]
    /\ local' = [local EXCEPT ![c] = <<>>] /\ seen' = [seen EXCEPT ![c] = {}]
    /\ Goto(c, "unlock")

(* A call starts; MaxSeq bounds the creations asked for. *)
Call(c, request) ==
    /\ pc[c] = "idle"
    /\ request.op = "create" => Creations < MaxSeq
    /\ req' = [req EXCEPT ![c] = request]
    /\ Goto(c, IF request.op \in {"grant", "revoke"} /\ request.list = <<>> THEN "empty" ELSE "lock")
    /\ UNCHANGED <<dirs, seq, wants, holds, mu, taken, local, seen, result>>

(* A Grant or Revoke of nothing returns without taking a lock. *)
Nothing(c) ==
    /\ pc[c] = "empty"
    /\ Finish(c, "ok", {})
    /\ UNCHANGED <<dirs, seq, wants, holds, mu, taken, req>>

(* KeyedMutex.Lock(IdentityArg(id)) is called, and returns. *)
AskKey(c) ==
    /\ pc[c] = "lock" /\ NextLock(c) = "key"
    /\ KL!Request(c, req[c].id)
    /\ UNCHANGED <<dirs, seq, mu, pc, taken, req, local, seen, result>>

Took(c) ==
    /\ taken' = [taken EXCEPT ![c] = @ + 1]
    /\ IF taken[c] + 1 = Len(Locks(req[c].op)) THEN Goto(c, "body") ELSE UNCHANGED pc

TakeKey(c) ==
    /\ pc[c] = "lock" /\ NextLock(c) = "key"
    /\ KL!Grant(c)
    /\ Took(c)
    /\ UNCHANGED <<dirs, seq, mu, req, local, seen, result>>

TakeMu(c) ==
    /\ pc[c] = "lock" /\ NextLock(c) = "mu"
    /\ mu = None /\ mu' = c
    /\ Took(c)
    /\ UNCHANGED <<dirs, seq, wants, holds, req, local, seen, result>>

(* The deferred releases, last lock first. *)
Unlock(c) ==
    /\ pc[c] = "unlock"
    /\ taken[c] > 0
    /\ taken' = [taken EXCEPT ![c] = @ - 1]
    /\ IF Locks(req[c].op)[taken[c]] = "mu"
       THEN mu' = None /\ UNCHANGED <<wants, holds>>
       ELSE KL!Release(c) /\ UNCHANGED mu
    /\ UNCHANGED <<dirs, seq, pc, req, local, seen, result>>

Return(c) ==
    /\ pc[c] = "unlock" /\ taken[c] = 0
    /\ Goto(c, "idle")
    /\ req' = [req EXCEPT ![c] = None]
    /\ result' = [result EXCEPT ![c] = Pending]
    /\ UNCHANGED <<dirs, seq, wants, holds, mu, taken, local, seen>>

-----------------------------------------------------------------------------
(* findLocked, as the set of its results: DNs and GUIDs are unique. *)
Found(id) == {d \in DOMAIN dirs : IF id.form = "guid" THEN dirs[d].guid = id.arg ELSE d = id.arg}

InBody(c, op) == pc[c] = "body" /\ req[c].op = op

NotFound(c) ==
    /\ \E op \in {"grant", "revoke", "get"} : InBody(c, op)
    /\ Found(req[c].id) = {}
    /\ Finish(c, "notFound", {})
    /\ UNCHANGED <<dirs, seq, wants, holds, mu, taken, req>>

Get(c) ==
    /\ InBody(c, "get")
    /\ \E d \in Found(req[c].id) : Finish(c, "ok", KeysOf(dirs[d].dacl))
    /\ UNCHANGED <<dirs, seq, wants, holds, mu, taken, req>>

(* Grant reads the keys there are, then appends what is missing. *)
Grant(c) ==
    /\ InBody(c, "grant")
    /\ \E d \in Found(req[c].id) : seen' = [seen EXCEPT ![c] = KeysOf(dirs[d].dacl)]
    /\ local' = [local EXCEPT ![c] = req[c].list]
    /\ Goto(c, "append")
    /\ UNCHANGED <<dirs, seq, wants, holds, mu, taken, req, result>>

(* An entry the caller read as inherited is stored as an explicit one. *)
Appended(a) == [a EXCEPT !.inherited = FALSE]

(* Mutant of NowSeen: keys granted by this call are not remembered. *)
NowSeenOnlyBefore(c, key) == seen[c]

NowSeen(c, key) == seen[c] \cup {key}

AppendNext(c) ==
    /\ pc[c] = "append" /\ local[c] # <<>>
    /\ LET a == Head(local[c])
           key == CanonicalACEKey(a)
       IN  /\ seen' = [seen EXCEPT ![c] = NowSeen(c, key)]
           /\ dirs' = IF key \in seen[c] THEN dirs
                      ELSE [d \in DOMAIN dirs |-> IF d \in Found(req[c].id)
                               THEN [dirs[d] EXCEPT !.dacl = Append(@, Appended(a))] ELSE dirs[d]]
    /\ local' = [local EXCEPT ![c] = Tail(@)]
    /\ UNCHANGED <<seq, wants, holds, mu, pc, taken, req, result>>

GrantEnds(c) ==
    /\ pc[c] = "append" /\ local[c] = <<>>
    /\ Finish(c, "ok", {})
    /\ UNCHANGED <<dirs, seq, wants, holds, mu, taken, req>>

(* What a revocation of keys keeps of a list: inherited entries, and those *)
(* of other keys, in their order.                                          *)
Kept(dacl, keys) ==
    LET Keep(a) == a.inherited \/ CanonicalACEKey(a) \notin keys
        kept[n \in Nat] ==
            IF n = 0 THEN <<>>
            ELSE IF n \in DOMAIN dacl /\ Keep(dacl[n]) THEN Append(kept[n - 1], dacl[n])
            ELSE kept[n - 1]
    IN  kept[Len(dacl)]

(* Revoke builds the list of entries it keeps, then assigns it. *)
Revoke(c) ==
    /\ InBody(c, "revoke")
    /\ \E d \in Found(req[c].id) :
          local' = [local EXCEPT ![c] = Kept(dirs[d].dacl, KeysOf(req[c].list))]
    /\ Goto(c, "assign")
    /\ UNCHANGED <<dirs, seq, wants, holds, mu, taken, req, seen, result>>

Assign(c) ==
    /\ pc[c] = "assign"
    /\ dirs' = [d \in DOMAIN dirs |-> IF d \in Found(req[c].id)
                   THEN [dirs[d] EXCEPT !.dacl = local[c]] ELSE dirs[d]]
    /\ Finish(c, "ok", {})
    /\ UNCHANGED <<seq, wants, holds, mu, taken, req>>

(* Delete of an object that is not there succeeds. *)
Delete(c) ==
    /\ InBody(c, "delete")
    /\ dirs' = [d \in DOMAIN dirs \ Found(req[c].id) |-> dirs[d]]
    /\ Finish(c, "ok", {})
    /\ UNCHANGED <<seq, wants, holds, mu, taken, req>>

Create(c) ==
    /\ InBody(c, "create")
    /\ LET d == req[c].id.arg IN
       \/ /\ d \in DOMAIN dirs
          /\ Finish(c, "exists", {})
          /\ UNCHANGED <<dirs, seq>>
       \/ /\ d \notin DOMAIN dirs
          /\ seq' = seq + 1
          /\ dirs' = [e \in DOMAIN dirs \cup {d} |->
                         IF e = d THEN [guid |-> seq + 1, dacl |-> <<>>] ELSE dirs[e]]
          /\ Finish(c, "ok", {})
    /\ UNCHANGED <<wants, holds, mu, taken, req>>
-----------------------------------------------------------------------------
Body(c) == \/ NotFound(c) \/ Get(c) \/ Grant(c) \/ AppendNext(c) \/ GrantEnds(c)
           \/ Revoke(c) \/ Assign(c) \/ Delete(c) \/ Create(c)

Next ==
    \E c \in Calls :
        \/ \E request \in Requests : Call(c, request)
        \/ Nothing(c) \/ AskKey(c) \/ TakeKey(c) \/ TakeMu(c)
        \/ Body(c)
        \/ Unlock(c) \/ Return(c)

Spec == Init /\ [][Next]_vars

-----------------------------------------------------------------------------
(* An object never has two entries of one canonical key, so a Revoke of it *)
(* leaves none and a Get lists each grant once: the caller may repeat an   *)
(* entry within a list, across calls, or in another spelling (Grant).      *)
NoDuplicateEntries ==
    \A d \in DOMAIN dirs : \A i, j \in DOMAIN dirs[d].dacl :
        i # j => CanonicalACEKey(dirs[d].dacl[i]) # CanonicalACEKey(dirs[d].dacl[j])

(* c cannot go on until d does: d holds the key or the mutex c is after. *)
WaitsFor(c, d) ==
    \/ wants[c] # None /\ holds[d] = wants[c]
    \/ pc[c] = "lock" /\ NextLock(c) = "mu" /\ mu = d

(* The two locks never deadlock: among any calls there is one that waits   *)
(* for none of the others (every write takes its key before store.mu).     *)
NoCircularWait ==
    \A some \in (SUBSET Calls) \ {{}} : \E c \in some : \A d \in some : ~WaitsFor(c, d)

(* The abstract state: a Grant has its effect as its loop begins, the      *)
(* other operations as they finish; the entries are the keys of the dacl.  *)
ToAdd(d) == UNION {KeysOf(local[c]) : c \in {b \in Calls : pc[b] = "append" /\ d \in Found(req[b].id)}}

AbstractObjects == [d \in DOMAIN dirs |-> [guid |-> dirs[d].guid, keys |-> KeysOf(dirs[d].dacl) \cup ToAdd(d)]]

AbstractRequests ==
    [c \in Calls |-> IF req[c] = None THEN None
                     ELSE [op |-> req[c].op, id |-> req[c].id, keys |-> KeysOf(req[c].list)]]

AbstractResults == [c \in Calls |-> IF pc[c] = "append" THEN Result("ok", {}) ELSE result[c]]

AA == INSTANCE AtomicACL WITH
          objects <- AbstractObjects, made <- seq, asked <- AbstractRequests, answer <- AbstractResults

ASSUME NoneIsNoRequest == None \notin AA!Requests

(* Every call takes effect at one instant between its start and its return *)
(* although the code works in steps, whichever identities name the object: *)
(* no grant, revocation or read sees or overwrites half of another.        *)
ImplementsAtomicACL == AA!Spec

=============================================================================
