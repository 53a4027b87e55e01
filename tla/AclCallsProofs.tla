--------------------------- MODULE AclCallsProofs ---------------------------
(***************************************************************************)
(* Machine-checked proofs about AclCalls, for any finite set of calls, any *)
(* DNs and any entries: the locks are held by whom the code says and never *)
(* wait for each other in a circle, an object has no entry twice, and the  *)
(* steps of the calls implement AtomicACL.                                 *)
(***************************************************************************)
EXTENDS AclCalls, Integers, FiniteSetTheorems, SequenceTheorems, NatFacts, TLAPS

NeedsKey(c) == req[c].op \notin {"get", "create"}

(* How many locks the operation of c takes; store.mu is the last of them. *)
NLocks(c) == IF NeedsKey(c) THEN 2 ELSE 1

(* How many of its locks a call has, from where it is. *)
PcInv == \A c \in Calls :
    /\ pc[c] = "idle" <=> req[c] = None
    /\ pc[c] \in {"idle", "empty"} => taken[c] = 0
    /\ pc[c] = "lock" => taken[c] < NLocks(c)
    /\ pc[c] \in {"body", "append", "assign"} => taken[c] = NLocks(c)
    /\ pc[c] = "unlock" => taken[c] <= NLocks(c)

(* store.mu is held by the call that has taken all of its locks. *)
MuInv == \A c \in Calls : mu = c <=> pc[c] # "idle" /\ taken[c] = NLocks(c)

(* A key is held by a write that has taken a lock, asked for by one that   *)
(* has none, and held by one call only.                                    *)
KeyInv ==
    /\ \A c \in Calls :
          /\ holds[c] # None <=> pc[c] # "idle" /\ NeedsKey(c) /\ taken[c] > 0
          /\ wants[c] # None => pc[c] = "lock" /\ NeedsKey(c) /\ taken[c] = 0
    /\ \A c, d \in Calls : holds[c] # None /\ holds[c] = holds[d] => c = d

(* Which operations get where, and when a call has its result. *)
OpInv == \A c \in Calls :
    /\ pc[c] = "empty" => req[c].op \in {"grant", "revoke"} /\ req[c].list = <<>>
    /\ pc[c] \in {"lock", "body", "append", "assign"} /\ req[c].op \in {"grant", "revoke"}
          => req[c].list # <<>>
    /\ pc[c] = "append" => req[c].op = "grant"
    /\ pc[c] = "assign" => req[c].op = "revoke"
    /\ pc[c] = "unlock" <=> result[c] # Pending

(* The creations still to come fit under the bound. *)
Creating == {c \in Calls : pc[c] \in {"lock", "body"} /\ req[c].op = "create"}

BudgetInv == seq + Cardinality(Creating) <= MaxSeq

(* No key twice in a list of entries, and none of them inherited. *)
Explicit(list) ==
    /\ \A i \in DOMAIN list : ~list[i].inherited
    /\ \A i, j \in DOMAIN list : i # j => CanonicalACEKey(list[i]) # CanonicalACEKey(list[j])

(* A DACL is a sequence of what Grant stores. *)
DirsType ==
    /\ DOMAIN dirs \subseteq DNs
    /\ \A d \in DOMAIN dirs : dirs[d] \in [guid : Guids, dacl : Seq(Stored)]

(* GUIDs are not shared and were handed out; no key is twice in a DACL. *)
DirsInv ==
    /\ \A d, e \in DOMAIN dirs : dirs[d].guid = dirs[e].guid => d = e
    /\ \A d \in DOMAIN dirs : dirs[d].guid \in 1 .. seq /\ Explicit(dirs[d].dacl)

(* A Grant in its loop remembers exactly the keys its object has. *)
AppendInv == \A c \in Calls :
    pc[c] = "append" => /\ Found(req[c].id) # {}
                        /\ \A d \in Found(req[c].id) : seen[c] = KeysOf(dirs[d].dacl)

(* A Revoke about to assign has the entries of the keys it was not given.  *)
AssignInv == \A c \in Calls :
    pc[c] = "assign" =>
        /\ Found(req[c].id) # {} /\ Explicit(local[c])
        /\ \A d \in Found(req[c].id) :
              KeysOf(local[c]) = KeysOf(dirs[d].dacl) \ KeysOf(req[c].list)

LocksInv == PcInv /\ MuInv /\ KeyInv
DataInv  == OpInv /\ BudgetInv /\ DirsInv /\ AppendInv /\ AssignInv
IInv     == TypeOK /\ LocksInv /\ DataInv
-----------------------------------------------------------------------------
(* The locks of an operation: store.mu last, after the key for a write. *)
LEMMA LockFacts ==
    ASSUME TypeOK, PcInv, NEW c \in Calls
    PROVE  /\ NLocks(c) \in 1 .. 2 /\ Len(Locks(req[c].op)) = NLocks(c)
           /\ NLocks(c) = 2 <=> NeedsKey(c)
           /\ Locks(req[c].op)[NLocks(c)] = "mu"
           /\ NeedsKey(c) => Locks(req[c].op)[1] = "key"
           /\ taken[c] \in 0 .. 2
           /\ pc[c] = "lock" /\ NextLock(c) = "key" => NeedsKey(c) /\ taken[c] = 0
           /\ pc[c] = "lock" /\ NextLock(c) = "mu" => taken[c] + 1 = NLocks(c)
<1>1. taken[c] \in 0 .. 2 /\ (pc[c] = "lock" => taken[c] < NLocks(c))
  BY DEF TypeOK, PcInv
<1>2. CASE NeedsKey(c)
  <2>1. Locks(req[c].op) = <<"key", "mu">> /\ NLocks(c) = 2
    BY <1>2 DEF NeedsKey, Locks, NLocks
  <2>2. pc[c] = "lock" => taken[c] = 0 \/ taken[c] = 1
    BY <1>1, <2>1
  <2>. QED  BY <1>1, <1>2, <2>1, <2>2 DEF NextLock
<1>3. CASE ~NeedsKey(c)
  <2>1. Locks(req[c].op) = <<"mu">> /\ NLocks(c) = 1
    BY <1>3 DEF NeedsKey, Locks, NLocks
  <2>2. pc[c] = "lock" => taken[c] = 0
    BY <1>1, <2>1
  <2>. QED  BY <1>1, <1>3, <2>1, <2>2 DEF NextLock
<1>. QED  BY <1>2, <1>3

(* A call at work on the objects holds store.mu, and is the only one. *)
LEMMA OneAtWork ==
    ASSUME LocksInv, NEW c \in Calls, pc[c] \in {"body", "append", "assign"}
    PROVE  mu = c /\ \A b \in Calls : pc[b] \in {"body", "append", "assign"} => b = c
BY DEF LocksInv, PcInv, MuInv

(* A step of the body neither takes nor releases a lock. *)
LEMMA BodyKeepsLocks ==
    ASSUME TypeOK, LocksInv, NEW c \in Calls,
           pc[c] \in {"empty", "body", "append", "assign"},
           pc'[c] \in {"append", "assign", "unlock"}, pc[c] = "empty" => pc'[c] = "unlock",
           pc' = [pc EXCEPT ![c] = pc'[c]], UNCHANGED <<wants, holds, mu, taken, req>>
    PROVE  LocksInv'
<1>. USE DEF LocksInv
<1>1. \A b \in Calls : b # c => pc'[b] = pc[b]
  BY DEF TypeOK
<1>2. \A b \in Calls : NeedsKey(b)' = NeedsKey(b) /\ NLocks(b)' = NLocks(b)
  BY DEF NeedsKey, NLocks
<1>3. taken[c] <= NLocks(c) /\ NLocks(c) # 0
  BY LockFacts DEF PcInv
<1>4. PcInv'
  BY <1>1, <1>2, <1>3 DEF PcInv
<1>5. MuInv'
  BY <1>1, <1>2 DEF MuInv
<1>6. KeyInv'
  BY <1>1, <1>2 DEF KeyInv
<1>. QED  BY <1>4, <1>5, <1>6

(* Where a step of the locks leaves the objects alone and moves a call     *)
(* among lock and unlock only, what is known of the data stays known.      *)
LEMMA LocksKeepData ==
    ASSUME IInv, TypeOK', NEW c \in Calls, UNCHANGED <<dirs, seq, req, local, seen, result>>,
           \/ UNCHANGED pc
           \/ pc[c] = "lock" /\ pc' = [pc EXCEPT ![c] = "body"]
    PROVE  DataInv'
<1>. USE DEF IInv, DataInv
<1>1. \A b \in Calls : pc'[b] = pc[b] \/ (pc[b] = "lock" /\ pc'[b] = "body")
  BY DEF TypeOK
<1>2. OpInv'
  BY <1>1 DEF OpInv
<1>3. Creating' = Creating
  BY <1>1 DEF Creating
<1>4. BudgetInv' /\ DirsInv'
  BY <1>3 DEF BudgetInv, DirsInv
<1>5. \A id : Found(id)' = Found(id)
  BY DEF Found
<1>6. AppendInv' /\ AssignInv'
  BY <1>1, <1>5 DEF AppendInv, AssignInv
<1>. QED  BY <1>2, <1>4, <1>6

LEMMA AskKeyStep == ASSUME IInv, NEW c \in Calls, AskKey(c) PROVE IInv'
<1>. USE DEF IInv, AskKey, KL!Request
<1>1. NeedsKey(c) /\ taken[c] = 0 /\ req[c].id \in Identities
  <2>1. req[c] \in Requests
    BY DEF LocksInv, PcInv, TypeOK
  <2>2. req[c].id \in Identities
    BY <2>1 DEF Requests, Identities
  <2>3. NeedsKey(c) /\ taken[c] = 0
    BY LockFacts DEF LocksInv
  <2>. QED  BY <2>2, <2>3
<1>2. \A b \in Calls : NeedsKey(b)' = NeedsKey(b) /\ NLocks(b)' = NLocks(b)
  BY DEF NeedsKey, NLocks
<1>3. wants'[c] = req[c].id /\ \A b \in Calls : b # c => wants'[b] = wants[b]
  BY DEF TypeOK
<1>4. LocksInv'
  BY <1>1, <1>2, <1>3 DEF LocksInv, PcInv, MuInv, KeyInv
<1>5. TypeOK'
  BY <1>1, <1>4 DEF TypeOK
<1>. QED  BY <1>4, <1>5, LocksKeepData

LEMMA TakeKeyStep == ASSUME IInv, NEW c \in Calls, TakeKey(c) PROVE IInv'
<1>. USE DEF IInv
<1>1. NeedsKey(c) /\ taken[c] = 0 /\ NLocks(c) = 2 /\ Len(Locks(req[c].op)) = 2 /\ pc[c] = "lock"
  BY LockFacts DEF LocksInv, TakeKey
<1>2. /\ taken' = [taken EXCEPT ![c] = 1] /\ UNCHANGED <<dirs, seq, mu, pc, req, local, seen, result>>
      /\ wants[c] # None /\ \A d \in Calls : holds[d] # wants[c]
      /\ holds' = [holds EXCEPT ![c] = wants[c]] /\ wants' = [wants EXCEPT ![c] = None]
  BY <1>1 DEF TakeKey, Took, KL!Grant
<1>3. \A b \in Calls : NeedsKey(b)' = NeedsKey(b) /\ NLocks(b)' = NLocks(b)
  BY <1>2 DEF NeedsKey, NLocks
<1>4. /\ wants'[c] = None /\ holds'[c] = wants[c] /\ taken'[c] = 1
      /\ \A b \in Calls : b # c => wants'[b] = wants[b] /\ holds'[b] = holds[b] /\ taken'[b] = taken[b]
  BY <1>2 DEF TypeOK
<1>5. LocksInv'
  <2>1. PcInv'
    BY <1>1, <1>2, <1>3, <1>4 DEF LocksInv, PcInv
  <2>2. MuInv'
    BY <1>1, <1>2, <1>3, <1>4 DEF LocksInv, MuInv
  <2>3. KeyInv'
    BY <1>1, <1>2, <1>3, <1>4 DEF LocksInv, KeyInv
  <2>. QED  BY <2>1, <2>2, <2>3 DEF LocksInv
<1>6. TypeOK'
  <2>1. taken' \in [Calls -> 0 .. 2] /\ wants' \in [Calls -> Identities \cup {None}]
            /\ holds' \in [Calls -> Identities \cup {None}]
    BY <1>2 DEF TypeOK
  <2>. QED  BY <1>2, <1>5, <2>1 DEF TypeOK
<1>. QED  BY <1>2, <1>5, <1>6, LocksKeepData

LEMMA TakeMuStep == ASSUME IInv, NEW c \in Calls, TakeMu(c) PROVE IInv'
<1>. USE DEF IInv
<1>1. taken[c] + 1 = NLocks(c) /\ Len(Locks(req[c].op)) = NLocks(c) /\ pc[c] = "lock"
          /\ NLocks(c) \in 1 .. 2 /\ taken[c] \in 0 .. 2 /\ (NLocks(c) = 2 <=> NeedsKey(c))
  BY LockFacts DEF LocksInv, TakeMu
<1>2. /\ taken' = [taken EXCEPT ![c] = NLocks(c)]
      /\ pc' = [pc EXCEPT ![c] = "body"] /\ mu = None /\ mu' = c
      /\ UNCHANGED <<dirs, seq, wants, holds, req, local, seen, result>>
  BY <1>1 DEF TakeMu, Took, Goto
<1>3. \A b \in Calls : NeedsKey(b)' = NeedsKey(b) /\ NLocks(b)' = NLocks(b)
  BY <1>2 DEF NeedsKey, NLocks
<1>4. /\ pc'[c] = "body" /\ taken'[c] = NLocks(c)
      /\ \A b \in Calls : b # c => pc'[b] = pc[b] /\ taken'[b] = taken[b]
  BY <1>2 DEF TypeOK
<1>5. LocksInv'
  <2>1. PcInv'
    BY <1>1, <1>2, <1>3, <1>4 DEF LocksInv, PcInv
  <2>2. MuInv'
    BY <1>1, <1>2, <1>3, <1>4, AclConstants DEF LocksInv, MuInv
  <2>3. wants[c] = None
    <3>1. CASE taken[c] = 0
      BY <1>1, <3>1 DEF LocksInv, KeyInv
    <3>2. CASE taken[c] # 0
      BY <3>2 DEF LocksInv, KeyInv
    <3>. QED  BY <3>1, <3>2
  <2>4. KeyInv'
    BY <1>1, <1>2, <1>3, <1>4, <2>3 DEF LocksInv, KeyInv
  <2>. QED  BY <2>1, <2>2, <2>4 DEF LocksInv
<1>6. TypeOK'
  <2>1. taken' \in [Calls -> 0 .. 2]
    BY <1>1, <1>2 DEF TypeOK
  <2>2. mu' \in Calls \cup {None} /\ pc' \in [Calls -> {"idle", "empty", "lock", "body", "append", "assign", "unlock"}]
    BY <1>2 DEF TypeOK
  <2>. QED  BY <1>2, <1>5, <2>1, <2>2 DEF TypeOK
<1>. QED  BY <1>1, <1>2, <1>5, <1>6, LocksKeepData

LEMMA UnlockStep == ASSUME IInv, NEW c \in Calls, Unlock(c) PROVE IInv'
<1>. USE DEF IInv
<1>1. /\ NLocks(c) \in 1 .. 2 /\ (NLocks(c) = 2 <=> NeedsKey(c)) /\ taken[c] \in 1 .. NLocks(c)
      /\ Locks(req[c].op)[NLocks(c)] = "mu" /\ (NeedsKey(c) => Locks(req[c].op)[1] = "key")
      /\ pc[c] = "unlock"
  BY LockFacts DEF LocksInv, Unlock, PcInv
<1>2. taken' = [taken EXCEPT ![c] = taken[c] - 1] /\ UNCHANGED <<dirs, seq, pc, req, local, seen, result>>
  BY DEF Unlock
<1>3. \A b \in Calls : NeedsKey(b)' = NeedsKey(b) /\ NLocks(b)' = NLocks(b)
  BY <1>2 DEF NeedsKey, NLocks
<1>4. taken'[c] = taken[c] - 1 /\ (\A b \in Calls : b # c => taken'[b] = taken[b])
          /\ taken' \in [Calls -> 0 .. 2]
  BY <1>1, <1>2 DEF TypeOK
<1>5. PcInv'
  BY <1>1, <1>2, <1>3, <1>4 DEF LocksInv, PcInv
<1>6. wants[c] = None
  BY <1>1 DEF LocksInv, KeyInv
<1>7. CASE taken[c] = NLocks(c)
  <2>1. mu' = None /\ UNCHANGED <<wants, holds>> /\ mu = c
    BY <1>1, <1>7 DEF Unlock, LocksInv, MuInv
  <2>2. MuInv'
    BY <1>1, <1>2, <1>3, <1>4, <1>7, <2>1, AclConstants DEF LocksInv, MuInv
  <2>3. KeyInv'
    BY <1>1, <1>2, <1>3, <1>4, <1>6, <1>7, <2>1 DEF LocksInv, KeyInv
  <2>4. LocksInv'
    BY <1>5, <2>2, <2>3 DEF LocksInv
  <2>5. mu' \in Calls \cup {None} /\ wants' \in [Calls -> Identities \cup {None}]
            /\ holds' \in [Calls -> Identities \cup {None}]
    BY <2>1 DEF TypeOK
  <2>6. \A b \in Calls : pc'[b] = "idle" => /\ taken'[b] = 0 /\ mu' # b
                                            /\ wants'[b] = None /\ holds'[b] = None
    BY <2>4 DEF LocksInv, PcInv, MuInv, KeyInv
  <2>7. TypeOK'
    BY <1>2, <1>4, <2>5, <2>6 DEF TypeOK
  <2>. QED  BY <1>2, <2>4, <2>7, LocksKeepData
<1>8. CASE taken[c] # NLocks(c)
  <2>1. taken[c] = 1 /\ NeedsKey(c) /\ NLocks(c) = 2
    BY <1>1, <1>8
  <2>2. UNCHANGED <<mu, wants>> /\ holds' = [holds EXCEPT ![c] = None]
    BY <1>1, <2>1 DEF Unlock, KL!Release
  <2>3. holds'[c] = None /\ \A b \in Calls : b # c => holds'[b] = holds[b]
    BY <2>2 DEF TypeOK
  <2>4. MuInv'
    BY <1>1, <1>2, <1>3, <1>4, <2>1, <2>2 DEF LocksInv, MuInv
  <2>5. KeyInv'
    BY <1>2, <1>3, <1>4, <1>6, <2>1, <2>2, <2>3 DEF LocksInv, KeyInv
  <2>6. LocksInv'
    BY <1>5, <2>4, <2>5 DEF LocksInv
  <2>7. holds' \in [Calls -> Identities \cup {None}]
    BY <2>2 DEF TypeOK
  <2>8. TypeOK'
    BY <1>2, <1>4, <2>2, <2>6, <2>7 DEF TypeOK
  <2>. QED  BY <1>2, <2>6, <2>8, LocksKeepData
<1>. QED  BY <1>7, <1>8
-----------------------------------------------------------------------------
(* Entries: storing one as explicit keeps its canonical key. *)
LEMMA StoredFacts ==
    ASSUME NEW a \in Stored
    PROVE  /\ Appended(a) \in Stored /\ ~Appended(a).inherited
           /\ CanonicalACEKey(Appended(a)) = CanonicalACEKey(a) /\ CanonicalACEKey(a) \in Keys
<1>1. PICK b \in ACEs : a = b \/ a = Appended(b)
  BY DEF Stored, Appended
<1>2. b \in [subject : DOMAIN Lower, rights : Seq(DOMAIN Lower), inherited : BOOLEAN]
  BY AclConstants
<1>. DEFINE rights == Seq(DOMAIN Lower)
<1>3. /\ Appended(b).subject = b.subject /\ Appended(b).rights = b.rights /\ Appended(b).inherited = FALSE
      /\ Appended(Appended(b)) = Appended(b)
  <2>1. b \in [subject : DOMAIN Lower, rights : rights, inherited : BOOLEAN]
    BY <1>2
  <2>. HIDE DEF rights
  <2>. QED  BY <2>1 DEF Appended
<1>. HIDE DEF rights
<1>4. Appended(a) = Appended(b) /\ a.subject = b.subject /\ a.rights = b.rights
  BY <1>1, <1>3
<1>5. Appended(a) \in Stored /\ ~Appended(a).inherited
  BY <1>3, <1>4 DEF Stored, Appended
<1>6. Appended(a).subject = b.subject /\ Appended(a).rights = b.rights
  BY <1>3, <1>4
<1>7. CanonicalACEKey(Appended(a)) = CanonicalACEKey(b) /\ CanonicalACEKey(a) = CanonicalACEKey(b)
  BY <1>4, <1>6 DEF CanonicalACEKey
<1>. QED  BY <1>5, <1>7 DEF Keys

LEMMA KeysOfFacts ==
    ASSUME NEW list \in Seq(Stored)
    PROVE  /\ KeysOf(list) \subseteq Keys
           /\ list # <<>> => KeysOf(list) # {}
           /\ list = <<>> => KeysOf(list) = {}
<1>1. \A i \in DOMAIN list : list[i] \in Stored
  OBVIOUS
<1>2. KeysOf(list) \subseteq Keys
  BY <1>1, StoredFacts DEF KeysOf
<1>3. list # <<>> => 1 \in DOMAIN list
  OBVIOUS
<1>. QED  BY <1>2, <1>3 DEF KeysOf

LEMMA KeysOfTail ==
    ASSUME NEW list \in Seq(Stored), list # <<>>
    PROVE  /\ Head(list) \in Stored /\ Tail(list) \in Seq(Stored)
           /\ KeysOf(list) = {CanonicalACEKey(Head(list))} \cup KeysOf(Tail(list))
<1>1. Head(list) \in Stored /\ Tail(list) \in Seq(Stored) /\ Head(list) = list[1]
      /\ Len(list) \in Nat \ {0} /\ DOMAIN list = 1 .. Len(list)
      /\ DOMAIN Tail(list) = 1 .. Len(list) - 1
      /\ \A i \in 1 .. Len(list) - 1 : Tail(list)[i] = list[i + 1]
  BY HeadTailProperties
<1>2. \A i \in DOMAIN list : i = 1 \/ (i - 1 \in DOMAIN Tail(list) /\ list[i] = Tail(list)[i - 1])
  BY <1>1
<1>3. \A i \in DOMAIN Tail(list) : i + 1 \in DOMAIN list /\ list[i + 1] = Tail(list)[i]
  BY <1>1
<1>4. 1 \in DOMAIN list
  BY <1>1
<1>5. ASSUME NEW k \in KeysOf(list) PROVE k \in {CanonicalACEKey(Head(list))} \cup KeysOf(Tail(list))
  <2>1. PICK i \in DOMAIN list : k = CanonicalACEKey(list[i])
    BY DEF KeysOf
  <2>2. CASE i = 1
    BY <1>1, <2>1, <2>2
  <2>3. CASE i # 1
    BY <1>2, <2>1, <2>3 DEF KeysOf
  <2>. QED  BY <2>2, <2>3
<1>6. ASSUME NEW k \in KeysOf(Tail(list)) PROVE k \in KeysOf(list)
  BY <1>3 DEF KeysOf
<1>7. CanonicalACEKey(Head(list)) \in KeysOf(list)
  BY <1>1, <1>4 DEF KeysOf
<1>. QED  BY <1>1, <1>5, <1>6, <1>7

LEMMA KeysOfAppend ==
    ASSUME NEW list \in Seq(Stored), NEW a \in Stored
    PROVE  /\ Append(list, a) \in Seq(Stored)
           /\ KeysOf(Append(list, a)) = KeysOf(list) \cup {CanonicalACEKey(a)}
           /\ Explicit(list) /\ ~a.inherited /\ CanonicalACEKey(a) \notin KeysOf(list)
                 => Explicit(Append(list, a))
<1>. DEFINE l == Append(list, a)
<1>1. /\ l \in Seq(Stored) /\ DOMAIN list = 1 .. Len(list) /\ DOMAIN l = 1 .. Len(list) + 1
      /\ Len(list) \in Nat /\ l[Len(list) + 1] = a /\ \A i \in 1 .. Len(list) : l[i] = list[i]
  BY AppendProperties
<1>. HIDE DEF l
<1>2. /\ DOMAIN l = DOMAIN list \cup {Len(list) + 1} /\ Len(list) + 1 \notin DOMAIN list
      /\ \A i \in DOMAIN list : l[i] = list[i]
  BY <1>1
<1>3. KeysOf(l) = KeysOf(list) \cup {CanonicalACEKey(a)}
  BY <1>1, <1>2 DEF KeysOf
<1>4. ASSUME Explicit(list), ~a.inherited, CanonicalACEKey(a) \notin KeysOf(list) PROVE Explicit(l)
  <2>1. \A i \in DOMAIN list : CanonicalACEKey(list[i]) # CanonicalACEKey(a)
    BY <1>4 DEF KeysOf
  <2>. QED  BY <1>1, <1>2, <1>4, <2>1 DEF Explicit
<1>. QED  BY <1>1, <1>3, <1>4 DEF l

(* A loop over a list that appends the entries that stay is a function of  *)
(* the number of entries it has seen.                                      *)
IsAppendLoop(f, list, stays, nil) ==
    f = [n \in Nat |-> IF n = 0 THEN nil
                       ELSE IF n \in stays THEN Append(f[n - 1], list[n]) ELSE f[n - 1]]

LEMMA AppendLoop ==
    ASSUME NEW S, NEW list, NEW stays, NEW nil \in S,
           \A n \in Nat, v \in S : n \in stays => Append(v, list[n]) \in S
    PROVE  \E f : IsAppendLoop(f, list, stays, nil)
<1>. DEFINE step(n, v) == IF n \in stays THEN Append(v, list[n]) ELSE v
            G == [n \in Nat |-> [v \in S |-> step(n, v)]]
<1>1. \A n \in Nat, v \in S : step(n, v) \in S
  OBVIOUS
<1>2. G \in [Nat -> [S -> S]] /\ \A n \in Nat, v \in S : G[n][v] = step(n, v)
  <2>. HIDE DEF step
  <2>. QED  BY <1>1
<1>0. PICK f : Recursion(f, S, nil, G)
  <2>. HIDE DEF G
  <2>. QED  BY <1>2, RecursiveFunction
<1>3. f \in [Nat -> S] /\ \A n \in Nat : f[n] = IF n = 0 THEN nil ELSE G[n][f[n - 1]]
  <2>. HIDE DEF G
  <2>. QED  BY <1>0 DEF Recursion
<1>4. \A n \in Nat : f[n] = IF n = 0 THEN nil ELSE step(n, f[n - 1])
  <2>. HIDE DEF step, G
  <2>1. \A n \in Nat : n # 0 => n - 1 \in Nat /\ f[n - 1] \in S
    BY <1>3
  <2>. QED  BY <1>2, <1>3, <2>1
<1>5. f = [n \in Nat |-> IF n = 0 THEN nil ELSE step(n, f[n - 1])]
  <2>. HIDE DEF step
  <2>. QED  BY <1>3, <1>4
<1>. QED  BY <1>5 DEF IsAppendLoop

(* What a Revoke keeps of a list without duplicates or inherited entries:  *)
(* the entries of other keys, and again without duplicates.                *)
LEMMA KeptFacts ==
    ASSUME NEW dacl \in Seq(Stored), Explicit(dacl), NEW keys
    PROVE  /\ Kept(dacl, keys) \in Seq(Stored) /\ Explicit(Kept(dacl, keys))
           /\ KeysOf(Kept(dacl, keys)) = KeysOf(dacl) \ keys
<1>. DEFINE S == Seq(Stored)
            stays == {n \in DOMAIN dacl : dacl[n].inherited \/ CanonicalACEKey(dacl[n]) \notin keys}
<1>1. <<>> \in S /\ \A n \in Nat, v \in S : n \in stays => Append(v, dacl[n]) \in S
  <2>1. \A n \in DOMAIN dacl : dacl[n] \in Stored
    OBVIOUS
  <2>. QED  BY <2>1, AppendProperties
<1>2. PICK nil : nil = <<>>
  OBVIOUS
<1>3. PICK f : IsAppendLoop(f, dacl, stays, nil)
  <2>. HIDE DEF S, stays
  <2>. QED  BY <1>1, <1>2, AppendLoop
<1>4. PICK k : /\ k = [n \in Nat |-> IF n = 0 THEN <<>> ELSE IF n \in stays THEN Append(k[n - 1], dacl[n]) ELSE k[n - 1]]
               /\ Kept(dacl, keys) = k[Len(dacl)]
  BY <1>2, <1>3 DEF Kept, IsAppendLoop
<1>5. \A n \in Nat : k[n] = IF n = 0 THEN <<>> ELSE IF n \in stays THEN Append(k[n - 1], dacl[n]) ELSE k[n - 1]
  <2>. HIDE DEF stays
  <2>. QED  BY <1>4
<1>. DEFINE keysTo(n) == {CanonicalACEKey(dacl[i]) : i \in {i \in DOMAIN dacl : i <= n}}
            Good(n) == k[n] \in Seq(Stored) /\ Explicit(k[n]) /\ KeysOf(k[n]) = keysTo(n) \ keys
            T == {n \in Nat : Good(n)}
<1>6. Good(0)
  <2>1. k[0] = <<>>
    BY <1>5
  <2>2. keysTo(0) = {}
    OBVIOUS
  <2>. QED  BY <2>1, <2>2 DEF KeysOf, Explicit
<1>7. ASSUME NEW n \in Nat, Good(n) PROVE Good(n + 1)
  <2>1. k[n + 1] = IF n + 1 \in stays THEN Append(k[n], dacl[n + 1]) ELSE k[n]
    <3>. HIDE DEF stays
    <3>1. n + 1 \in Nat /\ n + 1 # 0 /\ (n + 1) - 1 = n
      OBVIOUS
    <3>. QED  BY <1>5, <3>1
  <2>2. CASE n + 1 \notin DOMAIN dacl
    <3>1. {i \in DOMAIN dacl : i <= n + 1} = {i \in DOMAIN dacl : i <= n}
      BY <2>2
    <3>2. keysTo(n + 1) = keysTo(n)
      BY <3>1
    <3>. HIDE DEF keysTo
    <3>. QED  BY <1>7, <2>1, <2>2, <3>2
  <2>3. CASE n + 1 \in DOMAIN dacl
    <3>. DEFINE a == dacl[n + 1]
    <3>1. a \in Stored /\ ~a.inherited
      BY <2>3 DEF Explicit
    <3>2. keysTo(n + 1) = keysTo(n) \cup {CanonicalACEKey(a)}
      <4>1. \A i \in DOMAIN dacl : i <= n + 1 <=> i <= n \/ i = n + 1
        OBVIOUS
      <4>2. {i \in DOMAIN dacl : i <= n + 1} = {i \in DOMAIN dacl : i <= n} \cup {n + 1}
        BY <2>3, <4>1
      <4>. QED  BY <4>2
    <3>3. CanonicalACEKey(a) \notin keysTo(n)
      BY <2>3 DEF Explicit
    <3>4. k[n + 1] = IF CanonicalACEKey(a) \notin keys THEN Append(k[n], a) ELSE k[n]
      BY <2>1, <2>3, <3>1
    <3>. HIDE DEF keysTo, a
    <3>5. CASE CanonicalACEKey(a) \in keys
      BY <1>7, <3>2, <3>4, <3>5
    <3>6. CASE CanonicalACEKey(a) \notin keys
      <4>1. KeysOf(k[n]) = keysTo(n) \ keys /\ k[n] \in Seq(Stored) /\ Explicit(k[n])
        BY <1>7
      <4>2. CanonicalACEKey(a) \notin KeysOf(k[n])
        BY <3>3, <4>1
      <4>. DEFINE l == k[n]
      <4>3. /\ Append(l, a) \in Seq(Stored) /\ Explicit(Append(l, a))
            /\ KeysOf(Append(l, a)) = KeysOf(l) \cup {CanonicalACEKey(a)}
        <5>. HIDE DEF l
        <5>1. l \in Seq(Stored) /\ Explicit(l) /\ CanonicalACEKey(a) \notin KeysOf(l)
          BY <4>1, <4>2 DEF l
        <5>. QED  BY <3>1, <5>1, KeysOfAppend
      <4>4. k[n + 1] = Append(l, a)
        BY <3>4, <3>6
      <4>5. KeysOf(l) \cup {CanonicalACEKey(a)} = keysTo(n + 1) \ keys
        BY <3>2, <3>6, <4>1
      <4>. QED  BY <4>3, <4>4, <4>5
    <3>. QED  BY <3>5, <3>6
  <2>. QED  BY <2>2, <2>3
<1>8. T = Nat
  <2>. HIDE DEF Good
  <2>1. 0 \in T /\ \A n \in T : n + 1 \in T
    BY <1>6, <1>7
  <2>2. T \in SUBSET Nat
    OBVIOUS
  <2>. HIDE DEF T
  <2>. QED  BY <2>1, <2>2, NatSetInduction
<1>9. Len(dacl) \in Nat /\ keysTo(Len(dacl)) = KeysOf(dacl)
  BY DEF KeysOf
<1>. QED  BY <1>4, <1>8, <1>9
-----------------------------------------------------------------------------
LEMMA InitInv == Init => IInv
<1>. SUFFICES ASSUME Init PROVE IInv
  OBVIOUS
<1>. USE DEF Init, KL!Init
<1>1. /\ DOMAIN dirs = {} /\ seq = 0 /\ mu = None
      /\ \A c \in Calls : /\ pc[c] = "idle" /\ taken[c] = 0 /\ req[c] = None /\ wants[c] = None
                           /\ holds[c] = None /\ result[c] = Pending
  OBVIOUS
<1>2. TypeOK
  <2>1. Pending \in Results /\ <<>> \in Seq(Stored) /\ 0 \in 0 .. MaxSeq
    BY AclConstants DEF Pending, Result, Results
  <2>2. /\ wants \in [Calls -> Identities \cup {None}] /\ holds \in [Calls -> Identities \cup {None}]
        /\ taken \in [Calls -> 0 .. 2] /\ req \in [Calls -> Requests \cup {None}]
        /\ pc \in [Calls -> {"idle", "empty", "lock", "body", "append", "assign", "unlock"}]
    OBVIOUS
  <2>3. local \in [Calls -> Seq(Stored)] /\ seen \in [Calls -> SUBSET Keys] /\ result \in [Calls -> Results]
    BY <2>1
  <2>. QED  BY <1>1, <2>1, <2>2, <2>3, AclConstants DEF TypeOK
<1>3. LocksInv
  BY <1>1, AclConstants DEF LocksInv, PcInv, MuInv, KeyInv
<1>4. OpInv /\ AppendInv /\ AssignInv /\ DirsInv
  BY <1>1 DEF OpInv, AppendInv, AssignInv, DirsInv
<1>5. BudgetInv
  <2>1. Creating = {}
    BY <1>1 DEF Creating
  <2>. QED  BY <1>1, <2>1, FS_EmptySet, AclConstants DEF BudgetInv
<1>. QED  BY <1>2, <1>3, <1>4, <1>5 DEF IInv, DataInv

LEMMA MaxSeqNat == MaxSeq \in Nat
BY AclConstants

(* There are finitely many creations under way. *)
LEMMA CreatingFinite == IsFiniteSet(Creating) /\ Cardinality(Creating) \in Nat
<1>1. Creating \in SUBSET Calls
  BY DEF Creating
<1>. QED  BY <1>1, AclConstants, FS_Subset, FS_CardinalityType

(* A call is done with the objects and has its result; but for a call with *)
(* an empty list it has held store.mu, so that no other one is at work.    *)
LEMMA FinishStep ==
    ASSUME IInv, NEW c \in Calls, pc[c] \in {"empty", "body", "append", "assign"},
           NEW outcome \in {"ok", "notFound", "exists"}, NEW keys \in SUBSET Keys,
           Finish(c, outcome, keys), UNCHANGED <<wants, holds, mu, taken, req>>,
           pc[c] = "empty" => UNCHANGED dirs,
           DirsType', DirsInv',
           seq' = seq \/ (seq' = seq + 1 /\ pc[c] = "body" /\ req[c].op = "create")
    PROVE  IInv'
<1>. USE DEF IInv, DataInv
<1>1. /\ pc' = [pc EXCEPT ![c] = "unlock"] /\ result' = [result EXCEPT ![c] = Result(outcome, keys)]
      /\ local' = [local EXCEPT ![c] = <<>>] /\ seen' = [seen EXCEPT ![c] = {}]
  BY DEF Finish, Goto
<1>2. /\ pc'[c] = "unlock" /\ result'[c] = Result(outcome, keys)
      /\ \A b \in Calls : b # c => /\ pc'[b] = pc[b] /\ result'[b] = result[b]
                                   /\ local'[b] = local[b] /\ seen'[b] = seen[b]
  BY <1>1 DEF TypeOK
<1>3. Result(outcome, keys) # Pending /\ Result(outcome, keys) \in Results
  BY DEF Result, Pending, Results
<1>4. LocksInv'
  <2>1. pc' = [pc EXCEPT ![c] = pc'[c]]
    BY <1>1, <1>2
  <2>. QED  BY <1>2, <2>1, BodyKeepsLocks
<1>5. OpInv'
  BY <1>2, <1>3 DEF OpInv
<1>6. BudgetInv' /\ seq' \in 0 .. MaxSeq
  <2>1. Creating' = Creating \ {c}
    BY <1>2 DEF Creating
  <2>2. /\ IsFiniteSet(Creating) /\ Cardinality(Creating) \in Nat
        /\ Cardinality(Creating \ {c}) = IF c \in Creating THEN Cardinality(Creating) - 1
                                         ELSE Cardinality(Creating)
    BY CreatingFinite, FS_RemoveElement
  <2>3. seq \in Nat /\ MaxSeq \in Nat
    <3>1. seq \in 0 .. MaxSeq
      BY DEF TypeOK
    <3>. QED  BY ONLY <3>1, MaxSeqNat
  <2>4. seq + Cardinality(Creating) <= MaxSeq
    BY DEF BudgetInv
  <2>5. seq' = seq \/ (seq' = seq + 1 /\ c \in Creating)
    BY DEF Creating
  <2>6. Cardinality(Creating \ {c}) \in Nat
    BY <2>2, FS_RemoveElement, FS_CardinalityType
  <2>. DEFINE m == Cardinality(Creating)
              n == Cardinality(Creating \ {c})
  <2>7. seq' + n <= MaxSeq /\ seq' \in 0 .. MaxSeq
    <3>1. m \in Nat /\ n \in Nat /\ seq + m <= MaxSeq /\ n = IF c \in Creating THEN m - 1 ELSE m
      BY <2>2, <2>4, <2>6
    <3>. HIDE DEF m, n
    <3>2. seq' + n <= MaxSeq /\ seq' \in Nat
      BY <2>3, <2>5, <3>1
    <3>3. \A a, b, x \in Nat : a + b <= x => a <= x
      OBVIOUS
    <3>4. seq' <= MaxSeq
      BY <2>3, <3>1, <3>2, <3>3
    <3>. QED  BY <2>3, <3>2, <3>4
  <2>. QED  BY <2>1, <2>7 DEF BudgetInv
<1>7. AppendInv' /\ AssignInv'
  <2>1. CASE pc[c] = "empty"
    <3>1. \A id : Found(id)' = Found(id)
      BY <2>1 DEF Found
    <3>. QED  BY <1>2, <2>1, <3>1 DEF AppendInv, AssignInv
  <2>2. CASE pc[c] # "empty"
    <3>1. \A b \in Calls : pc'[b] \notin {"append", "assign"}
      BY <1>2, <2>2, OneAtWork
    <3>. QED  BY <3>1 DEF AppendInv, AssignInv
  <2>. QED  BY <2>1, <2>2
<1>8. TypeOK'
  <2>1. local' \in [Calls -> Seq(Stored)] /\ seen' \in [Calls -> SUBSET Keys]
            /\ result' \in [Calls -> Results]
    BY <1>1, <1>3, EmptySeq DEF TypeOK
  <2>2. pc' \in [Calls -> {"idle", "empty", "lock", "body", "append", "assign", "unlock"}]
    BY <1>1 DEF TypeOK
  <2>3. \A b \in Calls : pc'[b] = "idle" => /\ taken'[b] = 0 /\ mu' # b
                                            /\ wants'[b] = None /\ holds'[b] = None
    BY <1>4 DEF LocksInv, PcInv, MuInv, KeyInv
  <2>. QED  BY <1>6, <2>1, <2>2, <2>3 DEF TypeOK, DirsType
<1>. QED  BY <1>4, <1>5, <1>6, <1>7, <1>8

(* A read, a call without effect, and the end of a Grant leave the objects *)
(* as they are.                                                            *)
LEMMA FinishKeepsDirs ==
    ASSUME IInv, NEW c \in Calls, pc[c] \in {"empty", "body", "append", "assign"},
           NEW outcome \in {"ok", "notFound", "exists"}, NEW keys \in SUBSET Keys,
           Finish(c, outcome, keys), UNCHANGED <<dirs, seq, wants, holds, mu, taken, req>>
    PROVE  IInv'
<1>1. DirsInv'
  BY DEF IInv, DataInv, DirsInv
<1>2. DirsType'
  BY DEF IInv, TypeOK, DirsType
<1>3. UNCHANGED <<wants, holds, mu, taken, req>> /\ dirs' = dirs /\ seq' = seq
  OBVIOUS
<1>. QED  BY <1>1, <1>2, <1>3, FinishStep

LEMMA ReadSteps ==
    ASSUME IInv, NEW c \in Calls, Nothing(c) \/ NotFound(c) \/ Get(c) \/ GrantEnds(c)
    PROVE  IInv'
<1>1. CASE Nothing(c)
  BY <1>1, FinishKeepsDirs DEF Nothing
<1>2. CASE NotFound(c)
  <2>1. Finish(c, "notFound", {}) /\ pc[c] = "body" /\ UNCHANGED <<dirs, seq, wants, holds, mu, taken, req>>
    BY <1>2 DEF NotFound, InBody
  <2>. QED  BY <2>1, FinishKeepsDirs
<1>3. CASE Get(c)
  <2>1. PICK d \in Found(req[c].id) : Finish(c, "ok", KeysOf(dirs[d].dacl))
    BY <1>3 DEF Get
  <2>2. KeysOf(dirs[d].dacl) \in SUBSET Keys
    BY KeysOfFacts DEF IInv, TypeOK, Found
  <2>3. pc[c] = "body" /\ UNCHANGED <<dirs, seq, wants, holds, mu, taken, req>>
    BY <1>3 DEF Get, InBody
  <2>. QED  BY <2>1, <2>2, <2>3, FinishKeepsDirs
<1>4. CASE GrantEnds(c)
  BY <1>4, FinishKeepsDirs DEF GrantEnds
<1>. QED  BY <1>1, <1>2, <1>3, <1>4
-----------------------------------------------------------------------------
(* The lists of requests are lists of entries. *)
LEMMA RequestLists ==
    ASSUME NEW r \in Requests
    PROVE  /\ r.list \in Seq(Stored) /\ r.id \in Identities /\ r # None
           /\ r.op \in {"grant", "revoke", "get", "delete", "create"}
           /\ r.op = "create" => r.id.form = "dn" /\ r.id.arg \in DNs
           /\ r.op \notin {"grant", "revoke"} => r.list = <<>>
<1>1. CASE r \in [op : {"grant", "revoke"}, id : Identities, list : Lists]
  <2>1. r.list \in Seq(ACEs) /\ ACEs \subseteq Stored
    BY <1>1, AclConstants DEF Stored
  <2>2. r.list \in Seq(Stored)
    BY <2>1, SeqMonotonic
  <2>3. r.op \in {"grant", "revoke"} /\ r.id \in Identities
    BY <1>1
  <2>. QED  BY <2>2, <2>3, AclConstants
<1>2. CASE r \in [op : {"get", "delete"}, id : Identities, list : {<<>>}]
  <2>1. r.op \in {"get", "delete"} /\ r.id \in Identities /\ r.list = <<>>
    BY <1>2
  <2>. QED  BY <2>1, EmptySeq, AclConstants
<1>3. CASE r \in [op : {"create"}, id : [form : {"dn"}, arg : DNs], list : {<<>>}]
  <2>1. r.op = "create" /\ r.id \in [form : {"dn"}, arg : DNs] /\ r.list = <<>>
    BY <1>3
  <2>. QED  BY <2>1, EmptySeq, AclConstants DEF Identities
<1>. QED  BY <1>1, <1>2, <1>3 DEF Requests

(* What a call that is not idle was asked for. *)
LEMMA RequestOf ==
    ASSUME TypeOK, PcInv, NEW c \in Calls, pc[c] # "idle"
    PROVE  req[c] \in Requests
BY DEF TypeOK, PcInv

(* An identity names one object at most. *)
LEMMA FoundOne ==
    ASSUME DirsInv, NEW id, NEW d \in Found(id), NEW e \in Found(id)
    PROVE  d = e
BY DEF DirsInv, Found

(* The objects an identity names get other lists of entries. *)
LEMMA SetDacl ==
    ASSUME TypeOK, DirsInv, seq' = seq, NEW id, NEW f,
           \A d \in Found(id) : f[d] \in Seq(Stored) /\ Explicit(f[d]),
           dirs' = [d \in DOMAIN dirs |-> IF d \in Found(id) THEN [dirs[d] EXCEPT !.dacl = f[d]] ELSE dirs[d]]
    PROVE  /\ DirsType' /\ DirsInv'
           /\ \A i : Found(i)' = Found(i)
           /\ DOMAIN dirs' = DOMAIN dirs
           /\ \A d \in DOMAIN dirs : /\ dirs'[d].guid = dirs[d].guid
                                     /\ dirs'[d].dacl = IF d \in Found(id) THEN f[d] ELSE dirs[d].dacl
<1>1. DOMAIN dirs' = DOMAIN dirs /\ DOMAIN dirs \subseteq DNs
  BY DEF TypeOK
<1>2. ASSUME NEW d \in DOMAIN dirs
      PROVE  /\ dirs'[d].guid = dirs[d].guid
             /\ dirs'[d].dacl = IF d \in Found(id) THEN f[d] ELSE dirs[d].dacl
             /\ dirs'[d] \in [guid : Guids, dacl : Seq(Stored)]
  <2>. DEFINE lists == Seq(Stored)
  <2>1. dirs[d] \in [guid : Guids, dacl : lists]
    BY DEF TypeOK
  <2>2. d \in Found(id) => f[d] \in lists
    OBVIOUS
  <2>. HIDE DEF lists
  <2>3. CASE d \in Found(id)
    <3>1. dirs'[d] = [dirs[d] EXCEPT !.dacl = f[d]]
      BY <2>3
    <3>2. dirs'[d] \in [guid : Guids, dacl : lists] /\ dirs'[d].guid = dirs[d].guid /\ dirs'[d].dacl = f[d]
      BY <2>1, <2>2, <2>3, <3>1
    <3>. QED  BY <2>3, <3>2 DEF lists
  <2>4. CASE d \notin Found(id)
    BY <2>1, <2>4 DEF lists
  <2>. QED  BY <2>3, <2>4
<1>3. DirsType'
  BY <1>1, <1>2 DEF DirsType
<1>4. \A i : Found(i)' = Found(i)
  BY <1>1, <1>2 DEF Found
<1>5. DirsInv'
  <2>1. \A d \in DOMAIN dirs : Explicit(dirs'[d].dacl)
    BY <1>2 DEF DirsInv
  <2>. QED  BY <1>1, <1>2, <2>1 DEF DirsInv
<1>. QED  BY <1>1, <1>2, <1>3, <1>4, <1>5

LEMMA AssignStep == ASSUME IInv, NEW c \in Calls, Assign(c) PROVE IInv'
<1>. DEFINE id == req[c].id
<1>1. PICK f : f = [d \in DOMAIN dirs |-> local[c]]
  OBVIOUS
<1>2. /\ pc[c] = "assign" /\ Finish(c, "ok", {}) /\ UNCHANGED <<seq, wants, holds, mu, taken, req>>
      /\ dirs' = [d \in DOMAIN dirs |-> IF d \in Found(id) THEN [dirs[d] EXCEPT !.dacl = f[d]] ELSE dirs[d]]
  BY <1>1 DEF Assign, Found
<1>3. \A d \in Found(id) : f[d] \in Seq(Stored) /\ Explicit(f[d])
  BY <1>1, <1>2 DEF IInv, DataInv, AssignInv, TypeOK, Found
<1>. HIDE DEF id
<1>4. DirsType' /\ DirsInv'
  BY <1>2, <1>3, SetDacl DEF IInv, DataInv
<1>. QED  BY <1>2, <1>4, FinishStep

LEMMA DeleteStep == ASSUME IInv, NEW c \in Calls, Delete(c) PROVE IInv'
<1>1. /\ pc[c] = "body" /\ Finish(c, "ok", {}) /\ UNCHANGED <<seq, wants, holds, mu, taken, req>>
      /\ DOMAIN dirs' \subseteq DOMAIN dirs /\ \A d \in DOMAIN dirs' : dirs'[d] = dirs[d]
  BY DEF Delete, InBody
<1>2. DirsType'
  BY <1>1 DEF DirsType, IInv, TypeOK
<1>3. DirsInv'
  BY <1>1 DEF DirsInv, IInv, DataInv
<1>. QED  BY <1>1, <1>2, <1>3, FinishStep

LEMMA CreateStep == ASSUME IInv, NEW c \in Calls, Create(c) PROVE IInv'
<1>. DEFINE d == req[c].id.arg
<1>1. pc[c] = "body" /\ req[c].op = "create" /\ UNCHANGED <<wants, holds, mu, taken, req>>
  BY DEF Create, InBody
<1>2. d \in DNs
  BY <1>1, RequestOf, RequestLists DEF IInv, LocksInv
<1>3. CASE d \in DOMAIN dirs
  <2>1. Finish(c, "exists", {}) /\ UNCHANGED <<dirs, seq, wants, holds, mu, taken, req>>
    BY <1>3, <1>1 DEF Create
  <2>. QED  BY <1>1, <2>1, FinishKeepsDirs
<1>4. CASE d \notin DOMAIN dirs
  <2>1. /\ Finish(c, "ok", {}) /\ seq' = seq + 1 /\ DOMAIN dirs' = DOMAIN dirs \cup {d}
        /\ dirs'[d] = [guid |-> seq + 1, dacl |-> <<>>]
        /\ \A e \in DOMAIN dirs : e # d /\ dirs'[e] = dirs[e]
    BY <1>4 DEF Create
  <2>2. seq \in Nat /\ seq + 1 \in 1 .. MaxSeq
    <3>1. c \in Creating
      BY <1>1 DEF Creating
    <3>2. Cardinality(Creating) # 0
      BY <3>1, CreatingFinite, FS_EmptySet
    <3>3. seq + Cardinality(Creating) <= MaxSeq
      BY DEF IInv, DataInv, BudgetInv
    <3>4. seq \in 0 .. MaxSeq
      BY DEF IInv, TypeOK
    <3>. QED  BY <3>2, <3>3, <3>4, CreatingFinite, MaxSeqNat
  <2>3. DirsType'
    <3>1. dirs'[d] \in [guid : Guids, dacl : Seq(Stored)]
      BY <2>1, <2>2, EmptySeq DEF Guids
    <3>. QED  BY <1>2, <2>1, <3>1 DEF DirsType, IInv, TypeOK
  <2>4. DirsInv'
    <3>1. Explicit(<<>>)
      BY DEF Explicit
    <3>2. 1 .. seq \subseteq 1 .. seq' /\ seq' \in 1 .. seq' /\ seq' \notin 1 .. seq
      BY <2>1, <2>2
    <3>. QED  BY <2>1, <3>1, <3>2 DEF DirsInv, IInv, DataInv
  <2>. QED  BY <1>1, <2>1, <2>3, <2>4, FinishStep
<1>. QED  BY <1>3, <1>4
-----------------------------------------------------------------------------
(* A Grant or a Revoke goes on in the body: the call stays the only one at *)
(* work.                                                                   *)
LEMMA GoOnInBody ==
    ASSUME IInv, NEW c \in Calls, pc[c] \in {"body", "append"}, UNCHANGED <<wants, holds, mu, taken, req, seq, result>>,
           pc' = [pc EXCEPT ![c] = pc'[c]],
           \/ pc'[c] = "append" /\ req[c].op = "grant"
           \/ pc'[c] = "assign" /\ req[c].op = "revoke",
           DirsType', DirsInv',
           local' \in [Calls -> Seq(Stored)], seen' \in [Calls -> SUBSET Keys],
           pc'[c] = "append" => /\ Found(req[c].id)' # {}
                                /\ \A d \in Found(req[c].id)' : seen'[c] = KeysOf(dirs'[d].dacl),
           pc'[c] = "assign" =>
               /\ Found(req[c].id)' # {} /\ Explicit(local'[c])
               /\ \A d \in Found(req[c].id)' :
                     KeysOf(local'[c]) = KeysOf(dirs'[d].dacl) \ KeysOf(req[c].list)
    PROVE  IInv'
<1>. USE DEF IInv, DataInv
<1>1. pc'[c] \in {"append", "assign"} /\ \A b \in Calls : b # c => pc'[b] = pc[b]
  BY DEF TypeOK
<1>2. LocksInv'
  BY <1>1, BodyKeepsLocks
<1>3. OpInv'
  BY <1>1 DEF OpInv
<1>4. BudgetInv'
  <2>1. Creating' = Creating
    BY <1>1 DEF Creating
  <2>. QED  BY <2>1 DEF BudgetInv
<1>5. \A b \in Calls : pc'[b] \in {"append", "assign"} => b = c
  BY <1>1, OneAtWork
<1>6. AppendInv' /\ AssignInv'
  BY <1>5 DEF AppendInv, AssignInv
<1>7. TypeOK'
  <2>1. pc' \in [Calls -> {"idle", "empty", "lock", "body", "append", "assign", "unlock"}]
    BY <1>1 DEF TypeOK
  <2>2. \A b \in Calls : pc'[b] = "idle" => /\ taken'[b] = 0 /\ mu' # b
                                            /\ wants'[b] = None /\ holds'[b] = None
    BY <1>2 DEF LocksInv, PcInv, MuInv, KeyInv
  <2>. QED  BY <2>1, <2>2 DEF TypeOK, DirsType
<1>. QED  BY <1>2, <1>3, <1>4, <1>6, <1>7

LEMMA GrantStep == ASSUME IInv, NEW c \in Calls, Grant(c) PROVE IInv'
<1>. DEFINE id == req[c].id
<1>1. PICK d \in Found(id) : seen' = [seen EXCEPT ![c] = KeysOf(dirs[d].dacl)]
  BY DEF Grant
<1>2. /\ pc[c] = "body" /\ req[c].op = "grant" /\ pc' = [pc EXCEPT ![c] = "append"]
      /\ local' = [local EXCEPT ![c] = req[c].list]
      /\ UNCHANGED <<dirs, seq, wants, holds, mu, taken, req, result>>
  BY DEF Grant, InBody, Goto
<1>3. req[c].list \in Seq(Stored)
  BY <1>2, RequestOf, RequestLists DEF IInv, LocksInv
<1>4. local' \in [Calls -> Seq(Stored)]
  BY <1>2, <1>3 DEF IInv, TypeOK
<1>5. d \in DOMAIN dirs /\ dirs[d].dacl \in Seq(Stored)
  BY DEF IInv, TypeOK, Found
<1>6. seen' \in [Calls -> SUBSET Keys] /\ seen'[c] = KeysOf(dirs[d].dacl)
  BY <1>1, <1>5, KeysOfFacts DEF IInv, TypeOK
<1>7. DirsType' /\ DirsInv'
  BY <1>2 DEF DirsType, DirsInv, IInv, DataInv, TypeOK
<1>8. \A i : Found(i)' = Found(i)
  BY <1>2 DEF Found
<1>9. \A e \in Found(id) : e = d
  BY FoundOne DEF IInv, DataInv
<1>10. pc' = [pc EXCEPT ![c] = pc'[c]] /\ pc'[c] = "append"
  BY <1>2 DEF IInv, TypeOK
<1>11. Found(req[c].id)' # {} /\ \A e \in Found(req[c].id)' : seen'[c] = KeysOf(dirs'[e].dacl)
  BY <1>2, <1>6, <1>8, <1>9
<1>. QED  BY <1>2, <1>4, <1>6, <1>7, <1>10, <1>11, GoOnInBody

LEMMA RevokeStep == ASSUME IInv, NEW c \in Calls, Revoke(c) PROVE IInv'
<1>. DEFINE id == req[c].id
            keys == KeysOf(req[c].list)
<1>1. PICK d \in Found(id) : local' = [local EXCEPT ![c] = Kept(dirs[d].dacl, keys)]
  BY DEF Revoke
<1>2. /\ pc[c] = "body" /\ req[c].op = "revoke" /\ pc' = [pc EXCEPT ![c] = "assign"]
      /\ UNCHANGED <<dirs, seq, wants, holds, mu, taken, req, seen, result>>
  BY DEF Revoke, InBody, Goto
<1>3. d \in DOMAIN dirs /\ dirs[d].dacl \in Seq(Stored) /\ Explicit(dirs[d].dacl)
  BY DEF IInv, DataInv, DirsInv, TypeOK, Found
<1>4. /\ Kept(dirs[d].dacl, keys) \in Seq(Stored) /\ Explicit(Kept(dirs[d].dacl, keys))
      /\ KeysOf(Kept(dirs[d].dacl, keys)) = KeysOf(dirs[d].dacl) \ keys
  BY <1>3, KeptFacts
<1>5. local' \in [Calls -> Seq(Stored)] /\ local'[c] = Kept(dirs[d].dacl, keys)
  BY <1>1, <1>4 DEF IInv, TypeOK
<1>6. seen' \in [Calls -> SUBSET Keys]
  BY <1>2 DEF IInv, TypeOK
<1>7. DirsType' /\ DirsInv'
  BY <1>2 DEF DirsType, DirsInv, IInv, DataInv, TypeOK
<1>8. \A i : Found(i)' = Found(i)
  BY <1>2 DEF Found
<1>9. \A e \in Found(id) : e = d
  BY FoundOne DEF IInv, DataInv
<1>10. pc' = [pc EXCEPT ![c] = pc'[c]] /\ pc'[c] = "assign"
  BY <1>2 DEF IInv, TypeOK
<1>11. /\ Found(req[c].id)' # {} /\ Explicit(local'[c])
       /\ \A e \in Found(req[c].id)' : KeysOf(local'[c]) = KeysOf(dirs'[e].dacl) \ KeysOf(req[c].list)
  BY <1>2, <1>4, <1>5, <1>8, <1>9
<1>. QED  BY <1>2, <1>5, <1>6, <1>7, <1>10, <1>11, GoOnInBody

(* What one entry of a Grant does to the keys of the object and to those   *)
(* the Grant remembers.                                                    *)
LEMMA AppendOne ==
    ASSUME IInv, NEW c \in Calls, AppendNext(c), NEW a, a = Head(local[c])
    PROVE  /\ a \in Stored /\ pc[c] = "append"
           /\ local' = [local EXCEPT ![c] = Tail(local[c])] /\ Tail(local[c]) \in Seq(Stored)
           /\ KeysOf(local[c]) = {CanonicalACEKey(a)} \cup KeysOf(Tail(local[c]))
           /\ seen' = [seen EXCEPT ![c] = seen[c] \cup {CanonicalACEKey(a)}]
           /\ DirsType' /\ DirsInv' /\ DOMAIN dirs' = DOMAIN dirs
           /\ \A i : Found(i)' = Found(i)
           /\ \A d \in DOMAIN dirs : dirs'[d].guid = dirs[d].guid
           /\ \A d \in Found(req[c].id) : KeysOf(dirs'[d].dacl) = KeysOf(dirs[d].dacl) \cup {CanonicalACEKey(a)}
           /\ \A d \in DOMAIN dirs \ Found(req[c].id) : dirs'[d].dacl = dirs[d].dacl
<1>. DEFINE id  == req[c].id
            key == CanonicalACEKey(a)
<1>1. local[c] \in Seq(Stored) /\ local[c] # <<>>
  BY DEF AppendNext, IInv, TypeOK
<1>2. a \in Stored /\ Tail(local[c]) \in Seq(Stored) /\ KeysOf(local[c]) = {key} \cup KeysOf(Tail(local[c]))
  BY <1>1, KeysOfTail
<1>3. /\ pc[c] = "append" /\ local' = [local EXCEPT ![c] = Tail(local[c])] /\ seq' = seq
      /\ seen' = [seen EXCEPT ![c] = seen[c] \cup {key}]
  BY DEF AppendNext, NowSeen
<1>4. \A d \in Found(id) : d \in DOMAIN dirs /\ seen[c] = KeysOf(dirs[d].dacl)
  BY <1>3 DEF IInv, DataInv, AppendInv, Found
<1>5. CASE key \in seen[c]
  <2>1. dirs' = dirs
    BY <1>5 DEF AppendNext
  <2>2. DirsType' /\ DirsInv' /\ \A i : Found(i)' = Found(i)
    BY <1>3, <2>1 DEF DirsType, DirsInv, IInv, DataInv, TypeOK, Found
  <2>. QED  BY <1>2, <1>3, <1>4, <1>5, <2>1, <2>2
<1>6. CASE key \notin seen[c]
  <2>1. PICK f : f = [d \in DOMAIN dirs |-> Append(dirs[d].dacl, Appended(a))]
    OBVIOUS
  <2>2. dirs' = [d \in DOMAIN dirs |-> IF d \in Found(id) THEN [dirs[d] EXCEPT !.dacl = f[d]] ELSE dirs[d]]
    <3>1. dirs' = [d \in DOMAIN dirs |-> IF d \in Found(id)
                       THEN [dirs[d] EXCEPT !.dacl = Append(dirs[d].dacl, Appended(a))] ELSE dirs[d]]
      BY <1>6 DEF AppendNext
    <3>. QED  BY <2>1, <3>1
  <2>3. Appended(a) \in Stored /\ ~Appended(a).inherited /\ CanonicalACEKey(Appended(a)) = key
    BY <1>2, StoredFacts
  <2>4. ASSUME NEW d \in Found(id)
        PROVE  /\ f[d] \in Seq(Stored) /\ Explicit(f[d])
               /\ KeysOf(f[d]) = KeysOf(dirs[d].dacl) \cup {key}
    <3>1. d \in DOMAIN dirs /\ dirs[d].dacl \in Seq(Stored) /\ Explicit(dirs[d].dacl)
          /\ key \notin KeysOf(dirs[d].dacl)
      BY <1>4, <1>6 DEF IInv, DataInv, DirsInv, TypeOK
    <3>2. f[d] = Append(dirs[d].dacl, Appended(a))
      BY <2>1, <3>1
    <3>. QED  BY <2>3, <3>1, <3>2, KeysOfAppend
  <2>. HIDE DEF id
  <2>5. /\ DirsType' /\ DirsInv' /\ \A i : Found(i)' = Found(i)
        /\ DOMAIN dirs' = DOMAIN dirs
        /\ \A d \in DOMAIN dirs : /\ dirs'[d].guid = dirs[d].guid
                                  /\ dirs'[d].dacl = IF d \in Found(id) THEN f[d] ELSE dirs[d].dacl
    BY <1>3, <2>2, <2>4, SetDacl DEF IInv, DataInv
  <2>. USE DEF id
  <2>. QED  BY <1>2, <1>3, <1>4, <2>4, <2>5
<1>. QED  BY <1>5, <1>6

LEMMA AppendNextStep == ASSUME IInv, NEW c \in Calls, AppendNext(c) PROVE IInv'
<1>1. PICK a : a = Head(local[c])
  OBVIOUS
<1>2. UNCHANGED <<seq, wants, holds, mu, pc, taken, req, result>>
  BY DEF AppendNext
<1>3. req[c].op = "grant" /\ pc' = [pc EXCEPT ![c] = pc'[c]] /\ pc'[c] = "append"
  BY <1>1, <1>2, AppendOne DEF IInv, DataInv, OpInv, TypeOK
<1>4. CanonicalACEKey(a) \in Keys
  BY <1>1, AppendOne, StoredFacts
<1>5. seen' \in [Calls -> SUBSET Keys] /\ seen'[c] = seen[c] \cup {CanonicalACEKey(a)}
  <2>1. seen' = [seen EXCEPT ![c] = seen[c] \cup {CanonicalACEKey(a)}]
    BY <1>1, AppendOne
  <2>. QED  BY <1>4, <2>1 DEF IInv, TypeOK
<1>6. local' \in [Calls -> Seq(Stored)]
  <2>1. local' = [local EXCEPT ![c] = Tail(local[c])] /\ Tail(local[c]) \in Seq(Stored)
    BY <1>1, AppendOne
  <2>. DEFINE rest == Tail(local[c])
              lists == Seq(Stored)
  <2>2. local \in [Calls -> lists] /\ rest \in lists /\ local' = [local EXCEPT ![c] = rest]
    BY <2>1 DEF IInv, TypeOK
  <2>. HIDE DEF rest, lists
  <2>3. local' \in [Calls -> lists]
    BY <2>2
  <2>. QED  BY <2>3 DEF lists
<1>7. Found(req[c].id) # {} /\ \A d \in Found(req[c].id) : seen[c] = KeysOf(dirs[d].dacl)
  BY <1>2, <1>3 DEF IInv, DataInv, AppendInv
<1>8. Found(req[c].id)' # {} /\ \A d \in Found(req[c].id)' : seen'[c] = KeysOf(dirs'[d].dacl)
  <2>1. Found(req[c].id)' = Found(req[c].id)
    <3>1. \A i : Found(i)' = Found(i)
      BY <1>1, AppendOne
    <3>. QED  BY <1>2, <3>1
  <2>2. \A d \in Found(req[c].id) : KeysOf(dirs'[d].dacl) = KeysOf(dirs[d].dacl) \cup {CanonicalACEKey(a)}
    BY <1>1, AppendOne
  <2>. QED  BY <1>5, <1>7, <2>1, <2>2
<1>9. DirsType' /\ DirsInv'
  BY <1>1, AppendOne
<1>. QED  BY <1>2, <1>3, <1>5, <1>6, <1>8, <1>9, GoOnInBody
-----------------------------------------------------------------------------
LEMMA CallStep ==
    ASSUME IInv, NEW c \in Calls, NEW request \in Requests, Call(c, request)
    PROVE  IInv'
<1>. USE DEF IInv, DataInv
<1>1. /\ pc[c] = "idle" /\ req' = [req EXCEPT ![c] = request] /\ pc' = [pc EXCEPT ![c] = pc'[c]]
      /\ UNCHANGED <<dirs, seq, wants, holds, mu, taken, local, seen, result>>
      /\ \/ pc'[c] = "empty" /\ request.op \in {"grant", "revoke"} /\ request.list = <<>>
         \/ pc'[c] = "lock" /\ (request.op \in {"grant", "revoke"} => request.list # <<>>)
  BY DEF Call, Goto, TypeOK
<1>2. /\ req'[c] = request /\ request # None
      /\ \A b \in Calls : b # c => pc'[b] = pc[b] /\ req'[b] = req[b]
  BY <1>1, RequestLists DEF TypeOK
<1>3. /\ taken[c] = 0 /\ mu # c /\ wants[c] = None /\ holds[c] = None /\ req[c] = None
      /\ result[c] = Pending
  BY <1>1 DEF TypeOK, LocksInv, PcInv, OpInv
<1>4. LocksInv'
  <2>1. \A b \in Calls : b # c => NeedsKey(b)' = NeedsKey(b) /\ NLocks(b)' = NLocks(b)
    BY <1>2 DEF NeedsKey, NLocks
  <2>2. NLocks(c)' \in 1 .. 2
    BY DEF NLocks
  <2>3. PcInv'
    BY <1>1, <1>2, <1>3, <2>1, <2>2 DEF LocksInv, PcInv
  <2>4. MuInv'
    BY <1>1, <1>2, <1>3, <2>1, <2>2 DEF LocksInv, MuInv
  <2>5. KeyInv'
    BY <1>1, <1>2, <1>3, <2>1, <2>2 DEF LocksInv, KeyInv
  <2>. QED  BY <2>3, <2>4, <2>5 DEF LocksInv
<1>5. OpInv'
  BY <1>1, <1>2, <1>3 DEF OpInv
<1>6. BudgetInv'
  <2>1. CASE request.op = "create"
    <3>. DEFINE asked == {b \in Calls : req[b] # None /\ req[b].op = "create"}
    <3>1. seq + Cardinality(asked) < MaxSeq
      BY <2>1 DEF Call, Creations
    <3>2. IsFiniteSet(asked) /\ Cardinality(asked) \in Nat
      <4>1. asked \in SUBSET Calls
        OBVIOUS
      <4>. QED  BY <4>1, AclConstants, FS_Subset, FS_CardinalityType
    <3>3. Creating \subseteq asked
      BY DEF Creating, LocksInv, PcInv
    <3>4. Cardinality(Creating) <= Cardinality(asked)
      <4>. HIDE DEF asked
      <4>. QED  BY <3>2, <3>3, FS_Subset
    <3>5. Creating' = Creating \cup {c} /\ c \notin Creating
      BY <1>1, <1>2, <2>1 DEF Creating
    <3>6. Cardinality(Creating') = Cardinality(Creating) + 1
      BY <3>5, CreatingFinite, FS_AddElement
    <3>7. seq \in Nat
      BY MaxSeqNat DEF TypeOK
    <3>. HIDE DEF asked
    <3>8. seq + Cardinality(Creating') <= MaxSeq
      BY <3>1, <3>2, <3>4, <3>6, <3>7, CreatingFinite, MaxSeqNat
    <3>. QED  BY <1>1, <3>8 DEF BudgetInv
  <2>2. CASE request.op # "create"
    <3>1. Creating' = Creating
      BY <1>1, <1>2, <2>2 DEF Creating
    <3>. QED  BY <1>1, <3>1 DEF BudgetInv
  <2>. QED  BY <2>1, <2>2
<1>7. DirsInv'
  BY <1>1 DEF DirsInv
<1>8. AppendInv' /\ AssignInv'
  <2>1. \A i : Found(i)' = Found(i)
    BY <1>1 DEF Found
  <2>2. \A b \in Calls : pc'[b] \in {"append", "assign"} => b # c
    BY <1>1
  <2>. QED  BY <1>1, <1>2, <2>1, <2>2 DEF AppendInv, AssignInv
<1>9. TypeOK'
  <2>1. pc' \in [Calls -> {"idle", "empty", "lock", "body", "append", "assign", "unlock"}]
    BY <1>1 DEF TypeOK
  <2>2. req' \in [Calls -> Requests \cup {None}]
    BY <1>1 DEF TypeOK
  <2>3. \A b \in Calls : pc'[b] = "idle" => /\ taken'[b] = 0 /\ mu' # b
                                            /\ wants'[b] = None /\ holds'[b] = None
    BY <1>4 DEF LocksInv, PcInv, MuInv, KeyInv
  <2>. QED  BY <1>1, <2>1, <2>2, <2>3 DEF TypeOK
<1>. QED  BY <1>4, <1>5, <1>6, <1>7, <1>8, <1>9

LEMMA ReturnStep == ASSUME IInv, NEW c \in Calls, Return(c) PROVE IInv'
<1>. USE DEF IInv, DataInv
<1>1. /\ pc[c] = "unlock" /\ taken[c] = 0 /\ pc' = [pc EXCEPT ![c] = "idle"]
      /\ req' = [req EXCEPT ![c] = None] /\ result' = [result EXCEPT ![c] = Pending]
      /\ UNCHANGED <<dirs, seq, wants, holds, mu, taken, local, seen>>
  BY DEF Return, Goto
<1>2. /\ pc'[c] = "idle" /\ req'[c] = None /\ result'[c] = Pending
      /\ \A b \in Calls : b # c => pc'[b] = pc[b] /\ req'[b] = req[b] /\ result'[b] = result[b]
  BY <1>1 DEF TypeOK
<1>3. LocksInv'
  <2>1. \A b \in Calls : b # c => NeedsKey(b)' = NeedsKey(b) /\ NLocks(b)' = NLocks(b)
    BY <1>2 DEF NeedsKey, NLocks
  <2>2. mu # c /\ holds[c] = None /\ wants[c] = None
    BY <1>1, LockFacts DEF LocksInv, MuInv, KeyInv
  <2>3. PcInv'
    BY <1>1, <1>2, <2>1 DEF LocksInv, PcInv
  <2>4. MuInv'
    BY <1>1, <1>2, <2>1, <2>2 DEF LocksInv, MuInv
  <2>5. KeyInv'
    BY <1>1, <1>2, <2>1, <2>2 DEF LocksInv, KeyInv
  <2>. QED  BY <2>3, <2>4, <2>5 DEF LocksInv
<1>4. OpInv'
  BY <1>1, <1>2 DEF OpInv
<1>5. BudgetInv' /\ DirsInv'
  <2>1. Creating' = Creating
    BY <1>1, <1>2 DEF Creating
  <2>. QED  BY <1>1, <2>1 DEF BudgetInv, DirsInv
<1>6. AppendInv' /\ AssignInv'
  <2>1. \A i : Found(i)' = Found(i)
    BY <1>1 DEF Found
  <2>. QED  BY <1>1, <1>2, <2>1 DEF AppendInv, AssignInv
<1>7. TypeOK'
  <2>1. pc' \in [Calls -> {"idle", "empty", "lock", "body", "append", "assign", "unlock"}]
            /\ req' \in [Calls -> Requests \cup {None}]
    BY <1>1 DEF TypeOK
  <2>2. result' \in [Calls -> Results]
    BY <1>1 DEF TypeOK, Pending, Result, Results
  <2>3. \A b \in Calls : pc'[b] = "idle" => /\ taken'[b] = 0 /\ mu' # b
                                            /\ wants'[b] = None /\ holds'[b] = None
    BY <1>3 DEF LocksInv, PcInv, MuInv, KeyInv
  <2>. QED  BY <1>1, <2>1, <2>2, <2>3 DEF TypeOK
<1>. QED  BY <1>3, <1>4, <1>5, <1>6, <1>7

LEMMA NextInv == IInv /\ [Next]_vars => IInv'
<1>. SUFFICES ASSUME IInv, [Next]_vars PROVE IInv'
  OBVIOUS
<1>1. CASE UNCHANGED vars
  <2>1. LocksInv'
    BY <1>1 DEF IInv, LocksInv, vars, PcInv, MuInv, KeyInv, NeedsKey, NLocks
  <2>2. DataInv'
    BY <1>1 DEF IInv, DataInv, vars, OpInv, BudgetInv, Creating, DirsInv, AppendInv, AssignInv, Found
  <2>3. TypeOK'
    BY <1>1 DEF IInv, TypeOK, vars
  <2>. QED  BY <2>1, <2>2, <2>3 DEF IInv
<1>2. ASSUME NEW c \in Calls, NEW request \in Requests, Call(c, request) PROVE IInv'
  BY <1>2, CallStep
<1>3. ASSUME NEW c \in Calls, Body(c) PROVE IInv'
  BY <1>3, ReadSteps, GrantStep, AppendNextStep, RevokeStep, AssignStep, DeleteStep, CreateStep DEF Body
<1>4. ASSUME NEW c \in Calls, Nothing(c) \/ AskKey(c) \/ TakeKey(c) \/ TakeMu(c) \/ Unlock(c) \/ Return(c)
      PROVE  IInv'
  BY <1>4, ReadSteps, AskKeyStep, TakeKeyStep, TakeMuStep, UnlockStep, ReturnStep
<1>. QED  BY <1>1, <1>2, <1>3, <1>4 DEF Next

LEMMA Invariance == Spec => []IInv
BY InitInv, NextInv, PTL DEF Spec
-----------------------------------------------------------------------------
(* The variables are always well typed. *)
THEOREM TypeCorrect == Spec => []TypeOK
<1>1. IInv => TypeOK
  BY DEF IInv
<1>. QED  BY <1>1, Invariance, PTL

(* An object never has two entries of one canonical key (acl.go, Grant). *)
THEOREM OneEntryPerKey == Spec => []NoDuplicateEntries
<1>1. IInv => NoDuplicateEntries
  BY DEF IInv, DataInv, DirsInv, Explicit, NoDuplicateEntries
<1>. QED  BY <1>1, Invariance, PTL

(* Of any calls one waits for none of the others: the one that holds       *)
(* store.mu, or else one that holds a key, or else any.                    *)
LEMMA SomeoneIsFree == IInv => NoCircularWait
<1>. SUFFICES ASSUME IInv, NEW some \in (SUBSET Calls) \ {{}}
              PROVE  \E c \in some : \A d \in some : ~WaitsFor(c, d)
  BY DEF NoCircularWait
<1>1. CASE \E c \in some : mu = c
  <2>1. PICK c \in some : mu = c
    BY <1>1
  <2>2. taken[c] = NLocks(c) /\ NLocks(c) \in 1 .. 2
    BY <2>1, LockFacts DEF IInv, LocksInv, MuInv
  <2>3. pc[c] # "lock"
    BY <2>2 DEF IInv, LocksInv, PcInv
  <2>4. wants[c] = None
    BY <2>2, <2>3 DEF IInv, LocksInv, KeyInv
  <2>. QED  BY <2>3, <2>4 DEF WaitsFor
<1>2. CASE (\A c \in some : mu # c) /\ \E c \in some : holds[c] # None
  <2>1. PICK c \in some : holds[c] # None
    BY <1>2
  <2>2. wants[c] = None
    BY <2>1 DEF IInv, LocksInv, KeyInv
  <2>. QED  BY <1>2, <2>2 DEF WaitsFor
<1>3. CASE (\A c \in some : mu # c) /\ \A c \in some : holds[c] = None
  <2>1. PICK c \in some : TRUE
    OBVIOUS
  <2>. QED  BY <1>3, <2>1 DEF WaitsFor
<1>. QED  BY <1>1, <1>2, <1>3

(* The keyed lock and store.mu never deadlock, as every write takes its    *)
(* key first (fake.go, the write path).                                    *)
THEOREM DeadlockFree == Spec => []NoCircularWait
BY SomeoneIsFree, Invariance, PTL

-----------------------------------------------------------------------------
(* The abstract state, and what its identities name. *)
LEMMA AbstractFacts ==
    /\ DOMAIN AbstractObjects = DOMAIN dirs
    /\ \A d \in DOMAIN dirs : AbstractObjects[d] = [guid |-> dirs[d].guid, keys |-> KeysOf(dirs[d].dacl) \cup ToAdd(d)]
    /\ \A id : AA!Named(id) = Found(id)
BY DEF AbstractObjects, AA!Named, Found

(* What the Grant in its loop has still to add, to its object and no other. *)
LEMMA ToAddFacts ==
    ASSUME LocksInv
    PROVE  /\ (\A b \in Calls : pc[b] # "append") => \A d : ToAdd(d) = {}
           /\ \A c \in Calls : pc[c] = "append" => \A d :
                 ToAdd(d) = IF d \in Found(req[c].id) THEN KeysOf(local[c]) ELSE {}
<1>1. (\A b \in Calls : pc[b] # "append") => \A d : ToAdd(d) = {}
  BY DEF ToAdd
<1>2. ASSUME NEW c \in Calls, NEW d, pc[c] = "append"
      PROVE  ToAdd(d) = IF d \in Found(req[c].id) THEN KeysOf(local[c]) ELSE {}
  <2>1. \A b \in Calls : pc[b] = "append" => b = c
    BY <1>2, OneAtWork
  <2>2. {b \in Calls : pc[b] = "append" /\ d \in Found(req[b].id)}
           = IF d \in Found(req[c].id) THEN {c} ELSE {}
    BY <1>2, <2>1
  <2>. QED  BY <2>2 DEF ToAdd
<1>. QED  BY <1>1, <1>2

(* Steps that touch neither the objects nor a Grant in its loop. *)
LEMMA ObjectsKept ==
    ASSUME UNCHANGED dirs,
           \A b \in Calls : pc'[b] = "append" <=> pc[b] = "append",
           \A b \in Calls : pc[b] = "append" => local'[b] = local[b] /\ req'[b] = req[b]
    PROVE  UNCHANGED AbstractObjects
<1>1. \A i : Found(i)' = Found(i)
  BY DEF Found
<1>2. ASSUME NEW d PROVE ToAdd(d)' = ToAdd(d)
  <2>1. {b \in Calls : pc'[b] = "append" /\ d \in Found(req[b].id)'}
           = {b \in Calls : pc[b] = "append" /\ d \in Found(req[b].id)}
    BY <1>1
  <2>2. \A b \in {b \in Calls : pc[b] = "append" /\ d \in Found(req[b].id)} : KeysOf(local[b])' = KeysOf(local[b])
    BY DEF KeysOf
  <2>. QED  BY <2>1, <2>2 DEF ToAdd
<1>. QED  BY <1>2 DEF AbstractObjects

(* Asking for a lock, taking or releasing one, and the steps within Revoke *)
(* cannot be seen.                                                         *)
LEMMA LockStepsStutter ==
    ASSUME IInv, NEW c \in Calls, AskKey(c) \/ TakeKey(c) \/ TakeMu(c) \/ Unlock(c)
    PROVE  UNCHANGED AA!aclVars
<1>1. UNCHANGED <<dirs, seq, req, local, result>>
  BY DEF AskKey, TakeKey, TakeMu, Unlock
<1>2. \A b \in Calls : pc'[b] = "append" <=> pc[b] = "append"
  BY DEF AskKey, TakeKey, TakeMu, Unlock, Took, Goto, IInv, TypeOK
<1>3. UNCHANGED AbstractObjects
  BY <1>1, <1>2, ObjectsKept
<1>4. UNCHANGED AbstractRequests
  BY <1>1 DEF AbstractRequests, KeysOf
<1>5. UNCHANGED AbstractResults
  BY <1>1, <1>2 DEF AbstractResults
<1>. QED  BY <1>1, <1>3, <1>4, <1>5 DEF AA!aclVars

LEMMA RevokeStutters ==
    ASSUME IInv, NEW c \in Calls, Revoke(c)
    PROVE  UNCHANGED AA!aclVars
<1>1. UNCHANGED <<dirs, seq, req, result>> /\ pc[c] = "body" /\ pc' = [pc EXCEPT ![c] = "assign"]
  BY DEF Revoke, InBody, Goto
<1>2. \A b \in Calls : pc'[b] # "append" /\ pc[b] # "append"
  BY <1>1, OneAtWork DEF IInv, TypeOK
<1>3. UNCHANGED AbstractObjects
  BY <1>1, <1>2, ObjectsKept
<1>4. UNCHANGED AbstractRequests
  BY <1>1 DEF AbstractRequests, KeysOf
<1>5. UNCHANGED AbstractResults
  BY <1>1, <1>2 DEF AbstractResults
<1>. QED  BY <1>1, <1>3, <1>4, <1>5 DEF AA!aclVars

(* An entry moves from those a Grant has still to add to its object. *)
LEMMA AppendStutters ==
    ASSUME IInv, IInv', NEW c \in Calls, AppendNext(c)
    PROVE  UNCHANGED AA!aclVars
<1>1. PICK a : a = Head(local[c])
  OBVIOUS
<1>2. UNCHANGED <<seq, pc, req, result>> /\ pc[c] = "append" /\ pc'[c] = "append" /\ LocksInv /\ LocksInv'
  BY DEF AppendNext, IInv
<1>3. \A i : Found(i)' = Found(i)
  BY <1>1, AppendOne
<1>4. ASSUME NEW d \in DOMAIN dirs
      PROVE  KeysOf(dirs'[d].dacl) \cup ToAdd(d)' = KeysOf(dirs[d].dacl) \cup ToAdd(d)
  <2>1. ToAdd(d) = IF d \in Found(req[c].id) THEN KeysOf(local[c]) ELSE {}
    BY <1>2, ToAddFacts
  <2>2. ToAdd(d)' = IF d \in Found(req[c].id) THEN KeysOf(local'[c]) ELSE {}
    <3>1. {b \in Calls : pc'[b] = "append" /\ d \in Found(req[b].id)'}
             = IF d \in Found(req[c].id) THEN {c} ELSE {}
      <4>1. \A b \in Calls : pc[b] = "append" => b = c
        BY <1>2, OneAtWork
      <4>. QED  BY <1>2, <1>3, <4>1
    <3>. QED  BY <3>1 DEF ToAdd, KeysOf
  <2>3. KeysOf(local[c]) = {CanonicalACEKey(a)} \cup KeysOf(local'[c])
    <3>1. local' = [local EXCEPT ![c] = Tail(local[c])] /\ KeysOf(local[c]) = {CanonicalACEKey(a)} \cup KeysOf(Tail(local[c]))
      BY <1>1, AppendOne
    <3>2. local'[c] = Tail(local[c])
      BY <3>1 DEF IInv, TypeOK
    <3>. QED  BY <3>1, <3>2
  <2>4. CASE d \in Found(req[c].id)
    <3>1. KeysOf(dirs'[d].dacl) = KeysOf(dirs[d].dacl) \cup {CanonicalACEKey(a)}
      BY <1>1, <2>4, AppendOne
    <3>. QED  BY <2>1, <2>2, <2>3, <2>4, <3>1
  <2>5. CASE d \notin Found(req[c].id)
    <3>1. dirs'[d].dacl = dirs[d].dacl
      BY <1>1, <2>5, AppendOne
    <3>. QED  BY <2>1, <2>2, <2>5, <3>1
  <2>. QED  BY <2>4, <2>5
<1>5. UNCHANGED AbstractObjects
  <2>1. DOMAIN dirs' = DOMAIN dirs /\ \A d \in DOMAIN dirs : dirs'[d].guid = dirs[d].guid
    BY <1>1, AppendOne
  <2>2. \A d \in DOMAIN dirs : KeysOf(dirs[d].dacl)' = KeysOf(dirs'[d].dacl)
    BY DEF KeysOf
  <2>. QED  BY <1>4, <2>1, <2>2 DEF AbstractObjects
<1>6. UNCHANGED AbstractRequests
  BY <1>2 DEF AbstractRequests, KeysOf
<1>7. UNCHANGED AbstractResults
  BY <1>2 DEF AbstractResults
<1>. QED  BY <1>2, <1>5, <1>6, <1>7 DEF AA!aclVars

(* The end of a Grant's loop has been announced as the loop began. *)
LEMMA GrantEndsStutters ==
    ASSUME IInv, NEW c \in Calls, GrantEnds(c)
    PROVE  UNCHANGED AA!aclVars
<1>1. /\ UNCHANGED <<dirs, seq, req>> /\ pc[c] = "append" /\ local[c] = <<>>
      /\ pc' = [pc EXCEPT ![c] = "unlock"] /\ result' = [result EXCEPT ![c] = Result("ok", {})]
  BY DEF GrantEnds, Finish, Goto
<1>2. \A b \in Calls : pc'[b] # "append" /\ (pc[b] = "append" => b = c)
  BY <1>1, OneAtWork DEF IInv, TypeOK
<1>3. UNCHANGED AbstractObjects
  <2>1. \A d : ToAdd(d) = {}
    <3>1. KeysOf(local[c]) = {}
      BY <1>1 DEF KeysOf
    <3>. QED  BY <1>1, <3>1, ToAddFacts DEF IInv
  <2>2. \A d : ToAdd(d)' = {}
    BY <1>2 DEF ToAdd
  <2>3. \A d \in DOMAIN dirs : KeysOf(dirs[d].dacl)' = KeysOf(dirs[d].dacl)
    BY <1>1 DEF KeysOf
  <2>. QED  BY <1>1, <2>1, <2>2, <2>3 DEF AbstractObjects
<1>4. UNCHANGED AbstractRequests
  BY <1>1 DEF AbstractRequests, KeysOf
<1>5. UNCHANGED AbstractResults
  BY <1>1, <1>2 DEF AbstractResults, IInv, TypeOK
<1>. QED  BY <1>1, <1>3, <1>4, <1>5 DEF AA!aclVars
-----------------------------------------------------------------------------
(* The abstract view of a call that has not had its effect yet. *)
LEMMA AskedRecord ==
    ASSUME NEW r \in Requests
    PROVE  [op |-> r.op, id |-> r.id, keys |-> KeysOf(r.list)] \in AA!Requests
<1>1. KeysOf(r.list) \in SUBSET Keys
  BY RequestLists, KeysOfFacts
<1>2. r.op \in AA!Ops /\ r.id \in AA!Identities
  BY RequestLists DEF AA!Ops, AA!Identities, Identities, Guids
<1>. HIDE DEF Keys
<1>. QED  BY <1>1, <1>2 DEF AA!Requests

LEMMA AskedFacts ==
    ASSUME IInv, NEW c \in Calls, pc[c] # "idle"
    PROVE  /\ req[c] \in Requests
           /\ AbstractRequests[c] = [op |-> req[c].op, id |-> req[c].id, keys |-> KeysOf(req[c].list)]
           /\ AbstractRequests[c] # None
           /\ pc[c] \in {"empty", "body", "assign"} => AbstractResults[c] = AA!Pending
<1>1. req[c] \in Requests
  BY RequestOf DEF IInv, LocksInv
<1>2. req[c] # None
  BY <1>1, AclConstants
<1>3. AbstractRequests[c] = [op |-> req[c].op, id |-> req[c].id, keys |-> KeysOf(req[c].list)]
  BY <1>2 DEF AbstractRequests
<1>4. AbstractRequests[c] # None
  BY <1>1, <1>3, AskedRecord, NoneIsNoRequest
<1>5. pc[c] \in {"empty", "body", "assign"} => AbstractResults[c] = AA!Pending
  BY DEF AbstractResults, IInv, DataInv, OpInv, Pending, Result, AA!Pending, AA!Answer
<1>. QED  BY <1>1, <1>3, <1>4, <1>5

(* The answer of a call that is done. *)
LEMMA FinishAnswers ==
    ASSUME IInv, NEW c \in Calls, pc[c] # "append", NEW outcome, NEW keys, Finish(c, outcome, keys), req' = req
    PROVE  /\ AbstractResults' = [AbstractResults EXCEPT ![c] = AA!Answer(outcome, keys)]
           /\ UNCHANGED AbstractRequests
<1>1. /\ pc' = [pc EXCEPT ![c] = "unlock"] /\ result' = [result EXCEPT ![c] = Result(outcome, keys)]
  BY DEF Finish, Goto
<1>2. Result(outcome, keys) = AA!Answer(outcome, keys)
  BY DEF Result, AA!Answer
<1>3. UNCHANGED AbstractRequests
  BY DEF AbstractRequests, KeysOf
<1>. QED  BY <1>1, <1>2, <1>3 DEF AbstractResults, IInv, TypeOK

(* While a call that is no Grant ends, no Grant is in its loop. *)
LEMMA NothingToAdd ==
    ASSUME IInv, NEW c \in Calls, pc[c] \in {"body", "assign"}, pc' = [pc EXCEPT ![c] = pc'[c]],
           pc'[c] # "append"
    PROVE  \A d : ToAdd(d) = {} /\ ToAdd(d)' = {}
<1>1. \A b \in Calls : pc[b] # "append" /\ pc'[b] # "append"
  BY OneAtWork DEF IInv, TypeOK
<1>. QED  BY <1>1 DEF ToAdd

LEMMA NothingEffect ==
    ASSUME IInv, NEW c \in Calls, Nothing(c)
    PROVE  AA!Effect(c)
<1>1. /\ pc[c] = "empty" /\ Finish(c, "ok", {}) /\ UNCHANGED <<dirs, seq, req>>
      /\ pc' = [pc EXCEPT ![c] = "unlock"] /\ local' = [local EXCEPT ![c] = <<>>]
  BY DEF Nothing, Finish, Goto
<1>2. UNCHANGED AbstractObjects
  <2>1. \A b \in Calls : b # c => pc'[b] = pc[b] /\ local'[b] = local[b]
    BY <1>1 DEF IInv, TypeOK
  <2>2. pc'[c] = "unlock"
    BY <1>1 DEF IInv, TypeOK
  <2>. QED  BY <1>1, <2>1, <2>2, ObjectsKept
<1>3. AbstractRequests[c].op \in {"grant", "revoke"} /\ AbstractRequests[c].keys = {}
  <2>1. req[c].op \in {"grant", "revoke"} /\ req[c].list = <<>>
    BY <1>1 DEF IInv, DataInv, OpInv
  <2>2. KeysOf(req[c].list) = {}
    BY <2>1 DEF KeysOf
  <2>3. AbstractRequests[c] = [op |-> req[c].op, id |-> req[c].id, keys |-> KeysOf(req[c].list)]
    BY <1>1, AskedFacts
  <2>. QED  BY <2>1, <2>2, <2>3
<1>4. AbstractRequests[c] # None /\ AbstractResults[c] = AA!Pending
  BY <1>1, AskedFacts
<1>5. AbstractResults' = [AbstractResults EXCEPT ![c] = AA!Answer("ok", {})] /\ UNCHANGED AbstractRequests
  BY <1>1, FinishAnswers
<1>. QED  BY <1>1, <1>2, <1>3, <1>4, <1>5 DEF AA!Effect

(* The ends of a call in the body that leave the objects as they are. *)
LEMMA ReadEffect ==
    ASSUME IInv, NEW c \in Calls, NotFound(c) \/ Get(c)
    PROVE  AA!Effect(c)
<1>1. /\ pc[c] = "body" /\ UNCHANGED <<dirs, seq, req>> /\ pc' = [pc EXCEPT ![c] = "unlock"]
  BY DEF NotFound, Get, InBody, Finish, Goto
<1>2. \A d : ToAdd(d) = {} /\ ToAdd(d)' = {}
  BY <1>1, NothingToAdd DEF IInv, TypeOK
<1>3. UNCHANGED AbstractObjects
  BY <1>1, <1>2 DEF AbstractObjects, KeysOf
<1>4. /\ AbstractRequests[c] # None /\ AbstractResults[c] = AA!Pending /\ req[c] \in Requests
      /\ AbstractRequests[c] = [op |-> req[c].op, id |-> req[c].id, keys |-> KeysOf(req[c].list)]
  BY <1>1, AskedFacts
<1>5. CASE NotFound(c)
  <2>1. Finish(c, "notFound", {}) /\ Found(req[c].id) = {} /\ req[c].op \in {"grant", "revoke", "get"}
    BY <1>5 DEF NotFound, InBody
  <2>2. AbstractResults' = [AbstractResults EXCEPT ![c] = AA!Answer("notFound", {})] /\ UNCHANGED AbstractRequests
    BY <1>1, <2>1, FinishAnswers
  <2>3. req[c].op \in {"grant", "revoke"} => KeysOf(req[c].list) # {}
    <3>1. req[c].op \in {"grant", "revoke"} => req[c].list # <<>>
      BY <1>1 DEF IInv, DataInv, OpInv
    <3>. QED  BY <1>4, <3>1, RequestLists, KeysOfFacts
  <2>4. AA!Named(AbstractRequests[c].id) = {}
    BY <1>4, <2>1, AbstractFacts
  <2>. QED  BY <1>1, <1>3, <1>4, <2>1, <2>2, <2>3, <2>4 DEF AA!Effect
<1>6. CASE Get(c)
  <2>1. PICK d \in Found(req[c].id) : Finish(c, "ok", KeysOf(dirs[d].dacl))
    BY <1>6 DEF Get
  <2>2. AbstractResults' = [AbstractResults EXCEPT ![c] = AA!Answer("ok", KeysOf(dirs[d].dacl))]
           /\ UNCHANGED AbstractRequests
    BY <1>1, <2>1, FinishAnswers
  <2>3. d \in AA!Named(AbstractRequests[c].id) /\ AbstractObjects[d].keys = KeysOf(dirs[d].dacl)
    <3>1. d \in DOMAIN dirs
      BY DEF Found
    <3>2. AbstractObjects[d] = [guid |-> dirs[d].guid, keys |-> KeysOf(dirs[d].dacl) \cup {}]
      BY <1>2, <3>1, AbstractFacts
    <3>3. AbstractRequests[c].id = req[c].id
      BY <1>4
    <3>4. d \in AA!Named(AbstractRequests[c].id)
      BY <3>3, AbstractFacts
    <3>. QED  BY <3>2, <3>4
  <2>4. AbstractRequests[c].op = "get"
    BY <1>4, <1>6 DEF Get, InBody
  <2>. QED  BY <1>1, <1>3, <1>4, <2>2, <2>3, <2>4 DEF AA!Effect
<1>. QED  BY <1>5, <1>6
-----------------------------------------------------------------------------
(* Grant takes effect as its loop begins: what it was given is, from then  *)
(* on, either in the object's list or still to be added to it.             *)
LEMMA GrantEffect ==
    ASSUME IInv, NEW c \in Calls, Grant(c)
    PROVE  AA!Effect(c)
<1>. DEFINE id == req[c].id
<1>1. /\ pc[c] = "body" /\ req[c].op = "grant" /\ UNCHANGED <<dirs, seq, req, result>>
      /\ pc' = [pc EXCEPT ![c] = "append"] /\ local' = [local EXCEPT ![c] = req[c].list]
  BY DEF Grant, InBody, Goto
<1>2. PICK d : d \in Found(id)
  BY DEF Grant
<1>3. \A e \in Found(id) : e = d
  BY <1>2, FoundOne DEF IInv, DataInv
<1>4. /\ AbstractRequests[c] # None /\ AbstractResults[c] = AA!Pending
      /\ AbstractRequests[c] = [op |-> req[c].op, id |-> id, keys |-> KeysOf(req[c].list)]
  BY <1>1, AskedFacts
<1>5. \A b \in Calls : pc[b] # "append" /\ (pc'[b] = "append" <=> b = c)
  BY <1>1, OneAtWork DEF IInv, TypeOK
<1>6. \A e : ToAdd(e) = {}
  BY <1>5 DEF ToAdd
<1>7. \A i : Found(i)' = Found(i)
  BY <1>1 DEF Found
<1>8. ASSUME NEW e PROVE ToAdd(e)' = IF e = d THEN KeysOf(req[c].list) ELSE {}
  <2>1. {b \in Calls : pc'[b] = "append" /\ e \in Found(req[b].id)'} = IF e = d THEN {c} ELSE {}
    BY <1>1, <1>2, <1>3, <1>5, <1>7
  <2>2. local'[c] = req[c].list
    BY <1>1 DEF IInv, TypeOK
  <2>. QED  BY <2>1, <2>2 DEF ToAdd, KeysOf
<1>9. AbstractObjects' = [AbstractObjects EXCEPT ![d].keys = @ \cup AbstractRequests[c].keys]
  <2>1. d \in DOMAIN dirs /\ AbstractRequests[c].keys = KeysOf(req[c].list)
    BY <1>2, <1>4 DEF Found
  <2>2. \A e \in DOMAIN dirs : KeysOf(dirs[e].dacl)' = KeysOf(dirs[e].dacl)
    BY <1>1 DEF KeysOf
  <2>. DEFINE o(e) == [guid |-> dirs[e].guid, keys |-> KeysOf(dirs[e].dacl)]
              p(e) == [guid |-> dirs[e].guid, keys |-> KeysOf(dirs[e].dacl) \cup IF e = d THEN KeysOf(req[c].list) ELSE {}]
  <2>3. AbstractObjects = [e \in DOMAIN dirs |-> o(e)]
    BY <1>6 DEF AbstractObjects
  <2>4. AbstractObjects' = [e \in DOMAIN dirs |-> p(e)]
    BY <1>1, <1>8, <2>2 DEF AbstractObjects
  <2>5. \A e \in DOMAIN dirs : p(e) = IF e = d THEN [o(e) EXCEPT !.keys = @ \cup KeysOf(req[c].list)] ELSE o(e)
    OBVIOUS
  <2>. HIDE DEF o, p
  <2>. QED  BY <2>1, <2>3, <2>4, <2>5
<1>10. /\ d \in AA!Named(AbstractRequests[c].id) /\ AbstractRequests[c].op = "grant"
  <2>1. AbstractRequests[c].id = id /\ AbstractRequests[c].op = "grant"
    BY <1>1, <1>4
  <2>. QED  BY <1>2, <2>1, AbstractFacts
<1>11. AbstractResults' = [AbstractResults EXCEPT ![c] = AA!Answer("ok", {})]
  BY <1>1 DEF AbstractResults, Result, AA!Answer, IInv, TypeOK
<1>12. UNCHANGED AbstractRequests
  BY <1>1 DEF AbstractRequests, KeysOf
<1>. QED  BY <1>1, <1>4, <1>9, <1>10, <1>11, <1>12 DEF AA!Effect

(* Revoke takes effect as it assigns the list it kept. *)
LEMMA AssignEffect ==
    ASSUME IInv, NEW c \in Calls, Assign(c)
    PROVE  AA!Effect(c)
<1>. DEFINE id   == req[c].id
            kept == local[c]
<1>1. /\ pc[c] = "assign" /\ UNCHANGED <<seq, req>> /\ Finish(c, "ok", {})
      /\ dirs' = [e \in DOMAIN dirs |-> IF e \in Found(id) THEN [dirs[e] EXCEPT !.dacl = kept] ELSE dirs[e]]
  BY DEF Assign, Found
<1>2. pc' = [pc EXCEPT ![c] = "unlock"]
  BY <1>1 DEF Finish, Goto
<1>3. PICK d : d \in Found(id)
  BY <1>1 DEF IInv, DataInv, AssignInv
<1>4. \A e \in Found(id) : e = d
  BY <1>3, FoundOne DEF IInv, DataInv
<1>5. KeysOf(kept) = KeysOf(dirs[d].dacl) \ KeysOf(req[c].list)
  BY <1>1, <1>3 DEF IInv, DataInv, AssignInv
<1>6. /\ AbstractRequests[c] # None /\ AbstractResults[c] = AA!Pending
      /\ AbstractRequests[c] = [op |-> req[c].op, id |-> id, keys |-> KeysOf(req[c].list)]
  BY <1>1, AskedFacts
<1>7. req[c].op = "revoke"
  BY <1>1 DEF IInv, DataInv, OpInv
<1>8. \A e : ToAdd(e) = {} /\ ToAdd(e)' = {}
  BY <1>1, <1>2, NothingToAdd DEF IInv, TypeOK
<1>9. AbstractObjects' = [AbstractObjects EXCEPT ![d].keys = @ \ AbstractRequests[c].keys]
  <2>1. d \in DOMAIN dirs /\ AbstractRequests[c].keys = KeysOf(req[c].list)
    BY <1>3, <1>6 DEF Found
  <2>2. /\ DOMAIN dirs' = DOMAIN dirs
        /\ \A e \in DOMAIN dirs : /\ dirs'[e].guid = dirs[e].guid
                                  /\ dirs'[e].dacl = IF e = d THEN kept ELSE dirs[e].dacl
    <3>1. DOMAIN dirs' = DOMAIN dirs
      BY <1>1
    <3>2. ASSUME NEW e \in DOMAIN dirs
          PROVE  dirs'[e].guid = dirs[e].guid /\ dirs'[e].dacl = IF e = d THEN kept ELSE dirs[e].dacl
      <4>. DEFINE lists == Seq(Stored)
      <4>1. dirs[e] \in [guid : Guids, dacl : lists]
        BY DEF IInv, TypeOK
      <4>2. dirs'[e] = IF e = d THEN [dirs[e] EXCEPT !.dacl = kept] ELSE dirs[e]
        BY <1>1, <1>3, <1>4
      <4>. HIDE DEF lists, kept
      <4>. QED  BY <4>1, <4>2
    <3>. QED  BY <3>1, <3>2
  <2>. DEFINE o(e) == [guid |-> dirs[e].guid, keys |-> KeysOf(dirs[e].dacl)]
              p(e) == [guid |-> dirs[e].guid, keys |-> IF e = d THEN KeysOf(kept) ELSE KeysOf(dirs[e].dacl)]
  <2>3. AbstractObjects = [e \in DOMAIN dirs |-> o(e)]
    BY <1>8 DEF AbstractObjects
  <2>4. AbstractObjects' = [e \in DOMAIN dirs |-> p(e)]
    <3>1. \A e \in DOMAIN dirs : KeysOf(dirs[e].dacl)' = IF e = d THEN KeysOf(kept) ELSE KeysOf(dirs[e].dacl)
      BY <2>2 DEF KeysOf
    <3>. QED  BY <1>8, <2>2, <3>1 DEF AbstractObjects
  <2>5. \A e \in DOMAIN dirs : p(e) = IF e = d THEN [o(e) EXCEPT !.keys = @ \ KeysOf(req[c].list)] ELSE o(e)
    BY <1>5
  <2>. HIDE DEF o, p
  <2>. QED  BY <2>1, <2>3, <2>4, <2>5
<1>10. /\ d \in AA!Named(AbstractRequests[c].id) /\ AbstractRequests[c].op = "revoke"
  <2>1. AbstractRequests[c].id = id /\ AbstractRequests[c].op = "revoke"
    BY <1>6, <1>7
  <2>. QED  BY <1>3, <2>1, AbstractFacts
<1>11. AbstractResults' = [AbstractResults EXCEPT ![c] = AA!Answer("ok", {})] /\ UNCHANGED AbstractRequests
  BY <1>1, FinishAnswers
<1>. QED  BY <1>1, <1>6, <1>9, <1>10, <1>11 DEF AA!Effect

LEMMA DeleteEffect ==
    ASSUME IInv, NEW c \in Calls, Delete(c)
    PROVE  AA!Effect(c)
<1>1. /\ pc[c] = "body" /\ req[c].op = "delete" /\ UNCHANGED <<seq, req>> /\ Finish(c, "ok", {})
      /\ dirs' = [e \in DOMAIN dirs \ Found(req[c].id) |-> dirs[e]]
  BY DEF Delete, InBody
<1>2. /\ AbstractRequests[c] # None /\ AbstractResults[c] = AA!Pending
      /\ AbstractRequests[c] = [op |-> req[c].op, id |-> req[c].id, keys |-> KeysOf(req[c].list)]
  BY <1>1, AskedFacts
<1>3. \A e : ToAdd(e) = {} /\ ToAdd(e)' = {}
  BY <1>1, NothingToAdd DEF Finish, Goto, IInv, TypeOK
<1>4. AbstractRequests[c].op = "delete" /\ AA!Named(AbstractRequests[c].id) = Found(req[c].id)
  BY <1>1, <1>2, AbstractFacts
<1>5. AbstractObjects' = [e \in DOMAIN AbstractObjects \ Found(req[c].id) |-> AbstractObjects[e]]
  <2>1. DOMAIN dirs' = DOMAIN dirs \ Found(req[c].id) /\ \A e \in DOMAIN dirs' : dirs'[e] = dirs[e]
    BY <1>1
  <2>2. \A e \in DOMAIN dirs' : KeysOf(dirs[e].dacl)' = KeysOf(dirs[e].dacl)
    BY <2>1 DEF KeysOf
  <2>. QED  BY <1>3, <2>1, <2>2 DEF AbstractObjects
<1>6. AbstractResults' = [AbstractResults EXCEPT ![c] = AA!Answer("ok", {})] /\ UNCHANGED AbstractRequests
  BY <1>1, FinishAnswers
<1>. QED  BY <1>1, <1>2, <1>4, <1>5, <1>6 DEF AA!Effect

LEMMA CreateEffect ==
    ASSUME IInv, IInv', NEW c \in Calls, Create(c)
    PROVE  AA!Effect(c)
<1>. DEFINE d == req[c].id.arg
<1>1. /\ pc[c] = "body" /\ req[c].op = "create" /\ UNCHANGED req
      /\ pc' = [pc EXCEPT ![c] = "unlock"]
  BY DEF Create, InBody, Finish, Goto
<1>2. /\ AbstractRequests[c] # None /\ AbstractResults[c] = AA!Pending /\ req[c] \in Requests
      /\ AbstractRequests[c] = [op |-> req[c].op, id |-> req[c].id, keys |-> KeysOf(req[c].list)]
  BY <1>1, AskedFacts
<1>3. \A e : ToAdd(e) = {} /\ ToAdd(e)' = {}
  BY <1>1, NothingToAdd DEF IInv, TypeOK
<1>4. /\ AbstractRequests[c].op = "create" /\ AbstractRequests[c].id.arg = d
      /\ AA!Named(AbstractRequests[c].id) = {e \in DOMAIN dirs : e = d}
  <2>1. req[c].id.form = "dn"
    BY <1>1, <1>2, RequestLists
  <2>2. AbstractRequests[c].op = "create" /\ AbstractRequests[c].id = req[c].id
    BY <1>1, <1>2
  <2>3. Found(req[c].id) = {e \in DOMAIN dirs : e = d}
    BY <2>1 DEF Found
  <2>. QED  BY <2>2, <2>3, AbstractFacts
<1>5. CASE d \in DOMAIN dirs
  <2>1. UNCHANGED <<dirs, seq>> /\ Finish(c, "exists", {})
    BY <1>5 DEF Create
  <2>2. UNCHANGED AbstractObjects
    BY <1>3, <2>1 DEF AbstractObjects, KeysOf
  <2>3. AbstractResults' = [AbstractResults EXCEPT ![c] = AA!Answer("exists", {})] /\ UNCHANGED AbstractRequests
    BY <1>1, <2>1, FinishAnswers
  <2>4. AA!Named(AbstractRequests[c].id) # {}
    BY <1>4, <1>5
  <2>. QED  BY <1>2, <1>4, <2>1, <2>2, <2>3, <2>4 DEF AA!Effect
<1>6. CASE d \notin DOMAIN dirs
  <2>1. /\ Finish(c, "ok", {}) /\ seq' = seq + 1
        /\ dirs' = [e \in DOMAIN dirs \cup {d} |-> IF e = d THEN [guid |-> seq + 1, dacl |-> <<>>] ELSE dirs[e]]
    BY <1>6 DEF Create
  <2>2. seq < MaxSeq
    <3>1. seq \in 0 .. MaxSeq /\ seq' \in 0 .. MaxSeq
      BY DEF IInv, TypeOK
    <3>. QED  BY <2>1, <3>1, MaxSeqNat
  <2>3. AbstractObjects' = [e \in DOMAIN AbstractObjects \cup {d} |->
                               IF e = d THEN [guid |-> seq + 1, keys |-> {}] ELSE AbstractObjects[e]]
    <3>1. /\ DOMAIN dirs' = DOMAIN dirs \cup {d} /\ dirs'[d].guid = seq + 1 /\ dirs'[d].dacl = <<>>
          /\ \A e \in DOMAIN dirs : e # d /\ dirs'[e] = dirs[e]
      BY <1>6, <2>1
    <3>2. \A e \in DOMAIN dirs : KeysOf(dirs[e].dacl)' = KeysOf(dirs[e].dacl)
      BY <3>1 DEF KeysOf
    <3>3. KeysOf(dirs'[d].dacl) = {}
      BY <3>1 DEF KeysOf
    <3>. DEFINE o(e) == [guid |-> dirs[e].guid, keys |-> KeysOf(dirs[e].dacl)]
                p(e) == [guid |-> dirs'[e].guid, keys |-> KeysOf(dirs'[e].dacl)]
    <3>4. AbstractObjects = [e \in DOMAIN dirs |-> o(e)]
      BY <1>3 DEF AbstractObjects
    <3>5. AbstractObjects' = [e \in DOMAIN dirs' |-> p(e)]
      <4>1. \A e \in DOMAIN dirs' : KeysOf(dirs[e].dacl)' = KeysOf(dirs'[e].dacl)
        BY DEF KeysOf
      <4>. QED  BY <1>3, <4>1 DEF AbstractObjects
    <3>6. p(d) = [guid |-> seq + 1, keys |-> {}] /\ \A e \in DOMAIN dirs : p(e) = o(e)
      BY <3>1, <3>2, <3>3
    <3>. HIDE DEF o, p
    <3>. QED  BY <3>1, <3>4, <3>5, <3>6
  <2>4. AbstractResults' = [AbstractResults EXCEPT ![c] = AA!Answer("ok", {})] /\ UNCHANGED AbstractRequests
    BY <1>1, <2>1, FinishAnswers
  <2>5. AA!Named(AbstractRequests[c].id) = {}
    BY <1>4, <1>6
  <2>. HIDE DEF d
  <2>. QED  BY <1>2, <1>4, <2>1, <2>2, <2>3, <2>4, <2>5 DEF AA!Effect
<1>. QED  BY <1>5, <1>6

(* The request of one call changes. *)
LEMMA RequestsChange ==
    ASSUME NEW c \in Calls, \A b \in Calls : b # c => req'[b] = req[b]
    PROVE  AbstractRequests' = [AbstractRequests EXCEPT ![c] = AbstractRequests'[c]]
<1>1. ASSUME NEW b \in Calls, b # c PROVE AbstractRequests'[b] = AbstractRequests[b]
  <2>1. KeysOf(req[b].list)' = KeysOf(req[b].list)
    BY <1>1 DEF KeysOf
  <2>. QED  BY <1>1, <2>1 DEF AbstractRequests
<1>. DEFINE before == AbstractRequests
            after  == AbstractRequests'
<1>2. \E r : before = [b \in Calls |-> r[b]]
  <2>1. before = [b \in Calls |-> before[b]]
    BY DEF AbstractRequests
  <2>. QED  BY <2>1
<1>3. after = [b \in Calls |-> after[b]]
  BY DEF AbstractRequests
<1>. HIDE DEF before, after
<1>4. \A b \in Calls : b # c => after[b] = before[b]
  BY <1>1 DEF before, after
<1>5. after = [before EXCEPT ![c] = after[c]]
  BY <1>2, <1>3, <1>4
<1>. QED  BY <1>5 DEF before, after

LEMMA CallAsks ==
    ASSUME IInv, IInv', NEW c \in Calls, NEW request \in Requests, Call(c, request)
    PROVE  AA!Ask(c)
<1>1. /\ pc[c] = "idle" /\ req' = [req EXCEPT ![c] = request] /\ UNCHANGED <<dirs, seq, local, result>>
      /\ pc' = [pc EXCEPT ![c] = pc'[c]] /\ pc'[c] # "append"
  BY DEF Call, Goto, IInv, TypeOK
<1>2. \A b \in Calls : b # c => pc'[b] = pc[b] /\ req'[b] = req[b]
  BY <1>1 DEF IInv, TypeOK
<1>3. UNCHANGED AbstractObjects
  BY <1>1, <1>2, ObjectsKept
<1>4. AbstractRequests[c] = None
  BY <1>1 DEF AbstractRequests, IInv, LocksInv, PcInv
<1>5. AbstractRequests'[c] = [op |-> request.op, id |-> request.id, keys |-> KeysOf(request.list)]
  <2>1. req'[c] = request /\ request # None
    BY <1>1, RequestLists DEF IInv, TypeOK
  <2>. QED  BY <2>1 DEF AbstractRequests, KeysOf
<1>6. AbstractRequests'[c] \in AA!Requests
  BY <1>5, AskedRecord
<1>7. AbstractRequests' = [AbstractRequests EXCEPT ![c] = AbstractRequests'[c]]
  BY <1>2, RequestsChange
<1>8. UNCHANGED AbstractResults
  BY <1>1, <1>2 DEF AbstractResults
<1>. QED  BY <1>1, <1>3, <1>4, <1>6, <1>7, <1>8 DEF AA!Ask

LEMMA ReturnReturns ==
    ASSUME IInv, NEW c \in Calls, Return(c)
    PROVE  AA!Return(c)
<1>1. /\ pc[c] = "unlock" /\ pc' = [pc EXCEPT ![c] = "idle"] /\ UNCHANGED <<dirs, seq, local>>
      /\ req' = [req EXCEPT ![c] = None] /\ result' = [result EXCEPT ![c] = Pending]
  BY DEF Return, Goto
<1>2. \A b \in Calls : (pc'[b] = "append" <=> pc[b] = "append") /\ (b # c => req'[b] = req[b])
  BY <1>1 DEF IInv, TypeOK
<1>3. UNCHANGED AbstractObjects
  BY <1>1, <1>2, ObjectsKept
<1>4. AbstractResults[c] # AA!Pending
  BY <1>1 DEF AbstractResults, IInv, DataInv, OpInv, Pending, Result, AA!Pending, AA!Answer
<1>5. AbstractRequests' = [AbstractRequests EXCEPT ![c] = None]
  <2>1. AbstractRequests'[c] = None
    BY <1>1 DEF AbstractRequests, IInv, TypeOK
  <2>. QED  BY <1>2, <2>1, RequestsChange
<1>6. AbstractResults' = [AbstractResults EXCEPT ![c] = AA!Pending]
  BY <1>1, <1>2 DEF AbstractResults, Pending, Result, AA!Pending, AA!Answer, IInv, TypeOK
<1>. QED  BY <1>1, <1>3, <1>4, <1>5, <1>6 DEF AA!Return

LEMMA StepRefines ==
    ASSUME IInv, IInv', Next
    PROVE  AA!Next \/ UNCHANGED AA!aclVars
<1>1. ASSUME NEW c \in Calls, NEW request \in Requests, Call(c, request) PROVE AA!Next
  BY <1>1, CallAsks DEF AA!Next
<1>2. ASSUME NEW c \in Calls, AskKey(c) \/ TakeKey(c) \/ TakeMu(c) \/ Unlock(c) PROVE UNCHANGED AA!aclVars
  BY <1>2, LockStepsStutter
<1>3. ASSUME NEW c \in Calls, Return(c) PROVE AA!Next
  BY <1>3, ReturnReturns DEF AA!Next
<1>4. ASSUME NEW c \in Calls, Nothing(c) \/ NotFound(c) \/ Get(c) \/ Grant(c) \/ Assign(c) \/ Delete(c) \/ Create(c)
      PROVE  AA!Next
  BY <1>4, NothingEffect, ReadEffect, GrantEffect, AssignEffect, DeleteEffect, CreateEffect DEF AA!Next
<1>5. ASSUME NEW c \in Calls, AppendNext(c) \/ GrantEnds(c) \/ Revoke(c) PROVE UNCHANGED AA!aclVars
  BY <1>5, AppendStutters, GrantEndsStutters, RevokeStutters
<1>. QED  BY <1>1, <1>2, <1>3, <1>4, <1>5 DEF Next, Body

(* The calls of the ACL service, working in steps and under two locks, are *)
(* seen by their callers as atomic operations on sets of keys (acl.go): no *)
(* grant, revocation or read sees or overwrites half of another.           *)
THEOREM Refinement == Spec => ImplementsAtomicACL
<1>1. Init => AA!Init
  <2>. SUFFICES ASSUME Init PROVE AA!Init
    OBVIOUS
  <2>1. DOMAIN dirs = {} /\ seq = 0 /\ \A c \in Calls : req[c] = None /\ pc[c] = "idle" /\ result[c] = Pending
    BY DEF Init
  <2>2. AbstractObjects = [d \in {} |-> None]
    BY <2>1 DEF AbstractObjects
  <2>3. AbstractRequests = [c \in Calls |-> None] /\ AbstractResults = [c \in Calls |-> AA!Pending]
    BY <2>1 DEF AbstractRequests, AbstractResults, Pending, Result, AA!Pending, AA!Answer
  <2>. QED  BY <2>1, <2>2, <2>3 DEF AA!Init
<1>2. IInv /\ IInv' /\ [Next]_vars => [AA!Next]_(AA!aclVars)
  <2>1. UNCHANGED vars => UNCHANGED AA!aclVars
    <3>. SUFFICES ASSUME UNCHANGED vars PROVE UNCHANGED AA!aclVars
      OBVIOUS
    <3>1. UNCHANGED AbstractObjects
      BY ObjectsKept DEF vars
    <3>2. UNCHANGED AbstractRequests /\ UNCHANGED AbstractResults
      BY DEF vars, AbstractRequests, AbstractResults, KeysOf
    <3>. QED  BY <3>1, <3>2 DEF vars, AA!aclVars
  <2>. QED  BY <2>1, StepRefines
<1>. QED  BY <1>1, <1>2, Invariance, PTL DEF Spec, ImplementsAtomicACL, AA!Spec
=============================================================================
