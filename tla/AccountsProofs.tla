--------------------------- MODULE AccountsProofs ---------------------------
(***************************************************************************)
(* Machine-checked proofs about Accounts, for any DNs, passwords, lists of *)
(* principals and intervals, and any number of accounts and rotations.     *)
(*                                                                         *)
(* An interval can only be fixed if a GUID names one account, which is so  *)
(* because GUIDs are handed out in turn (UniqueGuids); the recorder holds  *)
(* the passwords accepted because each call that appends to the one        *)
(* appends to the other (RotateStep); a call that fails has changed        *)
(* nothing because one that can still fail has not begun to (UnderWay).    *)
(***************************************************************************)
EXTENDS Accounts, Integers, SequenceTheorems, TLAPS

(* A GUID names one account. *)
UniqueGuids == \A d, e \in DOMAIN byDN : byDN[d].guid = byDN[e].guid => d = e

(* A map of accounts at known DNs, by different GUIDs of 1 .. n. *)
IsStore(f, n) ==
    /\ DOMAIN f \subseteq DNs
    /\ \A d \in DOMAIN f : f[d] \in Accounts /\ f[d].guid <= n
    /\ \A d, e \in DOMAIN f : f[d].guid = f[e].guid => d = e

(* What a call leaves to be seen by whoever looks at the store meanwhile.  *)
UnderWay ==
    /\ call # Idle => outcome = "none" /\ ~changed /\ (call.op = "create" => seq < MaxSeq)
    /\ FailuresChangeNothing

IInv == TypeOK /\ UniqueGuids /\ RotationsRecorded /\ UnderWay

(* What every step does to changed. *)
Observed == changed' = ((call # Idle /\ changed) \/ data' # data)

-----------------------------------------------------------------------------
(* Dereferencing a pointer gives the value it points to. *)
LEMMA DerefValue == ASSUME NEW v PROVE Deref({v}) = v
BY DEF Deref

LEMMA PointerCases ==
    ASSUME NEW S, NEW p \in Pointers(S), p # Nil
    PROVE  Deref(p) \in S /\ p = {Deref(p)}
<1>1. PICK v \in S : p = {v}
  BY DEF Pointers
<1>. QED  BY <1>1, DerefValue

(* The flags that a spec leaves on an account are flags. *)
LEMMA AppliedFlags ==
    ASSUME NEW flags \in [Flags -> BOOLEAN], NEW spec \in [Flags -> Pointers(BOOLEAN)]
    PROVE  Applied(flags, spec) \in [Flags -> BOOLEAN]
<1>1. ASSUME NEW f \in Flags PROVE (IF spec[f] = Nil THEN flags[f] ELSE Deref(spec[f])) \in BOOLEAN
  <2>1. CASE spec[f] = Nil
    BY <2>1
  <2>2. CASE spec[f] # Nil
    BY <2>2, PointerCases
  <2>. QED  BY <2>1, <2>2
<1>. QED  BY <1>1 DEF Applied

(* What a spec lists are identities, and its interval is one of a spec. *)
LEMMA ListedIdentities ==
    ASSUME call \in Calls PROVE Listed \in Seq(Identities)
<1>1. call.spec.principals \in Pointers(PrincipalLists)
  BY DEF Calls, MachineSpecs
<1>2. CASE call.spec.principals = Nil
  BY <1>2 DEF Listed
<1>3. CASE call.spec.principals # Nil
  <2>1. Deref(call.spec.principals) \in PrincipalLists
    BY <1>1, <1>3, PointerCases
  <2>. QED  BY <1>3, <2>1, AccountConstants DEF Listed
<1>. QED  BY <1>2, <1>3

(* A call under way is not the absence of one. *)
LEMMA CallsAreBusy == Idle \notin Calls
BY DEF Idle, Calls

(* An account added at a free DN with the next GUID, one moved, or some    *)
(* deleted leave a map of accounts with GUIDs of their own.                *)
LEMMA WithStore ==
    ASSUME NEW n \in Nat, IsStore(byDN, n), NEW d \in DNs, d \notin DOMAIN byDN,
           NEW o \in Accounts, o.guid = n + 1
    PROVE  IsStore(With(d, o), n + 1)
<1>1. \A e \in DOMAIN byDN : byDN[e].guid \in Nat
  BY DEF IsStore, Accounts, Guids
<1>. QED  BY <1>1 DEF IsStore, With

LEMMA MovedStore ==
    ASSUME NEW n \in Nat, IsStore(byDN, n), NEW d \in DOMAIN byDN, NEW to \in DNs,
           NEW o \in Accounts, o.guid = byDN[d].guid
    PROVE  IsStore(Moved(d, to, o), n)
BY DEF IsStore, Moved

(* The state predicates are those of the map. *)
LEMMA StoreIs ==
    ASSUME TypeOK, UniqueGuids PROVE IsStore(byDN, seq) /\ seq \in Nat
BY DEF IsStore, TypeOK, UniqueGuids

-----------------------------------------------------------------------------
(* A history that grows at both ends of its definition remains one: the    *)
(* new password is the last accepted, and the last of the account.         *)
LEMMA HistoryGrows ==
    ASSUME NEW log \in Seq(Guids \X Passwords), NEW g \in Guids, NEW p \in Passwords,
           NEW h \in Seq(Passwords), IsHistory(g, h, log)
    PROVE  IsHistory(g, Append(h, p), Append(log, <<g, p>>))
<1>. DEFINE n == Len(h)
            m == Len(log)
            k == Append(h, p)
            l == Append(log, <<g, p>>)
<1>1. PICK at \in [DOMAIN h -> DOMAIN log] : ArePlaces(at, g, h, log)
  BY DEF IsHistory
<1>2. n \in Nat /\ m \in Nat /\ DOMAIN h = 1 .. n /\ DOMAIN log = 1 .. m
  OBVIOUS
<1>3. /\ DOMAIN k = 1 .. n + 1 /\ k[n + 1] = p
      /\ \A i \in 1 .. n : k[i] = h[i]
  OBVIOUS
<1>4. /\ DOMAIN l = 1 .. m + 1 /\ l[m + 1] = <<g, p>>
      /\ \A i \in 1 .. m : l[i] = log[i]
  OBVIOUS
<1>. DEFINE bt == [i \in 1 .. n + 1 |-> IF i = n + 1 THEN m + 1 ELSE at[i]]
<1>5. /\ at \in [1 .. n -> 1 .. m]
      /\ \A i, j \in 1 .. n : i < j => at[i] < at[j]
      /\ \A i \in 1 .. n : log[at[i]] = <<g, h[i]>>
      /\ \A r \in 1 .. m : log[r][1] = g => \E i \in 1 .. n : at[i] = r
  BY <1>1, <1>2 DEF ArePlaces
<1>. HIDE DEF n, m, k, l
<1>6. bt \in [DOMAIN k -> DOMAIN l]
  BY <1>2, <1>3, <1>4, <1>5
<1>7. \A i, j \in 1 .. n + 1 : i < j => bt[i] < bt[j]
  BY <1>2, <1>5
<1>8. \A i \in 1 .. n + 1 : l[bt[i]] = <<g, k[i]>>
  BY <1>2, <1>3, <1>4, <1>5
<1>9. ASSUME NEW r \in 1 .. m + 1, l[r][1] = g
      PROVE  \E i \in 1 .. n + 1 : bt[i] = r
  <2>1. CASE r = m + 1
    <3>1. n + 1 \in 1 .. n + 1 /\ bt[n + 1] = r
      BY <2>1, <1>2
    <3>. QED  BY <3>1
  <2>2. CASE r # m + 1
    <3>1. r \in 1 .. m /\ log[r][1] = g
      BY <2>2, <1>2, <1>4, <1>9
    <3>2. PICK i \in 1 .. n : at[i] = r
      BY <1>5, <3>1
    <3>3. i \in 1 .. n + 1 /\ bt[i] = r
      BY <1>2, <3>2
    <3>. QED  BY <3>3
  <2>. QED  BY <2>1, <2>2
<1>. HIDE DEF bt
<1>10. ArePlaces(bt, g, k, l)
  BY <1>3, <1>4, <1>7, <1>8, <1>9 DEF ArePlaces
<1>11. IsHistory(g, k, l)
  BY <1>6, <1>10 DEF IsHistory
<1>. QED  BY <1>11 DEF k, l

(* The history of another account remains one. *)
LEMMA HistoryStays ==
    ASSUME NEW log \in Seq(Guids \X Passwords), NEW g \in Guids, NEW e \in Guids, e # g,
           NEW p \in Passwords, NEW h \in Seq(Passwords), IsHistory(e, h, log)
    PROVE  IsHistory(e, h, Append(log, <<g, p>>))
<1>. DEFINE m == Len(log)
            l == Append(log, <<g, p>>)
<1>1. PICK at \in [DOMAIN h -> DOMAIN log] : ArePlaces(at, e, h, log)
  BY DEF IsHistory
<1>2. m \in Nat /\ DOMAIN log = 1 .. m
  OBVIOUS
<1>3. /\ DOMAIN l = 1 .. m + 1 /\ l[m + 1] = <<g, p>>
      /\ \A i \in 1 .. m : l[i] = log[i]
  OBVIOUS
<1>. HIDE DEF m, l
<1>4. at \in [DOMAIN h -> DOMAIN l]
  BY <1>2, <1>3
<1>5. ArePlaces(at, e, h, l)
  <2>1. \A i, j \in DOMAIN h : i < j => at[i] < at[j]
    BY <1>1 DEF ArePlaces
  <2>2. \A i \in DOMAIN h : l[at[i]] = <<e, h[i]>>
    BY <1>1, <1>2, <1>3 DEF ArePlaces
  <2>3. ASSUME NEW r \in DOMAIN l, l[r][1] = e PROVE \E i \in DOMAIN h : at[i] = r
    <3>1. r # m + 1
      BY <1>3, <2>3
    <3>2. r \in DOMAIN log /\ log[r][1] = e
      BY <1>2, <1>3, <2>3, <3>1
    <3>. QED  BY <1>1, <3>2 DEF ArePlaces
  <2>. QED  BY <2>1, <2>2, <2>3 DEF ArePlaces
<1>6. IsHistory(e, h, l)
  BY <1>4, <1>5 DEF IsHistory
<1>. QED  BY <1>6 DEF l

-----------------------------------------------------------------------------
(* What a call that records a password does to the recorder. *)
LEMMA RotateStep ==
    ASSUME TypeOK, RotationsRecorded, NEW guid \in Guids,
           NEW password \in Pointers(Passwords \cup {Empty}), Rotate(guid, password)
    PROVE  /\ passwords' \in [Guids -> Seq(Passwords)]
           /\ rotations' \in Seq(Guids \X Passwords)
           /\ RotationsRecorded'
<1>. USE DEF TypeOK
<1>1. CASE password \in {Nil, {Empty}}
  <2>1. \A p \in Passwords : {p} # Nil /\ {p} # {Empty}
    BY AccountConstants DEF Nil
  <2>2. passwords' = passwords /\ rotations' = rotations
    BY <1>1, <2>1 DEF Rotate, Recorded
  <2>. QED  BY <2>2 DEF RotationsRecorded
<1>2. CASE password \notin {Nil, {Empty}}
  <2>1. PICK p \in Passwords : password = {p}
    BY <1>2 DEF Pointers
  <2>2. /\ passwords' = [passwords EXCEPT ![guid] = Append(@, p)]
        /\ rotations' = Append(rotations, <<guid, p>>)
    BY <1>2, <2>1, DerefValue DEF Rotate, Recorded
  <2>3. ASSUME NEW g \in Guids PROVE IsHistory(g, passwords'[g], rotations')
    <3>1. IsHistory(g, passwords[g], rotations) /\ passwords[g] \in Seq(Passwords)
      BY DEF RotationsRecorded
    <3>2. CASE g = guid
      <4>1. passwords'[g] = Append(passwords[g], p)
        BY <2>2, <3>2
      <4>. QED  BY <2>2, <3>1, <3>2, <4>1, HistoryGrows
    <3>3. CASE g # guid
      <4>1. passwords'[g] = passwords[g]
        BY <2>2, <3>3
      <4>. QED  BY <2>2, <3>1, <3>3, <4>1, HistoryStays
    <3>. QED  BY <3>2, <3>3
  <2>4. <<guid, p>> \in Guids \X Passwords /\ Append(passwords[guid], p) \in Seq(Passwords)
    OBVIOUS
  <2>5. passwords' \in [Guids -> Seq(Passwords)]
    BY <2>2, <2>4
  <2>6. rotations' \in Seq(Guids \X Passwords)
    BY <2>2, <2>4
  <2>7. RotationsRecorded'
    BY <2>3 DEF RotationsRecorded
  <2>. QED  BY <2>5, <2>6, <2>7
<1>. QED  BY <1>1, <1>2

(* The invariant holds of a state whose map is a store, with its recorder. *)
LEMMA Assemble ==
    ASSUME NEW n \in 0 .. MaxSeq, seq' = n, IsStore(byDN', n), Succeed, Observed,
           passwords' \in [Guids -> Seq(Passwords)], rotations' \in Seq(Guids \X Passwords),
           RotationsRecorded'
    PROVE  IInv'
<1>1. call' = Idle /\ outcome' = "ok"
  BY DEF Succeed
<1>2. changed' \in BOOLEAN
  BY DEF Observed
<1>3. TypeOK' /\ UniqueGuids'
  BY <1>1, <1>2 DEF TypeOK, UniqueGuids, IsStore
<1>4. UnderWay'
  BY <1>1 DEF UnderWay, FailuresChangeNothing
<1>. QED  BY <1>3, <1>4 DEF IInv

LEMMA InitInv == Init => IInv
<1>. SUFFICES ASSUME Init PROVE IInv
  OBVIOUS
<1>. USE DEF Init
<1>1. TypeOK /\ UniqueGuids
  <2>1. <<>> \in Seq(Passwords) /\ rotations \in Seq(Guids \X Passwords)
    OBVIOUS
  <2>2. /\ DOMAIN byDN = {} /\ seq \in 0 .. MaxSeq
        /\ passwords \in [Guids -> Seq(Passwords)]
    BY <2>1, AccountConstants
  <2>. QED  BY <2>1, <2>2 DEF TypeOK, UniqueGuids
<1>2. ASSUME NEW g \in Guids PROVE IsHistory(g, passwords[g], rotations)
  <2>1. passwords[g] = <<>> /\ DOMAIN passwords[g] = {} /\ DOMAIN rotations = {}
    OBVIOUS
  <2>2. \E at : at \in [{} -> {}]
    <3>1. [i \in {} |-> i] \in [{} -> {}]
      OBVIOUS
    <3>. QED  BY <3>1
  <2>. QED  BY <2>1, <2>2 DEF IsHistory, ArePlaces
<1>3. UnderWay
  BY DEF UnderWay, FailuresChangeNothing
<1>. QED  BY <1>1, <1>2, <1>3 DEF IInv, RotationsRecorded

(* A step that changes nothing in the store leaves unchanged what has been *)
(* unchanged since the call under way began.                               *)
LEMMA StaysSilent ==
    ASSUME IInv, Observed, UNCHANGED data
    PROVE  ~changed'
BY DEF IInv, UnderWay, Observed

(* A call that fails ends with the store as it was. *)
LEMMA FailStep == ASSUME IInv, Fail, Observed PROVE IInv'
<1>1. call' = Idle /\ outcome' = "failed" /\ UNCHANGED <<byDN, seq, passwords, rotations>>
  BY DEF Fail, data
<1>2. changed' = FALSE
  BY StaysSilent DEF Fail, Observed
<1>3. TypeOK' /\ UniqueGuids' /\ RotationsRecorded'
  BY <1>1, <1>2 DEF IInv, TypeOK, UniqueGuids, RotationsRecorded
<1>4. UnderWay'
  BY <1>1, <1>2 DEF UnderWay, FailuresChangeNothing
<1>. QED  BY <1>3, <1>4 DEF IInv

(* A call that begins, or that looks up a principal, leaves the store and  *)
(* the recorder alone.                                                     *)
LEMMA LookupStep ==
    ASSUME IInv, Observed, UNCHANGED <<data, rotations>>, call' \in Calls, outcome' = "none",
           call'.op = "update" <=> call'.at \in DOMAIN byDN,
           call'.op = "create" => seq < MaxSeq
    PROVE  IInv'
<1>1. UNCHANGED <<byDN, seq, passwords, rotations>>
  BY DEF data
<1>2. changed' = FALSE
  BY StaysSilent DEF Observed
<1>3. TypeOK' /\ UniqueGuids' /\ RotationsRecorded'
  BY <1>1, <1>2 DEF IInv, TypeOK, UniqueGuids, RotationsRecorded
<1>4. UnderWay'
  BY <1>1, <1>2 DEF UnderWay, FailuresChangeNothing
<1>. QED  BY <1>3, <1>4 DEF IInv

LEMMA CreateUserStep ==
    ASSUME IInv, NEW d \in DNs, NEW spec \in UserSpecs, CreateUser(d, spec), Observed
    PROVE  IInv'
<1>1. CASE Fail
  BY <1>1, FailStep
<1>2. CASE ~Fail
  <2>. DEFINE fs == Applied([f \in Flags |-> f # "ChangePasswordAtLogon"], spec.flags)
              o  == [guid |-> seq + 1, class |-> "user", principals |-> <<>>, interval |-> 0,
                     flags |-> fs]
  <2>1. /\ d \notin DOMAIN byDN /\ seq < MaxSeq /\ seq' = seq + 1 /\ byDN' = With(d, o)
        /\ Rotate(seq + 1, spec.password) /\ Succeed
    BY <1>2 DEF CreateUser
  <2>2. /\ spec.flags \in [Flags -> Pointers(BOOLEAN)]
        /\ spec.password \in Pointers(Passwords \cup {Empty})
    BY DEF UserSpecs
  <2>3. fs \in [Flags -> BOOLEAN]
    BY <2>2, AppliedFlags
  <2>4. IsStore(byDN, seq) /\ seq \in Nat
    BY StoreIs DEF IInv
  <2>5. seq + 1 \in Guids
    BY <2>1, <2>4, AccountConstants DEF Guids
  <2>. HIDE DEF fs
  <2>6. o \in Accounts /\ o.guid = seq + 1
    BY <2>3, <2>5 DEF Accounts, Classes
  <2>. HIDE DEF o
  <2>7. IsStore(byDN', seq + 1)
    BY <2>1, <2>4, <2>6, WithStore
  <2>8. seq + 1 \in 0 .. MaxSeq
    BY <2>5, AccountConstants DEF Guids
  <2>9. /\ passwords' \in [Guids -> Seq(Passwords)] /\ rotations' \in Seq(Guids \X Passwords)
        /\ RotationsRecorded'
    BY <2>1, <2>2, <2>5, RotateStep DEF IInv
  <2>. QED  BY <2>1, <2>7, <2>8, <2>9, Assemble
<1>. QED  BY <1>1, <1>2

(* An Update moves one of the accounts, and it keeps its GUID. *)
LEMMA MovedInv ==
    ASSUME IInv, NEW d \in DOMAIN byDN, NEW to \in DNs, NEW o \in Accounts,
           o.guid = byDN[d].guid, byDN' = Moved(d, to, o), Succeed, Observed, UNCHANGED seq,
           passwords' \in [Guids -> Seq(Passwords)], rotations' \in Seq(Guids \X Passwords),
           RotationsRecorded'
    PROVE  IInv'
<1>1. IsStore(byDN, seq) /\ seq \in Nat
  BY StoreIs DEF IInv
<1>2. IsStore(byDN', seq)
  BY <1>1, MovedStore
<1>3. seq \in 0 .. MaxSeq
  BY DEF IInv, TypeOK
<1>. QED  BY <1>2, <1>3, Assemble

LEMMA UpdateUserStep ==
    ASSUME IInv, NEW id \in Identities, NEW to \in DNs, NEW spec \in UserSpecs,
           UpdateUser(id, to, spec), Observed
    PROVE  IInv'
<1>1. CASE Fail
  BY <1>1, FailStep
<1>2. CASE ~Fail
  <2>1. PICK d \in Targets("user", id) :
           /\ byDN' = Moved(d, to, [byDN[d] EXCEPT !.flags = Applied(@, spec.flags)])
           /\ Rotate(byDN[d].guid, spec.password) /\ Succeed /\ UNCHANGED seq
    BY <1>2 DEF UpdateUser
  <2>2. d \in DOMAIN byDN /\ byDN[d] \in Accounts
    BY DEF Targets, Found, IInv, TypeOK
  <2>3. /\ spec.flags \in [Flags -> Pointers(BOOLEAN)]
        /\ spec.password \in Pointers(Passwords \cup {Empty})
    BY DEF UserSpecs
  <2>. DEFINE fs == Applied(byDN[d].flags, spec.flags)
              o  == [byDN[d] EXCEPT !.flags = fs]
  <2>4. fs \in [Flags -> BOOLEAN] /\ byDN[d].guid \in Guids
    BY <2>2, <2>3, AppliedFlags DEF Accounts
  <2>5. byDN' = Moved(d, to, o)
    BY <2>1
  <2>. HIDE DEF fs
  <2>6. o \in Accounts /\ o.guid = byDN[d].guid
    BY <2>2, <2>4 DEF Accounts
  <2>7. /\ passwords' \in [Guids -> Seq(Passwords)] /\ rotations' \in Seq(Guids \X Passwords)
        /\ RotationsRecorded'
    BY <2>1, <2>3, <2>4, RotateStep DEF IInv
  <2>. HIDE DEF o
  <2>. QED  BY <2>1, <2>2, <2>5, <2>6, <2>7, MovedInv
<1>. QED  BY <1>1, <1>2

LEMMA SetPasswordStep ==
    ASSUME IInv, NEW id \in Identities, NEW password \in Passwords \cup {Empty},
           SetPassword(id, password), Observed
    PROVE  IInv'
<1>1. CASE Fail
  BY <1>1, FailStep
<1>2. CASE ~Fail
  <2>1. PICK d \in Targets("user", id) :
           Rotate(byDN[d].guid, {password}) /\ Succeed /\ UNCHANGED <<byDN, seq>>
    BY <1>2 DEF SetPassword
  <2>2. byDN[d].guid \in Guids
    BY DEF Targets, Found, IInv, TypeOK, Accounts
  <2>3. {password} \in Pointers(Passwords \cup {Empty})
    BY DEF Pointers
  <2>4. /\ passwords' \in [Guids -> Seq(Passwords)] /\ rotations' \in Seq(Guids \X Passwords)
        /\ RotationsRecorded'
    BY <2>1, <2>2, <2>3, RotateStep DEF IInv
  <2>5. IsStore(byDN', seq) /\ seq \in 0 .. MaxSeq
    BY <2>1, StoreIs DEF IInv, TypeOK
  <2>. QED  BY <2>1, <2>4, <2>5, Assemble
<1>. QED  BY <1>1, <1>2

(* Without a password to record, the recorder is as it was. *)
LEMMA RecorderSame ==
    ASSUME IInv, UNCHANGED <<passwords, rotations>>
    PROVE  /\ passwords' \in [Guids -> Seq(Passwords)]
           /\ rotations' \in Seq(Guids \X Passwords)
           /\ RotationsRecorded'
BY DEF IInv, TypeOK, RotationsRecorded

LEMMA BeginCreateStep ==
    ASSUME IInv, NEW class \in Machines, NEW d \in DNs, NEW spec \in MachineSpecs,
           BeginCreate(class, d, spec), Observed
    PROVE  IInv'
<1>1. CASE Fail
  BY <1>1, FailStep
<1>2. CASE ~Fail
  <2>1. /\ d \notin DOMAIN byDN /\ seq < MaxSeq /\ UNCHANGED <<data, rotations>> /\ outcome' = "none"
        /\ call' = [op |-> "create", class |-> class, at |-> d, to |-> d, spec |-> spec, out |-> <<>>]
    BY <1>2 DEF BeginCreate, Begin
  <2>2. call' \in Calls
    BY <2>1 DEF Calls
  <2>3. call'.op = "create" /\ call'.at \notin DOMAIN byDN
    BY <2>1 DEF data
  <2>. QED  BY <2>1, <2>2, <2>3, LookupStep
<1>. QED  BY <1>1, <1>2

LEMMA BeginUpdateStep ==
    ASSUME IInv, NEW class \in Machines, NEW id \in Identities, NEW to \in DNs,
           NEW spec \in MachineSpecs, BeginUpdate(class, id, to, spec), Observed
    PROVE  IInv'
<1>1. CASE Fail
  BY <1>1, FailStep
<1>2. CASE ~Fail
  <2>1. PICK d \in Targets(class, id) :
          /\ UNCHANGED <<data, rotations>> /\ outcome' = "none"
          /\ call' = [op |-> "update", class |-> class, at |-> d, to |-> to, spec |-> spec,
                      out |-> <<>>]
    BY <1>2 DEF BeginUpdate, Begin
  <2>2. d \in DOMAIN byDN /\ d \in DNs
    BY DEF Targets, Found, IInv, TypeOK
  <2>3. call' \in Calls
    BY <2>1, <2>2 DEF Calls
  <2>4. call'.op = "update" /\ call'.at \in DOMAIN byDN
    BY <2>1, <2>2 DEF data
  <2>. QED  BY <2>1, <2>3, <2>4, LookupStep
<1>. QED  BY <1>1, <1>2

LEMMA ResolveNextStep ==
    ASSUME IInv, ResolveNext, Observed
    PROVE  IInv'
<1>1. CASE Fail
  BY <1>1, FailStep
<1>2. CASE ~Fail
  <2>1. call \in Calls /\ call # Idle /\ outcome = "none"
    BY DEF ResolveNext, IInv, TypeOK, UnderWay
  <2>2. PICK d \in DOMAIN byDN :
          /\ call' = [call EXCEPT !.out = Append(@, byDN[d].guid)]
          /\ UNCHANGED <<data, outcome, rotations>>
    BY <1>2 DEF ResolveNext, Found
  <2>3. byDN[d].guid \in Guids
    BY DEF IInv, TypeOK, Accounts
  <2>. DEFINE out == Append(call.out, byDN[d].guid)
  <2>4. out \in Seq(Guids)
    BY <2>1, <2>3 DEF Calls
  <2>5. call' = [call EXCEPT !.out = out]
    BY <2>2
  <2>. HIDE DEF out
  <2>6. call' \in Calls /\ call'.op = call.op /\ call'.at = call.at
    BY <2>1, <2>4, <2>5 DEF Calls
  <2>7. /\ call.op = "update" <=> call.at \in DOMAIN byDN
        /\ call.op = "create" => seq < MaxSeq
    BY <2>1 DEF IInv, TypeOK, UnderWay
  <2>. QED  BY <2>1, <2>2, <2>6, <2>7, LookupStep DEF data
<1>. QED  BY <1>1, <1>2

LEMMA EndCreateStep ==
    ASSUME IInv, EndCreate, Observed
    PROVE  IInv'
<1>. DEFINE t == IF call.class = "computer" THEN 0
                 ELSE IF call.spec.interval = Nil THEN defaultManagedPasswordInterval
                 ELSE Deref(call.spec.interval)
            o == [guid |-> seq + 1, class |-> call.class, flags |-> [f \in Flags |-> FALSE],
                  principals |-> call.out, interval |-> t]
<1>1. /\ call # Idle /\ call.op = "create" /\ seq' = seq + 1 /\ byDN' = With(call.at, o)
      /\ Succeed /\ UNCHANGED <<passwords, rotations>>
  BY DEF EndCreate, Resolved
<1>2. call \in Calls /\ call.at \notin DOMAIN byDN /\ seq < MaxSeq
  BY <1>1 DEF IInv, TypeOK, UnderWay
<1>3. /\ call.out \in Seq(Guids) /\ call.at \in DNs /\ call.class \in Classes
      /\ call.spec.interval \in Pointers(Intervals)
  BY <1>2 DEF Calls, MachineSpecs, Classes
<1>4. t \in Intervals \cup {0, defaultManagedPasswordInterval}
  BY <1>3, PointerCases
<1>. HIDE DEF t
<1>5. IsStore(byDN, seq) /\ seq \in Nat
  BY StoreIs DEF IInv
<1>6. seq + 1 \in Guids /\ seq + 1 \in 0 .. MaxSeq
  BY <1>2, <1>5, AccountConstants DEF Guids
<1>7. [f \in Flags |-> FALSE] \in [Flags -> BOOLEAN]
  OBVIOUS
<1>8. o \in Accounts /\ o.guid = seq + 1
  BY <1>3, <1>4, <1>6, <1>7 DEF Accounts
<1>. HIDE DEF o
<1>9. IsStore(byDN', seq + 1)
  BY <1>1, <1>2, <1>3, <1>5, <1>8, WithStore
<1>. QED  BY <1>1, <1>6, <1>9, RecorderSame, Assemble

LEMMA EndUpdateStep ==
    ASSUME IInv, EndUpdate, Observed
    PROVE  IInv'
<1>. DEFINE d  == call.at
            ps == IF call.spec.principals = Nil THEN byDN[d].principals ELSE call.out
            o  == [byDN[d] EXCEPT !.principals = ps]
<1>1. /\ call # Idle /\ call.op = "update" /\ byDN' = Moved(d, call.to, o)
      /\ Succeed /\ UNCHANGED <<seq, passwords, rotations>>
  BY DEF EndUpdate, Resolved
<1>2. call \in Calls /\ d \in DOMAIN byDN /\ byDN[d] \in Accounts
  BY <1>1 DEF IInv, TypeOK
<1>3. call.out \in Seq(Guids) /\ call.to \in DNs
  BY <1>2 DEF Calls
<1>4. ps \in Seq(Guids)
  BY <1>2, <1>3 DEF Accounts
<1>. HIDE DEF ps
<1>5. o \in Accounts /\ o.guid = byDN[d].guid
  BY <1>2, <1>4 DEF Accounts
<1>. HIDE DEF o, d
<1>. QED  BY <1>1, <1>2, <1>3, <1>5, RecorderSame, MovedInv

LEMMA DeleteStep ==
    ASSUME IInv, NEW class \in Classes, NEW id \in Identities, Delete(class, id), Observed
    PROVE  IInv'
<1>1. IsStore(byDN, seq) /\ seq \in 0 .. MaxSeq
  BY StoreIs DEF IInv, TypeOK
<1>2. /\ byDN' = [d \in DOMAIN byDN \ Targets(class, id) |-> byDN[d]]
      /\ Succeed /\ UNCHANGED <<seq, passwords, rotations>>
  BY DEF Delete
<1>3. IsStore(byDN', seq)
  BY <1>1, <1>2 DEF IsStore
<1>. QED  BY <1>1, <1>2, <1>3, RecorderSame, Assemble

LEMMA StartInv ==
    ASSUME IInv, Start, Observed PROVE IInv'
<1>1. ASSUME NEW d \in DNs, NEW spec \in UserSpecs, CreateUser(d, spec) PROVE IInv'
  BY <1>1, CreateUserStep
<1>2. ASSUME NEW id \in Identities, NEW to \in DNs, NEW spec \in UserSpecs,
             UpdateUser(id, to, spec)
      PROVE  IInv'
  BY <1>2, UpdateUserStep
<1>3. ASSUME NEW id \in Identities, NEW password \in Passwords \cup {Empty},
             SetPassword(id, password)
      PROVE  IInv'
  BY <1>3, SetPasswordStep
<1>4. ASSUME NEW class \in Machines, NEW spec \in MachineSpecs, NEW d \in DNs,
             BeginCreate(class, d, spec)
      PROVE  IInv'
  BY <1>4, BeginCreateStep
<1>5. ASSUME NEW class \in Machines, NEW spec \in MachineSpecs, NEW id \in Identities,
             NEW to \in DNs, BeginUpdate(class, id, to, spec)
      PROVE  IInv'
  BY <1>5, BeginUpdateStep
<1>6. ASSUME NEW class \in Classes, NEW id \in Identities, Delete(class, id) PROVE IInv'
  BY <1>6, DeleteStep
<1>. QED  BY <1>1, <1>2, <1>3, <1>4, <1>5, <1>6 DEF Start

LEMMA NextInv == IInv /\ [Next]_vars => IInv'
<1>. SUFFICES ASSUME IInv, [Next]_vars PROVE IInv'
  OBVIOUS
<1>1. CASE Next
  <2>1. Observed /\ (Start \/ Continue)
    BY <1>1 DEF Next, Observed
  <2>. QED  BY <2>1, StartInv, ResolveNextStep, EndCreateStep, EndUpdateStep DEF Continue
<1>2. CASE UNCHANGED vars
  BY <1>2 DEF IInv, TypeOK, UniqueGuids, RotationsRecorded, UnderWay, FailuresChangeNothing, vars, data
<1>. QED  BY <1>1, <1>2

LEMMA Invariance == Spec => []IInv
BY InitInv, NextInv, PTL DEF Spec

-----------------------------------------------------------------------------
(* Every variable has its type: accounts are accounts, at known DNs, with  *)
(* GUIDs handed out before; principals are GUIDs (applyComputerSpec).      *)
THEOREM TypeCorrect == Spec => []TypeOK
<1>1. IInv => TypeOK
  BY DEF IInv
<1>. QED  BY <1>1, Invariance, PTL

(* The recorder holds the passwords accepted for a GUID, those alone, in   *)
(* the order of the calls, whatever became of the account (Recorder).      *)
THEOREM RecorderComplete == Spec => []RotationsRecorded
<1>1. IInv => RotationsRecorded
  BY DEF IInv
<1>. QED  BY <1>1, Invariance, PTL

(* A call that returns an error leaves the store and the recorder as they  *)
(* were when it began, wherever in its course it fails: nothing is changed *)
(* while a principal can still be unknown (computer.go:167-186).           *)
THEOREM FailuresAreSilent == Spec => []FailuresChangeNothing
<1>1. IInv => FailuresChangeNothing
  BY DEF IInv, UnderWay
<1>. QED  BY <1>1, Invariance, PTL

-----------------------------------------------------------------------------
(* The account of a GUID has the interval it had, before and after. *)
KeepsIntervals ==
    \A d \in DOMAIN byDN : \A e \in DOMAIN byDN' :
        byDN[d].guid = byDN'[e].guid => byDN[d].interval = byDN'[e].interval

LEMMA CreationKeeps ==
    ASSUME IInv, NEW d, NEW o, o.guid = seq + 1, byDN' = With(d, o)
    PROVE  KeepsIntervals
<1>1. \A e \in DOMAIN byDN : byDN[e].guid \in Nat /\ byDN[e].guid <= seq
  BY DEF IInv, TypeOK, Accounts, Guids
<1>2. seq \in Nat
  BY StoreIs DEF IInv
<1>. QED  BY <1>1, <1>2 DEF With, KeepsIntervals, IInv, UniqueGuids

LEMMA MoveKeeps ==
    ASSUME IInv, NEW d \in DOMAIN byDN, NEW to, NEW o, o.guid = byDN[d].guid,
           o.interval = byDN[d].interval, byDN' = Moved(d, to, o)
    PROVE  KeepsIntervals
BY DEF Moved, KeepsIntervals, IInv, UniqueGuids

LEMMA SameKeeps == ASSUME IInv, byDN' = byDN PROVE KeepsIntervals
BY DEF KeepsIntervals, IInv, UniqueGuids

(* The password interval of an account is that of its creation, whatever   *)
(* Updates ask for and wherever they move it (applyGMSASpec).              *)
THEOREM IntervalIsFixed == Spec => IntervalFixed
<1>1. ASSUME IInv, Next PROVE KeepsIntervals
  <2>1. CASE Fail
    BY <1>1, <2>1, SameKeeps DEF Fail, data
  <2>2. ASSUME NEW d \in DNs, NEW spec \in UserSpecs, CreateUser(d, spec), ~Fail
        PROVE  KeepsIntervals
    <3>. DEFINE o == [guid |-> seq + 1, class |-> "user", principals |-> <<>>, interval |-> 0,
                      flags |-> Applied([f \in Flags |-> f # "ChangePasswordAtLogon"], spec.flags)]
    <3>1. byDN' = With(d, o) /\ o.guid = seq + 1
      BY <2>2 DEF CreateUser
    <3>. HIDE DEF o
    <3>. QED  BY <1>1, <3>1, CreationKeeps
  <2>3. ASSUME NEW id \in Identities, NEW to \in DNs, NEW spec \in UserSpecs,
               UpdateUser(id, to, spec), ~Fail
        PROVE  KeepsIntervals
    <3>1. PICK d \in Targets("user", id) :
             byDN' = Moved(d, to, [byDN[d] EXCEPT !.flags = Applied(@, spec.flags)])
      BY <2>3 DEF UpdateUser
    <3>2. d \in DOMAIN byDN /\ byDN[d] \in Accounts
      BY <1>1 DEF Targets, Found, IInv, TypeOK
    <3>. DEFINE o == [byDN[d] EXCEPT !.flags = Applied(@, spec.flags)]
    <3>3. o.guid = byDN[d].guid /\ o.interval = byDN[d].interval
      BY <3>2 DEF Accounts
    <3>. HIDE DEF o
    <3>4. byDN' = Moved(d, to, o)
      BY <3>1 DEF o
    <3>. QED  BY <1>1, <3>2, <3>3, <3>4, MoveKeeps
  <2>4. ASSUME NEW id \in Identities, NEW password \in Passwords \cup {Empty},
               SetPassword(id, password)
        PROVE  KeepsIntervals
    <3>1. byDN' = byDN
      BY <2>4 DEF SetPassword, Fail, data
    <3>. QED  BY <1>1, <3>1, SameKeeps
  <2>5. ASSUME EndCreate PROVE KeepsIntervals
    <3>1. PICK o : byDN' = With(call.at, o) /\ o.guid = seq + 1
      <4>. DEFINE o == [guid |-> seq + 1, class |-> call.class, flags |-> [f \in Flags |-> FALSE],
                        principals |-> call.out,
                        interval |-> IF call.class = "computer" THEN 0
                                     ELSE IF call.spec.interval = Nil
                                          THEN defaultManagedPasswordInterval
                                          ELSE Deref(call.spec.interval)]
      <4>1. byDN' = With(call.at, o) /\ o.guid = seq + 1
        BY <2>5 DEF EndCreate
      <4>. HIDE DEF o
      <4>. QED  BY <4>1
    <3>. QED  BY <1>1, <3>1, CreationKeeps
  <2>6. ASSUME EndUpdate PROVE KeepsIntervals
    <3>1. PICK ps : byDN' = Moved(call.at, call.to, [byDN[call.at] EXCEPT !.principals = ps])
      BY <2>6 DEF EndUpdate
    <3>2. call.at \in DOMAIN byDN /\ byDN[call.at] \in Accounts
      BY <1>1, <2>6 DEF EndUpdate, Resolved, IInv, TypeOK
    <3>. DEFINE o == [byDN[call.at] EXCEPT !.principals = ps]
    <3>3. o.guid = byDN[call.at].guid /\ o.interval = byDN[call.at].interval
      BY <3>2 DEF Accounts
    <3>. HIDE DEF o
    <3>4. byDN' = Moved(call.at, call.to, o)
      BY <3>1 DEF o
    <3>. QED  BY <1>1, <3>2, <3>3, <3>4, MoveKeeps
  <2>7. ASSUME NEW class \in Classes, NEW id \in Identities, Delete(class, id)
        PROVE  KeepsIntervals
    BY <1>1, <2>7 DEF Delete, KeepsIntervals, IInv, UniqueGuids
  <2>8. ASSUME UNCHANGED data PROVE KeepsIntervals
    BY <1>1, <2>8, SameKeeps DEF data
  <2>9. Start => KeepsIntervals
    BY <2>1, <2>2, <2>3, <2>4, <2>7, <2>8 DEF Start, BeginCreate, BeginUpdate
  <2>10. Continue => KeepsIntervals
    BY <2>1, <2>5, <2>6, <2>8 DEF Continue, ResolveNext, data
  <2>. QED  BY <1>1, <2>9, <2>10 DEF Next
<1>2. IInv /\ [Next]_vars => [KeepsIntervals]_vars
  BY <1>1
<1>3. Spec => [][KeepsIntervals]_vars
  BY <1>2, Invariance, PTL DEF Spec
<1>. QED  BY <1>3 DEF IntervalFixed, KeepsIntervals
=============================================================================
