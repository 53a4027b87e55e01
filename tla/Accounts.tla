------------------------------ MODULE Accounts ------------------------------
(***************************************************************************)
(* Users, computers and group managed service accounts in src/adcorefake:  *)
(* what their specs ask for and what their models become.  A field of a    *)
(* spec is nil (leave alone) or a value; principals are resolved to GUIDs  *)
(* or the call fails; passwords that calls carry are recorded by GUID.     *)
(*                                                                         *)
(* Of a user's fields the three flags that UserSpec.Validate relates are   *)
(* kept, of a machine's its principals and its password interval; the      *)
(* others are assigned like the flags.  DNs are atoms, an identity is a    *)
(* GUID or a DN.  A call has store.mu throughout.  One that cannot fail    *)
(* once it has begun to change anything, or to look principals up, is one  *)
(* action; a Create or Update of a machine begins, looks its principals up *)
(* one by one, any of which may end it, and then has its effect.           *)
(***************************************************************************)
EXTENDS Naturals, Sequences

CONSTANTS
    DNs,            \* the distinguished names accounts may have
    MaxSeq,         \* bound on the accounts ever created
    Passwords,      \* the passwords callers send, Empty apart
    Empty,          \* the zero Secret
    MaxRotations,   \* bound on the passwords ever recorded
    PrincipalLists, \* the lists of principals a spec may carry
    Intervals       \* the intervals a service account's spec may carry

Guids == 1 .. MaxSeq

Identities == [form : {"guid"}, arg : Guids] \cup [form : {"dn"}, arg : DNs]

ASSUME AccountConstants ==
    /\ MaxSeq \in Nat /\ MaxRotations \in Nat
    /\ Empty \notin Passwords
    /\ PrincipalLists \subseteq Seq(Identities) /\ Intervals \subseteq Nat

VARIABLES
    byDN,       \* byDN[d]: the account whose DN is d
    seq,        \* the number of GUIDs handed out
    passwords,  \* passwords[g]: the passwords recorded for GUID g
    call,       \* the Create or Update of a machine that holds store.mu
    outcome,    \* how the last call ended, or "none" while one is under way
    rotations,  \* history: the passwords accepted, each with its account
    changed     \* history: the last call, or the one under way, changed something

data == <<byDN, seq, passwords>>
vars == <<data, call, outcome, rotations, changed>>

Machines == {"computer", "gmsa"}
Classes  == {"user"} \cup Machines
Flags    == {"ChangePasswordAtLogon", "CanChangePassword", "PasswordExpires"}

defaultManagedPasswordInterval == 30

Accounts == [guid : Guids, class : Classes, flags : [Flags -> BOOLEAN], principals : Seq(Guids),
             interval : Intervals \cup {0, defaultManagedPasswordInterval}]

(* A pointer: nil or a value, as a set. *)
Nil == {}
Pointers(S) == {Nil} \cup {{v} : v \in S}
Deref(p) == CHOOSE v \in p : TRUE

UserSpecs    == [flags : [Flags -> Pointers(BOOLEAN)], password : Pointers(Passwords \cup {Empty})]
MachineSpecs == [principals : Pointers(PrincipalLists), interval : Pointers(Intervals)]

Idle == [op |-> "idle"]

(* at is the DN of the account or, of one to be created, its DN to be; out *)
(* is what resolvePrincipalsLocked has put together.                       *)
Calls == [op : {"create", "update"}, class : Machines, at : DNs, to : DNs, spec : MachineSpecs,
          out : Seq(Guids)]

TypeOK ==
    /\ DOMAIN byDN \subseteq DNs
    /\ \A d \in DOMAIN byDN : byDN[d] \in Accounts /\ byDN[d].guid <= seq
    /\ seq \in 0 .. MaxSeq
    /\ passwords \in [Guids -> Seq(Passwords)]
    /\ call \in Calls \cup {Idle}
    /\ call # Idle => (call.op = "update" <=> call.at \in DOMAIN byDN)
    /\ outcome \in {"ok", "failed", "none"} /\ changed \in BOOLEAN
    /\ rotations \in Seq(Guids \X Passwords)

Init ==
    /\ byDN = [d \in {} |-> <<>>] /\ seq = 0
    /\ passwords = [g \in Guids |-> <<>>]
    /\ call = Idle /\ outcome = "ok"
    /\ rotations = <<>> /\ changed = FALSE

-----------------------------------------------------------------------------
Found(id) == {d \in DOMAIN byDN : IF id.form = "guid" THEN byDN[d].guid = id.arg ELSE d = id.arg}

Targets(class, id) == {d \in Found(id) : byDN[d].class = class}

With(d, o) == [e \in DOMAIN byDN \cup {d} |-> IF e = d THEN o ELSE byDN[e]]

(* An Update that moves the account: one already at the new DN is lost. *)
Moved(d, to, o) == [e \in (DOMAIN byDN \ {d}) \cup {to} |-> IF e = to THEN o ELSE byDN[e]]

Fail == outcome' = "failed" /\ call' = Idle /\ UNCHANGED <<data, rotations>>

Succeed == outcome' = "ok" /\ call' = Idle

(* applyUserSpec: if src != nil { dst = *src }, for every field. *)
Applied(flags, spec) == [f \in Flags |-> IF spec[f] = Nil THEN flags[f] ELSE Deref(spec[f])]

(* Rule 7 of UserSpec.Validate, on one spec. *)
ValidFlags(spec) ==
    spec["ChangePasswordAtLogon"] = {TRUE} =>
        spec["PasswordExpires"] # {FALSE} /\ spec["CanChangePassword"] # {FALSE}

(* Mutants of Recorded: an empty password is recorded; the last password   *)
(* replaces those before.                                                  *)
RecordedEmpty(history, password) ==
    IF password = Nil THEN history ELSE Append(history, Deref(password))

RecordedLast(history, password) ==
    IF password \in {Nil, {Empty}} THEN history ELSE <<Deref(password)>>

(* recordPasswordLocked: neither nil nor an empty password is recorded. *)
Recorded(history, password) ==
    IF password \in {Nil, {Empty}} THEN history ELSE Append(history, Deref(password))

(* The passwords a call records, and the history of those it carried. *)
Rotate(guid, password) ==
    /\ passwords' = [passwords EXCEPT ![guid] = Recorded(@, password)]
    /\ rotations' = IF password \in {{p} : p \in Passwords}
                    THEN Append(rotations, <<guid, Deref(password)>>) ELSE rotations
    /\ Len(rotations') <= MaxRotations

-----------------------------------------------------------------------------
CreateUser(d, spec) ==
    \/ /\ ~ValidFlags(spec.flags) \/ d \in DOMAIN byDN
       /\ Fail
    \/ /\ ValidFlags(spec.flags) /\ d \notin DOMAIN byDN /\ seq < MaxSeq
       /\ seq' = seq + 1
       /\ byDN' = With(d, [guid |-> seq + 1, class |-> "user", principals |-> <<>>, interval |-> 0,
                           flags |-> Applied([f \in Flags |-> f # "ChangePasswordAtLogon"], spec.flags)])
       /\ Rotate(seq + 1, spec.password)
       /\ Succeed

UpdateUser(id, to, spec) ==
    \/ /\ ~ValidFlags(spec.flags) \/ Targets("user", id) = {}
       /\ Fail
    \/ /\ ValidFlags(spec.flags)
       /\ \E d \in Targets("user", id) :
             /\ byDN' = Moved(d, to, [byDN[d] EXCEPT !.flags = Applied(@, spec.flags)])
             /\ Rotate(byDN[d].guid, spec.password)
       /\ Succeed
       /\ UNCHANGED seq

SetPassword(id, password) ==
    \/ /\ password = Empty \/ Targets("user", id) = {}
       /\ Fail
    \/ /\ password # Empty
       /\ \E d \in Targets("user", id) : Rotate(byDN[d].guid, {password})
       /\ Succeed
       /\ UNCHANGED <<byDN, seq>>

-----------------------------------------------------------------------------
(* The principals of the spec; nil is none to look up. *)
Listed == IF call.spec.principals = Nil THEN <<>> ELSE Deref(call.spec.principals)

(* Create and Update of a machine, up to resolvePrincipalsLocked. *)
Begin(op, class, at, to, spec) ==
    /\ call' = [op |-> op, class |-> class, at |-> at, to |-> to, spec |-> spec, out |-> <<>>]
    /\ outcome' = "none"
    /\ UNCHANGED rotations

BeginCreate(class, d, spec) ==
    \/ d \in DOMAIN byDN /\ Fail
    \/ d \notin DOMAIN byDN /\ seq < MaxSeq /\ Begin("create", class, d, d, spec) /\ UNCHANGED data

(* Mutant of BeginUpdate: the account is moved before its principals are   *)
(* looked up.                                                              *)
BeginUpdateMovesFirst(class, id, to, spec) ==
    \E d \in Targets(class, id) :
        /\ Begin("update", class, to, to, spec)
        /\ byDN' = Moved(d, to, byDN[d])
        /\ UNCHANGED <<seq, passwords>>

BeginUpdate(class, id, to, spec) ==
    \/ Targets(class, id) = {} /\ Fail
    \/ \E d \in Targets(class, id) : Begin("update", class, d, to, spec) /\ UNCHANGED data

(* One iteration of resolvePrincipalsLocked: one that names nothing fails  *)
(* the call, whatever was found before it.                                 *)
ResolveNext ==
    /\ call # Idle /\ Len(call.out) < Len(Listed)
    /\ LET found == Found(Listed[Len(call.out) + 1]) IN
       \/ found = {} /\ Fail
       \/ \E d \in found :
             /\ call' = [call EXCEPT !.out = Append(@, byDN[d].guid)]
             /\ UNCHANGED <<data, outcome, rotations>>

Resolved == call # Idle /\ Len(call.out) = Len(Listed)

(* Nil principals are none, and a nil interval is the default. *)
EndCreate ==
    /\ Resolved /\ call.op = "create"
    /\ seq' = seq + 1
    /\ byDN' = With(call.at,
          [guid |-> seq + 1, class |-> call.class, flags |-> [f \in Flags |-> FALSE],
           principals |-> call.out,
           interval |-> IF call.class = "computer" THEN 0
                        ELSE IF call.spec.interval = Nil THEN defaultManagedPasswordInterval
                        ELSE Deref(call.spec.interval)])
    /\ Succeed
    /\ UNCHANGED <<passwords, rotations>>

(* Mutant of EndUpdate: the interval is applied. *)
EndUpdateInterval ==
    /\ Resolved /\ call.op = "update"
    /\ byDN' = Moved(call.at, call.to, [byDN[call.at] EXCEPT
                  !.interval = IF call.spec.interval = Nil THEN @ ELSE Deref(call.spec.interval)])
    /\ Succeed
    /\ UNCHANGED <<seq, passwords, rotations>>

(* Nil principals are left alone, an empty list replaces them; the         *)
(* interval of the spec is ignored.                                        *)
EndUpdate ==
    /\ Resolved /\ call.op = "update"
    /\ byDN' = Moved(call.at, call.to, [byDN[call.at] EXCEPT
                  !.principals = IF call.spec.principals = Nil THEN @ ELSE call.out])
    /\ Succeed
    /\ UNCHANGED <<seq, passwords, rotations>>

(* An account that is not there, or of another class, is not an error. *)
Delete(class, id) ==
    /\ byDN' = [d \in DOMAIN byDN \ Targets(class, id) |-> byDN[d]]
    /\ Succeed
    /\ UNCHANGED <<seq, passwords, rotations>>

(* What starts when store.mu is free. *)
Start ==
    \/ \E d \in DNs, spec \in UserSpecs : CreateUser(d, spec)
    \/ \E id \in Identities, to \in DNs, spec \in UserSpecs : UpdateUser(id, to, spec)
    \/ \E id \in Identities, password \in Passwords \cup {Empty} : SetPassword(id, password)
    \/ \E class \in Machines, spec \in MachineSpecs :
          \/ \E d \in DNs : BeginCreate(class, d, spec)
          \/ \E id \in Identities, to \in DNs : BeginUpdate(class, id, to, spec)
    \/ \E class \in Classes, id \in Identities : Delete(class, id)

Continue == ResolveNext \/ EndCreate \/ EndUpdate

Next ==
    /\ (call = Idle /\ Start) \/ Continue
    /\ changed' = ((call # Idle /\ changed) \/ data' # data)

Spec == Init /\ [][Next]_vars

-----------------------------------------------------------------------------
(* A call that returns an error has changed nothing since it began, though *)
(* it fails after its account was found and some of its principals were    *)
(* (computer.go:167-173): neither an account, nor its place, nor a GUID    *)
(* handed out, nor a password.                                             *)
FailuresChangeNothing == outcome = "failed" => ~changed

(* An account keeps the password interval it was created with through      *)
(* every update and move (applyGMSASpec leaves it out).                    *)
IntervalFixed ==
    [][\A d \in DOMAIN byDN : \A e \in DOMAIN byDN' :
          byDN[d].guid = byDN'[e].guid => byDN[d].interval = byDN'[e].interval]_vars

(* history is the passwords of GUID g in log, a sequence of passwords each *)
(* with its account: at[i] is the place there of the i-th.                 *)
ArePlaces(at, g, history, log) ==
    /\ \A i, j \in DOMAIN history : i < j => at[i] < at[j]
    /\ \A i \in DOMAIN history : log[at[i]] = <<g, history[i]>>
    /\ \A k \in DOMAIN log : log[k][1] = g => \E i \in DOMAIN history : at[i] = k

IsHistory(g, history, log) == \E at \in [DOMAIN history -> DOMAIN log] : ArePlaces(at, g, history, log)

(* The recorder holds every password accepted for an account, in order,    *)
(* none of another's, and still does once the account is renamed, deleted  *)
(* or replaced by one of the same DN (recordPasswordLocked, SetPassword).  *)
RotationsRecorded == \A g \in Guids : IsHistory(g, passwords[g], rotations)

(* No user is required to change a password that never expires, or one     *)
(* they may not change (rule 7 of UserSpec.Validate, across calls).        *)
RuleSeven ==
    \A d \in DOMAIN byDN :
        byDN[d].class = "user" /\ byDN[d].flags["ChangePasswordAtLogon"] =>
            byDN[d].flags["PasswordExpires"] /\ byDN[d].flags["CanChangePassword"]
=============================================================================
