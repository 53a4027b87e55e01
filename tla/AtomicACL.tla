------------------------------ MODULE AtomicACL ------------------------------
(***************************************************************************)
(* What the ACL service promises concurrent callers: an object's explicit  *)
(* access-control entries are a set of canonical keys, Grant is union,     *)
(* Revoke is difference, Get reads the set, and every call has its effect  *)
(* at one instant between its start and its return, whichever identity it  *)
(* names the object by.  Objects come and go by Create and Delete.         *)
(***************************************************************************)
EXTENDS Naturals

CONSTANTS
    Calls,      \* the calls that may be in progress at once
    DNs,        \* the distinguished names objects may have
    Keys,       \* the canonical keys of access-control entries
    MaxSeq,     \* bound on the objects ever created
    None        \* no request

VARIABLES
    objects,    \* objects[d]: the object at DN d, its GUID and its entries
    made,       \* the number of objects ever created
    asked,      \* asked[c]: the request c has in progress, or None
    answer      \* answer[c]: the outcome c is about to return

aclVars == <<objects, made, asked, answer>>

Ops == {"grant", "revoke", "get", "create", "delete"}

Identities == [form : {"guid"}, arg : 1 .. MaxSeq] \cup [form : {"dn"}, arg : DNs]

Requests == [op : Ops, id : Identities, keys : SUBSET Keys]

Answer(outcome, keys) == [outcome |-> outcome, keys |-> keys]

Pending == Answer("pending", {})

Init ==
    /\ objects = [d \in {} |-> None]
    /\ made = 0
    /\ asked = [c \in Calls |-> None]
    /\ answer = [c \in Calls |-> Pending]

Named(id) == {d \in DOMAIN objects : IF id.form = "guid" THEN objects[d].guid = id.arg ELSE d = id.arg}

Ask(c) ==
    /\ asked[c] = None
    /\ asked'[c] \in Requests
    /\ asked' = [asked EXCEPT ![c] = asked'[c]]
    /\ UNCHANGED <<objects, made, answer>>

(* The one instant at which a call has its effect. *)
Effect(c) ==
    /\ asked[c] # None /\ answer[c] = Pending
    /\ UNCHANGED asked
    /\ LET r == asked[c] IN
       \/ /\ r.op \in {"grant", "revoke"} /\ r.keys = {}
          /\ answer' = [answer EXCEPT ![c] = Answer("ok", {})]
          /\ UNCHANGED <<objects, made>>
       \/ /\ Named(r.id) = {} /\ \/ r.op = "get"
                                 \/ r.op \in {"grant", "revoke"} /\ r.keys # {}
          /\ answer' = [answer EXCEPT ![c] = Answer("notFound", {})]
          /\ UNCHANGED <<objects, made>>
       \/ \E d \in Named(r.id) :
             /\ r.op \in {"grant", "revoke"}
             /\ objects' = [objects EXCEPT ![d].keys = IF r.op = "grant" THEN @ \cup r.keys ELSE @ \ r.keys]
             /\ answer' = [answer EXCEPT ![c] = Answer("ok", {})]
             /\ UNCHANGED made
       \/ \E d \in Named(r.id) :
             /\ r.op = "get"
             /\ answer' = [answer EXCEPT ![c] = Answer("ok", objects[d].keys)]
             /\ UNCHANGED <<objects, made>>
       \/ /\ r.op = "delete"
          /\ objects' = [d \in DOMAIN objects \ Named(r.id) |-> objects[d]]
          /\ answer' = [answer EXCEPT ![c] = Answer("ok", {})]
          /\ UNCHANGED made
       \/ /\ r.op = "create" /\ Named(r.id) # {}
          /\ answer' = [answer EXCEPT ![c] = Answer("exists", {})]
          /\ UNCHANGED <<objects, made>>
       \/ /\ r.op = "create" /\ Named(r.id) = {} /\ made < MaxSeq
          /\ objects' = [d \in DOMAIN objects \cup {r.id.arg} |->
                            IF d = r.id.arg THEN [guid |-> made + 1, keys |-> {}] ELSE objects[d]]
          /\ made' = made + 1
          /\ answer' = [answer EXCEPT ![c] = Answer("ok", {})]

Return(c) ==
    /\ answer[c] # Pending
    /\ asked' = [asked EXCEPT ![c] = None]
    /\ answer' = [answer EXCEPT ![c] = Pending]
    /\ UNCHANGED <<objects, made>>

Next == \E c \in Calls : Ask(c) \/ Effect(c) \/ Return(c)

Spec == Init /\ [][Next]_aclVars
=============================================================================
