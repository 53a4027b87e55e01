------------------------------ MODULE KeyedLock ------------------------------
(***************************************************************************)
(* What KeyedMutex (src/locks.go) promises its callers, and nothing of how *)
(* it keeps the promise: one mutual-exclusion lock per key, and no         *)
(* interaction between keys.  A call is one invocation of Lock together    *)
(* with the release function it returned.                                  *)
(***************************************************************************)
CONSTANTS
    Calls,      \* the invocations of Lock that may be in progress at once
    Keys,       \* the strings they lock
    None        \* no key

VARIABLES
    wants,      \* wants[c]: the key c has asked for and not been given, or None
    holds       \* holds[c]: the key c has been given and not given back, or None

lockVars == <<wants, holds>>

Init ==
    /\ wants = [c \in Calls |-> None]
    /\ holds = [c \in Calls |-> None]

(* Lock(k) is called. *)
Request(c, k) ==
    /\ wants[c] = None /\ holds[c] = None
    /\ wants' = [wants EXCEPT ![c] = k]
    /\ UNCHANGED holds

(* Lock returns: only the key asked for has to be free. *)
Grant(c) ==
    /\ wants[c] # None
    /\ \A d \in Calls : holds[d] # wants[c]
    /\ holds' = [holds EXCEPT ![c] = wants[c]]
    /\ wants' = [wants EXCEPT ![c] = None]

(* The release function gives back the caller's own key. *)
Release(c) ==
    /\ holds[c] # None
    /\ holds' = [holds EXCEPT ![c] = None]
    /\ UNCHANGED wants

Next == \E c \in Calls : (\E k \in Keys : Request(c, k)) \/ Grant(c) \/ Release(c)

Spec == Init /\ [][Next]_lockVars
=============================================================================
