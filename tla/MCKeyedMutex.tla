---------------------------- MODULE MCKeyedMutex ----------------------------
(* Model-checking instances of KeyedMutex.  Every call can be in progress  *)
(* at once; as many heap cells as calls are enough, since at a lookup at   *)
(* most the other calls keep a cell reachable.                             *)
EXTENDS KeyedMutex, TLC

(* Calls, keys and cells are interchangeable; used by safety runs only. *)
Symmetry == Permutations(Calls) \cup Permutations(Keys) \cup Permutations(Entries)

ASSUME EnoughEntries == Cardinality(Entries) >= Cardinality(Calls)
=============================================================================
