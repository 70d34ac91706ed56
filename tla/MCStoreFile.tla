----------------------------- MODULE MCStoreFile -----------------------------
(* Two processes that open one file and use the same two names. *)
EXTENDS StoreFile, TLC

Symmetry == Permutations(Process) \union Permutations(Name) \union Permutations(Body)
===============================================================================
