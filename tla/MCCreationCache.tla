-------------------------- MODULE MCCreationCache --------------------------
(* Instances of CreationCache for TLC. *)
EXTENDS CreationCache, TLC

\* Request threads of one kind are alike.
Threads == Permutations(Readers) \cup Permutations(Savers)
=============================================================================
