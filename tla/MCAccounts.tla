----------------------------- MODULE MCAccounts -----------------------------
(* Accounts for TLC: the threads and the users are alike.                  *)
EXTENDS Accounts, TLC

Alike == Permutations(Threads) \cup Permutations(Users)
=============================================================================
