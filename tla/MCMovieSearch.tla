---------------------------- MODULE MCMovieSearch ----------------------------
(* MovieSearch for TLC: threads are alike, and so are users and titles.    *)
EXTENDS MovieSearch, TLC

Alike == Permutations(Threads) \cup Permutations(Users) \cup Permutations(Titles)
=============================================================================
