------------------------------ MODULE MCPictures ------------------------------
(* Pictures for TLC: searches, titles and crawls are alike.                *)
EXTENDS Pictures, TLC

Alike == Permutations(Threads) \cup Permutations(Titles) \cup Permutations(Crawls)
=============================================================================
