---------------------------- MODULE MCArticleLists ----------------------------
(* ArticleLists for TLC: two requests that share a key. *)
EXTENDS ArticleLists

CONSTANTS essay, poem

AsksTwo == {<<essay, 1, 15>>, <<essay, 11, 5>>}
=============================================================================
