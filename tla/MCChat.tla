------------------------------- MODULE MCChat -------------------------------
(* Instances of Chat for TLC: two users, one of them with two connections.  *)
EXTENDS Chat, TLC

CONSTANTS ann, bob, a1, a2, b1, b2, m1, m2, loop1, loop2, loop3, loop4

Owner == [c \in Channels |-> IF c \in {a1, a2} THEN ann ELSE bob]
OneLoop == [c \in Channels |-> loop1]
\* a loop for every channel: what other distributions allow, this one does
Apart == [c \in Channels |-> CASE c = a1 -> loop1 [] c = a2 -> loop2 [] c = b1 -> loop3 [] OTHER -> loop4]

\* one user writes to the other
AnnWrites == [m \in Msgs |-> ann]
BobWrites == [m \in Msgs |-> bob]

\* Messages of one sender to one recipient are alike.
AlikeMsgs == Permutations(Msgs)
=============================================================================
