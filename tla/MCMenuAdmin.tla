----------------------------- MODULE MCMenuAdmin -----------------------------
(* MenuAdmin for TLC.                                                      *)
EXTENDS MenuAdmin
=============================================================================
