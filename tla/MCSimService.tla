---------------------------- MODULE MCSimService ----------------------------
(* A small ship for TLC: the .cfg gives the numbers.                       *)
EXTENDS SimService, TLC

Cycle == <<"other", "radar">>
=============================================================================
