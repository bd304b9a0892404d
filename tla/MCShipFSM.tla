----------------------------- MODULE MCShipFSM -----------------------------
(* ShipFSM for TLC; the .cfg files give the two confirmation counts.        *)
EXTENDS ShipFSM
=============================================================================
