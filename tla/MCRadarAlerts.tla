--------------------------- MODULE MCRadarAlerts ----------------------------
(* Small instances of RadarAlerts for TLC. *)
EXTENDS RadarAlerts, TLC
=============================================================================
