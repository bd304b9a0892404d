--------------------------- MODULE MCEventStore ---------------------------
(* Small instances of EventStore for TLC. *)
EXTENDS EventStore, TLC

\* Producers run the same code and no definition names one of them.
ProducerSymmetry == Permutations(Producers)
=============================================================================
