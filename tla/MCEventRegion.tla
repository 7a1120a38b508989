--------------------------- MODULE MCEventRegion ---------------------------
(* Small instances of EventRegion for TLC.                                  *)
EXTENDS EventRegion, TLC

Interchangeable == Permutations(Handles)
=============================================================================
