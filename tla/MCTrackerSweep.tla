--------------------------- MODULE MCTrackerSweep ---------------------------
(* Instances of TrackerSweep for TLC.                                      *)
EXTENDS TrackerSweep
=============================================================================
