--------------------------- MODULE MCLaneBreaker ---------------------------
(* Instances of LaneBreaker for TLC.                                         *)
EXTENDS LaneBreaker, TLC

CONSTANTS root, project, h1, h2
=============================================================================
