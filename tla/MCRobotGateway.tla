--------------------------- MODULE MCRobotGateway ---------------------------
(* RobotGateway for TLC.                                                   *)
EXTENDS RobotGateway

CONSTANTS k1, k2, r1, r2
=============================================================================
