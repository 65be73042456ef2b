-------------------------- MODULE MCControlBridge --------------------------
(* ControlBridge for TLC.                                                  *)
EXTENDS ControlBridge, TLC

CONSTANTS ahead, back
=============================================================================
