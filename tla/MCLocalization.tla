--------------------------- MODULE MCLocalization ---------------------------
(***************************************************************************)
(* Localization with everything that may fail, and with a planner that     *)
(* fails.                                                                  *)
(***************************************************************************)
EXTENDS Localization

EveryFault == AllFaults
=============================================================================
