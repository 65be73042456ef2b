----------------------- MODULE MCNavigationExecution -----------------------
(* The instances of NavigationExecution that TLC checks. *)
EXTENDS NavigationExecution

=============================================================================
