--------------------------- MODULE MCControlRelay ---------------------------
(* ControlRelay for TLC.                                                   *)
EXTENDS ControlRelay, TLC

CONSTANTS c1, c2, s1, s2, t1

\* The connections are of one tab: a later one replaces an earlier one.
OneTab == [c \in Conns |-> t1]

\* The sessions differ in nothing but their names, so the first connection may
\* as well be of the first one.
MCInit == Init /\ sess[c1] = s1

MCSpec == MCInit /\ [][Next]_vars /\ Fairness
=============================================================================
