---------------------------- MODULE MCMapRegistry ----------------------------
EXTENDS MapRegistry, TLC

CONSTANTS m1, m2, c1, c2, c3

==============================================================================
