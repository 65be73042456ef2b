-------------------------- MODULE MCRoutePlanning --------------------------
EXTENDS RoutePlanning

CONSTANTS g1, g2, a, f

=============================================================================
