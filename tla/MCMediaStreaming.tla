------------------------- MODULE MCMediaStreaming -------------------------
EXTENDS MediaStreaming
=============================================================================
