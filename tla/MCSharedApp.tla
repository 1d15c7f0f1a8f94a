---------------------------- MODULE MCSharedApp ----------------------------
EXTENDS SharedApp
CONSTANTS d1, d2, d3
Two == {d1, d2}
Three == {d1, d2, d3}
=============================================================================
