--------------------------- MODULE MCTileSchedule ---------------------------
EXTENDS TileSchedule
=============================================================================
