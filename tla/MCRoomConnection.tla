------------------------- MODULE MCRoomConnection --------------------------
EXTENDS RoomConnection, TLC

CONSTANTS s1, s2
=============================================================================
