---------------------------- MODULE MCRoomRefresh ----------------------------
EXTENDS RoomRefresh
=============================================================================
