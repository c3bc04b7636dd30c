----------------------------- MODULE MCRoomSync -----------------------------
EXTENDS RoomSync, TLC

Devices == Permutations(Client \ Stale)
=============================================================================
