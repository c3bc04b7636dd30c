--------------------------- MODULE MCRoomLifecycle --------------------------
EXTENDS RoomLifecycle, TLC

Sockets == Permutations(Socket)
SocketsAndMsgs == Permutations(Socket) \cup Permutations(Msg)
=============================================================================
