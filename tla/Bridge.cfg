\* Two sockets on each side, registered in any order.
SPECIFICATION FairSpec
CONSTANTS
  Names = {"x", "y"}
  Most <- Exchange
CHECK_DEADLOCK FALSE
INVARIANTS
  BridgeTypeOK
  RightPeer
  NothingDropped
PROPERTIES
  SocketsAreFifos
  SocketsDeliver
  PeersConnect
