SPECIFICATION Spec
CONSTANTS
  SeqMod = 16
  Near = 4
  Starts <- MCStarts
  NumPackets <- MCNumPackets
  MaxDelay <- MCMaxDelay
  MaxDup <- MCMaxDup
  MaxLag <- MCMaxLag
  NoPacket = nopacket
INVARIANTS TypeOK InOrder
PROPERTIES NothingNewDropped
CHECK_DEADLOCK FALSE
