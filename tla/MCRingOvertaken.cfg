SPECIFICATION Spec
CONSTANTS
  SeqMod = 16
  Near = 4
  Starts <- MCOverStarts
  NumPackets <- MCOverNumPackets
  MaxDelay <- MCOverMaxDelay
  MaxDup <- MCOverMaxDup
  MaxLag <- MCOverMaxLag
  NoPacket = nopacket
INVARIANTS WrapSortedIn
CHECK_DEADLOCK FALSE
