CONSTANTS
  c1 = c1
  c2 = c2
  Consumer <- TwoReaders
  Usage <- MixedOrSingle
  MaxSize = 2
  PerPacket = 3
  MaxPackets = 4
SPECIFICATION Spec
SYMMETRY ReaderSymmetry
INVARIANTS TypeOK Conserved PacketInOrder ClearTakesEffect
PROPERTY IsSampleFifo
