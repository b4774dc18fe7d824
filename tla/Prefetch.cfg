SPECIFICATION FairSpec
CONSTANTS
  LastEpoch = 2
  Batches = 3
  Depth = 2
CHECK_DEADLOCK FALSE
INVARIANTS
  IInv
  AtMostDepthAhead
  OneProducer
  NoFalseDeath
PROPERTIES
  ImplementsPlainEpochs
  NextReturns
  CancelledProducerEnds
