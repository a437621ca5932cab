SPECIFICATION FairSpec
CONSTANTS
  Patient = Patient
  Hurried = Hurried
  Latest = Latest
  Consumers <- MCConsumers
  Drainers <- MCDrainers
  Timed <- MCTimed
  MaxSize = 2
  MaxPackets = 4
INVARIANTS
  Accounted
  NoLostWakeup
PROPERTIES
  ImplementsStream
  Delivered
