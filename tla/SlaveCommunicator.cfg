SPECIFICATION FairSlaveSpec
CONSTANTS
  SlaveDomains = {z1}
  m1 = m1
  Masters <- OneMaster
  Threads = {t1, t2}
  SerialSpace = 8
  FirstSerial = 7
  SignedSerials = {1}
  StoreMayFail = TRUE
  MaxUpdates = 2
INVARIANTS
  WakeupPerRequest
PROPERTIES
  Converges
