SPECIFICATION FairSpec
CONSTANTS
  MasterZones = {mz}
  SlaveZones = {sz}
  OperatorZones = {}
  V4 = {a4}
  V6 = {a6}
  NameServers <- ByFamily
  Ids = {1, 2}
  CycleInterval = 2
  Delay <- MCDelay
  MaxChanges <- TwoChanges
  MaxEvents = 1
INVARIANTS
  AnnouncedOrQueued
PROPERTIES
  RetriedUntilAnswered
  ChangesAnnounced
  QueueEmpties
