SPECIFICATION FairSpec
CONSTANTS
  Workers = {w1}
  Requesters = {r1}
  Monitor = Monitor
  Main = Main
  Cpus = 1
  MinSettings = {2}
  MaxSettings = {1}
  MaxChanges = 1
  MaxCount = 2
  MaxPerSecond = 1
  MonitorTries = 1
  MaxRequests = 2
INVARIANTS
  
  CountersAgree
  ParkingAgrees
  RequestIsWatched
PROPERTIES
  RequestIsServed
  PoolDrains
CHECK_DEADLOCK FALSE
