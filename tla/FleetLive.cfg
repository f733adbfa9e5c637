\* One vehicle; the levels take every branch of batteryTier.
CONSTANTS
  Vehicles = {v1}
  AlertIds = {a1, a2}
  Operators = {o1}
  Requests = {r1}
  Clients = {c1}
  Levels = {9, 14, 20, 25}
  clientSendBuffer = 1
  NoAlert = NoAlert
  NoOne = NoOne
  MaxFaults = 1
SPECIFICATION FairSpec
INVARIANT LiveTypeOK
INVARIANT EventsAreStored
INVARIANT LowBatteryIsAlerted
PROPERTY NoRepeatedAlert
PROPERTY SlowClientBlocksNobody
