\* One session: a revoked account, lost sockets, commands and a late vehicle ACK.
SPECIFICATION FairSpec
CONSTANTS
  Vehicles = {v1}
  Operators = {o1}
  SessionIds = {s1}
  NoSession = NoSession
  NoConn = NoConn
  Conns = {c1}
  VConns = {k1}
  Requests = {r1}
  Bus = bus
  ObserverAccounts = {}
  Commands = {"MOVE", "EMERGENCY_STOP"}
  Endpoints = {"start", "revoke"}
  MediaReports = {}
  Elapsing = {"VehicleACKWatchdog"}
  Pollers = {"AuthWatchdog"}
  MaxLate = 1
PROPERTIES
  LostOperatorStops
  RevokedOperatorLosesControl
