\* Two sessions of one vehicle follow each other: one request, one socket.
SPECIFICATION Spec
CONSTANTS
  Vehicles = {v1}
  Operators = {o1, o2}
  SessionIds = {s1, s2}
  NoSession = NoSession
  NoConn = NoConn
  Conns = {c1}
  VConns = {k1}
  Requests = {r1}
  Bus = bus
  ObserverAccounts = {}
  Commands = {}
  Endpoints = {"start", "end"}
  MediaReports = {"MEDIA_FAILED"}
  Elapsing = {}
  Pollers = {"AuthWatchdog"}
  MaxLate = 1
SYMMETRY Symmetry
INVARIANTS
  ServerTypeOK
  SupervisionLostOnlyToOthers
  NeverStuckInTransit
  UnattendedOnlyThroughOthers
  ControlHasAnOperator
