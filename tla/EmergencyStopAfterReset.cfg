\* A session starts while its predecessor is being ended.
SPECIFICATION Spec
CONSTANTS
  Vehicles = {v1}
  Operators = {o1}
  SessionIds = {s1, s2}
  NoSession = NoSession
  NoConn = NoConn
  Conns = {}
  VConns = {k1}
  Requests = {r1, r2}
  Bus = bus
  ObserverAccounts = {}
  Commands = {}
  Endpoints = {"start", "end", "stopAll"}
  MediaReports = {}
  Elapsing = {}
  Pollers = {}
  MaxLate = 1
SYMMETRY Symmetry
PROPERTIES
  EmergencyStopStops
