\* Two vehicles, the fleet-wide requests, an observer.
SPECIFICATION Spec
CONSTANTS
  Vehicles = {v1, v2}
  Operators = {o1, o2}
  SessionIds = {s1, s2}
  NoSession = NoSession
  NoConn = NoConn
  Conns = {}
  VConns = {k1, k2}
  Requests = {r1}
  Bus = bus
  ObserverAccounts = {o2}
  Commands = {}
  Endpoints = {"start", "end", "endAll", "stop", "stopAll", "bus"}
  MediaReports = {}
  Elapsing = {}
  Pollers = {}
  MaxLate = 1
SYMMETRY Symmetry
INVARIANTS
  NoVehicleLeftBehind
