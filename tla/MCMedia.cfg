CONSTANTS
  Vehicles = {v1}
  Operators = {o1}
  SessionIds = {s1, s2}
  NoSession = NoSession
  Cameras = {cam}
  Conns = {k1, k2}
  Posts = {p1}
  Readers = {r1, r2}
  NoEvent = NoEvent
  NoConn = NoConn
  NoPath = NoPath
  MaxFaults = 1
SPECIFICATION Spec
SYMMETRY Interchangeable
INVARIANT MediaTypeOK
INVARIANT ConnectionsAreAccounted
INVARIANT StoppedVideoIsCut
