\* One vehicle is handed from one operator to another.
CONSTANTS
  Vehicles = {v1}
  Operators = {o1, o2}
  SessionIds = {s1, s2}
  NoSession = NoSession
  NoCall = NoCall
  NoOperator = NoOperator
SPECIFICATION WatchSpec
PROPERTY RevokedOperatorIsStopped
