CONSTANTS
  Vehicles = {v1}
  TaskIds = {t1, t2}
  Operators = {o1}
  Requests = {r1, r2}
  NoTask = NoTask
  NoOne = NoOne
  MaxFaults = 1
SPECIFICATION Spec
SYMMETRY Interchangeable
INVARIANT TasksTypeOK
INVARIANT HistoryIsSound
INVARIANT HistoryIsComplete
INVARIANT FinishedTaskIsCleared
INVARIANT ShownWasStored
PROPERTY TasksFollowLifecycle
PROPERTY RestartRepairsHistory
