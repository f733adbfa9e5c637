\* Two PATCHes of one task, no failures.
CONSTANTS
  Vehicles = {v1}
  TaskIds = {t1}
  Operators = {o1}
  Requests = {r1, r2}
  NoTask = NoTask
  NoOne = NoOne
  MaxFaults = 0
SPECIFICATION Spec
SYMMETRY Interchangeable
INVARIANT FromStatusIsTrue
