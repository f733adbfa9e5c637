CONSTANTS
  Vehicles = {v1, v2}
  Operators = {o1, o2}
  SessionIds = {s1, s2, s3}
  NoSession = NoSession
  NoCall = NoCall
  NoOperator = NoOperator
SPECIFICATION Spec
INVARIANT HandoverTypeOK
INVARIANT LockMatchesRoles
INVARIANT OneControllerPerVehicle
INVARIANT PendingIsResolvable
PROPERTY RoleIsFixed
PROPERTY LockSpecification
