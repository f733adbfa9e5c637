\* The seeded administrator and another name; an account may be made again.
SPECIFICATION Spec
CONSTANTS
  Names = {admin, anna}
  Admin = admin
  Ids = {u1, u2, u3}
  Granted = {"ADMIN", "OBSERVER"}
  Requests = {r1, r2}
  NoUser = NoUser
  MaxTokens = 2
SYMMETRY Interchangeable
INVARIANT AccountsTypeOK
INVARIANT RolesAreEarned
PROPERTY AdministratorsKeepOne
