SPECIFICATION Spec
CONSTANTS
  Users = {u1, u2}
  SeedUser = u1
  Requests = {r1, r2}
  MaxVersion = 1
SYMMETRY Symmetry
INVARIANT EnabledSecretShown
INVARIANT RevokedStayRevoked
INVARIANT AdminsMadeByAdmins
INVARIANT AdministratorLeft
CHECK_DEADLOCK FALSE
