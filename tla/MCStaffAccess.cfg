SPECIFICATION RoutingSpec
CONSTANTS
  Root = root
  Member = member
  Newcomer = newcomer
  Accounts = {root, member, newcomer}
  FirstRoles <- MCFirstRoles
  Passwords = {w1, w2}
  Bootstrap = w1
  RolesInUse = {"ADMIN", "EXPERT"}
  Callers = {c1, c2}
SYMMETRY Symmetry
INVARIANTS
  RoutingTypeOK
  OldPasswordsEnd
PROPERTIES
  AdministrationLostOnlyByStaleSave
  PasswordsSurviveRestart
