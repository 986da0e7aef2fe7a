SPECIFICATION Spec
CONSTANTS
  Accounts = {"gmail", "oauth", "password"}
  Addresses = 3
  MaxAttempts = 2
  MaxGrants = 3
INVARIANTS
  DeliveredAtMostOnce
PROPERTIES
  DeniedGrantIsFlagged
CHECK_DEADLOCK FALSE
