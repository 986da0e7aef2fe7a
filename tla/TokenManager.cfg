\* A Google and a Microsoft mailbox, two processes and two callers; a Microsoft refresh may outlast its lock.
SPECIFICATION Spec
CONSTANTS
  Providers = {"google", "microsoft"}
  SlowProviders = {"microsoft"}
  GoogleApps = {appA, appB}
  Processes = {p1, p2}
  Callers = {c1, c2}
  NoProcess = NoProcess
  MaxIssued = 3
  MaxGrants = 2
  MaxUpsets = 2
SYMMETRY AllSymmetry
INVARIANTS
  TokensOfOneGrant
  GrantNotStranded
  DisabledAppIsFlagged
  RejectedNotReturned

  
CHECK_DEADLOCK FALSE
