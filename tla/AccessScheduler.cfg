\* Any number of changes; three faults are enough for a run that fails, its
\* retry that throws, and a stop or crash among them.
SPECIFICATION LiveSpec
CONSTANTS
  MaxRetries = 2
  MaxFaults = 3
  MaxSaves = 2
INVARIANTS
  ChangeHasARunComing
  OwedRetryIsKept

  
