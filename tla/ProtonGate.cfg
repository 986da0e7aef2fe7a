\* Two sends and two backups: three faults of any kind and one restart of the worker.
SPECIFICATION FairSpec
CONSTANTS
  Sends = {s1, s2}
  Backups = {b1, b2}
  None = None
  MaxFaults = 3
  MaxRestarts = 1

  
PROPERTIES
  GateReopens
CHECK_DEADLOCK FALSE
