SPECIFICATION FairSpec
CONSTANTS
  Jobs = {j1}
  Workers = {w1}
  Claims = {1, 2, 3, 4, 5}
  NoClaim = NoClaim
  NoWorker = NoWorker
  MaxAttempts = 2
  Concurrency = 2
  MaxFaults = 1
  MaxReschedules = 1
INVARIANTS
  AtMostOncePerConsent
  UndoneNeverHappens
  DoneLabelIsTrue
PROPERTIES
  ClaimEndsByItsRunOrTheSweep
  ImplementsPromise
  EveryJobComesToRest
CHECK_DEADLOCK FALSE
