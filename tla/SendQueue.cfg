SPECIFICATION SendSpec
CONSTANTS
  Jobs = {j1}
  Workers = {w1}
  Claims = {1, 2, 3}
  NoClaim = NoClaim
  NoWorker = NoWorker
  MaxAttempts = 2
  Concurrency = 2
  MaxFaults = 1
  MaxReschedules = 1
INVARIANTS
  LetterKeptExactlyWhileListed
  DoneMeansDelivered
  BarredNeverSends
PROPERTIES
  SendImplementsPromise
CHECK_DEADLOCK FALSE
