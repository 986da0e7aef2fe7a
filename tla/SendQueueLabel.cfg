\* What sendQueue.js says of a delivery that was marked.
SPECIFICATION SendSpec
CONSTANTS
  Jobs = {j1}
  Workers = {w1}
  Claims = {1, 2}
  NoClaim = NoClaim
  NoWorker = NoWorker
  MaxAttempts = 2
  Concurrency = 2
  MaxFaults = 1
  MaxReschedules = 1
INVARIANTS
  MarkedDeliveryIsLabelled
CHECK_DEADLOCK FALSE
