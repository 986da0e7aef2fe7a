\* Two addresses and one seat, a few actions and faults of any kind; the budget ends, so the system may stop.
SPECIFICATION Spec
CONSTANTS
  a = a
  b = b
  Addresses = {a, b}
  Purchased = 1
  Born = {a}
  FaultKinds = {"fail", "lost", "crash"}
  MaxFaults = 2
  MaxActs = 4
  MaxRaises = 1
INVARIANTS
  SeatsWithinPurchase
PROPERTIES
  OnlyDueIsDeleted
  ClaimedIsNeverGivenBack
  FilterBeforeRow
  DueIsDeleted
CHECK_DEADLOCK FALSE
