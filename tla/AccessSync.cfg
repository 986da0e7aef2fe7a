\* Three users, with and without rules that name them, two things people do, one lost answer or crash.
SPECIFICATION Spec
CONSTANTS
  a = a
  b = b
  c = c
  Emails = {a, b, c}
  Policies = {p, q}
  Admins = {a}
  PinnedEmails = {a}
  DomainEmails = {b}
  ExcludedEmails = {c}
  MaxDisables = 1
  MaxImports = 1
  MaxMoves = 2
  MaxLosses = 1
SYMMETRY PolicySymmetry
INVARIANTS
  DeletedStaysDeleted
  LastAdminStays
  SettledListsActive
PROPERTIES
  StoredDropIsARemoval
CHECK_DEADLOCK FALSE
