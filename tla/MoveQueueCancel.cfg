\* One letter moved three times.
SPECIFICATION Safety
CONSTANTS
  h1 = h1
  none = none
  trash = trash
  Folders = {inbox, trash}
  Inbox = inbox
  NoHeader = none
  Settings <- JustMoved
  MoveMaxAttempts = 2
PROPERTIES
  OnlyGoneReconciled
CHECK_DEADLOCK FALSE
