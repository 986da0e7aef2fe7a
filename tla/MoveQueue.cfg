\* The installs of AllSettings, each with its own bounds.
SPECIFICATION Spec
CONSTANTS
  h1 = h1
  none = none
  trash = trash
  Folders = {inbox, trash}
  Inbox = inbox
  NoHeader = none
  Settings <- AllSettings
  MoveMaxAttempts = 2
INVARIANTS
  
  ClaimedStays
  RowNamesItsLetter
PROPERTIES
  OnlyGoneReconciled
  PanelMirrorsServer
CHECK_DEADLOCK FALSE
