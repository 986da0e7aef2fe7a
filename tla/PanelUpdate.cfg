\* Three versions, one with a migration; two requests, two faults, persons or moves of the tag.
SPECIFICATION Spec
CONSTANTS
  Versions = {1, 2, 3}
  Migrates = {2}
  MaxAsks = 2
  MaxEvents = 2
INVARIANTS
  JournalOnce
PROPERTIES
  SchemaFits
  AnswersAreJournaled
  PanelReopens
CHECK_DEADLOCK FALSE
