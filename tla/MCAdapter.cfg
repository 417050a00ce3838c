SPECIFICATION FairSpec
CONSTANTS
  Keys = {k1}
  Presets = {p1}
  Rules = {r1}
  KeyForms <- MCKeyForms
  Lengths = {8, 10, 16}
  Counts = {0, 1, 5, 6}
  MaxJobs = 2
  MaxForms = 2
  MaxRequests = 1
  MaxSubmit = 2
  LateLinks = FALSE
CONSTRAINTS TypicalOnceSent OneInFlight WordNeedsRule
INVARIANTS
  QueuedIsSendable
  OfferedIsAccepted
  DeliversTheVideo
PROPERTIES
  DoneOnlyIfFinished
  MovesOn
CHECK_DEADLOCK FALSE
