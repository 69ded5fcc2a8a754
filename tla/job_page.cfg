\* A gated run and one that has ended, a failing log service, hidden tabs, a user who decides and starts
\* the other run.  Safety and the liveness of the display.
SPECIFICATION FairSpec
CONSTANTS
  a = a
  b = b
  Jobs = {a, b}
  FirstStatus <- GatedAndEnded
  MaxFinalLogRefreshes = 2
  Faults = {"refreshFails", "logFails", "hidden", "mountHidden"}
INVARIANTS
  ShowsItsOwnRun
  
  PollsUntilComplete
  VisiblePageIsArmed
PROPERTIES
  EndIsShown
