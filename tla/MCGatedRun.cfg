CONSTANTS
  ActionCount = 2
  Runners = {1}
  Reviews = {d1}
  Executors = {1, 2}
  MaxOutages = 1
SPECIFICATION FairGatedRun
PROPERTY ApprovedRunsEnd
CHECK_DEADLOCK FALSE
