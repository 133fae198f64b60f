CONSTANTS
  w1 = w1
  w2 = w2
  j1 = j1
  j2 = j2
  site = site
  Worker = {w1}
  NoWorker = NoWorker
  Job = {j1, j2}
  NoLane = NoLane
  Mode = "owned"
  LaneOf <- MCLaneOf
  Priority <- MCSecondFirst
  Concurrency = 2
  AdoptionBatch = 1
  MaxAttempts = 2
  Beats = {1}
  Limit <- MCServing
  Budget = 3
CHECK_DEADLOCK FALSE
SPECIFICATION Spec
INVARIANTS TypeOK SlotsAccounted WorkConserving IdleIsReported DrainedIsClean
PROPERTIES TerminalIsFinal CancelWins
