CONSTANTS
  w1 = w1
  w2 = w2
  j1 = j1
  site = site
  Worker = {w1, w2}
  NoWorker = NoWorker
  Job = {j1}
  NoLane = NoLane
  Mode = "leased"
  LaneOf <- MCLaneOf
  Priority <- MCPriority
  Concurrency = 1
  AdoptionBatch = 1
  MaxAttempts = 2
  Beats = {1}
  Limit <- MCLimit
  Budget = 2
CHECK_DEADLOCK FALSE
SPECIFICATION AuditSpec
CONSTRAINT MCTogether
SYMMETRY MCSymmetry
INVARIANTS AuditTypeOK VerdictTold OpenIsQueued RunningIsRun
PROPERTIES SweepSparesVerdicts SupersededStops
