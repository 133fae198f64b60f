CONSTANTS
  w1 = w1
  w2 = w2
  j1 = j1
  j2 = j2
  site = site
  Worker = {w1, w2}
  NoWorker = NoWorker
  Job = {j1}
  NoLane = NoLane
  Mode = "leased"
  LaneOf <- MCLaneOf
  Priority <- MCEqual
  Concurrency = 1
  AdoptionBatch = 1
  MaxAttempts = 2
  Beats = {1}
  Limit <- MCLapsing
  Budget = 2
SPECIFICATION Spec
INVARIANT LostIsNotRetried
