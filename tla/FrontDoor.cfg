\* Three requests, each to any endpoint of two processes whose backlogs hold one
\* job.
SPECIFICATION FairSpec
CONSTANTS
  j1 = j1
  j2 = j2
  j3 = j3
  k1 = k1
  k2 = k2
  Workers = {w1, w2}
  Jobs = {j1, j2, j3}
  Kbs = {k1, k2}
  KbOf <- TheKbs
  WaitingMax = 1
  Pool = 1
  MaxRestarts = 1
  Nowhere = nowhere
INVARIANTS
  QueuedIsWaitingOrRefused
  RefusedNeverRuns
  OutcomeGoesOneWay
PROPERTIES
  EveryRequestSettles
CHECK_DEADLOCK FALSE
