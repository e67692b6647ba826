\* Three jobs, a waiting queue of two, a pool of one to two; nothing is fair but
\* what the event loop makes so.
SPECIFICATION FairSpec
CONSTANTS
  j1 = j1
  j2 = j2
  j3 = j3
  kb1 = kb1
  kb2 = kb2
  Jobs = {j1, j2, j3}
  KBs = {kb1, kb2}
  KbOf <- TwoKBs
  WaitingSetting = 2
  MinSetting = 0
  MaxSetting = 2
  InitialSetting = 4
  SwallowsCancel = TRUE
INVARIANTS
  TypeOK
  InflightBounded
  NoLostWakeup
  ReportedIsSettled
PROPERTIES
  CancelWins
  KeepsPromise
  PoolRelaxes
CHECK_DEADLOCK FALSE
