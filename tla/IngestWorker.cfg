\* Two jobs, one with a callback, through a pool of one; one notifier
\* and the sweep, one attempt per call.
SPECIFICATION FairSpec
CONSTANTS
  a = a
  b = b
  kb = kb
  n1 = n1
  n2 = n2
  sweeper = sweeper
  none = none
  Jobs = {a, b}
  KBs = {kb}
  KbOf <- OneKB
  WaitingSetting = 1
  MinSetting = 1
  MaxSetting = 1
  InitialSetting = 1
  SwallowsCancel = FALSE
  WithUrl = {a}
  Refused = {}
  Notifiers = {n1}
  Sweeper = sweeper
  NoJob = none
  MaxAttempts = 1
  MaxAge = 0
INVARIANTS
  OnlyEndedJobsAreDelivered
  NothingIsForgotten
PROPERTIES
  EveryJobSettles
  KeepsFairPromise
  StopTerminates
