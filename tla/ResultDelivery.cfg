SPECIFICATION FairSpec
CONSTANTS
  a = a
  b = b
  c = c
  n1 = n1
  n2 = n2
  sweeper = sweeper
  none = none
  Jobs = {a, b, c}
  WithUrl = {a, b}
  Refused = {b}
  Notifiers = {n1, n2}
  Sweeper = sweeper
  NoJob = none
  MaxAttempts = 2
  MaxAge = 1
INVARIANTS
  OneDelivererPerResult
  ResultsAreConserved
  StatusIsTrue
PROPERTIES
  GivesUpOnlyWhenOld
  EveryResultSettles
CHECK_DEADLOCK FALSE
