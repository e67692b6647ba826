SPECIFICATION FairSpec
CONSTANTS
  j1 = j1
  j2 = j2
  j3 = j3
  kb1 = kb1
  kb2 = kb2
  Jobs = {j1, j2}
  KBs = {kb1}
  KbOf <- OneKB
  WaitingSetting = 2
  MinSetting = 1
  MaxSetting = 2
  InitialSetting = 1
  SwallowsCancel = TRUE
PROPERTY StopTerminates
CHECK_DEADLOCK FALSE
