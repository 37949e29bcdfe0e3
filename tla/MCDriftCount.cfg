CONSTANTS
  l1 = l1
  Leaves = {l1}
  Levels = {0, 1, 4}
  MissSignal = 4
  Threshold = 3
  Warmup = 2
  SampleEvery = 2
  Cooldown = 4
  LdzThreshold = 2
  MaxErrs = 2
  MaxCount = 2
  Configs <- DefaultConfig
  NoAlarm = NoAlarm
SPECIFICATION Spec
INVARIANT RepairCountExact
