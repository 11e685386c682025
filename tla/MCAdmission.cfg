SPECIFICATION FairSpec
CONSTANTS
  IPs = {i1}
  MaxTrackedIps = 1
  ForgetAfter = 1
  MaxTrackedRates = 1
  SweepCutoff = 1
  Conns = {c1, c2}
  Configs <- MCConfigs
  Durations <- MCDurations
  MaxTime = 1
  MaxAttempts = 2
INVARIANTS TypeOK SlotsExact
PROPERTIES GlobalCapHolds PreLoginCapHolds SilentClientsLeave
