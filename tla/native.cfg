SPECIFICATION Spec
CONSTANTS
  Resources = {r1, r2}
  Health = Health
  Closer = Closer
  Nobody = Nobody
  Orphan = Orphan
  Configs <- MCConfigs
  Threshold = 2
  MaxLapses = 2
  MaxFaults = 2
  MaxCount = 2
  Faults = {"crash", "io", "hub", "net", "cancel", "revoke", "lose", "stop", "clock"}
INVARIANTS RefreshOfTheFailed
PROPERTIES ScheduleKept BindingHeld AuthorityEarned
