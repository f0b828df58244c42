SPECIFICATION LiveSpec
CONSTANTS
  Resources = {r1, r2}
  Health = Health
  Closer = Closer
  Nobody = Nobody
  Orphan = Orphan
  Configs <- MCConfigs
  Threshold = 2
  MaxLapses = 1
  MaxFaults = 1
  MaxCount = 2
  Faults = {"crash", "io", "hub", "net", "cancel", "revoke", "lose", "stop"}
PROPERTIES CallsReturn Heals
