SPECIFICATION LiveSpec
CONSTANTS
  Platforms <- MCPlatforms
  Jobs <- MCJobs
  BadBodies = {"odd"}
  LogDirs <- MCLogDirs
  MaxCycles = 3
  MaxFaults = 3
  Faults = {"command", "io", "refuse", "user", "slow", "exit", "login", "mask", "edit", "drift", "crash"}
INVARIANTS
  NeverMistaken
PROPERTIES
  Converged
  Untouched
  Vetted
  Repairs
