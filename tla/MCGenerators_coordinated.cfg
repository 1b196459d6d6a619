SPECIFICATION Spec
CONSTANTS
  Renderers = {"native", "hermes"}
  Platforms <- MCPlatforms
  Primary = "amd64"
  Native = "native"
  Hosted = "hermes"
  Editable <- MCEditable
  MaxEdits = 1
  MaxCrashes = 0
  MaxRuns = 4
  CrashPoints <- MCCrashPoints
CHECK_DEADLOCK FALSE
INVARIANT CoordinatedFixedPoint
