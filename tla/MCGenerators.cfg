SPECIFICATION Spec
CONSTANTS
  Renderers = {"native", "hermes"}
  Platforms <- MCPlatforms
  Primary = "amd64"
  Native = "native"
  Hosted = "hermes"
  Editable <- MCEditable
  MaxEdits = 1
  MaxCrashes = 1
  MaxRuns = 3
  CrashPoints <- MCCrashPoints
CHECK_DEADLOCK FALSE
INVARIANTS
  AcceptedIsCurrent
  AuthorityIsFinal
  PrivateNeedsNoRenderer
  RendererSettlesInTwo
PROPERTY Converges
