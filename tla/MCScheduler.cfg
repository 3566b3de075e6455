CONSTANTS
  Engines = {blue, green}
  Bots = {b1, b2}
  Failing = {b2}
  Faults = 2
  None = None
SPECIFICATION SchedSpec
INVARIANTS
  SchedTypeOK
  OneLeader
PROPERTIES
  StopDrains
  LastOneLeads
  RunningBotsAreEvaluated
