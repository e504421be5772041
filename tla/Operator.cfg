\* Two attempts to deploy in a world that changes once, three compilations and
\* two runs of a copy, three faults in the demo and in the measurement.
SPECIFICATION OperatorSafety
CONSTANTS
  None = None
  Call = {d1, d2}
  Network = {"preprod", "preview"}
  Expected = "preprod"
  Lacking <- MCLacking
  MaxChanges = 1
  Circuit = {backing, identity}
  Served = {prover, verifier}
  Wanted <- MCWanted
  MaxCompiles = 3
  MaxRuns = 2
  MaxFaults = 3
INVARIANTS
  DoneNamesWhatLanded
  MayLandIsWarnedOf
  ScriptsEndWell
PROPERTIES
  ShipsWhatWasCompiled
CHECK_DEADLOCK FALSE
