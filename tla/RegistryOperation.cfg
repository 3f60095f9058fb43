SPECIFICATION Spec
CONSTANTS
  Versions = {v0, v1, v2}
  Seed = v0
  NoVersion = NoVersion
  Activations = {a1, a2}
  MaxCrashes = 2
  Environments <- Operation
SYMMETRY Symmetry
CHECK_DEADLOCK FALSE
INVARIANT TypeOK
INVARIANT WorkerNotStale
INVARIANT GateHolds
