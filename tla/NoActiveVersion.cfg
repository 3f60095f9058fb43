SPECIFICATION Spec
CONSTANTS
  Versions = {v0, v1}
  Seed = v0
  NoVersion = NoVersion
  Activations = {a1, a2}
  MaxCrashes = 0
  Environments <- Undisturbed
CHECK_DEADLOCK FALSE
INVARIANT SomeVersionActive
