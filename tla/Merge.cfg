CONSTANTS
  Id <- MCId
  Nowhere = Nowhere
  Reference <- MCReference
  Source <- MCSource
  Read = {"a", "b"}
  Support = {4}
  MaxConfigurations = 3
  Inputs <- MCInputs
SPECIFICATION Spec
INVARIANTS
  MergesWhole
  PairsEach
