\* Two runs with the same receipt path, two kills or power losses.
CONSTANTS
  Runs = {p1, p2}
  Nothing = nothing
  MaxCrashes = 2
SPECIFICATION Spec
INVARIANT PathInv
PROPERTIES ObservationReported NeverOverwritten SuccessIsOwn
