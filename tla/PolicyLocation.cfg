\* A registry that refers to a location, imported into an empty database.
SPECIFICATION Spec
CONSTANTS
  Procs = {p1}
  Policies = {"blk", "reg"}
  PolicyType <- Location
  Variants = {"v1", "v2"}
  Offered <- Saves
  None = None
  Mirror <- Clone
  MaxJobs = 2
  CanFail = FALSE
INVARIANT ClosedArtifactImports
CHECK_DEADLOCK FALSE
