\* Two processes, a block and a registry that refers to it, calls that fail.
SPECIFICATION Spec
CONSTANTS
  Procs = {p1, p2}
  Policies = {"blk", "reg"}
  PolicyType <- Block
  Variants = {"v1", "v2"}
  Offered <- Saves
  None = None
  MaxJobs = 3
  Mirror <- Clones
  CanFail = TRUE
SYMMETRY Alike
INVARIANTS PointersReplay StoredIsValid MismatchIsInterference PublishHolds ImportHolds
CHECK_DEADLOCK FALSE
