\* emit against its docstring: all sync handlers have been called.
SPECIFICATION Spec
CONSTANTS
  Types = {"moved"}
  Waiters = {}
  MaxLog = 2
  MaxEvents = 2
  MaxRegs = 3
INVARIANT AllHandlersCalled
CHECK_DEADLOCK FALSE
