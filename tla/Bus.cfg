\* Nested emits, subscriptions that come and go, coroutines that wait with a timeout.
SPECIFICATION Spec
CONSTANTS
  Types = {"moved"}
  Waiters = {"w1", "w2"}
  MaxLog = 2
  MaxEvents = 3
  MaxRegs = 2
INVARIANT LogIsRecentPast
PROPERTIES DeliveryHolds WaitsHold
CHECK_DEADLOCK FALSE
