SPECIFICATION Spec
CONSTANTS
  Event = {1, 2}
  KindOf <- PaidOnly
  Hopeless = {1}
  c1 = c1
  c2 = c2
  Chat = {c1}
  Settle = 1
  Overlap = 0
  Batch = 1
  Retention = 1
  Patience = 2
  MaxTime = 2
  MaxFaults = 1
  MaxEvents = 2
INVARIANTS QuietStaysQuiet CopiesNeedFaults
PROPERTY EventuallyReported
CHECK_DEADLOCK FALSE
