SPECIFICATION AuditSpec
CONSTANTS
  o1 = o1
  c1 = c1
  Order = {o1}
  Present = {o1}
  Recipient = {c1}
  Cap = 2
  Retained = 2
  Segment = 2
  MaxVersion = 2
  MaxActs = 1
  MaxFailures = 1
INVARIANTS ChainUnbroken NeverSkipped
PROPERTIES EventuallyCaptured EventuallyDelivered
CHECK_DEADLOCK FALSE
