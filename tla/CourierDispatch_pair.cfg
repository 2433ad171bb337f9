SPECIFICATION Spec
CONSTANTS
  o1 = o1  o2 = o2  c1 = c1  c2 = c2  b1 = b1
  Nobody = Nobody
  Order = {o1, o2}
  Courier = {c1, c2}
  Branch = {b1}
  BranchOf <- SameBranch
  Window = 1
  MaxPending = 1
INVARIANTS OneLiveDelivery OneDispatchAuthority ReadyIsForwarded AcceptanceIsCurrent
PROPERTY HandOver
SYMMETRY Swaps
