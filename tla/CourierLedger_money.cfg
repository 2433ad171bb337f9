SPECIFICATION Spec
CONSTANTS
  o1 = o1  o2 = o2  k1 = k1  k2 = k2  t1 = t1  t2 = t2
  Order = {o1, o2}
  Branch = {1}
  BranchOf <- OneBranch
  Key = {k1, k2}
  Due = 2
  Task = {t1, t2}
  Op = {"create", "confirm", "fail", "refund", "cancel", "till", "deliver", "settle"}
  Paid = {k1}
  MaxClock = 2
  MaxWindow = 2
  MaxRecords = 5
INVARIANTS
  WindowsAreFinal SettledOnce CirclesNeedForeignKeys
  CourierWithinBill HeaderTellsTruth ChargedBackOnce
SYMMETRY Swaps
CHECK_DEADLOCK FALSE
