SPECIFICATION Spec
CONSTANTS
  o1 = o1  o2 = o2  l1 = l1  l2 = l2  l3 = l3  c1 = c1  w1 = w1  t1 = t1  t2 = t2  t3 = t3
  Order = {o1}
  Line = {l1, l2}
  Instant = {l2}
  Cashier = {c1}
  Waiter = {}
  Task = {t1, t2}
  Op = {"remote", "add", "set", "remove", "ready", "pay", "mark", "unmark"}
  MaxQty = 2
INVARIANTS BillMatchesLines OnlyTapsWaitInCircles
PROPERTY PaidBillFrozen
SYMMETRY Swaps
