SPECIFICATION FairSpec
CONSTANTS
  s1 = s1  s2 = s2  r1 = r1  r2 = r2
  k1 = k1  k2 = k2  k3 = k3
  Nobody = Nobody  NoToken = NoToken
  Order = {1, 2}
  Recent = {2}
  Session = {s1}
  Request = {r1}
  SessionOf <- OnlyR1
  Impatient <- None
  Token = {k1, k2}
  Line = {1, 2}
  MaxVersion = 2
  Revised = {2}
  LineGross <- Gross12
  Subtotal <- SubtotalOf
  Limit = 2
  Settle = 1
  Lease = 1
INVARIANT NoHistoricalReplay
PROPERTY EventuallyPrinted

