SPECIFICATION Spec
CONSTANTS
  s1 = s1  s2 = s2  r1 = r1  r2 = r2
  k1 = k1  k2 = k2  k3 = k3
  Nobody = Nobody  NoToken = NoToken
  Order = {1, 2}
  Recent = {1, 2}
  Session = {s1, s2}
  Request = {r1, r2}
  SessionOf <- OneEach
  Impatient <- None
  Token = {k1, k2, k3}
  Line = {1}
  MaxVersion = 1
  Revised = {1}
  LineGross <- Gross1
  Subtotal <- SubtotalOf
  Limit = 2
  Settle = 1
  Lease = 1
INVARIANTS OneActiveConsumer PrintedHasPaper OneLeasePerSession
SYMMETRY Tokens
