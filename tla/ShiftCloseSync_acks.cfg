SPECIFICATION Spec
CONSTANTS
  w1 = w1  w2 = w2
  Shift = {1}
  Volatile = {1}
  Worker = {w1, w2}
  MaxVersion = 2
  MaxProbes = 1
  MaxFaults = 1
INVARIANTS AckIsEarned ClearIsVerified EvidenceKept
SYMMETRY Swaps
