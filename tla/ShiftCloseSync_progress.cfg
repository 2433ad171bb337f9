SPECIFICATION FairSpec
CONSTANTS
  w1 = w1  w2 = w2
  Shift = {1, 2}
  Volatile = {}
  Worker = {w1}
  MaxVersion = 1
  MaxProbes = 1
  MaxFaults = 1
PROPERTIES NeverForgotten EventuallyAcked
