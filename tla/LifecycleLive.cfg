CONSTANTS
  Requests = {r1}
  Workers = {w1}
  MaxAttempts = 3
  MaxStalled = 1
SPECIFICATION FairSpec
PROPERTY JobEnds
