\* Each of these is violated; TLC stops at the first, so keep one at a time.
SPECIFICATION Spec
CONSTANTS
  Frameworks = {f1, f2}
  f1 = f1
  f2 = f2
  MaxText = 2
  MaxCli = 1
  MaxFailures = 1
INVARIANT OneInForce
INVARIANT InForceEmbedded
CHECK_DEADLOCK FALSE
