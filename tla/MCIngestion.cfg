SPECIFICATION FairSpec
CONSTANTS
  Frameworks = {f1, f2}
  f1 = f1
  f2 = f2
  MaxText = 2
  MaxCli = 1
  MaxFailures = 1
INVARIANT AlwaysInForce
INVARIANT OneInForceUnlessOverlapped
INVARIANT ToldIsStored
PROPERTY SourceCaughtUp
CHECK_DEADLOCK FALSE
