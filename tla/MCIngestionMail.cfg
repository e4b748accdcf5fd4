SPECIFICATION Spec
CONSTANTS
  Frameworks = {f1, f2}
  f1 = f1
  f2 = f2
  MaxText = 2
  MaxCli = 1
  MaxFailures = 1
INVARIANT MailedIsTold
CHECK_DEADLOCK FALSE
