CONSTANTS
  n1 = n1  n2 = n2
  Nodes = {n1, n2}
  MaxChanges = 2
  MaxFaults = 1
SPECIFICATION FairSpec
INVARIANT SuccessWasReached
PROPERTIES DeadlineKept ChangeIsNoticed
CHECK_DEADLOCK FALSE
