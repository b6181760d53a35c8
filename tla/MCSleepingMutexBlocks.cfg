SPECIFICATION FairSpec
CONSTANTS
  CPUs = {c1, c2}
PROPERTY BlocksOrEnters
CHECK_DEADLOCK FALSE
