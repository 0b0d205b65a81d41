\* An online construction, with every external step but the routing option
\* failing or not.
CONSTANTS
  Modes <- MCOnline
  Boots <- MCBoots
  FaultPoints <- MCFaults
SPECIFICATION Spec
CHECK_DEADLOCK FALSE
INVARIANT NoPanic
