\* An online construction whose routing option fails after the host is
\* made.  A failed construction ends the behaviour.
CONSTANTS
  Modes <- MCOnline
  Boots <- MCBoots
  FaultPoints <- MCRoutingFaults
SPECIFICATION Spec
CHECK_DEADLOCK FALSE
INVARIANT NoOrphanedResource
