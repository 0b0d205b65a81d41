\* An offline or online construction, then SetupOfflineRouting, Bootstrap
\* and Close in any order, with every external step but the routing option
\* failing or not, and the Close of any one closer failing in
\* teardown.  A closed, failed or panicked node takes no more calls, so the
\* behaviour may stop.
CONSTANTS
  Modes <- MCBothModes
  Boots <- MCBoots
  FaultPoints <- MCFaults
SPECIFICATION Spec
INVARIANT NoOrphanedResource
INVARIANT ClosedNodeHoldsNothing
CHECK_DEADLOCK FALSE
