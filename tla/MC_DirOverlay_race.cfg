\* Two lookups of the same name race, and the caller that lost writes
\* through the overlay it was returned: the root misses a successful write.
CONSTANTS
  Names <- MCNames
  Data <- MCData
  EmptyData = "e"
  MaxDepth = 2
  MaxHandles = 4
  RootNode <- MCRootNode
  ExtNodes <- MCExtNodes
  Modes <- MCModes
  Client <- MCRacedWrite
  AddFails <- MCNoAddFails
  MaxAddFaults = 0
SPECIFICATION Spec
PROPERTY Refines
