\* The client also keeps handles across Unlink and re-create and renames onto
\* taken names: the root misses a successful mutation.
CONSTANTS
  Names <- MCNames
  Data <- MCData
  EmptyData = "e"
  MaxDepth = 2
  MaxHandles = 4
  RootNode <- MCRootNode
  ExtNodes <- MCExtNodes
  Modes <- MCModes
  Client <- MCStaleHandle
  AddFails <- MCNoAddFails
  MaxAddFaults = 0
SPECIFICATION Spec
PROPERTY Refines
