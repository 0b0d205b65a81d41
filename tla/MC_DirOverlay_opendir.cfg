\* The client also uses opendir: the root misses a successful mutation.
CONSTANTS
  Names <- MCNames
  Data <- MCData
  EmptyData = "e"
  MaxDepth = 2
  MaxHandles = 4
  RootNode <- MCRootNode
  ExtNodes <- MCExtNodes
  Modes <- MCModes
  Client <- MCOpenDir
  AddFails <- MCNoAddFails
  MaxAddFaults = 0
SPECIFICATION Spec
PROPERTY Refines
