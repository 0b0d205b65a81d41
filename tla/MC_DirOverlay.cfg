\* The baseline client, whose lookups may race, with DAGService.Add failing anywhere in the cascade:
\* every successful mutation reaches the root, and a failed one reaches the
\* client's view only.
CONSTANTS
  Names <- MCNames
  Data <- MCWriteData
  EmptyData = "e"
  MaxDepth = 2
  MaxHandles = 4
  RootNode <- MCRootNode
  ExtNodes <- MCExtNodes
  Modes <- MCModes
  Client <- MCRacing
  AddFails <- MCAddFails
  MaxAddFaults = 1
SPECIFICATION Spec
INVARIANT TypeOK
PROPERTY SyncedByCloses
PROPERTY ClientViewRefines
