\* Reads, drains and seeks within the file, with the DAGService failing on
\* chunk fetches during Read and WriteTo.
CONSTANTS
  DAG <- MCBadDAG
  Root = "wrap"
  ReadSizes <- MCReadSizes
  Whences <- MCWhences
  SeekOffsets <- MCSeekOffsets
  SeekBound <- MCSeekWithin
  Flaky <- MCFlaky
  FaultyOps <- MCNoFaults
SPECIFICATION Spec

INVARIANT OffsetMatchesBuffers

