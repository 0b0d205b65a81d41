\* Reads, drains and seeks within the file, with the DAGService failing on
\* chunk fetches during Read and WriteTo.
CONSTANTS
  DAG <- MCDAG
  Root = "wrap"
  ReadSizes <- MCReadSizes
  Whences <- MCWhences
  SeekOffsets <- MCSeekOffsets
  SeekBound <- MCSeekWithin
  Flaky <- MCFlaky
  FaultyOps <- MCReadFaults
SPECIFICATION Spec
INVARIANT TypeOK
INVARIANT OffsetMatchesBuffers
PROPERTY Refines
