\* Seeks up to one byte past the end of the file, with the DAGService
\* failing on chunk fetches during Seek: a seek at or past the end, or one
\* whose fetch fails, leaves the reader reading from the wrong place.
CONSTANTS
  DAG <- MCDAG
  Root = "wrap"
  ReadSizes <- MCReadSizes
  Whences <- MCWhences
  SeekOffsets <- MCSeekOffsets
  SeekBound <- MCSeekPast
  Flaky <- MCFlaky
  FaultyOps <- MCSeekFaults
SPECIFICATION Spec
PROPERTY Refines
