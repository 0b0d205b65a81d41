---------------------------- MODULE MC_DagReader ----------------------------
(***************************************************************************)
(* A six-byte file read through a metadata wrapper: the root File node has *)
(* one inline byte and two chunks, a Raw chunk and a File chunk that has   *)
(* two Raw chunks of its own, so the reader nests two deep.  Each byte is  *)
(* its position in the file, so a byte read from the wrong place shows.    *)
(***************************************************************************)
EXTENDS DagReader

MCDAG ==
  [n \in {"wrap", "root", "c1", "c2", "c3", "c4"} |->
     CASE n = "wrap" -> [type |-> "meta", data |-> <<>>, links |-> <<"root">>,
                         blocksizes |-> <<>>, filesize |-> 6]
       [] n = "root" -> [type |-> "file", data |-> <<1>>, links |-> <<"c1", "c2">>,
                         blocksizes |-> <<2, 3>>, filesize |-> 6]
       [] n = "c1"   -> [type |-> "raw", data |-> <<2, 3>>, links |-> <<>>,
                         blocksizes |-> <<>>, filesize |-> 2]
       [] n = "c2"   -> [type |-> "file", data |-> <<>>, links |-> <<"c3", "c4">>,
                         blocksizes |-> <<1, 2>>, filesize |-> 3]
       [] n = "c3"   -> [type |-> "raw", data |-> <<4>>, links |-> <<>>,
                         blocksizes |-> <<>>, filesize |-> 1]
       [] n = "c4"   -> [type |-> "raw", data |-> <<5, 6>>, links |-> <<>>,
                         blocksizes |-> <<>>, filesize |-> 2]]

\* the same file with its fourth byte's chunk replaced by a directory node
MCBadDAG == [MCDAG EXCEPT !["c3"].type = "dir"]

MCReadSizes == {0, 1, 2, 3}
MCWhences == {"SET", "CUR", "END"}
MCSeekOffsets == -1 .. 5

\* seeks stay before the last byte; MCSeekPast lets them reach the end
\* and one byte beyond it (SEEK_END with offset -1)
MCSeekWithin == 5
MCSeekPast == 7

MCFlaky == {"c1", "c2", "c4"}
MCNoFlaky == {}
MCReadFaults == {"Read", "WriteTo"}
MCSeekFaults == {"Seek"}
MCNoFaults == {}

\* the DAG is a well-formed file: block sizes are the sizes of the chunks
ASSUME DAG = MCDAG =>
       \A n \in DOMAIN DAG :
         DAG[n].type = "file" =>
           /\ Len(DAG[n].blocksizes) = Len(DAG[n].links)
           /\ \A i \in 1 .. Len(DAG[n].links) :
                DAG[n].blocksizes[i] = Len(FileBytes(DAG[n].links[i]))
=============================================================================
