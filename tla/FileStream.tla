----------------------------- MODULE FileStream -----------------------------
(***************************************************************************)
(* What a reader of a UnixFS file promises its client: a cursor over the   *)
(* file's bytes.  A read returns the bytes at the cursor and moves it; it  *)
(* is short only with an error, and it reports end-of-stream only at the   *)
(* end of the file.  A drain (WriteTo) returns the rest of the file, and   *)
(* reports success only once it has reached the end.  A seek moves the     *)
(* cursor anywhere within the file, or fails and leaves it.  Close ends    *)
(* the stream.  DagReader refines this specification.                     *)
(***************************************************************************)
EXTENDS Naturals, Sequences

CONSTANTS
  Content,    \* the bytes of the file, in order
  ReadSizes   \* lengths of the buffers the client reads into

VARIABLES
  pos,      \* bytes of the file before the cursor
  out,      \* [bytes, err] returned by the last read, drain or seek
  closed    \* Close has been called

vars == <<pos, out, closed>>

Errors == {"none", "EOF", "fail"}

Init ==
  /\ pos = 0
  /\ out = [bytes |-> <<>>, err |-> "none"]
  /\ closed = FALSE

\* The k bytes after the cursor are returned and the cursor moves past them.
Advance(k, err) ==
  /\ pos + k <= Len(Content)
  /\ pos' = pos + k
  /\ out' = [bytes |-> SubSeq(Content, pos + 1, pos + k), err |-> err]

Read(n) ==
  /\ ~closed
  /\ \/ Advance(n, "none")
     \/ \E k \in 0 .. n - 1 : Advance(k, "fail")
     \/ /\ pos + n > Len(Content)
        /\ Advance(Len(Content) - pos, "EOF")
  /\ UNCHANGED closed

WriteTo ==
  /\ ~closed
  /\ \/ Advance(Len(Content) - pos, "none")
     \/ \E k \in 0 .. Len(Content) - pos : Advance(k, "fail")
  /\ UNCHANGED closed

Seek ==
  /\ ~closed
  /\ \/ \E t \in 0 .. Len(Content) :
          /\ pos' = t
          /\ out' = [bytes |-> <<>>, err |-> "none"]
     \/ /\ out' = [bytes |-> <<>>, err |-> "fail"]
        /\ UNCHANGED pos
  /\ UNCHANGED closed

Close ==
  /\ closed' = TRUE
  /\ UNCHANGED <<pos, out>>

Next ==
  \/ \E n \in ReadSizes : Read(n)
  \/ WriteTo
  \/ Seek
  \/ Close

Spec == Init /\ [][Next]_vars
=============================================================================
