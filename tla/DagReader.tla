----------------------------- MODULE DagReader -----------------------------
(***************************************************************************)
(* The chunked file reader of unixfs/io/dagreader.go.                      *)
(*                                                                         *)
(* A DagReader over a File node reads the node's inline data and then the  *)
(* node's links in order; a link to a Raw node is read through a byte      *)
(* cursor (readSeekNopCloser), a link to a File node through a nested      *)
(* DagReader.  The reader is a record and the nesting is a record inside   *)
(* its buf field, so every method of the code is a recursive operator on   *)
(* that record and every client call is one atomic action: the reader is  *)
(* single-consumer, so nothing interleaves with a call.                    *)
(*                                                                         *)
(* Node payloads are given already decoded (DAG); a node whose payload     *)
(* does not unmarshal has type "bad".  A promise's Get fails when the      *)
(* reader's context, or an ancestor's, is cancelled, or when the DAGService *)
(* fails on that node: the set of nodes it fails on during a call is chosen *)
(* by the call's \E.  Errors are told apart only as EOF or not.            *)
(***************************************************************************)
EXTENDS Integers, SequencesExt, Functions

CONSTANTS
  DAG,          \* node id -> [type, data, links, blocksizes, filesize]
  Root,         \* the node NewDagReader is called on
  ReadSizes,    \* lengths of the client's read buffers
  Whences,      \* subset of {"SET", "CUR", "END"}
  SeekOffsets,  \* offsets the client passes to Seek
  SeekBound,    \* the client seeks to absolute offsets up to this bound
  Flaky,        \* nodes the DAGService may fail to deliver
  FaultyOps     \* calls during which it may fail: subset of {"Read", "WriteTo", "Seek"}

VARIABLES
  reader,   \* the DagReader the client holds
  last      \* [bytes, err] returned by the client's last Read, WriteTo or Seek

vars == <<reader, last>>

-----------------------------------------------------------------------------
(* The file a node stands for: the reference the reader is checked against *)

RECURSIVE FileBytes(_)
FileBytes(n) ==
  CASE DAG[n].type = "raw"  -> DAG[n].data
    [] DAG[n].type = "file" ->
         DAG[n].data \o FlattenSeq([i \in 1 .. Len(DAG[n].links) |-> FileBytes(DAG[n].links[i])])
    [] DAG[n].type = "meta" -> FileBytes(DAG[n].links[1])

\* bytes of the first k chunks of a node
ChunkPrefix(pb, k) == SumFunctionOnSet(pb.blocksizes, 1 .. k)

-----------------------------------------------------------------------------
(* Buffers and reader construction                                         *)

\* NewRSNCFromBytes: a bytes.Reader over s, at its start
Bytes(s) == [t |-> "bytes", s |-> s, i |-> 0]

Nested(r) == [t |-> "dag", r |-> r]

\* newDataFileReader: inline data first, link 0 next, a fresh context
NewFileReader(n) ==
  [node |-> n, lp |-> 0, off |-> 0, cancelled |-> FALSE, buf |-> Bytes(DAG[n].data)]

\* NewDagReader: directories are refused and metadata is unwrapped
RECURSIVE NewDagReader(_)
NewDagReader(n) ==
  CASE DAG[n].type \in {"raw", "file"} -> NewFileReader(n)
    [] DAG[n].type = "meta" /\ DAG[n].links # <<>> -> NewDagReader(DAG[n].links[1])
    [] OTHER -> "error"

\* Close of a buffer: a nested DagReader cancels its context, bytes do nothing
CloseBuf(b) == IF b.t = "dag" THEN [b EXCEPT !.r.cancelled = TRUE] ELSE b

\* bytes.Reader.Read
ByteRead(c, n) ==
  IF c.i >= Len(c.s)
  THEN [buf |-> c, out |-> <<>>, err |-> "EOF"]
  ELSE LET k == Min({n, Len(c.s) - c.i})
       IN  [buf |-> [c EXCEPT !.i = @ + k], out |-> SubSeq(c.s, c.i + 1, c.i + k), err |-> "none"]

\* bytes.Reader.WriteTo: everything after the cursor, never an error here
ByteWriteTo(c) ==
  [buf |-> [c EXCEPT !.i = Max({@, Len(c.s)})], out |-> SubSeq(c.s, c.i + 1, Len(c.s)), err |-> "none"]

-----------------------------------------------------------------------------
(* DagReader methods; done is the cancellation of the enclosing contexts   *)

\* Mutation: linkPosition is advanced before the promise is fetched, so a
\* failed Get skips the chunk.
PrecalcNextBufAdvanceFirst(r, done, fails) ==
  LET rc    == [r EXCEPT !.buf = CloseBuf(@)]
      links == DAG[r.node].links
      nxt   == links[r.lp + 1]
      rn    == [rc EXCEPT !.lp = @ + 1]
  IN  IF r.lp >= Len(links) THEN [r |-> rc, err |-> "EOF"]
      ELSE IF done \/ r.cancelled \/ nxt \in fails THEN [r |-> rn, err |-> "fail"]
      ELSE CASE DAG[nxt].type = "file" -> [r |-> [rn EXCEPT !.buf = Nested(NewFileReader(nxt))], err |-> "none"]
             [] DAG[nxt].type = "raw"  -> [r |-> [rn EXCEPT !.buf = Bytes(DAG[nxt].data)], err |-> "none"]
             [] OTHER                  -> [r |-> rn, err |-> "fail"]

\* precalcNextBuf: close the buffer, Get the next promise, then decode it
PrecalcNextBuf(r, done, fails) ==
  LET rc    == [r EXCEPT !.buf = CloseBuf(@)]
      links == DAG[r.node].links
      nxt   == links[r.lp + 1]
      rn    == [rc EXCEPT !.lp = @ + 1]
  IN  IF r.lp >= Len(links) THEN [r |-> rc, err |-> "EOF"]
      ELSE IF done \/ r.cancelled \/ nxt \in fails THEN [r |-> rc, err |-> "fail"]
      ELSE CASE DAG[nxt].type = "file" -> [r |-> [rn EXCEPT !.buf = Nested(NewFileReader(nxt))], err |-> "none"]
             [] DAG[nxt].type = "raw"  -> [r |-> [rn EXCEPT !.buf = Bytes(DAG[nxt].data)], err |-> "none"]
             [] OTHER                  -> [r |-> rn, err |-> "fail"]

\* Read: fill n bytes from the buffer, advancing through the links
RECURSIVE ReadFrom(_, _, _, _, _)
ReadFrom(r, n, acc, done, fails) ==
  LET ctx  == done \/ r.cancelled
      want == n - Len(acc)
      br   == IF r.buf.t = "bytes" THEN ByteRead(r.buf, want)
              ELSE LET c == ReadFrom(r.buf.r, want, <<>>, ctx, fails)
                   IN  [buf |-> Nested(c.r), out |-> c.out, err |-> c.err]
      r1   == [r EXCEPT !.buf = br.buf, !.off = @ + Len(br.out)]
      acc1 == acc \o br.out
      p    == PrecalcNextBuf(r1, ctx, fails)
  IN  IF br.err \notin {"none", "EOF"} THEN [r |-> r1, out |-> acc1, err |-> br.err]
      ELSE IF Len(acc1) = n THEN [r |-> r1, out |-> acc1, err |-> "none"]
      ELSE IF p.err # "none" THEN [r |-> p.r, out |-> acc1, err |-> p.err]
      ELSE ReadFrom(p.r, n, acc1, done, fails)

\* WriteTo: drain the buffer, advance, and succeed at end-of-stream
RECURSIVE WriteFrom(_, _, _, _)
WriteFrom(r, acc, done, fails) ==
  LET ctx  == done \/ r.cancelled
      br   == IF r.buf.t = "bytes" THEN ByteWriteTo(r.buf)
              ELSE LET c == WriteFrom(r.buf.r, <<>>, ctx, fails)
                   IN  [buf |-> Nested(c.r), out |-> c.out, err |-> c.err]
      r1   == [r EXCEPT !.buf = br.buf, !.off = @ + Len(br.out)]
      acc1 == acc \o br.out
      p    == PrecalcNextBuf(r1, ctx, fails)
  IN  IF br.err \notin {"none", "EOF"} THEN [r |-> r1, out |-> acc1, err |-> br.err]
      ELSE IF p.err = "EOF" THEN [r |-> p.r, out |-> acc1, err |-> "none"]
      ELSE IF p.err # "none" THEN [r |-> p.r, out |-> acc1, err |-> p.err]
      ELSE WriteFrom(p.r, acc1, done, fails)

\* the loop over pb.Blocksizes in Seek: the first chunk larger than what is
\* left to skip; when there is none, linkPosition keeps its old value
SeekChunk(pb, left, lp) ==
  LET hits == {i \in 1 .. Len(pb.blocksizes) : pb.blocksizes[i] > left - ChunkPrefix(pb, i - 1)}
  IN  IF hits = {}
      THEN [lp |-> lp, left |-> left - ChunkPrefix(pb, Len(pb.blocksizes))]
      ELSE [lp |-> Min(hits) - 1, left |-> left - ChunkPrefix(pb, Min(hits) - 1)]

\* Seek with os.SEEK_SET
RECURSIVE SeekTo(_, _, _, _)
SeekTo(r, offset, done, fails) ==
  LET pb   == DAG[r.node]
      L    == Len(pb.data)
      ctx  == done \/ r.cancelled
      sc   == SeekChunk(pb, offset - L, r.lp)
      p    == PrecalcNextBuf([r EXCEPT !.lp = sc.lp], ctx, fails)
      cs   == IF p.r.buf.t = "bytes"
              THEN [buf |-> [p.r.buf EXCEPT !.i = sc.left], ret |-> sc.left, err |-> "none"]
              ELSE LET c == SeekTo(p.r.buf.r, sc.left, ctx, fails)
                   IN  [buf |-> Nested(c.r), ret |-> c.ret, err |-> c.err]
      r2   == [p.r EXCEPT !.buf = cs.buf]
  IN  IF offset < 0 THEN [r |-> r, ret |-> -1, err |-> "fail"]
      ELSE IF L >= offset
      THEN [r |-> [r EXCEPT !.buf = Bytes(SubSeq(pb.data, offset + 1, L)), !.lp = 0, !.off = offset],
            ret |-> offset, err |-> "none"]
      ELSE IF p.err # "none" THEN [r |-> p.r, ret |-> 0, err |-> p.err]
      ELSE IF cs.err # "none" THEN [r |-> r2, ret |-> -1, err |-> cs.err]
      ELSE IF sc.left - cs.ret # 0 THEN [r |-> r2, ret |-> -1, err |-> "fail"]
      ELSE [r |-> [r2 EXCEPT !.off = offset], ret |-> offset, err |-> "none"]

\* Seek: SEEK_CUR and SEEK_END become SEEK_SET
SeekTarget(r, offset, whence) ==
  CASE whence = "SET" -> offset
    [] whence = "CUR" -> r.off + offset
    [] whence = "END" -> DAG[r.node].filesize - offset

-----------------------------------------------------------------------------
(* The client's calls                                                      *)

\* the sets of nodes the DAGService may fail on during a call
Failures(op) == IF op \in FaultyOps THEN SUBSET Flaky ELSE {{}}

Init ==
  /\ reader = NewDagReader(Root)
  /\ last = [bytes |-> <<>>, err |-> "none"]

\* Mutation: the offset advances by the length of the buffer, not by the
\* bytes read into it.
ReadCountingBuffer(n) ==
  /\ ~reader.cancelled
  /\ \E fails \in Failures("Read") :
       LET res == ReadFrom(reader, n, <<>>, FALSE, fails)
       IN  /\ reader' = [res.r EXCEPT !.off = reader.off + n]
           /\ last' = [bytes |-> res.out, err |-> res.err]

Read(n) ==
  /\ ~reader.cancelled
  /\ \E fails \in Failures("Read") :
       LET res == ReadFrom(reader, n, <<>>, FALSE, fails)
       IN  /\ reader' = res.r
           /\ last' = [bytes |-> res.out, err |-> res.err]

\* Mutation: every error of the drain is taken for the end of the stream.
WriteToIgnoringErrors ==
  /\ ~reader.cancelled
  /\ \E fails \in Failures("WriteTo") :
       LET res == WriteFrom(reader, <<>>, FALSE, fails)
       IN  /\ reader' = res.r
           /\ last' = [bytes |-> res.out, err |-> "none"]

WriteTo ==
  /\ ~reader.cancelled
  /\ \E fails \in Failures("WriteTo") :
       LET res == WriteFrom(reader, <<>>, FALSE, fails)
       IN  /\ reader' = res.r
           /\ last' = [bytes |-> res.out, err |-> res.err]

Seek(offset, whence) ==
  /\ ~reader.cancelled
  /\ SeekTarget(reader, offset, whence) <= SeekBound
  /\ \E fails \in Failures("Seek") :
       LET res == SeekTo(reader, SeekTarget(reader, offset, whence), FALSE, fails)
       IN  /\ reader' = res.r
           /\ last' = [bytes |-> <<>>, err |-> IF res.err = "none" THEN "none" ELSE "fail"]

Close ==
  /\ reader' = [reader EXCEPT !.cancelled = TRUE]
  /\ UNCHANGED last

Next ==
  \/ \E n \in ReadSizes : Read(n)
  \/ WriteTo
  \/ \E o \in SeekOffsets, w \in Whences : Seek(o, w)
  \/ Close

Spec == Init /\ [][Next]_vars

-----------------------------------------------------------------------------
(* Properties                                                              *)

RECURSIVE ReaderOK(_)
ReaderOK(r) ==
  /\ r.node \in DOMAIN DAG
  /\ r.lp \in 0 .. Len(DAG[r.node].links)
  /\ r.off \in 0 .. DAG[r.node].filesize
  /\ r.cancelled \in BOOLEAN
  /\ \/ r.buf.t = "bytes" /\ r.buf.i \in Nat
     \/ r.buf.t = "dag" /\ ReaderOK(r.buf.r)

\* Every reader in the nesting is over a node of the DAG, its link position
\* is within the node's links and its offset within the node's file.
TypeOK ==
  /\ ReaderOK(reader)
  /\ last.err \in {"none", "EOF", "fail"}

\* Where a reader's buffers really are in its file (pos): the inline data,
\* then the chunks before linkPosition, less what the current buffer still
\* holds; and whether its offset, and every nested reader's, is that place.
RECURSIVE Position(_)
Position(r) ==
  LET inner     == IF r.buf.t = "dag" THEN Position(r.buf.r) ELSE [pos |-> 0, agree |-> TRUE]
      remaining == IF r.buf.t = "bytes" THEN Len(r.buf.s) - r.buf.i
                   ELSE DAG[r.buf.r.node].filesize - inner.pos
      pos       == Len(DAG[r.node].data) + ChunkPrefix(DAG[r.node], r.lp) - remaining
  IN  [pos |-> pos, agree |-> inner.agree /\ r.off = pos]

\* The offset field of the reader, and of every nested reader, is where its
\* buffers are: the next byte read comes from that offset.  Read, WriteTo
\* and Seek each move offset, linkPosition and buf on different lines and
\* on different error paths (precalcNextBuf, Seek).
OffsetMatchesBuffers == Position(reader).agree

\* The reader implements the byte stream of FileStream: every Read and
\* WriteTo returns the file's bytes at the reader's offset, is short only
\* with an error, ends with EOF (or WriteTo's success) only at the end of
\* the file, and a Seek lands within the file.
Stream == INSTANCE FileStream
            WITH Content <- FileBytes(Root), pos <- reader.off,
                 out <- last, closed <- reader.cancelled

Refines == Stream!Spec
=============================================================================
