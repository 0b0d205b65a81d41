------------------------------- MODULE FsTree -------------------------------
(***************************************************************************)
(* What the mutable directory overlay promises: a tree of named            *)
(* directories and files, changed one operation at a time.  A successful  *)
(* operation changes the tree exactly as its name says, at the path of the *)
(* handle it was called on; a failed one leaves the tree as it was, unless *)
(* it failed while persisting its change (partial), when it may have taken *)
(* effect or not.                                                          *)
(* The tree maps every path (a sequence of names, up to MaxDepth long) to  *)
(* "none", "dir" or the data of the file there.  DirOverlay refines it.    *)
(***************************************************************************)
EXTENDS Naturals, SequencesExt

CONSTANTS
  Names,      \* names of entries
  Data,       \* contents a file can have
  MaxDepth,   \* longest path
  Start       \* the tree the overlay is opened on

VARIABLES
  fs,         \* path -> "none" | "dir" | data
  op          \* the last operation: [kind, path, a, b, v, ok, partial]

vars == <<fs, op>>

Paths == BoundedSeq(Names, MaxDepth)

Entries == {"none", "dir"} \cup Data

Below(p, q) == IsPrefix(p, q)

\* the tree that a node value stands for, placed at path p
Place(t, p, sub) ==
  [q \in Paths |-> IF Below(p, q) THEN sub[SubSeq(q, Len(p) + 1, Len(q))] ELSE t[q]]

\* the subtree rooted at p, as a tree of its own
Subtree(t, p) ==
  [q \in Paths |-> IF Len(p) + Len(q) <= MaxDepth THEN t[p \o q] ELSE "none"]

Pre(t, o) ==
  LET p == o.path IN
  CASE o.kind = "Mkdir"    -> t[p] = "dir" /\ t[Append(p, o.a)] = "none"
    [] o.kind = "AddChild" -> t[p] = "dir" /\ t[Append(p, o.a)] = "none"
    [] o.kind = "Unlink"   -> t[p] = "dir" /\ t[Append(p, o.a)] # "none"
    [] o.kind = "Rename"   -> t[p] = "dir" /\ t[Append(p, o.a)] # "none"
    [] o.kind = "Write"    -> p # <<>> /\ t[Front(p)] = "dir" /\ t[p] # "dir"
    [] OTHER               -> FALSE

Apply(t, o) ==
  LET p == o.path IN
  CASE o.kind = "Mkdir"    -> [t EXCEPT ![Append(p, o.a)] = "dir"]
    [] o.kind = "AddChild" -> Place(t, Append(p, o.a), o.v)
    [] o.kind = "Unlink"   -> Place(t, Append(p, o.a), [q \in Paths |-> "none"])
    [] o.kind = "Rename"   ->
         Place(Place(t, Append(p, o.a), [q \in Paths |-> "none"]),
               Append(p, o.b), Subtree(t, Append(p, o.a)))
    [] o.kind = "Write"    -> [t EXCEPT ![p] = o.v]

Init ==
  /\ fs = Start
  /\ op = [kind |-> "none", path |-> <<>>, a |-> "none", b |-> "none", v |-> "none", ok |-> TRUE, partial |-> FALSE]

\* one operation, recorded in op: it succeeds only where it applies, and
\* then applies; a partial failure applies or leaves the tree
Step ==
  LET t == fs
      u == fs'
      applied == Pre(t, op') /\ u = Apply(t, op')
  IN  IF op'.ok THEN applied
      ELSE IF op'.partial THEN applied \/ u = t
      ELSE u = t

Spec == Init /\ [][Step]_vars
=============================================================================
