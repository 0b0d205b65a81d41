----------------------------- MODULE DirOverlay -----------------------------
(***************************************************************************)
(* The mutable directory overlay of ipnsfs/dir.go and its upward-close     *)
(* protocol (closeChild).                                                  *)
(*                                                                         *)
(* DAG nodes are immutable values compared by value, as content-addressed  *)
(* nodes are compared by hash: a directory node is its ordered links, a    *)
(* file node its data.  An overlay (Directory or file) is a handle; ov maps *)
(* each handle to its record: kind, name, parent handle (0 for the root's  *)
(* sink), current node, and for a directory its caches childDirs and files *)
(* (name -> handle, 0 when absent).  Handles are allocated from a pool of  *)
(* MaxHandles; a call that would need one more is not taken.               *)
(*                                                                         *)
(* The overlay is single-writer (spec section 5): every call is one atomic *)
(* action, including the whole chain of closeChild calls up to the root.   *)
(* The one interleaving modelled is of two concurrent lookups, which the   *)
(* spec allows and the code does not lock (RacedLookup).                  *)
(* The node operations of merkledag (RemoveNodeLink, AddNodeLinkClean) and *)
(* the file overlay of ipnsfs/file.go are not in this repository's source  *)
(* and are modelled from the spec.  DAGService.Add may fail in the        *)
(* closeChild of a directory in AddFails; its store is not observed: links *)
(* carry the nodes they point to.                                          *)
(***************************************************************************)
EXTENDS Integers, SequencesExt, Bitwise

CONSTANTS
  Names,       \* entry names
  Data,        \* file contents
  EmptyData,   \* the data of ft.FilePBData(nil, 0)
  MaxDepth,    \* the client works on paths up to this length
  MaxHandles,  \* bound on the number of overlays materialized
  RootNode,    \* the directory node the overlay root is opened on
  ExtNodes,    \* nodes the client passes to AddChild
  Modes,       \* open flags the client passes to Open
  AddFails,    \* directories whose DAGService.Add in closeChild may fail
  MaxAddFaults, \* bound on the calls that fail in DAGService.Add
  Client       \* subset of {"detached", "overwrite", "opendir", "renamefile", "racing"}: see Usable

VARIABLES
  ov,   \* handle -> overlay record
  op,   \* the last mutation: its handle and path, arguments and error
  addFaults \* the number of calls that failed in DAGService.Add so far

vars == <<ov, op, addFaults>>

Handles == 1 .. MaxHandles
Root == 1
O_CREATE == 64

-----------------------------------------------------------------------------
(* DAG nodes (merkledag, unixfs)                                            *)

DirNode(links) == [type |-> "dir", links |-> links]
FileNode(d) == [type |-> "file", data |-> d]
NoNode == [type |-> "none"]

LinksNamed(nd, n) == {i \in 1 .. Len(nd.links) : nd.links[i].name = n}
HasLink(nd, n) == LinksNamed(nd, n) # {}
\* the first link with that name, as the loops over d.node.Links find it
LinkTarget(nd, n) == nd.links[Min(LinksNamed(nd, n))].node

\* Node.RemoveNodeLink: drops the links with that name (ErrNotFound if none)
RemoveNodeLink(nd, n) == [nd EXCEPT !.links = SelectSeq(@, LAMBDA l : l.name # n)]

\* Node.AddNodeLinkClean: a link with that name replaces any earlier one
AddNodeLinkClean(nd, n, c) ==
  [nd EXCEPT !.links = Append(SelectSeq(@, LAMBDA l : l.name # n), [name |-> n, node |-> c])]

-----------------------------------------------------------------------------
(* Overlays                                                                 *)

NoCache == [n \in Names |-> 0]
Free == [kind |-> "free", name |-> "none", parent |-> 0, node |-> NoNode,
         dirs |-> NoCache, files |-> NoCache]

Result(st, err, h) == [st |-> st, err |-> err, h |-> h]

\* NewDirectory / NewFile on the first free handle
Install(st, kind, name, nd, parent) ==
  LET free == {h \in Handles : st[h].kind = "free"}
      h    == Min(free)
  IN  IF free = {} THEN Result(st, "full", 0)
      ELSE Result([st EXCEPT ![h] = [Free EXCEPT !.kind = kind, !.name = name,
                                                 !.parent = parent, !.node = nd]], "ok", h)

\* install a new overlay for n in d's cache of that kind
Cache(st, d, n, nd, kind) ==
  LET i == Install(st, kind, n, nd, d)
  IN  IF i.err # "ok" THEN i
      ELSE [i EXCEPT !.st = [@ EXCEPT ![d][IF kind = "dir" THEN "dirs" ELSE "files"][n] = i.h]]

\* Directory.childDir
ChildDir(st, d, n) ==
  LET nd == LinkTarget(st[d].node, n) IN
  IF st[d].dirs[n] # 0 THEN Result(st, "ok", st[d].dirs[n])
  ELSE IF ~HasLink(st[d].node, n) THEN Result(st, "nosuch", 0)
  ELSE IF nd.type = "dir" THEN Cache(st, d, n, nd, "dir")
  ELSE Result(st, "notdir", 0)

\* Directory.childFile
ChildFile(st, d, n) ==
  LET nd == LinkTarget(st[d].node, n) IN
  IF st[d].files[n] # 0 THEN Result(st, "ok", st[d].files[n])
  ELSE IF ~HasLink(st[d].node, n) THEN Result(st, "nosuch", 0)
  ELSE IF nd.type = "file" THEN Cache(st, d, n, nd, "file")
  ELSE Result(st, "isdir", 0)

\* Two goroutines call Child(n) on d at once.  childDir and childFile take
\* no lock, so both find the cache map without n, both make an overlay on
\* the linked node, and both write the map: the second write wins.  The
\* first caller is returned an overlay that no cache holds.  (The Go
\* runtime may instead abort on the concurrent map writes; that outcome
\* ends the process and is not modelled.)
RacedLookup(st, d, n) ==
  LET nd    == LinkTarget(st[d].node, n)
      first == Cache(st, d, n, nd, nd.type)
  IN  IF first.err # "ok" THEN first
      ELSE [Cache(first.st, d, n, nd, nd.type) EXCEPT !.h = first.h]

\* Directory.Child: a directory first, then a file
Child(st, d, n) ==
  LET cd == ChildDir(st, d, n)
      cf == ChildFile(st, d, n)
  IN  IF cd.err \in {"ok", "full"} THEN cd
      ELSE IF cf.err \in {"ok", "full"} THEN cf
      ELSE Result(st, "nosuch", 0)

\* Directory.closeChild and the d.parent.closeChild(d.name) that ends every
\* mutation; the root's parent is a sink that succeeds.  af is the
\* directory whose dserv.Add fails in this call (0: none fails).
RECURSIVE CloseChild(_, _, _, _), CloseParent(_, _, _)

\* Mutation: the link is rewritten before the child node is persisted.
CloseChildLinkingBeforeAdd(st, d, n, af) ==
  LET c   == Child(st, d, n)
      st1 == [c.st EXCEPT ![d].node = AddNodeLinkClean(RemoveNodeLink(@, n), n, c.st[c.h].node)]
  IN  IF c.err # "ok" THEN c
      ELSE IF d = af THEN Result(st1, "add", d)
      ELSE CloseParent(st1, d, af)

CloseChild(st, d, n, af) ==
  LET c == Child(st, d, n)
  IN  IF c.err # "ok" THEN c
      ELSE IF d = af THEN Result(c.st, "add", d)
      ELSE CloseParent([c.st EXCEPT ![d].node = AddNodeLinkClean(RemoveNodeLink(@, n), n, c.st[c.h].node)], d, af)
CloseParent(st, d, af) ==
  IF st[d].parent = 0 THEN Result(st, "ok", d) ELSE CloseChild(st, st[d].parent, st[d].name, af)

-----------------------------------------------------------------------------
(* Directory operations: each returns [st, err, h]                          *)

Mkdir(st, d, n, af) ==
  LET cd  == ChildDir(st, d, n)
      cf  == ChildFile(cd.st, d, n)
      cc  == CloseParent([cf.st EXCEPT ![d].node = AddNodeLinkClean(@, n, DirNode(<<>>))], d, af)
  IN  IF cd.err = "ok" THEN Result(cd.st, "exists", 0)
      ELSE IF cd.err = "full" THEN cd
      ELSE IF cf.err = "ok" THEN Result(cf.st, "exists", 0)
      ELSE IF cf.err = "full" THEN cf
      ELSE IF cc.err # "ok" THEN cc
      ELSE ChildDir(cc.st, d, n)

\* Mutation: a missing link is not reported, as closeChild tolerates it.
UnlinkIgnoringNotFound(st, d, n, af) ==
  LET st1 == [st EXCEPT ![d].dirs[n] = 0, ![d].files[n] = 0]
  IN  IF ~HasLink(st1[d].node, n) THEN Result(st1, "ok", 0)
      ELSE CloseParent([st1 EXCEPT ![d].node = RemoveNodeLink(@, n)], d, af)

Unlink(st, d, n, af) ==
  LET st1 == [st EXCEPT ![d].dirs[n] = 0, ![d].files[n] = 0]
  IN  IF ~HasLink(st1[d].node, n) THEN Result(st1, "nosuch", 0)
      ELSE CloseParent([st1 EXCEPT ![d].node = RemoveNodeLink(@, n)], d, af)

\* RenameEntry; the file branch deletes oldname from childDirs, not files
RenameEntry(st, d, a, b, af) ==
  LET cd == ChildDir(st, d, a)
      cf == ChildFile(cd.st, d, a)
      Renamed(r, put) ==
        LET st1 == [r.st EXCEPT ![r.h].name = b]
        IN  IF ~HasLink(st1[d].node, a) THEN Result(st1, "nosuch", 0)
            ELSE CloseParent([st1 EXCEPT ![d].node = AddNodeLinkClean(RemoveNodeLink(@, a), b, st1[r.h].node),
                                         ![d].dirs[a] = 0, ![d][put][b] = r.h], d, af)
  IN  IF cd.err = "ok" THEN Renamed(cd, "dirs")
      ELSE IF cd.err = "full" THEN cd
      ELSE IF cf.err = "ok" THEN Renamed(cf, "files")
      ELSE IF cf.err = "full" THEN cf
      ELSE Result(cf.st, "nosuch", 0)

\* Mutation: every added node is installed as a Directory overlay.
AddChildAsDir(st, d, n, nd, af) ==
  LET c  == Child(st, d, n)
      i  == Cache([c.st EXCEPT ![d].node = AddNodeLinkClean(@, n, nd)], d, n, nd, "dir")
  IN  IF c.err \in {"ok", "full"} THEN IF c.err = "ok" THEN Result(c.st, "exists", 0) ELSE c
      ELSE IF i.err # "ok" THEN i
      ELSE CloseParent(i.st, d, af)

AddChild(st, d, n, nd, af) ==
  LET c  == Child(st, d, n)
      i  == Cache([c.st EXCEPT ![d].node = AddNodeLinkClean(@, n, nd)], d, n, nd,
                  IF nd.type = "dir" THEN "dir" ELSE "file")
  IN  IF c.err \in {"ok", "full"} THEN IF c.err = "ok" THEN Result(c.st, "exists", 0) ELSE c
      ELSE IF i.err # "ok" THEN i
      ELSE CloseParent(i.st, d, af)

\* Directory.Open; the create test is mode|os.O_CREATE != 0
RECURSIVE Open(_, _, _, _)
Open(st, d, path, mode) ==
  LET cf == ChildFile(st, d, path[1])
      cd == ChildDir(st, d, path[1])
  IN  IF path = <<>> THEN Result(st, "isdir", 0)
      ELSE IF Len(path) = 1 THEN
        IF cf.err \in {"ok", "full"} THEN cf
        ELSE IF (mode | O_CREATE) # 0 THEN Cache(st, d, path[1], FileNode(EmptyData), "file")
        ELSE Result(st, "nosuch", 0)
      ELSE IF cd.err # "ok" THEN cd
      ELSE Open(cd.st, cd.h, Tail(path), mode)

\* file.go (from the spec): new contents replace the node, then upward close
Write(st, f, data, af) ==
  CloseParent([st EXCEPT ![f].node = FileNode(data)], f, af)
-----------------------------------------------------------------------------
(* Paths and the tree the root node stands for                              *)

RECURSIVE PathOf(_, _)
PathOf(st, h) == IF st[h].parent = 0 THEN <<>> ELSE Append(PathOf(st, st[h].parent), st[h].name)

\* h is the overlay its parent's cache holds under h's name, up to the root
RECURSIVE Attached(_, _)
Attached(st, h) ==
  \/ h = Root
  \/ LET p == st[h].parent
     IN  /\ p # 0
         /\ h \in {st[p].dirs[st[h].name], st[p].files[st[h].name]}
         /\ Attached(st, p)

Paths == BoundedSeq(Names, MaxDepth)

RECURSIVE NodeAt(_, _)
NodeAt(nd, q) ==
  IF q = <<>> THEN nd
  ELSE IF nd.type = "dir" /\ HasLink(nd, Head(q)) THEN NodeAt(LinkTarget(nd, Head(q)), Tail(q))
  ELSE NoNode

Entry(nd) == CASE nd.type = "none" -> "none" [] nd.type = "dir" -> "dir" [] nd.type = "file" -> nd.data

TreeOf(nd) == [q \in Paths |-> Entry(NodeAt(nd, q))]

-----------------------------------------------------------------------------
(* The client                                                               *)

\* The baseline client calls only overlays still attached, renames only
\* directories and only onto free names, and opens no directory as a file;
\* each element of Client lets it go beyond one of these rules.  With
\* "racing" two lookups may race (DoRacedChild); the overlay the losing
\* caller holds is detached, so only a client with "detached" calls it.
Usable(h) ==
  /\ ov[h].kind # "free"
  /\ "detached" \in Client \/ Attached(ov, h)

Visible(d, n) == HasLink(ov[d].node, n) \/ ov[d].dirs[n] # 0 \/ ov[d].files[n] # 0

Dirs == {h \in Handles : ov[h].kind = "dir" /\ Usable(h)}
FileHandles == {h \in Handles : ov[h].kind = "file" /\ Usable(h)}

NoArg == "none"
Op(kind, h, a, b, v, res) ==
  [kind |-> kind, h |-> h, path |-> PathOf(ov, h), a |-> a, b |-> b, v |-> v, err |-> res.err]

\* a call that returns res; calls needing a handle beyond MaxHandles are not taken
Call(res) ==
  /\ res.err # "full"
  /\ ov' = res.st
  /\ addFaults' = addFaults + (IF res.err = "add" THEN 1 ELSE 0)

\* the overlay Child(n) finds in d's caches: a directory first, then a file
CachedChild(d, n) == IF ov[d].dirs[n] # 0 THEN ov[d].dirs[n] ELSE ov[d].files[n]

\* The node a client reaches at path q below node nd of overlay h (0 when
\* off the overlays): the entries are the links of the node, and an entry
\* with a cached overlay shows that overlay's node.
RECURSIVE ViewAt(_, _, _)
ViewAt(h, nd, q) ==
  IF q = <<>> THEN nd
  ELSE IF nd.type # "dir" \/ ~HasLink(nd, Head(q)) THEN NoNode
  ELSE LET c == IF h = 0 THEN 0 ELSE CachedChild(h, Head(q))
       IN  ViewAt(c, IF c = 0 THEN LinkTarget(nd, Head(q)) ELSE ov[c].node, Tail(q))

ViewEntry(q) == Entry(ViewAt(Root, ov[Root].node, q))

ViewTree == [q \in Paths |-> ViewEntry(q)]

\* h and the directories above it, without the root
RECURSIVE Chain(_, _)
Chain(st, h) == IF h \in {0, Root} THEN {} ELSE {h} \cup Chain(st, st[h].parent)

\* the directory whose dserv.Add fails during a call on h, or 0: one of
\* the directories the cascade from h passes through
AddFault(h) ==
  IF addFaults < MaxAddFaults /\ h # Root
  THEN {0} \cup (AddFails \cap ({Root} \cup Chain(ov, ov[h].parent)))
  ELSE {0}

Init ==
  /\ ov = [h \in Handles |-> IF h = Root THEN [Free EXCEPT !.kind = "dir", !.node = RootNode] ELSE Free]
  /\ op = [kind |-> "none", h |-> Root, path |-> <<>>, a |-> NoArg, b |-> NoArg, v |-> NoArg, err |-> "ok"]
  /\ addFaults = 0

DoMkdir(d, n, af) ==
  /\ Len(PathOf(ov, d)) < MaxDepth
  /\ Call(Mkdir(ov, d, n, af))
  /\ op' = Op("Mkdir", d, n, NoArg, NoArg, Mkdir(ov, d, n, af))

DoUnlink(d, n, af) ==
  /\ Call(Unlink(ov, d, n, af))
  /\ op' = Op("Unlink", d, n, NoArg, NoArg, Unlink(ov, d, n, af))

DoRenameEntry(d, a, b, af) ==
  /\ "overwrite" \in Client \/ a = b \/ ~Visible(d, b)
  /\ "renamefile" \in Client \/ ChildDir(ov, d, a).err = "ok"
  /\ Call(RenameEntry(ov, d, a, b, af))
  /\ op' = Op("Rename", d, a, b, NoArg, RenameEntry(ov, d, a, b, af))

DoAddChild(d, n, nd, af) ==
  /\ Len(PathOf(ov, d)) < MaxDepth
  /\ Call(AddChild(ov, d, n, nd, af))
  /\ op' = Op("AddChild", d, n, NoArg, TreeOf(nd), AddChild(ov, d, n, nd, af))

DoOpen(d, path, mode) ==
  /\ Len(PathOf(ov, d) \o path) <= MaxDepth
  /\ "opendir" \in Client \/ ViewEntry(PathOf(ov, d) \o path) # "dir"
  /\ Call(Open(ov, d, path, mode))
  /\ UNCHANGED op

DoChild(d, n) ==
  /\ Call(Child(ov, d, n))
  /\ UNCHANGED op

\* the race needs both calls to miss the cache: childDir finds no directory
\* cached, and for a linked file childFile finds no file cached either
DoRacedChild(d, n) ==
  /\ "racing" \in Client
  /\ HasLink(ov[d].node, n)
  /\ ov[d].dirs[n] = 0
  /\ LinkTarget(ov[d].node, n).type = "dir" \/ ov[d].files[n] = 0
  /\ Call(RacedLookup(ov, d, n))
  /\ UNCHANGED op

DoWrite(f, data, af) ==
  /\ Call(Write(ov, f, data, af))
  /\ op' = Op("Write", f, NoArg, NoArg, data, Write(ov, f, data, af))

Next ==
  \/ \E d \in Dirs, n \in Names :
       \/ DoChild(d, n)
       \/ DoRacedChild(d, n)
       \/ \E af \in AddFault(d) :
            \/ DoMkdir(d, n, af)
            \/ DoUnlink(d, n, af)
            \/ \E b \in Names : DoRenameEntry(d, n, b, af)
            \/ \E nd \in ExtNodes : DoAddChild(d, n, nd, af)
  \/ \E d \in Dirs, path \in BoundedSeq(Names, 2) \ {<<>>}, mode \in Modes : DoOpen(d, path, mode)
  \/ \E f \in FileHandles, data \in Data : \E af \in AddFault(f) : DoWrite(f, data, af)

Spec == Init /\ [][Next]_vars

------------------------------------------------------------------------\* an attached overlay whose parent links an older node under its name
Stale(st, h) ==
  LET p == st[h].parent IN
  /\ h # Root /\ st[h].kind # "free" /\ Attached(st, h)
  /\ HasLink(st[p].node, st[h].name)
  /\ LinkTarget(st[p].node, st[h].name) # st[h].node

StaleSet(st) == {h \in Handles : Stale(st, h)}

\* the operation as FsTree sees it, applied or not
AbsOp(partial) ==
  [kind |-> op.kind, path |-> op.path, a |-> op.a, b |-> op.b, v |-> op.v,
   ok |-> op.err = "ok", partial |-> partial]

-----
(* Properties                                                               *)

\* Every overlay is free, or a Directory over a directory node, or a file
\* over a file node; parents and cache entries are handles.
TypeOK ==
  /\ \A h \in Handles :
       /\ ov[h].kind \in {"free", "dir", "file"}
       /\ ov[h].kind # "free" => ov[h].node.type = ov[h].kind
       /\ ov[h].parent \in 0 .. MaxHandles
       /\ ov[h].dirs \in [Names -> 0 .. MaxHandles]
       /\ ov[h].files \in [Names -> 0 .. MaxHandles]
  /\ op.err \in {"ok", "exists", "nosuch", "notdir", "isdir", "add"}
  /\ op.h \in Handles
  /\ addFaults \in 0 .. MaxAddFaults

\* A call that returns nil leaves no stale link between the overlay it was
\* called on and the root, and makes no link stale anywhere else: the
\* closeChild cascade relinks every level.  A call that fails, in a
\* lookup or in a dserv.Add partway up the cascade (dir.go:82), leaves
\* the root node as it was, so an observer of the root sees the pre-state
\* (spec section 5); the links it leaves stale are the ones below the
\* directory whose Add failed.
SyncedByCloses ==
  [][op' # op =>
       /\ op'.err = "ok" => StaleSet(ov') \subseteq StaleSet(ov) \ Chain(ov', op'.h)
       /\ op'.err # "ok" => ov'[Root].node = ov[Root].node]_vars

\* What a client reads through the overlay changes exactly as each call
\* that returned nil says.  A call that failed in a dserv.Add of the
\* cascade changed it as the call says or not at all: its change stays in
\* the overlays below the failing directory, where a later close above
\* them publishes it (spec section 7, retry on the next mutation).  Any
\* other failed call leaves it unchanged.
View == INSTANCE FsTree WITH fs <- ViewTree, op <- AbsOp(op.err = "add"),
                             Start <- TreeOf(RootNode)

ClientViewRefines == View!Spec

\* When no dserv.Add fails, the root node, read as a tree, changes exactly
\* as each successful mutation says, at the path of the overlay it was
\* called on, and not at all when a call fails.
Tree == INSTANCE FsTree WITH fs <- TreeOf(ov[Root].node), op <- AbsOp(FALSE),
                             Start <- TreeOf(RootNode)

Refines == Tree!Spec
=============================================================================
