---------------------------- MODULE MC_DirOverlay ---------------------------
(***************************************************************************)
(* Two names, two levels: the root starts with a file "a"; the client can  *)
(* make, add, rename, unlink, open and write entries in the root and in    *)
(* one level of subdirectories, with up to four overlays materialized.     *)
(***************************************************************************)
EXTENDS DirOverlay

MCNames == {"a", "b"}
MCData == {"e", "x"}
\* the pass run writes "x" only: a write still changes a created (empty) file
MCWriteData == {"x"}
MCRootNode == DirNode(<<[name |-> "a", node |-> FileNode("x")]>>)
MCExtNodes == {FileNode("x"), DirNode(<<>>)}
\* os.O_RDONLY: since mode|os.O_CREATE is never 0, os.O_RDWR|os.O_CREATE
\* and every other mode take the same branch
MCModes == {0}
MCBaseline == {}
\* lookups may race; the losing caller drops the overlay it was returned
MCRacing == {"racing"}
\* the losing caller goes on to write through the overlay it was returned
MCRacedWrite == {"racing", "detached"}
\* handles kept after their name was unlinked and re-created, or renamed over
MCStaleHandle == {"detached", "overwrite"}
MCOpenDir == {"opendir"}
MCRenameFile == {"renamefile"}
MCNoAddFails == {}
\* DAGService.Add may fail in the closeChild of any directory
MCAddFails == 1 .. 4
=============================================================================
