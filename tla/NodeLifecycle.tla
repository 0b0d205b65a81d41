---------------------------- MODULE NodeLifecycle ----------------------------
(***************************************************************************)
(* Construction, online start, bootstrap and teardown of an IpfsNode      *)
(* (core.go, src/unnamed/part_000).                                        *)
(*                                                                         *)
(* The node is a record of its fields; a field that holds a closer names   *)
(* the resource it holds ("nil" when unset).  rs is the life of every      *)
(* closable resource: "unused", "open" or "closed".  The repo is opened by *)
(* the caller and handed in.  Each public call runs on the caller's        *)
(* goroutine and is one atomic action; every external constructor it      *)
(* calls (loadPrivateKey, the host and routing options, NewFilesystem,     *)
(* startListening, Bootstrap, ...) may fail, and the point at which a call *)
(* fails is chosen by \E fp \in Faults(call) ("none": nothing fails).     *)
(* A nil dereference is a panic: built becomes "panic" and nothing more    *)
(* happens.  The caller's calls are construction (Offline or Online),      *)
(* SetupOfflineRouting, Bootstrap and Close; startOnlineServices is        *)
(* unexported and runs only inside an online construction.                 *)
(***************************************************************************)
EXTENDS Naturals, Sequences, FiniteSets

CONSTANTS
  Modes,       \* subset of {"offline", "online"}: what the caller constructs
  Boots,       \* sequence of ids for successive bootstrappers
  FaultPoints  \* [call -> set of steps at which that call may fail]

VARIABLES
  n,        \* the IpfsNode (n.exists = FALSE: no node, the nil pointer)
  rs,       \* resource -> "unused" | "open" | "closed"
  boots,    \* bootstrappers created so far
  built,    \* "none" | "ok" | "failed" | "panic"
  closed,   \* the node's ContextGroup has been closed (teardown ran)
  last      \* [call, fp, err] of the last call made

vars == <<n, rs, boots, built, closed, last>>

Res == {"repo", "bserv", "host", "dht", "bitswap", "ipnsfs"} \cup {Boots[i] : i \in 1 .. Len(Boots)}

\* the mode constants: offlineMode, onlineMode
NoNode ==
  [exists |-> FALSE, mode |-> "invalid", identity |-> FALSE, privkey |-> FALSE,
   peerstore |-> FALSE, blockstore |-> FALSE, ctxg |-> FALSE, dag |-> FALSE,
   namesys |-> FALSE, blocks |-> "nil", exchange |-> "nil", routing |-> "nil",
   peerhost |-> "nil", ipnsfs |-> "nil", bootstrapper |-> "nil"]

Faults(call) == FaultPoints[call] \cup {"none"}

Open(r, x) == [r EXCEPT ![x] = "open"]
Shut(r, x) == IF x \in Res THEN [r EXCEPT ![x] = "closed"] ELSE r

\* a call's outcome: the node, the resources, bootstrappers made, error
Out(nd, r, b, err) == [n |-> nd, rs |-> r, boots |-> b, err |-> err]

-----------------------------------------------------------------------------
(* Methods of IpfsNode                                                      *)

\* LoadPrivateKey: ordering guards, then loadPrivateKey from the config
LoadPrivateKey(o, fp) ==
  IF ~o.n.identity \/ ~o.n.peerstore THEN [o EXCEPT !.err = "order"]
  ELSE IF o.n.privkey THEN [o EXCEPT !.err = "keyloaded"]
  ELSE IF fp = "privkey" THEN [o EXCEPT !.err = "privkey"]
  ELSE [o EXCEPT !.n.privkey = TRUE]

\* Mutation: the running bootstrapper is not stopped before it is replaced.
BootstrapKeepingPrevious(o, fp) ==
  LET b == Boots[o.boots + 1]
  IN  IF o.n.routing = "nil" THEN o
      ELSE IF fp = "bootstrap" THEN [o EXCEPT !.n.bootstrapper = "nil", !.err = "bootstrap"]
      ELSE [o EXCEPT !.n.bootstrapper = b, !.rs = Open(@, b), !.boots = @ + 1]

\* Bootstrap: nothing without routing; the previous bootstrapper is closed
\* before the new one is made; on error the field is left nil
Bootstrap(o, fp) ==
  LET o1 == [o EXCEPT !.rs = Shut(@, o.n.bootstrapper)]
      b  == Boots[o.boots + 1]
  IN  IF o.n.routing = "nil" THEN o
      ELSE IF fp = "bootstrap" THEN [o1 EXCEPT !.n.bootstrapper = "nil", !.err = "bootstrap"]
      ELSE [o1 EXCEPT !.n.bootstrapper = b, !.rs = Open(@, b), !.boots = @ + 1]

\* startOnlineServicesWithHost: routing, the routed host, bitswap, namesys,
\* then the ipns filesystem on n.Context()
StartOnlineServicesWithHost(o, fp) ==
  LET o1 == [o EXCEPT !.n.routing = "dht", !.n.peerhost = "host", !.n.exchange = "bitswap",
                      !.n.namesys = TRUE, !.rs = Open(Open(@, "dht"), "bitswap")]
  IN  IF fp = "routing" THEN [o EXCEPT !.err = "routing"]
      ELSE IF ~o1.n.ctxg THEN [o1 EXCEPT !.err = "panic"]
      ELSE IF fp = "ipnsfs" THEN [o1 EXCEPT !.err = "ipnsfs"]
      ELSE [o1 EXCEPT !.n.ipnsfs = "ipnsfs", !.rs = Open(@, "ipnsfs")]

\* startOnlineServices: the "already online" guard, the key, the host (a
\* local until startOnlineServicesWithHost stores it), listening, bootstrap
StartOnlineServices(o, fp) ==
  LET k  == LoadPrivateKey(o, fp)
      h  == [k EXCEPT !.rs = Open(@, "host")]
      w  == StartOnlineServicesWithHost(h, fp)
      bt == Bootstrap(w, fp)
  IN  IF o.n.peerhost # "nil" THEN [o EXCEPT !.err = "online"]
      ELSE IF k.err # "none" THEN k
      ELSE IF fp = "host" THEN [k EXCEPT !.err = "host"]
      ELSE IF w.err # "none" THEN w
      ELSE IF fp = "listen" THEN [w EXCEPT !.err = "listen"]
      ELSE IF bt.err # "none" THEN bt
      ELSE bt

\* the closers in the order teardown calls them: Blocks, Exchange and Repo,
\* then IpnsFs, Bootstrapper, the DHT and PeerHost when set
Closers(o) ==
  SelectSeq(<<o.n.blocks, o.n.exchange, "repo", o.n.ipnsfs, o.n.bootstrapper,
              IF o.n.routing = "dht" THEN "dht" ELSE "nil", o.n.peerhost>>,
            LAMBDA c : c # "nil")

\* Close is called on each closer of cs ("closed": Close was called, whatever
\* it returned); the error is the one of the closer fp, if it is among them
CloseAll(o, cs, fp) ==
  LET called == {cs[i] : i \in 1 .. Len(cs)}
  IN  [o EXCEPT !.rs = [x \in Res |-> IF x \in called THEN "closed" ELSE @[x]],
                !.err = IF fp \in called THEN "close" ELSE "none"]

\* Mutation: teardown returns at the first closer that fails.
TeardownStoppingAtError(o, fp) ==
  LET cs   == Closers(o)
      fail == {i \in 1 .. Len(cs) : cs[i] = fp}
  IN  IF o.n.blocks = "nil" \/ o.n.exchange = "nil" THEN [o EXCEPT !.err = "panic"]
      ELSE CloseAll(o, IF fail = {} THEN cs ELSE SubSeq(cs, 1, CHOOSE i \in fail : TRUE), fp)

\* teardown: a nil Blocks or Exchange panics; every closer is called
\* whatever the others return, and the first error is returned
Teardown(o, fp) ==
  IF o.n.blocks = "nil" \/ o.n.exchange = "nil" THEN [o EXCEPT !.err = "panic"]
  ELSE CloseAll(o, Closers(o), fp)

\* SetupOfflineRouting: the key, then an offline router and its namesys
SetupOfflineRouting(o, fp) ==
  LET k == LoadPrivateKey(o, fp)
  IN  IF k.err # "none" THEN k
      ELSE [k EXCEPT !.n.routing = "offline", !.n.namesys = TRUE]

\* the ConfigOption of standardWithRouting; its named result n is nil on
\* every error return, so the deferred "!success && n != nil" teardown
\* never runs
StandardWithRouting(o, online, fp) ==
  LET n0 == [NoNode EXCEPT !.exists = TRUE, !.peerstore = TRUE,
                           !.mode = IF online THEN "online" ELSE "offline"]
      o1 == [o EXCEPT !.n = [n0 EXCEPT !.identity = TRUE, !.blockstore = TRUE]]
      so == StartOnlineServices(o1, fp)
      Fail(x) == [x EXCEPT !.n = NoNode]
  IN  IF fp = "loadID" THEN Fail([o EXCEPT !.err = "loadID"])
      ELSE IF fp = "blockstore" THEN Fail([o EXCEPT !.err = "blockstore"])
      ELSE IF ~online THEN [o1 EXCEPT !.n.exchange = "offline"]
      ELSE IF so.err = "panic" THEN so
      ELSE IF so.err # "none" THEN Fail(so)
      ELSE so

\* NewIPFSNode: the option on a fresh ContextGroup (closed, with no teardown
\* set yet, when the option fails), then blockservice, DAG and pinner
NewIPFSNode(online, fp) ==
  LET op == StandardWithRouting(Out(NoNode, rs, boots, "none"), online, fp)
  IN  IF op.err # "none" THEN op
      ELSE [op EXCEPT !.n.ctxg = TRUE, !.n.blocks = "bserv", !.n.dag = TRUE,
                      !.rs = Open(@, "bserv")]

-----------------------------------------------------------------------------
(* The caller                                                               *)

Init ==
  /\ n = NoNode
  /\ rs = [x \in Res |-> IF x = "repo" THEN "open" ELSE "unused"]
  /\ boots = 0
  /\ built = "none"
  /\ closed = FALSE
  /\ last = [call |-> "none", fp |-> "none", err |-> "none"]

\* the caller holds a live, built node
Live == built = "ok" /\ ~closed

\* a call that may make a bootstrapper is made only while ids remain
CanBoot == boots < Len(Boots)

Record(call, fp, o) ==
  /\ n' = o.n
  /\ rs' = o.rs
  /\ boots' = o.boots
  /\ last' = [call |-> call, fp |-> fp, err |-> o.err]

Construct(mode) ==
  /\ built = "none"
  /\ \E fp \in Faults("Construct") :
       LET o == NewIPFSNode(mode = "online", fp)
       IN  /\ Record("Construct", fp, o)
           /\ built' = CASE o.err = "none" -> "ok" [] o.err = "panic" -> "panic" [] OTHER -> "failed"
           /\ UNCHANGED closed

\* the effect of a call on a live node that returned o
Returned(call, fp, o) ==
  /\ Record(call, fp, o)
  /\ built' = IF o.err = "panic" THEN "panic" ELSE built
  /\ UNCHANGED closed

DoSetupOfflineRouting ==
  /\ Live
  /\ \E fp \in Faults("SetupOfflineRouting") :
       Returned("SetupOfflineRouting", fp, SetupOfflineRouting(Out(n, rs, boots, "none"), fp))

DoBootstrap ==
  /\ Live /\ CanBoot
  /\ \E fp \in Faults("Bootstrap") :
       Returned("Bootstrap", fp, Bootstrap(Out(n, rs, boots, "none"), fp))

\* ContextGroup.Close on the built node runs teardown once; fp is the
\* closer whose Close fails
Close ==
  /\ Live
  /\ \E fp \in Faults("Close") :
       LET o == Teardown(Out(n, rs, boots, "none"), fp)
       IN  /\ Record("Close", fp, o)
           /\ built' = IF o.err = "panic" THEN "panic" ELSE built
           /\ closed' = TRUE

Next ==
  \/ \E mode \in Modes : Construct(mode)
  \/ DoSetupOfflineRouting
  \/ DoBootstrap
  \/ Close

Spec == Init /\ [][Next]_vars

-----------------------------------------------------------------------------
(* Properties                                                               *)

\* What the node's fields reach, and so what teardown can close.
Reachable == {n.blocks, n.exchange, n.routing, n.peerhost, n.ipnsfs, n.bootstrapper}

\* Every open resource other than the caller's repo is held by a field of
\* the node (there is no node after a failed construction): no step of
\* construction or Bootstrap drops its last handle to something still open
\* (a host made before a failing routing option, a bootstrapper replaced
\* without Close).
NoOrphanedResource ==
  built # "panic" => \A x \in Res \ {"repo"} : rs[x] = "open" => x \in Reachable

\* Once the node is closed nothing it opened is still open: teardown
\* reaches every closer the node holds, whatever calls came before and
\* whichever closer's Close fails (the loop does not stop at an error).
ClosedNodeHoldsNothing ==
  closed /\ built # "panic" => \A x \in Res : rs[x] # "open"

\* Constructing a node never panics.
NoPanic == built # "panic"

=============================================================================
